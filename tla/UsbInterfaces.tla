--------------------------- MODULE UsbInterfaces ----------------------------
(***************************************************************************)
(* The interfaces of an open device: claiming and releasing, kernel        *)
(* drivers, alternate settings, configuration and reset (core.c and        *)
(* linux_usbfs.c), called on one handle by several threads.  dev->lock     *)
(* protects claimed_interfaces, but a reset gives the interfaces back      *)
(* before it takes the lock, and an alternate setting is selected after it *)
(* was given up.                                                           *)
(***************************************************************************)
EXTENDS Naturals, FiniteSets

CONSTANTS
  Users,        \* threads of the program
  Ifaces,       \* interface numbers of the device
  HasDriver,    \* those a kernel driver exists for
  Configs, FirstConfig, \* configuration values; the one active at the start
  MaxOps        \* bound on the operations

VARIABLES
  bound,        \* in the kernel: "nobody", "driver" or "handle", per interface
  alt,          \* in the kernel: altsetting other than the first, per interface
  config,       \* the active configuration
  there,        \* the device is plugged in
  claimed,      \* handle->claimed_interfaces
  autoDetach,   \* auto_detach_kernel_driver
  handleLock,   \* dev->lock
  doing, left,  \* per thread: the operation, the interfaces it has left to do
  lost,         \* a reset failed, or the device went
  ops

ifVars == <<bound, alt, config, there, claimed, autoDetach, handleLock,
            doing, left, lost, ops>>

Init ==
  /\ bound = [i \in Ifaces |-> IF i \in HasDriver THEN "driver" ELSE "nobody"]
  /\ alt = {} /\ config = FirstConfig
  /\ there = TRUE /\ claimed = {} /\ autoDetach = FALSE /\ handleLock = "free"
  /\ doing = [u \in Users |-> "none"] /\ left = [u \in Users |-> {}]
  /\ lost = FALSE /\ ops = 0

\* A call begins; attached is still set some time after the device went.
Begin(u) == doing[u] = "none" /\ ops < MaxOps /\ ops' = ops + 1
BeginLocked(u) == Begin(u) /\ handleLock = "free"

-----------------------------------------------------------------------------
(* usbfs.  Each request answers whether it did what it was asked.          *)

Take(i) == there /\ bound[i] \in {"nobody", "handle"}
GiveBack(i) == there /\ bound[i] = "handle"

\* claim_interface, or detach_kernel_driver_and_claim: IOCTL_USBFS_DISCONNECT_CLAIM
\* and, where the kernel lacks it, op_detach_kernel_driver first
CanClaim(i) == Take(i) \/ (autoDetach /\ there /\ bound[i] = "driver")
CanReclaim(i) == there

\* op_attach_kernel_driver: the driver may refuse.
AfterRelease(i, ok) == IF autoDetach /\ ok /\ i \in HasDriver THEN "driver" ELSE "nobody"

Unplug ==
  /\ there /\ there' = FALSE /\ lost' = TRUE
  /\ bound' = [i \in Ifaces |-> "nobody"]
  /\ UNCHANGED <<alt, config, claimed, autoDetach, handleLock, doing, left, ops>>

-----------------------------------------------------------------------------
(* Calls made under the lock.                                              *)

\* libusb_claim_interface: nothing to do for one already claimed
ClaimInterface(u, i) ==
  /\ BeginLocked(u) /\ i \notin claimed /\ CanClaim(i)
  /\ bound' = [bound EXCEPT ![i] = "handle"] /\ claimed' = claimed \union {i}
  /\ UNCHANGED <<alt, config, there, autoDetach, handleLock, doing, left, lost>>

\* libusb_release_interface, which the kernel also resets to the first altsetting
ReleaseInterface(u, i, ok) ==
  /\ BeginLocked(u) /\ i \in claimed /\ GiveBack(i)
  /\ bound' = [bound EXCEPT ![i] = AfterRelease(i, ok)] /\ claimed' = claimed \ {i}
  /\ alt' = alt \ {i}
  /\ UNCHANGED <<config, there, autoDetach, handleLock, doing, left, lost>>

-----------------------------------------------------------------------------
(* Calls made without it.                                                  *)

SetAutoDetach(u, enable) ==
  /\ Begin(u) /\ autoDetach # enable /\ autoDetach' = enable
  /\ UNCHANGED <<bound, alt, config, there, claimed, handleLock, doing, left,
                 lost>>

\* libusb_detach_kernel_driver refuses to detach usbfs itself.
DetachKernelDriver(u, i) ==
  /\ Begin(u) /\ there /\ bound[i] = "driver" /\ bound' = [bound EXCEPT ![i] = "nobody"]
  /\ UNCHANGED <<alt, config, there, claimed, autoDetach, handleLock, doing,
                 left, lost>>
AttachKernelDriver(u, i) ==
  /\ Begin(u) /\ there /\ bound[i] = "nobody" /\ i \in HasDriver
  /\ bound' = [bound EXCEPT ![i] = "driver"]
  /\ UNCHANGED <<alt, config, there, claimed, autoDetach, handleLock, doing,
                 left, lost>>

\* libusb_set_configuration: EBUSY while any interface has a driver
SetConfiguration(u, c) ==
  /\ Begin(u) /\ there /\ (\A i \in Ifaces : bound[i] = "nobody")
  /\ config' = c /\ alt' = {}
  /\ UNCHANGED <<bound, there, claimed, autoDetach, handleLock, doing, left, lost>>

\* libusb_set_interface_alt_setting: the check, then the request.  usbfs claims an
\* interface for a handle that uses it without having claimed it, if it can.
CheckAlt(u, i) ==
  /\ BeginLocked(u) /\ i \in claimed
  /\ doing' = [doing EXCEPT ![u] = "alt"] /\ left' = [left EXCEPT ![u] = {i}]
  /\ UNCHANGED <<bound, alt, config, there, claimed, autoDetach, handleLock,
                 lost>>
SetAlt(u) ==
  /\ doing[u] = "alt" /\ doing' = [doing EXCEPT ![u] = "none"]
  /\ LET i == CHOOSE j \in left[u] : TRUE
     IN IF Take(i)
          THEN alt' = alt \union {i} /\ bound' = [bound EXCEPT ![i] = "handle"]
          ELSE UNCHANGED <<alt, bound>>
  /\ left' = [left EXCEPT ![u] = {}]
  /\ UNCHANGED <<config, there, claimed, autoDetach, handleLock, lost, ops>>

-----------------------------------------------------------------------------
(* libusb_reset_device.                                                    *)

BeginReset(u) ==
  /\ Begin(u) /\ doing' = [doing EXCEPT ![u] = "releasing"]
  /\ left' = [left EXCEPT ![u] = Ifaces]
  /\ UNCHANGED <<bound, alt, config, there, claimed, autoDetach, handleLock,
                 lost>>
\* for each claimed interface, without the lock: release_interface
ResetReleases(u, i) ==
  /\ doing[u] = "releasing" /\ i \in left[u] /\ left' = [left EXCEPT ![u] = @ \ {i}]
  /\ IF i \in claimed /\ GiveBack(i)
       THEN bound' = [bound EXCEPT ![i] = "nobody"] /\ alt' = alt \ {i}
       ELSE UNCHANGED <<bound, alt>>
  /\ UNCHANGED <<config, there, claimed, autoDetach, handleLock, doing, lost,
                 ops>>

\* IOCTL_USBFS_RESET: the kernel takes usbfs off the interfaces it still has and
\* binds them to their drivers.  When it fails the claims are not restored.
Reset(u, ok) ==
  /\ doing[u] = "releasing" /\ left[u] = {} /\ handleLock = "free" /\ (ok => there)
  /\ IF ok
       THEN /\ bound' = [i \in Ifaces |->
                IF bound[i] # "handle" THEN bound[i]
                ELSE IF i \in HasDriver THEN "driver" ELSE "nobody"]
            /\ alt' = {} /\ handleLock' = u /\ doing' = [doing EXCEPT ![u] = "reclaiming"]
            /\ left' = [left EXCEPT ![u] = claimed] /\ UNCHANGED lost
       ELSE /\ lost' = TRUE /\ doing' = [doing EXCEPT ![u] = "none"]
            /\ UNCHANGED <<bound, alt, handleLock, left>>
  /\ UNCHANGED <<config, there, claimed, autoDetach, ops>>

\* Mutant: the bit of an interface that could not be claimed again stays.
KeepsBit(i) == claimed
\* handle->claimed_interfaces &= ~(1L << i)
ClearsBit(i) == claimed \ {i}

\* detach_kernel_driver_and_claim, whatever auto_detach_kernel_driver says
Reclaim(u, i, ok) ==
  /\ doing[u] = "reclaiming" /\ i \in left[u] /\ left' = [left EXCEPT ![u] = @ \ {i}]
  /\ IF ok /\ CanReclaim(i)
       THEN bound' = [bound EXCEPT ![i] = "handle"] /\ UNCHANGED claimed
       ELSE claimed' = ClearsBit(i) /\ UNCHANGED bound
  /\ UNCHANGED <<alt, config, there, autoDetach, handleLock, doing, lost, ops>>
ResetDone(u) ==
  /\ doing[u] = "reclaiming" /\ left[u] = {} /\ handleLock' = "free"
  /\ doing' = [doing EXCEPT ![u] = "none"]
  /\ UNCHANGED <<bound, alt, config, there, claimed, autoDetach, left, lost,
                 ops>>

Next ==
  \/ Unplug
  \/ \E u \in Users :
       \/ SetAlt(u) \/ BeginReset(u) \/ ResetDone(u)
       \/ \E ok \in BOOLEAN : Reset(u, ok) \/ SetAutoDetach(u, ok)
       \/ \E c \in Configs : SetConfiguration(u, c)
       \/ \E i \in Ifaces :
            \/ ClaimInterface(u, i) \/ CheckAlt(u, i) \/ ResetReleases(u, i)
            \/ DetachKernelDriver(u, i) \/ AttachKernelDriver(u, i)
            \/ \E ok \in BOOLEAN : ReleaseInterface(u, i, ok) \/ Reclaim(u, i, ok)

Spec == Init /\ [][Next]_ifVars

-----------------------------------------------------------------------------
TypeOK ==
  /\ bound \in [Ifaces -> {"nobody", "driver", "handle"}] /\ alt \subseteq Ifaces
  /\ claimed \subseteq Ifaces /\ handleLock \in Users \union {"free"}
  /\ left \in [Users -> SUBSET Ifaces]

\* An interface the library takes for claimed belongs to the handle, between
\* resets: whatever other threads claim, release or reset meanwhile, a second claim
\* that answers success without asking the kernel is right.  Not so after a reset
\* the kernel refused, which has given the interfaces back and keeps the bits.
ClaimedIsOwned ==
  ~lost /\ (\A u \in Users : doing[u] \notin {"releasing", "reclaiming"}) =>
    \A i \in claimed : bound[i] = "handle"

\* A claimed interface that is not the handle's is one a reset has still to claim
\* again.
DoingInv ==
  /\ doing \in [Users -> {"none", "alt", "releasing", "reclaiming"}]
  /\ \A u \in Users : doing[u] = "alt" => \E i \in Ifaces : left[u] = {i}
ResetInv ==
  ~lost => \A i \in claimed :
    \/ bound[i] = "handle"
    \/ \E u \in Users : doing[u] = "releasing" \/ (doing[u] = "reclaiming" /\ i \in left[u])
IndInv == TypeOK /\ DoingInv /\ ResetInv
=============================================================================
