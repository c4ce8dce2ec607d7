--------------------------- MODULE CameraCommands ---------------------------
(***************************************************************************)
(* The commands of the Kinect's camera (flags.c) and the calls made of     *)
(* them (cameras.c): initialisation, modes, starting and stopping streams, *)
(* flags.  A command is written with a tag, and the answer is read back;   *)
(* either transfer may fail, and an answer that was not read may stay with *)
(* the camera and be read as the answer to a later command.  Polling again *)
(* on an answer of length 0 or 0x200 is no step.  Register writes with     *)
(* fixed values count as one.  A register whose bits are all on, which     *)
(* freenect_set_flag takes for a failure, is left out.                     *)
(***************************************************************************)
EXTENDS Naturals, Sequences

CONSTANTS
  Flags,       \* the bits of CMOS register 0x0106
  VideoModes, DepthModes, Registered,   \* modes; depth modes that need tables
  IsK4W,       \* the camera is a Kinect for Windows
  TagModulus,  \* 2^16 in the code
  MaxCalls, MaxFaults

Streams == {"depth", "video"}
ModesOf == [depth |-> DepthModes, video |-> VideoModes]

VARIABLES
  tag,         \* dev->cam_tag
  answers,     \* what the camera has not been asked for yet: [tag, to, val], where "to"
               \* is the command that is answered
  cmos,        \* flags that are on in the camera
  near,        \* the two registers of the near mode
  streaming,   \* the camera sends this stream
  api, todo,   \* the call in progress, and the commands it still has to send
  waiting,     \* send_cmd has written its command
  ready,       \* freenect_camera_init has succeeded
  mode, started, running, tables,   \* fields of freenect_device
  before,      \* history: cmos when the call began
  unread,      \* history: an answer to a command of the call was not read
  calls, faults

cmdVars == <<tag, answers, cmos, near, streaming, api, todo, waiting, ready, mode,
             started, running, tables, before, unread, calls, faults>>
cameraVars == <<cmos, near, streaming>>
streamVars == <<mode, started, running, tables>>

Init ==
  /\ tag = 0 /\ answers = <<>> /\ cmos \in SUBSET Flags /\ near = <<FALSE, FALSE>>
  /\ streaming = {} /\ api = <<"none">> /\ todo = <<>> /\ waiting = FALSE /\ ready = FALSE
  /\ mode = [s \in Streams |-> "none"] /\ started = [s \in Streams |-> "none"]
  /\ running = [s \in Streams |-> FALSE] /\ tables = FALSE
  /\ before = {} /\ unread = FALSE /\ calls = 0 /\ faults = 0

\* A command: what it does, and whether its failure ends the call
Cmd(op, arg, must) == [op |-> op, arg |-> arg, must |-> must]

Idle == api = <<"none">>
Call(name, cmds) ==
  /\ Idle /\ calls < MaxCalls /\ calls' = calls + 1
  /\ api' = name /\ todo' = cmds
  /\ before' = cmos /\ unread' = FALSE

-----------------------------------------------------------------------------
(* send_cmd.                                                               *)

\* What the camera does on receiving a command, and the value it answers
Effect(c) ==
  /\ cmos' = IF c.op = "writeCmos" THEN c.arg ELSE cmos
  /\ near' = IF c.op = "near" THEN [near EXCEPT ![c.arg[1]] = c.arg[2]] ELSE near
  /\ streaming' = CASE c.op = "start" -> streaming \cup {c.arg}
                    [] c.op = "stop" -> streaming \ {c.arg}
                    [] OTHER -> streaming

Write ==
  /\ todo # <<>> /\ ~waiting
  /\ Effect(Head(todo)) /\ waiting' = TRUE
  /\ answers' = Append(answers, [tag |-> tag, to |-> Head(todo), val |-> cmos'])
  /\ UNCHANGED <<tag, api, todo, ready, streamVars, before, unread, calls, faults>>

\* A failed command ends the call, or is passed over.
Failed == todo' = IF Head(todo).must THEN <<>> ELSE Tail(todo)
CallFails == Head(todo).must

WriteFails ==
  /\ todo # <<>> /\ ~waiting /\ faults < MaxFaults
  /\ faults' = faults + 1 /\ Failed
  /\ api' = IF CallFails THEN <<"failed">> ELSE api
  /\ UNCHANGED <<tag, answers, cameraVars, waiting, ready, streamVars, before, unread,
                 calls>>

\* freenect_set_flag, once it has the value of the register
Modified(flag, on, val) == IF on THEN val \cup {flag} ELSE val \ {flag}

\* The next command, after one that was answered with val
Continue(val) ==
  todo' = IF Head(todo).op = "readCmos"
            THEN <<Cmd("writeCmos", Modified(api[2], api[3], val), TRUE)>>
            ELSE Tail(todo)

\* The number of a command.  One serves for reading and writing the register of the flags,
\* one for all other registers, and all parameters but the zero plane share one.
Opcode(c) == CASE c.op \in {"readCmos", "writeCmos"} -> "cmos"
               [] c.op = "info" -> IF c.arg = "zeroPlane" THEN "fixed" ELSE "algorithm"
               [] OTHER -> "register"

\* Mutant: any answer with the right number will do.
AnyTag(a) == Opcode(a.to) = Opcode(Head(todo))
\* rhdr->cmd and rhdr->tag: the header is that of an answer to the command.
Matches(a) == Opcode(a.to) = Opcode(Head(todo)) /\ a.tag = tag

\* The parameters that are asked for differ in length, and a fetch compares it.
LengthFits(a) == Head(todo).op = "info" => a.to.arg = Head(todo).arg

\* The answer is taken, with its value, or with anything if it is one to a write.
Answered(any) ==
  LET a == Head(answers) IN
  /\ waiting /\ answers # <<>> /\ Matches(a)
  /\ waiting' = FALSE /\ answers' = Tail(answers)
  /\ tag' = (tag + 1) % TagModulus
  /\ IF LengthFits(a)
       THEN Continue(IF a.to.op = "readCmos" THEN a.val ELSE any) /\ UNCHANGED api
       ELSE Failed /\ api' = IF CallFails THEN <<"failed">> ELSE api
  /\ UNCHANGED <<cameraVars, ready, streamVars, before, unread, calls, faults>>

\* -1, and the tag stays as it is
Refused ==
  /\ waiting /\ answers # <<>>
  /\ waiting' = FALSE /\ answers' = Tail(answers) /\ Failed
  /\ api' = IF CallFails THEN <<"failed">> ELSE api
  /\ UNCHANGED <<tag, cameraVars, ready, streamVars, before, unread, calls>>

\* An answer to an earlier command
Mismatch == Refused /\ ~Matches(Head(answers)) /\ UNCHANGED faults

\* An answer with a wrong magic number or length
Damaged == Refused /\ faults < MaxFaults /\ faults' = faults + 1

\* The answer cannot be read, or is too short: send_cmd returns the length written.
\* Fetching information notices, a register write does not, and a read takes what the
\* stack holds.
Unread(drop, garbage) ==
  /\ waiting /\ faults < MaxFaults
  /\ faults' = faults + 1 /\ unread' = TRUE
  /\ waiting' = FALSE
  /\ answers' = IF drop THEN Tail(answers) ELSE answers
  /\ IF Head(todo).op = "info"
       THEN Failed /\ api' = IF CallFails THEN <<"failed">> ELSE api
       ELSE Continue(garbage) /\ UNCHANGED api
  /\ UNCHANGED <<tag, cameraVars, ready, streamVars, before, calls>>

-----------------------------------------------------------------------------
(* The calls.                                                              *)

Parameters == {"pad", "zeroPlane", "registration", "shift"}
Info(what, must) == Cmd("info", what, must)

\* freenect_camera_init: pad info, zero plane, default modes (with a fetch whose result
\* is ignored), constant shift
CameraInit ==
  /\ ~ready /\ Call(<<"init">>, 
       <<Info("pad", TRUE), Info("zeroPlane", TRUE), Info("registration", FALSE),
         Info("shift", TRUE)>>)
  /\ UNCHANGED <<tag, answers, cameraVars, waiting, ready, streamVars, faults>>

\* "Tried to set video mode while stream is active"
MayChange(s) == ~running[s]

\* freenect_set_video_mode, freenect_set_depth_mode
SetMode(s, m) ==
  /\ ready /\ MayChange(s) /\ m # mode[s]
  /\ Call(<<"mode">>, IF s = "video" THEN <<Info("registration", FALSE)>> ELSE <<>>)
  /\ mode' = [mode EXCEPT ![s] = m]
  /\ UNCHANGED <<tag, answers, cameraVars, waiting, ready, started, running, tables,
                 faults>>

Fixed == Cmd("setup", "registers", FALSE)

\* freenect_start_depth: the tables, the buffers and the transfers, then the registers
StartDepth ==
  /\ ready /\ ~running["depth"]
  /\ Call(<<"start", "depth">>, <<Fixed, Cmd("start", "depth", FALSE), Fixed>>)
  /\ started' = [started EXCEPT !["depth"] = mode["depth"]]
  /\ tables' = (tables \/ mode["depth"] \in Registered)
  /\ UNCHANGED <<tag, answers, cameraVars, waiting, ready, mode, running, faults>>

\* freenect_start_video: infrared in high resolution refuses to start beside depth, and
\* starts and stops the depth stream first.
StartVideo ==
  /\ ready /\ ~running["video"] /\ (mode["video"] = "irHigh" => ~running["depth"])
  /\ Call(<<"start", "video">>,
          (IF mode["video"] = "irHigh"
             THEN <<Fixed, Cmd("start", "depth", FALSE), Cmd("stop", "depth", FALSE)>>
             ELSE <<>>) \o <<Fixed, Cmd("start", "video", FALSE)>>)
  /\ started' = [started EXCEPT !["video"] = mode["video"]]
  /\ UNCHANGED <<tag, answers, cameraVars, waiting, ready, mode, running, tables,
                 faults>>

\* freenect_stop_depth, freenect_stop_video: running is cleared first.
Stop(s) ==
  /\ running[s] /\ Call(<<"stop", s>>, <<Cmd("stop", s, FALSE)>>)
  /\ running' = [running EXCEPT ![s] = FALSE]
  /\ UNCHANGED <<tag, answers, cameraVars, waiting, ready, mode, started, tables,
                 faults>>

\* freenect_set_flag: one bit of a register, read and written back
SetFlag(f, on) ==
  /\ ready /\ Call(<<"flag", f, on>>, <<Cmd("readCmos", {}, TRUE)>>)
  /\ UNCHANGED <<tag, answers, cameraVars, waiting, ready, streamVars, faults>>

\* The near mode: two registers, the second not written if the first fails; the mirror
\* flags have a register of their own.
SetNearMode(on) ==
  /\ ready /\ IsK4W
  /\ Call(<<"near">>, <<Cmd("near", <<1, on>>, TRUE), Cmd("near", <<2, on>>, TRUE)>>)
  /\ UNCHANGED <<tag, answers, cameraVars, waiting, ready, streamVars, faults>>

\* The call returns: what it does after its last command
Return ==
  /\ ~Idle /\ todo = <<>> /\ ~waiting
  /\ api' = <<"none">>
  /\ running' = IF api[1] = "start" THEN [running EXCEPT ![api[2]] = TRUE] ELSE running
  /\ started' = IF api[1] = "stop" THEN [started EXCEPT ![api[2]] = "none"] ELSE started
  /\ tables' = (tables /\ api # <<"stop", "depth">>)
  /\ ready' = (ready \/ api = <<"init">>)
  /\ mode' = IF api = <<"init">> THEN [depth |-> "11bit", video |-> "rgb"] ELSE mode
  /\ UNCHANGED <<tag, answers, cameraVars, todo, waiting, before, unread, calls, faults>>

-----------------------------------------------------------------------------
Next ==
  \/ CameraInit \/ StartDepth \/ StartVideo
  \/ \E s \in Streams : Stop(s) \/ \E m \in ModesOf[s] : SetMode(s, m)
  \/ \E on \in BOOLEAN : SetNearMode(on) \/ \E f \in Flags : SetFlag(f, on)
  \/ Write \/ WriteFails \/ Mismatch \/ Damaged \/ Return
  \/ \E g \in SUBSET Flags : Answered(g) \/ \E drop \in BOOLEAN : Unread(drop, g)

Spec == Init /\ [][Next]_cmdVars

TypeOK ==
  /\ tag \in 0..(TagModulus - 1) /\ cmos \subseteq Flags /\ before \subseteq Flags
  /\ near \in [1..2 -> BOOLEAN] /\ streaming \subseteq Streams
  /\ waiting \in BOOLEAN /\ ready \in BOOLEAN /\ tables \in BOOLEAN /\ unread \in BOOLEAN
  /\ \A s \in Streams : mode[s] \in ModesOf[s] \cup {"none"}
  /\ started \in [Streams -> DepthModes \cup VideoModes \cup {"none"}]
  /\ running \in [Streams -> BOOLEAN] /\ calls \in 0..MaxCalls /\ faults \in 0..MaxFaults

\* A stream that runs has the buffers of the mode it is in, and its conversion tables
\* if the mode needs them: depth_process and video_process look the mode up for every
\* frame and write what it says (cameras.c:395, cameras.c:635).
StreamsFitMode ==
  /\ \A s \in Streams : running[s] => started[s] = mode[s] /\ mode[s] # "none"
  /\ running["depth"] /\ mode["depth"] \in Registered => tables

\* Setting one flag leaves the others alone (flags.c:87): when freenect_set_flag has
\* succeeded, and each of its answers could be read, the camera's register is what it was
\* before the call but for that flag.  This is so whatever an earlier call has left unread:
\* the stale answer is taken for the one to the read of the register (flags.c:150 and 154
\* let it pass), but then the answer to the write is refused.
FlagsIndependent ==
  api[1] = "flag" /\ todo = <<>> /\ ~waiting /\ ~unread
    => cmos = Modified(api[2], api[3], before)

-----------------------------------------------------------------------------
(* The inductive invariant behind the properties.                          *)

\* The calls, and the commands and answers there can be
Calls ==
  {<<"none">>, <<"failed">>, <<"init">>, <<"mode">>, <<"near">>}
    \cup ({"start", "stop"} \X Streams) \cup ({"flag"} \X Flags \X BOOLEAN)
Commands ==
  [op : {"info", "setup"}, arg : Parameters \cup {"registers"}, must : BOOLEAN]
    \cup [op : {"start", "stop"}, arg : Streams, must : BOOLEAN]
    \cup [op : {"near"}, arg : {1, 2} \X BOOLEAN, must : BOOLEAN]
    \cup [op : {"readCmos"}, arg : {{}}, must : BOOLEAN]
    \cup [op : {"writeCmos"}, arg : SUBSET Flags, must : BOOLEAN]
Ops == {"info", "setup", "start", "stop", "near", "readCmos", "writeCmos"}
Answers == [tag : 0..(TagModulus - 1), to : Commands, val : SUBSET Flags]

\* Only freenect_set_flag sends commands about the register of the flags, one at a time.
CallInv ==
  /\ api \in Calls /\ todo \in Seq(Commands) /\ answers \in Seq(Answers)
  /\ mode \in [Streams -> DepthModes \cup VideoModes \cup {"none"}]
  /\ Idle => todo = <<>>
  /\ waiting => todo # <<>> /\ answers # <<>>
  /\ \A k \in DOMAIN todo :
       todo[k].op \in {"readCmos", "writeCmos"} => Len(todo) = 1 /\ api[1] = "flag"

\* A stream that is being started has its buffers already, one that is being stopped does
\* not run any more, and nothing runs before freenect_camera_init.
StreamInv ==
  /\ ready => \A s \in Streams : mode[s] # "none"
  /\ ~ready => \A s \in Streams : ~running[s]
  /\ api[1] = "init" => ~ready
  /\ api[1] = "start" => ready /\ started[api[2]] = mode[api[2]]
  /\ api[1] = "start" /\ api[2] = "depth" /\ mode["depth"] \in Registered => tables
  /\ api[1] = "stop" => ready /\ ~running[api[2]]

\* The tag of the last answer that was taken
LastTag == (tag + TagModulus - 1) % TagModulus

\* The answers that are left are to the command of this tag or to older ones, oldest first;
\* the last one is to the command that waits.
AnswersInv ==
  /\ \A k \in DOMAIN answers : answers[k].tag \in {tag, LastTag}
  /\ \A k, l \in DOMAIN answers : k <= l /\ answers[k].tag = tag => answers[l].tag = tag
  /\ waiting => LET a == answers[Len(answers)] IN
                  /\ a.tag = tag /\ a.to = todo[1]
                  /\ a.to.op = "readCmos" => a.val = cmos

\* The register is changed by the write only.  A write made from a stale answer has an
\* answer of the last tag before its own, and will be refused.
FlagInv ==
  LET writing == todo # <<>> /\ todo[1].op = "writeCmos" IN
  /\ api[1] = "flag" /\ todo # <<>> => todo[1].op \in {"readCmos", "writeCmos"} /\ todo[1].must
  /\ api[1] = "flag" /\ todo # <<>> /\ ~unread =>
       /\ cmos = IF writing /\ waiting THEN todo[1].arg ELSE before
       /\ writing => \/ todo[1].arg = Modified(api[2], api[3], before)
                     \/ answers # <<>> /\ answers[1].tag # tag
  /\ FlagsIndependent

IndInv == TypeOK /\ CallInv /\ StreamsFitMode /\ StreamInv /\ AnswersInv /\ FlagInv
=============================================================================
