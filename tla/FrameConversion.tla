-------------------------- MODULE FrameConversion ---------------------------
(***************************************************************************)
(* What libfreenect makes of a raw frame: unpacking depth and infrared     *)
(* values (cameras.c, registration.c), Bayer and UYVY pictures to RGB      *)
(* (cameras.c), depth in millimetres, and the registration of depth and    *)
(* colour (registration.c).  A frame is a sequence counted from 1 where    *)
(* the code counts from 0.  Each step converts one frame; `in' and `out'   *)
(* are compared with definitions that do not follow the code.              *)
(***************************************************************************)
EXTENDS Integers, Sequences

CONSTANTS
  Bytes,         \* byte values that occur in frames
  PackedFrames, BayerFrames, DepthFrames, \* raw frames that the camera sends
  Width, Height, \* of a picture: DEPTH_X_RES and DEPTH_Y_RES, or a video mode
  MaxMetric,     \* DEPTH_MAX_METRIC_VALUE
  Scale,         \* REG_X_VAL_SCALE
  Distortions,   \* regtable_dx + DEPTH_X_OFFSET and regtable_dy + DEPTH_Y_OFFSET
  Shifts         \* amounts of depth_to_rgb_shift, to the left

VARIABLES kind, in, out

convVars == <<kind, in, out>>

Init == kind = "none" /\ in = <<>> /\ out = <<>>

Done(k, i, o) == kind' = k /\ in' = i /\ out' = o

-----------------------------------------------------------------------------
(* Packed values.                                                          *)

\* convert_packed_to_16bit and convert_packed_to_8bit: the buffer after the k-th value,
\* with bitsIn bits not used yet and the place of the next byte.  A value needs no more
\* than the low 23 of the 32 bits of the buffer.
Refill(src, vw, b) ==
  LET need == (vw - b.bitsIn + 7) \div 8
      step[j \in 0..need] ==
        IF j = 0 THEN b.buffer
        ELSE (step[j - 1] * 256 + src[b.next + j - 1]) % 2^23
  IN IF b.bitsIn >= vw THEN [b EXCEPT !.bitsIn = @ - vw]
     ELSE [buffer |-> step[need], bitsIn |-> b.bitsIn + 8 * need - vw, next |-> b.next + need]

Buffers(src, vw, n) ==
  LET buf[k \in 0..n] ==
        IF k = 0 THEN [buffer |-> 0, bitsIn |-> 0, next |-> 1]
        ELSE Refill(src, vw, buf[k - 1])
  IN buf

Packed16(src, vw, n) ==
  [k \in 1..n |-> LET b == Buffers(src, vw, n)[k] IN (b.buffer \div 2^b.bitsIn) % 2^vw]
Packed8(src, vw, n) ==
  [k \in 1..n |-> LET b == Buffers(src, vw, n)[k]
                  IN (b.buffer \div 2^(b.bitsIn + vw - 8)) % 256]

\* unpack_8_pixels, convert_packed11_to_16bit: eleven bytes
Unpack8Pixels(r) ==
  << r[1] * 8 + r[2] \div 32,
     (r[2] * 64 + r[3] \div 4) % 2048,
     (r[3] * 512 + r[4] * 2 + r[5] \div 128) % 2048,
     (r[5] * 16 + r[6] \div 16) % 2048,
     (r[6] * 128 + r[7] \div 2) % 2048,
     (r[7] * 1024 + r[8] * 4 + r[9] \div 64) % 2048,
     (r[9] * 32 + r[10] \div 8) % 2048,
     (r[10] * 256 + r[11]) % 2048 >>

Unpack(src) ==
  \/ Done("16bit", src, Packed16(src, 10, 8))
  \/ Done("8bit", src, Packed8(src, 10, 8))
  \/ Done("11bit", src, Unpack8Pixels(src))

-----------------------------------------------------------------------------
(* Pictures: functions of <<x, y>>.                                        *)

Pixels == (0..(Width - 1)) \X (0..(Height - 1))

\* convert_bayer_to_rgb: the three neighbours that slide along a line; at either end the
\* missing one is the one on the other side.
Window(line) ==
  LET w[x \in 0..(Width - 1)] ==
        IF x = 0 THEN <<line[1], line[0], line[1]>>
        ELSE <<w[x - 1][2], w[x - 1][3],
               IF x < Width - 1 THEN line[x + 1] ELSE w[x - 1][2]>>
  IN w

Mean(a, b) == (a + b) \div 2
PrevLine(y) == IF y = 0 THEN 1 ELSE y - 1

\* Top and bottom lines have one neighbour, which counts twice.
NextLine(y) == IF y = Height - 1 THEN y - 1 ELSE y + 1

BayerToRgb(p) ==
  [q \in Pixels |->
     LET x == q[1]  y == q[2]
         h == Window([i \in 0..(Width - 1) |-> p[<<i, y>>]])[x]
         v == Window([i \in 0..(Width - 1) |->
                        Mean(p[<<i, PrevLine(y)>>], p[<<i, NextLine(y)>>])])[x]
         hSum == Mean(h[1], h[3])
     IN CASE y % 2 = 0 /\ x % 2 = 0 -> <<hSum, h[2], v[2]>>
          [] y % 2 = 0 /\ x % 2 = 1 -> <<h[2], Mean(hSum, v[2]), Mean(v[1], v[3])>>
          [] y % 2 = 1 /\ x % 2 = 0 -> <<Mean(v[1], v[3]), Mean(hSum, v[2]), h[2]>>
          [] OTHER -> <<v[2], h[2], hSum>>]

Bayer(p) == Done("bayer", p, BayerToRgb(p))

\* C division rounds towards zero.
Quot(a, b) == IF a >= 0 THEN a \div b ELSE -((-a) \div b)
Clamp(x) == IF x < 0 THEN 0 ELSE IF x > 255 THEN 255 ELSE x

\* convert_uyvy_to_rgb: one pixel of a pair
UyvyToRgb(u, y, v) ==
  LET luma == Quot((y - 16) * 1164, 1000) IN
  <<Clamp(luma + Quot((v - 128) * 1596, 1000)),
    Clamp(luma - Quot((v - 128) * 813, 1000) - Quot((u - 128) * 391, 1000)),
    Clamp(luma + Quot((u - 128) * 2018, 1000))>>

Uyvy(u, y, v) == Done("uyvy", <<u, y, v>>, UyvyToRgb(u, y, v))

-----------------------------------------------------------------------------
(* Registration.  reg is [table, shift]; start_lines is 0.                 *)

\* freenect_init_registration_table: a pixel that leaves the picture gets a column far
\* outside of it.
TableEntry(q, d) ==
  LET x == q[1] + d[1]  y == q[2] + d[2] IN
  IF x \in 0..(Width - 1) /\ y \in 0..(Height - 1) THEN <<x * Scale, y>>
  ELSE <<2 * Width * Scale, y>>

\* The table, and shifts for the depths; what lies behind the end of
\* depth_to_rgb_shift is any of them.
Registrations ==
  {[table |-> [q \in Pixels |-> TableEntry(q, d[q])], shift |-> f] :
     d \in Distortions, f \in [1..MaxMetric -> Shifts]}

\* Where a pixel of depth z lands; outside of the picture there is no place.
Lands(reg, q, z) == <<Quot(reg.table[q][1] - reg.shift[z], Scale), reg.table[q][2]>>
Inside(t) == t[1] \in 0..(Width - 1)

\* The pixels in the order of the loops
PixelAt(k) == <<(k - 1) % Width, (k - 1) \div Width>>

\* Mutant: the last pixel wins.
LastWins(old, z) == TRUE
\* current_depth == DEPTH_NO_MM_VALUE || current_depth > metric_depth
Nearer(old, z) == old = 0 \/ old > z

\* freenect_apply_registration, and the first pass of freenect_map_rgb_to_depth over its
\* zBuffer
ZBuffer(reg, mm, usable) ==
  LET z[k \in 0..(Width * Height)] ==
        IF k = 0 THEN [q \in Pixels |-> 0]
        ELSE LET q == PixelAt(k)  t == Lands(reg, q, mm[q]) IN
             IF mm[q] \in usable /\ Inside(t) /\ Nearer(z[k - 1][t], mm[q])
               THEN [z[k - 1] EXCEPT ![t] = mm[q]]
               ELSE z[k - 1]
  IN z[Width * Height]

ApplyRegistration(reg, mm) ==
  Done("registered", <<reg, mm>>, ZBuffer(reg, mm, 1..(MaxMetric - 1)))

\* freenect_apply_depth_to_mm of a frame of values that raw_to_mm_shift maps to mm
DepthToMm(mm) == [q \in Pixels |-> IF mm[q] < MaxMetric THEN mm[q] ELSE MaxMetric]

\* freenect_map_rgb_to_depth: black where there is no depth, the colour of the place
\* where the pixel lands if nothing nearer lands there, the old content otherwise
Map(reg, mm) ==
  LET zBuffer == ZBuffer(reg, mm, 1..MaxMetric) IN
  [q \in Pixels |->
     LET t == Lands(reg, q, mm[q]) IN
     IF mm[q] = 0 THEN <<"black">>
     ELSE IF ~Inside(t) THEN <<"black">>
     ELSE IF mm[q] <= zBuffer[t] THEN <<"rgb", t>> ELSE <<"old">>]

MapRgbToDepth(reg, mm) ==
  Done("mapped", <<reg, DepthToMm(mm)>>, Map(reg, DepthToMm(mm)))

-----------------------------------------------------------------------------
Next ==
  /\ kind = "none"
  /\ \/ \E src \in PackedFrames : Unpack(src)
     \/ \E p \in BayerFrames : Bayer(p)
     \/ \E u, y, v \in Bytes : Uyvy(u, y, v)
     \/ \E reg \in Registrations, mm \in DepthFrames :
          ApplyRegistration(reg, DepthToMm(mm)) \/ MapRgbToDepth(reg, mm)

Spec == Init /\ [][Next]_convVars

-----------------------------------------------------------------------------
(* Properties.                                                             *)

\* The bits first..first + n - 1 of a frame, most significant first
Bit(src, i) == (src[i \div 8 + 1] \div 2^(7 - (i % 8))) % 2
Bits(src, first, n) ==
  LET v[j \in 0..n] == IF j = 0 THEN 0 ELSE 2 * v[j - 1] + Bit(src, first + j - 1)
  IN v[n]

\* The sites of each colour in the Bayer pattern
Measures(q, c) == CASE c = 1 -> q[2] % 2 = 0 /\ q[1] % 2 = 1
                    [] c = 2 -> (q[1] + q[2]) % 2 = 0
                    [] c = 3 -> q[2] % 2 = 1 /\ q[1] % 2 = 0
Mirror(i, n) == IF i < 0 THEN -i ELSE IF i >= n THEN 2 * (n - 1) - i ELSE i
Around == (-1..1) \X (-1..1)
Site(q, d) == <<Mirror(q[1] + d[1], Width), Mirror(q[2] + d[2], Height)>>
\* Offsets of the nearest sites of a colour
Nearest(q, c) ==
  LET S == {d \in Around : Measures(Site(q, d), c)} IN
  IF <<0, 0>> \in S THEN {<<0, 0>>}
  ELSE IF \E d \in S : d[1] = 0 \/ d[2] = 0 THEN {d \in S : d[1] = 0 \/ d[2] = 0} ELSE S

\* The sum of f over a set of offsets
SumAround(S, f) ==
  LET at(i, j) == IF <<i, j>> \in S THEN f[<<i, j>>] ELSE 0
      row(j) == at(-1, j) + at(0, j) + at(1, j)
  IN row(-1) + row(0) + row(1)

SourcesOf(reg, mm, t, usable) ==
  {q \in Pixels : mm[q] \in usable /\ Lands(reg, q, mm[q]) = t}

\* Unpacked values are the packed bits, whatever way they are unpacked
\* (cameras.c:304, cameras.c:345): the i-th of ten or eleven bits each, or its upper
\* eight.
UnpackedExactly ==
  /\ kind = "16bit" => \A k \in 1..8 : out[k] = Bits(in, 10 * (k - 1), 10)
  /\ kind = "8bit" => \A k \in 1..8 : out[k] = Bits(in, 10 * (k - 1), 8)
  /\ kind = "11bit" => \A k \in 1..8 : out[k] = Bits(in, 11 * (k - 1), 11)

\* A colour measured at a pixel is taken over, and any other is, but for rounding, the
\* mean of the nearest sites that measure it, at the borders too (cameras.c:453); grey
\* stays grey (cameras.c:420).
ColoursInterpolated ==
  /\ kind = "bayer" => \A q \in Pixels, c \in 1..3 :
       LET S == Nearest(q, c)
           n == SumAround(S, [d \in Around |-> 1])
           sum == SumAround(S, [d \in Around |-> in[Site(q, d)]])
       IN /\ n * out[q][c] <= sum /\ sum <= n * (out[q][c] + 1) + n - 1
          /\ n = 1 => out[q][c] = sum
  /\ kind = "uyvy" => /\ \A c \in 1..3 : out[c] \in 0..255
                      /\ in[1] = 128 /\ in[3] = 128 => out[1] = out[2] /\ out[2] = out[3]

\* Of the pixels that land on one place the nearest is kept, in whatever order they
\* come (registration.c:150), and a pixel is given the colour of its place exactly if
\* nothing nearer hides it (registration.c:385).
NearestIsVisible ==
  /\ kind = "registered" => \A t \in Pixels :
       LET S == SourcesOf(in[1], in[2], t, 1..(MaxMetric - 1)) IN
       IF S = {} THEN out[t] = 0
       ELSE (\E q \in S : out[t] = in[2][q]) /\ \A q \in S : out[t] <= in[2][q]
  /\ kind = "mapped" => \A q \in Pixels :
       LET t == Lands(in[1], q, in[2][q]) IN
       (out[q][1] = "rgb") <=>
         /\ in[2][q] # 0 /\ t \in Pixels
         /\ \A o \in SourcesOf(in[1], in[2], t, 1..MaxMetric) : in[2][o] >= in[2][q]
=============================================================================
