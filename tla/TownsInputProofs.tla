-------------------------- MODULE TownsInputProofs --------------------------
(***************************************************************************)
(* TypeOK, Aligned, CursorFollows and ButtonsFollow of TownsInput, for all *)
(* motions, buttons, options and bounds.  The inductive invariant says of  *)
(* the machine, as it is and as it was saved, how far the guest's packet   *)
(* and the mouse's are the same; that the position the mouse took over is  *)
(* the guest's; and that the 16 bit positions are the true ones but for    *)
(* multiples of 65536.                                                     *)
(***************************************************************************)
EXTENDS TownsInput, TLAPS

\* Guest and mouse m are at the same nibble of the same packet.
InStep(m, q, loc, level, n, t, c) ==
  /\ level = m.old_pin8
  /\ loc = "idle" => n = 0
  /\ loc = "strobe" /\ n = 0 => q /\ ~t
  /\ loc = "strobe" /\ n > 0 /\ ~t => m.stat = n - 1
  /\ loc = "read" /\ ~t => m.stat = n
  /\ c => ~t

\* Nibble i = 0..3 of a packet.
NibbleAt(data, i) ==
  CASE i = 0 -> data["x"] \div 16
    [] i = 1 -> data["x"] % 16
    [] i = 2 -> data["y"] \div 16
    [] i = 3 -> data["y"] % 16

Busy(loc, n) == loc = "read" \/ (loc = "strobe" /\ n > 0)

\* What the guest has read and will read makes its cursor the mouse's position.
Accounted(m, loc, n, g, cur, b, c) ==
  /\ \A a \in Axes : (b[a] - m.last[a]) % 65536 = 0
  /\ c /\ ~Busy(loc, n) => cur = b
  /\ c /\ Busy(loc, n) =>
       /\ \A a \in Axes : cur[a] - Signed(m.data[a]) = b[a]
       /\ \A i \in 0..3 : i < n => g[i] = NibbleAt(m.data, i)

Steps   == InStep(mouse, quiet, pc, pin, k, torn, clean)
Account == Accounted(mouse, pc, k, got, cursor, base, clean)

GoodSaves ==
  \A s \in saved : /\ InStep(s.mouse, s.quiet, s.pc, s.pin, s.k, s.torn, s.clean)
                   /\ Accounted(s.mouse, s.pc, s.k, s.got, s.cursor, s.base, s.clean)

True == \A a \in Axes : (pos[a] - acc[a]) % 65536 = 0

IInv == TypeOK /\ True /\ Steps /\ Account /\ GoodSaves

-----------------------------------------------------------------------------
\* A multiple of 65536.
LEMMA Multiple ==
  ASSUME NEW x \in Int, x % 65536 = 0
  PROVE  x \div 65536 \in Int /\ x = 65536 * (x \div 65536)
OBVIOUS

LEMMA SameByte ==
  ASSUME NEW x \in Int, NEW y \in Int, NEW i \in Int, y = x + 256 * i
  PROVE  y % 256 = x % 256
OBVIOUS

LEMMA SignedByte ==
  ASSUME NEW x \in Int, -128 <= x, x <= 127
  PROVE  Signed(x % 256) = x
BY DEF Signed

\* A motion that fits is reported exactly, with its sign turned round.
LEMMA ReportedExactly ==
  ASSUME NEW p \in Int, NEW b \in Int, NEW c \in Int, NEW l \in Int,
         (p - c) % 65536 = 0, (b - l) % 65536 = 0, p - b \in -127..128
  PROVE  Signed((l - c) % 256) = b - p
<1> DEFINE i == (p - c) \div 65536
           j == (b - l) \div 65536
<1>1. i \in Int /\ p - c = 65536 * i
  BY Multiple
<1>2. j \in Int /\ b - l = 65536 * j
  BY Multiple
<1> HIDE DEF i, j
<1>3. l - c = (b - p) + 256 * (256 * (i - j))
  BY <1>1, <1>2
<1>4. (l - c) % 256 = (b - p) % 256
  BY <1>1, <1>2, <1>3, SameByte
<1>5. -128 <= b - p /\ b - p <= 127
  OBVIOUS
<1> QED
  BY <1>4, <1>5, SignedByte

\* The two nibbles of a byte make the byte.
LEMMA NibblesMake ==
  ASSUME NEW d \in 0..255
  PROVE  /\ d \div 16 \in 0..15 /\ d % 16 \in 0..15
         /\ 16 * (d \div 16) + (d % 16) = d
<1>1. d \in Int /\ 0 <= d /\ d <= 255
  OBVIOUS
<1> QED
  BY <1>1

\* Adding a motion modulo 65536 keeps the position true.
LEMMA StaysTrue ==
  ASSUME NEW p \in Int, NEW c \in Int, NEW m \in Int, (p - c) % 65536 = 0
  PROVE  ((p + m) - ((c + m) % 65536)) % 65536 = 0
<1> DEFINE i == (p - c) \div 65536
           j == (c + m) \div 65536
           r == (c + m) % 65536
<1>1. i \in Int /\ p - c = 65536 * i
  BY Multiple
<1>2. j \in Int /\ r \in Int /\ c + m = 65536 * j + r
  OBVIOUS
<1> HIDE DEF i, j, r
<1>3. (p + m) - r = 65536 * (i + j)
  BY <1>1, <1>2
<1>4. (65536 * (i + j)) % 65536 = 0
  BY <1>1, <1>2
<1> QED
  BY <1>3, <1>4 DEF r

-----------------------------------------------------------------------------
(* Types *)

LEMMA Words16 ==
  /\ 0 \in Words
  /\ \A w \in Words : w \in Int
  /\ \A x \in Int : x % 65536 \in Words
<1>1. Width \in Nat /\ Width > 0
  BY DEF Width
<1>2. 0 \in Words /\ \A w \in Words : w \in Int
  BY <1>1 DEF Words
<1>3. ASSUME NEW x \in Int PROVE x % 65536 \in Words
  <2>1. x % 65536 \in Int /\ 0 <= x % 65536 /\ x % 65536 < Width
    BY DEF Width
  <2> QED
    BY <1>1, <2>1 DEF Words
<1> QED
  BY <1>2, <1>3

LEMMA Mods ==
  ASSUME NEW x \in Int
  PROVE  x % 256 \in 0..255 /\ x % 4 \in 0..3
OBVIOUS

LEMMA PinType ==
  ASSUME NEW m \in Mice, NEW state \in BOOLEAN, NEW now \in BOOLEAN, acc \in Positions
  PROVE  pin_8_w(m, state, now) \in Mice
<1>1. \A a \in Axes : (m.last[a] - acc[a]) % 256 \in 0..255
  <2> TAKE a \in Axes
  <2>1. m.last[a] \in Int /\ acc[a] \in Int
    BY Words16 DEF Mice, Positions
  <2>2. m.last[a] - acc[a] \in Int
    BY <2>1
  <2> QED
    BY <2>2, Mods, Zenon
<1>2. [a \in Axes |-> (m.last[a] - acc[a]) % 256] \in [Axes -> 0..255]
  BY <1>1
<1>3. (m.stat + 1) % 4 \in 0..3
  BY Mods DEF Mice
<1>4. ASSUME NEW d \in [Axes -> 0..255]
      PROVE  [data |-> d, stat |-> 0, old_pin8 |-> state, last |-> acc] \in Mice
  BY DEF Mice
<1>5. \A n \in 0..3 : [m EXCEPT !.stat = n, !.old_pin8 = state] \in Mice
  BY DEF Mice
<1> QED
  BY <1>2, <1>3, <1>4, <1>5 DEF pin_8_w

\* What a change of the strobe does.
LEMMA PinEdge ==
  ASSUME NEW m \in Mice, NEW state \in BOOLEAN, NEW now \in BOOLEAN, m.old_pin8 # state
  PROVE  /\ pin_8_w(m, state, now).old_pin8 = state
         /\ pin_8_w(m, state, now).stat = IF now THEN 0 ELSE (m.stat + 1) % 4
         /\ pin_8_w(m, state, now).stat = 0 =>
              /\ pin_8_w(m, state, now).last = acc
              /\ pin_8_w(m, state, now).data = [a \in Axes |-> (m.last[a] - acc[a]) % 256]
         /\ pin_8_w(m, state, now).stat # 0 =>
              /\ pin_8_w(m, state, now).last = m.last
              /\ pin_8_w(m, state, now).data = m.data
BY DEF pin_8_w, Mice

LEMMA PinTakes ==
  ASSUME NEW m \in Mice, NEW state \in BOOLEAN, NEW now \in BOOLEAN, m.old_pin8 # state
  PROVE  /\ pin_8_w(m, state, now).old_pin8 = state
         /\ pin_8_w(m, state, now).stat = 0 => pin_8_w(m, state, now).last = acc
         /\ pin_8_w(m, state, now).stat # 0 => pin_8_w(m, state, now).last = m.last
BY DEF pin_8_w, Mice

LEMMA NibbleType ==
  ASSUME NEW m \in Mice
  PROVE  Nibble(m) \in 0..15 /\ Nibble(m) = NibbleAt(m.data, m.stat)
<1>1. m.data["x"] \in 0..255 /\ m.data["y"] \in 0..255 /\ m.stat \in 0..3
  BY DEF Mice, Axes
<1>2. /\ m.data["x"] \div 16 \in 0..15 /\ m.data["x"] % 16 \in 0..15
      /\ m.data["y"] \div 16 \in 0..15 /\ m.data["y"] % 16 \in 0..15
  BY <1>1, NibblesMake
<1>3. m.stat = 0 \/ m.stat = 1 \/ m.stat = 2 \/ m.stat = 3
  BY <1>1
<1>4. CASE m.stat = 0
  BY <1>2, <1>4 DEF Nibble, NibbleAt
<1>5. CASE m.stat = 1
  BY <1>2, <1>5 DEF Nibble, NibbleAt
<1>6. CASE m.stat = 2
  BY <1>2, <1>6 DEF Nibble, NibbleAt
<1>7. CASE m.stat = 3
  BY <1>2, <1>7 DEF Nibble, NibbleAt
<1> QED
  BY <1>3, <1>4, <1>5, <1>6, <1>7

LEMMA StillType ==
  /\ Still \in Positions /\ Still \in [Axes -> Int] /\ Still \in [Axes -> 0..255]
  /\ NewMouse \in Mice
  /\ NoNibbles \in Packets
  /\ Shut \in [Players -> SUBSET Buttons]
  /\ [pads |-> Shut, mouse |-> {}] \in Holds
<1>1. Still \in Positions /\ Still \in [Axes -> Int] /\ Still \in [Axes -> 0..255]
  BY Words16 DEF Still, Positions
<1>2. NewMouse \in Mice
  BY <1>1 DEF NewMouse, Mice
<1>3. NoNibbles \in Packets
  BY DEF NoNibbles, Packets
<1>4. Shut \in [Players -> SUBSET Buttons] /\ [pads |-> Shut, mouse |-> {}] \in Holds
  BY DEF Shut, Holds
<1> QED
  BY <1>1, <1>2, <1>3, <1>4

LEMMA InitIInv == Init => IInv
<1> SUFFICES ASSUME Init PROVE IInv
  OBVIOUS
<1>1. TypeOK
  <2>1. g_mode \in Modes /\ g_mouse_enabled \in BOOLEAN
    BY InputAssumption DEF Init, InputAssumption
  <2>2. saved \subseteq Saves /\ frames \in Nat /\ faults \in Nat
    BY DEF Init
  <2>3. acc \in Positions /\ pos \in [Axes -> Int] /\ base \in [Axes -> Int] /\ cursor \in [Axes -> Int]
    BY StillType DEF Init
  <2>4. pin \in BOOLEAN /\ k \in 0..3 /\ got \in Packets
    <3>1. pin = FALSE /\ k = 0 /\ got = NoNibbles
      BY DEF Init
    <3>2. 0 \in 0..3
      OBVIOUS
    <3> QED
      BY <3>1, <3>2, StillType, Zenon
  <2>7. pc \in Pcs
    BY DEF Init, Pcs
  <2>5. mouse \in Mice /\ quiet \in BOOLEAN /\ torn \in BOOLEAN /\ clean \in BOOLEAN
    BY StillType DEF Init
  <2>6. pads \in [Players -> SUBSET Buttons] /\ clicks \in SUBSET Buttons /\ held \in Holds
    BY StillType DEF Init
  <2> QED
    BY <2>1, <2>2, <2>3, <2>4, <2>5, <2>6, <2>7 DEF TypeOK
<1>2. True
  BY DEF Init, True, Still
<1>3. Steps
  BY DEF Init, Steps, InStep, NewMouse
<1>4. Account
  <2>1. mouse.last = Still
    BY DEF Init, NewMouse
  <2> QED
    BY <2>1 DEF Init, Account, Accounted, Busy, Still
<1>5. GoodSaves
  BY DEF Init, GoodSaves
<1> QED
  BY <1>1, <1>2, <1>3, <1>4, <1>5 DEF IInv

\* A frame of the frontend moves the position by the motion, and nothing in the
\* machine.
LEMMA FrameIInv ==
  ASSUME IInv, NEW motion \in Motions, NEW press \in Presses, RetroRun(motion, press)
  PROVE  IInv'
<1> USE DEF IInv
<1>1. motion \in [Axes -> Int] /\ press \in Holds
  BY InputAssumption DEF InputAssumption
<1>2. g_mode' \in Modes /\ g_mouse_enabled' \in BOOLEAN
  BY InputAssumption DEF InputAssumption, RetroRun, refresh_core_options
<1>3. pads' \in [Players -> SUBSET Buttons]
  BY <1>1 DEF RetroRun, set_joystick_input, TypeOK, Holds
<1>4. /\ acc' \in Positions /\ pos' \in [Axes -> Int] /\ clicks' \in SUBSET Buttons
      /\ True'
  <2>1. CASE g_mouse_enabled'
    <3>1. /\ acc' = [a \in Axes |-> (acc[a] + motion[a]) % 65536]
          /\ pos' = [a \in Axes |-> pos[a] + motion[a]]
          /\ clicks' = press.mouse
      BY <2>1 DEF RetroRun, set_mouse_input
    <3>2. \A a \in Axes : acc[a] \in Int /\ pos[a] \in Int /\ motion[a] \in Int
      BY <1>1, Words16 DEF TypeOK, Positions
    <3>3. \A a \in Axes : (acc[a] + motion[a]) % 65536 \in Words /\ pos[a] + motion[a] \in Int
      BY <3>2, Words16
    <3>4. \A a \in Axes : ((pos[a] + motion[a]) - ((acc[a] + motion[a]) % 65536)) % 65536 = 0
      BY <3>2, StaysTrue DEF True
    <3> QED
      BY <1>1, <3>1, <3>3, <3>4 DEF Positions, True, Holds
  <2>2. CASE ~g_mouse_enabled'
    BY <2>2 DEF RetroRun, TypeOK, True
  <2> QED
    BY <1>2, <2>1, <2>2
<1>5. frames' \in Nat /\ held' \in Holds
  BY <1>1 DEF RetroRun, TypeOK
<1>6. UNCHANGED <<guestVars, saved, faults>>
  BY DEF RetroRun
<1>7. TypeOK'
  BY <1>2, <1>3, <1>4, <1>5, <1>6 DEF TypeOK, guestVars, guest
<1>8. Steps' /\ Account' /\ GoodSaves'
  BY <1>6 DEF guestVars, guest, Steps, Account, GoodSaves
<1> QED
  BY <1>4, <1>7, <1>8

\* Steps that leave the host's side alone keep its part of the invariant.
LEMMA HostUnchanged ==
  ASSUME IInv, UNCHANGED <<hostVars, saved>>, faults' \in Nat,
         mouse' \in Mice, quiet' \in BOOLEAN, base' \in [Axes -> Int],
         torn' \in BOOLEAN, clean' \in BOOLEAN,
         pc' \in Pcs, pin' \in BOOLEAN, k' \in 0..3, got' \in Packets, cursor' \in [Axes -> Int],
         Steps', Account'
  PROVE  IInv'
<1>1. TypeOK'
  BY DEF IInv, TypeOK, hostVars
<1>2. True'
  BY DEF IInv, True, hostVars
<1>3. GoodSaves'
  BY DEF IInv, GoodSaves
<1> QED
  BY <1>1, <1>2, <1>3 DEF IInv

LEMMA WaitIInv == IInv /\ (Wait \/ Interrupt) => IInv'
<1> SUFFICES ASSUME IInv, Wait \/ Interrupt PROVE IInv'
  OBVIOUS
<1>1. /\ UNCHANGED <<hostVars, saved, mouse, pc, pin, k, got, cursor, base, torn, clean>>
      /\ quiet' = TRUE /\ faults' \in Nat
  BY DEF IInv, TypeOK, Wait, Interrupt, Fault, guest
<1>2. Steps'
  BY <1>1 DEF IInv, Steps, InStep
<1>3. Account'
  BY <1>1 DEF IInv, Account
<1> QED
  BY <1>1, <1>2, <1>3, HostUnchanged DEF IInv, TypeOK

LEMMA BeginIInv == IInv /\ Begin => IInv'
<1> SUFFICES ASSUME IInv, Begin PROVE IInv'
  OBVIOUS
<1>1. /\ pc = "idle" /\ quiet /\ pc' = "strobe" /\ torn' = FALSE
      /\ UNCHANGED <<hostVars, saved, mouse, quiet, pin, k, got, cursor, base, clean, faults>>
  BY DEF Begin
<1>2. k = 0
  BY <1>1 DEF IInv, Steps, InStep
<1>3. Steps'
  BY <1>1, <1>2 DEF IInv, Steps, InStep
<1>4. Account'
  <2>1. ~Busy(pc, k) /\ ~Busy(pc', k')
    BY <1>1, <1>2 DEF Busy
  <2> QED
    BY <1>1, <2>1 DEF IInv, Account, Accounted
<1> QED
  BY <1>1, <1>3, <1>4, HostUnchanged DEF IInv, TypeOK, Pcs

\* A strobe in a packet: it is the edge the guest means, and the first one, or
\* one that comes too late, takes the motion over.
LEMMA StrobeLevel ==
  ASSUME Strobe, pin \in BOOLEAN
  PROVE  \E level \in BOOLEAN :
           level # pin /\ pin' = level /\ towns_pad_mask_w(level, k = 0 \/ ~quiet)
<1>1. CASE pin = TRUE
  <2>1. (~pin) = FALSE
    BY <1>1
  <2> QED
    BY <1>1, <2>1, Zenon DEF Strobe
<1>2. CASE pin = FALSE
  <2>1. (~pin) = TRUE
    BY <1>2
  <2> QED
    BY <1>2, <2>1, Zenon DEF Strobe
<1> QED
  BY <1>1, <1>2

LEMMA StrobeIInv == IInv /\ Strobe => IInv'
<1> SUFFICES ASSUME IInv, Strobe PROVE IInv'
  OBVIOUS
<1>2. /\ mouse \in Mice /\ pin \in BOOLEAN /\ quiet \in BOOLEAN /\ k \in 0..3 /\ torn \in BOOLEAN
      /\ clean \in BOOLEAN /\ acc \in Positions /\ pos \in [Axes -> Int] /\ base \in [Axes -> Int]
      /\ cursor \in [Axes -> Int] /\ got \in Packets /\ faults \in Nat
  BY DEF IInv, TypeOK
<1> PICK level \in BOOLEAN :
      level # pin /\ pin' = level /\ towns_pad_mask_w(level, k = 0 \/ ~quiet)
  BY <1>2, StrobeLevel
<1> DEFINE m == pin_8_w(mouse, level, quiet)
<1>1. /\ pc = "strobe" /\ pc' = "read" /\ pin' = level /\ mouse' = m
      /\ torn' = (torn \/ (quiet /\ k > 0))
      /\ UNCHANGED <<hostVars, k, got, cursor, saved, faults>>
  BY DEF Strobe, towns_pad_mask_w
<1>3. mouse.old_pin8 = pin /\ mouse.old_pin8 # level
  BY <1>2 DEF IInv, Steps, InStep
<1>4. m \in Mice
  BY <1>2, PinType
<1>5. /\ m.old_pin8 = level
      /\ m.stat = IF quiet THEN 0 ELSE (mouse.stat + 1) % 4
      /\ m.stat = 0 => m.last = acc /\ m.data = [a \in Axes |-> (mouse.last[a] - acc[a]) % 256]
      /\ m.stat # 0 => m.last = mouse.last /\ m.data = mouse.data
  BY <1>2, <1>3, PinEdge
<1>11. /\ quiet' = (quiet /\ mouse.old_pin8 = level)
       /\ base' = IF mouse.old_pin8 # level /\ m.stat = 0 /\ m.last = acc THEN pos ELSE base
       /\ clean' = (clean /\ (k = 0 \/ ~quiet)
                     /\ (mouse.old_pin8 # level /\ m.stat = 0 /\ m.last = acc
                           => Fits([a \in Axes |-> pos[a] - base[a]])))
  BY Zenon DEF towns_pad_mask_w
<1> HIDE DEF m
<1>6. quiet' = FALSE
  BY <1>3, <1>11
<1>7. /\ base' = IF m.stat = 0 THEN pos ELSE base
      /\ clean' = (clean /\ (k = 0 \/ ~quiet)
                        /\ (m.stat = 0 => Fits([a \in Axes |-> pos[a] - base[a]])))
  BY <1>3, <1>5, <1>11
<1>8. Steps'
  <2>1. ~torn' => m.stat = k
    <3>1. CASE k = 0
      BY <3>1, <1>1, <1>5 DEF IInv, Steps, InStep
    <3>2. CASE k > 0
      <4>1. ~torn' => ~quiet /\ ~torn /\ mouse.stat = k - 1
        BY <3>2, <1>1, <1>2 DEF IInv, Steps, InStep
      <4>2. (k - 1) + 1 = k /\ k % 4 = k
        BY <1>2
      <4> QED
        BY <4>1, <4>2, <1>5
    <3> QED
      BY <1>2, <3>1, <3>2
  <2>2. clean' => ~torn'
    BY <1>1, <1>2, <1>7 DEF IInv, Steps, InStep
  <2> QED
    BY <1>1, <1>2, <1>5, <2>1, <2>2 DEF Steps, InStep
<1>9. Account'
  <2>1. \A a \in Axes : (base'[a] - m.last[a]) % 65536 = 0
    BY <1>5, <1>7 DEF IInv, True, Account, Accounted
  <2>2. Busy(pc', k')
    BY <1>1 DEF Busy
  <2>3. ASSUME clean'
        PROVE  /\ \A a \in Axes : cursor[a] - Signed(m.data[a]) = base'[a]
               /\ \A i \in 0..3 : i < k => got[i] = NibbleAt(m.data, i)
    <3>1. clean /\ ~torn /\ (k = 0 \/ ~quiet)
      BY <2>3, <1>7 DEF IInv, Steps, InStep
    <3>2. CASE k = 0
      <4>1. m.stat = 0 /\ cursor = base /\ base' = pos
        BY <3>1, <3>2, <1>1, <1>5, <1>7 DEF IInv, Steps, InStep, Account, Accounted, Busy
      <4>2. \A a \in Axes : pos[a] - base[a] \in -127..128
        BY <4>1, <2>3, <1>7 DEF Fits
      <4>3. \A a \in Axes : pos[a] \in Int /\ base[a] \in Int /\ acc[a] \in Int /\ mouse.last[a] \in Int
        BY <1>2, Words16 DEF Mice, Positions
      <4>4. \A a \in Axes : Signed((mouse.last[a] - acc[a]) % 256) = base[a] - pos[a]
        <5> TAKE a \in Axes
        <5>1. (pos[a] - acc[a]) % 65536 = 0 /\ (base[a] - mouse.last[a]) % 65536 = 0
          BY DEF IInv, True, Account, Accounted
        <5>2. /\ pos[a] \in Int /\ base[a] \in Int /\ acc[a] \in Int /\ mouse.last[a] \in Int
              /\ pos[a] - base[a] \in -127..128
          BY <4>2, <4>3
        <5> QED
          BY <5>1, <5>2, ReportedExactly
      <4>5. \A a \in Axes : m.data[a] = (mouse.last[a] - acc[a]) % 256
        BY <4>1, <1>5
      <4>6. \A a \in Axes : cursor[a] - Signed(m.data[a]) = base'[a]
        BY <4>1, <4>3, <4>4, <4>5
      <4> QED
        BY <4>6, <3>2
    <3>3. CASE k > 0
      <4>1. ~quiet /\ mouse.stat = k - 1
        BY <3>1, <3>3, <1>1, <1>2 DEF IInv, Steps, InStep
      <4>2. (k - 1) + 1 = k /\ k % 4 = k
        BY <1>2
      <4>3. m.stat = k /\ m.stat # 0
        BY <4>1, <4>2, <3>3, <1>5
      <4>4. m.data = mouse.data /\ base' = base
        BY <4>3, <1>5, <1>7
      <4>5. Busy(pc, k)
        BY <3>3, <1>1 DEF Busy
      <4> QED
        BY <4>4, <4>5, <3>1 DEF IInv, Account, Accounted
    <3> QED
      BY <1>2, <3>2, <3>3
  <2> QED
    BY <1>1, <2>1, <2>2, <2>3 DEF Account, Accounted
<1>10. base' \in [Axes -> Int] /\ torn' \in BOOLEAN /\ clean' \in BOOLEAN
  BY <1>1, <1>2, <1>7
<1> QED
  BY <1>1, <1>2, <1>4, <1>6, <1>8, <1>9, <1>10, HostUnchanged DEF Pcs

LEMMA ReadIInv == IInv /\ Read => IInv'
<1> SUFFICES ASSUME IInv, Read PROVE IInv'
  OBVIOUS
<1> DEFINE now == [got EXCEPT ![k] = Nibble(mouse)]
<1>1. /\ pc = "read"
      /\ UNCHANGED <<hostVars, pin, mouse, quiet, base, torn, clean, saved, faults>>
  BY DEF Read
<1>2. /\ mouse \in Mice /\ pin \in BOOLEAN /\ quiet \in BOOLEAN /\ k \in 0..3 /\ torn \in BOOLEAN
      /\ clean \in BOOLEAN /\ base \in [Axes -> Int]
      /\ cursor \in [Axes -> Int] /\ got \in Packets /\ faults \in Nat
  BY DEF IInv, TypeOK
<1>3. Nibble(mouse) \in 0..15 /\ Nibble(mouse) = NibbleAt(mouse.data, mouse.stat)
  BY <1>2, NibbleType
<1>4. now \in Packets /\ now[k] = Nibble(mouse) /\ \A i \in 0..3 : i # k => now[i] = got[i]
  BY <1>2, <1>3 DEF Packets
<1>5. clean => ~torn /\ mouse.stat = k
  BY <1>1 DEF IInv, Steps, InStep
<1>6. clean => /\ \A a \in Axes : cursor[a] - Signed(mouse.data[a]) = base[a]
               /\ \A i \in 0..3 : i <= k => now[i] = NibbleAt(mouse.data, i)
  <2>1. Busy(pc, k)
    BY <1>1 DEF Busy
  <2>2. clean => /\ \A a \in Axes : cursor[a] - Signed(mouse.data[a]) = base[a]
                 /\ \A i \in 0..3 : i < k => got[i] = NibbleAt(mouse.data, i)
    BY <2>1 DEF IInv, Account, Accounted
  <2>3. \A i \in 0..3 : i <= k => i = k \/ i < k
    BY <1>2
  <2>4. \A i \in 0..3 : i < k => i # k
    BY <1>2
  <2> QED
    BY <2>2, <2>3, <2>4, <1>3, <1>4, <1>5
<1>7. \A a \in Axes : (base[a] - mouse.last[a]) % 65536 = 0
  BY DEF IInv, Account, Accounted
<1>8. CASE k < 3
  <2>1. pc' = "strobe" /\ k' = k + 1 /\ got' = now /\ cursor' = cursor
    BY <1>8 DEF Read
  <2> HIDE DEF now
  <2>2. k' \in 0..3 /\ k' > 0 /\ k' - 1 = k
    BY <1>8, <1>2, <2>1
  <2>3. Steps'
    BY <1>1, <2>1, <2>2 DEF IInv, Steps, InStep
  <2>4. Busy(pc', k')
    BY <2>1, <2>2 DEF Busy
  <2>5. \A i \in 0..3 : i < k' => i <= k
    BY <1>2, <2>1
  <2>6. Account'
    BY <1>1, <1>6, <1>7, <2>1, <2>4, <2>5 DEF Account, Accounted
  <2> QED
    BY <1>1, <1>2, <1>4, <2>1, <2>2, <2>3, <2>6, HostUnchanged DEF Pcs
<1>9. CASE k = 3
  <2>1. /\ pc' = "idle" /\ k' = 0 /\ got' = NoNibbles
        /\ cursor' = [a \in Axes |-> cursor[a] - Signed(Byte(now, a))]
    <3>1. ~(k < 3)
      BY <1>9
    <3> QED
      BY <3>1, Zenon DEF Read
  <2> HIDE DEF now
  <2>2. \A a \in Axes : Byte(now, a) \in Int /\ Signed(Byte(now, a)) \in Int
    <3>1. \A i \in 0..3 : now[i] \in Int
      BY <1>4 DEF Packets
    <3>2. now[0] \in Int /\ now[1] \in Int /\ now[2] \in Int /\ now[3] \in Int
      BY <3>1
    <3> QED
      BY <3>2 DEF Byte, Signed
  <2>3. cursor' \in [Axes -> Int]
    BY <1>2, <2>1, <2>2
  <2>4. clean => cursor' = base
    <3> SUFFICES ASSUME clean PROVE cursor' = base
      OBVIOUS
    <3>1. mouse.data["x"] \in 0..255 /\ mouse.data["y"] \in 0..255
      BY <1>2 DEF Mice, Axes
    <3>2. \A i \in 0..3 : now[i] = NibbleAt(mouse.data, i)
      BY <1>6, <1>9
    <3>3. /\ now[0] = mouse.data["x"] \div 16 /\ now[1] = mouse.data["x"] % 16
          /\ now[2] = mouse.data["y"] \div 16 /\ now[3] = mouse.data["y"] % 16
      BY <3>2 DEF NibbleAt
    <3>4. Byte(now, "x") = mouse.data["x"] /\ Byte(now, "y") = mouse.data["y"]
      BY <3>1, <3>3, NibblesMake DEF Byte
    <3>5. \A a \in Axes : Byte(now, a) = mouse.data[a]
      BY <3>4 DEF Axes
    <3> QED
      BY <1>2, <1>6, <2>1, <3>5
  <2>5. Steps'
    BY <1>1, <2>1 DEF IInv, Steps, InStep
  <2>6. ~Busy(pc', k')
    BY <2>1 DEF Busy
  <2>7. Account'
    BY <1>1, <1>7, <2>4, <2>6 DEF Account, Accounted
  <2> QED
    BY <1>1, <1>2, <2>1, <2>3, <2>5, <2>7, StillType, HostUnchanged DEF Pcs
<1> QED
  BY <1>2, <1>8, <1>9

\* A packet that is given up: the strobe may take motion over, which is lost.
LEMMA AbandonIInv == IInv /\ Abandon => IInv'
<1> SUFFICES ASSUME IInv, Abandon PROVE IInv'
  OBVIOUS
<1> DEFINE m == pin_8_w(mouse, FALSE, quiet)
<1>1. /\ pc' = "idle" /\ pin' = FALSE /\ k' = 0 /\ got' = NoNibbles /\ mouse' = m
      /\ faults' = faults + 1
      /\ UNCHANGED <<hostVars, cursor, torn, saved>>
  BY DEF Abandon, towns_pad_mask_w, Fault
<1>2. /\ mouse \in Mice /\ quiet \in BOOLEAN /\ torn \in BOOLEAN /\ clean \in BOOLEAN
      /\ acc \in Positions /\ pos \in [Axes -> Int] /\ base \in [Axes -> Int]
      /\ cursor \in [Axes -> Int] /\ faults \in Nat
  BY DEF IInv, TypeOK
<1>3. m \in Mice
  BY <1>2, PinType
<1>4. \A a \in Axes : (pos[a] - acc[a]) % 65536 = 0 /\ (base[a] - mouse.last[a]) % 65536 = 0
  BY DEF IInv, True, Account, Accounted
<1>5. /\ base' = IF mouse.old_pin8 # FALSE /\ m.stat = 0 /\ m.last = acc THEN pos ELSE base
      /\ quiet' = (quiet /\ mouse.old_pin8 = FALSE)
      /\ clean' = (clean /\ FALSE /\ (mouse.old_pin8 # FALSE /\ m.stat = 0 /\ m.last = acc
                                       => Fits([a \in Axes |-> pos[a] - base[a]])))
  BY Zenon DEF Abandon, towns_pad_mask_w
<1>6. mouse.old_pin8 = FALSE => m = mouse
  BY Zenon DEF pin_8_w
<1>7. mouse.old_pin8 # FALSE => /\ m.old_pin8 = FALSE
                                /\ m.stat = 0 => m.last = acc
                                /\ m.stat # 0 => m.last = mouse.last
  <2> SUFFICES ASSUME mouse.old_pin8 # FALSE
               PROVE  /\ m.old_pin8 = FALSE
                      /\ m.stat = 0 => m.last = acc
                      /\ m.stat # 0 => m.last = mouse.last
    OBVIOUS
  <2>1. FALSE \in BOOLEAN /\ TRUE \in BOOLEAN
    OBVIOUS
  <2> QED
    BY <1>2, <2>1, PinTakes
<1> HIDE DEF m
<1>8. quiet' \in BOOLEAN /\ clean' = FALSE
  BY <1>2, <1>5, Zenon
<1>9. m.old_pin8 = FALSE /\ ((base' = base /\ m.last = mouse.last) \/ (base' = pos /\ m.last = acc))
  <2>1. CASE mouse.old_pin8 = FALSE
    <3>1. base' = base
      BY <2>1, <1>5, Zenon
    <3> QED
      BY <2>1, <3>1, <1>6, Zenon
  <2>2. CASE mouse.old_pin8 # FALSE
    <3>1. CASE m.stat = 0
      BY <2>2, <3>1, <1>5, <1>7, Zenon
    <3>2. CASE m.stat # 0
      BY <2>2, <3>2, <1>5, <1>7, Zenon
    <3> QED
      BY <3>1, <3>2, Zenon
  <2> QED
    BY <2>1, <2>2, Zenon
<1>10. \A a \in Axes : (base'[a] - m.last[a]) % 65536 = 0
  BY <1>4, <1>9
<1>11. Steps'
  BY <1>1, <1>8, <1>9 DEF Steps, InStep
<1>12. Account'
  BY <1>1, <1>8, <1>10 DEF Account, Accounted
<1>13. base' \in [Axes -> Int] /\ faults' \in Nat
  BY <1>1, <1>2, <1>9
<1>14. pc' \in Pcs /\ pin' \in BOOLEAN /\ k' \in 0..3 /\ clean' \in BOOLEAN
  <2>1. "idle" \in Pcs /\ 0 \in 0..3
    BY DEF Pcs
  <2> QED
    BY <1>1, <1>8, <2>1, Zenon
<1>15. got' \in Packets /\ mouse' \in Mice
  BY <1>1, <1>3, StillType
<1> QED
  BY <1>1, <1>2, <1>8, <1>11, <1>12, <1>13, <1>14, <1>15, HostUnchanged

LEMMA SaveIInv == IInv /\ SaveState => IInv'
<1> SUFFICES ASSUME IInv, SaveState PROVE IInv'
  OBVIOUS
<1> DEFINE s0 == [mouse |-> mouse, quiet |-> quiet, base |-> base, torn |-> torn, clean |-> clean,
                  pc |-> pc, pin |-> pin, k |-> k, got |-> got, cursor |-> cursor]
<1>1. saved' = {s0} /\ faults' = faults + 1 /\ UNCHANGED <<hostVars, guestVars>>
  BY DEF SaveState, Fault
<1>2. s0 \in Saves
  BY DEF IInv, TypeOK, Saves
<1>3. /\ s0.mouse = mouse /\ s0.quiet = quiet /\ s0.base = base /\ s0.torn = torn /\ s0.clean = clean
      /\ s0.pc = pc /\ s0.pin = pin /\ s0.k = k /\ s0.got = got /\ s0.cursor = cursor
  OBVIOUS
<1> HIDE DEF s0
<1>4. TypeOK'
  <2>1. saved' \subseteq Saves /\ faults' \in Nat
    BY <1>1, <1>2 DEF IInv, TypeOK
  <2> QED
    BY <1>1, <2>1 DEF IInv, TypeOK, hostVars, guestVars, guest
<1>5. GoodSaves'
  <2>1. InStep(s0.mouse, s0.quiet, s0.pc, s0.pin, s0.k, s0.torn, s0.clean)
    BY <1>3, Zenon DEF IInv, Steps
  <2>2. Accounted(s0.mouse, s0.pc, s0.k, s0.got, s0.cursor, s0.base, s0.clean)
    BY <1>3, Zenon DEF IInv, Account
  <2> QED
    BY <1>1, <2>1, <2>2 DEF GoodSaves
<1>6. True' /\ Steps' /\ Account'
  BY <1>1 DEF IInv, True, Steps, Account, hostVars, guestVars, guest
<1> QED
  BY <1>4, <1>5, <1>6 DEF IInv

LEMMA LoadIInv == IInv /\ LoadState => IInv'
<1> SUFFICES ASSUME IInv, LoadState PROVE IInv'
  OBVIOUS
<1>1. PICK s \in saved :
        /\ mouse' = s.mouse /\ quiet' = s.quiet
        /\ pc' = s.pc /\ pin' = s.pin /\ k' = s.k /\ got' = s.got /\ cursor' = s.cursor
        /\ base' = s.base /\ torn' = s.torn /\ clean' = s.clean
  BY DEF LoadState
<1>2. faults' \in Nat /\ UNCHANGED <<hostVars, saved>>
  BY DEF LoadState, Fault, IInv, TypeOK
<1>3. s \in Saves
  BY DEF IInv, TypeOK
<1>4. Steps'
  <2>1. InStep(s.mouse, s.quiet, s.pc, s.pin, s.k, s.torn, s.clean)
    BY DEF IInv, GoodSaves
  <2> QED
    BY <1>1, <2>1, Zenon DEF Steps
<1>5. Account'
  <2>1. Accounted(s.mouse, s.pc, s.k, s.got, s.cursor, s.base, s.clean)
    BY DEF IInv, GoodSaves
  <2> QED
    BY <1>1, <2>1, Zenon DEF Account
<1>6. /\ mouse' \in Mice /\ quiet' \in BOOLEAN /\ base' \in [Axes -> Int]
      /\ torn' \in BOOLEAN /\ clean' \in BOOLEAN
      /\ pc' \in Pcs /\ pin' \in BOOLEAN /\ k' \in 0..3 /\ got' \in Packets
      /\ cursor' \in [Axes -> Int]
  BY <1>1, <1>3 DEF Saves
<1> QED
  BY <1>2, <1>4, <1>5, <1>6, HostUnchanged

LEMMA RestartIInv == IInv /\ Restart => IInv'
<1> SUFFICES ASSUME IInv, Restart PROVE IInv'
  OBVIOUS
<1>1. /\ acc' = Still /\ pos' = Still /\ base' = Still /\ cursor' = Still
      /\ mouse' = NewMouse /\ quiet' = FALSE /\ torn' = FALSE
      /\ pc' = "idle" /\ pin' = FALSE /\ k' = 0 /\ got' = NoNibbles
      /\ pads' = Shut /\ clicks' = {} /\ held' = [pads |-> Shut, mouse |-> {}]
      /\ clean' = TRUE /\ faults' = faults + 1
      /\ UNCHANGED <<g_mode, g_mouse_enabled, frames, saved>>
  BY DEF Restart, Fault
<1>2. TypeOK'
  <2>1. k' \in 0..3 /\ faults' \in Nat /\ frames' \in Nat
    BY <1>1 DEF IInv, TypeOK
  <2>2. pc' \in Pcs
    BY <1>1 DEF Pcs
  <2>3. saved' \subseteq Saves /\ g_mode' \in Modes /\ g_mouse_enabled' \in BOOLEAN
    BY <1>1 DEF IInv, TypeOK
  <2>4. /\ pads' \in [Players -> SUBSET Buttons] /\ clicks' \in SUBSET Buttons /\ held' \in Holds
        /\ acc' \in Positions /\ pos' \in [Axes -> Int] /\ mouse' \in Mice
        /\ got' \in Packets /\ cursor' \in [Axes -> Int] /\ base' \in [Axes -> Int]
    BY <1>1, StillType
  <2>5. quiet' \in BOOLEAN /\ pin' \in BOOLEAN /\ torn' \in BOOLEAN /\ clean' \in BOOLEAN
    BY <1>1, Zenon
  <2> QED
    BY <2>1, <2>2, <2>3, <2>4, <2>5, Zenon DEF TypeOK
<1>3. True'
  BY <1>1 DEF True, Still
<1>4. mouse'.last = Still /\ mouse'.old_pin8 = FALSE
  BY <1>1 DEF NewMouse
<1>5. Steps'
  BY <1>1, <1>4 DEF Steps, InStep
<1>6. Account'
  BY <1>1, <1>4 DEF Account, Accounted, Busy, Still
<1>7. GoodSaves'
  BY <1>1 DEF IInv, GoodSaves
<1> QED
  BY <1>2, <1>3, <1>5, <1>6, <1>7 DEF IInv

LEMMA NextIInv == IInv /\ [Next]_vars => IInv'
<1> SUFFICES ASSUME IInv, [Next]_vars PROVE IInv'
  OBVIOUS
<1>1. ASSUME NEW motion \in Motions, NEW press \in Presses, RetroRun(motion, press)
      PROVE  IInv'
  BY <1>1, FrameIInv
<1>2. CASE Guest
  BY <1>2, WaitIInv, BeginIInv, StrobeIInv, ReadIInv DEF Guest
<1>3. CASE Interrupt \/ Abandon
  BY <1>3, WaitIInv, AbandonIInv
<1>4. CASE SaveState \/ LoadState \/ Restart
  BY <1>4, SaveIInv, LoadIInv, RestartIInv
<1>5. CASE UNCHANGED vars
  <2>1. UNCHANGED <<hostVars, guestVars, saved, faults>>
    BY <1>5 DEF vars
  <2> QED
    BY <2>1 DEF IInv, TypeOK, True, Steps, Account, GoodSaves, hostVars, guestVars, guest
<1> QED
  BY <1>1, <1>2, <1>3, <1>4, <1>5 DEF Next

LEMMA IInvHolds == Spec => []IInv
BY InitIInv, NextIInv, PTL DEF Spec

-----------------------------------------------------------------------------
\* The registers keep the widths of the code: the session's position is cut to
\* 16 bits by set_mouse_input, the mouse's report to 8, its nibbles to 4.
THEOREM TypeCorrect == Spec => []TypeOK
<1>1. IInv => TypeOK
  BY DEF IInv
<1> QED
  BY <1>1, IInvHolds, PTL

\* pin_8_w: the mouse shows the nibble the guest means in every packet that was
\* not interrupted, whatever interrupted, abandoned or restored packets came
\* before it.
THEOREM PacketsAligned == Spec => []Aligned
<1>1. IInv => Aligned
  BY DEF IInv, Steps, InStep, Aligned
<1> QED
  BY <1>1, IInvHolds, PTL

\* set_mouse_input and pin_8_w together: the guest's cursor is the position the
\* mouse took over, for every sequence of motions of up to 8 bits and over the
\* wrap of the 16 bit position.
THEOREM CursorExact == Spec => []CursorFollows
<1>1. IInv => CursorFollows
  BY DEF IInv, Account, Accounted, Busy, CursorFollows
<1> QED
  BY <1>1, IInvHolds, PTL

\* retro_run and set_joystick_input: between two frames the ports show what the
\* frontend held down, over changes of the mode, restored states and restarts.
THEOREM ButtonsExact == Spec => []ButtonsFollow
<1>1. Init => ButtonsFollow
  BY DEF Init, ButtonsFollow, Shut
<1>2. TypeOK /\ ButtonsFollow /\ [Next]_vars => ButtonsFollow'
  <2> SUFFICES ASSUME TypeOK, ButtonsFollow, [Next]_vars PROVE ButtonsFollow'
    OBVIOUS
  <2>1. ASSUME NEW motion \in Motions, NEW press \in Presses, RetroRun(motion, press)
        PROVE  ButtonsFollow'
    <3>1. held' = press /\ set_joystick_input(press.pads)
      BY <2>1 DEF RetroRun
    <3>2. g_mouse_enabled' => clicks' = press.mouse
      BY <2>1 DEF RetroRun, set_mouse_input
    <3> QED
      BY <3>1, <3>2 DEF set_joystick_input, ButtonsFollow
  <2>2. CASE Restart
    BY <2>2 DEF Restart, ButtonsFollow, Shut
  <2>3. CASE Guest \/ Interrupt \/ Abandon \/ SaveState \/ LoadState \/ UNCHANGED vars
    <3>1. UNCHANGED hostVars
      BY <2>3 DEF Guest, Wait, Begin, Strobe, Read, Interrupt, Abandon, SaveState, LoadState, vars
    <3> QED
      BY <3>1 DEF hostVars, ButtonsFollow
  <2> QED
    BY <2>1, <2>2, <2>3 DEF Next
<1> QED
  BY <1>1, <1>2, TypeCorrect, PTL DEF Spec
=============================================================================
