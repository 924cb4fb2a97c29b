--------------------------- MODULE TownsIrqProofs ---------------------------
(***************************************************************************)
(* LinesAgree, NoneLost, NoSpurious and ShownIsWhole of TownsIrq, for any  *)
(* keys, any channels and any number of events.  The inductive invariant   *)
(* says of a controller that its level is one of its requests unless its   *)
(* timer is about to choose again, and that a request of a slave follows   *)
(* the slave's output; and of the sprite engine that only the page it is   *)
(* about to draw may lack its drawing.                                     *)
(***************************************************************************)
EXTENDS TownsIrq, WellFoundedInduction, TLAPS

-----------------------------------------------------------------------------
(* Least and greatest elements *)

Less == {ss \in Nat \X Nat : ss[1] < ss[2]}

LEMMA LeastOf ==
  ASSUME NEW S, S \subseteq Nat, S # {}
  PROVE  \E x \in S : \A y \in S : x <= y
<1>1. Less = OpToRel(<, Nat)
  BY Zenon DEF OpToRel, Less
<1>2. IsWellFoundedOn(Less, Nat)
  BY <1>1, NatLessThanWellFounded, Zenon
<1>3. PICK x \in S : \A y \in S : ~(<<y, x>> \in Less)
  BY <1>2, WFMin
<1>4. ASSUME NEW y \in S PROVE x <= y
  <2>1. x \in Nat /\ y \in Nat /\ <<y, x>> \in Nat \X Nat
    OBVIOUS
  <2>2. ~(y < x)
    BY <1>3, <2>1, Zenon DEF Less
  <2> QED
    BY <2>1, <2>2
<1> QED
  BY <1>4

LEMMA MinIn ==
  ASSUME NEW S, S \subseteq Nat, S # {}
  PROVE  Min(S) \in S
BY LeastOf DEF Min

LEMMA MaxIn ==
  ASSUME NEW n \in Nat, NEW S, S \subseteq 0..n, S # {}
  PROVE  Max(S) \in S
<1> DEFINE R == {n - x : x \in S}
<1>1. R \subseteq Nat /\ R # {}
  <2>1. ASSUME NEW x \in S PROVE n - x \in Nat
    OBVIOUS
  <2> QED
    BY <2>1
<1>2. PICK z \in R : \A y \in R : z <= y
  BY <1>1, LeastOf
<1>3. PICK x \in S : z = n - x
  OBVIOUS
<1>4. ASSUME NEW y \in S PROVE x >= y
  <2>1. n - y \in R /\ n - x <= n - y
    BY <1>2, <1>3
  <2> QED
    BY <2>1
<1> QED
  BY <1>4 DEF Max

-----------------------------------------------------------------------------
(* The controllers *)

\* A controller whose slaves are on the requests in s.
PicOK(p, s) ==
  /\ p \in Pics /\ p.slaves = s
  /\ ~p.timer => p.level \in p.irr \cup {NoLevel}
  /\ \A i \in s : i \in p.irr => i \in p.lines

\* From p to q no line that is up loses its request.
Keeps(p, q) == \A i \in q.lines : i \in q.irr \/ (i \in p.lines /\ i \notin p.irr)

Raised(p, n)  == set_irq_line(p, n, TRUE)
Lowered(p, n) == set_irq_line(p, n, FALSE)

LEMMA RaiseStep ==
  ASSUME NEW s, NEW p, PicOK(p, s), NEW n \in Irqs
  PROVE  /\ PicOK(Raised(p, n), s)
         /\ Keeps(p, Raised(p, n))
         /\ Raised(p, n).lines = p.lines \cup {n}
         /\ Raised(p, n).level = p.level
         /\ n \notin p.lines => n \in Raised(p, n).irr
<1> DEFINE q == Raised(p, n)
<1>1. p.irr \subseteq Irqs /\ p.lines \subseteq Irqs
  BY DEF PicOK, Pics
<1>2. /\ q.irr = IF n \notin p.lines THEN p.irr \cup {n} ELSE p.irr
      /\ q.lines = p.lines \cup {n}
      /\ q.timer = TRUE /\ q.level = p.level /\ q.slaves = p.slaves
  BY DEF Raised, set_irq_line, PicOK, Pics
<1>3. q.irr \subseteq Irqs /\ q.lines \subseteq Irqs
  BY <1>1, <1>2
<1>4. q \in Pics
  BY <1>3 DEF Raised, set_irq_line, PicOK, Pics
<1>5. \A i \in s : i \in q.irr => i \in q.lines
  BY <1>2 DEF PicOK
<1>6. PicOK(q, s)
  BY <1>2, <1>4, <1>5 DEF PicOK
<1>7. Keeps(p, q)
  BY <1>2 DEF Keeps
<1> QED
  BY <1>2, <1>6, <1>7

LEMMA LowerStep ==
  ASSUME NEW s, NEW p, PicOK(p, s), NEW n \in Irqs
  PROVE  /\ PicOK(Lowered(p, n), s)
         /\ Keeps(p, Lowered(p, n))
         /\ Lowered(p, n).lines = p.lines \ {n}
         /\ Lowered(p, n).level = p.level
<1> DEFINE q == Lowered(p, n)
<1>1. p.irr \subseteq Irqs /\ p.lines \subseteq Irqs
  BY DEF PicOK, Pics
<1>2. /\ q.irr = IF n \in p.lines THEN p.irr \ {n} ELSE p.irr
      /\ q.lines = p.lines \ {n}
      /\ q.timer = TRUE /\ q.level = p.level /\ q.slaves = p.slaves
  BY DEF Lowered, set_irq_line, PicOK, Pics
<1>3. q.irr \subseteq Irqs /\ q.lines \subseteq Irqs
  BY <1>1, <1>2
<1>4. q \in Pics
  BY <1>3 DEF Lowered, set_irq_line, PicOK, Pics
<1>5. \A i \in s : i \in q.irr => i \in q.lines
  BY <1>2 DEF PicOK
<1>6. PicOK(q, s)
  BY <1>2, <1>4, <1>5 DEF PicOK
<1>7. Keeps(p, q)
  BY <1>2 DEF Keeps
<1> QED
  BY <1>2, <1>6, <1>7

LEMMA TickStep ==
  ASSUME NEW s, NEW p, PicOK(p, s)
  PROVE  /\ PicOK(irq_timer_tick(p), s)
         /\ Keeps(p, irq_timer_tick(p))
         /\ irq_timer_tick(p).lines = p.lines
<1> DEFINE q == irq_timer_tick(p)
<1>1. p.irr \subseteq Irqs /\ Irqs \subseteq Nat
  BY DEF PicOK, Pics, Irqs
<1>2. Deliverable(p) \subseteq p.irr
  BY DEF Deliverable
<1>3. Deliverable(p) # {} => Min(Deliverable(p)) \in Deliverable(p)
  BY <1>1, <1>2, MinIn
<1>4. /\ q.irr = p.irr /\ q.lines = p.lines /\ q.slaves = p.slaves
      /\ q.level = IF Deliverable(p) = {} THEN NoLevel ELSE Min(Deliverable(p))
  BY DEF irq_timer_tick, PicOK, Pics
<1>5. q.level \in p.irr \cup {NoLevel}
  BY <1>2, <1>3, <1>4
<1>6. q \in Pics
  <2>1. q = [p EXCEPT !.level = q.level, !.timer = FALSE]
    BY <1>4 DEF irq_timer_tick, PicOK, Pics
  <2>2. ASSUME NEW l \in Irqs \cup {NoLevel} PROVE [p EXCEPT !.level = l, !.timer = FALSE] \in Pics
    BY DEF PicOK, Pics
  <2> QED
    BY <1>1, <1>5, <2>1, <2>2
<1>7. PicOK(q, s)
  BY <1>4, <1>5, <1>6 DEF PicOK
<1> QED
  BY <1>4, <1>7 DEF Keeps

\* An acknowledge takes back no request but the one it takes.
LEMMA AckStep ==
  ASSUME NEW s, NEW p, PicOK(p, s), p.level # NoLevel
  PROVE  /\ PicOK(acknowledge(p), s)
         /\ \A i \in p.irr : i \in acknowledge(p).irr \/ i = p.level
         /\ acknowledge(p).lines = p.lines /\ acknowledge(p).level = p.level
<1> DEFINE q == acknowledge(p)
<1>1. p.irr \subseteq Irqs /\ p.isr \subseteq Irqs /\ p.level \in Irqs
  BY DEF PicOK, Pics
<1>2. /\ q.irr = IF p.level_trig \/ p.level \in p.slaves THEN p.irr ELSE p.irr \ {p.level}
      /\ q.isr = p.isr \cup {p.level}
      /\ q.lines = p.lines /\ q.level = p.level /\ q.slaves = p.slaves /\ q.timer = TRUE
  BY DEF acknowledge, PicOK, Pics
<1>3. q.irr \subseteq Irqs /\ q.isr \subseteq Irqs
  BY <1>1, <1>2
<1>4. q \in Pics
  BY <1>3 DEF acknowledge, PicOK, Pics
<1>5. \A i \in s : i \in q.irr => i \in q.lines
  BY <1>2 DEF PicOK
<1> QED
  BY <1>2, <1>4, <1>5 DEF PicOK

LEMMA EoiStep ==
  ASSUME NEW s, NEW p, PicOK(p, s)
  PROVE  /\ PicOK(end_of_interrupt(p), s)
         /\ Keeps(p, end_of_interrupt(p))
         /\ end_of_interrupt(p).lines = p.lines /\ end_of_interrupt(p).level = p.level
<1> DEFINE q == end_of_interrupt(p)
<1>1. /\ q.irr = p.irr /\ q.lines = p.lines /\ q.level = p.level /\ q.slaves = p.slaves
      /\ q.timer = TRUE
  BY DEF end_of_interrupt, PicOK, Pics
<1>2. q \in Pics
  BY DEF end_of_interrupt, PicOK, Pics
<1> QED
  BY <1>1, <1>2 DEF PicOK, Keeps

LEMMA MaskStep ==
  ASSUME NEW s, NEW p, PicOK(p, s), NEW data \in SUBSET Irqs
  PROVE  /\ PicOK(write_mask(p, data), s)
         /\ Keeps(p, write_mask(p, data))
         /\ write_mask(p, data).lines = p.lines /\ write_mask(p, data).level = p.level
<1> DEFINE q == write_mask(p, data)
<1>1. /\ q.irr = p.irr /\ q.lines = p.lines /\ q.level = p.level /\ q.slaves = p.slaves
      /\ q.timer = TRUE
  BY DEF write_mask, PicOK, Pics
<1>2. q \in Pics
  BY DEF write_mask, PicOK, Pics
<1> QED
  BY <1>1, <1>2 DEF PicOK, Keeps

-----------------------------------------------------------------------------
(* The handlers of the driver *)

Tims == [out : SUBSET {0, 1}, timer : SUBSET {0, 1}, mask : SUBSET {0, 1}]
Kbs  == [ready : BOOLEAN, enable : BOOLEAN, output : Bytes, extend : Bytes, prev : SUBSET Keys]
Snds == [fm : BOOLEAN, pcm : BOOLEAN, flag : SUBSET Channels, mask : SUBSET Channels]
Sers == [enable : SUBSET Sources, state : SUBSET Sources, source : BOOLEAN]
Vids == [vblank : BOOLEAN, on : BOOLEAN, flag : BOOLEAN, page : {0, 1}, shown : {0, 1}]

DevTypes ==
  /\ tim \in Tims /\ kb \in Kbs /\ snd \in Snds /\ ser \in Sers /\ vid \in Vids
  /\ fdcmask \in BOOLEAN /\ whole \subseteq {0, 1}

TimerLine   == (0 \in master.lines <=> tim.timer # {}) /\ tim.timer \subseteq tim.out
KeyLine     == 1 \in master.lines => kb.ready
SerialLine  == 2 \in master.lines <=> ser.source
CascadeLine == 7 \in master.lines <=> INT(slave)
VsyncLine   == 3 \in slave.lines => vid.vblank
SoundLine   == (5 \in slave.lines <=> snd.fm \/ snd.pcm) /\ (snd.pcm <=> snd.flag # {})

\* Only the page the engine is about to draw may lack its drawing.
Pages ==
  /\ {0, 1} \ {vid.page} \subseteq whole
  /\ ~vid.flag => whole = {0, 1}
  /\ vid.shown \in whole

DevInv ==
  /\ PicOK(master, {7}) /\ PicOK(slave, {})
  /\ DevTypes /\ Pages
  /\ TimerLine /\ KeyLine /\ SerialLine /\ CascadeLine /\ VsyncLine /\ SoundLine

Kept == Keeps(master, master') /\ Keeps(slave, slave')

LEMMA KeepsSame == \A p : Keeps(p, p)
BY DEF Keeps

LEMMA KeepsOn ==
  ASSUME NEW p, NEW q, NEW r, Keeps(p, q), Keeps(q, r)
  PROVE  Keeps(p, r)
BY DEF Keeps

LEMMA PitStep ==
  ASSUME DevInv, NEW ch \in {0, 1}, NEW state \in BOOLEAN, towns_pit_out_changed(ch, state)
  PROVE  DevInv' /\ Kept
<1> DEFINE t == IF state /\ ch \in tim.mask THEN tim.timer \cup {ch} ELSE tim.timer \ {ch}
<1>1. /\ tim' = [tim EXCEPT !.out = IF state THEN @ \cup {ch} ELSE @ \ {ch}, !.timer = t]
      /\ master' = set_irq_line(master, 0, t # {})
      /\ UNCHANGED <<slave, kb, snd, ser, fdcmask, vid, whole>>
  BY DEF towns_pit_out_changed
<1>2. 0 \in Irqs /\ (t # {}) \in BOOLEAN /\ t \subseteq {0, 1}
  BY DEF Irqs, DevInv, DevTypes, Tims
<1>3. /\ PicOK(master', {7}) /\ Keeps(master, master') /\ master'.level = master.level
      /\ master'.lines = IF t # {} THEN master.lines \cup {0} ELSE master.lines \ {0}
  <2>1. CASE t # {}
    <3>1. master' = Raised(master, 0)
      BY <1>1, <2>1 DEF Raised
    <3>2. PicOK(master, {7})
      BY DEF DevInv
    <3>3. /\ PicOK(master', {7}) /\ Keeps(master, master') /\ master'.level = master.level
          /\ master'.lines = master.lines \cup {0}
      BY <1>2, <3>1, <3>2, RaiseStep
    <3> QED
      BY <2>1, <3>3
  <2>2. CASE t = {}
    <3>1. master' = Lowered(master, 0)
      BY <1>1, <2>2 DEF Lowered
    <3>2. PicOK(master, {7})
      BY DEF DevInv
    <3>3. /\ PicOK(master', {7}) /\ Keeps(master, master') /\ master'.level = master.level
          /\ master'.lines = master.lines \ {0}
      BY <1>2, <3>1, <3>2, LowerStep
    <3> QED
      BY <2>2, <3>3
  <2> QED
    BY <2>1, <2>2
<1>4. tim'.timer = t /\ tim'.out = IF state THEN tim.out \cup {ch} ELSE tim.out \ {ch}
  BY <1>1 DEF DevInv, DevTypes, Tims
<1>5. TimerLine'
  BY <1>3, <1>4 DEF DevInv, TimerLine
<1>6. tim' \in Tims
  <2> DEFINE o == IF state THEN tim.out \cup {ch} ELSE tim.out \ {ch}
  <2>1. o \subseteq {0, 1} /\ tim' = [tim EXCEPT !.out = o, !.timer = t]
    BY <1>1 DEF DevInv, DevTypes, Tims
  <2> HIDE DEF o, t
  <2> QED
    BY <1>2, <2>1 DEF DevInv, DevTypes, Tims
<1>7. DevTypes' /\ Pages' /\ VsyncLine' /\ SoundLine'
  BY <1>1, <1>6 DEF DevInv, DevTypes, Pages, VsyncLine, SoundLine
<1>8. KeyLine' /\ SerialLine' /\ CascadeLine'
  BY <1>1, <1>3 DEF DevInv, KeyLine, SerialLine, CascadeLine, INT
<1> QED
  BY <1>1, <1>3, <1>5, <1>7, <1>8, KeepsSame DEF DevInv, Kept

LEMMA Port60Step ==
  ASSUME DevInv, NEW reset \in BOOLEAN, NEW mask \in SUBSET {0, 1}, towns_port60_w(reset, mask)
  PROVE  DevInv' /\ Kept
<1> DEFINE t == IF reset THEN tim.timer \ {0} ELSE tim.timer
<1>1. /\ tim' = [tim EXCEPT !.timer = t, !.mask = mask]
      /\ master' = IF reset THEN set_irq_line(master, 0, t # {}) ELSE master
      /\ UNCHANGED <<slave, kb, snd, ser, fdcmask, vid, whole>>
  BY DEF towns_port60_w
<1>2. 0 \in Irqs /\ (t # {}) \in BOOLEAN /\ t \subseteq {0, 1}
  BY DEF Irqs, DevInv, DevTypes, Tims
<1>3. /\ PicOK(master', {7}) /\ Keeps(master, master') /\ master'.level = master.level
      /\ master'.lines = IF ~reset THEN master.lines
                         ELSE IF t # {} THEN master.lines \cup {0} ELSE master.lines \ {0}
  <2>1. CASE reset /\ t # {}
    <3>1. master' = Raised(master, 0)
      BY <1>1, <2>1 DEF Raised
    <3>2. PicOK(master, {7})
      BY DEF DevInv
    <3>3. /\ PicOK(master', {7}) /\ Keeps(master, master') /\ master'.level = master.level
          /\ master'.lines = master.lines \cup {0}
      BY <1>2, <3>1, <3>2, RaiseStep
    <3> QED
      BY <2>1, <3>3
  <2>2. CASE reset /\ t = {}
    <3>1. master' = Lowered(master, 0)
      BY <1>1, <2>2 DEF Lowered
    <3>2. PicOK(master, {7})
      BY DEF DevInv
    <3>3. /\ PicOK(master', {7}) /\ Keeps(master, master') /\ master'.level = master.level
          /\ master'.lines = master.lines \ {0}
      BY <1>2, <3>1, <3>2, LowerStep
    <3> QED
      BY <2>2, <3>3
  <2>3. CASE ~reset
    BY <1>1, <2>3, KeepsSame DEF DevInv
  <2> QED
    BY <2>1, <2>2, <2>3
<1>4. tim'.timer = t /\ tim'.out = tim.out
  BY <1>1 DEF DevInv, DevTypes, Tims
<1>5. TimerLine'
  BY <1>3, <1>4 DEF DevInv, TimerLine
<1>6. tim' \in Tims
  <2> HIDE DEF t
  <2> QED
    BY <1>1, <1>2 DEF DevInv, DevTypes, Tims
<1>7. DevTypes' /\ Pages' /\ VsyncLine' /\ SoundLine'
  BY <1>1, <1>6 DEF DevInv, DevTypes, Pages, VsyncLine, SoundLine
<1>8. KeyLine' /\ SerialLine' /\ CascadeLine'
  BY <1>1, <1>3 DEF DevInv, KeyLine, SerialLine, CascadeLine, INT
<1> QED
  BY <1>1, <1>3, <1>5, <1>7, <1>8, KeepsSame DEF DevInv, Kept

LEMMA KeyRaises ==
  ASSUME NEW p, PicOK(p, {7}), kb.enable \in BOOLEAN
  PROVE  /\ PicOK(kb_raises(p), {7}) /\ Keeps(p, kb_raises(p)) /\ kb_raises(p).level = p.level
         /\ kb_raises(p).lines = p.lines \/ kb_raises(p).lines = p.lines \cup {1}
         /\ 1 \notin p.lines /\ 1 \in kb_raises(p).lines => 1 \in kb_raises(p).irr
<1>1. CASE kb.enable
  <2>1. kb_raises(p) = Raised(p, 1) /\ 1 \in Irqs
    BY <1>1 DEF kb_raises, Raised, Irqs
  <2> QED
    BY <2>1, RaiseStep
<1>2. CASE ~kb.enable
  BY <1>2, KeepsSame DEF kb_raises
<1> QED
  BY <1>1, <1>2

\* The lines of the master but the keyboard's, when only the keyboard moved.
LEMMA KeyOnly ==
  ASSUME DevInv, PicOK(master', {7}), Keeps(master, master'), master'.level = master.level,
         \A i \in Irqs \ {1} : i \in master'.lines <=> i \in master.lines,
         kb' \in Kbs, 1 \in master'.lines => kb'.ready,
         UNCHANGED <<slave, tim, snd, ser, fdcmask, vid, whole>>
  PROVE  DevInv' /\ Kept
<1>1. 0 \in Irqs \ {1} /\ 2 \in Irqs \ {1} /\ 7 \in Irqs \ {1}
  BY DEF Irqs
<1>2. TimerLine' /\ SerialLine' /\ CascadeLine' /\ KeyLine'
  BY <1>1 DEF DevInv, TimerLine, SerialLine, CascadeLine, KeyLine, INT
<1>3. DevTypes' /\ Pages' /\ VsyncLine' /\ SoundLine'
  BY DEF DevInv, DevTypes, Pages, VsyncLine, SoundLine
<1> QED
  BY <1>2, <1>3, KeepsSame DEF DevInv, Kept

LEMMA Codes == NoCode \in Bytes /\ \A release : First(release) \in Bytes
BY DEF Bytes, NoCode, First

LEMMA PollStep ==
  ASSUME DevInv, NEW pressed \in SUBSET Keys, poll_keyboard(pressed)
  PROVE  DevInv' /\ Kept
<1> DEFINE changed == (pressed \ kb.prev) \cup (kb.prev \ pressed)
           last == Max(changed)
           code == First(last \notin pressed)
<1>1. /\ changed # {}
      /\ kb' = [kb_sendcode(kb, code, last) EXCEPT !.prev = pressed]
      /\ master' = kb_raises(master)
      /\ UNCHANGED <<slave, tim, snd, ser, fdcmask, vid, whole>>
  BY DEF poll_keyboard
<1>2. kb \in Kbs /\ kb.enable \in BOOLEAN /\ PicOK(master, {7})
  BY DEF DevInv, DevTypes, Kbs
<1>3. last \in Bytes
  <2>1. kb.prev \subseteq Keys
    BY <1>2 DEF Kbs
  <2>2. NoCode \in Nat /\ \A x \in Keys : x \in 0..NoCode
    BY KeysAssumption DEF NoCode
  <2>3. changed \subseteq 0..NoCode /\ changed \subseteq Bytes
    BY <2>1, <2>2 DEF Bytes
  <2> HIDE DEF changed
  <2>4. last \in changed
    BY <1>1, <2>2, <2>3, MaxIn
  <2> HIDE DEF last
  <2> QED
    BY <2>3, <2>4
<1>4. code \in Bytes
  BY Codes
<1>5. kb' \in Kbs /\ kb'.ready
  <2> HIDE DEF last, code
  <2> QED
    BY <1>1, <1>2, <1>3, <1>4 DEF kb_sendcode, Kbs
<1>6. /\ PicOK(master', {7}) /\ Keeps(master, master') /\ master'.level = master.level
      /\ master'.lines = master.lines \/ master'.lines = master.lines \cup {1}
  BY <1>1, <1>2, KeyRaises
<1>7. \A i \in Irqs \ {1} : i \in master'.lines <=> i \in master.lines
  BY <1>6
<1> QED
  BY <1>1, <1>5, <1>6, <1>7, KeyOnly

LEMMA KeyReadStep ==
  ASSUME DevInv, towns_keyboard_r
  PROVE  /\ DevInv' /\ Kept
         /\ 1 \in master'.lines => 1 \in master'.irr
<1> DEFINE low == Lowered(master, 1)
<1>1. /\ kb.extend # NoCode =>
           kb' = kb_sendcode(kb, kb.extend, NoCode) /\ master' = kb_raises(low)
      /\ kb.extend = NoCode => kb' = [kb EXCEPT !.ready = FALSE] /\ master' = low
      /\ UNCHANGED <<slave, tim, snd, ser, fdcmask, vid, whole>>
  BY DEF towns_keyboard_r, Lowered
<1>2. kb \in Kbs /\ kb.enable \in BOOLEAN /\ PicOK(master, {7}) /\ 1 \in Irqs
  BY DEF DevInv, DevTypes, Kbs, Irqs
<1>3. /\ PicOK(low, {7}) /\ Keeps(master, low) /\ low.level = master.level
      /\ low.lines = master.lines \ {1}
  BY <1>2, LowerStep
<1> HIDE DEF low
<1>4. CASE kb.extend # NoCode
  <2>1. /\ PicOK(master', {7}) /\ Keeps(low, master') /\ master'.level = low.level
        /\ master'.lines = low.lines \/ master'.lines = low.lines \cup {1}
        /\ 1 \notin low.lines /\ 1 \in master'.lines => 1 \in master'.irr
    BY <1>1, <1>2, <1>3, <1>4, KeyRaises
  <2>2. Keeps(master, master')
    BY <1>3, <2>1, KeepsOn
  <2>3. kb' \in Kbs /\ kb'.ready
    BY <1>1, <1>2, <1>4, Codes DEF kb_sendcode, Kbs
  <2>4. /\ \A i \in Irqs \ {1} : i \in master'.lines <=> i \in master.lines
        /\ 1 \in master'.lines => 1 \in master'.irr
    BY <1>3, <2>1
  <2> QED
    BY <1>1, <1>3, <2>1, <2>2, <2>3, <2>4, KeyOnly
<1>5. CASE kb.extend = NoCode
  <2>1. kb' \in Kbs
    BY <1>1, <1>2, <1>5 DEF Kbs
  <2>2. /\ \A i \in Irqs \ {1} : i \in master'.lines <=> i \in master.lines
        /\ 1 \notin master'.lines
    BY <1>1, <1>3, <1>5
  <2> QED
    BY <1>1, <1>3, <1>5, <2>1, <2>2, KeyOnly
<1> QED
  BY <1>4, <1>5

LEMMA KeyWriteStep ==
  ASSUME DevInv, NEW offset, NEW data \in BOOLEAN, towns_keyboard_w(offset, data)
  PROVE  DevInv' /\ Kept
<1>1. kb \in Kbs /\ PicOK(master, {7}) /\ (1 \in master.lines => kb.ready)
  BY DEF DevInv, DevTypes, KeyLine
<1>2. /\ kb' = IF offset = 0 THEN [kb EXCEPT !.ready = TRUE] ELSE [kb EXCEPT !.enable = data]
      /\ UNCHANGED <<master, slave, tim, snd, ser, fdcmask, vid, whole>>
  BY DEF towns_keyboard_w
<1>3. kb' \in Kbs /\ (kb.ready => kb'.ready)
  BY <1>1, <1>2 DEF Kbs
<1>4. master' = master /\ PicOK(master', {7}) /\ Keeps(master, master')
  BY <1>1, <1>2, KeepsSame
<1> QED
  BY <1>1, <1>2, <1>3, <1>4, KeyOnly

\* The same for the sound chips and the slave.
LEMMA SoundOnly ==
  ASSUME DevInv, PicOK(slave', {}), Keeps(slave, slave'), slave'.level = slave.level,
         \A i \in Irqs \ {5} : i \in slave'.lines <=> i \in slave.lines,
         snd' \in Snds, SoundLine',
         UNCHANGED <<master, tim, kb, ser, fdcmask, vid, whole>>
  PROVE  DevInv' /\ Kept
<1>1. 3 \in Irqs \ {5}
  BY DEF Irqs
<1>2. TimerLine' /\ SerialLine' /\ CascadeLine' /\ KeyLine'
  BY DEF DevInv, TimerLine, SerialLine, CascadeLine, KeyLine, INT
<1>3. DevTypes' /\ Pages' /\ VsyncLine'
  BY <1>1 DEF DevInv, DevTypes, Pages, VsyncLine
<1> QED
  BY <1>2, <1>3, KeepsSame DEF DevInv, Kept

\* Sound steps either raise the line, lower it, or leave it.
LEMMA SoundMoves ==
  ASSUME DevInv, snd' \in Snds, snd'.pcm <=> snd'.flag # {},
         UNCHANGED <<master, tim, kb, ser, fdcmask, vid, whole>>,
         \/ slave' = Raised(slave, 5) /\ (snd'.fm \/ snd'.pcm)
         \/ slave' = Lowered(slave, 5) /\ ~snd'.fm /\ ~snd'.pcm
         \/ slave' = slave /\ ((snd'.fm \/ snd'.pcm) <=> (snd.fm \/ snd.pcm))
  PROVE  DevInv' /\ Kept
<1>1. PicOK(slave, {}) /\ 5 \in Irqs /\ SoundLine
  BY DEF DevInv, Irqs
<1>2. CASE slave' = Raised(slave, 5) /\ (snd'.fm \/ snd'.pcm)
  <2>1. /\ PicOK(slave', {}) /\ Keeps(slave, slave') /\ slave'.level = slave.level
        /\ slave'.lines = slave.lines \cup {5}
    BY <1>1, <1>2, RaiseStep
  <2>2. SoundLine' /\ \A i \in Irqs \ {5} : i \in slave'.lines <=> i \in slave.lines
    BY <1>2, <2>1 DEF SoundLine
  <2> QED
    BY <2>1, <2>2, SoundOnly
<1>3. CASE slave' = Lowered(slave, 5) /\ ~snd'.fm /\ ~snd'.pcm
  <2>1. /\ PicOK(slave', {}) /\ Keeps(slave, slave') /\ slave'.level = slave.level
        /\ slave'.lines = slave.lines \ {5}
    BY <1>1, <1>3, LowerStep
  <2>2. SoundLine' /\ \A i \in Irqs \ {5} : i \in slave'.lines <=> i \in slave.lines
    BY <1>3, <2>1 DEF SoundLine
  <2> QED
    BY <2>1, <2>2, SoundOnly
<1>4. CASE slave' = slave /\ ((snd'.fm \/ snd'.pcm) <=> (snd.fm \/ snd.pcm))
  <2>1. PicOK(slave', {}) /\ Keeps(slave, slave') /\ SoundLine'
    BY <1>1, <1>4, KeepsSame DEF SoundLine
  <2> QED
    BY <1>4, <2>1, SoundOnly
<1> QED
  BY <1>2, <1>3, <1>4

LEMMA FmStep ==
  ASSUME DevInv, NEW state \in BOOLEAN, towns_fm_irq(state)
  PROVE  DevInv' /\ Kept
<1>1. snd \in Snds /\ (snd.pcm <=> snd.flag # {})
  BY DEF DevInv, DevTypes, SoundLine
<1>2. UNCHANGED <<master, tim, kb, ser, fdcmask, vid, whole>> /\ snd' = [snd EXCEPT !.fm = state]
  BY DEF towns_fm_irq
<1>3. snd' \in Snds /\ snd'.pcm = snd.pcm /\ snd'.flag = snd.flag
  BY <1>1, <1>2 DEF Snds
<1>4. snd'.fm <=> state
  BY <1>1, <1>2 DEF Snds
<1>5. CASE state
  <2>1. slave' = Raised(slave, 5)
    BY <1>5 DEF towns_fm_irq, Raised
  <2> QED
    BY <1>1, <1>2, <1>3, <1>4, <1>5, <2>1, SoundMoves
<1>6. CASE ~state /\ ~snd.pcm
  <2>1. slave' = Lowered(slave, 5)
    BY <1>6 DEF towns_fm_irq, Lowered
  <2> QED
    BY <1>1, <1>2, <1>3, <1>4, <1>6, <2>1, SoundMoves
<1>7. CASE ~state /\ snd.pcm
  <2>1. slave' = slave
    BY <1>7 DEF towns_fm_irq
  <2> QED
    BY <1>1, <1>2, <1>3, <1>4, <1>7, <2>1, SoundMoves
<1> QED
  BY <1>5, <1>6, <1>7

LEMMA PcmStep ==
  ASSUME DevInv, NEW channel \in Channels, towns_pcm_irq(channel)
  PROVE  DevInv' /\ Kept
<1>1. snd \in Snds
  BY DEF DevInv, DevTypes
<1>2. /\ UNCHANGED <<master, tim, kb, ser, fdcmask, vid, whole>>
      /\ snd' = [snd EXCEPT !.pcm = TRUE, !.flag = @ \cup {channel}]
      /\ slave' = Raised(slave, 5)
  BY DEF towns_pcm_irq, Raised
<1>3. snd' \in Snds /\ snd'.pcm /\ snd'.flag # {}
  BY <1>1, <1>2 DEF Snds
<1> QED
  BY <1>2, <1>3, SoundMoves

LEMMA PcmReadStep ==
  ASSUME DevInv, towns_sound_ctrl_r
  PROVE  DevInv' /\ Kept
<1>1. snd \in Snds
  BY DEF DevInv, DevTypes
<1>2. /\ UNCHANGED <<master, tim, kb, ser, fdcmask, vid, whole>>
      /\ snd' = [snd EXCEPT !.pcm = FALSE, !.flag = {}]
  BY DEF towns_sound_ctrl_r
<1>3. snd' \in Snds /\ ~snd'.pcm /\ snd'.flag = {} /\ snd'.fm = snd.fm
  BY <1>1, <1>2 DEF Snds
<1>4. CASE ~snd.fm
  <2>1. slave' = Lowered(slave, 5)
    BY <1>4 DEF towns_sound_ctrl_r, Lowered
  <2> QED
    BY <1>2, <1>3, <1>4, <2>1, SoundMoves
<1>5. CASE snd.fm
  <2>1. slave' = slave
    BY <1>5 DEF towns_sound_ctrl_r
  <2> QED
    BY <1>2, <1>3, <1>5, <2>1, SoundMoves
<1> QED
  BY <1>4, <1>5

LEMMA PcmMaskStep ==
  ASSUME DevInv, NEW mask \in SUBSET Channels, towns_sound_ctrl_w(mask)
  PROVE  DevInv' /\ Kept
<1>1. snd \in Snds /\ (snd.pcm <=> snd.flag # {})
  BY DEF DevInv, DevTypes, SoundLine
<1>2. /\ UNCHANGED <<master, slave, tim, kb, ser, fdcmask, vid, whole>>
      /\ snd' = [snd EXCEPT !.mask = mask]
  BY DEF towns_sound_ctrl_w
<1>3. snd' \in Snds /\ snd'.pcm = snd.pcm /\ snd'.flag = snd.flag /\ snd'.fm = snd.fm
  BY <1>1, <1>2 DEF Snds
<1> QED
  BY <1>1, <1>2, <1>3, SoundMoves

\* The same for the serial port and the master.
LEMMA SerialOnly ==
  ASSUME DevInv, ser' \in Sers,
         UNCHANGED <<slave, tim, kb, snd, fdcmask, vid, whole>>,
         \/ master' = Raised(master, 2) /\ ser'.source
         \/ master' = Lowered(master, 2) /\ ~ser'.source
         \/ master' = master /\ ser'.source = ser.source
  PROVE  DevInv' /\ Kept
<1>0. PicOK(master, {7}) /\ 2 \in Irqs
  BY DEF DevInv, Irqs
<1>1. /\ PicOK(master, {7})
      /\ 0 \in Irqs \ {2} /\ 1 \in Irqs \ {2} /\ 7 \in Irqs \ {2}
  BY DEF DevInv, Irqs
<1>2. /\ PicOK(master', {7}) /\ Keeps(master, master') /\ master'.level = master.level
      /\ \A i \in Irqs \ {2} : i \in master'.lines <=> i \in master.lines
      /\ SerialLine'
  <2>1. CASE master' = Raised(master, 2) /\ ser'.source
    <3>1. /\ PicOK(master', {7}) /\ Keeps(master, master') /\ master'.level = master.level
          /\ master'.lines = master.lines \cup {2}
      BY <1>0, <2>1, RaiseStep
    <3>2. \A i \in Irqs \ {2} : i \in master'.lines <=> i \in master.lines
      BY <3>1
    <3>3. SerialLine'
      BY <2>1, <3>1 DEF SerialLine
    <3> QED
      BY <3>1, <3>2, <3>3
  <2>2. CASE master' = Lowered(master, 2) /\ ~ser'.source
    <3>1. /\ PicOK(master', {7}) /\ Keeps(master, master') /\ master'.level = master.level
          /\ master'.lines = master.lines \ {2}
      BY <1>0, <2>2, LowerStep
    <3>2. \A i \in Irqs \ {2} : i \in master'.lines <=> i \in master.lines
      BY <3>1
    <3>3. SerialLine'
      BY <2>2, <3>1 DEF SerialLine
    <3> QED
      BY <3>1, <3>2, <3>3
  <2>3. CASE master' = master /\ ser'.source = ser.source
    BY <1>1, <2>3, KeepsSame DEF SerialLine, DevInv
  <2> QED
    BY <2>1, <2>2, <2>3
<1>3. TimerLine' /\ KeyLine' /\ CascadeLine'
  BY <1>1, <1>2 DEF DevInv, TimerLine, KeyLine, CascadeLine, INT
<1>4. DevTypes' /\ Pages' /\ VsyncLine' /\ SoundLine'
  BY DEF DevInv, DevTypes, Pages, VsyncLine, SoundLine
<1> QED
  BY <1>2, <1>3, <1>4, KeepsSame DEF DevInv, Kept

LEMMA ReadyStep ==
  ASSUME DevInv, NEW source \in Sources, NEW state \in BOOLEAN, towns_serial_ready_irq(source, state)
  PROVE  DevInv' /\ Kept
<1> DEFINE enable == IF state THEN ser.enable ELSE ser.enable \ {source}
           pending == IF state THEN ser.state \cup {source} ELSE ser.state
           request == enable \cap pending # {}
           looks == source \in enable /\ request # ser.source
<1>1. /\ ser' = [enable |-> enable, state |-> pending,
                 source |-> IF looks THEN request ELSE ser.source]
      /\ master' = IF looks THEN set_irq_line(master, 2, request) ELSE master
      /\ UNCHANGED <<slave, tim, kb, snd, fdcmask, vid, whole>>
  BY DEF towns_serial_ready_irq
<1>2. enable \subseteq Sources /\ pending \subseteq Sources /\ ser.source \in BOOLEAN
  BY DEF DevInv, DevTypes, Sers
<1> HIDE DEF enable, pending
<1>3. request \in BOOLEAN
  OBVIOUS
<1>4. CASE ~looks
  <2>1. /\ ser' = [enable |-> enable, state |-> pending, source |-> ser.source]
        /\ master' = master
    BY <1>1, <1>4
  <2>2. ser' \in Sers /\ ser'.source = ser.source
    BY <1>2, <2>1 DEF Sers
  <2> QED
    BY <1>1, <2>1, <2>2, SerialOnly
<1>5. CASE looks /\ enable \cap pending # {}
  <2>1. /\ ser' = [enable |-> enable, state |-> pending, source |-> TRUE]
        /\ master' = Raised(master, 2)
    BY <1>1, <1>5 DEF Raised
  <2>2. ser' \in Sers /\ ser'.source
    BY <1>2, <2>1 DEF Sers
  <2> QED
    BY <1>1, <2>1, <2>2, SerialOnly
<1>6. CASE looks /\ enable \cap pending = {}
  <2>1. /\ ser' = [enable |-> enable, state |-> pending, source |-> FALSE]
        /\ master' = Lowered(master, 2)
    BY <1>1, <1>6 DEF Lowered
  <2>2. ser' \in Sers /\ ~ser'.source
    BY <1>2, <2>1 DEF Sers
  <2> QED
    BY <1>1, <2>1, <2>2, SerialOnly
<1> QED
  BY <1>4, <1>5, <1>6

LEMMA SerialWriteStep ==
  ASSUME DevInv, NEW enable \in SUBSET Sources, towns_serial_w(enable)
  PROVE  DevInv' /\ Kept
<1>1. /\ ser' = [ser EXCEPT !.enable = enable]
      /\ UNCHANGED <<master, slave, tim, kb, snd, fdcmask, vid, whole>>
  BY DEF towns_serial_w
<1>2. ser' \in Sers /\ ser'.source = ser.source
  BY <1>1 DEF DevInv, DevTypes, Sers
<1> QED
  BY <1>1, <1>2, SerialOnly

\* Lines of the master that no other register follows, and steps of the
\* controllers themselves.
LEMMA MasterOnly ==
  ASSUME DevInv, PicOK(master', {7}), Keeps(master, master'),
         \A i \in {0, 1, 2, 7} : i \in master'.lines <=> i \in master.lines,
         UNCHANGED <<slave, devVars>>
  PROVE  DevInv' /\ Kept
<1>1. UNCHANGED <<tim, kb, snd, ser, fdcmask, vid, whole>>
  BY DEF devVars
<1>2. TimerLine' /\ SerialLine' /\ CascadeLine' /\ KeyLine'
  BY <1>1 DEF DevInv, TimerLine, SerialLine, CascadeLine, KeyLine, INT
<1>3. DevTypes' /\ Pages' /\ VsyncLine' /\ SoundLine'
  BY <1>1 DEF DevInv, DevTypes, Pages, VsyncLine, SoundLine
<1> QED
  BY <1>2, <1>3, KeepsSame DEF DevInv, Kept

LEMMA SlaveOnly ==
  ASSUME DevInv, PicOK(slave', {}), Keeps(slave, slave'), slave'.level = slave.level,
         5 \in slave'.lines <=> 5 \in slave.lines, 3 \in slave'.lines => 3 \in slave.lines,
         UNCHANGED <<master, devVars>>
  PROVE  DevInv' /\ Kept
<1>1. UNCHANGED <<tim, kb, snd, ser, fdcmask, vid, whole>>
  BY DEF devVars
<1>2. TimerLine' /\ SerialLine' /\ CascadeLine' /\ KeyLine'
  BY <1>1 DEF DevInv, TimerLine, SerialLine, CascadeLine, KeyLine, INT
<1>3. DevTypes' /\ Pages' /\ VsyncLine' /\ SoundLine'
  BY <1>1 DEF DevInv, DevTypes, Pages, VsyncLine, SoundLine
<1> QED
  BY <1>2, <1>3, KeepsSame DEF DevInv, Kept

LEMMA FdcStep ==
  ASSUME DevInv, NEW state \in BOOLEAN, mb8877a_irq_w(state)
  PROVE  /\ DevInv' /\ Kept
         /\ ~state => 6 \notin master'.lines
<1>1. PicOK(master, {7}) /\ 6 \in Irqs /\ UNCHANGED <<slave, devVars>> /\ fdcmask \in BOOLEAN
  BY DEF DevInv, DevTypes, Irqs, mb8877a_irq_w
<1>2. CASE state /\ fdcmask
  <2>1. master' = Raised(master, 6)
    BY <1>2 DEF mb8877a_irq_w, Raised
  <2>2. /\ PicOK(master', {7}) /\ Keeps(master, master') /\ master'.lines = master.lines \cup {6}
    BY <1>1, <2>1, RaiseStep
  <2> QED
    BY <1>1, <1>2, <2>2, MasterOnly
<1>3. CASE ~(state /\ fdcmask)
  <2>1. master' = Lowered(master, 6)
    BY <1>3 DEF mb8877a_irq_w, Lowered
  <2>2. /\ PicOK(master', {7}) /\ Keeps(master, master') /\ master'.lines = master.lines \ {6}
    BY <1>1, <2>1, LowerStep
  <2> QED
    BY <1>1, <2>2, MasterOnly
<1> QED
  BY <1>2, <1>3

LEMMA FloppyWriteStep ==
  ASSUME DevInv, NEW mask \in BOOLEAN, towns_floppy_w(mask)
  PROVE  DevInv' /\ Kept
<1>1. fdcmask' \in BOOLEAN /\ UNCHANGED <<master, slave, tim, kb, snd, ser, vid, whole>>
  BY DEF towns_floppy_w
<1>2. TimerLine' /\ SerialLine' /\ CascadeLine' /\ KeyLine'
  BY <1>1 DEF DevInv, TimerLine, SerialLine, CascadeLine, KeyLine, INT
<1>3. DevTypes' /\ Pages' /\ VsyncLine' /\ SoundLine'
  BY <1>1 DEF DevInv, DevTypes, Pages, VsyncLine, SoundLine
<1> QED
  BY <1>1, <1>2, <1>3, KeepsSame DEF DevInv, Kept

LEMMA ScsiStep ==
  ASSUME DevInv, NEW state \in BOOLEAN, towns_scsi_irq(state)
  PROVE  /\ DevInv' /\ Kept
         /\ ~state => 0 \notin slave'.lines
<1>1. PicOK(slave, {}) /\ 0 \in Irqs /\ UNCHANGED <<master, devVars>>
  BY DEF DevInv, Irqs, towns_scsi_irq
<1>2. CASE state
  <2>1. slave' = Raised(slave, 0)
    BY <1>2 DEF towns_scsi_irq, Raised
  <2>2. /\ PicOK(slave', {}) /\ Keeps(slave, slave') /\ slave'.level = slave.level
        /\ slave'.lines = slave.lines \cup {0}
    BY <1>1, <2>1, RaiseStep
  <2> QED
    BY <1>1, <1>2, <2>2, SlaveOnly
<1>3. CASE ~state
  <2>1. slave' = Lowered(slave, 0)
    BY <1>3 DEF towns_scsi_irq, Lowered
  <2>2. /\ PicOK(slave', {}) /\ Keeps(slave, slave') /\ slave'.level = slave.level
        /\ slave'.lines = slave.lines \ {0}
    BY <1>1, <2>1, LowerStep
  <2> QED
    BY <1>1, <2>2, SlaveOnly
<1> QED
  BY <1>2, <1>3

LEMMA VsyncClearStep ==
  ASSUME DevInv, towns_video_5c8_w
  PROVE  DevInv' /\ Kept /\ 3 \notin slave'.lines
<1>1. PicOK(slave, {}) /\ 3 \in Irqs /\ UNCHANGED <<master, devVars>> /\ slave' = Lowered(slave, 3)
  BY DEF DevInv, Irqs, towns_video_5c8_w, Lowered
<1>2. /\ PicOK(slave', {}) /\ Keeps(slave, slave') /\ slave'.level = slave.level
      /\ slave'.lines = slave.lines \ {3}
  BY <1>1, LowerStep
<1> QED
  BY <1>1, <1>2, SlaveOnly

\* The same for the video registers and the slave.
LEMMA VideoMoves ==
  ASSUME DevInv, vid' \in Vids, whole' \subseteq {0, 1}, Pages',
         UNCHANGED <<master, tim, kb, snd, ser, fdcmask>>,
         \/ slave' = Raised(slave, 3) /\ vid'.vblank
         \/ slave' = Lowered(slave, 3)
         \/ slave' = slave /\ (vid.vblank => vid'.vblank)
  PROVE  DevInv' /\ Kept
<1>1. PicOK(slave, {}) /\ 3 \in Irqs
  BY DEF DevInv, Irqs
<1>2. /\ PicOK(slave', {}) /\ Keeps(slave, slave') /\ slave'.level = slave.level
      /\ 5 \in slave'.lines <=> 5 \in slave.lines
      /\ VsyncLine'
  <2>1. CASE slave' = Raised(slave, 3) /\ vid'.vblank
    <3>1. /\ PicOK(slave', {}) /\ Keeps(slave, slave') /\ slave'.level = slave.level
          /\ slave'.lines = slave.lines \cup {3}
      BY <1>1, <2>1, RaiseStep
    <3> QED
      BY <2>1, <3>1 DEF VsyncLine
  <2>2. CASE slave' = Lowered(slave, 3)
    <3>1. /\ PicOK(slave', {}) /\ Keeps(slave, slave') /\ slave'.level = slave.level
          /\ slave'.lines = slave.lines \ {3}
      BY <1>1, <2>2, LowerStep
    <3> QED
      BY <3>1 DEF VsyncLine
  <2>3. CASE slave' = slave /\ (vid.vblank => vid'.vblank)
    BY <1>1, <2>3, KeepsSame DEF DevInv, VsyncLine
  <2> QED
    BY <2>1, <2>2, <2>3
<1>3. TimerLine' /\ SerialLine' /\ CascadeLine' /\ KeyLine' /\ SoundLine'
  BY <1>2 DEF DevInv, TimerLine, SerialLine, CascadeLine, KeyLine, SoundLine, INT
<1>4. DevTypes'
  BY DEF DevInv, DevTypes
<1> QED
  BY <1>2, <1>3, <1>4, KeepsSame DEF DevInv, Kept

\* The flip shows the page drawn last, and takes the other one for drawing.
LEMMA VsyncStep ==
  ASSUME DevInv, towns_vsync_irq
  PROVE  DevInv' /\ Kept
<1>1. /\ slave' = Raised(slave, 3)
      /\ UNCHANGED <<master, tim, kb, snd, ser, fdcmask>>
      /\ vid \in Vids /\ whole \subseteq {0, 1} /\ Pages
  BY DEF towns_vsync_irq, Raised, DevInv, DevTypes
<1>2. CASE vid.on /\ ~vid.flag
  <2>1. /\ vid' = [vid EXCEPT !.vblank = TRUE, !.page = 1 - vid.page, !.shown = vid.page,
                              !.flag = TRUE]
        /\ whole' = whole \ {vid'.page}
    BY <1>2 DEF towns_vsync_irq
  <2>2. vid.page \in {0, 1} /\ 1 - vid.page \in {0, 1} /\ 1 - vid.page # vid.page
    BY <1>1 DEF Vids
  <2>3. /\ vid' \in Vids /\ vid'.vblank
        /\ vid'.page = 1 - vid.page /\ vid'.shown = vid.page /\ vid'.flag
    BY <1>1, <2>1, <2>2 DEF Vids
  <2>4. whole = {0, 1}
    BY <1>1, <1>2 DEF Pages
  <2>5. whole' \subseteq {0, 1} /\ Pages'
    BY <2>1, <2>2, <2>3, <2>4 DEF Pages
  <2> QED
    BY <1>1, <2>3, <2>5, VideoMoves
<1>3. CASE ~(vid.on /\ ~vid.flag)
  <2>1. vid' = [vid EXCEPT !.vblank = TRUE] /\ whole' = whole
    BY <1>3 DEF towns_vsync_irq
  <2>2. /\ vid' \in Vids /\ vid'.vblank
        /\ vid'.page = vid.page /\ vid'.shown = vid.shown /\ vid'.flag = vid.flag
    BY <1>1, <2>1 DEF Vids
  <2>3. Pages'
    BY <1>1, <2>1, <2>2 DEF Pages
  <2> QED
    BY <1>1, <2>1, <2>2, <2>3, VideoMoves
<1> QED
  BY <1>2, <1>3

LEMMA DrawStep ==
  ASSUME DevInv, draw_sprites
  PROVE  DevInv' /\ Kept
<1>1. /\ vid' = [vid EXCEPT !.flag = FALSE] /\ whole' = whole \cup {vid.page}
      /\ UNCHANGED <<master, slave, tim, kb, snd, ser, fdcmask>>
      /\ vid \in Vids /\ whole \subseteq {0, 1} /\ Pages
  BY DEF draw_sprites, DevInv, DevTypes
<1>2. /\ vid' \in Vids /\ vid'.vblank = vid.vblank
      /\ vid'.page = vid.page /\ vid'.shown = vid.shown /\ vid.page \in {0, 1}
  BY <1>1 DEF Vids
<1>3. whole' \subseteq {0, 1} /\ Pages'
  BY <1>1, <1>2 DEF Pages
<1> QED
  BY <1>1, <1>2, <1>3, VideoMoves

LEMMA VblankEndStep ==
  ASSUME DevInv, towns_vblank_end
  PROVE  DevInv' /\ Kept
<1>1. /\ slave' = Lowered(slave, 3) /\ vid' = [vid EXCEPT !.vblank = FALSE]
      /\ UNCHANGED <<master, tim, kb, snd, ser, fdcmask, whole>>
      /\ vid \in Vids /\ whole \subseteq {0, 1} /\ Pages
  BY DEF towns_vblank_end, DevInv, DevTypes, Lowered
<1>2. vid' \in Vids /\ vid'.page = vid.page /\ vid'.shown = vid.shown /\ vid'.flag = vid.flag
  BY <1>1 DEF Vids
<1>3. Pages'
  BY <1>1, <1>2 DEF Pages
<1> QED
  BY <1>1, <1>2, <1>3, VideoMoves

\* A guest that changes the pages does so between two drawings.
LEMMA SpriteWriteStep ==
  ASSUME DevInv, NEW reg \in {"enable", "page", "crtc21"}, NEW data \in {0, 1},
         reg # "enable" => ~vid.flag, towns_video_440_w(reg, data)
  PROVE  DevInv' /\ Kept
<1>1. /\ UNCHANGED <<master, slave, tim, kb, snd, ser, fdcmask, whole>>
      /\ vid \in Vids /\ whole \subseteq {0, 1} /\ Pages
  BY DEF towns_video_440_w, DevInv, DevTypes
<1>2. CASE reg = "enable"
  <2>1. vid' = [vid EXCEPT !.on = (data = 1)]
    BY <1>2 DEF towns_video_440_w
  <2>2. /\ vid' \in Vids /\ vid'.vblank = vid.vblank
        /\ vid'.page = vid.page /\ vid'.shown = vid.shown /\ vid'.flag = vid.flag
    BY <1>1, <2>1 DEF Vids
  <2>3. Pages'
    BY <1>1, <2>2 DEF Pages
  <2> QED
    BY <1>1, <2>2, <2>3, VideoMoves
<1>3. CASE reg = "page"
  <2>1. vid' = [vid EXCEPT !.page = data]
    BY <1>3 DEF towns_video_440_w
  <2>2. /\ vid' \in Vids /\ vid'.vblank = vid.vblank
        /\ vid'.page = data /\ vid'.shown = vid.shown
    BY <1>1, <2>1 DEF Vids
  <2>3. Pages'
    BY <1>1, <1>3, <2>2 DEF Pages
  <2> QED
    BY <1>1, <2>2, <2>3, VideoMoves
<1>4. CASE reg = "crtc21"
  <2>1. vid' = [vid EXCEPT !.shown = IF vid.on THEN vid.shown ELSE data]
    BY <1>4 DEF towns_video_440_w
  <2>2. /\ vid' \in Vids /\ vid'.vblank = vid.vblank
        /\ vid'.page = vid.page /\ (vid'.shown = vid.shown \/ vid'.shown = data)
    BY <1>1, <2>1 DEF Vids
  <2>3. Pages'
    BY <1>1, <1>4, <2>2 DEF Pages
  <2> QED
    BY <1>1, <2>2, <2>3, VideoMoves
<1> QED
  BY <1>2, <1>3, <1>4

-----------------------------------------------------------------------------
(* The guest and the steps of the system *)

Cpus == [at : {"run", "serve", "eoi"}, pic : {"none", "master", "slave"},
         irq : {NoLevel} \cup Irqs]

\* NoneLost, line by line.
Latched ==
  /\ 1 \in master.lines => 1 \in master.irr \/ Serving("master", 1)
  /\ 6 \in master.lines => 6 \in master.irr \/ Serving("master", 6)
  /\ 0 \in slave.lines => 0 \in slave.irr \/ Serving("slave", 0)
  /\ 3 \in slave.lines => 3 \in slave.irr \/ Serving("slave", 3)
  /\ 5 \in slave.lines => 5 \in slave.irr \/ Serving("slave", 5)

IInv == DevInv /\ cpu \in Cpus /\ events \in 0..MaxEvents /\ Latched

LEMMA LatchedIsNoneLost == Latched => NoneLost
<1> SUFFICES ASSUME Latched,
                    NEW r \in {<<"master", 1>>, <<"master", 6>>, <<"slave", 0>>, <<"slave", 3>>,
                               <<"slave", 5>>},
                    r[2] \in (IF r[1] = "master" THEN master ELSE slave).lines
             PROVE  \/ r[2] \in (IF r[1] = "master" THEN master ELSE slave).irr
                    \/ Serving(r[1], r[2])
  BY DEF NoneLost
<1>1. CASE r = <<"master", 1>>
  BY <1>1 DEF Latched
<1>2. CASE r = <<"master", 6>>
  BY <1>2 DEF Latched
<1>3. CASE r = <<"slave", 0>>
  BY <1>3 DEF Latched
<1>4. CASE r = <<"slave", 3>>
  BY <1>4 DEF Latched
<1>5. CASE r = <<"slave", 5>>
  BY <1>5 DEF Latched
<1> QED
  BY <1>1, <1>2, <1>3, <1>4, <1>5

\* A step that keeps the requests, while the guest stays where it is,
LEMMA LatchedStays ==
  ASSUME Latched, Kept, cpu' = cpu
  PROVE  Latched'
BY DEF Latched, Kept, Keeps, Serving

\* or is in no routine,
LEMMA LatchedElsewhere ==
  ASSUME Latched, Kept, cpu.at # "serve"
  PROVE  Latched'
<1>1. \A pic, irq : ~Serving(pic, irq)
  BY DEF Serving
<1> QED
  BY <1>1 DEF Latched, Kept, Keeps

\* or leaves a routine that has seen to its line.
LEMMA LatchedServed ==
  ASSUME Latched, Kept, NEW pic, NEW irq, Serving(pic, irq),
         pic = "master" => (irq \in master'.lines => irq \in master'.irr),
         pic = "slave" => (irq \in slave'.lines => irq \in slave'.irr)
  PROVE  Latched'
<1>1. \A x, y : Serving(x, y) => x = pic /\ y = irq
  BY DEF Serving
<1>2. /\ \A i \in master'.lines : i \in master'.irr \/ (i \in master.lines /\ i \notin master.irr)
      /\ \A i \in slave'.lines : i \in slave'.irr \/ (i \in slave.lines /\ i \notin slave.irr)
  BY DEF Kept, Keeps
<1>3. 1 \in master'.lines => 1 \in master'.irr
  BY <1>1, <1>2 DEF Latched
<1>4. 6 \in master'.lines => 6 \in master'.irr
  BY <1>1, <1>2 DEF Latched
<1>5. 0 \in slave'.lines => 0 \in slave'.irr
  BY <1>1, <1>2 DEF Latched
<1>6. 3 \in slave'.lines => 3 \in slave'.irr
  BY <1>1, <1>2 DEF Latched
<1>7. 5 \in slave'.lines => 5 \in slave'.irr
  BY <1>1, <1>2 DEF Latched
<1> QED
  BY <1>3, <1>4, <1>5, <1>6, <1>7 DEF Latched

LEMMA MasterTickStep == IInv /\ MasterTick => IInv'
<1> SUFFICES ASSUME IInv, MasterTick PROVE IInv'
  OBVIOUS
<1>1. /\ master' = irq_timer_tick(master) /\ PicOK(master, {7})
      /\ UNCHANGED <<slave, devVars>> /\ UNCHANGED <<cpu, events>>
  BY DEF MasterTick, IInv, DevInv
<1>2. PicOK(master', {7}) /\ Keeps(master, master') /\ master'.lines = master.lines
  BY <1>1, TickStep
<1>3. DevInv' /\ Kept
  BY <1>1, <1>2, MasterOnly DEF IInv
<1> QED
  BY <1>1, <1>3, LatchedStays DEF IInv

LEMMA SlaveTickStep == IInv /\ SlaveTick => IInv'
<1> SUFFICES ASSUME IInv, SlaveTick PROVE IInv'
  OBVIOUS
<1>1. /\ slave' = irq_timer_tick(slave) /\ PicOK(slave, {}) /\ PicOK(master, {7})
      /\ master' = set_irq_line(master, 7, INT(slave'))
      /\ UNCHANGED devVars /\ UNCHANGED <<cpu, events>>
  BY DEF SlaveTick, IInv, DevInv
<1>2. PicOK(slave', {}) /\ Keeps(slave, slave') /\ slave'.lines = slave.lines
  BY <1>1, TickStep
<1>3. /\ PicOK(master', {7}) /\ Keeps(master, master')
      /\ master'.lines = IF INT(slave') THEN master.lines \cup {7} ELSE master.lines \ {7}
  <2>1. 7 \in Irqs
    BY DEF Irqs
  <2>2. CASE INT(slave')
    <3>1. master' = Raised(master, 7)
      BY <1>1, <2>2 DEF Raised, set_irq_line
    <3>2. PicOK(master, {7})
      BY <1>1
    <3>3. /\ PicOK(master', {7}) /\ Keeps(master, master')
          /\ master'.lines = master.lines \cup {7}
      BY <2>1, <3>1, <3>2, RaiseStep
    <3> QED
      BY <2>2, <3>3
  <2>3. CASE ~INT(slave')
    <3>1. master' = Lowered(master, 7)
      BY <1>1, <2>3 DEF Lowered, set_irq_line
    <3>2. PicOK(master, {7})
      BY <1>1
    <3>3. /\ PicOK(master', {7}) /\ Keeps(master, master')
          /\ master'.lines = master.lines \ {7}
      BY <2>1, <3>1, <3>2, LowerStep
    <3> QED
      BY <2>3, <3>3
  <2> QED
    BY <2>2, <2>3
<1>4. UNCHANGED <<tim, kb, snd, ser, fdcmask, vid, whole>>
  BY <1>1 DEF devVars
<1>5. TimerLine' /\ SerialLine' /\ KeyLine'
  BY <1>3, <1>4 DEF IInv, DevInv, TimerLine, SerialLine, KeyLine
<1>6. CascadeLine'
  BY <1>3 DEF CascadeLine
<1>7. DevTypes' /\ Pages' /\ VsyncLine' /\ SoundLine'
  BY <1>2, <1>4 DEF IInv, DevInv, DevTypes, Pages, VsyncLine, SoundLine
<1>8. DevInv' /\ Kept
  BY <1>2, <1>3, <1>5, <1>6, <1>7 DEF DevInv, Kept
<1> QED
  BY <1>1, <1>8, LatchedStays DEF IInv

LEMMA TakeStep == IInv /\ Take => IInv'
<1> SUFFICES ASSUME IInv, Take PROVE IInv'
  OBVIOUS
<1>1. /\ cpu.at = "run" /\ INT(master) /\ master' = acknowledge(master)
      /\ UNCHANGED devVars /\ UNCHANGED events
      /\ PicOK(master, {7}) /\ PicOK(slave, {}) /\ Latched
  BY DEF Take, IInv, DevInv
<1>2. /\ master.slaves = {7} /\ master.level \in Irqs /\ slave.level \in {NoLevel} \cup Irqs
      /\ master.level # NoLevel
  BY <1>1 DEF PicOK, Pics, INT
<1>3. /\ PicOK(master', {7}) /\ master'.lines = master.lines /\ master'.level = master.level
      /\ \A i \in master.irr : i \in master'.irr \/ i = master.level
  BY <1>1, <1>2, AckStep
<1>4. /\ PicOK(slave', {}) /\ slave'.lines = slave.lines /\ slave'.level = slave.level
      /\ \A i \in slave.irr : i \in slave'.irr \/ (master.level = 7 /\ i = slave.level)
  <2>1. CASE master.level = 7 /\ INT(slave)
    <3>1. slave' = acknowledge(slave) /\ slave.level # NoLevel
      BY <1>2, <2>1 DEF Take, INT
    <3>2. /\ PicOK(slave', {}) /\ slave'.lines = slave.lines /\ slave'.level = slave.level
          /\ \A i \in slave.irr : i \in slave'.irr \/ i = slave.level
      BY <1>1, <3>1, AckStep
    <3> QED
      BY <2>1, <3>2
  <2>2. CASE ~(master.level = 7 /\ INT(slave))
    <3>1. slave' = slave
      BY <1>2, <2>2 DEF Take
    <3> QED
      BY <1>1, <3>1
  <2> QED
    BY <2>1, <2>2
<1>5. cpu' = IF master.level = 7 THEN [at |-> "serve", pic |-> "slave", irq |-> slave.level]
             ELSE [at |-> "serve", pic |-> "master", irq |-> master.level]
  BY <1>2 DEF Take
<1>6. cpu' \in Cpus
  BY <1>2, <1>5 DEF Cpus
<1>7. UNCHANGED <<tim, kb, snd, ser, fdcmask, vid, whole>>
  BY <1>1 DEF devVars
<1>8. TimerLine' /\ SerialLine' /\ KeyLine' /\ CascadeLine'
  BY <1>3, <1>4, <1>7 DEF IInv, DevInv, TimerLine, SerialLine, KeyLine, CascadeLine, INT
<1>9. DevTypes' /\ Pages' /\ VsyncLine' /\ SoundLine'
  BY <1>4, <1>7 DEF IInv, DevInv, DevTypes, Pages, VsyncLine, SoundLine
<1>10. Latched'
  <2>1. \A pic, irq : ~Serving(pic, irq)
    BY <1>1 DEF Serving
  <2>2. CASE master.level = 7
    <3>1. (1 \in master'.lines => 1 \in master'.irr) /\ (6 \in master'.lines => 6 \in master'.irr)
      BY <1>1, <1>3, <2>1, <2>2 DEF Latched
    <3>2. \A i : i = slave.level => Serving("slave", i)'
      BY <1>5, <2>2 DEF Serving
    <3>3. \A i \in {0, 3, 5} : i \in slave'.lines => i \in slave'.irr \/ i = slave.level
      BY <1>1, <1>4, <2>1 DEF Latched
    <3> QED
      BY <3>1, <3>2, <3>3 DEF Latched
  <2>3. CASE master.level # 7
    <3>1. \A i \in {1, 6} : i \in master'.lines => i \in master'.irr \/ i = master.level
      BY <1>1, <1>3, <2>1 DEF Latched
    <3>2. \A i : i = master.level => Serving("master", i)'
      BY <1>5, <2>3 DEF Serving
    <3>3. \A i \in {0, 3, 5} : i \in slave'.lines => i \in slave'.irr
      BY <1>1, <1>4, <2>1, <2>3 DEF Latched
    <3> QED
      BY <3>1, <3>2, <3>3 DEF Latched
  <2> QED
    BY <2>2, <2>3
<1> QED
  BY <1>1, <1>3, <1>4, <1>6, <1>8, <1>9, <1>10 DEF IInv, DevInv

LEMMA ServeStep == IInv /\ Serve => IInv'
<1> SUFFICES ASSUME IInv, Serve PROVE IInv'
  OBVIOUS
<1>1. DevInv /\ Latched /\ cpu \in Cpus /\ cpu' = [cpu EXCEPT !.at = "eoi"] /\ events' = events
  BY DEF Serve, IInv
<1>2. cpu' \in Cpus
  BY <1>1 DEF Cpus
<1>3. TRUE \in BOOLEAN /\ FALSE \in BOOLEAN /\ "rx" \in Sources /\ tim.mask \in SUBSET {0, 1}
  BY <1>1 DEF Sources, DevInv, DevTypes, Tims
<1>4. DevInv' /\ Latched'
  <2>1. CASE Serving("master", 0) /\ towns_port60_w(TRUE, tim.mask)
    <3>1. DevInv' /\ Kept
      BY <1>1, <1>3, <2>1, Port60Step
    <3>2. cpu = [at |-> "serve", pic |-> "master", irq |-> 0]
      BY <2>1 DEF Serving
    <3> QED
      BY <1>1, <3>1, <3>2 DEF Latched, Kept, Keeps, Serving
  <2>2. CASE Serving("master", 1) /\ towns_keyboard_r
    BY <1>1, <2>2, KeyReadStep, LatchedServed
  <2>3. CASE Serving("master", 2) /\ towns_serial_ready_irq("rx", FALSE)
    <3>1. DevInv' /\ Kept
      BY <1>1, <1>3, <2>3, ReadyStep
    <3>2. cpu = [at |-> "serve", pic |-> "master", irq |-> 2]
      BY <2>3 DEF Serving
    <3> QED
      BY <1>1, <3>1, <3>2 DEF Latched, Kept, Keeps, Serving
  <2>4. CASE Serving("master", 6) /\ mb8877a_irq_w(FALSE)
    <3>1. DevInv' /\ Kept /\ 6 \notin master'.lines
      BY <1>1, <1>3, <2>4, FdcStep
    <3> QED
      BY <1>1, <2>4, <3>1, LatchedServed
  <2>5. CASE Serving("slave", 0) /\ towns_scsi_irq(FALSE)
    <3>1. DevInv' /\ Kept /\ 0 \notin slave'.lines
      BY <1>1, <1>3, <2>5, ScsiStep
    <3> QED
      BY <1>1, <2>5, <3>1, LatchedServed
  <2>6. CASE Serving("slave", 3) /\ towns_video_5c8_w
    BY <1>1, <2>6, VsyncClearStep, LatchedServed
  <2> QED
    BY <2>1, <2>2, <2>3, <2>4, <2>5, <2>6 DEF Serve
<1> QED
  BY <1>1, <1>2, <1>4 DEF IInv

LEMMA ServeSoundStep == IInv /\ ServeSound => IInv'
<1> SUFFICES ASSUME IInv, ServeSound PROVE IInv'
  OBVIOUS
<1>1. DevInv /\ Latched /\ cpu \in Cpus /\ Serving("slave", 5) /\ events' = events
  BY DEF ServeSound, IInv
<1>2. CASE snd.fm /\ towns_fm_irq(FALSE) /\ UNCHANGED cpu
  <2>1. DevInv' /\ Kept
    BY <1>1, <1>2, FmStep
  <2> QED
    BY <1>1, <1>2, <2>1, LatchedStays DEF IInv
<1>3. CASE snd.pcm /\ towns_sound_ctrl_r /\ UNCHANGED cpu
  <2>1. DevInv' /\ Kept
    BY <1>1, <1>3, PcmReadStep
  <2> QED
    BY <1>1, <1>3, <2>1, LatchedStays DEF IInv
<1>4. CASE /\ ~snd.fm /\ ~snd.pcm
           /\ cpu' = [cpu EXCEPT !.at = "eoi"]
           /\ UNCHANGED <<master, slave, devVars>>
  <2>1. 5 \notin slave.lines
    BY <1>1, <1>4 DEF DevInv, SoundLine
  <2>2. master' = master /\ slave' = slave /\ UNCHANGED <<tim, kb, snd, ser, fdcmask, vid, whole>>
    BY <1>4 DEF devVars
  <2>3. DevInv' /\ Kept
    <3>1. TimerLine' /\ SerialLine' /\ CascadeLine' /\ KeyLine'
      BY <1>1, <2>2 DEF DevInv, TimerLine, SerialLine, CascadeLine, KeyLine, INT
    <3>2. DevTypes' /\ Pages' /\ VsyncLine' /\ SoundLine'
      BY <1>1, <2>2 DEF DevInv, DevTypes, Pages, VsyncLine, SoundLine
    <3> QED
      BY <1>1, <2>2, <3>1, <3>2, KeepsSame DEF DevInv, Kept
  <2>4. cpu' \in Cpus
    BY <1>1, <1>4 DEF Cpus
  <2>5. Latched'
    BY <1>1, <2>1, <2>2, <2>3, LatchedServed
  <2> QED
    BY <1>1, <2>3, <2>4, <2>5 DEF IInv
<1> QED
  BY <1>2, <1>3, <1>4 DEF ServeSound

LEMMA EoiKeeps == IInv /\ Eoi => IInv'
<1> SUFFICES ASSUME IInv, Eoi PROVE IInv'
  OBVIOUS
<1>1. /\ DevInv /\ Latched /\ cpu \in Cpus /\ cpu.at = "eoi" /\ events' = events
      /\ PicOK(master, {7}) /\ PicOK(slave, {}) /\ UNCHANGED devVars
  BY DEF Eoi, IInv, DevInv
<1>2. CASE slave' = end_of_interrupt(slave) /\ master' = master /\ cpu' = [cpu EXCEPT !.pic = "master"]
  <2>1. /\ PicOK(slave', {}) /\ Keeps(slave, slave')
        /\ slave'.lines = slave.lines /\ slave'.level = slave.level
    BY <1>1, <1>2, EoiStep
  <2>2. DevInv' /\ Kept
    BY <1>1, <1>2, <2>1, SlaveOnly
  <2>3. cpu' \in Cpus
    BY <1>1, <1>2 DEF Cpus
  <2> QED
    BY <1>1, <2>2, <2>3, LatchedElsewhere DEF IInv
<1>3. CASE master' = end_of_interrupt(master) /\ slave' = slave /\ cpu' = Idle
  <2>1. PicOK(master', {7}) /\ Keeps(master, master') /\ master'.lines = master.lines
    BY <1>1, <1>3, EoiStep
  <2>2. DevInv' /\ Kept
    BY <1>1, <1>3, <2>1, MasterOnly
  <2>3. cpu' \in Cpus
    BY <1>3 DEF Cpus, Idle
  <2> QED
    BY <1>1, <2>2, <2>3, LatchedElsewhere DEF IInv
<1> QED
  BY <1>2, <1>3 DEF Eoi

LEMMA WriteStep == IInv /\ Write => IInv'
<1> SUFFICES ASSUME IInv, Write PROVE IInv'
  OBVIOUS
<1>1. /\ DevInv /\ Latched /\ cpu \in Cpus /\ cpu' = cpu /\ events' = events + 1
      /\ events \in 0..MaxEvents /\ events < MaxEvents
      /\ PicOK(master, {7}) /\ PicOK(slave, {})
  BY DEF Write, IInv, DevInv
<1>2. events' \in 0..MaxEvents
  BY <1>1, EventsAssumption
<1>3. TRUE \in BOOLEAN /\ FALSE \in BOOLEAN
  OBVIOUS
<1>4. ASSUME NEW mask \in SUBSET {0, 1}, towns_port60_w(FALSE, mask) PROVE DevInv' /\ Kept
  BY <1>1, <1>3, <1>4, Port60Step
<1>5. ASSUME towns_keyboard_w(0, FALSE) PROVE DevInv' /\ Kept
  BY <1>1, <1>3, <1>5, KeyWriteStep
<1>6. ASSUME NEW enable \in BOOLEAN, towns_keyboard_w(2, enable) PROVE DevInv' /\ Kept
  BY <1>1, <1>6, KeyWriteStep
<1>7. ASSUME NEW mask \in SUBSET Channels, towns_sound_ctrl_w(mask) PROVE DevInv' /\ Kept
  BY <1>1, <1>7, PcmMaskStep
<1>8. ASSUME NEW enable \in SUBSET Sources, towns_serial_w(enable) PROVE DevInv' /\ Kept
  BY <1>1, <1>8, SerialWriteStep
<1>9. ASSUME NEW mask \in BOOLEAN, towns_floppy_w(mask) PROVE DevInv' /\ Kept
  BY <1>1, <1>9, FloppyWriteStep
<1>10. ASSUME NEW data \in {0, 1}, towns_video_440_w("enable", data) PROVE DevInv' /\ Kept
  BY <1>1, <1>10, SpriteWriteStep
<1>11. ASSUME ~vid.flag, NEW reg \in {"page", "crtc21"}, NEW data \in {0, 1},
              towns_video_440_w(reg, data)
       PROVE  DevInv' /\ Kept
  BY <1>1, <1>11, SpriteWriteStep
<1>12. ASSUME NEW imr \in {{}, {0}, {1, 7}}, MaskMaster(imr) PROVE DevInv' /\ Kept
  <2>1. imr \in SUBSET Irqs
    BY DEF Irqs
  <2>2. master' = write_mask(master, imr) /\ UNCHANGED <<slave, devVars>>
    BY <1>12 DEF MaskMaster
  <2>3. PicOK(master', {7}) /\ Keeps(master, master') /\ master'.lines = master.lines
    BY <1>1, <2>1, <2>2, MaskStep
  <2> QED
    BY <1>1, <2>2, <2>3, MasterOnly
<1>13. ASSUME NEW imr \in {{}, {3}, {5}}, MaskSlave(imr) PROVE DevInv' /\ Kept
  <2>1. imr \in SUBSET Irqs
    BY DEF Irqs
  <2>2. slave' = write_mask(slave, imr) /\ UNCHANGED <<master, devVars>>
    BY <1>13 DEF MaskSlave
  <2>3. /\ PicOK(slave', {}) /\ Keeps(slave, slave')
        /\ slave'.lines = slave.lines /\ slave'.level = slave.level
    BY <1>1, <2>1, <2>2, MaskStep
  <2> QED
    BY <1>1, <2>2, <2>3, SlaveOnly
<1>14. DevInv' /\ Kept
  BY <1>4, <1>5, <1>6, <1>7, <1>8, <1>9, <1>10, <1>11, <1>12, <1>13, Zenon DEF Write
<1> QED
  BY <1>1, <1>2, <1>14, LatchedStays DEF IInv

LEMMA DeviceStep == IInv /\ Device => IInv'
<1> SUFFICES ASSUME IInv, Device PROVE IInv'
  OBVIOUS
<1>1. /\ DevInv /\ Latched /\ cpu \in Cpus /\ cpu' = cpu /\ events' = events + 1
      /\ events \in 0..MaxEvents /\ events < MaxEvents
  BY DEF Device, IInv, DevInv
<1>2. events' \in 0..MaxEvents
  BY <1>1, EventsAssumption
<1>3. ASSUME NEW ch \in {0, 1}, towns_pit_out_changed(ch, ch \notin tim.out)
      PROVE  DevInv' /\ Kept
  <2>1. (ch \notin tim.out) \in BOOLEAN
    OBVIOUS
  <2>2. PICK state \in BOOLEAN : towns_pit_out_changed(ch, state)
    BY <1>3, <2>1, Zenon
  <2> QED
    BY <1>1, <2>2, PitStep
<1>4. ASSUME NEW pressed \in SUBSET Keys, poll_keyboard(pressed) PROVE DevInv' /\ Kept
  BY <1>1, <1>4, PollStep
<1>5. ASSUME NEW state \in BOOLEAN, towns_fm_irq(state) PROVE DevInv' /\ Kept
  BY <1>1, <1>5, FmStep
<1>6. ASSUME NEW channel \in Channels, towns_pcm_irq(channel) PROVE DevInv' /\ Kept
  BY <1>1, <1>6, PcmStep
<1>7. ASSUME NEW source \in Sources, NEW state \in BOOLEAN, towns_serial_ready_irq(source, state)
      PROVE  DevInv' /\ Kept
  BY <1>1, <1>7, ReadyStep
<1>8. ASSUME NEW state \in BOOLEAN, mb8877a_irq_w(state) PROVE DevInv' /\ Kept
  BY <1>1, <1>8, FdcStep
<1>9. ASSUME NEW state \in BOOLEAN, towns_scsi_irq(state) PROVE DevInv' /\ Kept
  BY <1>1, <1>9, ScsiStep
<1>10. ASSUME towns_vsync_irq PROVE DevInv' /\ Kept
  BY <1>1, <1>10, VsyncStep
<1>11. DevInv' /\ Kept
  BY <1>3, <1>4, <1>5, <1>6, <1>7, <1>8, <1>9, <1>10, Zenon DEF Device
<1> QED
  BY <1>1, <1>2, <1>11, LatchedStays DEF IInv

LEMMA InitIInv == Init => IInv
<1> SUFFICES ASSUME Init PROVE IInv
  OBVIOUS
<1>1. PICK level_trig \in BOOLEAN, nested \in BOOLEAN :
        /\ master = Initialised({7}, level_trig, nested)
        /\ slave = Initialised({}, level_trig, FALSE)
  BY DEF Init
<1>2. {7} \in SUBSET Irqs /\ {} \in SUBSET Irqs
  BY DEF Irqs
<1>3. master \in Pics /\ slave \in Pics
  BY <1>1, <1>2 DEF Initialised, Pics
<1>4. /\ master.slaves = {7} /\ slave.slaves = {} /\ master.irr = {} /\ slave.irr = {}
      /\ master.lines = {} /\ slave.lines = {} /\ master.level = NoLevel /\ slave.level = NoLevel
  BY <1>1 DEF Initialised
<1>5. PicOK(master, {7}) /\ PicOK(slave, {})
  BY <1>3, <1>4 DEF PicOK
<1>6. /\ tim \in Tims /\ kb \in Kbs /\ snd \in Snds /\ ser \in Sers /\ vid \in Vids
      /\ fdcmask \in BOOLEAN /\ whole \subseteq {0, 1}
  <2>1. 0 \in Bytes
    BY DEF Bytes, NoCode
  <2> QED
    BY <2>1 DEF Init, Tims, Kbs, Snds, Sers, Vids, Sources
<1>7. Pages
  BY DEF Init, Pages
<1>8. TimerLine /\ KeyLine /\ SerialLine /\ CascadeLine /\ VsyncLine /\ SoundLine /\ Latched
  BY <1>4 DEF Init, TimerLine, KeyLine, SerialLine, CascadeLine, VsyncLine, SoundLine, INT, Latched
<1>9. cpu \in Cpus
  BY DEF Init, Idle, Cpus
<1>10. events \in 0..MaxEvents
  BY EventsAssumption DEF Init
<1> QED
  BY <1>5, <1>6, <1>7, <1>8, <1>9, <1>10 DEF IInv, DevInv, DevTypes

LEMMA NextIInv == IInv /\ [Next]_vars => IInv'
<1> SUFFICES ASSUME IInv, [Next]_vars PROVE IInv'
  OBVIOUS
<1>1. CASE MasterTick \/ SlaveTick
  BY <1>1, MasterTickStep, SlaveTickStep
<1>2. CASE Guest
  BY <1>2, TakeStep, ServeStep, ServeSoundStep, EoiKeeps DEF Guest
<1>3. CASE PollKeyboard
  <2>1. DevInv' /\ Kept
    BY <1>3, KeyReadStep DEF PollKeyboard, IInv
  <2>2. cpu' = cpu /\ events' = events
    BY <1>3 DEF PollKeyboard
  <2> QED
    BY <2>1, <2>2, LatchedStays DEF IInv
<1>4. CASE Write \/ Device
  BY <1>4, WriteStep, DeviceStep
<1>5. CASE SpritesDone
  <2>1. DevInv' /\ Kept
    BY <1>5, DrawStep DEF SpritesDone, IInv
  <2>2. cpu' = cpu /\ events' = events
    BY <1>5 DEF SpritesDone
  <2> QED
    BY <2>1, <2>2, LatchedStays DEF IInv
<1>6. CASE VblankEnd
  <2>1. DevInv' /\ Kept
    BY <1>6, VblankEndStep DEF VblankEnd, IInv
  <2>2. cpu' = cpu /\ events' = events
    BY <1>6 DEF VblankEnd
  <2> QED
    BY <2>1, <2>2, LatchedStays DEF IInv
<1>7. CASE UNCHANGED vars
  <2>1. UNCHANGED <<master, slave, cpu, events>> /\ UNCHANGED devVars
    BY <1>7 DEF vars
  <2>2. PicOK(master', {7}) /\ Keeps(master, master') /\ UNCHANGED <<slave, devVars>>
    BY <2>1, KeepsSame DEF IInv, DevInv
  <2>3. DevInv' /\ Kept
    BY <2>1, <2>2, MasterOnly DEF IInv
  <2> QED
    BY <2>1, <2>3, LatchedStays DEF IInv
<1> QED
  BY <1>1, <1>2, <1>3, <1>4, <1>5, <1>6, <1>7 DEF Next

LEMMA InvariantHolds == Spec => []IInv
BY InitIInv, NextIInv, PTL DEF Spec

-----------------------------------------------------------------------------
(* Theorems *)

\* A request line shared by several sources is up exactly while one of them
\* asks, and the master sees the slave's output, in every order of device
\* events, resets, reads and timer ticks; the registers keep their types.
THEOREM LinesAlwaysAgree == Spec => []LinesAgree
<1>1. IInv => TypeOK
  BY DEF IInv, DevInv, PicOK, DevTypes, Tims, Kbs, Snds, Sers, Vids, Cpus, TypeOK
<1>2. IInv => LinesAgree
  BY <1>1 DEF IInv, DevInv, LinesAgree, TimerLine, KeyLine, SerialLine, CascadeLine, VsyncLine,
              SoundLine
<1> QED
  BY <1>2, InvariantHolds, PTL

\* No interrupt of the keyboard, the floppy controller, SCSI, the vertical sync
\* or the sound chips is lost, however the device's edges fall between the
\* controllers' ticks and the guest's routines.
THEOREM NeverLost == Spec => []NoneLost
<1>1. IInv => NoneLost
  BY LatchedIsNoneLost DEF IInv
<1> QED
  BY <1>1, InvariantHolds, PTL

\* The cascade announces no interrupt with none of the slave behind it:
\* a settled master's level is one of its requests, and request 7 is latched
\* only while the slave's output is up.
THEOREM NeverSpurious == Spec => []NoSpurious
<1>1. ASSUME IInv PROVE NoSpurious
  <2> SUFFICES ASSUME ~master.timer, master.level = 7 PROVE INT(slave)
    BY DEF NoSpurious, Settled
  <2>1. /\ master.level \in master.irr \cup {NoLevel}
        /\ 7 \in master.irr => 7 \in master.lines
        /\ 7 \in master.lines <=> INT(slave)
    BY <1>1 DEF IInv, DevInv, PicOK, CascadeLine
  <2> QED
    BY <2>1 DEF NoLevel
<1> QED
  BY <1>1, InvariantHolds, PTL

\* The sprite page on the screen has no drawing to be done, whenever the blanks,
\* the drawings and the guest's register writes happen.
THEOREM ShownAlwaysWhole == Spec => []ShownIsWhole
<1>1. IInv => ShownIsWhole
  BY DEF IInv, DevInv, Pages, ShownIsWhole
<1> QED
  BY <1>1, InvariantHolds, PTL
=============================================================================
