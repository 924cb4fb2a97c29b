------------------------- MODULE ScreenUpdateProofs -------------------------
(***************************************************************************)
(* Proofs about ScreenUpdate for modes of any size and any division of the *)
(* frame: the picture shown has all that the beam has passed in this frame *)
(* and, a frame later, nothing older than the frame before.                *)
(***************************************************************************)
EXTENDS ScreenUpdate, WellFoundedInduction, TLAPS

-----------------------------------------------------------------------------
(* Numbers *)

\* The order of the natural numbers as a relation.
LessThan == {ss \in Nat \X Nat : ss[1] < ss[2]}

\* It is well founded.
LEMMA LessThanWellFounded == IsWellFoundedOn(LessThan, Nat)
<1>1. LessThan = OpToRel(<, Nat)
  BY Zenon DEF OpToRel, LessThan
<1> QED
  BY <1>1, NatLessThanWellFounded, Zenon

\* A bounded set of natural numbers has a greatest element: the one nearest to
\* the bound.
LEMMA NatMax ==
  ASSUME NEW n \in Nat, NEW S, S \subseteq 0..n, S # {}
  PROVE  Max(S) \in S /\ \A y \in S : y <= Max(S)
<1>1. PICK R : R = {n - x : x \in S}
  OBVIOUS
<1>2. R \subseteq Nat /\ R # {}
  <2>1. ASSUME NEW y \in S PROVE n - y \in Nat
    OBVIOUS
  <2>2. R # {}
    BY <1>1
  <2> QED
    BY <1>1, <2>1, <2>2
<1>3. PICK z \in R : \A y \in R : ~(<<y, z>> \in LessThan)
  BY <1>2, LessThanWellFounded, WFMin
<1>4. PICK x \in S : z = n - x
  BY <1>1
<1>5. ASSUME NEW y \in S PROVE y <= x
  <2>1. n - y \in R /\ n - y \in Nat /\ z \in Nat
    BY <1>1, <1>2
  <2>2. ~(n - y < z)
    <3>1. <<n - y, z>> \in Nat \X Nat
      BY <2>1
    <3> QED
      BY <1>3, <2>1, <3>1, Zenon DEF LessThan
  <2> QED
    BY <1>4, <2>2
<1>6. \E m \in S : \A y \in S : m >= y
  BY <1>5
<1> QED
  BY <1>6 DEF Max

\* std::min and std::max.
LEMMA PairMinMax ==
  ASSUME NEW a \in Int, NEW b \in Int
  PROVE  /\ Min({a, b}) = IF a <= b THEN a ELSE b
         /\ Max({a, b}) = IF a >= b THEN a ELSE b
BY DEF Min, Max

\* Products and quotients, one fact at a time.
LEMMA Times ==
  ASSUME NEW a \in Nat, NEW b \in Nat, NEW w \in Nat, a <= b
  PROVE  a * w <= b * w
OBVIOUS

LEMMA DivMod ==
  ASSUME NEW w \in Nat \ {0}, NEW i \in Nat
  PROVE  /\ i \div w \in Nat /\ i % w \in 0..(w - 1)
         /\ i = w * (i \div w) + (i % w)
OBVIOUS

-----------------------------------------------------------------------------
\* The numbers that m_last_partial_scan and m_partial_scan_hpos go up to: a palette
\* write may draw Ahead lines below the last one.
Lasts  == 0..(Max({m.h : m \in Modes}) + Ahead)
Hparts == 0..Max({m.w : m \in Modes})

\* A captured frame of some mode, and the variables of a screen of mode m.
Frames == UNION {[size : {m}, map : [Pixels(m) -> Ages]] : m \in Modes}
Screens(m) == [last : Lasts, hpart : Hparts, bitmap : [Pixels(m) -> Ages], captured : Frames]

\* The capture is the bitmap as it is.
Current(s) == s.captured = [size |-> mode, map |-> s.bitmap]

\* What was drawn is all of this frame and captured.
Holds(s) ==
  /\ \A p \in Pixels(mode) : Passed(p, s.last, s.hpart) => s.bitmap[p] = 0
  /\ s.last > 0 \/ s.hpart > 0 => Current(s)

\* Nothing is older than the frame before.
Fresh(s) == Current(s) /\ \A p \in Pixels(mode) : s.bitmap[p] <= 1

Types ==
  /\ now \in 0..(Ticks - 1) /\ mode \in Modes
  /\ Screen \in Screens(mode)
  /\ saved \subseteq [now : 0..(Ticks - 1), mode : Modes, last : Lasts]
  /\ calm \in 0..2 /\ changes \in 0..MaxChanges

IInv ==
  /\ Types
  /\ calm >= 1 => Holds(Screen)
  /\ calm = 2 => Fresh(Screen)

-----------------------------------------------------------------------------
(* Sizes and the beam *)

\* A product is no less than its factors.
LEMMA Factor ==
  ASSUME NEW a \in Nat \ {0}, NEW b \in Nat \ {0}
  PROVE  a <= a * b
<1>1. 1 * a <= b * a
  BY Times
<1> QED
  BY <1>1

\* A mode has lines and pixels, and no frame has more of them than it has ticks.
LEMMA Size ==
  ASSUME NEW m \in Modes
  PROVE  /\ m.w \in Nat \ {0} /\ m.h \in Nat \ {0}
         /\ m.h * m.w \in Nat \ {0} /\ m.h * m.w <= Ticks
         /\ m.w <= Ticks /\ m.h <= Ticks
<1>1. m.w \in Nat \ {0} /\ m.h \in Nat \ {0} /\ m.w * m.h <= Ticks /\ Ticks \in Nat
  BY ScreenAssumption
<1>2. PICK w, h : w = m.w /\ h = m.h
  OBVIOUS
<1>3. w * h = h * w /\ w * h \in Nat
  BY <1>1, <1>2
<1>4. w <= w * h /\ h <= h * w
  BY <1>1, <1>2, Factor
<1> QED
  BY <1>1, <1>2, <1>3, <1>4

\* The lines and the columns of a mode are among those that are remembered.
LEMMA Bounds ==
  /\ Lasts \subseteq Nat /\ Hparts \subseteq Nat
  /\ \A m \in Modes : 0..m.h \subseteq Lasts /\ 0..(m.h + Ahead) \subseteq Lasts /\ 0..m.w \subseteq Hparts
<1>1. PICK top : top = Max({m.h : m \in Modes})
  OBVIOUS
<1>2. PICK wide : wide = Max({m.w : m \in Modes})
  OBVIOUS
<1>3. /\ {m.h : m \in Modes} \subseteq 0..Ticks /\ {m.h : m \in Modes} # {}
      /\ {m.w : m \in Modes} \subseteq 0..Ticks /\ {m.w : m \in Modes} # {}
      /\ Ticks \in Nat
  BY Size, ScreenAssumption
<1>4. top \in {m.h : m \in Modes} /\ \A y \in {m.h : m \in Modes} : y <= top
  BY <1>1, <1>3, NatMax
<1>5. wide \in {m.w : m \in Modes} /\ \A y \in {m.w : m \in Modes} : y <= wide
  BY <1>2, <1>3, NatMax
<1>6. top \in Nat /\ wide \in Nat /\ Ahead \in Nat
  BY <1>3, <1>4, <1>5, ScreenAssumption
<1>7. Lasts = 0..(top + Ahead) /\ Hparts = 0..wide
  BY <1>1, <1>2 DEF Lasts, Hparts
<1>8. ASSUME NEW m \in Modes PROVE m.h \in Nat /\ m.h <= top /\ m.w \in Nat /\ m.w <= wide
  BY <1>4, <1>5, Size
<1> QED
  BY <1>6, <1>7, <1>8

\* A quotient is no more than what the dividend allows.
LEMMA Quotient ==
  ASSUME NEW a \in Nat, NEW b \in Nat \ {0}, NEW c \in Nat, a < b * (c + 1)
  PROVE  a \div b \in 0..c
<1>1. PICK q : q = a \div b
  OBVIOUS
<1>2. q \in Nat /\ a % b \in 0..(b - 1) /\ a = b * q + (a % b)
  BY <1>1, DivMod
<1>3. b * q <= a /\ b * q = q * b /\ b * (c + 1) = (c + 1) * b
  BY <1>2
<1>4. q < c + 1
  <2>1. CASE c + 1 <= q
    <3>1. (c + 1) * b <= q * b
      BY <1>2, <2>1, Times
    <3> QED
      BY <1>2, <1>3, <3>1
  <2> QED
    BY <1>2, <2>1
<1> QED
  BY <1>1, <1>2, <1>4

LEMMA Doubled ==
  ASSUME NEW a \in Nat, NEW b \in Nat
  PROVE  b * a \in Nat /\ (2 * a) * b = 2 * (b * a)
OBVIOUS

\* The beam is in a line of the screen; in it, it may be one past the last pixel.
LEMMA Beam ==
  ASSUME NEW m \in Modes, NEW t \in 0..(Ticks - 1)
  PROVE  vpos(t, m) \in 0..(m.h - 1) /\ hpos(t, m) \in 0..m.w
<1>1. PICK w, h : w = m.w /\ h = m.h
  OBVIOUS
<1>2. PICK st, pt : st = scantime(m) /\ pt = pixeltime(m)
  OBVIOUS
<1>3. w \in Nat \ {0} /\ h \in Nat \ {0} /\ h * w \in Nat \ {0} /\ h * w <= Ticks /\ h <= Ticks
      /\ Ticks \in Nat /\ t \in Nat
  BY <1>1, Size, ScreenAssumption
<1>4. st \in Nat \ {0}
  <2>1. st \in Nat /\ Ticks % h \in 0..(h - 1) /\ Ticks = h * st + (Ticks % h)
    BY <1>1, <1>2, <1>3, DivMod DEF scantime
  <2>2. st # 0
    <3>1. ASSUME st = 0 PROVE FALSE
      <4>1. h * st = 0
        BY <1>3, <3>1
      <4> QED
        BY <1>3, <2>1, <4>1
    <3> QED
      BY <3>1
  <2> QED
    BY <2>1, <2>2
<1>5. pt \in Nat \ {0}
  <2>1. PICK a : a = h * w
    OBVIOUS
  <2>2. pt \in Nat /\ Ticks % a \in 0..(a - 1) /\ Ticks = a * pt + (Ticks % a)
    BY <1>1, <1>2, <1>3, <2>1, DivMod DEF pixeltime
  <2>3. pt # 0
    <3>1. ASSUME pt = 0 PROVE FALSE
      <4>1. a * pt = 0
        BY <1>3, <2>1, <3>1
      <4> QED
        BY <1>3, <2>1, <2>2, <4>1
    <3> QED
      BY <3>1
  <2> QED
    BY <2>2, <2>3
<1>6. PICK a, b, l : a = 2 * t + pt /\ b = 2 * st /\ l = a \div b
  OBVIOUS
<1>7. a \in Nat /\ b \in Nat \ {0} /\ l \in Nat /\ a % b \in 0..(b - 1) /\ a = b * l + (a % b)
  <2>1. a \in Nat /\ b \in Nat \ {0}
    BY <1>3, <1>4, <1>5, <1>6
  <2> QED
    BY <1>6, <2>1, DivMod
<1>8. l = Line(t, m)
  BY <1>2, <1>6 DEF Line
<1>9. vpos(t, m) \in 0..(m.h - 1)
  <2>1. h + l \in Nat /\ (h + l) % h \in 0..(h - 1)
    BY <1>3, <1>7, DivMod
  <2> QED
    BY <1>1, <1>8, <2>1 DEF vpos
<1>10. PICK r : r = a % b
  OBVIOUS
<1>11. hpos(t, m) = r \div (2 * pt)
  <2>1. PICK e : e = 2 * l * st
    OBVIOUS
  <2>2. e = b * l
    BY <1>4, <1>6, <1>7, <2>1
  <2>3. e \in Int /\ a - e = r
    BY <1>7, <1>10, <2>2
  <2>4. 2 * t + pt - e = r
    BY <1>3, <1>5, <1>6, <2>3
  <2>5. hpos(t, m) = (2 * t + pt - e) \div (2 * pt)
    BY <1>2, <1>8, <2>1, Zenon DEF hpos
  <2> QED
    BY <2>4, <2>5, Zenon
<1>12. r \in Nat /\ r < (2 * pt) * (w + 1)
  <2>1. st < (w + 1) * pt
    BY <1>1, <1>2, BeamAssumption
  <2>2. PICK c : c = (w + 1) * pt
    OBVIOUS
  <2>3. c \in Nat /\ (2 * pt) * (w + 1) = 2 * c
    <3>1. w + 1 \in Nat /\ pt \in Nat
      BY <1>3, <1>5
    <3> QED
      BY <2>2, <3>1, Doubled
  <2> QED
    <3>1. r \in Nat /\ r < 2 * st
      BY <1>4, <1>6, <1>7, <1>10
    <3>2. st < c
      BY <2>1, <2>2
    <3>3. r < 2 * c
      BY <1>4, <2>3, <3>1, <3>2
    <3> QED
      BY <2>3, <3>1, <3>3
<1>13. r \div (2 * pt) \in 0..w
  BY <1>3, <1>5, <1>12, Quotient
<1> QED
  BY <1>1, <1>9, <1>11, <1>13
-----------------------------------------------------------------------------
(* Drawing *)

\* x is what was there, y what is there after an update.  A rectangle was drawn, and
\* captured if it is not empty.
Drew(y, x, rows, cols) ==
  /\ y \in Screens(mode) /\ y.last = x.last /\ y.hpart = x.hpart
  /\ \A p \in Pixels(mode) :
       /\ p[1] \in rows /\ p[2] \in cols => y.bitmap[p] = 0
       /\ y.bitmap[p] \in {0, x.bitmap[p]}
  /\ rows # {} /\ cols # {} => Current(y)
  /\ Current(x) => Current(y)

LEMMA DrawFields ==
  ASSUME mode \in Modes, NEW x \in Screens(mode), NEW rows, NEW cols,
         rows \subseteq 0..(mode.h - 1), cols \subseteq 0..(mode.w - 1)
  PROVE  Drew(screen_update(x, rows, cols), x, rows, cols)
<1>0. PICK y : y = screen_update(x, rows, cols)
  OBVIOUS
<1>1. CASE rows = {} \/ cols = {}
  <2>1. y = x
    BY <1>0, <1>1 DEF screen_update
  <2> QED
    BY <1>0, <1>1, <2>1 DEF Drew
<1>2. CASE rows # {} /\ cols # {}
  <2>1. PICK drawn : drawn = [p \in DOMAIN x.bitmap |-> IF p \in rows \X cols THEN 0 ELSE x.bitmap[p]]
    OBVIOUS
  <2>2. x.bitmap \in [Pixels(mode) -> Ages] /\ 0 \in Ages
    BY DEF Screens, Ages, Old
  <2>3. drawn \in [Pixels(mode) -> Ages]
    BY <2>1, <2>2
  <2>4. \A p \in Pixels(mode) :
          /\ p[1] \in rows /\ p[2] \in cols => drawn[p] = 0
          /\ drawn[p] \in {0, x.bitmap[p]}
    <3> TAKE p \in Pixels(mode)
    <3>1. p[1] \in rows /\ p[2] \in cols => p \in rows \X cols
      BY DEF Pixels
    <3> QED
      BY <2>1, <2>2, <3>1
  <2>5. PICK shot : shot = [size |-> mode, map |-> drawn]
    OBVIOUS
  <2>6. shot \in Frames
    BY <2>3, <2>5 DEF Frames
  <2>7. y = [x EXCEPT !.bitmap = drawn, !.captured = shot]
    BY <1>0, <1>2, <2>1, <2>5 DEF screen_update
  <2>8. y \in Screens(mode) /\ y.last = x.last /\ y.hpart = x.hpart /\ y.bitmap = drawn /\ y.captured = shot
    BY <2>3, <2>6, <2>7 DEF Screens
  <2> QED
    BY <1>0, <2>4, <2>5, <2>8 DEF Current, Drew
<1> QED
  BY <1>1, <1>2

\* What an update may do to the ages, whatever it draws.
LEMMA DrawsFresh ==
  ASSUME mode \in Modes, NEW x \in Screens(mode), NEW y \in Screens(mode),
         \A p \in Pixels(mode) : y.bitmap[p] \in {0, x.bitmap[p]},
         Current(x) => Current(y), Fresh(x)
  PROVE  Fresh(y)
BY DEF Fresh

\* The lines from the last one drawn to scanline.
DrewTo(y, x, scanline) ==
  /\ y \in Screens(mode)
  /\ \A p \in Pixels(mode) :
       /\ x.last <= p[1] /\ p[1] <= scanline => y.bitmap[p] = 0
       /\ y.bitmap[p] \in {0, x.bitmap[p]}
  /\ x.last <= scanline /\ x.last < mode.h => Current(y) /\ y.last = scanline + 1 /\ y.hpart = 0
  /\ x.last > scanline \/ x.last >= mode.h => y = x
  /\ Current(x) => Current(y)

LEMMA PartialFields ==
  ASSUME mode \in Modes, NEW x \in Screens(mode), NEW scanline \in 0..(mode.h - 1 + Ahead)
  PROVE  DrewTo(update_partial(x, scanline), x, scanline)
<1>0. PICK y : y = update_partial(x, scanline)
  OBVIOUS
<1>1. /\ mode.h \in Nat \ {0} /\ mode.w \in Nat \ {0}
      /\ x.last \in Nat /\ x.last \in Lasts /\ scanline \in Nat /\ 0 \in Hparts /\ scanline + 1 \in Lasts
  <2>1. mode.h \in Nat \ {0} /\ mode.w \in Nat \ {0} /\ Ahead \in Nat
    BY Size, ScreenAssumption
  <2>2. x.last \in Lasts
    BY DEF Screens
  <2>3. 0 \in 0..mode.w /\ scanline + 1 \in 0..(mode.h + Ahead) /\ scanline \in Nat
    BY <2>1
  <2> QED
    BY <2>1, <2>2, <2>3, Bounds
<1>2. PICK e : e = Min({mode.h - 1, scanline})
  OBVIOUS
<1>3. e \in 0..(mode.h - 1) /\ (e = scanline \/ (e = mode.h - 1 /\ e < scanline))
  <2>1. mode.h - 1 \in Int /\ scanline \in Int
    BY <1>1
  <2>2. e = IF mode.h - 1 <= scanline THEN mode.h - 1 ELSE scanline
    BY <1>2, <2>1, PairMinMax
  <2> QED
    BY <1>1, <2>2
<1>4. PICK rows, cols : rows = x.last..e /\ cols = 0..(mode.w - 1)
  OBVIOUS
<1>5. ASSUME x.last > scanline \/ x.last >= mode.h PROVE DrewTo(y, x, scanline)
  <2>1. scanline < x.last \/ rows = {}
    BY <1>1, <1>3, <1>4, <1>5
  <2>2. y = x
    BY <1>0, <1>2, <1>4, <2>1, Zenon DEF update_partial
  <2>3. ~(x.last <= scanline /\ x.last < mode.h)
    BY <1>1, <1>5
  <2>4. ASSUME NEW p \in Pixels(mode), x.last <= p[1], p[1] <= scanline PROVE FALSE
    <3>1. p[1] \in 0..(mode.h - 1)
      BY DEF Pixels
    <3> QED
      BY <1>1, <1>5, <2>4, <3>1
  <2> QED
    BY <2>2, <2>3, <2>4 DEF DrewTo
<1>6. ASSUME x.last <= scanline, x.last < mode.h PROVE DrewTo(y, x, scanline)
  <2>1. rows # {} /\ rows \subseteq 0..(mode.h - 1) /\ cols # {} /\ cols \subseteq 0..(mode.w - 1)
    <3>1. x.last \in rows /\ rows \subseteq 0..(mode.h - 1)
      BY <1>1, <1>3, <1>4, <1>6
    <3>2. 0 \in cols /\ cols \subseteq 0..(mode.w - 1)
      BY <1>1, <1>4
    <3> QED
      BY <3>1, <3>2
  <2>2. PICK z : z = screen_update(x, rows, cols)
    OBVIOUS
  <2>3. Drew(z, x, rows, cols)
    BY <2>1, <2>2, DrawFields, Zenon
  <2>4. PICK k : k = scanline + 1
    OBVIOUS
  <2>5. y = [z EXCEPT !.last = k, !.hpart = 0]
    <3>1. ~(scanline < x.last)
      BY <1>1, <1>6
    <3>2. x.last..Min({mode.h - 1, scanline}) = rows
      BY <1>2, <1>4
    <3>3. y = [screen_update(x, rows, cols) EXCEPT !.last = scanline + 1, !.hpart = 0]
      BY <1>0, <1>4, <2>1, <3>1, <3>2, Zenon DEF update_partial
    <3> QED
      BY <2>2, <2>4, <3>3, Zenon
  <2>6. z \in Screens(mode)
    BY <2>3 DEF Drew
  <2>7. /\ y \in Screens(mode) /\ y.last = k /\ y.hpart = 0
        /\ y.bitmap = z.bitmap /\ y.captured = z.captured
    <3>1. k \in Lasts /\ 0 \in Hparts
      BY <1>1, <2>4
    <3> QED
      BY <2>5, <2>6, <3>1 DEF Screens
  <2>8. ASSUME NEW p \in Pixels(mode), x.last <= p[1], p[1] <= scanline
        PROVE  p[1] \in rows /\ p[2] \in cols
    <3>1. p[1] \in 0..(mode.h - 1) /\ p[2] \in 0..(mode.w - 1)
      BY DEF Pixels
    <3> QED
      BY <1>1, <1>3, <1>4, <2>8, <3>1
  <2>9. ~(x.last > scanline \/ x.last >= mode.h)
    BY <1>1, <1>6
  <2> QED
    BY <2>1, <2>3, <2>4, <2>7, <2>8, <2>9 DEF Current, Drew, DrewTo
<1>7. DrewTo(y, x, scanline)
  BY <1>1, <1>5, <1>6
<1> QED
  BY <1>0, <1>7, Zenon

\* The rest of a line drawn up to hpart.
DrewRest(y, x) ==
  /\ y \in Screens(mode) /\ y.last = x.last /\ y.hpart = x.hpart
  /\ \A p \in Pixels(mode) :
       /\ p[1] = x.last /\ p[2] >= x.hpart => y.bitmap[p] = 0
       /\ y.bitmap[p] \in {0, x.bitmap[p]}
  /\ Current(x) => Current(y)

LEMMA RestFields ==
  ASSUME mode \in Modes, NEW x \in Screens(mode)
  PROVE  DrewRest(screen_update(x, {x.last} \cap 0..(mode.h - 1), x.hpart..(mode.w - 1)), x)
<1>1. mode.h \in Nat \ {0} /\ mode.w \in Nat \ {0} /\ x.last \in Nat /\ x.hpart \in Nat
  BY Size, Bounds DEF Screens
<1>2. PICK rows, cols : rows = {x.last} \cap 0..(mode.h - 1) /\ cols = x.hpart..(mode.w - 1)
  OBVIOUS
<1>3. rows \subseteq 0..(mode.h - 1) /\ cols \subseteq 0..(mode.w - 1)
  BY <1>1, <1>2
<1>4. PICK y : y = screen_update(x, rows, cols)
  OBVIOUS
<1>5. Drew(y, x, rows, cols)
  BY <1>3, <1>4, DrawFields, Zenon
<1>6. \A p \in Pixels(mode) : p[1] = x.last /\ p[2] >= x.hpart => p[1] \in rows /\ p[2] \in cols
  BY <1>1, <1>2 DEF Pixels
<1>7. DrewRest(y, x)
  BY <1>5, <1>6 DEF Drew, DrewRest
<1> QED
  BY <1>2, <1>4, <1>7, Zenon

\* The line the beam is in, from hpart to the beam.
DrewLine(y, x, v, h) ==
  /\ y \in Screens(mode) /\ y.last = x.last /\ y.hpart = x.hpart
  /\ \A p \in Pixels(mode) :
       /\ p[1] = v /\ p[2] >= x.hpart /\ p[2] < h => y.bitmap[p] = 0
       /\ y.bitmap[p] \in {0, x.bitmap[p]}
  /\ x.hpart < h => Current(y)
  /\ Current(x) => Current(y)

LEMMA LineFields ==
  ASSUME mode \in Modes, NEW x \in Screens(mode), NEW v \in 0..(mode.h - 1), NEW h \in 0..mode.w
  PROVE  DrewLine(screen_update(x, {v}, x.hpart..Min({mode.w - 1, h - 1})), x, v, h)
<1>1. mode.h \in Nat \ {0} /\ mode.w \in Nat \ {0} /\ x.last \in Nat /\ x.hpart \in Nat /\ h \in Nat
  BY Size, Bounds DEF Screens
<1>2. Min({mode.w - 1, h - 1}) = h - 1
  BY <1>1, PairMinMax
<1>3. PICK rows, cols : rows = {v} /\ cols = x.hpart..(h - 1)
  OBVIOUS
<1>4. rows \subseteq 0..(mode.h - 1) /\ cols \subseteq 0..(mode.w - 1) /\ rows # {}
  BY <1>1, <1>3
<1>5. x.hpart < h => cols # {}
  BY <1>1, <1>3
<1>6. PICK y : y = screen_update(x, rows, cols)
  OBVIOUS
<1>7. Drew(y, x, rows, cols)
  BY <1>4, <1>6, DrawFields, Zenon
<1>8. \A p \in Pixels(mode) :
        p[1] = v /\ p[2] >= x.hpart /\ p[2] < h => p[1] \in rows /\ p[2] \in cols
  BY <1>1, <1>3 DEF Pixels
<1>9. DrewLine(y, x, v, h)
  BY <1>4, <1>5, <1>7, <1>8 DEF Drew, DrewLine
<1> QED
  BY <1>2, <1>3, <1>6, <1>9, Zenon

\* The three parts of update_now, by name.
RestOf(x)  == screen_update(x, {x.last} \cap 0..(mode.h - 1), x.hpart..(mode.w - 1))
PastOf(x, v) == IF v > x.last /\ x.hpart > 0
                  THEN [RestOf(x) EXCEPT !.hpart = 0, !.last = @ + 1] ELSE x
UpOf(z, v)   == IF v > z.last THEN update_partial(z, v - 1) ELSE z
LineOf(u, v, h) == screen_update(u, {v}, u.hpart..Min({mode.w - 1, h - 1}))

\* update_now is made of them.
LEMMA NowParts ==
  ASSUME NEW x, NEW t
  PROVE  LET v == vpos(t, mode)
             h == hpos(t, mode)
         IN update_now(x, t) =
              IF v < x.last \/ (v = x.last /\ h = x.hpart) THEN x
              ELSE [LineOf(UpOf(PastOf(x, v), v), v, h) EXCEPT !.hpart = h, !.last = v]
BY Zenon DEF update_now, RestOf, PastOf, UpOf, LineOf

\* What every update keeps: it draws, or leaves a pixel as it is, and captures.
Keeps(y, x) ==
  /\ y \in Screens(mode)
  /\ \A p \in Pixels(mode) : y.bitmap[p] \in {0, x.bitmap[p]}
  /\ Current(x) => Current(y)

\* So do two updates, and none.
LEMMA KeepsTwice ==
  ASSUME NEW x, NEW y, NEW z, Keeps(y, x), Keeps(z, y)
  PROVE  Keeps(z, x)
BY DEF Keeps

LEMMA ScreenTypes ==
  ASSUME mode \in Modes, NEW x \in Screens(mode)
  PROVE  /\ x.last \in Nat /\ x.hpart \in Nat /\ x.last \in Lasts /\ x.hpart \in Hparts
         /\ x.bitmap \in [Pixels(mode) -> Ages] /\ x.captured \in Frames
         /\ Keeps(x, x)
BY Bounds DEF Screens, Keeps

\* After the rest of the line.
LEMMA PastFields ==
  ASSUME mode \in Modes, NEW x \in Screens(mode), NEW v \in 0..(mode.h - 1), v > x.last
  PROVE  LET z == PastOf(x, v)
         IN /\ Keeps(z, x) /\ z.last <= v /\ z.hpart = 0
            /\ Holds(x) => Holds(z)
<1>0. PICK z : z = PastOf(x, v)
  OBVIOUS
<1>1. x.last \in Nat /\ x.hpart \in Nat /\ v \in Nat /\ mode.h \in Nat /\ mode.w \in Nat
  BY ScreenTypes, Size
<1>2. ASSUME x.hpart > 0
      PROVE  Keeps(z, x) /\ z.last <= v /\ z.hpart = 0 /\ (Holds(x) => Holds(z))
  <2>1. PICK r : r = RestOf(x)
    OBVIOUS
  <2>2. DrewRest(r, x)
    BY <2>1, RestFields, Zenon DEF RestOf
  <2>3. PICK k : k = x.last + 1
    OBVIOUS
  <2>4. r \in Screens(mode) /\ r.last = x.last
    BY <2>2 DEF DrewRest
  <2>5. k \in Lasts /\ 0 \in Hparts /\ k \in Nat /\ k <= v
    <3>1. k \in 0..mode.h /\ 0 \in 0..mode.w
      BY <1>1, <2>3
    <3> QED
      BY <1>1, <2>3, <3>1, Bounds
  <2>6. z = [r EXCEPT !.hpart = 0, !.last = k]
    <3>1. z = [r EXCEPT !.hpart = 0, !.last = @ + 1]
      BY <1>0, <1>2, <2>1, Zenon DEF PastOf
    <3> QED
      BY <2>3, <2>4, <3>1 DEF Screens
  <2>7. /\ z \in Screens(mode) /\ z.last = k /\ z.hpart = 0
        /\ z.bitmap = r.bitmap /\ z.captured = r.captured
    BY <2>4, <2>5, <2>6 DEF Screens
  <2>8. Keeps(z, x)
    BY <2>2, <2>7 DEF Keeps, DrewRest, Current
  <2>9. ASSUME Holds(x) PROVE Holds(z)
    <3>1. Current(z)
      BY <1>2, <2>8, <2>9 DEF Holds, Keeps
    <3>2. ASSUME NEW p \in Pixels(mode), Passed(p, k, 0) PROVE z.bitmap[p] = 0
      <4>1. p[1] \in Nat /\ p[2] \in Nat
        BY DEF Pixels
      <4>2. CASE p[1] < x.last \/ (p[1] = x.last /\ p[2] < x.hpart)
        <5>1. x.bitmap[p] = 0
          BY <2>9, <4>2 DEF Holds, Passed
        <5> QED
          BY <2>8, <5>1 DEF Keeps
      <4>3. CASE p[1] = x.last /\ p[2] >= x.hpart
        BY <2>2, <2>7, <4>3 DEF DrewRest
      <4> QED
        BY <1>1, <2>3, <3>2, <4>1, <4>2, <4>3 DEF Passed
    <3> QED
      BY <2>7, <3>1, <3>2 DEF Holds
  <2> QED
    BY <2>5, <2>7, <2>8, <2>9
<1>3. ASSUME ~(x.hpart > 0)
      PROVE  Keeps(z, x) /\ z.last <= v /\ z.hpart = 0 /\ (Holds(x) => Holds(z))
  <2>1. z = x
    BY <1>0, <1>3, Zenon DEF PastOf
  <2> QED
    BY <1>1, <1>3, <2>1, ScreenTypes
<1> QED
  BY <1>0, <1>2, <1>3, Zenon

\* After the lines above the beam.
LEMMA UpFields ==
  ASSUME mode \in Modes, NEW z \in Screens(mode), NEW v \in 0..(mode.h - 1),
         z.last <= v, z.hpart = 0
  PROVE  LET u == UpOf(z, v)
         IN /\ Keeps(u, z) /\ u.last = v /\ u.hpart = 0
            /\ Holds(z) => Holds(u)
<1>0. PICK u : u = UpOf(z, v)
  OBVIOUS
<1>1. z.last \in Nat /\ v \in Nat /\ mode.h \in Nat
  BY ScreenTypes, Size
<1>2. ASSUME v > z.last
      PROVE  Keeps(u, z) /\ u.last = v /\ u.hpart = 0 /\ (Holds(z) => Holds(u))
  <2>1. PICK k : k = v - 1
    OBVIOUS
  <2>2. k \in 0..(mode.h - 1 + Ahead) /\ k \in Nat /\ z.last <= k /\ z.last < mode.h /\ v = k + 1
    BY <1>1, <1>2, <2>1, ScreenAssumption
  <2>3. DrewTo(u, z, k)
    BY <1>0, <1>2, <2>1, <2>2, PartialFields, Zenon DEF UpOf
  <2>4. Keeps(u, z) /\ Current(u) /\ u.last = v /\ u.hpart = 0
    BY <2>2, <2>3 DEF DrewTo, Keeps
  <2>5. ASSUME Holds(z) PROVE Holds(u)
    <3>1. ASSUME NEW p \in Pixels(mode), Passed(p, v, 0) PROVE u.bitmap[p] = 0
      <4>1. p[1] \in Nat /\ p[2] \in Nat
        BY DEF Pixels
      <4>2. CASE p[1] < z.last
        <5>1. z.bitmap[p] = 0
          BY <2>5, <4>2 DEF Holds, Passed
        <5> QED
          BY <2>4, <5>1 DEF Keeps
      <4>3. CASE z.last <= p[1] /\ p[1] <= k
        BY <2>3, <4>3 DEF DrewTo
      <4> QED
        BY <1>1, <2>2, <3>1, <4>1, <4>2, <4>3 DEF Passed
    <3> QED
      BY <2>4, <3>1 DEF Holds
  <2> QED
    BY <2>4, <2>5
<1>3. ASSUME ~(v > z.last)
      PROVE  Keeps(u, z) /\ u.last = v /\ u.hpart = 0 /\ (Holds(z) => Holds(u))
  <2>1. u = z
    BY <1>0, <1>3, Zenon DEF UpOf
  <2> QED
    BY <1>1, <1>3, <2>1, ScreenTypes
<1> QED
  BY <1>0, <1>2, <1>3, Zenon

\* The picture has all that the beam has passed, when it is at v and h.
Shows(y, v, h) ==
  \A p \in Pixels(mode) : Passed(p, v, h) => y.bitmap[p] = 0 /\ Current(y)

\* After the line the beam is in.
LEMMA LastFields ==
  ASSUME mode \in Modes, NEW u \in Screens(mode), NEW v \in 0..(mode.h - 1), NEW h \in 0..mode.w,
         u.last = v
  PROVE  LET y == [LineOf(u, v, h) EXCEPT !.hpart = h, !.last = v]
         IN /\ Keeps(y, u)
            /\ Holds(u) => Holds(y) /\ Shows(y, v, h)
<1>1. PICK r : r = LineOf(u, v, h)
  OBVIOUS
<1>2. DrewLine(r, u, v, h)
  BY <1>1, LineFields, Zenon DEF LineOf
<1>3. PICK y : y = [r EXCEPT !.hpart = h, !.last = v]
  OBVIOUS
<1>4. /\ v \in Nat /\ h \in Nat /\ v \in Lasts /\ h \in Hparts
      /\ u.last \in Nat /\ u.hpart \in Nat
  <2>1. mode.h \in Nat \ {0} /\ mode.w \in Nat \ {0}
    BY Size
  <2>2. v \in 0..mode.h
    BY <2>1
  <2> QED
    BY <2>1, <2>2, Bounds, ScreenTypes
<1>5. /\ y \in Screens(mode) /\ y.last = v /\ y.hpart = h
      /\ y.bitmap = r.bitmap /\ y.captured = r.captured
  <2>1. r \in Screens(mode)
    BY <1>2 DEF DrewLine
  <2> QED
    BY <1>3, <1>4, <2>1 DEF Screens
<1>6. Keeps(y, u)
  BY <1>2, <1>5 DEF Keeps, DrewLine, Current
<1>7. ASSUME Holds(u) PROVE Holds(y) /\ Shows(y, v, h)
  <2>1. ASSUME NEW p \in Pixels(mode), Passed(p, v, h) PROVE y.bitmap[p] = 0
    <3>1. p[1] \in Nat /\ p[2] \in Nat
      BY DEF Pixels
    <3>2. CASE p[1] < v \/ (p[1] = v /\ p[2] < u.hpart)
      <4>1. u.bitmap[p] = 0
        BY <1>7, <3>2 DEF Holds, Passed
      <4> QED
        BY <1>6, <4>1 DEF Keeps
    <3>3. CASE p[1] = v /\ p[2] >= u.hpart /\ p[2] < h
      BY <1>2, <1>5, <3>3 DEF DrewLine
    <3> QED
      BY <1>4, <2>1, <3>1, <3>2, <3>3 DEF Passed
  <2>2. v > 0 \/ h > 0 => Current(y)
    <3>1. CASE u.hpart < h
      BY <1>2, <1>5, <3>1 DEF DrewLine, Current
    <3>2. ASSUME ~(u.hpart < h), v > 0 \/ h > 0 PROVE Current(y)
      <4>1. Current(u)
        BY <1>4, <1>7, <3>2 DEF Holds
      <4> QED
        BY <1>6, <4>1 DEF Keeps
    <3> QED
      BY <3>1, <3>2
  <2>3. Holds(y)
    BY <1>5, <2>1, <2>2 DEF Holds
  <2>4. Shows(y, v, h)
    <3>1. ASSUME NEW p \in Pixels(mode), Passed(p, v, h) PROVE v > 0 \/ h > 0
      <4>1. p[1] \in Nat /\ p[2] \in Nat
        BY DEF Pixels
      <4> QED
        BY <1>4, <3>1, <4>1 DEF Passed
    <3> QED
      BY <2>1, <2>2, <3>1 DEF Shows
  <2> QED
    BY <2>3, <2>4
<1> QED
  BY <1>1, <1>3, <1>6, <1>7, Zenon

\* After update_now at a time at which the beam is at line v and pixel h.
LEMMA NowFields ==
  ASSUME mode \in Modes, NEW x \in Screens(mode), NEW v \in 0..(mode.h - 1), NEW h \in 0..mode.w,
         NEW t, v = vpos(t, mode), h = hpos(t, mode)
  PROVE  LET y == update_now(x, t)
         IN /\ Keeps(y, x)
            /\ Holds(x) => Holds(y) /\ Shows(y, v, h)
<1>0. PICK y : y = update_now(x, t)
  OBVIOUS
<1>1. v \in Nat /\ h \in Nat /\ x.last \in Nat /\ x.hpart \in Nat
  BY ScreenTypes, Size
<1>2. y = IF v < x.last \/ (v = x.last /\ h = x.hpart) THEN x
          ELSE [LineOf(UpOf(PastOf(x, v), v), v, h) EXCEPT !.hpart = h, !.last = v]
  BY <1>0, NowParts
<1>3. ASSUME v < x.last \/ (v = x.last /\ h = x.hpart)
      PROVE  Keeps(y, x) /\ (Holds(x) => Holds(y) /\ Shows(y, v, h))
  <2>1. y = x
    BY <1>3, <1>2, Zenon
  <2>2. ASSUME Holds(x), NEW p \in Pixels(mode), Passed(p, v, h)
        PROVE  x.bitmap[p] = 0 /\ Current(x)
    <3>1. p[1] \in Nat /\ p[2] \in Nat
      BY DEF Pixels
    <3>2. Passed(p, x.last, x.hpart)
      BY <1>1, <1>3, <2>2, <3>1 DEF Passed
    <3>3. x.last > 0 \/ x.hpart > 0
      BY <1>1, <3>1, <3>2 DEF Passed
    <3> QED
      BY <2>2, <3>2, <3>3 DEF Holds
  <2> QED
    BY <2>1, <2>2, ScreenTypes DEF Shows
<1>4. ASSUME ~(v < x.last \/ (v = x.last /\ h = x.hpart))
      PROVE  Keeps(y, x) /\ (Holds(x) => Holds(y) /\ Shows(y, v, h))
  <2>1. PICK z : z = PastOf(x, v)
    OBVIOUS
  <2>2. PICK u : u = UpOf(z, v)
    OBVIOUS
  <2>3. y = [LineOf(u, v, h) EXCEPT !.hpart = h, !.last = v]
    BY <1>4, <1>2, <2>1, <2>2, Zenon
  <2>4. Keeps(u, x) /\ u.last = v /\ (Holds(x) => Holds(u))
    <3>1. CASE v = x.last
      <4>1. ~(v > x.last)
        BY <1>1, <3>1
      <4>2. z = x
        BY <2>1, <4>1, Zenon DEF PastOf
      <4>3. u = x
        BY <2>2, <4>1, <4>2, Zenon DEF UpOf
      <4> QED
        BY <3>1, <4>3, ScreenTypes
    <3>2. CASE v # x.last
      <4>1. v > x.last
        BY <1>1, <1>4, <3>2
      <4>2. Keeps(z, x) /\ z.last <= v /\ z.hpart = 0 /\ (Holds(x) => Holds(z))
        BY <2>1, <4>1, PastFields, Zenon
      <4>3. z \in Screens(mode)
        BY <4>2 DEF Keeps
      <4>4. Keeps(u, z) /\ u.last = v /\ (Holds(z) => Holds(u))
        BY <2>2, <4>2, <4>3, UpFields, Zenon
      <4> QED
        BY <4>2, <4>4, KeepsTwice, Zenon
    <3> QED
      BY <3>1, <3>2
  <2>5. u \in Screens(mode)
    BY <2>4 DEF Keeps
  <2>6. Keeps(y, u) /\ (Holds(u) => Holds(y) /\ Shows(y, v, h))
    BY <2>3, <2>4, <2>5, LastFields, Zenon
  <2> QED
    BY <2>4, <2>6, KeepsTwice, Zenon
<1> QED
  BY <1>0, <1>3, <1>4, Zenon

\* The rest of a frame is drawn when it ends.
LEMMA FinishFields ==
  ASSUME mode \in Modes, NEW x \in Screens(mode)
  PROVE  LET y == finish_screen_updates(x)
         IN /\ Keeps(y, x)
            /\ Holds(x) => Current(y) /\ \A p \in Pixels(mode) : y.bitmap[p] = 0
<1>0. PICK y : y = finish_screen_updates(x)
  OBVIOUS
<1>1. PICK v, h, k : v = vpos(0, mode) /\ h = hpos(0, mode) /\ k = mode.h - 1
  OBVIOUS
<1>2. v \in 0..(mode.h - 1) /\ h \in 0..mode.w /\ k \in 0..(mode.h - 1) /\ mode.h \in Nat \ {0}
  <2>1. mode.h \in Nat \ {0} /\ 0 \in 0..(Ticks - 1)
    BY Size, ScreenAssumption
  <2> QED
    BY <1>1, <2>1, Beam
<1>3. PICK z : z = IF x.hpart > 0 THEN update_now(x, 0) ELSE x
  OBVIOUS
<1>4. Keeps(z, x) /\ (Holds(x) => Holds(z))
  <2>1. CASE x.hpart > 0
    <3>1. z = update_now(x, 0)
      BY <1>3, <2>1
    <3> QED
      BY <1>1, <1>2, <3>1, NowFields, Zenon
  <2>2. CASE ~(x.hpart > 0)
    BY <1>3, <2>2, ScreenTypes
  <2> QED
    BY <2>1, <2>2
<1>5. y = update_partial(z, k)
  BY <1>0, <1>1, <1>3, Zenon DEF finish_screen_updates
<1>6. z \in Screens(mode)
  BY <1>4 DEF Keeps
<1>7. DrewTo(y, z, k) /\ z.last \in Nat /\ y \in Screens(mode)
  <2>1. DrewTo(y, z, k)
    <3>1. k \in 0..(mode.h - 1 + Ahead)
      BY <1>2, ScreenAssumption
    <3> QED
      BY <1>5, <1>6, <3>1, PartialFields, Zenon
  <2> QED
    BY <1>6, <2>1, ScreenTypes DEF DrewTo
<1>8. Keeps(y, x)
  BY <1>4, <1>7, KeepsTwice DEF DrewTo, Keeps
<1>9. ASSUME Holds(x) PROVE Current(y) /\ \A p \in Pixels(mode) : y.bitmap[p] = 0
  <2>1. Holds(z)
    BY <1>4, <1>9
  <2>2. Current(y)
    <3>1. CASE z.last <= k
      <4>1. z.last < mode.h
        BY <1>1, <1>2, <1>7, <3>1
      <4> QED
        BY <1>7, <3>1, <4>1 DEF DrewTo
    <3>2. CASE z.last > k
      <4>1. z.last > 0 /\ y = z
        BY <1>2, <1>7, <3>2 DEF DrewTo
      <4> QED
        BY <2>1, <4>1 DEF Holds
    <3> QED
      BY <1>2, <1>7, <3>1, <3>2
  <2>3. ASSUME NEW p \in Pixels(mode) PROVE y.bitmap[p] = 0
    <3>1. p[1] \in Nat /\ p[1] <= k
      BY <1>1, <1>2 DEF Pixels
    <3>2. CASE z.last <= p[1]
      BY <1>7, <3>1, <3>2 DEF DrewTo
    <3>3. CASE p[1] < z.last
      <4>1. z.bitmap[p] = 0
        BY <2>1, <3>3 DEF Holds, Passed
      <4> QED
        BY <1>7, <4>1 DEF DrewTo
    <3> QED
      BY <1>7, <3>1, <3>2, <3>3
  <2> QED
    BY <2>2, <2>3
<1> QED
  BY <1>0, <1>8, <1>9, Zenon
-----------------------------------------------------------------------------
(* The steps *)

\* A step that leaves a screen of some mode.
LEMMA BecomesIt ==
  ASSUME NEW m, NEW y \in Screens(m), Becomes(y)
  PROVE  Screen' = y
BY DEF Becomes, Screen, Screens

\* In the same mode, what is said of the screen left is said of the next state.
LEMMA Carried ==
  ASSUME NEW y, Screen' = y, mode' = mode
  PROVE  /\ Current(y) => Current(Screen)'
         /\ Holds(y) => Holds(Screen)'
         /\ Fresh(y) => Fresh(Screen)'
BY DEF Current, Holds, Fresh

\* One frame older.
Aged(g, f, m) ==
  /\ g \in [Pixels(m) -> Ages]
  /\ (\A p \in Pixels(m) : f[p] = 0) => \A p \in Pixels(m) : g[p] <= 1

\* Ages stay ages, and a pixel of this frame becomes one of the frame before.
LEMMA OlderFields ==
  ASSUME NEW m, NEW f \in [Pixels(m) -> Ages]
  PROVE  Aged(Older(f), f, m)
<1>1. ASSUME NEW a \in Ages PROVE Min({a + 1, Old}) \in Ages /\ (a = 0 => Min({a + 1, Old}) = 1)
  BY PairMinMax DEF Ages, Old
<1>2. Older(f) = [p \in Pixels(m) |-> Min({f[p] + 1, Old})]
  BY DEF Older
<1>3. \A p \in Pixels(m) : f[p] \in Ages
  OBVIOUS
<1>4. PICK g : g = Older(f)
  OBVIOUS
<1>5. \A p \in Pixels(m) : g[p] = Min({f[p] + 1, Old})
  BY <1>2, <1>4
<1>6. g \in [Pixels(m) -> Ages]
  BY <1>1, <1>2, <1>3, <1>4
<1>7. (\A p \in Pixels(m) : f[p] = 0) => \A p \in Pixels(m) : g[p] <= 1
  <2>1. ASSUME NEW p \in Pixels(m), f[p] = 0 PROVE g[p] <= 1
    <3>1. 0 \in Ages
      BY DEF Ages, Old
    <3>2. Min({0 + 1, Old}) = 1
      BY <1>1, <3>1
    <3>3. g[p] = 1
      BY <1>5, <2>1, <3>2
    <3> QED
      BY <3>3
  <2> QED
    BY <2>1
<1>8. Aged(g, f, m)
  BY <1>6, <1>7 DEF Aged
<1> QED
  BY <1>4, <1>8, Zenon

\* The screen one frame older.
OlderScreen(x) == [x EXCEPT !.bitmap = Older(@), !.captured.map = Older(@)]

AgedScreen(y, x) ==
  /\ y \in Screens(mode) /\ y.last = x.last /\ y.hpart = x.hpart
  /\ Current(x) => Current(y)
  /\ Aged(y.bitmap, x.bitmap, mode)

\* The bitmap and the captured frame age alike.
LEMMA AgedFields ==
  ASSUME mode \in Modes, NEW x \in Screens(mode)
  PROVE  AgedScreen(OlderScreen(x), x)
<1>0. PICK y : y = OlderScreen(x)
  OBVIOUS
<1>1. PICK b : b = Older(x.bitmap)
  OBVIOUS
<1>2. Aged(b, x.bitmap, mode)
  BY <1>1, ScreenTypes, OlderFields, Zenon
<1>3. PICK m \in Modes : x.captured \in [size : {m}, map : [Pixels(m) -> Ages]]
  BY ScreenTypes DEF Frames
<1>4. PICK g : g = Older(x.captured.map)
  OBVIOUS
<1>5. x.captured = [size |-> m, map |-> x.captured.map] /\ x.captured.map \in [Pixels(m) -> Ages]
  BY <1>3
<1>6. g \in [Pixels(m) -> Ages]
  <2>1. Aged(g, x.captured.map, m)
    BY <1>4, <1>5, OlderFields, Zenon
  <2> QED
    BY <2>1 DEF Aged
<1>7. PICK c : c = [size |-> m, map |-> g]
  OBVIOUS
<1>8. c \in Frames /\ c = [x.captured EXCEPT !.map = g]
  <2>1. c \in Frames
    BY <1>6, <1>7 DEF Frames
  <2>2. c = [x.captured EXCEPT !.map = g]
    BY <1>3, <1>7
  <2> QED
    BY <2>1, <2>2
<1>9. y = [x EXCEPT !.bitmap = b, !.captured = c]
  <2>1. y = [x EXCEPT !.bitmap = b, !.captured = [x.captured EXCEPT !.map = g]]
    <3>1. x \in Screens(mode) /\ x.captured \in [size : {m}, map : [Pixels(m) -> Ages]]
      BY <1>3
    <3> QED
      BY <1>0, <1>1, <1>4, <3>1 DEF Screens, OlderScreen
  <2> QED
    BY <1>8, <2>1
<1>10. /\ y \in Screens(mode) /\ y.last = x.last /\ y.hpart = x.hpart
       /\ y.bitmap = b /\ y.captured = c
  BY <1>2, <1>8, <1>9 DEF Screens, Aged
<1>11. ASSUME Current(x) PROVE Current(y)
  <2>1. x.captured = [size |-> mode, map |-> x.bitmap]
    BY <1>11 DEF Current
  <2>2. m = mode /\ x.captured.map = x.bitmap
    BY <1>5, <2>1
  <2>3. g = b
    BY <1>1, <1>4, <2>2
  <2> QED
    BY <1>7, <1>10, <2>2, <2>3 DEF Current
<1>12. AgedScreen(y, x)
  BY <1>2, <1>10, <1>11 DEF AgedScreen
<1> QED
  BY <1>0, <1>12, Zenon

\* A blank bitmap, and a blank frame.
LEMMA BlankFields ==
  ASSUME NEW m \in Modes
  PROVE  /\ Blank(m) \in [Pixels(m) -> Ages]
         /\ [size |-> m, map |-> Blank(m)] \in Frames
BY DEF Blank, Ages, Old, Frames

\* The screen device is started.
LEMMA InitIInv == Init => IInv
<1> SUFFICES ASSUME Init PROVE IInv
  OBVIOUS
<1>1. mode \in Modes /\ now \in 0..(Ticks - 1) /\ calm = 0 /\ calm \in 0..2
      /\ changes \in 0..MaxChanges /\ saved = {}
  BY ScreenAssumption DEF Init
<1>2. 0 \in Lasts /\ 0 \in Hparts
  <2>1. 0 \in 0..mode.h /\ 0 \in 0..mode.w
    BY <1>1, Size
  <2> QED
    BY <1>1, <2>1, Bounds
<1>3. Screen \in Screens(mode)
  BY <1>1, <1>2, BlankFields DEF Init, Screen, Screens
<1> QED
  BY <1>1, <1>3 DEF IInv, Types

\* What a step has to show.
LEMMA StepKeeps ==
  ASSUME Types', calm' >= 1 => Holds(Screen)', calm' = 2 => Fresh(Screen)'
  PROVE  IInv'
BY DEF IInv

\* A step that only moves the beam, or takes a save state, leaves the screen alone.
LEMMA SameScreen ==
  ASSUME IInv, UNCHANGED <<mode, screenVars, calm, changes>>,
         now' \in 0..(Ticks - 1),
         saved' \subseteq [now : 0..(Ticks - 1), mode : Modes, last : Lasts]
  PROVE  IInv'
<1>1. PICK y : y = Screen
  OBVIOUS
<1>2. Screen' = y /\ mode' = mode
  BY <1>1 DEF Screen, screenVars
<1>3. Types'
  <2>1. Screen' \in Screens(mode')
    BY <1>1, <1>2 DEF IInv, Types
  <2> QED
    BY <1>2, <2>1 DEF IInv, Types
<1>4. (calm >= 1 => Holds(y)) /\ (calm = 2 => Fresh(y))
  BY <1>1 DEF IInv
<1> QED
  BY <1>2, <1>3, <1>4, Carried, StepKeeps

\* The frame ends: what is missing of it is drawn, then all of it is of the frame before.
LEMMA VblankKeeps ==
  ASSUME IInv, vblank_begin
  PROVE  IInv'
<1>1. PICK x : x = Screen
  OBVIOUS
<1>2. mode \in Modes /\ x \in Screens(mode) /\ calm \in 0..2 /\ (calm >= 1 => Holds(x))
  BY <1>1 DEF IInv, Types
<1>3. PICK f : f = finish_screen_updates(x)
  OBVIOUS
<1>4. f \in Screens(mode) /\ (Holds(x) => Current(f) /\ \A p \in Pixels(mode) : f.bitmap[p] = 0)
  <2>1. Keeps(f, x) /\ (Holds(x) => Current(f) /\ \A p \in Pixels(mode) : f.bitmap[p] = 0)
    BY <1>2, <1>3, FinishFields, Zenon
  <2> QED
    BY <2>1 DEF Keeps
<1>5. PICK r : r = reset_partial_updates(f)
  OBVIOUS
<1>6. /\ r \in Screens(mode) /\ r.last = 0 /\ r.hpart = 0
      /\ r.bitmap = f.bitmap /\ r.captured = f.captured
  <2>1. 0 \in Lasts /\ 0 \in Hparts
    <3>1. 0 \in 0..mode.h /\ 0 \in 0..mode.w
      BY <1>2, Size
    <3> QED
      BY <1>2, <3>1, Bounds
  <2>2. r = [f EXCEPT !.last = 0, !.hpart = 0]
    BY <1>5 DEF reset_partial_updates
  <2> QED
    BY <1>4, <2>1, <2>2 DEF Screens
<1>7. PICK y : y = OlderScreen(r)
  OBVIOUS
<1>8. /\ y \in Screens(mode) /\ y.last = 0 /\ y.hpart = 0
      /\ Current(r) => Current(y)
      /\ (\A p \in Pixels(mode) : r.bitmap[p] = 0) => \A p \in Pixels(mode) : y.bitmap[p] <= 1
  <2>1. AgedScreen(y, r)
    BY <1>2, <1>6, <1>7, AgedFields, Zenon
  <2> QED
    BY <1>6, <2>1 DEF AgedScreen, Aged
<1>9. Becomes(y) /\ now' = 0 /\ mode' = mode /\ saved' = saved /\ changes' = changes
      /\ calm' = Min({calm + 1, 2})
  BY <1>1, <1>3, <1>5, <1>7, Zenon DEF vblank_begin, OlderScreen
<1>10. Screen' = y
  BY <1>8, <1>9, BecomesIt, Zenon
<1>11. calm' \in 0..2 /\ (calm' = 2 => calm >= 1)
  BY <1>2, <1>9, PairMinMax
<1>12. Types'
  <2>1. Screen' \in Screens(mode')
    BY <1>8, <1>9, <1>10
  <2>2. now' \in 0..(Ticks - 1)
    BY <1>9, ScreenAssumption
  <2> QED
    BY <1>9, <1>11, <2>1, <2>2 DEF IInv, Types
<1>13. Holds(y)
  <2>1. ASSUME NEW p \in Pixels(mode), Passed(p, 0, 0) PROVE FALSE
    BY <2>1 DEF Passed, Pixels
  <2> QED
    BY <1>8, <2>1 DEF Holds
<1>14. calm' = 2 => Fresh(y)
  BY <1>2, <1>4, <1>6, <1>8, <1>11 DEF Fresh, Current
<1> QED
  BY <1>9, <1>10, <1>12, <1>13, <1>14, Carried, StepKeeps

\* The mode is set: with another size nothing that was drawn counts any more.
LEMMA ConfigureKeeps ==
  ASSUME IInv, NEW m \in Modes, configure(m)
  PROVE  IInv'
<1>1. PICK x : x = Screen
  OBVIOUS
<1>2. mode \in Modes /\ x \in Screens(mode) /\ (calm >= 1 => Holds(x)) /\ (calm = 2 => Fresh(x))
  BY <1>1 DEF IInv, Types
<1>3. PICK s : s = IF vpos(now, m) = 0 THEN reset_partial_updates(x) ELSE x
  OBVIOUS
<1>4. PICK b : b = IF m = mode THEN s.bitmap ELSE Blank(m)
  OBVIOUS
<1>5. PICK y : y = [s EXCEPT !.bitmap = b]
  OBVIOUS
<1>6. 0 \in Lasts /\ 0 \in Hparts
  <2>1. 0 \in 0..m.h /\ 0 \in 0..m.w
    BY Size
  <2> QED
    BY <2>1, Bounds
<1>7. s \in Screens(mode) /\ s.bitmap = x.bitmap /\ s.captured = x.captured
  <2>1. CASE vpos(now, m) = 0
    <3>1. s = [x EXCEPT !.last = 0, !.hpart = 0]
      BY <1>3, <2>1 DEF reset_partial_updates
    <3> QED
      BY <1>2, <1>6, <3>1 DEF Screens
  <2> QED
    BY <1>2, <1>3, <2>1
<1>8. ASSUME m = mode PROVE b = x.bitmap /\ y = s
  <2>1. b = s.bitmap
    BY <1>4, <1>8
  <2> QED
    BY <1>5, <1>7, <2>1 DEF Screens
<1>9. b \in [Pixels(m) -> Ages]
  <2>1. CASE m = mode
    BY <1>2, <1>8, <2>1, ScreenTypes
  <2> QED
    BY <1>4, <2>1, BlankFields
<1>10. y \in Screens(m)
  BY <1>5, <1>7, <1>9 DEF Screens
<1>11. /\ Becomes(y) /\ mode' = m /\ now' = now /\ saved' = saved
       /\ IF m = mode THEN UNCHANGED <<calm, changes>>
          ELSE calm' = 0 /\ changes < MaxChanges /\ changes' = changes + 1
  <2>1. Becomes([s EXCEPT !.bitmap = IF m = mode THEN @ ELSE Blank(m)])
    BY <1>1, <1>3, Zenon DEF configure
  <2>2. y = [s EXCEPT !.bitmap = IF m = mode THEN @ ELSE Blank(m)]
    BY <1>4, <1>5, <1>7 DEF Screens
  <2>3. Becomes(y)
    BY <2>1, <2>2, Zenon
  <2> QED
    BY <2>3 DEF configure
<1>12. Screen' = y
  BY <1>10, <1>11, BecomesIt, Zenon
<1>13. Types'
  <2>1. Screen' \in Screens(mode')
    BY <1>10, <1>11, <1>12
  <2>2. calm' \in 0..2 /\ changes' \in 0..MaxChanges
    BY <1>11, ScreenAssumption DEF IInv, Types
  <2> QED
    BY <1>11, <2>1, <2>2 DEF IInv, Types
<1>14. CASE m # mode
  BY <1>11, <1>13, <1>14, StepKeeps
<1>15. CASE m = mode
  <2>1. mode' = mode /\ calm' = calm
    BY <1>11, <1>15
  <2>2. calm = 2 => Fresh(y)
    BY <1>2, <1>7, <1>8, <1>15 DEF Fresh, Current
  <2>3. Holds(x) => Holds(y)
    <3>1. CASE vpos(now, m) = 0
      <4>1. s = [x EXCEPT !.last = 0, !.hpart = 0]
        BY <1>3, <3>1 DEF reset_partial_updates
      <4>2. y.last = 0 /\ y.hpart = 0
        BY <1>2, <1>8, <1>15, <4>1 DEF Screens
      <4>3. ASSUME NEW p \in Pixels(mode), Passed(p, 0, 0) PROVE FALSE
        BY <4>3 DEF Passed, Pixels
      <4> QED
        BY <4>2, <4>3 DEF Holds
    <3>2. CASE vpos(now, m) # 0
      <4>1. y = x
        BY <1>3, <1>8, <1>15, <3>2
      <4> QED
        BY <4>1
    <3> QED
      BY <3>1, <3>2
  <2> QED
    BY <1>2, <1>12, <1>13, <2>1, <2>2, <2>3, Carried, StepKeeps
<1> QED
  BY <1>14, <1>15

\* A palette write draws the lines down to Ahead below the beam, all of this frame.
LEMMA PaletteKeeps ==
  ASSUME IInv, towns_update_palette
  PROVE  IInv'
<1>1. PICK x : x = Screen
  OBVIOUS
<1>2. mode \in Modes /\ now \in 0..(Ticks - 1) /\ x \in Screens(mode)
      /\ (calm >= 1 => Holds(x)) /\ (calm = 2 => Fresh(x))
  BY <1>1 DEF IInv, Types
<1>3. PICK k : k = vpos(now, mode) + Ahead
  OBVIOUS
<1>4. k \in 0..(mode.h - 1 + Ahead) /\ k \in Nat /\ mode.h \in Nat \ {0}
  <2>1. vpos(now, mode) \in 0..(mode.h - 1) /\ mode.h \in Nat \ {0}
    BY <1>2, Beam, Size
  <2> QED
    BY <1>3, <2>1, ScreenAssumption
<1>5. PICK y : y = update_partial(x, k)
  OBVIOUS
<1>6. DrewTo(y, x, k) /\ y \in Screens(mode) /\ x.last \in Nat
  <2>1. DrewTo(y, x, k)
    BY <1>2, <1>4, <1>5, PartialFields, Zenon
  <2> QED
    BY <1>2, <2>1, ScreenTypes DEF DrewTo
<1>7. Becomes(y) /\ UNCHANGED <<now, mode, saved, calm, changes>>
  BY <1>1, <1>3, <1>5, Zenon DEF towns_update_palette
<1>8. Screen' = y /\ mode' = mode /\ calm' = calm
  BY <1>6, <1>7, BecomesIt, Zenon
<1>9. Types'
  <2>1. Screen' \in Screens(mode')
    BY <1>6, <1>8
  <2> QED
    BY <1>7, <2>1 DEF IInv, Types
<1>10. Fresh(x) => Fresh(y)
  BY <1>2, <1>6, DrawsFresh DEF DrewTo
<1>11. ASSUME Holds(x) PROVE Holds(y)
  <2>1. CASE x.last > k \/ x.last >= mode.h
    BY <1>6, <1>11, <2>1 DEF DrewTo
  <2>2. CASE x.last <= k /\ x.last < mode.h
    <3>1. Current(y) /\ y.last = k + 1 /\ y.hpart = 0
      BY <1>6, <2>2 DEF DrewTo
    <3>2. ASSUME NEW p \in Pixels(mode), Passed(p, k + 1, 0) PROVE y.bitmap[p] = 0
      <4>1. p[1] \in Nat /\ p[2] \in Nat
        BY DEF Pixels
      <4>2. p[1] <= k
        BY <1>4, <3>2, <4>1 DEF Passed
      <4>3. CASE x.last <= p[1]
        BY <1>6, <4>2, <4>3 DEF DrewTo
      <4>4. CASE p[1] < x.last
        <5>1. x.bitmap[p] = 0
          BY <1>11, <4>4 DEF Holds, Passed
        <5> QED
          BY <1>6, <5>1 DEF DrewTo
      <4> QED
        BY <1>6, <4>1, <4>3, <4>4
    <3> QED
      BY <3>1, <3>2 DEF Holds
  <2> QED
    BY <1>4, <1>6, <2>1, <2>2
<1> QED
  BY <1>2, <1>8, <1>9, <1>10, <1>11, Carried, StepKeeps

\* What there is after an update at the present time.
LEMMA LookFields ==
  ASSUME IInv
  PROVE  LET y == update_now(Screen, now)
         IN /\ Keeps(y, Screen)
            /\ calm >= 1 => Holds(y) /\ Shows(y, vpos(now, mode), hpos(now, mode))
            /\ calm = 2 => Fresh(y)
<1>1. PICK x : x = Screen
  OBVIOUS
<1>2. mode \in Modes /\ now \in 0..(Ticks - 1) /\ x \in Screens(mode)
      /\ (calm >= 1 => Holds(x)) /\ (calm = 2 => Fresh(x))
  BY <1>1 DEF IInv, Types
<1>3. PICK v, h : v = vpos(now, mode) /\ h = hpos(now, mode)
  OBVIOUS
<1>4. v \in 0..(mode.h - 1) /\ h \in 0..mode.w
  BY <1>2, <1>3, Beam
<1>5. PICK y : y = update_now(x, now)
  OBVIOUS
<1>6. Keeps(y, x) /\ (Holds(x) => Holds(y) /\ Shows(y, v, h))
  BY <1>2, <1>3, <1>4, <1>5, NowFields, Zenon
<1>7. Fresh(x) => Fresh(y)
  BY <1>2, <1>6, DrawsFresh DEF Keeps
<1>8. /\ Keeps(y, x)
      /\ calm >= 1 => Holds(y) /\ Shows(y, v, h)
      /\ calm = 2 => Fresh(y)
  BY <1>2, <1>6, <1>7
<1> QED
  BY <1>1, <1>3, <1>5, <1>8, Zenon

\* The frontend has the screen drawn up to the beam.
LEMMA RenderKeeps ==
  ASSUME IInv, render_mame_frame
  PROVE  IInv'
<1>1. PICK y : y = update_now(Screen, now)
  OBVIOUS
<1>2. Keeps(y, Screen) /\ (calm >= 1 => Holds(y)) /\ (calm = 2 => Fresh(y))
  BY <1>1, LookFields, Zenon
<1>3. y \in Screens(mode)
  BY <1>2 DEF Keeps
<1>4. Becomes(y) /\ UNCHANGED <<now, mode, saved, calm, changes>>
  BY <1>1, Zenon DEF render_mame_frame
<1>5. Screen' = y /\ mode' = mode /\ calm' = calm
  BY <1>3, <1>4, BecomesIt, Zenon
<1>6. Types'
  <2>1. Screen' \in Screens(mode')
    BY <1>3, <1>5
  <2> QED
    BY <1>4, <2>1 DEF IInv, Types
<1> QED
  BY <1>2, <1>5, <1>6, Carried, StepKeeps

\* The saved state's mode, with nothing drawn.
LEMMA LoadKeeps ==
  ASSUME IInv, load_state
  PROVE  IInv'
<1>1. PICK s \in saved : now' = s.now /\ mode' = s.mode /\ last' = s.last
                         /\ bitmap' = Blank(s.mode)
  BY DEF load_state
<1>2. s.now \in 0..(Ticks - 1) /\ s.mode \in Modes /\ s.last \in Lasts
  BY DEF IInv, Types
<1>3. captured \in Frames /\ hpart \in Hparts
  <2>1. Screen.captured = captured /\ Screen.hpart = hpart
    BY DEF Screen
  <2> QED
    BY <2>1, ScreenTypes DEF IInv, Types
<1>4. PICK m \in Modes : captured \in [size : {m}, map : [Pixels(m) -> Ages]]
  BY <1>3 DEF Frames
<1>5. PICK b : b = Blank(m)
  OBVIOUS
<1>6. captured' = [size |-> m, map |-> b]
  BY <1>4, <1>5 DEF load_state
<1>7. captured' \in Frames
  BY <1>5, <1>6, BlankFields
<1>8. Screen' = [last |-> s.last, hpart |-> hpart, bitmap |-> bitmap', captured |-> captured']
  BY <1>1 DEF load_state, Screen
<1>9. Screen' \in Screens(mode')
  BY <1>1, <1>2, <1>3, <1>7, <1>8, BlankFields DEF Screens
<1>10. calm' = 0 /\ saved' = saved /\ changes' \in 0..MaxChanges
  BY ScreenAssumption DEF load_state, IInv, Types
<1>11. Types'
  BY <1>1, <1>2, <1>9, <1>10 DEF IInv, Types
<1> QED
  BY <1>10, <1>11, StepKeeps

\* Every step of the guest and of the frontend keeps it.
LEMMA NextIInv == IInv /\ [Next]_vars => IInv'
<1> SUFFICES ASSUME IInv, [Next]_vars PROVE IInv'
  OBVIOUS
<1>1. Ticks \in Nat /\ now \in 0..(Ticks - 1) /\ mode \in Modes /\ last \in Lasts
      /\ saved \subseteq [now : 0..(Ticks - 1), mode : Modes, last : Lasts]
  <2>1. Screen.last = last
    BY DEF Screen
  <2> QED
    BY <2>1, ScreenTypes, ScreenAssumption DEF IInv, Types
<1>2. CASE Tick
  <2>1. now' \in 0..(Ticks - 1) /\ saved' = saved /\ UNCHANGED <<mode, screenVars, calm, changes>>
    BY <1>1, <1>2 DEF Tick
  <2> QED
    BY <1>1, <2>1, SameScreen
<1>3. CASE save_state
  <2>1. now' = now /\ saved' = {[now |-> now, mode |-> mode, last |-> last]}
        /\ UNCHANGED <<mode, screenVars, calm, changes>>
    BY <1>3 DEF save_state
  <2> QED
    BY <1>1, <2>1, SameScreen
<1>4. CASE UNCHANGED vars
  <2>1. now' = now /\ saved' = saved /\ UNCHANGED <<mode, screenVars, calm, changes>>
    BY <1>4 DEF vars
  <2> QED
    BY <1>1, <2>1, SameScreen
<1> QED
  BY <1>2, <1>3, <1>4, VblankKeeps, ConfigureKeeps, PaletteKeeps, RenderKeeps,
     LoadKeeps DEF Next

\* The screen's variables are always those of a screen of the present mode, and
\* what was drawn in this frame and the one before is accounted for.
THEOREM ScreenIsConsistent == Spec => []IInv
<1> QED
  BY InitIInv, NextIInv, PTL DEF Spec

\* The invariant has the types.
LEMMA ScreenTyped == IInv => TypeOK
<1> SUFFICES ASSUME IInv PROVE TypeOK
  OBVIOUS
<1>1. /\ Screen.last = last /\ Screen.hpart = hpart
      /\ Screen.bitmap = bitmap /\ Screen.captured = captured
  BY DEF Screen
<1>2. last \in Lasts /\ hpart \in Hparts /\ bitmap \in [Pixels(mode) -> Ages] /\ captured \in Frames
  BY <1>1, ScreenTypes DEF IInv, Types
<1>3. captured.size \in Modes /\ captured.map \in [Pixels(captured.size) -> Ages]
  BY <1>2 DEF Frames
<1> QED
  BY <1>2, <1>3 DEF IInv, Types, TypeOK, Lasts, Hparts

\* A picture shown in a frame holds each pixel the beam has passed as drawn in it.
THEOREM PictureIsUpToBeam == Spec => []ShownUpToBeam
<1>1. ASSUME IInv PROVE ShownUpToBeam
  <2>1. PICK y, v, h : y = update_now(Screen, now) /\ v = vpos(now, mode) /\ h = hpos(now, mode)
    OBVIOUS
  <2>2. calm >= 1 => Shows(y, v, h)
    BY <1>1, <2>1, LookFields, Zenon
  <2>3. ASSUME calm >= 1, NEW p \in Pixels(mode), Passed(p, v, h)
        PROVE  y.captured.size = mode /\ y.captured.map[p] = 0
    BY <2>2, <2>3 DEF Shows, Current
  <2> QED
    BY <2>1, <2>3, Zenon DEF ShownUpToBeam, Shown
<1> QED
  BY <1>1, ScreenIsConsistent, PTL

\* A frame later nothing older than the frame before is shown.
THEOREM PictureIsFresh == Spec => []NothingOlder
<1>1. ASSUME IInv PROVE NothingOlder
  <2>1. PICK y : y = update_now(Screen, now)
    OBVIOUS
  <2>2. calm = 2 => Fresh(y)
    BY <1>1, <2>1, LookFields, Zenon
  <2>3. ASSUME calm = 2
        PROVE  y.captured.size = mode /\ \A p \in Pixels(mode) : y.captured.map[p] <= 1
    BY <2>2, <2>3 DEF Fresh, Current
  <2> QED
    BY <1>1, <2>1, <2>3, ScreenTyped, Zenon DEF NothingOlder, Shown
<1> QED
  BY <1>1, ScreenIsConsistent, PTL
=============================================================================
