------------------------- MODULE FramePresentProofs -------------------------
(***************************************************************************)
(* Proofs about FramePresent for buffers of any size, any margin and any   *)
(* pictures: nothing is written past a buffer, the frame presented is the  *)
(* picture or its tight crop, and the frontend knows its size.             *)
(***************************************************************************)
EXTENDS FramePresent, WellFoundedInduction, TLAPS

-----------------------------------------------------------------------------
(* Least and greatest elements, and the offsets of a buffer *)

\* The order of the natural numbers as a relation.
LessThan == {ss \in Nat \X Nat : ss[1] < ss[2]}

\* It is well founded.
LEMMA LessThanWellFounded == IsWellFoundedOn(LessThan, Nat)
<1>1. LessThan = OpToRel(<, Nat)
  BY Zenon DEF OpToRel, LessThan
<1> QED
  BY <1>1, NatLessThanWellFounded, Zenon

\* A set of natural numbers has a least element.
LEMMA NatMin ==
  ASSUME NEW S, S \subseteq Nat, S # {}
  PROVE  Min(S) \in S /\ \A y \in S : Min(S) <= y
<1>1. PICK x \in S : \A y \in S : ~(<<y, x>> \in LessThan)
  BY LessThanWellFounded, WFMin
<1>2. ASSUME NEW y \in S PROVE x <= y
  <2>1. x \in Nat /\ y \in Nat
    OBVIOUS
  <2>2. ~(y < x)
    <3>1. <<y, x>> \in Nat \X Nat
      BY <2>1
    <3> QED
      BY <1>1, <3>1, Zenon DEF LessThan
  <2> QED
    BY <2>1, <2>2
<1> QED
  BY <1>2 DEF Min

\* A bounded one has a greatest element.
LEMMA NatMax ==
  ASSUME NEW n \in Nat, NEW S, S \subseteq 0..n, S # {}
  PROVE  Max(S) \in S /\ \A y \in S : y <= Max(S)
<1> DEFINE R == {n - x : x \in S}
<1>1. R \subseteq Nat /\ R # {}
  OBVIOUS
<1>2. PICK z \in R : \A y \in R : z <= y
  BY <1>1, NatMin
<1>3. PICK x \in S : z = n - x
  OBVIOUS
<1>4. \A y \in S : y <= x
  <2> TAKE y \in S
  <2>1. n - y \in R /\ n - x <= n - y
    BY <1>2, <1>3
  <2> QED
    BY <2>1
<1>5. \E m \in S : \A y \in S : m >= y
  BY <1>4
<1> QED
  BY <1>5 DEF Max

\* std::min and std::max.
LEMMA PairMinMax ==
  ASSUME NEW a \in Int, NEW b \in Int
  PROVE  /\ Min({a, b}) = IF a <= b THEN a ELSE b
         /\ Max({a, b}) = IF a >= b THEN a ELSE b
BY DEF Min, Max

LEMMA Times ==
  ASSUME NEW a \in Nat, NEW b \in Nat, NEW w \in Nat, a <= b
  PROVE  a * w <= b * w
OBVIOUS

\* A pixel of a w by h rectangle has its offset among the first w * h.
LEMMA OffsetInRange ==
  ASSUME NEW w \in Nat \ {0}, NEW h \in Nat, NEW y \in 0..(h - 1), NEW x \in 0..(w - 1)
  PROVE  y * w + x \in 0..(w * h - 1)
<1>1. y * w <= (h - 1) * w
  BY Times
<1>2. (h - 1) * w = w * h - w
  OBVIOUS
<1> QED
  BY <1>1, <1>2

LEMMA DivMod ==
  ASSUME NEW w \in Nat \ {0}, NEW i \in Nat
  PROVE  /\ i \div w \in Nat /\ i % w \in 0..(w - 1)
         /\ i = w * (i \div w) + (i % w)
OBVIOUS

\* An offset knows its line and column.
LEMMA OffsetSplits ==
  ASSUME NEW w \in Nat \ {0}, NEW y \in Nat, NEW x \in 0..(w - 1)
  PROVE  (y * w + x) \div w = y /\ (y * w + x) % w = x
<1> DEFINE i == y * w + x
           q == i \div w
           r == i % w
<1>1. i \in Nat
  OBVIOUS
<1>2. q \in Nat /\ r \in 0..(w - 1) /\ i = w * q + r
  BY <1>1, DivMod
<1> HIDE DEF q, r
<1>3. CASE q < y
  <2>1. (q + 1) * w <= y * w
    BY <1>2, <1>3, Times
  <2> QED
    BY <1>2, <2>1
<1>4. CASE q > y
  <2>1. (y + 1) * w <= q * w
    BY <1>2, <1>4, Times
  <2> QED
    BY <1>2, <2>1
<1>5. CASE q = y
  BY <1>2, <1>5 DEF q, r
<1> QED
  BY <1>2, <1>3, <1>4, <1>5

\* Every offset below w * h is that of a pixel of the rectangle.
LEMMA OffsetLine ==
  ASSUME NEW w \in Nat \ {0}, NEW h \in Nat, NEW i \in 0..(w * h - 1)
  PROVE  i \div w \in 0..(h - 1) /\ i % w \in 0..(w - 1)
<1>0. w * h \in Nat /\ i \in Nat /\ i < w * h
  OBVIOUS
<1>1. i \div w \in Nat /\ i % w \in 0..(w - 1) /\ i = w * (i \div w) + (i % w)
  BY <1>0, DivMod
<1>2. ASSUME i \div w >= h PROVE FALSE
  <2>1. h * w <= (i \div w) * w
    BY <1>1, <1>2, Times
  <2> QED
    BY <1>0, <1>1, <2>1
<1> QED
  BY <1>1, <1>2

-----------------------------------------------------------------------------
(* The picture that is copied *)

Sizes == k_width \in Nat \ {0} /\ k_height \in Nat \ {0} /\ MinSide \in Nat \ {0} /\ k_margin \in Nat

LEMMA SizesKnown == Sizes
BY FrameAssumption DEF Sizes

\* A picture that fits into the frame buffer.
Fitting(p) ==
  /\ p.w \in 1..k_width /\ p.h \in 1..k_height
  /\ p.at \in [Pixels(p.w, p.h) -> Colours]
  /\ p = [w |-> p.w, h |-> p.h, at |-> p.at]

\* A drawn picture, and one that fits.
LEMMA DrawnFits ==
  ASSUME NEW p \in Pictures
  PROVE  p.w \in Nat \ {0} /\ p.h \in Nat \ {0} /\ (fits(p) => Fitting(p))
BY FrameAssumption, SizesKnown DEF Fitting, fits, Sizes

\* The scaled copy takes each pixel from inside the picture.
LEMMA ScaledFits ==
  ASSUME NEW p \in Pictures
  PROVE  Fitting(scaled(p))
<1> USE SizesKnown DEF Sizes
<1>1. p.w \in Nat \ {0} /\ p.h \in Nat \ {0} /\ p.at \in [Pixels(p.w, p.h) -> Colours]
  BY FrameAssumption
<1>2. ASSUME NEW q \in Pixels(k_width, k_height)
      PROVE  p.at[<<Min({p.h - 1, (q[1] * p.h) \div k_height}),
                    Min({p.w - 1, (q[2] * p.w) \div k_width})>>] \in Colours
  <2>1. q[1] \in Nat /\ q[2] \in Nat
    BY DEF Pixels
  <2>2. q[1] * p.h \in Nat /\ q[2] * p.w \in Nat
    BY <1>1, <2>1
  <2>3. (q[1] * p.h) \div k_height \in Nat /\ (q[2] * p.w) \div k_width \in Nat
    BY <2>2, DivMod
  <2>4. /\ Min({p.h - 1, (q[1] * p.h) \div k_height}) \in 0..(p.h - 1)
        /\ Min({p.w - 1, (q[2] * p.w) \div k_width}) \in 0..(p.w - 1)
    <3>1. p.h - 1 \in Int /\ p.w - 1 \in Int
      BY <1>1
    <3>2. /\ Min({p.h - 1, (q[1] * p.h) \div k_height}) =
               IF p.h - 1 <= (q[1] * p.h) \div k_height THEN p.h - 1 ELSE (q[1] * p.h) \div k_height
          /\ Min({p.w - 1, (q[2] * p.w) \div k_width}) =
               IF p.w - 1 <= (q[2] * p.w) \div k_width THEN p.w - 1 ELSE (q[2] * p.w) \div k_width
      BY <2>3, <3>1, PairMinMax
    <3> QED
      BY <1>1, <2>3, <3>2
  <2> QED
    BY <1>1, <2>4 DEF Pixels
<1>3. scaled(p).at \in [Pixels(k_width, k_height) -> Colours]
  BY <1>2 DEF scaled
<1> QED
  BY <1>3 DEF Fitting, scaled

LEMMA SourceFits ==
  ASSUME screen \in Pictures, captured \in Pictures \cup {NoPicture}
  PROVE  Fitting(source)
<1>1. ~fits(NoPicture)
  BY DEF fits, NoPicture
<1> QED
  BY <1>1, DrawnFits, ScaledFits DEF source

Buffers == framebuffer \in [Offsets -> Colours] /\ presentbuffer \in [Offsets -> Colours]

\* The copy stays inside the frame buffer and puts every pixel at its offset.
LEMMA CopyInBounds ==
  ASSUME Buffers, NEW p, Fitting(p)
  PROVE  /\ copy_video_frame(p) \in [Offsets -> Colours]
         /\ \A y \in 0..(p.h - 1), x \in 0..(p.w - 1) :
              /\ y * k_width + x \in Offsets
              /\ copy_video_frame(p)[y * k_width + x] = p.at[<<y, x>>]
<1> USE SizesKnown DEF Sizes
<1> DEFINE Copied == {q[1] * k_width + q[2] : q \in Pixels(p.w, p.h)}
<1>1. p.w \in 1..k_width /\ p.h \in 1..k_height /\ p.at \in [Pixels(p.w, p.h) -> Colours]
  BY DEF Fitting
<1>2. ASSUME NEW y \in 0..(p.h - 1), NEW x \in 0..(p.w - 1)
      PROVE  /\ y * k_width + x \in Offsets
             /\ (y * k_width + x) \div k_width = y /\ (y * k_width + x) % k_width = x
             /\ y * k_width + x \in Copied
             /\ p.at[<<y, x>>] \in Colours
  <2>1. y \in 0..(k_height - 1) /\ x \in 0..(k_width - 1) /\ y \in Nat
    BY <1>1
  <2>2. y * k_width + x \in Offsets
    BY <2>1, OffsetInRange DEF Offsets
  <2>3. (y * k_width + x) \div k_width = y /\ (y * k_width + x) % k_width = x
    BY <2>1, OffsetSplits
  <2>4. <<y, x>> \in Pixels(p.w, p.h)
    BY DEF Pixels
  <2>5. y * k_width + x \in Copied
    BY <2>4
  <2> QED
    BY <1>1, <2>2, <2>3, <2>4, <2>5
<1>3. \A i \in Copied : \E y \in 0..(p.h - 1), x \in 0..(p.w - 1) : i = y * k_width + x
  BY DEF Pixels
<1> HIDE DEF Copied
<1>4. Offsets \cup Copied = Offsets
  <2>1. ASSUME NEW i \in Copied PROVE i \in Offsets
    <3>1. PICK y \in 0..(p.h - 1), x \in 0..(p.w - 1) : i = y * k_width + x
      BY <1>3
    <3> QED
      BY <1>2, <3>1
  <2> QED
    BY <2>1
<1>5. copy_video_frame(p) =
        [i \in Offsets |->
           IF i \in Copied THEN p.at[<<i \div k_width, i % k_width>>] ELSE framebuffer[i]]
  BY <1>4 DEF copy_video_frame, Copied
<1>6. ASSUME NEW i \in Offsets
      PROVE  (IF i \in Copied THEN p.at[<<i \div k_width, i % k_width>>] ELSE framebuffer[i])
               \in Colours
  <2>1. CASE i \in Copied
    <3>1. PICK y \in 0..(p.h - 1), x \in 0..(p.w - 1) : i = y * k_width + x
      BY <1>3, <2>1
    <3> QED
      BY <1>2, <2>1, <3>1
  <2>2. CASE i \notin Copied
    BY <2>2 DEF Buffers
  <2> QED
    BY <2>1, <2>2
<1>7. copy_video_frame(p) \in [Offsets -> Colours]
  BY <1>5, <1>6
<1>8. ASSUME NEW y \in 0..(p.h - 1), NEW x \in 0..(p.w - 1)
      PROVE  copy_video_frame(p)[y * k_width + x] = p.at[<<y, x>>]
  BY <1>2, <1>5
<1> QED
  BY <1>2, <1>7, <1>8

-----------------------------------------------------------------------------
(* The crop *)

Active(buf, y, x) == is_active_pixel(buf[y * k_width + x])

\* The lines and columns of the w by h pixels that hold an active one.
ActiveRows(buf, w, h) == {y \in 0..(h - 1) : \E x \in 0..(w - 1) : Active(buf, y, x)}
ActiveCols(buf, w, h) == {x \in 0..(w - 1) : \E y \in 0..(h - 1) : Active(buf, y, x)}

\* The edges of what is active.
LEMMA Edges ==
  ASSUME NEW buf, NEW w \in Nat \ {0}, NEW h \in Nat \ {0}, ActiveRows(buf, w, h) # {}
  PROVE  LET rows == ActiveRows(buf, w, h)
             cols == ActiveCols(buf, w, h)
         IN /\ cols # {}
            /\ Min(rows) \in rows /\ Max(rows) \in rows /\ Min(cols) \in cols /\ Max(cols) \in cols
            /\ Min(rows) \in 0..(h - 1) /\ Max(rows) \in 0..(h - 1)
            /\ Min(cols) \in 0..(w - 1) /\ Max(cols) \in 0..(w - 1)
            /\ \A y \in rows : Min(rows) <= y /\ y <= Max(rows)
            /\ \A x \in cols : Min(cols) <= x /\ x <= Max(cols)
<1> DEFINE rows == ActiveRows(buf, w, h)
           cols == ActiveCols(buf, w, h)
<1>1. /\ rows \subseteq 0..(h - 1) /\ rows \subseteq Nat
      /\ cols \subseteq 0..(w - 1) /\ cols \subseteq Nat
  BY DEF ActiveRows, ActiveCols
<1>2. cols # {}
  BY DEF ActiveRows, ActiveCols
<1>3. h - 1 \in Nat /\ w - 1 \in Nat
  OBVIOUS
<1> HIDE DEF rows, cols
<1>6. rows # {}
  BY DEF rows
<1>7. Min(rows) \in rows /\ \A y \in rows : Min(rows) <= y
  BY <1>1, <1>6, NatMin
<1>8. Max(rows) \in rows /\ \A y \in rows : y <= Max(rows)
  BY <1>1, <1>3, <1>6, NatMax
<1>9. Min(cols) \in cols /\ \A x \in cols : Min(cols) <= x
  BY <1>1, <1>2, NatMin
<1>10. Max(cols) \in cols /\ \A x \in cols : x <= Max(cols)
  BY <1>1, <1>2, <1>3, NatMax
<1> QED
  BY <1>1, <1>2, <1>7, <1>8, <1>9, <1>10 DEF rows, cols

\* The columns need only be scanned between the first and the last active line.
LEMMA ScannedAll ==
  ASSUME NEW buf, NEW w \in Nat \ {0}, NEW h \in Nat \ {0}, ActiveRows(buf, w, h) # {}
  PROVE  {x \in 0..(w - 1) : \E y \in Min(ActiveRows(buf, w, h))..Max(ActiveRows(buf, w, h)) :
                                Active(buf, y, x)} = ActiveCols(buf, w, h)
<1> DEFINE rows == ActiveRows(buf, w, h)
<1>1. \A x \in 0..(w - 1), y \in 0..(h - 1) : Active(buf, y, x) => y \in rows
  BY DEF ActiveRows
<1>2. /\ Min(rows) \in 0..(h - 1) /\ Max(rows) \in 0..(h - 1)
      /\ \A y \in rows : Min(rows) <= y /\ y <= Max(rows)
  BY Edges
<1> HIDE DEF rows
<1>3. ASSUME NEW x \in 0..(w - 1), NEW y \in 0..(h - 1), Active(buf, y, x)
      PROVE  y \in Min(rows)..Max(rows)
  BY <1>1, <1>2, <1>3
<1>4. \A y \in Min(rows)..Max(rows) : y \in 0..(h - 1)
  BY <1>2
<1> QED
  BY <1>3, <1>4 DEF rows, ActiveCols

\* The rectangle detect_active_rect computes lies in the picture, holds every
\* active pixel, and is clipped or has just the margin on each side.
LEMMA CropRect ==
  ASSUME NEW buf, NEW w \in Nat \ {0}, NEW h \in Nat \ {0}, ActiveRows(buf, w, h) # {}
  PROVE  LET rows == ActiveRows(buf, w, h)
             cols == ActiveCols(buf, w, h)
             x0 == Max({0, Min(cols) - k_margin})
             y0 == Max({0, Min(rows) - k_margin})
             x1 == Min({w - 1, Max(cols) + k_margin})
             y1 == Min({h - 1, Max(rows) + k_margin})
         IN /\ x0 \in 0..Min(cols) /\ x0 >= Min(cols) - k_margin
            /\ y0 \in 0..Min(rows) /\ y0 >= Min(rows) - k_margin
            /\ x1 \in Max(cols)..(w - 1) /\ x1 <= Max(cols) + k_margin
            /\ y1 \in Max(rows)..(h - 1) /\ y1 <= Max(rows) + k_margin
<1> USE SizesKnown DEF Sizes
<1> DEFINE rows == ActiveRows(buf, w, h)
           cols == ActiveCols(buf, w, h)
<1>1. Min(rows) \in 0..(h - 1) /\ Max(rows) \in 0..(h - 1)
  BY Edges
<1>2. Min(cols) \in 0..(w - 1) /\ Max(cols) \in 0..(w - 1)
  BY Edges
<1> HIDE DEF rows, cols
<1>0. /\ 0 \in Int /\ w - 1 \in Int /\ h - 1 \in Int
      /\ Min(cols) - k_margin \in Int /\ Min(rows) - k_margin \in Int
      /\ Max(cols) + k_margin \in Int /\ Max(rows) + k_margin \in Int
  BY <1>1, <1>2
<1>3. /\ Max({0, Min(cols) - k_margin}) = IF 0 >= Min(cols) - k_margin THEN 0 ELSE Min(cols) - k_margin
      /\ Max({0, Min(rows) - k_margin}) = IF 0 >= Min(rows) - k_margin THEN 0 ELSE Min(rows) - k_margin
  BY <1>0, PairMinMax
<1>4. /\ Min({w - 1, Max(cols) + k_margin}) = IF w - 1 <= Max(cols) + k_margin THEN w - 1 ELSE Max(cols) + k_margin
      /\ Min({h - 1, Max(rows) + k_margin}) = IF h - 1 <= Max(rows) + k_margin THEN h - 1 ELSE Max(rows) + k_margin
  BY <1>0, PairMinMax
<1>5. /\ Max({0, Min(cols) - k_margin}) \in 0..Min(cols)
      /\ Max({0, Min(cols) - k_margin}) >= Min(cols) - k_margin
      /\ Max({0, Min(rows) - k_margin}) \in 0..Min(rows)
      /\ Max({0, Min(rows) - k_margin}) >= Min(rows) - k_margin
  BY <1>1, <1>2, <1>3
<1>6. /\ Min({w - 1, Max(cols) + k_margin}) \in Max(cols)..(w - 1)
      /\ Min({w - 1, Max(cols) + k_margin}) <= Max(cols) + k_margin
      /\ Min({h - 1, Max(rows) + k_margin}) \in Max(rows)..(h - 1)
      /\ Min({h - 1, Max(rows) + k_margin}) <= Max(rows) + k_margin
  BY <1>1, <1>2, <1>4
<1> QED
  BY <1>5, <1>6 DEF rows, cols

\* What a rectangle found by detect_active_rect is.
LEMMA CropFound ==
  ASSUME NEW buf, NEW w \in Nat \ {0}, NEW h \in Nat \ {0},
         NEW r \in detect_active_rect(buf, w, h)
  PROVE  LET rows == ActiveRows(buf, w, h)
             cols == ActiveCols(buf, w, h)
         IN /\ rows # {}
            /\ r.x \in Nat /\ r.y \in Nat
            /\ r.width \in Nat \ {0} /\ r.height \in Nat \ {0}
            /\ r.width >= MinSide /\ r.height >= MinSide
            /\ r.x + r.width <= w /\ r.y + r.height <= h
            /\ r.x <= Min(cols) /\ Min(cols) <= r.x + k_margin
            /\ r.y <= Min(rows) /\ Min(rows) <= r.y + k_margin
            /\ Max(cols) <= r.x + r.width - 1 /\ r.x + r.width - 1 <= Max(cols) + k_margin
            /\ Max(rows) <= r.y + r.height - 1 /\ r.y + r.height - 1 <= Max(rows) + k_margin
<1> USE SizesKnown DEF Sizes
<1> DEFINE rows == ActiveRows(buf, w, h)
           cols == ActiveCols(buf, w, h)
           scanned == {x \in 0..(w - 1) : \E y \in Min(rows)..Max(rows) : Active(buf, y, x)}
           x0(c) == Max({0, Min(c) - k_margin})
           y0 == Max({0, Min(rows) - k_margin})
           x1(c) == Min({w - 1, Max(c) + k_margin})
           y1 == Min({h - 1, Max(rows) + k_margin})
           rect(c) == [x |-> x0(c), y |-> y0, width |-> x1(c) - x0(c) + 1, height |-> y1 - y0 + 1]
<1>1. rows # {} /\ r = rect(scanned) /\ ~(rect(scanned).width < MinSide)
        /\ ~(rect(scanned).height < MinSide)
  BY DEF detect_active_rect, ActiveRows, Active
<1>2. scanned = cols
  BY <1>1, ScannedAll
<1>3. r = rect(cols) /\ ~(r.width < MinSide) /\ ~(r.height < MinSide)
  BY <1>1, <1>2
<1>4. Min(rows) \in 0..(h - 1) /\ Max(rows) \in 0..(h - 1)
  BY <1>1, Edges
<1>5. Min(cols) \in 0..(w - 1) /\ Max(cols) \in 0..(w - 1)
  BY <1>1, Edges
<1>6. /\ x0(cols) \in 0..Min(cols) /\ x0(cols) >= Min(cols) - k_margin
      /\ y0 \in 0..Min(rows) /\ y0 >= Min(rows) - k_margin
      /\ x1(cols) \in Max(cols)..(w - 1) /\ x1(cols) <= Max(cols) + k_margin
      /\ y1 \in Max(rows)..(h - 1) /\ y1 <= Max(rows) + k_margin
  BY <1>1, CropRect
<1>7. r.x = x0(cols) /\ r.y = y0 /\ r.width = x1(cols) - x0(cols) + 1 /\ r.height = y1 - y0 + 1
  BY <1>3
<1> HIDE DEF rows, cols, x0, y0, x1, y1, rect, scanned
<1>8. Min(rows) <= Max(rows) /\ Min(cols) <= Max(cols)
  BY <1>1, Edges DEF rows, cols
<1>9. r.width \in Nat \ {0} /\ r.height \in Nat \ {0}
  BY <1>4, <1>5, <1>6, <1>7, <1>8
<1>10. r.width >= MinSide /\ r.height >= MinSide
  BY <1>3, <1>9
<1> QED
  BY <1>1, <1>4, <1>5, <1>6, <1>7, <1>9, <1>10 DEF rows, cols

\* Why detect_active_rect may find none.
LEMMA CropRefused ==
  ASSUME NEW buf, NEW w \in Nat \ {0}, NEW h \in Nat \ {0},
         detect_active_rect(buf, w, h) = {}
  PROVE  LET rows == ActiveRows(buf, w, h)
             cols == ActiveCols(buf, w, h)
         IN \/ rows = {}
            \/ Max(rows) - Min(rows) + 1 < MinSide
            \/ Max(cols) - Min(cols) + 1 < MinSide
<1> USE SizesKnown DEF Sizes
<1> DEFINE rows == ActiveRows(buf, w, h)
           cols == ActiveCols(buf, w, h)
           scanned == {x \in 0..(w - 1) : \E y \in Min(rows)..Max(rows) : Active(buf, y, x)}
           x0(c) == Max({0, Min(c) - k_margin})
           y0 == Max({0, Min(rows) - k_margin})
           x1(c) == Min({w - 1, Max(c) + k_margin})
           y1 == Min({h - 1, Max(rows) + k_margin})
<1> SUFFICES ASSUME rows # {}
             PROVE  Max(rows) - Min(rows) + 1 < MinSide \/ Max(cols) - Min(cols) + 1 < MinSide
  OBVIOUS
<1>1. x1(scanned) - x0(scanned) + 1 < MinSide \/ y1 - y0 + 1 < MinSide
  BY DEF detect_active_rect, ActiveRows, Active
<1>2. scanned = cols
  BY ScannedAll
<1>3. x1(cols) - x0(cols) + 1 < MinSide \/ y1 - y0 + 1 < MinSide
  BY <1>1, <1>2
<1>4. Min(rows) \in 0..(h - 1) /\ Max(rows) \in 0..(h - 1)
  BY Edges
<1>5. Min(cols) \in 0..(w - 1) /\ Max(cols) \in 0..(w - 1)
  BY Edges
<1>6. /\ x0(cols) \in 0..Min(cols) /\ y0 \in 0..Min(rows)
      /\ x1(cols) \in Max(cols)..(w - 1) /\ y1 \in Max(rows)..(h - 1)
  BY CropRect
<1> HIDE DEF rows, cols, x0, y0, x1, y1, scanned
<1> QED
  BY <1>3, <1>4, <1>5, <1>6

\* The crop stays inside the present buffer, reads inside the frame buffer and
\* keeps every pixel in its place.
LEMMA CropInBounds ==
  ASSUME Buffers, NEW buf \in [Offsets -> Colours], NEW r,
         r.x \in Nat, r.y \in Nat, r.width \in Nat \ {0}, r.height \in Nat \ {0},
         r.x + r.width <= k_width, r.y + r.height <= k_height
  PROVE  /\ copy_cropped_frame(buf, r) \in [Offsets -> Colours]
         /\ \A y \in 0..(r.height - 1), x \in 0..(r.width - 1) :
              copy_cropped_frame(buf, r)[y * r.width + x] = buf[(y + r.y) * k_width + (x + r.x)]
<1> USE SizesKnown DEF Sizes
<1> DEFINE Copied == 0..(r.width * r.height - 1)
           from(i) == (r.y + i \div r.width) * k_width + r.x + (i % r.width)
<1>1. r.width * r.height <= k_width * k_height
  <2>1. r.width <= k_width /\ r.height <= k_height
    OBVIOUS
  <2>2. r.width * r.height <= k_width * r.height
    BY <2>1, Times
  <2>3. r.height * k_width <= k_height * k_width
    BY <2>1, Times
  <2> QED
    BY <2>2, <2>3
<1>2. Offsets \cup Copied = Offsets
  BY <1>1 DEF Offsets
<1>3. ASSUME NEW i \in Copied
      PROVE  /\ i \div r.width \in 0..(r.height - 1) /\ i % r.width \in 0..(r.width - 1)
             /\ from(i) \in Offsets
             /\ from(i) = ((i \div r.width) + r.y) * k_width + ((i % r.width) + r.x)
  <2>1. i \div r.width \in 0..(r.height - 1) /\ i % r.width \in 0..(r.width - 1)
    BY OffsetLine
  <2> DEFINE y == i \div r.width
             x == i % r.width
  <2> HIDE DEF y, x
  <2>2. y \in 0..(r.height - 1) /\ x \in 0..(r.width - 1)
    BY <2>1 DEF y, x
  <2>3. y + r.y \in 0..(k_height - 1) /\ x + r.x \in 0..(k_width - 1)
    BY <2>2
  <2>4. (y + r.y) * k_width + (x + r.x) \in Offsets
    BY <2>3, OffsetInRange DEF Offsets
  <2>5. (r.y + y) * k_width + r.x + x = (y + r.y) * k_width + (x + r.x)
    BY <2>2
  <2> QED
    BY <2>1, <2>4, <2>5 DEF y, x
<1>4. copy_cropped_frame(buf, r) =
        [i \in Offsets |-> IF i \in Copied THEN buf[from(i)] ELSE presentbuffer[i]]
  BY <1>2, Zenon DEF copy_cropped_frame
<1> HIDE DEF Copied, from
<1>5. copy_cropped_frame(buf, r) \in [Offsets -> Colours]
  BY <1>3, <1>4 DEF Buffers
<1>6. ASSUME NEW y \in 0..(r.height - 1), NEW x \in 0..(r.width - 1)
      PROVE  copy_cropped_frame(buf, r)[y * r.width + x] = buf[(y + r.y) * k_width + (x + r.x)]
  <2> DEFINE i == y * r.width + x
  <2>1. i \in Copied
    BY OffsetInRange DEF Copied
  <2>2. i \div r.width = y /\ i % r.width = x
    <3>1. y \in Nat
      OBVIOUS
    <3> QED
      BY <3>1, OffsetSplits
  <2> HIDE DEF i
  <2>3. i \in Offsets
    BY <1>2, <2>1
  <2>4. copy_cropped_frame(buf, r)[i] = buf[from(i)]
    BY <1>4, <2>1, <2>3
  <2>5. from(i) = (y + r.y) * k_width + (x + r.x)
    BY <1>3, <2>1, <2>2
  <2> QED
    BY <2>4, <2>5 DEF i
<1> QED
  BY <1>5, <1>6

-----------------------------------------------------------------------------
(* The frame *)

\* The lines and columns of a picture that are lit.
Lines(p)   == {y \in 0..(p.h - 1) : \E x \in 0..(p.w - 1) : is_active_pixel(p.at[<<y, x>>])}
Columns(p) == {x \in 0..(p.w - 1) : \E y \in 0..(p.h - 1) : is_active_pixel(p.at[<<y, x>>])}

\* What is active in the frame buffer is what is lit in the picture copied there.
LEMMA ActiveIsLit ==
  ASSUME Buffers, NEW p, Fitting(p)
  PROVE  /\ ActiveRows(copy_video_frame(p), p.w, p.h) = Lines(p)
         /\ ActiveCols(copy_video_frame(p), p.w, p.h) = Columns(p)
<1>1. \A y \in 0..(p.h - 1), x \in 0..(p.w - 1) :
        Active(copy_video_frame(p), y, x) <=> is_active_pixel(p.at[<<y, x>>])
  BY CopyInBounds DEF Active
<1> QED
  BY <1>1 DEF ActiveRows, ActiveCols, Lines, Columns

\* The part of p a crop shows.
Part(p, r) ==
  [w |-> r.width, h |-> r.height,
   at |-> [q \in Pixels(r.width, r.height) |-> p.at[<<q[1] + r.y, q[2] + r.x>>]]]

\* A rectangle of p with all that is lit in it and no more than the margin around.
Tight(p, r) ==
  /\ r.x \in Nat /\ r.y \in Nat
  /\ r.width \in Nat \ {0} /\ r.height \in Nat \ {0}
  /\ r.width >= MinSide /\ r.height >= MinSide
  /\ r.x + r.width <= p.w /\ r.y + r.height <= p.h
  /\ Lines(p) # {} /\ Columns(p) # {}
  /\ \A y \in Lines(p) : r.y <= y /\ y <= r.y + r.height - 1
  /\ \A x \in Columns(p) : r.x <= x /\ x <= r.x + r.width - 1
  /\ \E y \in Lines(p) : y <= r.y + k_margin
  /\ \E y \in Lines(p) : r.y + r.height - 1 <= y + k_margin
  /\ \E x \in Columns(p) : x <= r.x + k_margin
  /\ \E x \in Columns(p) : r.x + r.width - 1 <= x + k_margin

\* The lit part of p is smaller than the least crop.
Small(p) ==
  \/ Lines(p) = {}
  \/ Max(Lines(p)) - Min(Lines(p)) + 1 < MinSide
  \/ Max(Columns(p)) - Min(Columns(p)) + 1 < MinSide

\* The crop of a picture is tight.
LEMMA CropTight ==
  ASSUME Buffers, NEW p, Fitting(p),
         NEW r \in detect_active_rect(copy_video_frame(p), p.w, p.h)
  PROVE  Tight(p, r)
<1> USE SizesKnown DEF Sizes
<1> DEFINE buf == copy_video_frame(p)
           rows == ActiveRows(buf, p.w, p.h)
           cols == ActiveCols(buf, p.w, p.h)
<1>1. p.w \in Nat \ {0} /\ p.h \in Nat \ {0}
  BY DEF Fitting
<1>2. rows = Lines(p) /\ cols = Columns(p)
  BY ActiveIsLit
<1>3. /\ rows # {}
      /\ r.x \in Nat /\ r.y \in Nat
      /\ r.width \in Nat \ {0} /\ r.height \in Nat \ {0}
      /\ r.width >= MinSide /\ r.height >= MinSide
      /\ r.x + r.width <= p.w /\ r.y + r.height <= p.h
      /\ r.x <= Min(cols) /\ Min(cols) <= r.x + k_margin
      /\ r.y <= Min(rows) /\ Min(rows) <= r.y + k_margin
      /\ Max(cols) <= r.x + r.width - 1 /\ r.x + r.width - 1 <= Max(cols) + k_margin
      /\ Max(rows) <= r.y + r.height - 1 /\ r.y + r.height - 1 <= Max(rows) + k_margin
  BY <1>1, CropFound
<1>4. /\ cols # {}
      /\ Min(rows) \in rows /\ Max(rows) \in rows /\ Min(cols) \in cols /\ Max(cols) \in cols
      /\ \A y \in rows : Min(rows) <= y /\ y <= Max(rows)
      /\ \A x \in cols : Min(cols) <= x /\ x <= Max(cols)
  BY <1>1, <1>3, Edges
<1>5. rows \subseteq Nat /\ cols \subseteq Nat
  BY <1>2, <1>1 DEF Lines, Columns
<1> HIDE DEF buf, rows, cols
<1>6. /\ \A y \in rows : r.y <= y /\ y <= r.y + r.height - 1
      /\ \A x \in cols : r.x <= x /\ x <= r.x + r.width - 1
  <2>1. /\ Min(rows) \in Nat /\ Max(rows) \in Nat
        /\ Min(cols) \in Nat /\ Max(cols) \in Nat
    BY <1>4, <1>5
  <2>2. ASSUME NEW y \in rows PROVE r.y <= y /\ y <= r.y + r.height - 1
    <3>1. y \in Nat /\ Min(rows) <= y /\ y <= Max(rows)
      BY <1>4, <1>5
    <3> QED
      BY <1>3, <2>1, <3>1
  <2>3. ASSUME NEW x \in cols PROVE r.x <= x /\ x <= r.x + r.width - 1
    <3>1. x \in Nat /\ Min(cols) <= x /\ x <= Max(cols)
      BY <1>4, <1>5
    <3> QED
      BY <1>3, <2>1, <3>1
  <2> QED
    BY <2>2, <2>3
<1> QED
  BY <1>2, <1>3, <1>4, <1>6 DEF Tight

\* A picture that is not cropped, with the option on.
LEMMA NotCropped ==
  ASSUME Buffers, NEW p, Fitting(p),
         detect_active_rect(copy_video_frame(p), p.w, p.h) = {}
  PROVE  Small(p)
<1>1. p.w \in Nat \ {0} /\ p.h \in Nat \ {0}
  BY SizesKnown DEF Fitting, Sizes
<1> QED
  BY <1>1, CropRefused, ActiveIsLit DEF Small

\* What render_mame_frame presents: the picture, or with the option on its crop.
LEMMA FrameShown ==
  ASSUME Buffers, screen \in Pictures, captured \in Pictures \cup {NoPicture},
         NEW accepted \in BOOLEAN, render_mame_frame(accepted)
  PROVE  /\ Fitting(source) /\ Buffers'
         /\ \/ /\ shown' = source /\ (wide' => Small(source))
               /\ update_geometry(source.w, source.h, accepted)
            \/ /\ wide'
               /\ \E r : /\ Tight(source, r) /\ shown' = Part(source, r)
                         /\ update_geometry(r.width, r.height, accepted)
<1> USE SizesKnown DEF Sizes
<1> DEFINE p == source
           fb == copy_video_frame(p)
           crops == IF wide' THEN detect_active_rect(fb, p.w, p.h) ELSE {}
<1>1. Fitting(p)
  BY SourceFits
<1>2. /\ framebuffer' = fb
      /\ IF crops = {}
         THEN /\ present_xrgb8888(fb, p.w, p.h, k_width) /\ UNCHANGED presentbuffer
              /\ update_geometry(p.w, p.h, accepted)
         ELSE \E r \in crops :
              /\ presentbuffer' = copy_cropped_frame(fb, r)
              /\ present_xrgb8888(presentbuffer', r.width, r.height, r.width)
              /\ update_geometry(r.width, r.height, accepted)
  BY DEF render_mame_frame
<1> HIDE DEF p
<1>3. /\ fb \in [Offsets -> Colours]
      /\ \A y \in 0..(p.h - 1), x \in 0..(p.w - 1) : fb[y * k_width + x] = p.at[<<y, x>>]
  BY <1>1, CopyInBounds
<1>4. p.w \in 1..k_width /\ p.h \in 1..k_height /\ p.at \in [Pixels(p.w, p.h) -> Colours]
        /\ p = [w |-> p.w, h |-> p.h, at |-> p.at]
  BY <1>1 DEF Fitting
<1>5. CASE crops = {}
  <2>1. wide' => Small(p)
    BY <1>1, <1>5, NotCropped
  <2> HIDE DEF fb, crops
  <2>2. shown' = [w |-> p.w, h |-> p.h,
                  at |-> [q \in Pixels(p.w, p.h) |-> fb[q[1] * k_width + q[2]]]]
    BY <1>2, <1>5 DEF present_xrgb8888
  <2>3. [q \in Pixels(p.w, p.h) |-> fb[q[1] * k_width + q[2]]] = p.at
    <3>1. ASSUME NEW q \in Pixels(p.w, p.h) PROVE fb[q[1] * k_width + q[2]] = p.at[q]
      BY <1>3 DEF Pixels
    <3> QED
      BY <1>4, <3>1
  <2>4. shown' = p
    BY <1>4, <2>2, <2>3
  <2>5. Buffers'
    BY <1>2, <1>3, <1>5 DEF Buffers, Offsets, Colours
  <2> QED
    BY <1>1, <1>2, <1>5, <2>1, <2>4, <2>5 DEF p
<1>6. CASE crops # {}
  <2>1. PICK r \in crops :
          /\ presentbuffer' = copy_cropped_frame(fb, r)
          /\ present_xrgb8888(presentbuffer', r.width, r.height, r.width)
          /\ update_geometry(r.width, r.height, accepted)
    BY <1>2, <1>6
  <2>2. wide' /\ r \in detect_active_rect(fb, p.w, p.h)
    BY <1>6
  <2>3. Tight(p, r)
    BY <1>1, <2>2, CropTight
  <2> HIDE DEF fb, crops
  <2>4. /\ r.x \in Nat /\ r.y \in Nat /\ r.width \in Nat \ {0} /\ r.height \in Nat \ {0}
        /\ r.x + r.width <= p.w /\ r.y + r.height <= p.h
    BY <2>3 DEF Tight
  <2>5. r.x + r.width <= k_width /\ r.y + r.height <= k_height
    BY <1>4, <2>4
  <2>6. /\ copy_cropped_frame(fb, r) \in [Offsets -> Colours]
        /\ \A y \in 0..(r.height - 1), x \in 0..(r.width - 1) :
             copy_cropped_frame(fb, r)[y * r.width + x] = fb[(y + r.y) * k_width + (x + r.x)]
    BY <1>3, <2>4, <2>5, CropInBounds
  <2>7. shown' = [w |-> r.width, h |-> r.height,
                  at |-> [q \in Pixels(r.width, r.height) |->
                            copy_cropped_frame(fb, r)[q[1] * r.width + q[2]]]]
    BY <2>1 DEF present_xrgb8888
  <2>8. ASSUME NEW q \in Pixels(r.width, r.height)
        PROVE  copy_cropped_frame(fb, r)[q[1] * r.width + q[2]] = p.at[<<q[1] + r.y, q[2] + r.x>>]
    <3>1. q[1] \in 0..(r.height - 1) /\ q[2] \in 0..(r.width - 1)
      BY DEF Pixels
    <3>2. q[1] + r.y \in 0..(p.h - 1) /\ q[2] + r.x \in 0..(p.w - 1)
      BY <1>4, <2>4, <3>1
    <3> QED
      BY <1>3, <2>6, <3>1, <3>2
  <2>9. shown' = Part(p, r)
    BY <2>7, <2>8 DEF Part
  <2>10. Buffers'
    BY <1>2, <1>3, <2>1, <2>6 DEF Buffers, Offsets, Colours
  <2> QED
    BY <1>1, <2>1, <2>2, <2>3, <2>9, <2>10 DEF p
<1> QED
  BY <1>5, <1>6

-----------------------------------------------------------------------------
(* The inductive invariant *)

\* The size last announced is the frontend's, unless it refused it.
Announced == video # <<0, 0>> => refused \/ geometry = video

IInv == TypeOK /\ Announced

\* A size that can be announced.
Size(w, h) == w \in 1..k_width /\ h \in 1..k_height

\* After update_geometry the frontend has the size or has refused it.
LEMMA GeometryUpdated ==
  ASSUME IInv, NEW w, NEW h, Size(w, h), NEW accepted \in BOOLEAN, update_geometry(w, h, accepted)
  PROVE  /\ refused' \in BOOLEAN
         /\ video' \in (0..k_width) \X (0..k_height)
         /\ geometry' \in (1..k_width) \X (1..k_height)
         /\ refused' \/ geometry' = <<w, h>>
         /\ Announced'
<1> USE SizesKnown DEF Sizes
<1>1. /\ refused \in BOOLEAN /\ video \in (0..k_width) \X (0..k_height)
      /\ geometry \in (1..k_width) \X (1..k_height)
      /\ w \in 0..k_width /\ h \in 0..k_height /\ <<w, h>> # <<0, 0>>
  BY DEF IInv, TypeOK, Size
<1>2. CASE video = <<w, h>>
  <2>1. video' = video /\ geometry' = geometry /\ refused' = refused
    BY <1>2 DEF update_geometry
  <2> QED
    BY <1>1, <1>2, <2>1 DEF IInv, Announced
<1>3. CASE video # <<w, h>>
  <2>1. /\ video' = <<w, h>> /\ refused' = ~accepted
        /\ geometry' = IF accepted THEN <<w, h>> ELSE geometry
    BY <1>3 DEF update_geometry
  <2> QED
    BY <1>1, <2>1 DEF Announced, Size
<1> QED
  BY <1>2, <1>3

\* What a frame does to the state.
LEMMA FrameAnnounced ==
  ASSUME IInv, NEW accepted \in BOOLEAN, render_mame_frame(accepted)
  PROVE  /\ Buffers' /\ Announced' /\ refused' \in BOOLEAN
         /\ video' \in (0..k_width) \X (0..k_height)
         /\ geometry' \in (1..k_width) \X (1..k_height)
         /\ Size(shown'.w, shown'.h)
         /\ refused' \/ geometry' = <<shown'.w, shown'.h>>
<1> USE SizesKnown DEF Sizes
<1>1. Buffers /\ screen \in Pictures /\ captured \in Pictures \cup {NoPicture}
  BY DEF IInv, TypeOK, Buffers
<1> DEFINE p == source
<1>2. /\ Fitting(p) /\ Buffers'
      /\ \/ /\ shown' = p /\ update_geometry(p.w, p.h, accepted)
         \/ \E r : /\ Tight(p, r) /\ shown' = Part(p, r)
                   /\ update_geometry(r.width, r.height, accepted)
  BY <1>1, FrameShown
<1> HIDE DEF p
<1>3. Size(p.w, p.h)
  BY <1>2 DEF Fitting, Size
<1>4. CASE shown' = p /\ update_geometry(p.w, p.h, accepted)
  BY <1>2, <1>3, <1>4, GeometryUpdated
<1>5. ASSUME NEW r, Tight(p, r), shown' = Part(p, r), update_geometry(r.width, r.height, accepted)
      PROVE  /\ Announced' /\ refused' \in BOOLEAN
             /\ video' \in (0..k_width) \X (0..k_height)
             /\ geometry' \in (1..k_width) \X (1..k_height)
             /\ Size(shown'.w, shown'.h)
             /\ refused' \/ geometry' = <<shown'.w, shown'.h>>
  <2>1. shown'.w = r.width /\ shown'.h = r.height
    BY <1>5 DEF Part
  <2>2. Size(r.width, r.height)
    BY <1>3, <1>5 DEF Tight, Size
  <2> QED
    BY <1>5, <2>1, <2>2, GeometryUpdated
<1> QED
  BY <1>2, <1>4, <1>5

\* An empty buffer, and the empty frame it makes.
LEMMA ClearedIsBuffer == Cleared \in [Offsets -> Colours]
BY DEF Cleared, Colours

LEMMA InitIInv == Init => IInv
<1> USE SizesKnown DEF Sizes
<1> SUFFICES ASSUME Init PROVE IInv
  OBVIOUS
<1>1. framebuffer \in [Offsets -> Colours] /\ presentbuffer \in [Offsets -> Colours]
  BY ClearedIsBuffer DEF Init
<1>2. /\ video \in (0..k_width) \X (0..k_height)
      /\ geometry \in (1..k_width) \X (1..k_height)
      /\ shown.w \in 0..k_width /\ shown.h \in 0..k_height
  BY DEF Init, NoPicture
<1> QED
  BY <1>1, <1>2 DEF Init, IInv, TypeOK, Announced

LEMMA NextIInv == IInv /\ [Next]_vars => IInv'
<1> SUFFICES ASSUME IInv, [Next]_vars PROVE IInv'
  OBVIOUS
<1> USE SizesKnown DEF Sizes
<1>0. /\ loaded \in BOOLEAN /\ wide \in BOOLEAN /\ refused \in BOOLEAN
      /\ screen \in Pictures /\ captured \in Pictures \cup {NoPicture}
      /\ framebuffer \in [Offsets -> Colours] /\ presentbuffer \in [Offsets -> Colours]
      /\ video \in (0..k_width) \X (0..k_height)
      /\ geometry \in (1..k_width) \X (1..k_height)
      /\ shown.w \in 0..k_width /\ shown.h \in 0..k_height
      /\ Announced
  BY DEF IInv, TypeOK
<1>z. <<0, 0>> \in (0..k_width) \X (0..k_height)
  OBVIOUS
<1>c. <<k_width, k_height>> \in (1..k_width) \X (1..k_height)
  OBVIOUS
<1>1. CASE capture_xrgb8888
  BY <1>0, <1>1 DEF capture_xrgb8888, IInv, TypeOK, Announced, bufferVars, Offsets, Colours
<1>2. CASE configure
  BY <1>0, <1>2 DEF configure, IInv, TypeOK, Announced, bufferVars, Offsets, Colours
<1>3. CASE retro_run
  <2>0. /\ wide' \in BOOLEAN /\ loaded' = loaded /\ screen' = screen /\ captured' = captured
    BY <1>3 DEF retro_run
  <2>1. CASE loaded
    <3>1. PICK accepted \in BOOLEAN : render_mame_frame(accepted)
      BY <1>3, <2>1 DEF retro_run
    <3>2. /\ Buffers' /\ Announced' /\ refused' \in BOOLEAN
          /\ video' \in (0..k_width) \X (0..k_height)
          /\ geometry' \in (1..k_width) \X (1..k_height)
          /\ Size(shown'.w, shown'.h)
      BY <3>1, FrameAnnounced
    <3>3. shown'.w \in 0..k_width /\ shown'.h \in 0..k_height
      BY <3>2 DEF Size
    <3> QED
      BY <1>0, <2>0, <3>2, <3>3 DEF IInv, TypeOK, Buffers, NoPicture
  <2>2. CASE ~loaded
    <3>1. /\ framebuffer' = Cleared
          /\ present_xrgb8888(framebuffer', k_width, k_height, k_width)
          /\ UNCHANGED <<presentbuffer, video, geometry, refused>>
      BY <1>3, <2>2 DEF retro_run
    <3>2. shown'.w = k_width /\ shown'.h = k_height
      BY <3>1 DEF present_xrgb8888
    <3>3. framebuffer' \in [Offsets -> Colours]
      BY <3>1, ClearedIsBuffer
    <3> QED
      BY <1>0, <2>0, <3>1, <3>2, <3>3 DEF IInv, TypeOK, Announced, Offsets, Colours, NoPicture
  <2> QED
    BY <2>1, <2>2
<1>4. ASSUME NEW started \in BOOLEAN, load(started)
      PROVE  /\ loaded' \in BOOLEAN /\ screen' \in Pictures /\ video' = <<0, 0>>
             /\ UNCHANGED <<captured, framebuffer, presentbuffer, shown>>
  BY <1>0, <1>4 DEF load, bufferVars
<1>5. CASE retro_load_game
  <2>1. PICK started \in BOOLEAN :
          /\ load(started)
          /\ IF started THEN geometry' = <<k_width, k_height>> /\ refused' = FALSE
             ELSE UNCHANGED <<geometry, refused>>
    BY <1>5 DEF retro_load_game
  <2>2. wide' \in BOOLEAN
    BY <1>5 DEF retro_load_game
  <2>3. geometry' \in (1..k_width) \X (1..k_height) /\ refused' \in BOOLEAN
    BY <1>0, <1>c, <2>1
  <2> QED
    BY <1>0, <1>z, <1>4, <2>1, <2>2, <2>3 DEF IInv, TypeOK, Announced, Offsets, Colours
<1>6. CASE retro_reset
  <2>1. PICK started \in BOOLEAN : load(started)
    BY <1>6 DEF retro_reset
  <2>2. UNCHANGED <<wide, geometry, refused>>
    BY <1>6 DEF retro_reset
  <2> QED
    BY <1>0, <1>z, <1>4, <2>1, <2>2 DEF IInv, TypeOK, Announced, Offsets, Colours
<1>7. CASE retro_unload_game
  <2>1. load(FALSE) /\ UNCHANGED <<wide, geometry, refused>>
    BY <1>7 DEF retro_unload_game
  <2> QED
    BY <1>0, <1>z, <1>4, <2>1 DEF IInv, TypeOK, Announced, Offsets, Colours
<1>8. CASE load_state
  <2>1. framebuffer' \in [Offsets -> Colours]
    BY <1>8, ClearedIsBuffer DEF load_state
  <2> QED
    BY <1>0, <1>z, <1>8, <2>1 DEF load_state, IInv, TypeOK, Announced, Offsets, Colours
<1>9. CASE UNCHANGED vars
  BY <1>0, <1>9 DEF vars, bufferVars, IInv, TypeOK, Announced, Offsets, Colours
<1> QED
  BY <1>1, <1>2, <1>3, <1>5, <1>6, <1>7, <1>8, <1>9 DEF Next

LEMMA Invariance == Spec => []IInv
BY InitIInv, NextIInv, PTL DEF Spec

\* Nothing is written past a buffer of any size, and no frame is larger than the
\* largest geometry (copy_video_frame, copy_cropped_frame).
THEOREM TypeCorrect == Spec => []TypeOK
<1>1. IInv => TypeOK
  BY DEF IInv
<1> QED
  BY <1>1, Invariance, PTL

\* The frontend always knows the size of the frame it is given, or has refused
\* it (update_geometry).
THEOREM GeometryAlwaysFollows == Spec => GeometryFollows
<1>1. ASSUME IInv, Presents
      PROVE  refused' \/ geometry' = <<shown'.w, shown'.h>>
  <2>1. PICK accepted \in BOOLEAN : render_mame_frame(accepted)
    BY <1>1 DEF Presents, retro_run
  <2> QED
    BY <1>1, <2>1, FrameAnnounced
<1>2. IInv => [Presents => refused' \/ geometry' = <<shown'.w, shown'.h>>]_vars
  BY <1>1
<1> QED
  BY <1>2, Invariance, PTL DEF GeometryFollows

-----------------------------------------------------------------------------
(* What is shown *)

\* The two ways a frame can be presented.
LEMMA PresentsWholeOrPart ==
  ASSUME IInv, Presents
  PROVE  /\ Fitting(source)
         /\ \/ shown' = source /\ (wide' => Small(source))
            \/ wide' /\ \E r : Tight(source, r) /\ shown' = Part(source, r)
<1>1. PICK accepted \in BOOLEAN : render_mame_frame(accepted)
  BY DEF Presents, retro_run
<1>2. Buffers /\ screen \in Pictures /\ captured \in Pictures \cup {NoPicture}
  BY DEF IInv, TypeOK, Buffers
<1> QED
  BY <1>1, <1>2, FrameShown

\* The frame s shows the picture p and all that is lit in it.
Shows(s, p) ==
  \E c \in Corners(s, p) :
    /\ IsPart(s, p, c)
    /\ \A q \in DOMAIN p.at : is_active_pixel(p.at[q]) => Inside(q, s, c)

LEMMA WholeShows ==
  ASSUME NEW p, Fitting(p)
  PROVE  Shows(p, p)
<1> USE SizesKnown DEF Sizes
<1> DEFINE c == <<0, 0>>
<1>1. p.w \in 1..k_width /\ p.h \in 1..k_height /\ p.at \in [Pixels(p.w, p.h) -> Colours]
  BY DEF Fitting
<1>2. c \in Corners(p, p)
  BY <1>1 DEF Corners
<1>3. ASSUME NEW q \in DOMAIN p.at
      PROVE  p.at[q] = p.at[<<q[1] + c[1], q[2] + c[2]>>] /\ Inside(q, p, c)
  <2>1. q \in Pixels(p.w, p.h)
    BY <1>1
  <2>2. q[1] \in 0..(p.h - 1) /\ q[2] \in 0..(p.w - 1) /\ q = <<q[1], q[2]>>
    BY <2>1 DEF Pixels
  <2>3. q[1] + c[1] = q[1] /\ q[2] + c[2] = q[2] /\ q[1] - c[1] = q[1] /\ q[2] - c[2] = q[2]
    BY <2>2
  <2> QED
    BY <2>2, <2>3 DEF Inside
<1> HIDE DEF c
<1> QED
  BY <1>2, <1>3 DEF Shows, IsPart

LEMMA PartShows ==
  ASSUME NEW p, Fitting(p), NEW r, Tight(p, r)
  PROVE  Shows(Part(p, r), p)
<1> USE SizesKnown DEF Sizes
<1> DEFINE c == <<r.y, r.x>>
           s == Part(p, r)
<1>1. p.w \in 1..k_width /\ p.h \in 1..k_height /\ p.at \in [Pixels(p.w, p.h) -> Colours]
  BY DEF Fitting
<1>2. /\ r.x \in Nat /\ r.y \in Nat /\ r.width \in Nat \ {0} /\ r.height \in Nat \ {0}
      /\ r.x + r.width <= p.w /\ r.y + r.height <= p.h
      /\ \A y \in Lines(p) : r.y <= y /\ y <= r.y + r.height - 1
      /\ \A x \in Columns(p) : r.x <= x /\ x <= r.x + r.width - 1
  BY DEF Tight
<1>3. /\ s.w = r.width /\ s.h = r.height /\ DOMAIN s.at = Pixels(r.width, r.height)
      /\ \A q \in Pixels(r.width, r.height) : s.at[q] = p.at[<<q[1] + r.y, q[2] + r.x>>]
      /\ c[1] = r.y /\ c[2] = r.x
  BY DEF Part
<1>4. c \in (0..(p.h - r.height)) \X (0..(p.w - r.width))
  BY <1>1, <1>2
<1> HIDE DEF c, s
<1>5. c \in Corners(s, p)
  BY <1>3, <1>4 DEF Corners
<1>6. IsPart(s, p, c)
  BY <1>3 DEF IsPart
<1>7. ASSUME NEW q \in DOMAIN p.at, is_active_pixel(p.at[q])
      PROVE  Inside(q, s, c)
  <2>1. q[1] \in 0..(p.h - 1) /\ q[2] \in 0..(p.w - 1) /\ q = <<q[1], q[2]>>
    BY <1>1 DEF Pixels
  <2>2. is_active_pixel(p.at[<<q[1], q[2]>>])
    BY <1>7, <2>1
  <2>3. q[1] \in Lines(p) /\ q[2] \in Columns(p)
    BY <2>1, <2>2 DEF Lines, Columns
  <2>4. r.y <= q[1] /\ q[1] <= r.y + r.height - 1 /\ r.x <= q[2] /\ q[2] <= r.x + r.width - 1
    BY <1>2, <2>3
  <2>5. q[1] - r.y \in 0..(r.height - 1) /\ q[2] - r.x \in 0..(r.width - 1)
    BY <1>1, <1>2, <2>1, <2>4
  <2> QED
    BY <1>3, <2>5 DEF Inside
<1> QED
  BY <1>5, <1>6, <1>7 DEF Shows, s

\* Of any size the frame presented is a rectangle of the picture with every lit
\* pixel of it, and nothing that the buffers held before (copy_video_frame,
\* copy_cropped_frame).
THEOREM ShownAlwaysPicture == Spec => ShownIsPicture
<1>1. ASSUME IInv, Presents
      PROVE  Shows(shown', source)
  BY <1>1, PresentsWholeOrPart, WholeShows, PartShows
<1>2. IInv => [Presents => Shows(shown', source)]_vars
  BY <1>1
<1>3. IInv =>
        [Presents =>
           \E c \in Corners(shown', source) :
             /\ IsPart(shown', source, c)
             /\ \A q \in DOMAIN source.at :
                  is_active_pixel(source.at[q]) => Inside(q, shown', c)]_vars
  BY <1>2, Zenon DEF Shows
<1> QED
  BY <1>3, Invariance, PTL DEF ShownIsPicture

-----------------------------------------------------------------------------
(* How much of it is shown *)

\* The lit lines and columns of a frame, as sets of numbers.
LEMMA LitIsLines ==
  ASSUME NEW s, s.w \in Nat \ {0}, s.h \in Nat \ {0}, DOMAIN s.at = Pixels(s.w, s.h)
  PROVE  LitRows(s) = Lines(s) /\ LitCols(s) = Columns(s)
<1>1. \A y \in 0..(s.h - 1), x \in 0..(s.w - 1) :
        <<y, x>> \in DOMAIN s.at /\ <<y, x>>[1] = y /\ <<y, x>>[2] = x
  BY DEF Pixels
<1>2. \A q \in DOMAIN s.at :
        q[1] \in 0..(s.h - 1) /\ q[2] \in 0..(s.w - 1) /\ q = <<q[1], q[2]>>
  BY DEF Pixels
<1>3. LitRows(s) \subseteq Lines(s) /\ LitCols(s) \subseteq Columns(s)
  <2>1. ASSUME NEW q \in DOMAIN s.at, is_active_pixel(s.at[q])
        PROVE  q[1] \in Lines(s) /\ q[2] \in Columns(s)
    <3>1. is_active_pixel(s.at[<<q[1], q[2]>>])
      BY <1>2, <2>1
    <3> QED
      BY <1>2, <3>1 DEF Lines, Columns
  <2> QED
    BY <2>1 DEF LitRows, LitCols
<1>4. Lines(s) \subseteq LitRows(s) /\ Columns(s) \subseteq LitCols(s)
  <2>1. ASSUME NEW y \in 0..(s.h - 1), NEW x \in 0..(s.w - 1), is_active_pixel(s.at[<<y, x>>])
        PROVE  y \in LitRows(s) /\ x \in LitCols(s)
    <3> DEFINE q == <<y, x>>
    <3>1. q \in {t \in DOMAIN s.at : is_active_pixel(s.at[t])} /\ q[1] = y /\ q[2] = x
      BY <1>1, <2>1
    <3> HIDE DEF q
    <3> QED
      BY <3>1 DEF LitRows, LitCols
  <2> QED
    BY <2>1 DEF Lines, Columns
<1> QED
  BY <1>3, <1>4

\* The frame has lit lines and columns within the margin of each of its sides.
Trimmed(s) ==
  /\ LitRows(s) # {}
  /\ Min(LitRows(s)) <= k_margin /\ Max(LitRows(s)) >= s.h - 1 - k_margin
  /\ Min(LitCols(s)) <= k_margin /\ Max(LitCols(s)) >= s.w - 1 - k_margin

\* A set of lines or columns that comes within the margin of both sides.
LEMMA Reaches ==
  ASSUME NEW n \in Nat \ {0}, NEW S, S \subseteq 0..(n - 1), NEW m \in Nat,
         NEW a \in S, a <= m, NEW b \in S, b >= n - 1 - m
  PROVE  Min(S) <= m /\ Max(S) >= n - 1 - m
<1>1. n - 1 \in Nat /\ S \subseteq Nat /\ S # {}
  OBVIOUS
<1>2. Min(S) \in S /\ Min(S) <= a
  BY <1>1, NatMin
<1>3. Max(S) \in S /\ b <= Max(S)
  BY <1>1, NatMax
<1>4. Min(S) \in Int /\ Max(S) \in Int /\ a \in Int /\ b \in Int
  <2> DEFINE lo == Min(S)
             hi == Max(S)
  <2>1. S \subseteq Int /\ lo \in S /\ hi \in S
    BY <1>1, <1>2, <1>3
  <2> HIDE DEF lo, hi
  <2>2. lo \in Int /\ hi \in Int /\ a \in Int /\ b \in Int
    BY <2>1
  <2> QED
    BY <2>2 DEF lo, hi
<1> QED
  BY <1>2, <1>3, <1>4

LEMMA PartTrimmed ==
  ASSUME NEW p, Fitting(p), NEW r, Tight(p, r)
  PROVE  Trimmed(Part(p, r)) /\ Part(p, r).w >= MinSide /\ Part(p, r).h >= MinSide
<1> USE SizesKnown DEF Sizes
<1> DEFINE s == Part(p, r)
<1>1. p.w \in 1..k_width /\ p.h \in 1..k_height
  BY DEF Fitting
<1>2. /\ r.x \in Nat /\ r.y \in Nat /\ r.width \in Nat \ {0} /\ r.height \in Nat \ {0}
      /\ r.width >= MinSide /\ r.height >= MinSide
      /\ r.x + r.width <= p.w /\ r.y + r.height <= p.h
      /\ \A y \in Lines(p) : r.y <= y /\ y <= r.y + r.height - 1
      /\ \A x \in Columns(p) : r.x <= x /\ x <= r.x + r.width - 1
  BY DEF Tight
<1>3. /\ s.w = r.width /\ s.h = r.height /\ DOMAIN s.at = Pixels(r.width, r.height)
      /\ \A y \in 0..(r.height - 1), x \in 0..(r.width - 1) :
           s.at[<<y, x>>] = p.at[<<y + r.y, x + r.x>>]
  BY DEF Part, Pixels
<1>4. Lines(p) \subseteq Nat /\ Columns(p) \subseteq Nat
  BY <1>1 DEF Lines, Columns
<1> HIDE DEF s
<1>5. ASSUME NEW y \in 0..(p.h - 1), NEW x \in 0..(p.w - 1), is_active_pixel(p.at[<<y, x>>])
      PROVE  y - r.y \in Lines(s) /\ x - r.x \in Columns(s)
  <2>1. y \in Lines(p) /\ x \in Columns(p)
    BY <1>5 DEF Lines, Columns
  <2>2. r.y <= y /\ y <= r.y + r.height - 1 /\ r.x <= x /\ x <= r.x + r.width - 1
    BY <1>2, <2>1
  <2>3. y - r.y \in 0..(s.h - 1) /\ x - r.x \in 0..(s.w - 1)
    BY <1>1, <1>2, <1>3, <2>2
  <2>4. (y - r.y) + r.y = y /\ (x - r.x) + r.x = x
    BY <1>1, <1>2
  <2>5. is_active_pixel(s.at[<<y - r.y, x - r.x>>])
    BY <1>3, <1>5, <2>3, <2>4
  <2> QED
    BY <2>3, <2>5 DEF Lines, Columns
<1>6. (\A y \in Lines(p) : y - r.y \in Lines(s)) /\ (\A x \in Columns(p) : x - r.x \in Columns(s))
  BY <1>5 DEF Lines, Columns
<1>7. PICK y0 \in Lines(p), y1 \in Lines(p), x0 \in Columns(p), x1 \in Columns(p) :
        /\ y0 <= r.y + k_margin /\ r.y + r.height - 1 <= y1 + k_margin
        /\ x0 <= r.x + k_margin /\ r.x + r.width - 1 <= x1 + k_margin
  BY DEF Tight
<1>8. /\ y0 - r.y \in Lines(s) /\ y1 - r.y \in Lines(s)
      /\ x0 - r.x \in Columns(s) /\ x1 - r.x \in Columns(s)
  BY <1>6
<1>9. /\ y0 - r.y <= k_margin /\ y1 - r.y >= s.h - 1 - k_margin
      /\ x0 - r.x <= k_margin /\ x1 - r.x >= s.w - 1 - k_margin
  BY <1>2, <1>3, <1>4, <1>7
<1>10. Lines(s) \subseteq 0..(s.h - 1) /\ Columns(s) \subseteq 0..(s.w - 1)
  BY DEF Lines, Columns
<1>11. s.w \in Nat \ {0} /\ s.h \in Nat \ {0}
  BY <1>2, <1>3
<1>12. Min(Lines(s)) <= k_margin /\ Max(Lines(s)) >= s.h - 1 - k_margin
  BY <1>8, <1>9, <1>10, <1>11, Reaches
<1>13. Min(Columns(s)) <= k_margin /\ Max(Columns(s)) >= s.w - 1 - k_margin
  BY <1>8, <1>9, <1>10, <1>11, Reaches
<1>14. LitRows(s) = Lines(s) /\ LitCols(s) = Columns(s)
  BY <1>3, <1>11, LitIsLines
<1>15. Trimmed(s)
  BY <1>8, <1>12, <1>13, <1>14 DEF Trimmed
<1> QED
  BY <1>2, <1>3, <1>15 DEF s

\* With the widescreen option a frame is the crop of the picture to its lit part
\* and the margin, or the whole picture when that part is too small; without it
\* the whole picture (detect_active_rect), for every picture and buffer size.
THEOREM CropAlwaysTight == Spec => CropIsTight
<1> DEFINE small(s) == \/ LitRows(s) = {}
                       \/ Max(LitRows(s)) - Min(LitRows(s)) + 1 < MinSide
                       \/ Max(LitCols(s)) - Min(LitCols(s)) + 1 < MinSide
<1>1. ASSUME IInv, Presents
      PROVE  IF shown' = source THEN ~wide' \/ Trimmed(shown') \/ small(shown')
             ELSE wide' /\ Trimmed(shown') /\ shown'.w >= MinSide /\ shown'.h >= MinSide
  <2>1. Fitting(source)
    BY <1>1, PresentsWholeOrPart
  <2>2. LitRows(source) = Lines(source) /\ LitCols(source) = Columns(source)
    <3>1. /\ source.w \in Nat \ {0} /\ source.h \in Nat \ {0}
          /\ DOMAIN source.at = Pixels(source.w, source.h)
      BY <2>1, SizesKnown DEF Fitting, Sizes
    <3> QED
      BY <3>1, LitIsLines
  <2>3. CASE shown' = source /\ (wide' => Small(source))
    BY <2>2, <2>3 DEF Small
  <2>4. CASE wide' /\ \E r : Tight(source, r) /\ shown' = Part(source, r)
    <3>1. wide' /\ Trimmed(shown') /\ shown'.w >= MinSide /\ shown'.h >= MinSide
      BY <2>1, <2>4, PartTrimmed
    <3> QED
      BY <3>1
  <2> QED
    BY <1>1, <2>3, <2>4, PresentsWholeOrPart
<1>2. IInv =>
        [Presents =>
           LET s == shown'
               whole == s = source
               tight == /\ LitRows(s) # {}
                        /\ Min(LitRows(s)) <= k_margin /\ Max(LitRows(s)) >= s.h - 1 - k_margin
                        /\ Min(LitCols(s)) <= k_margin /\ Max(LitCols(s)) >= s.w - 1 - k_margin
               sml == \/ LitRows(s) = {}
                      \/ Max(LitRows(s)) - Min(LitRows(s)) + 1 < MinSide
                      \/ Max(LitCols(s)) - Min(LitCols(s)) + 1 < MinSide
           IN IF whole THEN ~wide' \/ tight \/ sml
              ELSE wide' /\ tight /\ s.w >= MinSide /\ s.h >= MinSide]_vars
  BY <1>1 DEF Trimmed
<1> QED
  BY <1>2, Invariance, PTL DEF CropIsTight
=============================================================================
