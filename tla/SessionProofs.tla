--------------------------- MODULE SessionProofs ----------------------------
(***************************************************************************)
(* Proofs about what a session start does before and around the machine:   *)
(* MediaMount for playlists of any length and any extensions and models,   *)
(* CmosSeed for any number of contents, models and sessions, and Watchdog  *)
(* for any number of calls, lifetimes and sleeps.                          *)
(***************************************************************************)
EXTENDS MediaMount, CmosSeed, Watchdog, FiniteSetTheorems, SequenceTheorems, TLAPS

-----------------------------------------------------------------------------
\* The playlist up to line r, and what was read of it.
Playlist ==
  /\ model \in DOMAIN Offers /\ m3u \in BOOLEAN
  /\ lines \in Seq(Lines) /\ Len(lines) <= MaxLines

\* The entries are the lines kept up to line r, in their order.
ReadTo(r) ==
  /\ entries \in Seq(Extensions \cup NotedHeads)
  /\ Len(entries) = Nth(Kept, r)
  /\ \A l \in Kept : l <= r => entries[Nth(Kept, l)] = cut(lines[l])
  /\ \A e \in 1..Len(entries) : \E l \in Kept : l <= r /\ Nth(Kept, l) = e

\* The slots of a kind that n entries of it take.
Taken(kind, n) == {slot_for_media(kind, i) : i \in 0..(n - 1)} \ {NoSlot}

\* With counters c and media m, the entries up to line r are mounted.
Given(c, m, r) ==
  /\ c = [k \in Media |-> Nth(Of(k), r)]
  /\ DOMAIN m = UNION {Taken(k, Nth(Of(k), r)) : k \in Media}
  /\ DOMAIN m \subseteq Offers[model]
  /\ \A k \in Media : \A l \in Of(k) : l <= r /\ Nth(Of(k), l) <= Capacity(k) =>
       m[slot_for_media(k, Nth(Of(k), l) - 1)] = Nth(Kept, l)

MountedTo(r) == Given(count, mounted, r)

Reading ==
  /\ pos \in 0..Len(lines) /\ ReadTo(pos)
  /\ mounted = << >> /\ MountedTo(0)

\* Line r is the last one dealt with.
Mounting ==
  /\ Kept # {} /\ ReadTo(Len(lines))
  /\ \E r \in 0..Len(lines) : Nth(Kept, r) = pos /\ MountedTo(r)

Failed ==
  /\ ~Succeeds /\ mounted = << >>
  /\ pos \in 0..MaxLines /\ entries \in Seq(Extensions \cup NotedHeads) /\ count \in [Media -> Nat]

IInv ==
  /\ Playlist
  /\ \/ at = "read" /\ Reading
     \/ at = "mount" /\ Mounting
     \/ at = "mounted" /\ Mounting /\ pos = Len(entries)
     \/ at = "failed" /\ Failed

-----------------------------------------------------------------------------
(* Counting lines *)

\* S is a set of numbers of lines of a list of n.
LinesOf(S, n) == \A j \in S : j \in Nat /\ 1 <= j /\ j <= n

\* The lines of S up to line l are finitely many, and no more than l.
LEMMA NthTyped ==
  ASSUME NEW n \in Nat, NEW S, LinesOf(S, n), NEW l \in Nat
  PROVE  IsFiniteSet({j \in S : j <= l}) /\ Nth(S, l) \in Nat /\ Nth(S, l) <= l
<1>1. PICK front, T : front = 1..l /\ T = {j \in S : j <= l}
  OBVIOUS
<1>2. IsFiniteSet(front) /\ Cardinality(front) = l
  <2>1. 1 \in Int /\ l \in Int
    OBVIOUS
  <2>2. IsFiniteSet(1..l) /\ Cardinality(1..l) = IF 1 > l THEN 0 ELSE l - 1 + 1
    BY <2>1, FS_Interval, Zenon
  <2> QED
    BY <1>1, <2>2
<1>3. T \in SUBSET front
  <2>1. ASSUME NEW j \in T PROVE j \in front
    BY <1>1, <2>1 DEF LinesOf
  <2> QED
    BY <2>1
<1>4. IsFiniteSet(T) /\ Cardinality(T) <= Cardinality(front)
  BY <1>2, <1>3, FS_Subset, Zenon
<1>5. Cardinality(T) \in Nat
  BY <1>4, FS_CardinalityType, Zenon
<1> QED
  BY <1>1, <1>2, <1>4, <1>5 DEF Nth

\* None comes before the first line, and all of them up to the last one.
LEMMA NthEnds ==
  ASSUME NEW n \in Nat, NEW S, LinesOf(S, n)
  PROVE  Nth(S, 0) = 0 /\ Nth(S, n) = Cardinality(S) /\ IsFiniteSet(S)
<1>1. {j \in S : j <= 0} = {} /\ {j \in S : j <= n} = S
  BY DEF LinesOf
<1>2. Nth(S, 0) = Cardinality({}) /\ Nth(S, n) = Cardinality(S)
  BY <1>1, Zenon DEF Nth
<1>3. IsFiniteSet({j \in S : j <= n})
  BY NthTyped
<1> QED
  BY <1>1, <1>2, <1>3, FS_EmptySet, Zenon

\* One line further.
LEMMA NthStep ==
  ASSUME NEW n \in Nat, NEW S, LinesOf(S, n), NEW l \in Nat
  PROVE  Nth(S, l + 1) = IF l + 1 \in S THEN Nth(S, l) + 1 ELSE Nth(S, l)
<1>1. PICK T, U, k : T = {j \in S : j <= l} /\ U = {j \in S : j <= l + 1} /\ k = l + 1
  OBVIOUS
<1>2. IsFiniteSet(T)
  BY <1>1, NthTyped
<1>3. CASE k \in S
  <2>1. U = T \cup {k} /\ k \notin T
    <3>1. k \notin T /\ k \in U
      BY <1>1, <1>3
    <3>2. ASSUME NEW j PROVE j \in U <=> j \in T \/ j = k
      <4>1. j \in S => j \in Nat
        BY DEF LinesOf
      <4>2. j \in S /\ j <= k <=> (j \in S /\ j <= l) \/ j = k
        BY <1>1, <1>3, <4>1
      <4> QED
        BY <1>1, <4>2
    <3> QED
      BY <3>1, <3>2
  <2>2. Cardinality(T \cup {k}) = IF k \in T THEN Cardinality(T) ELSE Cardinality(T) + 1
    BY <1>2, FS_AddElement, Zenon
  <2> QED
    BY <1>1, <1>3, <2>1, <2>2 DEF Nth
<1>4. CASE k \notin S
  <2>1. U = T
    BY <1>1, <1>4 DEF LinesOf
  <2> QED
    BY <1>1, <1>4, <2>1 DEF Nth
<1> QED
  BY <1>3, <1>4

\* A later line of S has a higher number; where the number stays, no line of S is.
LEMMA NthGrows ==
  ASSUME NEW n \in Nat, NEW S, LinesOf(S, n), NEW i \in Nat, NEW l \in Nat, i <= l
  PROVE  /\ Nth(S, i) <= Nth(S, l)
         /\ (\E j \in S : i < j /\ j <= l) => Nth(S, i) < Nth(S, l)
         /\ (\A j \in S : ~(i < j /\ j <= l)) => Nth(S, i) = Nth(S, l)
<1>1. PICK T, U : T = {j \in S : j <= i} /\ U = {j \in S : j <= l}
  OBVIOUS
<1>2. T \in SUBSET U
  BY <1>1 DEF LinesOf
<1>3. IsFiniteSet(U) /\ Nth(S, i) \in Nat /\ Nth(S, l) \in Nat
  BY <1>1, NthTyped
<1>4. Cardinality(T) <= Cardinality(U) /\ (Cardinality(U) = Cardinality(T) => U = T)
  BY <1>2, <1>3, FS_Subset, Zenon
<1>5. Nth(S, i) = Cardinality(T) /\ Nth(S, l) = Cardinality(U)
  BY <1>1, Zenon DEF Nth
<1>6. ASSUME NEW j \in S, i < j, j <= l PROVE U # T
  <2>1. j \in U /\ j \notin T
    <3>1. j \in Nat
      BY DEF LinesOf
    <3>2. ~(j <= i)
      BY <1>6, <3>1
    <3> QED
      BY <1>1, <1>6, <3>2
  <2> QED
    BY <2>1
<1>7. ASSUME \A j \in S : ~(i < j /\ j <= l) PROVE U = T
  BY <1>1, <1>7 DEF LinesOf
<1> QED
  BY <1>3, <1>4, <1>5, <1>6, <1>7

\* Two lines of S with one number are the same line.
LEMMA NthTells ==
  ASSUME NEW n \in Nat, NEW S, LinesOf(S, n), NEW i \in S, NEW l \in S,
         Nth(S, i) = Nth(S, l)
  PROVE  i = l
<1>1. i \in Nat /\ l \in Nat /\ Nth(S, i) \in Nat
  BY NthTyped DEF LinesOf
<1>2. ASSUME i < l PROVE FALSE
  BY <1>1, <1>2, NthGrows
<1>3. ASSUME l < i PROVE FALSE
  BY <1>1, <1>3, NthGrows
<1> QED
  BY <1>1, <1>2, <1>3

-----------------------------------------------------------------------------
(* Lines, kinds and slots *)

\* The kinds of media.
LEMMA KindsOfMedia == \A e : kind_for_extension(e) \in Media \cup {"unknown"}
BY DEF kind_for_extension, Media

\* A line kept has an extension on it.
LEMMA KeptLine ==
  ASSUME Playlist, NEW l \in Kept
  PROVE  l \in 1..Len(lines) /\ cut(lines[l]) \in Extensions \cup NotedHeads
<1>1. l \in 1..Len(lines) /\ keeps(lines[l])
  BY DEF Kept
<1>2. lines[l] \in Lines
  BY <1>1 DEF Playlist
<1>3. PICK x : x = lines[l]
  OBVIOUS
<1>4. cut(x) \in Extensions \cup NotedHeads
  BY <1>1, <1>2, <1>3 DEF Lines, keeps, cut
<1> QED
  BY <1>1, <1>3, <1>4

\* The kinds divide the lines kept.
LEMMA Divided ==
  /\ Kept \subseteq 1..Len(lines)
  /\ \A k : Of(k) \subseteq Kept
  /\ \A k, i : Of(k) \cap Of(i) # {} => k = i
BY DEF Kept, Of

\* A slot belongs to one kind, at one place.
LEMMA SlotOf ==
  ASSUME NEW k \in Media, NEW i \in Nat
  PROVE  /\ slot_for_media(k, i) = NoSlot <=> i >= Capacity(k)
         /\ \A h \in Media, j \in Nat :
              slot_for_media(k, i) = slot_for_media(h, j) /\ slot_for_media(k, i) # NoSlot
                => k = h /\ i = j
         /\ slot_for_media(k, i) \in Slots \cup {NoSlot}
<1>1. ASSUME NEW h \in Media, NEW j \in Nat
      PROVE  slot_for_media(h, j) = IF h = "cdrom" THEN IF j = 0 THEN "cdrom" ELSE NoSlot
                                    ELSE IF h = "floppy"
                                    THEN IF j = 0 THEN "floppydisk1" ELSE IF j = 1 THEN "floppydisk2"
                                         ELSE IF j = 2 THEN "floppydisk3" ELSE IF j = 3 THEN "floppydisk4"
                                         ELSE NoSlot
                                    ELSE IF j = 0 THEN "harddisk1" ELSE IF j = 1 THEN "harddisk2"
                                         ELSE IF j = 2 THEN "harddisk3" ELSE IF j = 3 THEN "harddisk4"
                                         ELSE NoSlot
  <2>1. CASE j < 4
    <3>1. j \in {0, 1, 2, 3}
      BY <2>1
    <3>2. CASE h = "cdrom"
      BY <3>2 DEF slot_for_media
    <3>3. CASE h = "floppy"
      BY <3>1, <3>3 DEF slot_for_media
    <3>4. CASE h = "harddisk"
      BY <3>1, <3>4 DEF slot_for_media
    <3> QED
      BY <3>2, <3>3, <3>4 DEF Media
  <2>2. CASE j >= 4
    BY <2>2 DEF slot_for_media, Media
  <2> QED
    BY <2>1, <2>2
<1>2. slot_for_media(k, i) = NoSlot <=> i >= Capacity(k)
  BY <1>1 DEF Capacity, Media, NoSlot
<1>3. ASSUME NEW h \in Media, NEW j \in Nat,
             slot_for_media(k, i) = slot_for_media(h, j), slot_for_media(k, i) # NoSlot
      PROVE  k = h /\ i = j
  BY <1>1, <1>3 DEF Media, NoSlot
<1>4. slot_for_media(k, i) \in Slots \cup {NoSlot}
  <2>1. CASE i \in 0..3
    BY <2>1 DEF Slots
  <2>2. CASE i >= 4
    BY <1>1, <2>2 DEF Media
  <2> QED
    BY <2>1, <2>2
<1> QED
  BY <1>2, <1>3, <1>4

-----------------------------------------------------------------------------
(* Reading *)

\* The lines kept and those of a kind are numbers of lines of the playlist.
LEMMA Numbered ==
  ASSUME Playlist
  PROVE  /\ Len(lines) \in Nat /\ LinesOf(Kept, Len(lines))
         /\ \A k : LinesOf(Of(k), Len(lines)) /\ Of(k) \subseteq Kept
<1>1. Len(lines) \in Nat
  BY LenProperties DEF Playlist
<1> QED
  BY <1>1 DEF LinesOf, Kept, Of

\* Nothing is mounted yet.
LEMMA NoneMounted ==
  ASSUME Playlist, count = [k \in Media |-> 0], mounted = << >>
  PROVE  MountedTo(0)
<1>1. \A k \in Media : Nth(Of(k), 0) = 0
  BY Numbered, NthEnds
<1>2. count = [k \in Media |-> Nth(Of(k), 0)]
  BY <1>1
<1>3. DOMAIN mounted = {}
  OBVIOUS
<1>4. ASSUME NEW k \in Media PROVE Taken(k, Nth(Of(k), 0)) = {}
  <2>1. Taken(k, 0) = {}
    BY DEF Taken
  <2> QED
    BY <1>1, <2>1
<1>5. ASSUME NEW k \in Media, NEW l \in Of(k), l <= 0 PROVE FALSE
  BY <1>5, Numbered DEF LinesOf
<1> QED
  BY <1>2, <1>3, <1>4, <1>5 DEF MountedTo, Given

\* Nothing is read yet.
LEMMA InitIInv == Init => IInv
<1> SUFFICES ASSUME Init PROVE IInv
  OBVIOUS
<1>1. Playlist
  <2>1. PICK n \in 0..MaxLines : lines \in [1..n -> Lines]
    <3>1. CASE m3u
      BY <3>1 DEF Init
    <3>2. CASE ~m3u
      <4>1. 1 \in 0..MaxLines
        BY LinesAssumption
      <4>2. lines \in [1..1 -> [form : {"path"}, ext : Extensions]]
        BY <3>2 DEF Init
      <4>3. [form : {"path"}, ext : Extensions] \subseteq Lines
        BY DEF Lines
      <4>4. lines \in [1..1 -> Lines]
        BY <4>2, <4>3
      <4> QED
        BY <4>1, <4>4
    <3> QED
      BY <3>1, <3>2 DEF Init
  <2>2. n \in Nat /\ n <= MaxLines
    BY LinesAssumption
  <2>3. lines \in Seq(Lines) /\ Len(lines) = n
    BY <2>1, <2>2
  <2> QED
    BY <2>2, <2>3 DEF Init, Playlist
<1>2. MountedTo(0)
  BY <1>1, NoneMounted DEF Init
<1>3. ReadTo(0)
  <2>1. Nth(Kept, 0) = 0
    BY <1>1, Numbered, NthEnds
  <2>2. entries = << >> /\ entries \in Seq(Extensions \cup NotedHeads) /\ Len(entries) = 0
    BY DEF Init
  <2>3. ASSUME NEW l \in Kept, l <= 0 PROVE FALSE
    BY <1>1, <2>3, Numbered DEF LinesOf
  <2> QED
    BY <2>1, <2>2, <2>3 DEF ReadTo
<1> QED
  BY <1>1, <1>2, <1>3, Numbered DEF Init, IInv, Reading

\* A line kept is the next entry.
LEMMA LineRead ==
  ASSUME Playlist, NEW r \in Nat, r < Len(lines), ReadTo(r),
         entries' = IF keeps(lines[r + 1]) THEN Append(entries, cut(lines[r + 1])) ELSE entries,
         lines' = lines
  PROVE  ReadTo(r + 1)'
<1>1. PICK q, n, x : q = r + 1 /\ n = Len(entries) /\ x = cut(lines[q])
  OBVIOUS
<1>2. /\ entries \in Seq(Extensions \cup NotedHeads) /\ n = Nth(Kept, r) /\ n \in Nat
      /\ \A l \in Kept : l <= r => entries[Nth(Kept, l)] = cut(lines[l])
      /\ \A e \in 1..n : \E l \in Kept : l <= r /\ Nth(Kept, l) = e
  BY <1>1, LenProperties DEF ReadTo
<1>3. Kept' = Kept
  BY DEF Kept
<1>4. q \in Nat /\ (q \in Kept <=> keeps(lines[q]))
  BY <1>1, Numbered DEF Kept
<1>5. Nth(Kept, q) = IF q \in Kept THEN n + 1 ELSE n
  BY <1>1, <1>2, Numbered, NthStep
<1>6. \A l \in Kept : l \in Nat /\ (l <= q <=> l <= r \/ l = q)
  BY <1>1, Numbered DEF LinesOf
<1>7. \A l \in Kept : l <= r => Nth(Kept, l) \in 1..n
  <2>1. ASSUME NEW l \in Kept, l <= r PROVE Nth(Kept, l) \in 1..n
    <3>1. l \in Nat /\ 0 < l
      BY Numbered DEF LinesOf
    <3>2. Nth(Kept, l) \in Nat /\ Nth(Kept, l) <= Nth(Kept, r) /\ Nth(Kept, 0) = 0
      BY <2>1, <3>1, Numbered, NthTyped, NthGrows, NthEnds
    <3>3. Nth(Kept, 0) < Nth(Kept, l)
      BY <3>1, Numbered, NthGrows
    <3> QED
      BY <1>2, <3>2, <3>3
  <2> QED
    BY <2>1
<1>8. CASE q \notin Kept
  <2>1. entries' = entries
    BY <1>1, <1>4, <1>8
  <2>2. \A l \in Kept : l <= q <=> l <= r
    BY <1>6, <1>8
  <2> QED
    BY <1>1, <1>2, <1>3, <1>5, <1>8, <2>1, <2>2 DEF ReadTo, Nth
<1>9. CASE q \in Kept
  <2>1. x \in Extensions \cup NotedHeads
    BY <1>1, <1>9, KeptLine
  <2>2. entries' = Append(entries, x)
    BY <1>1, <1>4, <1>9
  <2>3. /\ entries' \in Seq(Extensions \cup NotedHeads) /\ Len(entries') = n + 1
        /\ entries'[n + 1] = x /\ \A e \in 1..n : entries'[e] = entries[e]
    <3>1. PICK E : E = Extensions \cup NotedHeads
      OBVIOUS
    <3>2. PICK f : f = Append(entries, x)
      OBVIOUS
    <3>3. /\ f \in Seq(E) /\ Len(f) = Len(entries) + 1
          /\ \A i \in 1..Len(entries) : f[i] = entries[i]
          /\ f[Len(entries) + 1] = x
      <4>1. entries \in Seq(E) /\ x \in E
        BY <1>2, <2>1, <3>1, Zenon
      <4>2. /\ Append(entries, x) \in Seq(E) /\ Len(Append(entries, x)) = Len(entries) + 1
            /\ \A i \in 1..Len(entries) : Append(entries, x)[i] = entries[i]
            /\ Append(entries, x)[Len(entries) + 1] = x
        BY <4>1, AppendProperties
      <4> QED
        BY <3>2, <4>2, Zenon
    <3> QED
      BY <1>1, <2>2, <3>1, <3>2, <3>3, Zenon
  <2>4. ASSUME NEW l \in Kept, l <= q PROVE entries'[Nth(Kept, l)] = cut(lines[l])
    BY <1>1, <1>2, <1>5, <1>6, <1>7, <1>9, <2>3, <2>4
  <2>5. ASSUME NEW e \in 1..(n + 1) PROVE \E l \in Kept : l <= q /\ Nth(Kept, l) = e
    <3>1. CASE e = n + 1
      BY <1>4, <1>5, <1>9, <3>1
    <3>2. CASE e \in 1..n
      BY <1>2, <1>6, <3>2
    <3> QED
      BY <1>2, <3>1, <3>2
  <2>6. \A l : Nth(Kept, l)' = Nth(Kept, l)
    BY <1>3 DEF Nth
  <2> QED
    BY <1>1, <1>3, <1>5, <1>9, <2>3, <2>4, <2>5, <2>6 DEF ReadTo
<1> QED
  BY <1>8, <1>9

-----------------------------------------------------------------------------
(* Mounting *)

\* Where no line is kept, none of a kind is.
LEMMA SameLines ==
  ASSUME Playlist, NEW i \in Nat, NEW l \in Nat, i <= l, Nth(Kept, i) = Nth(Kept, l)
  PROVE  \A k : Nth(Of(k), i) = Nth(Of(k), l)
<1>1. \A j \in Kept : ~(i < j /\ j <= l)
  <2>1. ASSUME NEW j \in Kept, i < j, j <= l PROVE FALSE
    <3>1. Nth(Kept, i) < Nth(Kept, l)
      BY <2>1, Numbered, NthGrows
    <3>2. Nth(Kept, l) \in Nat
      BY Numbered, NthTyped
    <3> QED
      BY <3>1, <3>2
  <2> QED
    BY <2>1
<1>2. TAKE k
<1>3. \A j \in Of(k) : ~(i < j /\ j <= l)
  BY <1>1, Numbered
<1> QED
  BY <1>3, Numbered, NthGrows

\* The line of the next entry, after the entries up to line r.
LEMMA NextLine ==
  ASSUME Playlist, ReadTo(Len(lines)), NEW r \in 0..Len(lines), Nth(Kept, r) = pos,
         pos < Len(entries)
  PROVE  \E l \in Kept :
           /\ r < l /\ l <= Len(lines) /\ Nth(Kept, l) = pos + 1
           /\ entries[pos + 1] = cut(lines[l])
           /\ \A k : Nth(Of(k), l) = IF l \in Of(k) THEN Nth(Of(k), r) + 1 ELSE Nth(Of(k), r)
           /\ \A j \in Kept : j <= l <=> j <= r \/ j = l
<1>1. PICK n, e : n = Len(entries) /\ e = pos + 1
  OBVIOUS
<1>2. r \in Nat /\ pos \in Nat /\ n \in Nat /\ n = Nth(Kept, Len(lines)) /\ e \in 1..n
  <2>1. r \in Nat /\ pos \in Nat
    <3>1. r \in Nat
      BY Numbered
    <3>2. Nth(Kept, r) \in Nat
      BY <3>1, Numbered, NthTyped
    <3> QED
      BY <3>1, <3>2
  <2>2. n \in Nat /\ n = Nth(Kept, Len(lines))
    BY <1>1, Numbered, NthTyped DEF ReadTo
  <2> QED
    BY <1>1, <2>1, <2>2
<1>3. PICK l \in Kept : l <= Len(lines) /\ Nth(Kept, l) = e
  BY <1>1, <1>2 DEF ReadTo
<1>4. l \in Nat /\ 0 < l
  BY Numbered DEF LinesOf
<1>5. r < l
  <2>1. ASSUME l <= r PROVE FALSE
    <3>1. Nth(Kept, l) <= Nth(Kept, r)
      BY <1>2, <1>4, <2>1, Numbered, NthGrows
    <3> QED
      BY <1>1, <1>2, <1>3, <3>1
  <2> QED
    BY <1>2, <1>4, <2>1
<1>6. PICK b : b = l - 1
  OBVIOUS
<1>7. b \in Nat /\ r <= b /\ l = b + 1
  BY <1>2, <1>4, <1>5, <1>6
<1>8. Nth(Kept, b) = pos
  <2>1. Nth(Kept, l) = Nth(Kept, b) + 1 /\ Nth(Kept, b) \in Nat
    BY <1>7, Numbered, NthStep, NthTyped
  <2> QED
    BY <1>1, <1>2, <1>3, <2>1
<1>9. \A k : Nth(Of(k), r) = Nth(Of(k), b)
  BY <1>2, <1>7, <1>8, SameLines
<1>10. \A k : Nth(Of(k), l) = IF l \in Of(k) THEN Nth(Of(k), r) + 1 ELSE Nth(Of(k), r)
  <2>1. TAKE k
  <2>2. LinesOf(Of(k), Len(lines)) /\ Len(lines) \in Nat
    BY Numbered
  <2>3. Nth(Of(k), b + 1) = IF b + 1 \in Of(k) THEN Nth(Of(k), b) + 1 ELSE Nth(Of(k), b)
    BY <1>7, <2>2, NthStep
  <2> QED
    BY <1>7, <1>9, <2>3
<1>11. entries[e] = cut(lines[l])
  BY <1>3 DEF ReadTo
<1>12. \A j \in Kept : j <= l <=> j <= r \/ j = l
  <2>1. ASSUME NEW j \in Kept, r < j, j <= b PROVE FALSE
    <3>1. Nth(Kept, r) < Nth(Kept, b)
      BY <1>2, <1>7, <2>1, Numbered, NthGrows
    <3> QED
      BY <1>2, <1>8, <3>1
  <2>2. \A j \in Kept : j \in Nat
    BY Numbered DEF LinesOf
  <2> QED
    BY <1>2, <1>4, <1>5, <1>7, <2>1, <2>2
<1> QED
  BY <1>1, <1>3, <1>5, <1>10, <1>11, <1>12

\* The places of the lines of a kind up to line l are below their number.
LEMMA Place ==
  ASSUME Playlist, NEW k, NEW l \in Of(k), NEW r \in Nat, l <= r
  PROVE  /\ l \in Nat /\ l \in Kept /\ Nth(Of(k), l) \in Nat /\ Nth(Of(k), r) \in Nat
         /\ 1 <= Nth(Of(k), l) /\ Nth(Of(k), l) <= Nth(Of(k), r)
         /\ Nth(Of(k), l) - 1 \in 0..(Nth(Of(k), r) - 1)
<1>1. l \in Nat /\ 0 < l /\ l \in Kept
  BY Numbered DEF LinesOf
<1>2. Nth(Of(k), l) \in Nat /\ Nth(Of(k), r) \in Nat /\ Nth(Of(k), 0) = 0
  BY <1>1, Numbered, NthTyped, NthEnds
<1>3. Nth(Of(k), 0) < Nth(Of(k), l) /\ Nth(Of(k), l) <= Nth(Of(k), r)
  BY <1>1, Numbered, NthGrows
<1> QED
  BY <1>1, <1>2, <1>3

\* What n entries of a kind take: its first n slots, as far as there are so many.
LEMMA TakenIs ==
  ASSUME NEW k, NEW n \in Nat, NEW s
  PROVE  s \in Taken(k, n) <=> s # NoSlot /\ \E i \in Nat : i < n /\ s = slot_for_media(k, i)
<1>1. \A i : i \in 0..(n - 1) <=> i \in Nat /\ i < n
  OBVIOUS
<1> QED
  BY <1>1 DEF Taken

\* The list and the model stay: so does what is said of them.
LEMMA SameList ==
  ASSUME lines' = lines, model' = model
  PROVE  /\ Playlist /\ m3u' = m3u => Playlist'
         /\ Kept' = Kept /\ \A k : Of(k)' = Of(k)
         /\ \A S, l : Nth(S, l)' = Nth(S, l)
         /\ \A r : Given(count', mounted', r) => MountedTo(r)'
         /\ entries' = entries => \A r : ReadTo(r) => ReadTo(r)'
         /\ ~Succeeds => ~Succeeds'
<1>1. Kept' = Kept
  BY DEF Kept
<1>2. \A k : Of(k)' = Of(k)
  BY <1>1 DEF Of
<1>3. \A r : Given(count', mounted', r) => MountedTo(r)'
  BY <1>1, <1>2 DEF MountedTo, Given, Nth
<1>4. entries' = entries => \A r : ReadTo(r) => ReadTo(r)'
  BY <1>1 DEF ReadTo, Nth
<1>5. ~Succeeds => ~Succeeds'
  BY <1>1, <1>2 DEF Succeeds, Wanted
<1>6. Playlist /\ m3u' = m3u => Playlist'
  BY DEF Playlist
<1> QED
  BY <1>1, <1>2, <1>3, <1>4, <1>5, <1>6 DEF Nth

\* An entry that no slot is left for, or of no kind, mounts nothing.
LEMMA Skipped ==
  ASSUME Playlist, NEW r \in Nat, MountedTo(r), NEW l \in Kept, NEW c,
         c = [k \in Media |-> Nth(Of(k), l)],
         \A k \in Media : l \in Of(k) => Nth(Of(k), l) > Capacity(k),
         \A k : Nth(Of(k), l) = IF l \in Of(k) THEN Nth(Of(k), r) + 1 ELSE Nth(Of(k), r),
         \A j \in Kept : j <= l <=> j <= r \/ j = l
  PROVE  Given(c, mounted, l)
<1>1. \A k : Of(k) \subseteq Kept
  BY Numbered
<1>2. ASSUME NEW k \in Media PROVE Taken(k, Nth(Of(k), l)) = Taken(k, Nth(Of(k), r))
  <2>1. PICK n : n = Nth(Of(k), r)
    OBVIOUS
  <2>2. n \in Nat
    BY <2>1, Numbered, NthTyped
  <2>3. CASE l \notin Of(k)
    BY <2>3
  <2>4. CASE l \in Of(k)
    <3>1. Nth(Of(k), l) = n + 1 /\ n >= Capacity(k)
      <4>1. Nth(Of(k), l) = n + 1 /\ Nth(Of(k), l) > Capacity(k) /\ Capacity(k) \in Nat
        BY <2>1, <2>4 DEF Capacity
      <4> QED
        BY <2>2, <4>1
    <3>2. slot_for_media(k, n) = NoSlot
      BY <2>2, <3>1, SlotOf
    <3>3. \A i \in Nat : i < n + 1 <=> i < n \/ i = n
      BY <2>2
    <3>4. \A s : s \in Taken(k, n + 1) <=> s \in Taken(k, n)
      <4>1. n + 1 \in Nat
        BY <2>2
      <4> QED
        BY <2>2, <3>2, <3>3, <4>1, TakenIs
    <3> QED
      BY <2>1, <3>1, <3>4
  <2> QED
    BY <2>3, <2>4
<1>3. DOMAIN mounted = UNION {Taken(k, Nth(Of(k), l)) : k \in Media}
  BY <1>2 DEF MountedTo, Given
<1>4. ASSUME NEW k \in Media, NEW j \in Of(k), j <= l, Nth(Of(k), j) <= Capacity(k)
      PROVE  j <= r
  <2>1. j # l
    <3>1. ASSUME j = l PROVE FALSE
      <4>1. Nth(Of(k), l) > Capacity(k) /\ Capacity(k) \in Nat /\ Nth(Of(k), l) \in Nat
        <5>1. l \in Nat
          BY Numbered DEF LinesOf
        <5>2. Nth(Of(k), l) \in Nat
          BY <5>1, Numbered, NthTyped
        <5> QED
          BY <3>1, <5>2 DEF Capacity
      <4> QED
        BY <1>4, <3>1, <4>1
    <3> QED
      BY <3>1
  <2> QED
    BY <1>1, <1>4, <2>1
<1> QED
  BY <1>3, <1>4 DEF MountedTo, Given

\* An entry that has a slot of the model is mounted there, and displaces none.
LEMMA Placed ==
  ASSUME Playlist, NEW r \in Nat, MountedTo(r), NEW l \in Kept, NEW kind \in Media, l \in Of(kind),
         NEW c, c = [k \in Media |-> Nth(Of(k), l)],
         NEW slot, slot = slot_for_media(kind, Nth(Of(kind), r)),
         slot # NoSlot, slot \in Offers[model],
         NEW m, m = [s \in DOMAIN mounted \cup {slot} |->
                       IF s = slot THEN Nth(Kept, l) ELSE mounted[s]],
         \A k : Nth(Of(k), l) = IF l \in Of(k) THEN Nth(Of(k), r) + 1 ELSE Nth(Of(k), r),
         \A j \in Kept : j <= l <=> j <= r \/ j = l
  PROVE  Given(c, m, l)
<1>1. PICK n : n = Nth(Of(kind), r)
  OBVIOUS
<1>2. n \in Nat /\ Nth(Of(kind), l) = n + 1
  <2>1. Nth(Of(kind), r) \in Nat
    BY Numbered, NthTyped
  <2> QED
    BY <1>1, <2>1
<1>3. \A k \in Media : k # kind => l \notin Of(k) /\ Nth(Of(k), l) = Nth(Of(k), r)
  BY Divided
<1>4. \A s : s \in Taken(kind, n + 1) <=> s \in Taken(kind, n) \/ s = slot
  <2>1. \A i \in Nat : i < n + 1 <=> i < n \/ i = n
    BY <1>2
  <2>2. n + 1 \in Nat
    BY <1>2
  <2> QED
    BY <1>1, <1>2, <2>1, <2>2, TakenIs
<1>5. DOMAIN m = DOMAIN mounted \cup {slot} /\ DOMAIN m \subseteq Offers[model]
  BY DEF MountedTo, Given
<1>6. DOMAIN m = UNION {Taken(k, Nth(Of(k), l)) : k \in Media}
  <2>1. DOMAIN mounted = UNION {Taken(k, Nth(Of(k), r)) : k \in Media}
    BY DEF MountedTo, Given
  <2>2. ASSUME NEW s PROVE s \in DOMAIN m <=> \E k \in Media : s \in Taken(k, Nth(Of(k), l))
    BY <1>1, <1>2, <1>3, <1>4, <1>5, <2>1
  <2> QED
    BY <2>2
<1>7. ASSUME NEW k \in Media, NEW j \in Of(k), j <= l, Nth(Of(k), j) <= Capacity(k)
      PROVE  m[slot_for_media(k, Nth(Of(k), j) - 1)] = Nth(Kept, j)
  <2>1. j \in Kept
    BY Numbered
  <2>2. CASE j = l
    <3>1. k = kind
      BY <2>2, Divided
    <3>2. Nth(Of(k), j) - 1 = n
      BY <1>2, <2>2, <3>1
    <3> QED
      BY <1>1, <1>5, <2>2, <3>1, <3>2
  <2>3. CASE j <= r
    <3>1. PICK i : i = Nth(Of(k), j) - 1
      OBVIOUS
    <3>2. i \in Nat /\ i < Nth(Of(k), r) /\ i < Capacity(k) /\ Nth(Of(k), r) \in Nat
      <4>1. /\ Nth(Of(k), j) \in Nat /\ Nth(Of(k), r) \in Nat
            /\ 1 <= Nth(Of(k), j) /\ Nth(Of(k), j) <= Nth(Of(k), r)
        BY <2>3, Place
      <4>2. Capacity(k) \in Nat
        BY DEF Capacity
      <4> QED
        BY <1>7, <3>1, <4>1, <4>2
    <3>3. PICK t : t = slot_for_media(k, i)
      OBVIOUS
    <3>4. t # NoSlot
      <4>1. ~(i >= Capacity(k))
        BY <3>2 DEF Capacity
      <4> QED
        BY <3>2, <3>3, <4>1, SlotOf
    <3>5. t # slot
      <4>1. ASSUME t = slot PROVE FALSE
        <5>1. k = kind /\ i = n
          <6>1. slot_for_media(k, i) = slot_for_media(kind, n) /\ slot_for_media(k, i) # NoSlot
            BY <1>1, <3>3, <3>4, <4>1
          <6>2. k \in Media /\ i \in Nat /\ kind \in Media /\ n \in Nat
            BY <1>2, <3>2
          <6> QED
            BY <6>1, <6>2, SlotOf, Zenon
        <5> QED
          BY <1>1, <1>2, <3>2, <5>1
      <4> QED
        BY <4>1
    <3>6. t \in DOMAIN mounted
      <4>1. t \in Taken(k, Nth(Of(k), r))
        BY <3>2, <3>3, <3>4, TakenIs
      <4> QED
        BY <4>1 DEF MountedTo, Given
    <3>7. mounted[t] = Nth(Kept, j)
      BY <1>7, <2>3, <3>1, <3>3 DEF MountedTo, Given
    <3>8. m[t] = mounted[t]
      BY <3>5, <3>6
    <3> QED
      BY <3>1, <3>3, <3>7, <3>8
  <2> QED
    BY <1>7, <2>1, <2>2, <2>3
<1> QED
  BY <1>5, <1>6, <1>7 DEF Given

\* Nothing is left of a start that failed.
LEMMA LeftNothing ==
  ASSUME Playlist, ReadTo(Len(lines)),
         UNCHANGED <<model, m3u, lines, entries>>,
         at' = "failed", ~Succeeds, mounted' = << >>, pos' \in 0..Len(entries),
         count' \in [Media -> Nat]
  PROVE  IInv'
<1>1. Len(entries) \in Nat /\ Len(entries) <= MaxLines
  <2>1. Len(entries) = Nth(Kept, Len(lines)) /\ Len(lines) \in Nat /\ Len(lines) <= MaxLines
    BY Numbered DEF ReadTo, Playlist
  <2>2. Nth(Kept, Len(lines)) \in Nat /\ Nth(Kept, Len(lines)) <= Len(lines)
    BY Numbered, NthTyped
  <2> QED
    BY <2>1, <2>2, LinesAssumption
<1>2. pos' \in 0..MaxLines
  BY <1>1, LinesAssumption
<1>3. Playlist' /\ ~Succeeds'
  BY SameList
<1> QED
  BY <1>2, <1>3 DEF IInv, Failed, ReadTo

\* The next entry is mounted, skipped, or ends the start.
LEMMA MountKeeps ==
  ASSUME IInv, mount_content_entry
  PROVE  IInv'
<1>1. /\ at = "mount" /\ pos < Len(entries) /\ pos' = pos + 1
      /\ UNCHANGED <<model, m3u, lines, entries>>
  BY DEF mount_content_entry
<1>2. Playlist /\ Kept # {} /\ ReadTo(Len(lines))
  BY <1>1 DEF IInv, Mounting
<1>3. PICK r \in 0..Len(lines) : Nth(Kept, r) = pos /\ MountedTo(r)
  BY <1>1 DEF IInv, Mounting
<1>4. PICK l \in Kept :
        /\ r < l /\ l <= Len(lines) /\ Nth(Kept, l) = pos + 1
        /\ entries[pos + 1] = cut(lines[l])
        /\ \A k : Nth(Of(k), l) = IF l \in Of(k) THEN Nth(Of(k), r) + 1 ELSE Nth(Of(k), r)
        /\ \A j \in Kept : j <= l <=> j <= r \/ j = l
  BY <1>1, <1>2, <1>3, NextLine
<1>5. /\ r \in Nat /\ l \in Nat /\ l \in 0..Len(lines) /\ Len(lines) \in Nat
      /\ \A k : Nth(Of(k), r) \in Nat /\ Nth(Of(k), l) \in Nat
  <2>1. r \in Nat /\ l \in Nat /\ l \in 0..Len(lines) /\ Len(lines) \in Nat
    BY <1>2, <1>4, Numbered DEF LinesOf
  <2> QED
    BY <1>2, <2>1, Numbered, NthTyped
<1>6. PICK kind : kind = kind_for_extension(entries[pos + 1])
  OBVIOUS
<1>7. \A k : l \in Of(k) <=> k = kind
  BY <1>4, <1>6 DEF Of
<1>8. count = [k \in Media |-> Nth(Of(k), r)]
  BY <1>3 DEF MountedTo, Given
<1>9. ASSUME Given(count', mounted', l), at' = "mount" PROVE IInv'
  <2>1. Playlist' /\ Kept' # {} /\ ReadTo(Len(lines))' /\ MountedTo(l)' /\ Nth(Kept, l)' = pos'
    BY <1>1, <1>2, <1>4, <1>9, SameList
  <2>2. l \in 0..Len(lines)'
    BY <1>1, <1>5
  <2> QED
    BY <1>9, <2>1, <2>2 DEF IInv, Mounting
<1>10. CASE kind = "unknown"
  <2>1. UNCHANGED <<at, count, mounted>>
    BY <1>6, <1>10 DEF mount_content_entry
  <2>2. \A k \in Media : l \notin Of(k)
    BY <1>7, <1>10 DEF Media
  <2>3. count = [k \in Media |-> Nth(Of(k), l)]
    BY <1>4, <1>8, <2>2
  <2>4. Given(count, mounted, l)
    BY <1>2, <1>3, <1>4, <1>5, <2>2, <2>3, Skipped
  <2> QED
    BY <1>1, <1>9, <2>1, <2>4
<1>11. CASE kind # "unknown"
  <2>1. kind \in Media /\ l \in Of(kind)
    BY <1>6, <1>7, <1>11, KindsOfMedia
  <2>2. PICK n, slot : n = count[kind] /\ slot = slot_for_media(kind, n)
    OBVIOUS
  <2>3. n = Nth(Of(kind), r) /\ n \in Nat /\ Nth(Of(kind), l) = n + 1
    BY <1>4, <1>5, <1>8, <2>1, <2>2
  <2>4. /\ count' = [count EXCEPT ![kind] = @ + 1]
        /\ \/ slot = NoSlot /\ UNCHANGED <<at, mounted>>
           \/ slot \in Offers[model] /\ UNCHANGED at
                 /\ mounted' = [s \in DOMAIN mounted \cup {slot} |->
                                  IF s = slot THEN pos + 1 ELSE mounted[s]]
           \/ slot \notin Offers[model] \cup {NoSlot} /\ at' = "failed" /\ mounted' = << >>
    BY <1>6, <1>11, <2>2, Zenon DEF mount_content_entry
  <2>5. count' = [k \in Media |-> Nth(Of(k), l)]
    <3>1. \A k \in Media : k # kind => Nth(Of(k), l) = Nth(Of(k), r)
      BY <1>4, <1>7
    <3> QED
      BY <1>8, <2>1, <2>3, <2>4, <3>1
  <2>6. CASE slot = NoSlot /\ UNCHANGED <<at, mounted>>
    <3>1. n >= Capacity(kind)
      BY <2>1, <2>2, <2>3, <2>6, SlotOf
    <3>2. \A k \in Media : l \in Of(k) => Nth(Of(k), l) > Capacity(k)
      <4>1. Nth(Of(kind), l) > Capacity(kind)
        BY <2>3, <3>1 DEF Capacity
      <4> QED
        BY <1>7, <4>1
    <3>3. Given(count', mounted, l)
      BY <1>2, <1>3, <1>4, <1>5, <2>5, <3>2, Skipped
    <3> QED
      BY <1>1, <1>9, <2>6, <3>3
  <2>7. CASE /\ slot # NoSlot /\ slot \in Offers[model] /\ UNCHANGED at
             /\ mounted' = [s \in DOMAIN mounted \cup {slot} |->
                              IF s = slot THEN pos + 1 ELSE mounted[s]]
    <3>1. Given(count', mounted', l)
      BY <1>2, <1>3, <1>4, <1>5, <2>1, <2>2, <2>3, <2>5, <2>7, Placed
    <3> QED
      BY <1>1, <1>9, <2>7, <3>1
  <2>8. CASE slot \notin Offers[model] \cup {NoSlot} /\ at' = "failed" /\ mounted' = << >>
    <3>1. slot \in Wanted(kind)
      <4>1. Nth(Of(kind), l) <= Cardinality(Of(kind)) /\ Cardinality(Of(kind)) \in Nat
        <5>1. LinesOf(Of(kind), Len(lines))
          BY <1>2, Numbered
        <5>2. Nth(Of(kind), Len(lines)) = Cardinality(Of(kind)) /\ IsFiniteSet(Of(kind))
          BY <1>5, <5>1, NthEnds
        <5>3. Nth(Of(kind), l) <= Nth(Of(kind), Len(lines))
          BY <1>4, <1>5, <5>1, NthGrows
        <5> QED
          BY <5>2, <5>3, FS_CardinalityType
      <4>2. n \in 0..(Cardinality(Of(kind)) - 1)
        BY <2>3, <4>1
      <4> QED
        BY <2>2, <2>8, <4>2 DEF Wanted
    <3>2. ~Succeeds
      BY <2>1, <2>8, <3>1 DEF Succeeds
    <3>3. count' \in [Media -> Nat]
      BY <1>5, <2>5
    <3>4. pos' \in 0..Len(entries)
      <4>1. Nth(Kept, r) \in Nat /\ Len(entries) \in Nat
        <5>1. Nth(Kept, r) \in Nat /\ Nth(Kept, Len(lines)) \in Nat
          BY <1>2, <1>5, Numbered, NthTyped
        <5> QED
          BY <1>2, <5>1 DEF ReadTo
      <4> QED
        BY <1>1, <1>3, <4>1
    <3> QED
      BY <1>1, <1>2, <1>3, <2>8, <3>2, <3>3, <3>4, LeftNothing, <1>5, <1>8
  <2>9. NoSlot \notin Offers[model]
    BY <1>2, OffersAssumption DEF Playlist
  <2> QED
    BY <2>4, <2>6, <2>7, <2>8, <2>9
<1> QED
  BY <1>10, <1>11

\* Nothing changes while the playlist is read, or after an entry is mounted.
LEMMA ReadingStays ==
  ASSUME Playlist, Reading, UNCHANGED <<model, m3u, lines, pos, entries, count, mounted>>
  PROVE  Reading'
<1>1. PICK r : r = pos
  OBVIOUS
<1>2. r \in 0..Len(lines) /\ ReadTo(r) /\ mounted = << >> /\ MountedTo(0)
  BY <1>1 DEF Reading
<1>3. ReadTo(r)' /\ MountedTo(0)'
  BY <1>2, SameList DEF MountedTo
<1>4. pos' = r /\ r \in 0..Len(lines') /\ mounted' = << >>
  BY <1>1, <1>2
<1> QED
  BY <1>3, <1>4 DEF Reading

\* The same, once the playlist is read.
LEMMA MountingStays ==
  ASSUME Playlist, Mounting, UNCHANGED <<model, m3u, lines, pos, entries, count, mounted>>
  PROVE  Playlist' /\ Mounting'
<1>1. PICK r \in 0..Len(lines) : Nth(Kept, r) = pos /\ MountedTo(r)
  BY DEF Mounting
<1>2. PICK n : n = Len(lines)
  OBVIOUS
<1>3. Kept # {} /\ ReadTo(n)
  BY <1>2 DEF Mounting
<1>4. Playlist' /\ Kept' # {} /\ ReadTo(n)' /\ MountedTo(r)' /\ Nth(Kept, r)' = pos'
  BY <1>1, <1>3, SameList DEF MountedTo
<1>5. n = Len(lines') /\ r \in 0..Len(lines')
  BY <1>1, <1>2
<1> QED
  BY <1>4, <1>5 DEF Mounting

\* Every step of a start keeps it.
LEMMA NextIInv == IInv /\ [Next]_vars => IInv'
<1> SUFFICES ASSUME IInv, [Next]_vars PROVE IInv'
  OBVIOUS
<1>1. Playlist
  BY DEF IInv
<1>2. CASE read_line
  <2>1. PICK r, q : r = pos /\ q = r + 1
    OBVIOUS
  <2>2. /\ at = "read" /\ r < Len(lines) /\ pos' = q
        /\ entries' = IF keeps(lines[r + 1]) THEN Append(entries, cut(lines[r + 1])) ELSE entries
        /\ UNCHANGED <<model, m3u, lines, at, count, mounted>>
    BY <1>2, <2>1 DEF read_line
  <2>3. r \in 0..Len(lines) /\ ReadTo(r) /\ MountedTo(0) /\ mounted = << >>
    BY <2>1, <2>2 DEF IInv, Reading
  <2>4. Len(lines) \in Nat /\ r \in Nat /\ q \in 0..Len(lines)
    BY <1>1, <2>1, <2>2, <2>3, Numbered
  <2>5. ReadTo(q)'
    <3>1. ReadTo(r + 1)'
      BY <1>1, <2>2, <2>3, <2>4, LineRead
    <3> QED
      BY <2>1, <3>1, Zenon
  <2>6. MountedTo(0)' /\ Playlist'
    BY <1>1, <2>2, <2>3, SameList DEF MountedTo
  <2>7. Reading'
    BY <2>2, <2>3, <2>4, <2>5, <2>6 DEF Reading
  <2> QED
    BY <2>2, <2>6, <2>7 DEF IInv
<1>3. CASE read_done
  <2>1. /\ at = "read" /\ pos = Len(lines) /\ pos' = 0
        /\ at' = IF entries = <<>> THEN "failed" ELSE "mount"
        /\ UNCHANGED <<model, m3u, lines, entries, count, mounted>>
    BY <1>3 DEF read_done
  <2>2. ReadTo(Len(lines)) /\ MountedTo(0)
    BY <2>1 DEF IInv, Reading
  <2>3. /\ Len(lines) \in Nat /\ Nth(Kept, 0) = 0 /\ Nth(Kept, Len(lines)) = Cardinality(Kept)
        /\ IsFiniteSet(Kept)
    BY <1>1, Numbered, NthEnds
  <2>4. Len(entries) = Cardinality(Kept) /\ entries \in Seq(Extensions \cup NotedHeads)
    BY <2>2, <2>3 DEF ReadTo
  <2>5. Cardinality(Kept) = 0 <=> Kept = {}
    BY <2>3, FS_EmptySet, Zenon
  <2>6. Cardinality(Kept) \in Nat
    BY <2>3, FS_CardinalityType, Zenon
  <2>7. entries = <<>> <=> Len(entries) = 0
    BY <2>4, EmptySeq
  <2>8. CASE entries = <<>>
    <3>1. ~Succeeds
      BY <2>4, <2>5, <2>7, <2>8 DEF Succeeds
    <3>2. mounted = << >> /\ count \in [Media -> Nat]
      <4>1. count = [k \in Media |-> Nth(Of(k), 0)]
        BY <2>2 DEF MountedTo, Given
      <4>2. \A k : Nth(Of(k), 0) \in Nat
        BY <1>1, Numbered, NthTyped
      <4>3. count \in [Media -> Nat]
        BY <4>1, <4>2
      <4> QED
        BY <4>3, <2>1 DEF IInv, Reading
    <3>3. pos' \in 0..Len(entries)
      BY <2>1, <2>4, <2>6
    <3> QED
      BY <1>1, <2>1, <2>2, <2>8, <3>1, <3>2, <3>3, LeftNothing
  <2>9. CASE entries # <<>>
    <3>1. Kept # {} /\ at' = "mount"
      BY <2>1, <2>4, <2>5, <2>7, <2>9
    <3>2. Playlist' /\ Kept' # {} /\ ReadTo(Len(lines))' /\ MountedTo(0)' /\ Nth(Kept, 0)' = pos'
      BY <1>1, <2>1, <2>2, <2>3, <3>1, SameList DEF MountedTo
    <3>3. 0 \in 0..Len(lines')
      BY <2>1, <2>3
    <3> QED
      BY <3>1, <3>2, <3>3 DEF IInv, Mounting
  <2> QED
    BY <2>8, <2>9
<1>4. CASE mount_content_entry
  BY <1>4, MountKeeps
<1>5. CASE mount_done
  <2>1. /\ at = "mount" /\ pos = Len(entries) /\ at' = "mounted"
        /\ UNCHANGED <<model, m3u, lines, pos, entries, count, mounted>>
    BY <1>5 DEF mount_done
  <2>2. Mounting
    BY <2>1 DEF IInv
  <2>3. Mounting' /\ Playlist'
    BY <1>1, <2>1, <2>2, MountingStays
  <2>4. pos' = Len(entries')
    BY <2>1
  <2> QED
    BY <2>1, <2>3, <2>4 DEF IInv
<1>6. CASE UNCHANGED vars
  <2>1. /\ at' = at /\ UNCHANGED <<model, m3u, lines, pos, entries, count, mounted>>
        /\ at' = "mounted" => UNCHANGED <<pos, entries>>
    BY <1>6 DEF vars
  <2>2. Playlist' /\ (Mounting => Mounting') /\ (pos = Len(entries) => pos' = Len(entries'))
    BY <1>1, <2>1, SameList, MountingStays
  <2>3. Reading => Reading'
    BY <1>1, <2>1, ReadingStays
  <2>4. Failed => Failed'
    BY <2>1, SameList DEF Failed
  <2> QED
    BY <2>1, <2>2, <2>3, <2>4 DEF IInv
<1> QED
  BY <1>2, <1>3, <1>4, <1>5, <1>6 DEF Next

\* At every point what was read and mounted is what the playlist up to a line says.
THEOREM MountingIsConsistent == Spec => []IInv
<1> QED
  BY InitIInv, NextIInv, PTL DEF Spec

\* What is mounted lies in slots the model has.
LEMMA InSlots ==
  ASSUME Playlist, NEW r \in Nat, MountedTo(r)
  PROVE  DOMAIN mounted \subseteq Slots \cap Offers[model]
<1>1. ASSUME NEW k \in Media, NEW s \in Taken(k, Nth(Of(k), r)) PROVE s \in Slots
  <2>1. Nth(Of(k), r) \in Nat
    BY Numbered, NthTyped
  <2>2. PICK i \in Nat : s # NoSlot /\ s = slot_for_media(k, i)
    BY <2>1, TakenIs
  <2>3. slot_for_media(k, i) \in Slots \cup {NoSlot}
    BY SlotOf
  <2> QED
    BY <2>2, <2>3
<1> QED
  BY <1>1 DEF MountedTo, Given

\* All entries are mounted: the lines up to line r are all that count.
LEMMA AllMounted ==
  ASSUME Playlist, Mounting, pos = Len(entries)
  PROVE  /\ Succeeds
         /\ DOMAIN mounted = UNION {Wanted(k) : k \in Media}
         /\ \A k \in Media : \A l \in Of(k) :
              Nth(Of(k), l) <= Capacity(k) =>
                mounted[slot_for_media(k, Nth(Of(k), l) - 1)] = Nth(Kept, l)
<1>1. PICK r \in 0..Len(lines) : Nth(Kept, r) = pos /\ MountedTo(r)
  BY DEF Mounting
<1>2. PICK n : n = Len(lines)
  OBVIOUS
<1>3. n \in Nat /\ r \in Nat /\ r <= n
  BY <1>1, <1>2, Numbered
<1>4. Nth(Kept, r) = Nth(Kept, n)
  BY <1>1, <1>2 DEF Mounting, ReadTo
<1>5. \A k : Nth(Of(k), r) = Cardinality(Of(k))
  <2>1. \A k : Nth(Of(k), r) = Nth(Of(k), n)
    BY <1>3, <1>4, SameLines
  <2>2. \A k : Nth(Of(k), n) = Cardinality(Of(k))
    BY <1>2, Numbered, NthEnds
  <2> QED
    BY <2>1, <2>2
<1>6. \A k : Wanted(k) = Taken(k, Nth(Of(k), r))
  BY <1>5 DEF Wanted, Taken
<1>7. DOMAIN mounted = UNION {Wanted(k) : k \in Media}
  BY <1>1, <1>6 DEF MountedTo, Given
<1>8. Succeeds
  BY <1>1, <1>7 DEF Succeeds, Mounting, MountedTo, Given
<1>9. \A l \in Kept : l <= r
  <2>1. ASSUME NEW l \in Kept, r < l PROVE FALSE
    <3>1. l \in Nat /\ l <= n
      BY <1>2, Numbered DEF LinesOf
    <3>2. Nth(Kept, r) < Nth(Kept, n) /\ Nth(Kept, n) \in Nat
      BY <1>2, <1>3, <2>1, <3>1, Numbered, NthGrows, NthTyped
    <3> QED
      BY <1>4, <3>2
  <2>2. \A l \in Kept : l \in Nat
    BY Numbered DEF LinesOf
  <2> QED
    BY <1>3, <2>1, <2>2
<1>10. \A k : Of(k) \subseteq Kept
  BY Numbered
<1> QED
  BY <1>1, <1>7, <1>8, <1>9, <1>10 DEF MountedTo, Given

\* The invariant has the types.
LEMMA MountTyped == IInv => TypeOK
<1> SUFFICES ASSUME IInv PROVE TypeOK
  OBVIOUS
<1>1. Playlist /\ Len(lines) \in Nat /\ Len(lines) <= MaxLines /\ MaxLines \in Nat
  BY Numbered, LinesAssumption DEF IInv, Playlist
<1>2. ASSUME NEW r \in Nat, MountedTo(r)
      PROVE  count \in [Media -> Nat] /\ DOMAIN mounted \subseteq Slots \cap Offers[model]
  <2>1. \A k : Nth(Of(k), r) \in Nat
    BY <1>1, Numbered, NthTyped
  <2>2. count = [k \in Media |-> Nth(Of(k), r)]
    BY <1>2 DEF MountedTo, Given
  <2>3. DOMAIN mounted \subseteq Slots \cap Offers[model]
    BY <1>1, <1>2, InSlots
  <2> QED
    BY <2>1, <2>2, <2>3
<1>3. CASE at = "read" /\ Reading
  <2>1. MountedTo(0) /\ pos \in 0..Len(lines) /\ ReadTo(pos)
    BY <1>3 DEF Reading
  <2>2. pos \in 0..MaxLines + 1
    BY <1>1, <2>1
  <2> QED
    BY <1>1, <1>2, <1>3, <2>1, <2>2 DEF TypeOK, Playlist, ReadTo
<1>4. CASE at \in {"mount", "mounted"} /\ Mounting
  <2>1. PICK r \in 0..Len(lines) : Nth(Kept, r) = pos /\ MountedTo(r)
    BY <1>4 DEF Mounting
  <2>2. r \in Nat /\ r <= Len(lines)
    BY <1>1, <2>1
  <2>3. pos \in Nat /\ pos <= r
    BY <1>1, <2>1, <2>2, Numbered, NthTyped
  <2>4. pos \in 0..MaxLines + 1
    BY <1>1, <2>2, <2>3
  <2> QED
    BY <1>1, <1>2, <1>4, <2>1, <2>2, <2>4 DEF TypeOK, Playlist, Mounting, ReadTo
<1>5. CASE at = "failed" /\ Failed
  <2>1. pos \in 0..MaxLines + 1
    BY <1>1, <1>5 DEF Failed
  <2>2. DOMAIN mounted \subseteq Slots \cap Offers[model]
    BY <1>5 DEF Failed
  <2> QED
    BY <1>1, <1>5, <2>1, <2>2 DEF TypeOK, Playlist, Failed
<1> QED
  BY <1>3, <1>4, <1>5 DEF IInv

\* The media of a session that starts are the playlist's, each in the slot its place
\* among those of its kind gives it; a start that fails has a reason, and leaves none.
THEOREM MediaAlwaysInOrder == Spec => []MountsInOrder
<1>1. IInv => MountsInOrder
  <2> SUFFICES ASSUME IInv PROVE MountsInOrder
    OBVIOUS
  <2>1. at = "mounted" => Playlist /\ Mounting /\ pos = Len(entries)
    BY DEF IInv
  <2>2. at = "failed" => ~Succeeds /\ mounted = << >>
    BY DEF IInv, Failed
  <2> QED
    BY <2>1, <2>2, AllMounted, MountTyped DEF MountsInOrder
<1> QED
  BY <1>1, MountingIsConsistent, PTL

-----------------------------------------------------------------------------
(* The seed of the battery backed memory *)

\* The session under way is one of a content with a stem, and has no result yet.
Underway ==
    /\ cmos \subseteq {c \in Contents : StemOf[c] # ""}
    /\ step # "idle" => StemOf[content] # "" /\ result = "none"

\* How far copy_file_if_missing has come says what is on the disk: nothing before
\* the target is opened, its own cut copy from then on.
Progress ==
    /\ step \in {"exists", "source", "directories", "target"} => ~made
    /\ step \in {"source", "directories", "target"} => nvram16[target] = Missing
    /\ step \in {"target", "copy"} => StemOf[content] \in base
    /\ step = "copy" => made /\ nvram16[target] = Cut(content)

\* A file lies in a directory that was made.
HasDirectory ==
    \A s \in Stems, m \in Models : nvram16[<<s, m>>] # Missing => s \in base

SeedIInv == SeedTypeOK /\ Underway /\ Progress /\ HasDirectory /\ OwnCopyIsWhole

\* The three forms of a file are told apart.
LEMMA Forms ==
    ASSUME NEW c \in Contents
    PROVE  /\ Cut(c) \in Files /\ Whole(c) \in Files
           /\ Missing \in Files
           /\ Cut(c) # Missing /\ Whole(c) # Missing
           /\ Cut(c) # Whole(c)
<1>1. Missing.form = "missing" /\ Cut(c).form = "cut" /\ Whole(c).form = "whole"
  BY DEF Missing, Cut, Whole
<1>2. Cut(c) \in Files /\ Whole(c) \in Files /\ Missing \in Files
  BY DEF Files
<1> QED
  BY <1>1, <1>2

\* While a session is under way its target is one of the files.
LEMMA TargetIsFile ==
    ASSUME SeedIInv, step # "idle"
    PROVE  target \in Stems \X Models /\ StemOf[content] \in Stems
BY DEF SeedIInv, SeedTypeOK, Underway, target, Stems

\* The first session finds no directory and no file.
LEMMA SeedStarts == SeedInit => SeedIInv
<1> SUFFICES ASSUME SeedInit PROVE SeedIInv
  OBVIOUS
<1>1. SeedTypeOK
  <2>1. Missing \in Files /\ 0 \in 0..MaxStarts
    BY StartsAssumption DEF Files
  <2>2. cmos \subseteq Contents
    BY DEF SeedInit
  <2>3. nvram16 \in [Stems \X Models -> Files]
    BY <2>1 DEF SeedInit
  <2> QED
    BY <2>1, <2>2, <2>3 DEF SeedInit, SeedTypeOK
<1>2. Underway /\ Progress /\ HasDirectory /\ OwnCopyIsWhole
  BY DEF SeedInit, Underway, Progress, HasDirectory, OwnCopyIsWhole
<1> QED
  BY <1>1, <1>2 DEF SeedIInv

\* Every file system call, every failure of one and every kill keeps it.
LEMMA SeedProceeds ==
  SeedIInv /\ [SeedNext]_seedVars => SeedIInv'
<1> SUFFICES ASSUME SeedIInv, [SeedNext]_seedVars PROVE SeedIInv'
  OBVIOUS
<1> USE DEF SeedIInv
<1>1. ASSUME NEW c \in Contents, EditCmos(c) PROVE SeedIInv'
  BY <1>1 DEF EditCmos, SeedTypeOK, Underway, Progress, HasDirectory,
       OwnCopyIsWhole, target
<1>2. ASSUME NEW c \in Contents, NEW m \in Models, start(c, m) PROVE SeedIInv'
  <2>1. SeedTypeOK'
    <3>1. StemOf[c] \in base => StemOf[c] \in Stems
      BY DEF SeedTypeOK
    <3>2. preferred_nvram_directory(c).dir \in Stems \cup {"default"} \/ c \in cmos
      BY <3>1 DEF preferred_nvram_directory
    <3>3. starts' \in 0..MaxStarts
      BY <1>2, StartsAssumption DEF start, SeedTypeOK
    <3> QED
      BY <1>2, <3>2, <3>3 DEF start, SeedTypeOK, preferred_nvram_directory
  <2>2. Underway'
    BY <1>2 DEF start, Underway, preferred_nvram_directory
  <2>3. Progress' /\ HasDirectory' /\ OwnCopyIsWhole'
    BY <1>2 DEF start, Progress, HasDirectory, OwnCopyIsWhole
  <2> QED
    BY <2>1, <2>2, <2>3
<1>3. CASE path_exists
  BY <1>3 DEF path_exists, Return, SeedTypeOK, Underway, Progress,
       HasDirectory, OwnCopyIsWhole, target
<1>4. CASE open_source
  BY <1>4 DEF open_source, Return, SeedTypeOK, Underway, Progress,
       HasDirectory, OwnCopyIsWhole, target
<1>5. CASE create_directories
  <2>1. StemOf[content] \in Stems
    BY <1>5, TargetIsFile DEF create_directories
  <2>2. base' \subseteq Stems /\ base \subseteq base'
    BY <1>5, <2>1 DEF create_directories, SeedTypeOK
  <2>3. SeedTypeOK'
    BY <1>5, <2>2 DEF create_directories, Return, SeedTypeOK
  <2>4. Underway' /\ Progress' /\ OwnCopyIsWhole'
    BY <1>5 DEF create_directories, Return, Underway, Progress,
         OwnCopyIsWhole, target
  <2>5. HasDirectory'
    BY <1>5, <2>2 DEF create_directories, HasDirectory
  <2> QED
    BY <2>3, <2>4, <2>5
<1>6. CASE open_target
  <2>1. target \in Stems \X Models /\ StemOf[content] \in Stems /\ content \in Contents
    BY <1>6, TargetIsFile DEF open_target, SeedTypeOK
  <2>2. CASE nvram16' = [nvram16 EXCEPT ![target] = Cut(content)] /\ made' = TRUE
                /\ step' = "copy" /\ UNCHANGED result
    <3>1. SeedTypeOK'
      BY <1>6, <2>1, <2>2, Forms DEF open_target, SeedTypeOK
    <3>2. Underway' /\ OwnCopyIsWhole'
      BY <1>6, <2>2 DEF open_target, Underway, OwnCopyIsWhole
    <3>3. nvram16'[target] = Cut(content) /\ target' = target
      BY <1>6, <2>1, <2>2 DEF open_target, SeedTypeOK, target
    <3>4. Progress'
      BY <1>6, <2>2, <3>3 DEF open_target, Progress, Cut
    <3>5. HasDirectory'
      <4> SUFFICES ASSUME NEW s \in Stems, NEW m \in Models, nvram16'[<<s, m>>] # Missing
                   PROVE  s \in base'
        BY DEF HasDirectory
      <4>1. CASE <<s, m>> = target
        BY <1>6, <4>1 DEF open_target, Progress, target
      <4>2. CASE <<s, m>> # target
        BY <1>6, <2>2, <4>2 DEF open_target, HasDirectory, SeedTypeOK
      <4> QED
        BY <4>1, <4>2
    <3> QED
      BY <3>1, <3>2, <3>4, <3>5
  <2>3. CASE Return("failed") /\ UNCHANGED <<nvram16, made>>
    BY <1>6, <2>3 DEF open_target, Return, SeedTypeOK, Underway, Progress,
         HasDirectory, OwnCopyIsWhole, target
  <2> QED
    BY <1>6, <2>2, <2>3 DEF open_target
<1>7. CASE copy
  <2>1. target \in Stems \X Models /\ StemOf[content] \in Stems /\ content \in Contents
    BY <1>7, TargetIsFile DEF copy, SeedTypeOK
  <2>2. CASE nvram16' = [nvram16 EXCEPT ![target] = Whole(content)] /\ Return("seeded")
    <3>1. SeedTypeOK'
      BY <1>7, <2>1, <2>2, Forms DEF copy, Return, SeedTypeOK
    <3>2. Underway' /\ Progress'
      BY <1>7, <2>2 DEF copy, Return, Underway, Progress
    <3>3. nvram16'[target] = Whole(content) /\ target' = target
      BY <1>7, <2>1, <2>2 DEF copy, SeedTypeOK, target
    <3>4. OwnCopyIsWhole'
      BY <1>7, <3>3 DEF copy, OwnCopyIsWhole, Whole
    <3>5. HasDirectory'
      <4> SUFFICES ASSUME NEW s \in Stems, NEW m \in Models, nvram16'[<<s, m>>] # Missing
                   PROVE  s \in base'
        BY DEF HasDirectory
      <4>1. CASE <<s, m>> = target
        BY <1>7, <4>1 DEF copy, Progress, target
      <4>2. CASE <<s, m>> # target
        BY <1>7, <2>2, <4>2 DEF copy, HasDirectory, SeedTypeOK
      <4> QED
        BY <4>1, <4>2
    <3> QED
      BY <3>1, <3>2, <3>4, <3>5
  <2>3. CASE UNCHANGED nvram16 /\ Return("failed")
    BY <1>7, <2>3 DEF copy, Return, SeedTypeOK, Underway, Progress,
         HasDirectory, OwnCopyIsWhole
  <2> QED
    BY <1>7, <2>2, <2>3 DEF copy
<1>8. CASE Crash
  BY <1>8 DEF Crash, Return, SeedTypeOK, Underway, Progress, HasDirectory,
       OwnCopyIsWhole
<1>9. CASE UNCHANGED seedVars
  BY <1>9 DEF seedVars, SeedTypeOK, Underway, Progress, HasDirectory,
       OwnCopyIsWhole, target
<1> QED
  BY <1>1, <1>2, <1>3, <1>4, <1>5, <1>6, <1>7, <1>8, <1>9 DEF SeedNext

\* The strengthened invariant holds in every reachable state.
THEOREM SeedIsConsistent == SeedSpec => []SeedIInv
BY SeedStarts, SeedProceeds, PTL DEF SeedSpec

\* The variables keep their types.
THEOREM SeedTypeCorrect == SeedSpec => []SeedTypeOK
<1>1. SeedIInv => SeedTypeOK
  BY DEF SeedIInv
<1> QED
  BY <1>1, SeedIsConsistent, PTL

\* A session that created its file and reports success has the whole seed in it,
\* for any number of sessions, games and models, and whatever failed before.
THEOREM OwnCopyAlwaysWhole == SeedSpec => []OwnCopyIsWhole
<1>1. SeedIInv => OwnCopyIsWhole
  BY DEF SeedIInv
<1> QED
  BY <1>1, SeedIsConsistent, PTL

\* A game with a file on the disk finds it: preferred_nvram_directory answers the
\* directory of its stem.
THEOREM FileAlwaysFound == SeedSpec => []FileIsFound
<1>1. SeedIInv => FileIsFound
  <2> SUFFICES ASSUME SeedIInv, NEW c \in Contents, StemOf[c] # "",
                      NEW m \in Models, nvram16[<<StemOf[c], m>>] # Missing
               PROVE  preferred_nvram_directory(c).dir = StemOf[c]
    BY DEF FileIsFound
  <2>1. StemOf[c] \in Stems
    BY DEF Stems
  <2>2. StemOf[c] \in base
    BY <2>1 DEF SeedIInv, HasDirectory
  <2> QED
    BY <2>2 DEF preferred_nvram_directory
<1> QED
  BY <1>1, SeedIsConsistent, PTL

\* What a step may never do: replace battery backed memory that is on the disk.
THEOREM NothingOverwritten == SeedSpec => NeverOverwritten
<1> DEFINE A == \A t \in Stems \X Models :
                   nvram16'[t] # nvram16[t] =>
                     /\ t = target
                     /\ nvram16[t] = Missing \/ (made /\ nvram16[t] = Cut(content))
<1>1. SeedIInv /\ [SeedNext]_seedVars => [A]_seedVars
  <2> SUFFICES ASSUME SeedIInv, SeedNext, NEW t \in Stems \X Models, nvram16'[t] # nvram16[t]
               PROVE  /\ t = target
                      /\ nvram16[t] = Missing \/ (made /\ nvram16[t] = Cut(content))
    OBVIOUS
  <2>1. open_target \/ copy
    BY DEF SeedNext, EditCmos, start, path_exists, open_source,
         create_directories, Crash
  <2>2. t = target
    BY <2>1 DEF open_target, copy, SeedIInv, SeedTypeOK
  <2> QED
    BY <2>1, <2>2 DEF open_target, copy, SeedIInv, Progress
<1> QED
  BY <1>1, SeedIsConsistent, PTL DEF SeedSpec, NeverOverwritten

-----------------------------------------------------------------------------
(* The watchdog *)

\* The flags know of the thread: it is asked to stop only by the caller that
\* joins it.
Flags ==
    /\ g_watchdog_running <=> up /\ main # "join"
    /\ g_watchdog_running => ~g_watchdog_stop
    /\ main \in {"enter", "frame", "slice"} => up

\* A frame is counted at most once for every call.
FramesCounted ==
    /\ m_frame <= g_last_run_tick /\ g_last_completed_frame <= g_last_run_tick
    /\ main \in {"enter", "frame", "slice"} => m_frame < g_last_run_tick

\* How the tick of the last sample, the present tick and the history of the calls
\* between them hang together; last_reported is the tick of the sample before.
Loading == {"frame", "completed", "stage", "report"}
RunTicks ==
    /\ ran => sample.tick < g_last_run_tick
    /\ ~ran /\ sample.tick # 0 => sample.tick = g_last_run_tick
    /\ thread \notin Loading => last_reported = sample.tick
    /\ thread \in Loading =>
         /\ sample.ran => last_reported < sample.tick
         /\ ~sample.ran /\ last_reported # 0 => sample.tick = last_reported

GuardIInv ==
    /\ WatchdogTypeOK /\ Flags /\ FramesCounted /\ ThreadLifetime /\ RunTicks
    /\ NoFalseStall /\ AliveIsRecent

\* The fields of a sample.
LEMMA SampleFields ==
    ASSUME NEW s, s \in Samples
    PROVE  /\ s.tick \in 0..MaxRuns /\ s.ran \in BOOLEAN /\ s.frame \in 0..MaxRuns
           /\ s.completed \in 0..MaxRuns /\ s.stage \in Stages
BY DEF Samples

\* The loads after that of the tick leave the tick alone.
LEMMA LoadedNumber ==
    ASSUME NEW s \in Samples, NEW n \in 0..MaxRuns
    PROVE  /\ [s EXCEPT !.frame = n] \in Samples
           /\ [s EXCEPT !.frame = n].tick = s.tick /\ [s EXCEPT !.frame = n].ran = s.ran
           /\ [s EXCEPT !.completed = n] \in Samples
           /\ [s EXCEPT !.completed = n].tick = s.tick /\ [s EXCEPT !.completed = n].ran = s.ran
BY DEF Samples

\* So does the load of the stage.
LEMMA LoadedStage ==
    ASSUME NEW s \in Samples, NEW g \in Stages
    PROVE  /\ [s EXCEPT !.stage = g] \in Samples
           /\ [s EXCEPT !.stage = g].tick = s.tick /\ [s EXCEPT !.stage = g].ran = s.ran
BY DEF Samples

\* The counters start at zero, the stage idle.
LEMMA GuardStart ==
  0 \in 0..MaxRuns /\ 0 \in 0..MaxInits /\ 0 \in 0..PollSteps /\ "idle" \in Stages
BY PollAssumption DEF Stages

\* No sample and no line yet.
LEMMA GuardNothing ==
  /\ NoSample \in Samples /\ NoSample.tick = 0 /\ NoSample.ran = FALSE
  /\ NoLine \in [kind : Kinds, first : BOOLEAN, of : Samples, loaded : BOOLEAN]
  /\ NoLine.kind = "nothing"
<1>1. NoSample \in Samples /\ NoSample.tick = 0 /\ NoSample.ran = FALSE
  BY PollAssumption DEF NoSample, Samples, Stages
<1> QED
  BY <1>1 DEF NoLine, Kinds

\* The invariant holds before the first retro_init.
LEMMA GuardInit == WatchdogInit => GuardIInv
<1> SUFFICES ASSUME WatchdogInit PROVE GuardIInv
  OBVIOUS
<1>1. WatchdogTypeOK
  BY GuardStart, GuardNothing DEF WatchdogInit, WatchdogTypeOK
<1>2. Flags /\ FramesCounted /\ ThreadLifetime
  BY DEF WatchdogInit, Flags, FramesCounted, ThreadLifetime
<1>3. RunTicks /\ NoFalseStall /\ AliveIsRecent
  BY GuardNothing DEF WatchdogInit, RunTicks, Loading, NoFalseStall, AliveIsRecent
<1> QED
  BY <1>1, <1>2, <1>3 DEF GuardIInv

\* The steps of the frontend's thread.
LEMMA FrontendIInv ==
  GuardIInv /\ Frontend => GuardIInv'
<1> SUFFICES ASSUME GuardIInv, Frontend PROVE GuardIInv'
  OBVIOUS
<1> USE PollAssumption DEF GuardIInv
<1>0. sample.tick \in 0..MaxRuns
  BY SampleFields DEF WatchdogTypeOK
<1>1. CASE retro_init
  <2>1. WatchdogTypeOK'
    <3>1. inits' \in 0..MaxInits
      BY <1>1 DEF retro_init, WatchdogTypeOK
    <3>2. CASE g_watchdog_running
      BY <1>1, <3>1, <3>2 DEF retro_init, start_watchdog, WatchdogTypeOK,
           sharedVars, threadVars
    <3>3. CASE ~g_watchdog_running
      BY <1>1, <3>1, <3>3, GuardStart, GuardNothing DEF retro_init,
           start_watchdog, WatchdogTypeOK, sharedVars
    <3> QED
      BY <3>2, <3>3
  <2>2. Flags' /\ FramesCounted' /\ ThreadLifetime'
    BY <1>1 DEF retro_init, start_watchdog, WatchdogTypeOK, Flags,
         FramesCounted, ThreadLifetime, sharedVars, threadVars
  <2>3. RunTicks' /\ NoFalseStall' /\ AliveIsRecent'
    BY <1>1, GuardNothing DEF retro_init, start_watchdog, RunTicks, Loading,
         NoFalseStall, AliveIsRecent, sharedVars, threadVars
  <2> QED
    BY <2>1, <2>2, <2>3
<1>2. CASE retro_load_game
  <2>1. WatchdogTypeOK'
    BY <1>2 DEF retro_load_game, WatchdogTypeOK, threadVars
  <2> QED
    BY <1>2, <2>1 DEF retro_load_game, WatchdogTypeOK, Flags, FramesCounted,
         ThreadLifetime, RunTicks, Loading, NoFalseStall,
         AliveIsRecent, threadVars
<1>3. CASE retro_unload_game
  <2>1. WatchdogTypeOK'
    BY <1>3, GuardStart DEF retro_unload_game, unload, WatchdogTypeOK,
         threadVars
  <2> QED
    BY <1>3, <2>1 DEF retro_unload_game, unload, WatchdogTypeOK, Flags,
         FramesCounted, ThreadLifetime, RunTicks, Loading, NoFalseStall,
         AliveIsRecent, threadVars
<1>4. CASE retro_run
  <2>1. WatchdogTypeOK'
    BY <1>4 DEF retro_run, store_tick, WatchdogTypeOK, Stages,
         threadVars
  <2>2. Flags' /\ FramesCounted' /\ ThreadLifetime'
    BY <1>4 DEF retro_run, store_tick, WatchdogTypeOK, Flags, FramesCounted,
         ThreadLifetime, threadVars
  <2>3. RunTicks'
    <3>1. sample.tick <= g_last_run_tick
      BY <1>0 DEF RunTicks, WatchdogTypeOK
    <3> QED
      BY <1>0, <1>4, <3>1 DEF retro_run, store_tick, WatchdogTypeOK, RunTicks,
           Loading, threadVars
  <2>4. NoFalseStall' /\ AliveIsRecent'
    BY <1>4 DEF retro_run, NoFalseStall, AliveIsRecent, threadVars
  <2> QED
    BY <2>1, <2>2, <2>3, <2>4
<1>5. CASE retro_run_blank
  BY <1>5 DEF retro_run_blank, WatchdogTypeOK, Flags, FramesCounted,
       ThreadLifetime, RunTicks, Loading, NoFalseStall, AliveIsRecent,
       threadVars, sharedVars
<1>6. CASE run_frame
  <2>1. WatchdogTypeOK'
    BY <1>6 DEF run_frame, WatchdogTypeOK, Stages, threadVars
  <2> QED
    BY <1>6, <2>1 DEF run_frame, WatchdogTypeOK, Flags, FramesCounted,
         ThreadLifetime, RunTicks, Loading, NoFalseStall,
         AliveIsRecent, threadVars
<1>7. CASE run_slices
  <2>1. WatchdogTypeOK'
    BY <1>7 DEF run_slices, WatchdogTypeOK, Stages, threadVars
  <2> QED
    BY <1>7, <2>1 DEF run_slices, WatchdogTypeOK, Flags, FramesCounted,
         ThreadLifetime, RunTicks, Loading, NoFalseStall,
         AliveIsRecent, threadVars
<1>8. CASE frame_done
  <2>1. m_frame + 1 \in 0..MaxRuns /\ m_frame + 1 <= g_last_run_tick
    BY <1>8 DEF frame_done, WatchdogTypeOK, FramesCounted
  <2>2. WatchdogTypeOK'
    BY <1>8, <2>1 DEF frame_done, WatchdogTypeOK, Stages, threadVars
  <2> QED
    BY <1>8, <2>1, <2>2 DEF frame_done, Flags, FramesCounted, ThreadLifetime,
         RunTicks, Loading, NoFalseStall, AliveIsRecent, threadVars
<1>9. CASE retro_deinit
  <2>1. g_watchdog_running
    BY <1>9 DEF retro_deinit, Flags
  <2>2. main' = "join" /\ up' = up /\ up /\ g_watchdog_running' = FALSE /\ g_watchdog_stop' = TRUE
    BY <1>9, <2>1 DEF retro_deinit, stop_watchdog
  <2>3. WatchdogTypeOK'
    BY <1>9, <2>2, GuardStart DEF retro_deinit, unload, WatchdogTypeOK,
         threadVars, sharedVars
  <2>4. Flags' /\ FramesCounted' /\ ThreadLifetime'
    BY <1>9, <2>2 DEF retro_deinit, unload, WatchdogTypeOK, Flags,
         FramesCounted, ThreadLifetime, threadVars, sharedVars
  <2>5. RunTicks' /\ NoFalseStall' /\ AliveIsRecent'
    BY <1>9 DEF retro_deinit, unload, RunTicks, Loading, NoFalseStall,
         AliveIsRecent, threadVars, sharedVars
  <2> QED
    BY <2>3, <2>4, <2>5
<1>10. CASE join
  BY <1>10 DEF join, WatchdogTypeOK, Flags, FramesCounted, ThreadLifetime,
       RunTicks, Loading, NoFalseStall, AliveIsRecent, sharedVars
<1> QED
  BY <1>1, <1>2, <1>3, <1>4, <1>5, <1>6, <1>7, <1>8, <1>9, <1>10 DEF Frontend

\* The steps of the watchdog.
LEMMA ThreadIInv ==
  GuardIInv /\ Thread => GuardIInv'
<1> SUFFICES ASSUME GuardIInv, Thread PROVE GuardIInv'
  OBVIOUS
<1> USE PollAssumption DEF GuardIInv
<1>0. sample \in Samples /\ sample.tick \in 0..MaxRuns /\ sample.ran \in BOOLEAN
  BY SampleFields DEF WatchdogTypeOK
<1>1. CASE poll
  <2>1. g_watchdog_stop => main = "join"
    BY <1>1 DEF poll, Flags, ThreadLifetime
  <2>2. WatchdogTypeOK'
    BY <1>1 DEF poll, WatchdogTypeOK, sharedVars
  <2> QED
    BY <1>1, <2>1, <2>2 DEF poll, Flags, FramesCounted, ThreadLifetime,
         RunTicks, Loading, NoFalseStall, AliveIsRecent, sharedVars
<1>2. CASE load_sample
  <2> USE <1>2 DEF load_sample
  <2>1. Flags' /\ FramesCounted' /\ ThreadLifetime' /\ NoFalseStall' /\ AliveIsRecent'
    BY DEF load_tick, load_frame, load_completed, load_stage,
         Flags, FramesCounted, ThreadLifetime, NoFalseStall,
         AliveIsRecent, sharedVars
  <2>2. CASE load_tick
    <3>1. sample' \in Samples /\ sample'.tick = g_last_run_tick /\ sample'.ran = ran
      <4>1. g_last_run_tick \in 0..MaxRuns /\ ran \in BOOLEAN
        BY DEF WatchdogTypeOK
      <4>2. PICK b \in BOOLEAN : b = ran
        BY <4>1
      <4>3. sample' = [sample EXCEPT !.tick = g_last_run_tick, !.ran = b]
        BY <2>2, <4>2 DEF load_tick
      <4> QED
        BY <1>0, <4>1, <4>2, <4>3 DEF Samples
    <3>2. WatchdogTypeOK'
      BY <2>2, <3>1 DEF load_tick, WatchdogTypeOK, sharedVars
    <3>3. RunTicks'
      BY <1>0, <2>2, <3>1 DEF load_tick, WatchdogTypeOK, RunTicks, Loading,
           sharedVars
    <3> QED
      BY <2>1, <3>2, <3>3
  <2>3. CASE load_frame \/ load_completed \/ load_stage
    <3>1. sample' \in Samples /\ sample'.tick = sample.tick /\ sample'.ran = sample.ran
      <4>1. /\ g_last_run_frame \in 0..MaxRuns /\ g_last_completed_frame \in 0..MaxRuns
            /\ g_run_stage \in Stages
        BY DEF WatchdogTypeOK
      <4>2. CASE load_frame
        BY <1>0, <4>1, <4>2, LoadedNumber DEF load_frame
      <4>3. CASE load_completed
        BY <1>0, <4>1, <4>3, LoadedNumber DEF load_completed
      <4>4. CASE load_stage
        BY <1>0, <4>1, <4>4, LoadedStage DEF load_stage
      <4> QED
        BY <2>3, <4>2, <4>3, <4>4
    <3>2. WatchdogTypeOK'
      BY <2>3, <3>1 DEF load_frame, load_completed, load_stage,
           WatchdogTypeOK, sharedVars
    <3>3. RunTicks'
      BY <2>3, <3>1 DEF load_frame, load_completed, load_stage,
           RunTicks, Loading, sharedVars
    <3> QED
      BY <2>1, <3>2, <3>3
  <2> QED
    BY <2>2, <2>3
<1>3. CASE report
  <2> DEFINE kind == kind_of(sample.tick, last_reported)
  <2>1. kind \in Kinds /\ (last_reported = 0) \in BOOLEAN
    BY DEF kind_of, Kinds
  <2>2. line' = [kind |-> kind, first |-> last_reported = 0, of |-> sample,
                 loaded |-> g_runtime_loaded]
    BY <1>3 DEF report
  <2>3. line' \in [kind : Kinds, first : BOOLEAN, of : Samples, loaded : BOOLEAN]
    BY <1>0, <2>1, <2>2 DEF WatchdogTypeOK
  <2>4. WatchdogTypeOK'
    BY <1>0, <1>3, <2>3 DEF report, WatchdogTypeOK, sharedVars
  <2>5. Flags' /\ FramesCounted' /\ ThreadLifetime'
    BY <1>3 DEF report, Flags, FramesCounted, ThreadLifetime, sharedVars
  <2>6. RunTicks'
    <3>1. sample.tick = 0 => last_reported = 0
      BY <1>0, <1>3 DEF report, RunTicks, Loading, WatchdogTypeOK
    <3> QED
      BY <1>0, <1>3, <3>1 DEF report, kind_of, RunTicks, Loading,
           WatchdogTypeOK, sharedVars
  <2>7. NoFalseStall'
    <3>1. kind = "stalled" => ~sample.ran
      BY <1>0, <1>3 DEF report, kind_of, RunTicks, Loading, WatchdogTypeOK
    <3> QED
      BY <2>2, <3>1 DEF NoFalseStall
  <2>8. AliveIsRecent'
    <3>1. kind = "alive" /\ last_reported # 0 => sample.ran
      BY <1>0, <1>3 DEF report, kind_of, RunTicks, Loading, WatchdogTypeOK
    <3>2. line'.kind = kind /\ (line'.first <=> last_reported = 0) /\ line'.of = sample
      BY <2>2
    <3> QED
      BY <3>1, <3>2 DEF AliveIsRecent
  <2> QED
    BY <2>4, <2>5, <2>6, <2>7, <2>8
<1> QED
  BY <1>1, <1>2, <1>3 DEF Thread

\* The strengthened invariant holds in every reachable state.
THEOREM GuardIsConsistent == WatchdogSpec => []GuardIInv
<1>1. GuardIInv /\ UNCHANGED watchdogVars => GuardIInv'
  BY DEF GuardIInv, watchdogVars, sharedVars, threadVars, WatchdogTypeOK, Flags,
       FramesCounted, ThreadLifetime, RunTicks, Loading, NoFalseStall,
       AliveIsRecent
<1>2. GuardIInv /\ [WatchdogNext]_watchdogVars => GuardIInv'
  BY <1>1, FrontendIInv, ThreadIInv DEF WatchdogNext
<1> QED
  BY GuardInit, <1>2, PTL DEF WatchdogSpec

\* The variables keep their types: no frame is counted that no call was made for.
THEOREM GuardTypeCorrect == WatchdogSpec => []WatchdogTypeOK
<1>1. GuardIInv => WatchdogTypeOK
  BY DEF GuardIInv
<1> QED
  BY <1>1, GuardIsConsistent, PTL

\* The thread exists exactly between retro_init and the join in retro_deinit, in
\* every interleaving and over any number of lifetimes.
THEOREM ThreadNeverOutlives == WatchdogSpec => []ThreadLifetime
<1>1. GuardIInv => ThreadLifetime
  BY DEF GuardIInv
<1> QED
  BY <1>1, GuardIsConsistent, PTL

\* A "stalled" line is reported only if no retro_run was entered since the
\* thread's previous sample, whether a call hangs or the frontend makes none.
THEOREM StallsAreTrue == WatchdogSpec => []NoFalseStall
<1>1. GuardIInv => NoFalseStall
  BY DEF GuardIInv
<1> QED
  BY <1>1, GuardIsConsistent, PTL

\* An "alive" line after a thread's first one is about a call since the last sample.
THEOREM AliveAlwaysRecent == WatchdogSpec => []AliveIsRecent
<1>1. GuardIInv => AliveIsRecent
  BY DEF GuardIInv
<1> QED
  BY <1>1, GuardIsConsistent, PTL
=============================================================================
