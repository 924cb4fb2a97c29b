-------------------------- MODULE TownsCdromProofs --------------------------
(***************************************************************************)
(* Proofs about the CD-ROM controller and its guest, for every disc, every *)
(* set of jobs and every number of them.                                   *)
(*                                                                         *)
(* The inductive invariant Core says how the guest and the controller are  *)
(* in step: when an answer is outstanding and where its pointer stands     *)
(* (Step), which answer of which command it is (Script, Refused,           *)
(* ReadScript), what the transfer of a sector may be doing at each point   *)
(* of the guest's program (Transfers), what was read of an answer          *)
(* (Fetched), that the parameters are the job's (Asked) and that a play    *)
(* waits for its delay alone (Delayed).  Two more invariants rest on it:   *)
(* Delivers, where the bytes received stand in the sectors asked for, and  *)
(* Told, what the answers of a table of contents are one by one.           *)
(*                                                                         *)
(* A lemma ...Fields tells what an operator of the controller does to each *)
(* field of its record, so that the proofs about actions need not expand   *)
(* it; ...Core, ...Delivers and ...Told that an action keeps an invariant. *)
(***************************************************************************)
EXTENDS TownsCdromGuest, WellFoundedInduction, TLAPS

-----------------------------------------------------------------------------
(* Bytes, four of them, and addresses *)

Quads == [1..4 -> Bytes]

LEMMA ByteFacts ==
  /\ Bytes \subseteq Nat
  /\ {0, 1, 2, 3, 4, 6, 7, \h10, \h11, \h12, \h16, \h17, \h18, \h19, \h20, \h21, \h22} \subseteq Bytes
  /\ {\ha0, \ha1, \ha2, \hff, 99} \subseteq Bytes
BY DEF Bytes, MaxByte

LEMMA ByteRange == \A n : n \in Bytes <=> n \in Nat /\ n < 256
<1>1. MaxByte \in Nat /\ MaxByte + 1 = 256
  BY DEF MaxByte
<1> QED
  BY <1>1 DEF Bytes

LEMMA Quad ==
  ASSUME NEW a \in Bytes, NEW b \in Bytes, NEW c \in Bytes, NEW d \in Bytes
  PROVE  /\ <<a, b, c, d>> \in Quads
         /\ <<a, b, c, d>>[1] = a
BY DEF Quads

LEMMA BcdByte ==
  ASSUME NEW n \in 0..100
  PROVE  /\ byte_to_bcd(n) \in Bytes
         /\ bcd_to_byte(byte_to_bcd(n)) = n
BY DEF byte_to_bcd, bcd_to_byte, Bytes, MaxByte

\* Times that two digits of minutes can tell.
Times == {n \in Nat : n < 450000}

\* A time on the disc: three bytes from which it can be had again.
LEMMA MsfBytes ==
  ASSUME NEW lba \in Times
  PROVE  LET t == lba_to_msf(lba)
         IN /\ t[1] \in Bytes /\ t[2] \in Bytes /\ t[3] \in Bytes
            /\ msf_to_lbafm(t[1], t[2], t[3]) = lba - 150
            /\ t \in Seq(Bytes) /\ Len(t) = 3
<1> DEFINE m == lba \div 4500
           s == (lba % 4500) \div 75
           f == lba % 75
           t == lba_to_msf(lba)
<1>0. lba \in Nat /\ lba < 450000
  BY DEF Times
<1>1. m \in 0..100 /\ s \in 0..100 /\ f \in 0..100
  BY <1>0
<1>2. lba = m * 4500 + s * 75 + f
  BY <1>0
<1>3. t = <<byte_to_bcd(m), byte_to_bcd(s), byte_to_bcd(f)>>
  BY DEF lba_to_msf
<1> HIDE DEF m, s, f
<1>4. /\ byte_to_bcd(m) \in Bytes /\ bcd_to_byte(byte_to_bcd(m)) = m
      /\ byte_to_bcd(s) \in Bytes /\ bcd_to_byte(byte_to_bcd(s)) = s
      /\ byte_to_bcd(f) \in Bytes /\ bcd_to_byte(byte_to_bcd(f)) = f
  BY <1>1, BcdByte
<1>5. t[1] = byte_to_bcd(m) /\ t[2] = byte_to_bcd(s) /\ t[3] = byte_to_bcd(f)
  BY <1>3
<1>6. msf_to_lbafm(t[1], t[2], t[3]) = lba - 150
  BY <1>0, <1>1, <1>2, <1>4, <1>5 DEF msf_to_lbafm
<1>7. t \in Seq(Bytes) /\ Len(t) = 3
  BY <1>3, <1>4
<1> QED
  BY <1>4, <1>5, <1>6, <1>7

\* Sequences of bytes.
LEMMA SeqIsFunction ==
  ASSUME NEW c \in Seq(Bytes), NEW n \in Nat, Len(c) = n
  PROVE  c \in [1..n -> Bytes]
OBVIOUS

LEMMA FunctionIsSeq ==
  ASSUME NEW n \in Nat, NEW c \in [1..n -> Bytes]
  PROVE  c \in Seq(Bytes)
OBVIOUS

LEMMA JoinedSeq ==
  ASSUME NEW a \in Seq(Bytes), NEW b \in Seq(Bytes)
  PROVE  a \o b \in Seq(Bytes)
OBVIOUS

LEMMA JoinedLen ==
  ASSUME NEW a \in Seq(Bytes), NEW b \in Seq(Bytes)
  PROVE  Len(a \o b) = Len(a) + Len(b)
OBVIOUS

LEMMA JoinedFirst ==
  ASSUME NEW a \in Seq(Bytes), NEW b \in Seq(Bytes), NEW i \in 1..Len(a)
  PROVE  (a \o b)[i] = a[i]
OBVIOUS

LEMMA JoinedLast ==
  ASSUME NEW a \in Seq(Bytes), NEW b \in Seq(Bytes), NEW i \in 1..Len(b)
  PROVE  (a \o b)[Len(a) + i] = b[i]
OBVIOUS

Begins(t, a, n) == t \in Seq(Bytes) /\ Len(t) = n /\ \A i \in 1..n : t[i] = a[i]

LEMMA Front ==
  ASSUME NEW a \in Seq(Bytes), NEW n \in 0..Len(a)
  PROVE  Begins(SubSeq(a, 1, n), a, n)
BY DEF Begins

\* The same for c = a \o b, without saying so.
Joins(c, a, b) ==
  /\ c \in Seq(Bytes) /\ Len(c) = Len(a) + Len(b)
  /\ \A i \in 1..Len(a) : c[i] = a[i]
  /\ \A i \in 1..Len(b) : c[Len(a) + i] = b[i]

LEMMA Joined ==
  ASSUME NEW a \in Seq(Bytes), NEW b \in Seq(Bytes)
  PROVE  Joins(a \o b, a, b)
<1>1. a \o b \in Seq(Bytes)
  BY JoinedSeq, Zenon
<1>2. Len(a \o b) = Len(a) + Len(b)
  BY JoinedLen, Zenon
<1>3. \A i \in 1..Len(a) : (a \o b)[i] = a[i]
  BY JoinedFirst, Zenon
<1>4. \A i \in 1..Len(b) : (a \o b)[Len(a) + i] = b[i]
  BY JoinedLast, Zenon
<1> QED
  BY <1>1, <1>2, <1>3, <1>4, Zenon DEF Joins

Leads(q, x, t) ==
  /\ q \in Seq(Bytes) /\ Len(q) = Len(t) + 1
  /\ q[1] = x /\ \A i \in 1..Len(t) : q[1 + i] = t[i]

LEMMA Prefixed ==
  ASSUME NEW x \in Bytes, NEW t \in Seq(Bytes)
  PROVE  Leads(<<x>> \o t, x, t)
<1>1. PICK one : one = <<x>>
  OBVIOUS
<1>2. one \in Seq(Bytes) /\ Len(one) = 1 /\ one[1] = x
  BY <1>1
<1>3. PICK q : q = one \o t
  OBVIOUS
<1>4. Joins(q, one, t)
  BY <1>2, <1>3, Joined, Zenon
<1>5. Leads(q, x, t)
  BY <1>2, <1>4 DEF Joins, Leads
<1> QED
  BY <1>1, <1>3, <1>5, Zenon

LEMMA PrefixedQuad ==
  ASSUME NEW x \in Bytes, NEW t \in Seq(Bytes), Len(t) = 3
  PROVE  <<x>> \o t \in Quads /\ (<<x>> \o t)[1] = x
<1>1. PICK q : q = <<x>> \o t
  OBVIOUS
<1>2. Leads(q, x, t)
  BY <1>1, Prefixed, Zenon
<1>3. q \in Seq(Bytes) /\ Len(q) = 4 /\ q[1] = x
  BY <1>2 DEF Leads
<1>4. q \in Quads
  BY <1>3, SeqIsFunction DEF Quads
<1> QED
  BY <1>1, <1>3, <1>4, Zenon

-----------------------------------------------------------------------------
(* Parameters *)

Eights == [1..8 -> Bytes]

\* A byte written goes in front and pushes the others back.
LEMMA Pushed ==
  ASSUME NEW p \in Eights, NEW x \in Bytes
  PROVE  LET q == <<x>> \o SubSeq(p, 1, 7)
         IN q \in Eights /\ q[1] = x /\ \A i \in 1..7 : q[1 + i] = p[i]
<1>1. p \in Seq(Bytes)
  <2>1. 8 \in Nat
    OBVIOUS
  <2> QED
    BY <2>1, FunctionIsSeq, Zenon DEF Eights
<1>2. Len(p) = 8
  BY DEF Eights
<1>3. PICK t : t = SubSeq(p, 1, 7)
  OBVIOUS
<1>4. 7 \in 0..Len(p)
  BY <1>2
<1>5. Begins(t, p, 7)
  BY <1>1, <1>3, <1>4, Front, Zenon
<1>6. t \in Seq(Bytes)
  BY <1>5, Zenon DEF Begins
<1>7. PICK q : q = <<x>> \o t
  OBVIOUS
<1>8. Leads(q, x, t)
  BY <1>6, <1>7, Prefixed, Zenon
<1>9. q \in Seq(Bytes) /\ Len(q) = 8 /\ q[1] = x
  BY <1>5, <1>8 DEF Begins, Leads
<1>10. q \in Eights
  BY <1>9, SeqIsFunction DEF Eights
<1>11. \A i \in 1..7 : q[1 + i] = p[i]
  BY <1>5, <1>8 DEF Begins, Leads
<1> QED
  BY <1>3, <1>7, <1>9, <1>10, <1>11, Zenon

StartsWith(p, a, b) ==
  /\ p \in Eights
  /\ p[1] = a[1] /\ p[2] = a[2] /\ p[3] = a[3]
  /\ p[4] = b[1] /\ p[5] = b[2] /\ p[6] = b[3]

LEMMA EightOf ==
  ASSUME NEW a, a \in Seq(Bytes), Len(a) = 3, NEW b, b \in Seq(Bytes), Len(b) = 3
  PROVE  StartsWith(a \o b \o <<0, 0>>, a, b)
<1>1. PICK ab, z, p : ab = a \o b /\ z = <<0, 0>> /\ p = ab \o z
  OBVIOUS
<1>2. z \in Seq(Bytes) /\ Len(z) = 2
  BY <1>1, ByteFacts
<1>3. Joins(ab, a, b)
  BY <1>1, Joined, Zenon
<1>4. ab \in Seq(Bytes)
  BY <1>3, Zenon DEF Joins
<1>5. Joins(p, ab, z)
  BY <1>1, <1>2, <1>4, Joined, Zenon
<1>6. /\ Len(p) = 8 /\ p \in Seq(Bytes)
      /\ p[1] = a[1] /\ p[2] = a[2] /\ p[3] = a[3]
  BY <1>2, <1>3, <1>5 DEF Joins
<1>7. p[3 + 1] = b[1] /\ p[3 + 2] = b[2] /\ p[3 + 3] = b[3]
  BY <1>2, <1>3, <1>5 DEF Joins
<1>8. p[4] = b[1] /\ p[5] = b[2] /\ p[6] = b[3]
  BY <1>7
<1>9. p \in Eights
  BY <1>6, SeqIsFunction DEF Eights
<1> QED
  BY <1>1, <1>6, <1>8, <1>9, Zenon DEF StartsWith

Tells(t, n) == t \in Seq(Bytes) /\ Len(t) = 3 /\ msf_to_lbafm(t[1], t[2], t[3]) = n

\* The guest writes the start and the end, minutes first.
LEMMA ParameterBytes ==
  ASSUME NEW j \in Jobs
  PROVE  LET p == Parameters(j)
         IN /\ p \in Eights
            /\ msf_to_lbafm(p[1], p[2], p[3]) = j.first
            /\ msf_to_lbafm(p[4], p[5], p[6]) = j.last
<1>1. \A n \in 0..LeadOut : n + 150 \in Times /\ (n + 150) - 150 = n
  BY TrackAssumption DEF LeadOut, Times
<1>2. ASSUME NEW n \in 0..LeadOut
      PROVE  Tells(lba_to_msf(n + 150), n)
  <2>1. PICK m, t : m = n + 150 /\ t = lba_to_msf(m)
    OBVIOUS
  <2>2. m \in Times /\ m - 150 = n
    BY <1>1, <2>1, Zenon
  <2>3. t \in Seq(Bytes) /\ Len(t) = 3 /\ msf_to_lbafm(t[1], t[2], t[3]) = m - 150
    BY <2>1, <2>2, MsfBytes
  <2>4. Tells(t, n)
    BY <2>2, <2>3 DEF Tells
  <2> QED
    BY <2>1, <2>4, Zenon
<1>3. j.first \in 0..LeadOut /\ j.last \in 0..LeadOut
  BY JobsAssumption
<1>4. PICK a, b : a = lba_to_msf(j.first + 150) /\ b = lba_to_msf(j.last + 150)
  OBVIOUS
<1>5. Tells(a, j.first) /\ Tells(b, j.last)
  BY <1>2, <1>3, <1>4, Zenon
<1>6. Parameters(j) = a \o b \o <<0, 0>>
  BY <1>4 DEF Parameters
<1>7. PICK p : p = Parameters(j)
  OBVIOUS
<1>8. StartsWith(p, a, b)
  <2>1. a \in Seq(Bytes) /\ Len(a) = 3 /\ b \in Seq(Bytes) /\ Len(b) = 3
    BY <1>5, Zenon DEF Tells
  <2> QED
    BY <1>6, <1>7, <2>1, EightOf, Zenon
<1> QED
  BY <1>5, <1>7, <1>8, Zenon DEF Tells, StartsWith

-----------------------------------------------------------------------------
(* The controller's record *)

LEMMA Bounds ==
  /\ SectorBytes \in Nat \ {0}
  /\ LeadOut \in Nat /\ \A n \in 0..(LeadOut + 151) : n \in Times
  /\ get_last_track \in Nat /\ get_last_track >= 1 /\ get_last_track <= 99
<1>1. SectorBytes \in Nat \ {0}
  BY SectorAssumption
<1>2. LeadOut \in Nat /\ LeadOut < 100 * 4500 - 151
  <2>1. PICK i \in 1..Len(TrackStart) : i = Len(TrackStart)
    BY TrackAssumption
  <2>2. TrackStart[i] \in Nat /\ TrackStart[i] < 100 * 4500 - 151
    BY TrackAssumption
  <2> QED
    BY <2>1, <2>2 DEF LeadOut
<1>3. get_last_track \in Nat /\ get_last_track >= 1 /\ get_last_track <= 99
  <2>1. TrackStart \in Seq(Nat) /\ Len(TrackStart) > 1 /\ Len(TrackStart) <= 100
    BY TrackAssumption
  <2> QED
    BY <2>1 DEF get_last_track
<1>4. \A n \in 0..(LeadOut + 151) : n \in Times
  BY <1>2 DEF Times
<1> QED
  BY <1>1, <1>2, <1>3, <1>4

Extras == 0..(8 + 2 * get_last_track)
Flags  == [mpu : BOOLEAN, dma : BOOLEAN, softtx : BOOLEAN, dmatx : BOOLEAN,
           req : BOOLEAN, ready : BOOLEAN]
Cds == [command : Commands, status : Flags,
        cmd_status : Quads, cmd_status_ptr : 0..3, extra_status : Extras,
        parameter : Eights, software_tx : BOOLEAN,
        buffer : -1..LeadOut, buffer_ptr : -1..SectorBytes,
        lba_current : 0..LeadOut, lba_last : 0..LeadOut,
        cdda_current : Int, cdda_length : Int, ir1 : BOOLEAN,
        status_timer : BOOLEAN, seek_timer : BOOLEAN, cdda_timer : BOOLEAN,
        read_timer : -1..1]

\* c and d agree on the request, the player and the transfer.
SameDrive(c, d) ==
  /\ d.command = c.command /\ d.parameter = c.parameter
  /\ d.cdda_current = c.cdda_current /\ d.cdda_timer = c.cdda_timer
  /\ d.software_tx = c.software_tx /\ d.buffer = c.buffer /\ d.buffer_ptr = c.buffer_ptr
  /\ d.lba_current = c.lba_current /\ d.lba_last = c.lba_last
  /\ d.read_timer = c.read_timer

\* They agree on the answer in the status bytes.
SameAnswer(c, d) ==
  /\ d.cmd_status = c.cmd_status /\ d.cmd_status_ptr = c.cmd_status_ptr
  /\ d.extra_status = c.extra_status
  /\ d.status.req = c.status.req /\ d.status_timer = c.status_timer

\* d is c with a new answer.
Answered(c, d, extra, bytes) ==
  /\ SameDrive(c, d) /\ d.seek_timer = c.seek_timer /\ d.ir1 = c.ir1
  /\ d.cmd_status = bytes /\ d.extra_status = extra
  /\ d.cmd_status_ptr = c.cmd_status_ptr
  /\ d.status.req = c.status.req /\ d.status_timer

LEMMA AnswerFields ==
  ASSUME NEW c \in Cds, NEW extra \in Extras, NEW bytes \in Quads
  PROVE  /\ Answer(c, extra, bytes) \in Cds
         /\ Answered(c, Answer(c, extra, bytes), extra, bytes)
<1> DEFINE d == Answer(c, extra, bytes)
<1>1. d \in Cds
  BY DEF Answer, towns_cd_set_status, Cds
<1>2. SameDrive(c, d)
  BY DEF Answer, towns_cd_set_status, Cds, SameDrive
<1>3. /\ d.seek_timer = c.seek_timer /\ d.ir1 = c.ir1
      /\ d.cmd_status = bytes /\ d.extra_status = extra
      /\ d.cmd_status_ptr = c.cmd_status_ptr
      /\ d.status.req = c.status.req /\ d.status_timer
  BY DEF Answer, towns_cd_set_status, Cds
<1> QED
  BY <1>1, <1>2, <1>3, Zenon DEF Answered

LEMMA IrqFields ==
  ASSUME NEW c \in Cds, NEW source \in {"mpu", "dma"}, NEW state \in BOOLEAN
  PROVE  LET d == towns_cdrom_set_irq(c, source, state)
         IN /\ d \in Cds /\ SameDrive(c, d) /\ SameAnswer(c, d)
            /\ d.seek_timer = c.seek_timer
            /\ state => d.ir1 = (c.ir1 \/ c.command.irq)
<1> DEFINE d == towns_cdrom_set_irq(c, source, state)
<1>1. c.command.irq \in BOOLEAN /\ c.ir1 \in BOOLEAN
  BY DEF Cds, Commands
<1>2. d.status \in Flags /\ d.status.req = c.status.req
  BY DEF towns_cdrom_set_irq, Cds, Flags
<1>3. d.ir1 \in BOOLEAN
  BY <1>1 DEF towns_cdrom_set_irq, Cds
<1>4. d \in Cds
  BY <1>2, <1>3 DEF towns_cdrom_set_irq, Cds
<1>5. SameDrive(c, d)
  BY DEF towns_cdrom_set_irq, Cds, SameDrive
<1>6. SameAnswer(c, d) /\ d.seek_timer = c.seek_timer
  BY <1>2 DEF towns_cdrom_set_irq, Cds, SameAnswer
<1>7. state => d.ir1 = (c.ir1 \/ c.command.irq)
  BY DEF towns_cdrom_set_irq, Cds
<1> QED
  BY <1>4, <1>5, <1>6, <1>7, Zenon

\* The end of a sector: d waits for its answer, code, to be read.
SectorEnded(c, d, code) ==
  /\ d.command = c.command /\ d.parameter = c.parameter
  /\ d.cdda_current = c.cdda_current /\ d.cdda_timer = c.cdda_timer
  /\ d.software_tx = c.software_tx /\ d.lba_last = c.lba_last
  /\ d.seek_timer = c.seek_timer /\ d.cmd_status_ptr = c.cmd_status_ptr
  /\ d.status.req = c.status.req /\ d.status_timer /\ d.extra_status = 0
  /\ d.buffer_ptr = -1 /\ d.cmd_status[1] = code
  /\ d.ir1 = (c.ir1 \/ c.command.irq)

LEMMA EndFields ==
  ASSUME NEW c \in Cds, NEW more \in Bytes, c.lba_current <= c.lba_last
  PROVE  LET d == EndOfSector(c, more)
         IN /\ d \in Cds /\ d.read_timer = c.read_timer
            /\ c.lba_current = c.lba_last =>
                 SectorEnded(c, d, 6) /\ d.lba_current = c.lba_current
            /\ c.lba_current # c.lba_last =>
                 /\ SectorEnded(c, d, more)
                 /\ d.lba_current = c.lba_current + 1 /\ d.buffer = c.lba_current + 1
<1>1. PICK six, code : six = <<6, 0, 0, 0>> /\ code = <<more, 0, 0, 0>>
  OBVIOUS
<1> DEFINE idle == [c EXCEPT !.status.dmatx = FALSE, !.status.softtx = FALSE, !.buffer_ptr = -1]
           next == [idle EXCEPT !.lba_current = @ + 1, !.buffer = c.lba_current + 1]
           Kept(d) == /\ d.command = c.command /\ d.parameter = c.parameter
                      /\ d.cdda_current = c.cdda_current /\ d.cdda_timer = c.cdda_timer
                      /\ d.software_tx = c.software_tx /\ d.lba_last = c.lba_last
                      /\ d.seek_timer = c.seek_timer /\ d.cmd_status_ptr = c.cmd_status_ptr
                      /\ d.status.req = c.status.req /\ d.buffer_ptr = -1
                      /\ d.ir1 = c.ir1 /\ d.read_timer = c.read_timer
<1>2. six \in Quads /\ six[1] = 6 /\ code \in Quads /\ code[1] = more
  BY <1>1, Quad, ByteFacts
<1>3. /\ LeadOut \in Nat /\ SectorBytes \in Nat /\ 0 \in Extras
      /\ c.lba_current \in 0..LeadOut /\ c.lba_last \in 0..LeadOut
  BY Bounds DEF Cds, Extras
<1>4. idle \in Cds /\ idle.status.req = c.status.req
  <2>1. idle.status \in Flags /\ idle.status.req = c.status.req
    BY DEF Cds, Flags
  <2>2. -1 \in -1..SectorBytes
    BY <1>3
  <2> QED
    BY <2>1, <2>2 DEF Cds
<1>5. Kept(idle) /\ idle.lba_current = c.lba_current
  BY <1>4 DEF Cds
<1>6. ASSUME NEW d \in Cds, Kept(d), NEW code1 \in Quads, NEW n, code1[1] = n
      PROVE  LET e == towns_cdrom_set_irq(Answer(d, 0, code1), "dma", TRUE)
             IN /\ e \in Cds /\ SectorEnded(c, e, n) /\ e.read_timer = c.read_timer
                /\ e.lba_current = d.lba_current /\ e.buffer = d.buffer
  <2>1. PICK a : a = Answer(d, 0, code1)
    OBVIOUS
  <2>2. PICK e : e = towns_cdrom_set_irq(a, "dma", TRUE)
    OBVIOUS
  <2>3. a \in Cds /\ Answered(d, a, 0, code1)
    BY <1>3, <1>6, <2>1, AnswerFields, Zenon
  <2>4. /\ e \in Cds /\ SameDrive(a, e) /\ SameAnswer(a, e)
        /\ e.seek_timer = a.seek_timer /\ e.ir1 = (a.ir1 \/ a.command.irq)
    BY <2>2, <2>3, IrqFields, Zenon
  <2> HIDE DEF idle, next
  <2>5. SectorEnded(c, e, n)
    BY <1>6, <2>3, <2>4 DEF Answered, SameDrive, SameAnswer, SectorEnded
  <2>6. e.lba_current = d.lba_current /\ e.buffer = d.buffer /\ e.read_timer = c.read_timer
    BY <1>6, <2>3, <2>4 DEF Answered, SameDrive
  <2> QED
    BY <2>1, <2>2, <2>4, <2>5, <2>6, Zenon
<1>7. CASE c.lba_current = c.lba_last
  <2>1. PICK i : i = towns_cdrom_set_irq(Answer(idle, 0, six), "dma", TRUE)
    OBVIOUS
  <2>2. PICK e : e = [i EXCEPT !.status.ready = TRUE]
    OBVIOUS
  <2>3. EndOfSector(c, more) = e
    BY <1>1, <1>3, <1>7, <2>1, <2>2 DEF EndOfSector
  <2>4. /\ i \in Cds /\ SectorEnded(c, i, 6) /\ i.read_timer = c.read_timer
        /\ i.lba_current = c.lba_current
    BY <1>2, <1>4, <1>5, <1>6, <2>1, Zenon
  <2>5. e \in Cds /\ e.read_timer = i.read_timer /\ e.lba_current = i.lba_current
    BY <2>2, <2>4 DEF Cds, Flags
  <2>6. SameDrive(i, e) /\ SameAnswer(i, e) /\ e.seek_timer = i.seek_timer /\ e.ir1 = i.ir1
    BY <2>2, <2>4 DEF SameDrive, SameAnswer, Cds, Flags
  <2>7. SectorEnded(c, e, 6)
    BY <2>4, <2>6, Zenon DEF SectorEnded, SameDrive, SameAnswer
  <2> QED
    BY <1>7, <2>3, <2>4, <2>5, <2>7, Zenon
<1>8. CASE c.lba_current # c.lba_last
  <2>0. EndOfSector(c, more) = towns_cdrom_set_irq(Answer(next, 0, code), "dma", TRUE)
    <3>1. ~(c.lba_current >= c.lba_last)
      BY <1>3, <1>8
    <3> QED
      BY <1>1, <3>1, Zenon DEF EndOfSector
  <2>1. PICK d : d = idle
    OBVIOUS
  <2>2. next = [d EXCEPT !.lba_current = @ + 1, !.buffer = c.lba_current + 1]
    BY <2>1, Zenon
  <2> HIDE DEF idle, next
  <2>3. d \in Cds /\ Kept(d) /\ d.lba_current = c.lba_current
    BY <1>4, <1>5, <2>1, Zenon
  <2>4. c.lba_current + 1 \in 0..LeadOut /\ c.lba_current + 1 \in -1..LeadOut
    BY <1>3, <1>8
  <2>5. next \in Cds /\ next.lba_current = c.lba_current + 1 /\ next.buffer = c.lba_current + 1
    BY <2>2, <2>3, <2>4 DEF Cds
  <2>6. Kept(next)
    BY <2>2, <2>3 DEF Cds
  <2>7. LET e == towns_cdrom_set_irq(Answer(next, 0, code), "dma", TRUE)
        IN /\ e \in Cds /\ SectorEnded(c, e, more) /\ e.read_timer = c.read_timer
           /\ e.lba_current = next.lba_current /\ e.buffer = next.buffer
    BY <1>2, <1>6, <2>5, <2>6, Zenon
  <2> QED
    BY <1>8, <2>0, <2>5, <2>7, Zenon
<1> QED
  BY <1>7, <1>8, Zenon

-----------------------------------------------------------------------------
(* The answers that follow the first *)

Less == {ss \in Nat \X Nat : ss[1] < ss[2]}

LEMMA LeastOf ==
  ASSUME NEW S, S \subseteq Nat, S # {}
  PROVE  \E x \in S : \A y \in S : x <= y
<1>1. Less = OpToRel(<, Nat)
  BY Zenon DEF OpToRel, Less
<1>2. IsWellFoundedOn(Less, Nat)
  BY <1>1, NatLessThanWellFounded, Zenon
<1>3. PICK x \in S : \A y \in S : ~(<<y, x>> \in Less)
  BY <1>2, WFMin
<1>4. ASSUME NEW y \in S PROVE x <= y
  <2>1. x \in Nat /\ y \in Nat /\ <<y, x>> \in Nat \X Nat
    OBVIOUS
  <2>2. ~(y < x)
    BY <1>3, <2>1, Zenon DEF Less
  <2> QED
    BY <2>1, <2>2
<1> QED
  BY <1>4

LEMMA TrackByte ==
  ASSUME NEW lba
  PROVE  towns_cd_get_track(lba) \in Bytes
<1> DEFINE after == {t \in 1..get_last_track : get_track_start(t) > lba}
<1>1. CASE after = {}
  BY <1>1, ByteFacts, Zenon DEF towns_cd_get_track
<1>2. CASE after # {}
  <2>1. after \subseteq Nat
    BY Bounds
  <2>2. Min(after) \in after
    BY <1>2, <2>1, LeastOf DEF Min
  <2>3. Min(after) \in 1..get_last_track
    BY <2>2, Zenon
  <2>4. towns_cd_get_track(lba) = Min(after)
    BY <1>2, Zenon DEF towns_cd_get_track
  <2> HIDE DEF after
  <2> QED
    BY <2>3, <2>4, Bounds, ByteRange
<1> QED
  BY <1>1, <1>2, Zenon

LEMMA AdrByte ==
  ASSUME NEW track \in 0..get_last_track
  PROVE  SwappedAdr(track) \in Bytes
<1>1. track + 1 \in 1..Len(TrackStart)
  BY Bounds, TrackAssumption DEF get_last_track
<1>2. AdrControl \in [1..Len(TrackStart) -> Bytes]
  BY TrackAssumption, Zenon
<1>3. PICK adr : adr = AdrControl[track + 1]
  OBVIOUS
<1>4. adr \in Bytes
  BY <1>1, <1>2, <1>3, Zenon
<1>5. adr \in Nat /\ adr < 256
  BY <1>4, ByteRange
<1>6. (adr % 16) * 16 + (adr \div 16) \in Nat /\ (adr % 16) * 16 + (adr \div 16) < 256
  BY <1>5
<1>7. (adr % 16) * 16 + (adr \div 16) \in Bytes
  BY <1>6, ByteRange
<1> QED
  BY <1>3, <1>7, Zenon DEF SwappedAdr

LEMMA StartTime ==
  ASSUME NEW track \in 0..get_last_track
  PROVE  get_track_start(track) + 150 \in Times
<1>1. PICK i : i = track + 1
  OBVIOUS
<1>2. i \in 1..Len(TrackStart)
  BY <1>1, Bounds, TrackAssumption DEF get_last_track
<1>3. TrackStart[i] \in Nat /\ TrackStart[i] < 100 * 4500 - 151
  BY <1>2, TrackAssumption
<1>4. TrackStart[i] + 150 \in Times
  BY <1>3 DEF Times
<1> QED
  BY <1>1, <1>4, Zenon DEF get_track_start

\* A code and a time.
LEMMA TimeQuad ==
  ASSUME NEW x \in Bytes, NEW lba \in Times
  PROVE  <<x>> \o lba_to_msf(lba) \in Quads /\ (<<x>> \o lba_to_msf(lba))[1] = x
<1>1. PICK t : t = lba_to_msf(lba)
  OBVIOUS
<1>2. t \in Seq(Bytes) /\ Len(t) = 3
  BY <1>1, MsfBytes, Zenon
<1> QED
  BY <1>1, <1>2, PrefixedQuad, Zenon

TocNumbers == 1..(8 + 2 * get_last_track)

LEMMA TocQuad ==
  ASSUME NEW n \in TocNumbers
  PROVE  TocBytes(n) \in Quads /\ TocBytes(n)[1] \in {\h16, \h17}
<1>1. CASE n \in {1, 2, 3, 5}
  BY <1>1, Quad, ByteFacts DEF TocBytes
<1>2. CASE n = 4
  <2>1. byte_to_bcd(get_last_track) \in Bytes
    BY BcdByte, Bounds
  <2> QED
    BY <1>2, <2>1, Quad, ByteFacts DEF TocBytes
<1>3. CASE n = 6
  <2>1. TocBytes(n) = <<\h17>> \o lba_to_msf(LeadOut + 150)
    BY <1>3 DEF TocBytes
  <2>2. LeadOut + 150 \in Times
    BY Bounds
  <2>3. \h17 \in Bytes
    BY ByteFacts
  <2>4. TocBytes(n) \in Quads /\ TocBytes(n)[1] = \h17
    BY <2>1, <2>2, <2>3, TimeQuad
  <2> QED
    BY <2>4
<1>4. CASE n > 6 /\ n % 2 = 1
  <2>1. /\ (n \div 2) - 3 \in 0..get_last_track
        /\ (n \div 2) - 2 \in 0..100
    BY <1>4, Bounds DEF TocNumbers
  <2>2. TocBytes(n) = <<\h16, SwappedAdr((n \div 2) - 3), byte_to_bcd((n \div 2) - 2), 0>>
    BY <1>4 DEF TocBytes
  <2>3. SwappedAdr((n \div 2) - 3) \in Bytes /\ byte_to_bcd((n \div 2) - 2) \in Bytes
    BY <2>1, AdrByte, BcdByte, Zenon
  <2>4. \h16 \in Bytes /\ 0 \in Bytes
    BY ByteFacts
  <2>5. TocBytes(n) \in Quads /\ TocBytes(n)[1] = \h16
    BY <2>2, <2>3, <2>4, Quad
  <2> QED
    BY <2>5
<1>5. CASE n > 6 /\ n % 2 = 0
  <2>1. PICK track \in 0..get_last_track : track = (n \div 2) - 4
    BY <1>5, Bounds DEF TocNumbers
  <2>2. TocBytes(n) = <<\h17>> \o lba_to_msf(get_track_start(track) + 150)
    BY <1>5, <2>1 DEF TocBytes
  <2>3. get_track_start(track) + 150 \in Times
    BY StartTime, Zenon
  <2>4. \h17 \in Bytes
    BY ByteFacts
  <2>5. TocBytes(n) \in Quads /\ TocBytes(n)[1] = \h17
    BY <2>2, <2>3, <2>4, TimeQuad
  <2> QED
    BY <2>5
<1> QED
  BY <1>1, <1>2, <1>3, <1>4, <1>5 DEF TocNumbers

LEMMA TocExtra ==
  ASSUME NEW n \in TocNumbers
  PROVE  /\ TocNext(n) \in Extras
         /\ n < 8 + 2 * get_last_track => TocNext(n) = n + 1
         /\ n = 8 + 2 * get_last_track => TocNext(n) = 0
BY Bounds DEF TocNext, TocNumbers, Extras

\* What is played is on the disc, and cdda_current is where it began.
Cddas == [playing : BOOLEAN, pause : BOOLEAN, ended : BOOLEAN, lba : Nat, length : Nat]
Player ==
  /\ cdda \in Cddas /\ cdda.lba + cdda.length <= LeadOut + 1
  /\ cd.cdda_current \in 0..cdda.lba

LEMMA StateQuad ==
  ASSUME Player, NEW n \in 1..4
  PROVE  CddaStateBytes(n) \in Quads /\ CddaStateBytes(n)[1] \in {\h18, \h19, \h20}
<1>1. PICK from, lba, at : from = lba - cd.cdda_current /\ lba = cdda.lba /\ at = lba_to_msf(lba)
  OBVIOUS
<1>2. lba \in Times /\ from \in Times
  <2>1. lba \in 0..(LeadOut + 151) /\ from \in 0..(LeadOut + 151)
    BY <1>1, Bounds DEF Player, Cddas
  <2> QED
    BY <2>1, Bounds, Zenon
<1>3. PICK m \in Bytes, s \in Bytes, f \in Bytes : m = at[1] /\ s = at[2] /\ f = at[3]
  BY <1>1, <1>2, MsfBytes
<1>4. PICK track \in Bytes : track = towns_cd_get_track(lba)
  BY TrackByte
<1>5. CASE n = 1
  <2>1. CddaStateBytes(n) = <<\h18, 0, track, 0>>
    BY <1>1, <1>4, <1>5 DEF CddaStateBytes
  <2>2. \h18 \in Bytes /\ 0 \in Bytes
    BY ByteFacts
  <2>3. CddaStateBytes(n) \in Quads /\ CddaStateBytes(n)[1] = \h18
    BY <2>1, <2>2, Quad
  <2> QED
    BY <2>3
<1>6. CASE n = 2
  <2>1. CddaStateBytes(n) = <<\h19>> \o lba_to_msf(from)
    BY <1>1, <1>6 DEF CddaStateBytes
  <2>2. \h19 \in Bytes
    BY ByteFacts
  <2>3. CddaStateBytes(n) \in Quads /\ CddaStateBytes(n)[1] = \h19
    BY <1>2, <2>1, <2>2, TimeQuad
  <2> QED
    BY <2>3
<1>7. CASE n = 3
  <2>1. CddaStateBytes(n) = <<\h19, 0, m, s>>
    BY <1>1, <1>3, <1>7 DEF CddaStateBytes
  <2>2. \h19 \in Bytes /\ 0 \in Bytes
    BY ByteFacts
  <2>3. CddaStateBytes(n) \in Quads /\ CddaStateBytes(n)[1] = \h19
    BY <2>1, <2>2, Quad
  <2> QED
    BY <2>3
<1>8. CASE n = 4
  <2>1. CddaStateBytes(n) = <<\h20, f, 0, 0>>
    BY <1>1, <1>3, <1>8 DEF CddaStateBytes
  <2>2. \h20 \in Bytes /\ 0 \in Bytes
    BY ByteFacts
  <2>3. CddaStateBytes(n) \in Quads /\ CddaStateBytes(n)[1] = \h20
    BY <2>1, <2>2, Quad
  <2> QED
    BY <2>3
<1> QED
  BY <1>5, <1>6, <1>7, <1>8

\* What follows the fourth byte of an answer whose extra_status is not zero.
Follows(c, d) ==
  LET n == c.extra_status
      New(extra, codes) == \E q \in Quads : q[1] \in codes /\ Answered(c, d, extra, q)
  IN CASE c.command.op = "read" ->
            IF n = 2 THEN New(0, {\h22}) ELSE d = [c EXCEPT !.extra_status = 0]
       [] c.command.op = "play" -> New(0, {0, 7})
       [] c.command.op = "toc" -> Answered(c, d, TocNext(n), TocBytes(n))
       [] c.command.op = "cddastate" ->
            IF n \in 1..4 THEN New(IF n = 4 THEN 0 ELSE n + 1, {\h18, \h19, \h20}) ELSE d = c
       [] c.command.op = "stop84" -> New(0, {\h11})
       [] c.command.op = "stop85" -> New(0, {\h12})
       [] OTHER -> d = c

LEMMA FollowFields ==
  ASSUME Player, NEW c \in Cds, c.extra_status # 0
  PROVE  FollowUp(c) \in Cds /\ Follows(c, FollowUp(c))
<1>0. PICK n : n = c.extra_status
  OBVIOUS
<1>1. n \in TocNumbers /\ 0 \in Extras /\ n \in Extras
  BY <1>0, Bounds DEF Cds, Extras, TocNumbers
<1>2. ASSUME NEW extra \in Extras, NEW q \in Quads, FollowUp(c) = Answer(c, extra, q)
      PROVE  FollowUp(c) \in Cds /\ Answered(c, FollowUp(c), extra, q)
  BY <1>2, AnswerFields, Zenon
<1>3. CASE c.command.op = "read"
  <2>1. CASE n = 2
    <3>1. PICK q : q = <<\h22, 0, 0, 0>>
      OBVIOUS
    <3>2. q \in Quads /\ q[1] = \h22
      BY <3>1, Quad, ByteFacts
    <3>3. FollowUp(c) = Answer(c, 0, q)
      BY <1>0, <1>3, <2>1, <3>1 DEF FollowUp
    <3>4. FollowUp(c) \in Cds /\ Answered(c, FollowUp(c), 0, q)
      BY <1>1, <1>2, <3>2, <3>3, Zenon
    <3> QED
      BY <1>0, <1>3, <2>1, <3>2, <3>4 DEF Follows
  <2>2. CASE n # 2
    <3>1. FollowUp(c) = [c EXCEPT !.extra_status = 0]
      BY <1>0, <1>3, <2>2 DEF FollowUp
    <3>2. [c EXCEPT !.extra_status = 0] \in Cds
      BY <1>1 DEF Cds
    <3> QED
      BY <1>0, <1>3, <2>2, <3>1, <3>2 DEF Follows
  <2> QED
    BY <2>1, <2>2
<1>4. CASE c.command.op = "play"
  <2>1. PICK q : q = IF cdda.ended THEN <<7, 0, 0, 0>> ELSE <<0, 0, 3, 0>>
    OBVIOUS
  <2>2. q \in Quads /\ q[1] \in {0, 7}
    <3>1. 0 \in Bytes /\ 3 \in Bytes /\ 7 \in Bytes
      BY ByteFacts
    <3> QED
      BY <2>1, <3>1, Quad
  <2>3. FollowUp(c) = Answer(c, 0, q)
    BY <1>4, <2>1 DEF FollowUp
  <2>4. FollowUp(c) \in Cds /\ Answered(c, FollowUp(c), 0, q)
    BY <1>1, <1>2, <2>2, <2>3, Zenon
  <2> QED
    BY <1>4, <2>2, <2>4 DEF Follows
<1>5. CASE c.command.op = "toc"
  <2>1. FollowUp(c) = Answer(c, TocNext(n), TocBytes(n))
    BY <1>0, <1>5 DEF FollowUp
  <2>2. FollowUp(c) \in Cds /\ Answered(c, FollowUp(c), TocNext(n), TocBytes(n))
    BY <1>1, <1>2, <2>1, TocQuad, TocExtra, Zenon
  <2> QED
    BY <1>0, <1>5, <2>2 DEF Follows
<1>6. CASE c.command.op = "cddastate"
  <2>1. CASE n \in 1..4
    <3>1. PICK q, extra : q = CddaStateBytes(n) /\ extra = IF n = 4 THEN 0 ELSE n + 1
      OBVIOUS
    <3>2. q \in Quads /\ q[1] \in {\h18, \h19, \h20}
      BY <2>1, <3>1, StateQuad, Zenon
    <3>3. extra \in Extras
      BY <2>1, <3>1, Bounds DEF Extras
    <3>4. FollowUp(c) = Answer(c, extra, q)
      BY <1>0, <1>6, <2>1, <3>1 DEF FollowUp
    <3>5. FollowUp(c) \in Cds /\ Answered(c, FollowUp(c), extra, q)
      BY <1>2, <3>2, <3>3, <3>4, Zenon
    <3> QED
      BY <1>0, <1>6, <2>1, <3>1, <3>2, <3>5 DEF Follows
  <2>2. CASE n \notin 1..4
    BY <1>0, <1>6, <2>2 DEF Follows, FollowUp
  <2> QED
    BY <2>1, <2>2
<1>7. CASE c.command.op \in {"stop84", "stop85"}
  <2>1. PICK q : q = <<IF c.command.op = "stop84" THEN \h11 ELSE \h12, 0, 0, 0>>
    OBVIOUS
  <2>2. q \in Quads /\ q[1] = IF c.command.op = "stop84" THEN \h11 ELSE \h12
    <3>1. PICK b : b = IF c.command.op = "stop84" THEN \h11 ELSE \h12
      OBVIOUS
    <3>2. \h11 \in Bytes /\ \h12 \in Bytes /\ 0 \in Bytes
      BY ByteFacts
    <3>3. b \in Bytes
      BY <3>1, <3>2, Zenon
    <3>4. q = <<b, 0, 0, 0>>
      BY <2>1, <3>1, Zenon
    <3>5. q \in Quads /\ q[1] = b
      BY <3>2, <3>3, <3>4, Quad
    <3> QED
      BY <3>1, <3>5, Zenon
  <2>3. FollowUp(c) = Answer(c, 0, q)
    BY <1>7, <2>1 DEF FollowUp
  <2>4. FollowUp(c) \in Cds /\ Answered(c, FollowUp(c), 0, q)
    BY <1>1, <1>2, <2>2, <2>3, Zenon
  <2> QED
    BY <1>7, <2>2, <2>4 DEF Follows
<1>8. CASE c.command.op \notin {"read", "play", "toc", "cddastate", "stop84", "stop85"}
  BY <1>8 DEF Follows, FollowUp
<1> QED
  BY <1>3, <1>4, <1>5, <1>6, <1>7, <1>8

\* The fourth byte of an answer is read: c before, d after it.
Fourth(c, d) ==
  LET n == c.extra_status
      None == ~d.status_timer
      New(extra, codes) == /\ d.status_timer /\ d.extra_status = extra
                           /\ d.cmd_status[1] \in codes
  IN IF n = 0 THEN None
     ELSE CASE c.command.op = "read" -> IF n = 2 THEN New(0, {\h22}) ELSE None
            [] c.command.op = "play" -> New(0, {0, 7})
            [] c.command.op = "toc" -> /\ d.status_timer /\ d.extra_status = TocNext(n)
                                       /\ d.cmd_status = TocBytes(n)
            [] c.command.op = "cddastate" ->
                 IF n \in 1..4 THEN New(IF n = 4 THEN 0 ELSE n + 1, {\h18, \h19, \h20}) ELSE None
            [] c.command.op = "stop84" -> New(0, {\h11})
            [] c.command.op = "stop85" -> New(0, {\h12})
            [] OTHER -> None

LEMMA FourthFields ==
  ASSUME Player, NEW c \in Cds, c.cmd_status_ptr = 3, ~c.status_timer
  PROVE  LET d == command_status_read(c)
         IN /\ d \in Cds /\ SameDrive(c, d) /\ ~d.status.req /\ d.seek_timer = c.seek_timer
            /\ Fourth(c, d)
<1>1. PICK told : told = [c EXCEPT !.status.req = FALSE]
  OBVIOUS
<1>2. PICK more : more = IF c.extra_status # 0 THEN FollowUp(told) ELSE told
  OBVIOUS
<1>3. PICK d : d = [more EXCEPT !.cmd_status_ptr = 0]
  OBVIOUS
<1>4. command_status_read(c) = d
  <2>1. c.cmd_status_ptr >= 3
    OBVIOUS
  <2> QED
    BY <1>1, <1>2, <1>3, <2>1, Zenon DEF command_status_read
<1>5. /\ told \in Cds /\ SameDrive(c, told) /\ ~told.status.req
      /\ told.status_timer = c.status_timer /\ told.seek_timer = c.seek_timer
      /\ told.extra_status = c.extra_status
  <2>1. told.status \in Flags /\ told.status.req = FALSE
    BY <1>1 DEF Cds, Flags
  <2>2. told \in Cds
    BY <1>1, <2>1 DEF Cds
  <2>3. SameDrive(c, told)
    BY <1>1 DEF Cds, SameDrive
  <2>4. /\ told.status_timer = c.status_timer /\ told.seek_timer = c.seek_timer
        /\ told.extra_status = c.extra_status
    BY <1>1 DEF Cds
  <2> QED
    BY <2>1, <2>2, <2>3, <2>4
<1>6. ASSUME more \in Cds
      PROVE  /\ d \in Cds /\ SameDrive(more, d) /\ d.status.req = more.status.req
             /\ d.seek_timer = more.seek_timer /\ d.status_timer = more.status_timer
             /\ d.extra_status = more.extra_status /\ d.cmd_status = more.cmd_status
  <2>1. 0 \in 0..3
    OBVIOUS
  <2>2. d \in Cds
    BY <1>3, <1>6, <2>1 DEF Cds
  <2>3. SameDrive(more, d)
    BY <1>3, <1>6 DEF Cds, SameDrive
  <2>4. /\ d.status.req = more.status.req
        /\ d.seek_timer = more.seek_timer /\ d.status_timer = more.status_timer
        /\ d.extra_status = more.extra_status /\ d.cmd_status = more.cmd_status
    BY <1>3, <1>6 DEF Cds
  <2> QED
    BY <2>2, <2>3, <2>4
<1>7. ASSUME more \in Cds, SameDrive(told, more), ~more.status.req,
             more.seek_timer = told.seek_timer, Fourth(c, d)
      PROVE  /\ d \in Cds /\ SameDrive(c, d) /\ ~d.status.req /\ d.seek_timer = c.seek_timer
             /\ Fourth(c, d)
  BY <1>5, <1>6, <1>7, Zenon DEF SameDrive
<1>8. ASSUME more \in Cds, SameDrive(told, more), ~more.status.req, ~more.status_timer,
             more.seek_timer = told.seek_timer,
             \/ c.extra_status = 0
             \/ c.command.op = "read" /\ c.extra_status # 2
             \/ c.command.op = "cddastate" /\ c.extra_status \notin 1..4
             \/ c.command.op \notin {"read", "play", "toc", "cddastate", "stop84", "stop85"}
      PROVE  /\ d \in Cds /\ SameDrive(c, d) /\ ~d.status.req /\ d.seek_timer = c.seek_timer
             /\ Fourth(c, d)
  <2>1. ~d.status_timer
    BY <1>6, <1>8, Zenon
  <2>2. Fourth(c, d)
    BY <1>8, <2>1 DEF Fourth
  <2> QED
    BY <1>7, <1>8, <2>2, Zenon
<1>9. CASE c.extra_status = 0
  <2>1. more = told
    BY <1>2, <1>9, Zenon
  <2>2. SameDrive(told, more)
    BY <2>1, Zenon DEF SameDrive
  <2> QED
    BY <1>4, <1>5, <1>8, <1>9, <2>1, <2>2, Zenon
<1>10. CASE c.extra_status # 0
  <2>1. more = FollowUp(told)
    BY <1>2, <1>10, Zenon
  <2>2. more \in Cds /\ Follows(told, more)
    BY <1>5, <1>10, <2>1, FollowFields, Zenon
  <2>3. told.command = c.command
    BY <1>5, Zenon DEF SameDrive
  <2>4. PICK n, op : n = c.extra_status /\ op = c.command.op
    OBVIOUS
  <2>5. told.extra_status = n /\ told.command.op = op /\ n # 0
    BY <1>5, <1>10, <2>3, <2>4, Zenon
  <2>6. ASSUME NEW extra, NEW q, Answered(told, more, extra, q)
        PROVE  /\ SameDrive(told, more) /\ ~more.status.req /\ more.seek_timer = told.seek_timer
               /\ d.status_timer /\ d.extra_status = extra /\ d.cmd_status = q
    BY <1>5, <1>6, <2>2, <2>6, Zenon DEF Answered
  <2>7. ASSUME more = told,
               \/ c.command.op = "cddastate" /\ c.extra_status \notin 1..4
               \/ c.command.op \notin {"read", "play", "toc", "cddastate", "stop84", "stop85"}
        PROVE  /\ d \in Cds /\ SameDrive(c, d) /\ ~d.status.req /\ d.seek_timer = c.seek_timer
               /\ Fourth(c, d)
    <3>1. SameDrive(told, more)
      BY <2>7, Zenon DEF SameDrive
    <3> QED
      BY <1>5, <1>8, <2>7, <3>1, Zenon
  <2>8. CASE op = "toc"
    <3>1. Answered(told, more, TocNext(n), TocBytes(n))
      BY <2>2, <2>5, <2>8 DEF Follows
    <3>2. /\ SameDrive(told, more) /\ ~more.status.req /\ more.seek_timer = told.seek_timer
          /\ d.status_timer /\ d.extra_status = TocNext(n) /\ d.cmd_status = TocBytes(n)
      BY <2>6, <3>1, Zenon
    <3>3. Fourth(c, d)
      BY <2>4, <2>5, <2>8, <3>2 DEF Fourth
    <3> QED
      BY <1>4, <1>7, <2>2, <3>2, <3>3, Zenon
  <2>9. CASE op = "read" /\ n # 2
    <3>1. more = [told EXCEPT !.extra_status = 0]
      BY <2>2, <2>5, <2>9 DEF Follows
    <3>2. /\ SameDrive(told, more) /\ more.status.req = told.status.req
          /\ more.status_timer = told.status_timer /\ more.seek_timer = told.seek_timer
      BY <1>5, <3>1 DEF Cds, SameDrive
    <3> QED
      BY <1>4, <1>5, <1>8, <2>2, <2>4, <2>9, <3>2, Zenon
  <2>10. ASSUME NEW extra, NEW codes,
                \E q \in Quads : q[1] \in codes /\ Answered(told, more, extra, q),
                d.status_timer /\ d.extra_status = extra /\ d.cmd_status[1] \in codes => Fourth(c, d)
         PROVE  /\ d \in Cds /\ SameDrive(c, d) /\ ~d.status.req /\ d.seek_timer = c.seek_timer
                /\ Fourth(c, d)
    <3>1. PICK q \in Quads : q[1] \in codes /\ Answered(told, more, extra, q)
      BY <2>10, Zenon
    <3>2. /\ SameDrive(told, more) /\ ~more.status.req /\ more.seek_timer = told.seek_timer
          /\ d.status_timer /\ d.extra_status = extra /\ d.cmd_status = q
      BY <2>6, <3>1, Zenon
    <3> QED
      BY <1>7, <2>2, <2>10, <3>1, <3>2, Zenon
  <2>11. CASE op = "read" /\ n = 2
    <3>1. \E q \in Quads : q[1] \in {\h22} /\ Answered(told, more, 0, q)
      BY <2>2, <2>5, <2>11 DEF Follows
    <3>2. d.status_timer /\ d.extra_status = 0 /\ d.cmd_status[1] \in {\h22} => Fourth(c, d)
      BY <2>4, <2>11 DEF Fourth
    <3> QED
      BY <1>4, <2>10, <3>1, <3>2, Zenon
  <2>12. CASE op = "play"
    <3>1. \E q \in Quads : q[1] \in {0, 7} /\ Answered(told, more, 0, q)
      BY <2>2, <2>5, <2>12 DEF Follows
    <3>2. d.status_timer /\ d.extra_status = 0 /\ d.cmd_status[1] \in {0, 7} => Fourth(c, d)
      BY <2>4, <2>5, <2>12 DEF Fourth
    <3> QED
      BY <1>4, <2>10, <3>1, <3>2, Zenon
  <2>13. CASE op = "cddastate" /\ n \in 1..4
    <3>1. PICK extra : extra = IF n = 4 THEN 0 ELSE n + 1
      OBVIOUS
    <3>2. \E q \in Quads : q[1] \in {\h18, \h19, \h20} /\ Answered(told, more, extra, q)
      BY <2>2, <2>5, <2>13, <3>1 DEF Follows
    <3>3. d.status_timer /\ d.extra_status = extra /\ d.cmd_status[1] \in {\h18, \h19, \h20} => Fourth(c, d)
      BY <2>4, <2>5, <2>13, <3>1 DEF Fourth
    <3> QED
      BY <1>4, <2>10, <3>2, <3>3, Zenon
  <2>14. CASE op = "stop84"
    <3>1. \E q \in Quads : q[1] \in {\h11} /\ Answered(told, more, 0, q)
      BY <2>2, <2>5, <2>14 DEF Follows
    <3>2. d.status_timer /\ d.extra_status = 0 /\ d.cmd_status[1] \in {\h11} => Fourth(c, d)
      BY <2>4, <2>5, <2>14 DEF Fourth
    <3> QED
      BY <1>4, <2>10, <3>1, <3>2, Zenon
  <2>15. CASE op = "stop85"
    <3>1. \E q \in Quads : q[1] \in {\h12} /\ Answered(told, more, 0, q)
      BY <2>2, <2>5, <2>15 DEF Follows
    <3>2. d.status_timer /\ d.extra_status = 0 /\ d.cmd_status[1] \in {\h12} => Fourth(c, d)
      BY <2>4, <2>5, <2>15 DEF Fourth
    <3> QED
      BY <1>4, <2>10, <3>1, <3>2, Zenon
  <2>16. CASE \/ op = "cddastate" /\ n \notin 1..4
              \/ op \notin {"read", "play", "toc", "cddastate", "stop84", "stop85"}
    <3>1. more = told
      BY <2>2, <2>5, <2>16 DEF Follows
    <3> QED
      BY <1>4, <2>4, <2>7, <2>16, <3>1, Zenon
  <2> QED
    BY <2>8, <2>9, <2>11, <2>12, <2>13, <2>14, <2>15, <2>16
<1> QED
  BY <1>9, <1>10, Zenon

-----------------------------------------------------------------------------
(* What a command leaves behind *)

\* d is k after a read command for the sectors first to last.
ReadTaken(k, d, first, last) ==
  /\ d.command = k.command /\ d.parameter = k.parameter
  /\ d.cdda_current = k.cdda_current /\ d.cdda_timer = k.cdda_timer
  /\ d.software_tx = k.software_tx /\ d.buffer_ptr = k.buffer_ptr
  /\ d.read_timer = k.read_timer /\ d.seek_timer = k.seek_timer
  /\ d.status.req = k.status.req /\ d.status_timer
  /\ d.lba_current = first /\ d.lba_last = last
  /\ first > last => d.cmd_status[1] = 1 /\ d.extra_status = 0
  /\ ~(first > last) =>
       /\ d.buffer = first
       /\ \/ d.cmd_status[1] = 0 /\ d.extra_status = 2
          \/ d.cmd_status[1] \in {\h21, \h22} /\ d.extra_status = 0

LEMMA ReadFields ==
  ASSUME NEW k \in Cds, NEW first \in 0..LeadOut, NEW last \in 0..LeadOut,
         first = FirstLba(k), last = LastLba(k)
  PROVE  /\ towns_cdrom_read(k) \in Cds
         /\ ReadTaken(k, towns_cdrom_read(k), first, last)
<1>1. PICK a : a = [k EXCEPT !.lba_current = first, !.lba_last = last]
  OBVIOUS
<1>2. a \in Cds /\ a.lba_current = first /\ a.lba_last = last
  BY <1>1 DEF Cds
<1>3. /\ a.command = k.command /\ a.parameter = k.parameter
      /\ a.cdda_current = k.cdda_current /\ a.cdda_timer = k.cdda_timer
      /\ a.software_tx = k.software_tx /\ a.buffer_ptr = k.buffer_ptr
      /\ a.read_timer = k.read_timer /\ a.seek_timer = k.seek_timer
      /\ a.status = k.status
  BY <1>1 DEF Cds
<1>4. 0 \in Extras /\ 2 \in Extras
  BY Bounds DEF Extras
<1>5. CASE first > last
  <2>1. PICK q : q = <<\h01, 0, 0, 0>>
    OBVIOUS
  <2>2. q \in Quads /\ q[1] = 1
    <3>1. \h01 \in Bytes /\ 0 \in Bytes
      BY ByteFacts
    <3> QED
      BY <2>1, <3>1, Quad
  <2>3. PICK d : d = Answer(a, 0, q)
    OBVIOUS
  <2>4. towns_cdrom_read(k) = d
    BY <1>1, <1>5, <2>1, <2>3, Zenon DEF towns_cdrom_read
  <2>5. d \in Cds /\ Answered(a, d, 0, q)
    BY <1>2, <1>4, <2>2, <2>3, AnswerFields, Zenon
  <2>6. ReadTaken(k, d, first, last)
    BY <1>2, <1>3, <1>5, <2>2, <2>5, Zenon DEF ReadTaken, Answered, SameDrive
  <2> QED
    BY <2>4, <2>5, <2>6, Zenon
<1>6. CASE ~(first > last)
  <2>1. PICK software \in BOOLEAN : software = k.software_tx
    BY DEF Cds
  <2>2. PICK b, r : b = [a EXCEPT !.buffer = first] /\ r = Transfer(b, software)
    OBVIOUS
  <2>3. /\ b \in Cds /\ b.buffer = first /\ b.lba_current = first /\ b.lba_last = last
        /\ b.command = k.command /\ b.parameter = k.parameter
        /\ b.cdda_current = k.cdda_current /\ b.cdda_timer = k.cdda_timer
        /\ b.software_tx = k.software_tx /\ b.buffer_ptr = k.buffer_ptr
        /\ b.read_timer = k.read_timer /\ b.seek_timer = k.seek_timer
        /\ b.status = k.status
    <3>1. first \in -1..LeadOut
      BY Bounds
    <3> QED
      BY <1>2, <1>3, <2>2, <3>1 DEF Cds
  <2>4. r \in Cds /\ r.status.req = b.status.req
    <3>1. PICK hard \in BOOLEAN : hard = ~software
      OBVIOUS
    <3>2. r = [b EXCEPT !.status.softtx = software, !.status.dmatx = hard]
      BY <2>2, <3>1, Zenon DEF Transfer
    <3>3. r.status \in Flags /\ r.status.req = b.status.req
      BY <2>3, <3>2 DEF Cds, Flags
    <3> QED
      BY <2>3, <3>2, <3>3 DEF Cds
  <2>5. /\ r.buffer = first /\ r.lba_current = first /\ r.lba_last = last
        /\ r.command = k.command /\ r.parameter = k.parameter
        /\ r.cdda_current = k.cdda_current /\ r.cdda_timer = k.cdda_timer
        /\ r.software_tx = k.software_tx /\ r.buffer_ptr = k.buffer_ptr
        /\ r.read_timer = k.read_timer /\ r.seek_timer = k.seek_timer
        /\ r.status.req = k.status.req
    BY <2>2, <2>3, <2>4 DEF Transfer, Cds
  <2>6. PICK code, extra :
           /\ code = IF k.command.st THEN 0 ELSE IF software THEN \h21 ELSE \h22
           /\ extra = IF k.command.st THEN 2 ELSE 0
    OBVIOUS
  <2>7. PICK q : q = <<code, 0, 0, 0>>
    OBVIOUS
  <2>8. q \in Quads /\ q[1] = code
    <3>1. code \in Bytes /\ 0 \in Bytes
      BY <2>6, ByteFacts
    <3> QED
      BY <2>7, <3>1, Quad
  <2>9. PICK d : d = Answer(r, extra, q)
    OBVIOUS
  <2>10. towns_cdrom_read(k) = d
    <3>1. CASE k.command.st
      <4>1. code = 0 /\ extra = 2
        BY <2>6, <3>1
      <4> QED
        BY <1>1, <1>6, <2>1, <2>2, <2>7, <2>9, <3>1, <4>1, Zenon DEF towns_cdrom_read
    <3>2. CASE ~k.command.st
      <4>1. extra = 0 /\ code = IF k.software_tx THEN \h21 ELSE \h22
        BY <2>1, <2>6, <3>2
      <4> QED
        BY <1>1, <1>6, <2>1, <2>2, <2>7, <2>9, <3>2, <4>1, Zenon DEF towns_cdrom_read
    <3> QED
      BY <3>1, <3>2
  <2>11. d \in Cds /\ Answered(r, d, extra, q)
    <3>1. extra \in Extras
      BY <1>4, <2>6
    <3> QED
      BY <2>4, <2>8, <2>9, <3>1, AnswerFields, Zenon
  <2>12. \/ d.cmd_status[1] = 0 /\ d.extra_status = 2
         \/ d.cmd_status[1] \in {\h21, \h22} /\ d.extra_status = 0
    BY <2>6, <2>8, <2>11 DEF Answered
  <2>13. ReadTaken(k, d, first, last)
    BY <1>6, <2>5, <2>11, <2>12, Zenon DEF ReadTaken, Answered, SameDrive
  <2> QED
    BY <2>10, <2>11, <2>13, Zenon
<1> QED
  BY <1>5, <1>6

Silents == {"seek", "unknown01", "setstate", "cddaset", "stop84", "stop85", "resume"}

LEMMA AckFields ==
  ASSUME NEW op \in Silents
  PROVE  /\ Acknowledged(op)[1] = IF op \in {"stop84", "stop85", "resume"} THEN 1 ELSE 0
         /\ Acknowledged(op)[1] \in Extras
         /\ Acknowledged(op)[2] \in Quads /\ Acknowledged(op)[2][1] = 0
<1>1. 0 \in Bytes /\ 1 \in Bytes /\ 3 \in Bytes /\ \hff \in Bytes
  BY ByteFacts
<1>2. 0 \in Extras /\ 1 \in Extras
  BY Bounds DEF Extras
<1>3. ASSUME NEW n, NEW b \in Bytes, NEW c \in Bytes, NEW d \in Bytes,
             Acknowledged(op) = <<n, <<0, b, c, d>>>>
      PROVE  /\ Acknowledged(op)[1] = n
             /\ Acknowledged(op)[2] \in Quads /\ Acknowledged(op)[2][1] = 0
  <2>1. PICK q : q = <<0, b, c, d>>
    OBVIOUS
  <2>2. q \in Quads /\ q[1] = 0
    BY <1>1, <2>1, Quad
  <2>3. Acknowledged(op) = <<n, q>>
    BY <1>3, <2>1, Zenon
  <2>4. Acknowledged(op)[1] = n /\ Acknowledged(op)[2] = q
    BY <2>3
  <2> QED
    BY <2>2, <2>4, Zenon
<1>4. CASE op = "unknown01"
  <2>1. Acknowledged(op) = <<0, <<0, \hff, \hff, \hff>>>>
    BY <1>4 DEF Acknowledged
  <2> QED
    BY <1>1, <1>2, <1>3, <1>4, <2>1
<1>5. CASE op = "setstate"
  <2>1. PICK b \in {1, 3} : b = IF cdda.playing /\ ~cdda.pause THEN 3 ELSE 1
    OBVIOUS
  <2>2. Acknowledged(op) = <<0, <<0, b, 0, 0>>>>
    BY <1>5, <2>1 DEF Acknowledged
  <2>3. b \in Bytes
    BY <1>1
  <2> QED
    BY <1>1, <1>2, <1>3, <1>5, <2>2, <2>3
<1>6. CASE op = "resume"
  <2>1. Acknowledged(op) = <<1, <<0, 3, 0, 0>>>>
    BY <1>6 DEF Acknowledged
  <2> QED
    BY <1>1, <1>2, <1>3, <1>6, <2>1
<1>7. CASE op \in {"stop84", "stop85"}
  <2>1. Acknowledged(op) = <<1, <<0, 0, 0, 0>>>>
    BY <1>7 DEF Acknowledged
  <2> QED
    BY <1>1, <1>2, <1>3, <1>7, <2>1
<1>8. CASE op \in {"seek", "cddaset"}
  <2>1. Acknowledged(op) = <<0, <<0, 0, 0, 0>>>>
    BY <1>8 DEF Acknowledged
  <2> QED
    BY <1>1, <1>2, <1>3, <1>8, <2>1
<1> QED
  BY <1>4, <1>5, <1>6, <1>7, <1>8 DEF Silents

-----------------------------------------------------------------------------
(* The invariant *)

Talk   == {"await", "clear", "fetch"}
Moving == {"start", "data", "left"}
Pcs    == {"idle", "params", "command"} \cup Talk \cup Moving

Types ==
  /\ cd \in Cds /\ disc \in BOOLEAN
  /\ dma \in [mask : BOOLEAN, count : 0..MaxCount, timer : BOOLEAN]
  /\ pc \in Pcs /\ count \in Nat /\ sent \in 0..MaxJobs
  /\ pc \in {"params", "command"} => sent < MaxJobs
  /\ job \in [cmd : Commands, first : 0..LeadOut, last : 0..LeadOut, soft : BOOLEAN]
  /\ job \in Jobs \/ (pc = "idle" /\ sent = 0)
  /\ seen \in [mpu : BOOLEAN, dma : BOOLEAN]
  /\ answers \in Seq(Seq(Bytes))

\* Answers read to the end.
Done == IF pc = "fetch" THEN Len(answers) - 1 ELSE Len(answers)

\* The command is carried out: there is a disc, or it needs none.
Works == disc \/ job.cmd = [op |-> "setstate", irq |-> FALSE, st |-> TRUE]

\* A sector goes through the DMA channel.
Running == cd.read_timer # -1 /\ cd.buffer_ptr >= 0

\* The sector in the buffer is the current one, and is asked for.
Buffered == cd.buffer = cd.lba_current /\ cd.lba_current <= cd.lba_last

\* The guest and the controller are in step: nothing is outstanding while the
\* guest is not waiting for it, and the pointer is where the guest reads.
Step ==
  /\ pc \notin Talk => ~Outstanding /\ ~cd.seek_timer
  /\ pc # "await" => cd.read_timer = -1
  /\ ~(cd.status_timer /\ cd.status.req)
  /\ pc \in {"clear", "fetch"} => cd.status.req
  /\ cd.status.req => cd.cmd_status_ptr = IF pc = "fetch" THEN count ELSE 0
  /\ pc \in Talk \cup Moving => cd.command = job.cmd

\* A play waits for its delay: nothing else goes on.
Delayed ==
  cd.cdda_timer =>
    /\ pc \in {"await", "idle"} /\ ~Outstanding /\ ~cd.seek_timer
    /\ cd.command = job.cmd /\ job.cmd.op = "play" /\ (job.cmd.st <=> pc = "await")
    /\ disc /\ job \in Jobs /\ sent > 0

\* extra_status while answer d + 1 of a command other than read is outstanding.
ExtraAt(cmd, d) ==
  CASE cmd.op = "toc" -> (IF cmd.st THEN (IF d = 0 THEN 1 ELSE TocNext(d)) ELSE TocNext(d + 1))
    [] cmd.op = "cddastate" -> (IF d = 4 THEN 0 ELSE d + 1)
    [] cmd.op \in {"play", "stop84", "stop85"} -> (IF d = 0 THEN 1 ELSE 0)
    [] cmd.op = "resume" -> 1
    [] OTHER -> 0

\* A command other than read, which is carried out, gives AnswerCount answers.
Script ==
  job.cmd.op # "read" /\ pc \in Talk /\ Works =>
    /\ Outstanding =>
         /\ Done < AnswerCount(job.cmd) /\ cd.extra_status = ExtraAt(job.cmd, Done)
         /\ job.cmd.op # "other" => cd.cmd_status[1] # \h10
         /\ cd.seek_timer <=> (job.cmd.op = "seek" /\ Done = 0)
    /\ ~Outstanding =>
         \/ job.cmd.op = "seek" /\ cd.seek_timer /\ Done = 1
         \/ job.cmd.op = "play" /\ cd.cdda_timer /\ ~cd.seek_timer /\ Done = 0

\* One that is not gives a single answer.
Refused ==
  pc \in Talk /\ ~Works =>
    /\ ~cd.seek_timer /\ cd.read_timer = -1
    /\ Outstanding => cd.cmd_status[1] = \h10 /\ cd.extra_status = 0

\* What a read answers goes with the sector in the buffer.
ReadScript ==
  job.cmd.op = "read" /\ pc \in Talk /\ disc =>
    /\ ~cd.seek_timer
    /\ Outstanding =>
         \/ cd.cmd_status[1] = 1 /\ cd.extra_status = 0 /\ cd.lba_current > cd.lba_last
         \/ cd.cmd_status[1] = 0 /\ cd.extra_status = 2 /\ Buffered
         \/ cd.cmd_status[1] \in {\h21, \h22} /\ cd.extra_status = 0 /\ Buffered
         \/ cd.cmd_status[1] = 6 /\ cd.extra_status = 0 /\ cd.lba_current = cd.lba_last
    /\ ~Outstanding => Running

\* The transfer of a sector.
Transfers ==
  /\ pc \in Moving => job.cmd.op = "read" /\ disc
  /\ pc = "data" => cd.software_tx /\ job.soft /\ count = cd.buffer_ptr /\ count < SectorBytes
  /\ cd.read_timer # -1 => /\ job.cmd.op = "read" /\ disc /\ ~job.soft /\ ~cd.status.req
                           /\ cd.status_timer <=> cd.buffer_ptr < 0
                           /\ cd.buffer_ptr < 0 => cd.read_timer = 1
  /\ cd.read_timer = 1 => cd.buffer_ptr < SectorBytes
  /\ dma.timer => cd.read_timer = 0 /\ cd.buffer_ptr \in 0..(SectorBytes - 1)
  /\ Running \/ pc \in Moving => Buffered
  /\ ~job.soft /\ job.cmd.op = "read" /\ pc \in Pcs \ {"idle", "data", "left"} =>
       cd.buffer_ptr < 0 \/ Running

\* What was read of an answer is what the status bytes hold.
Fetched ==
  pc = "fetch" =>
    /\ count < 4 /\ Len(answers) > 0 /\ Len(answers[Len(answers)]) = count
    /\ \A i \in 1..count : answers[Len(answers)][i] = cd.cmd_status[i]

\* The parameters are those of the job.
Asked ==
  /\ pc = "params" => /\ count < 8
                      /\ \A i \in 1..count : cd.parameter[i] = Parameters(job)[count + 1 - i]
  /\ pc # "params" /\ (pc = "command" \/ sent > 0) =>
       FirstLba(cd) = job.first /\ LastLba(cd) = job.last
  /\ pc \in {"params", "command"} => answers = <<>>

Core ==
  /\ Types /\ Player /\ Step /\ Delayed /\ Script /\ Refused /\ ReadScript
  /\ Transfers /\ Fetched /\ Asked /\ InterruptAnnounces

-----------------------------------------------------------------------------
(* Every step of the guest keeps it *)

LEMMA ChooseCore ==
  ASSUME Core, Choose
  PROVE  Core'
<1>1. PICK j \in Jobs : /\ cd.buffer_ptr >= 0 => j.cmd.op # "read" \/ j.soft
                       /\ job' = j
  BY DEF Choose
<1>2. /\ pc \in {"idle", "left"} /\ sent < MaxJobs /\ ~cd.cdda_timer
      /\ pc' = "params" /\ count' = 0 /\ answers' = <<>>
      /\ cd' = cd /\ dma' = dma /\ cdda' = cdda /\ disc' = disc /\ seen' = seen /\ sent' = sent
  BY DEF Choose
<1>3. Types'
  BY <1>1, <1>2, JobsAssumption DEF Core, Types, Pcs
<1>4. Player'
  BY <1>2 DEF Core, Player
<1>5. Step' /\ Delayed'
  BY <1>2 DEF Core, Step, Delayed, Outstanding, Talk, Moving
<1>6. Script' /\ Refused' /\ ReadScript' /\ Fetched' /\ InterruptAnnounces'
  BY <1>2 DEF Script, Refused, ReadScript, Fetched, InterruptAnnounces, Talk
<1>7. Transfers'
  <2>1. cd.read_timer = -1
    BY <1>2 DEF Core, Step
  <2>2. cd.buffer_ptr >= 0 \/ cd.buffer_ptr < 0
    BY DEF Core, Types, Cds
  <2> QED
    BY <1>1, <1>2, <2>1, <2>2 DEF Core, Transfers, Running, Moving
<1>8. Asked'
  BY <1>2 DEF Asked
<1> QED
  BY <1>3, <1>4, <1>5, <1>6, <1>7, <1>8 DEF Core

LEMMA WriteParameterCore ==
  ASSUME Core, WriteParameter
  PROVE  Core'
<1>1. PICK byte : byte = Parameters(job)[count + 1]
  OBVIOUS
<1>2. /\ pc = "params" /\ count' = count + 1
      /\ pc' = IF count = 7 THEN "command" ELSE "params"
      /\ cd' = [cd EXCEPT !.parameter = <<byte>> \o SubSeq(@, 1, 7)]
      /\ dma' = dma /\ cdda' = cdda /\ disc' = disc
      /\ job' = job /\ seen' = seen /\ answers' = answers /\ sent' = sent
  BY <1>1 DEF WriteParameter, parameter_w
<1>3. /\ job \in Jobs /\ count \in 0..7 /\ cd \in Cds /\ cd.parameter \in Eights
      /\ sent < MaxJobs
  <2>1. job \in Jobs /\ cd \in Cds /\ sent < MaxJobs
    BY <1>2 DEF Core, Types
  <2>2. cd.parameter \in Eights
    BY <2>1 DEF Cds
  <2>3. count \in Nat /\ count < 8
    BY <1>2, Zenon DEF Core, Types, Asked
  <2> QED
    BY <2>1, <2>2, <2>3
<1>4. PICK new : new = <<byte>> \o SubSeq(cd.parameter, 1, 7)
  OBVIOUS
<1>5. PICK p : p = Parameters(job)
  OBVIOUS
<1>6. /\ p \in Eights /\ msf_to_lbafm(p[1], p[2], p[3]) = job.first
      /\ msf_to_lbafm(p[4], p[5], p[6]) = job.last
  BY <1>3, <1>5, ParameterBytes, Zenon
<1>7. byte \in Bytes
  <2>1. count + 1 \in 1..8
    BY <1>3
  <2> QED
    BY <1>1, <1>5, <1>6, <2>1, Zenon DEF Eights
<1>8. new \in Eights /\ new[1] = byte /\ \A i \in 1..7 : new[1 + i] = cd.parameter[i]
  BY <1>3, <1>4, <1>7, Pushed, Zenon
<1>9. /\ cd' = [cd EXCEPT !.parameter = new] /\ cd' \in Cds /\ cd'.parameter = new
  BY <1>2, <1>3, <1>4, <1>8 DEF Cds
<1>10. /\ SameAnswer(cd, cd') /\ cd'.seek_timer = cd.seek_timer /\ cd'.read_timer = cd.read_timer
       /\ cd'.cdda_timer = cd.cdda_timer /\ cd'.cdda_current = cd.cdda_current
       /\ cd'.buffer_ptr = cd.buffer_ptr /\ cd'.command = cd.command
  BY <1>3, <1>9 DEF Cds, SameAnswer
<1>11. Types'
  BY <1>2, <1>3, <1>9 DEF Core, Types, Pcs
<1>12. Player'
  BY <1>2, <1>10 DEF Core, Player
<1>13. Step' /\ Delayed'
  BY <1>2, <1>10 DEF Core, Step, Delayed, Outstanding, Talk, Moving, SameAnswer
<1>14. Script' /\ Refused' /\ ReadScript' /\ Fetched' /\ InterruptAnnounces'
  BY <1>2 DEF Script, Refused, ReadScript, Fetched, InterruptAnnounces, Talk
<1>15. Transfers'
  <2>1. cd.read_timer = -1
    BY <1>2 DEF Core, Step
  <2> QED
    BY <1>2, <1>10, <2>1 DEF Core, Transfers, Running, Moving, Pcs
<1>16. ASSUME NEW i \in 1..(count + 1) PROVE new[i] = p[(count + 1) + 1 - i]
  <2>1. CASE i = 1
    <3>1. (count + 1) + 1 - i = count + 1
      BY <1>3, <2>1
    <3> QED
      BY <1>1, <1>5, <1>8, <2>1, <3>1
  <2>2. CASE i # 1
    <3>1. PICK k \in 1..count : i = 1 + k /\ k \in 1..7 /\ (count + 1) + 1 - i = count + 1 - k
      BY <1>3, <2>2
    <3>2. cd.parameter[k] = p[count + 1 - k]
      BY <1>2, <1>5, <3>1 DEF Core, Asked
    <3> QED
      BY <1>8, <3>1, <3>2
  <2> QED
    BY <2>1, <2>2
<1>17. Asked'
  <2>0. answers' = <<>>
    BY <1>2 DEF Core, Asked
  <2>1. CASE count # 7
    BY <1>2, <1>3, <1>5, <1>9, <1>16, <2>0, <2>1 DEF Asked
  <2>2. CASE count = 7
    <3>1. /\ new[8] = p[1] /\ new[7] = p[2] /\ new[6] = p[3]
          /\ new[5] = p[4] /\ new[4] = p[5] /\ new[3] = p[6]
      BY <1>16, <2>2
    <3>2. FirstLba(cd') = job.first /\ LastLba(cd') = job.last
      BY <1>6, <1>9, <3>1, Zenon DEF FirstLba, LastLba
    <3> QED
      BY <1>2, <2>0, <2>2, <3>2 DEF Asked
  <2> QED
    BY <2>1, <2>2
<1> QED
  BY <1>11, <1>12, <1>13, <1>14, <1>15, <1>17 DEF Core

LEMMA PollCore ==
  ASSUME Core, Poll
  PROVE  Core'
<1>1. /\ pc = "await" /\ cd.status.req /\ pc' = "clear"
      /\ seen' = [mpu |-> cd.status.mpu, dma |-> cd.status.dma]
      /\ cd' = cd /\ dma' = dma /\ cdda' = cdda /\ disc' = disc
      /\ job' = job /\ count' = count /\ answers' = answers /\ sent' = sent
  BY DEF Poll, vars
<1>2. cd.read_timer = -1
  BY <1>1 DEF Core, Transfers
<1>3. Types'
  <2>1. seen' \in [mpu : BOOLEAN, dma : BOOLEAN]
    BY <1>1 DEF Core, Types, Cds, Flags
  <2> QED
    BY <1>1, <2>1 DEF Core, Types, Pcs, Talk
<1>4. Player'
  BY <1>1 DEF Core, Player
<1>5. Step' /\ Delayed'
  BY <1>1, <1>2 DEF Core, Step, Delayed, Outstanding, Talk, Moving
<1>6. Script'
  BY <1>1 DEF Core, Script, Works, Done, Talk, Outstanding
<1>7. Refused' /\ ReadScript'
  BY <1>1 DEF Core, Refused, ReadScript, Works, Talk, Outstanding, Running, Buffered
<1>8. Fetched' /\ InterruptAnnounces'
  BY <1>1 DEF Fetched, InterruptAnnounces
<1>9. Transfers'
  BY <1>1, <1>2 DEF Core, Transfers, Running, Buffered, Moving, Pcs, Talk
<1>10. Asked'
  BY <1>1 DEF Core, Asked, FirstLba, LastLba
<1> QED
  BY <1>3, <1>4, <1>5, <1>6, <1>7, <1>8, <1>9, <1>10 DEF Core

LEMMA ClearFields ==
  ASSUME Core, Clear
  PROVE  /\ pc = "clear" /\ pc' = "fetch" /\ count' = 0 /\ answers' = Append(answers, <<>>)
         /\ dma' = dma /\ cdda' = cdda /\ disc' = disc /\ mem' = mem
         /\ job' = job /\ seen' = seen /\ sent' = sent
         /\ cd' \in Cds /\ SameDrive(cd, cd') /\ SameAnswer(cd, cd') /\ cd'.seek_timer = cd.seek_timer
<1>1. PICK m, e : m = seen.mpu /\ e = seen.dma
  OBVIOUS
<1>2. PICK c : c = IF m THEN towns_cdrom_set_irq(cd, "mpu", FALSE) ELSE cd
  OBVIOUS
<1>3. /\ pc = "clear" /\ pc' = "fetch" /\ count' = 0 /\ answers' = Append(answers, <<>>)
      /\ cd' = (IF e THEN towns_cdrom_set_irq(c, "dma", FALSE) ELSE c)
      /\ dma' = dma /\ cdda' = cdda /\ disc' = disc /\ mem' = mem
      /\ job' = job /\ seen' = seen /\ sent' = sent
  BY <1>1, <1>2 DEF Clear, status_w
<1>4. c \in Cds /\ SameDrive(cd, c) /\ SameAnswer(cd, c) /\ c.seek_timer = cd.seek_timer
  <2>1. cd \in Cds
    BY DEF Core, Types
  <2>2. CASE m
    BY <1>2, <2>1, <2>2, IrqFields, Zenon
  <2>3. CASE ~m
    BY <1>2, <2>1, <2>3 DEF SameDrive, SameAnswer
  <2> QED
    BY <2>2, <2>3
<1>5. cd' \in Cds /\ SameDrive(c, cd') /\ SameAnswer(c, cd') /\ cd'.seek_timer = c.seek_timer
  <2>1. CASE e
    BY <1>3, <1>4, <2>1, IrqFields, Zenon
  <2>2. CASE ~e
    BY <1>3, <1>4, <2>2 DEF SameDrive, SameAnswer
  <2> QED
    BY <2>1, <2>2
<1>6. SameDrive(cd, cd') /\ SameAnswer(cd, cd') /\ cd'.seek_timer = cd.seek_timer
  BY <1>4, <1>5, Zenon DEF SameDrive, SameAnswer
<1> QED
  BY <1>3, <1>5, <1>6

LEMMA ClearCore ==
  ASSUME Core, Clear
  PROVE  Core'
<1>3. /\ pc = "clear" /\ pc' = "fetch" /\ count' = 0 /\ answers' = Append(answers, <<>>)
      /\ dma' = dma /\ cdda' = cdda /\ disc' = disc
      /\ job' = job /\ seen' = seen /\ sent' = sent
  BY ClearFields
<1>5. cd' \in Cds
  BY ClearFields
<1>6. SameDrive(cd, cd') /\ SameAnswer(cd, cd') /\ cd'.seek_timer = cd.seek_timer
  BY ClearFields, Zenon
<1>7. /\ Append(answers, <<>>) \in Seq(Seq(Bytes)) /\ Len(Append(answers, <<>>)) = Len(answers) + 1
      /\ Append(answers, <<>>)[Len(answers) + 1] = <<>> /\ Len(answers) \in Nat
  BY DEF Core, Types
<1>8. cd.read_timer = -1
  BY <1>3 DEF Core, Step
<1>9. Types'
  BY <1>3, <1>5, <1>7 DEF Core, Types, Pcs, Talk
<1>10. Player'
  BY <1>3, <1>6 DEF Core, Player, SameDrive
<1>11. Step' /\ Delayed'
  BY <1>3, <1>6, <1>8 DEF Core, Step, Delayed, Outstanding, Talk, Moving, SameDrive, SameAnswer
<1>12. Done' = Done
  BY <1>3, <1>7 DEF Done
<1>13. Script'
  BY <1>3, <1>6, <1>12 DEF Core, Script, Works, Talk, Outstanding, SameDrive, SameAnswer
<1>14. Refused' /\ ReadScript'
  BY <1>3, <1>6 DEF Core, Refused, ReadScript, Works, Talk, Outstanding, Running, Buffered, SameDrive, SameAnswer
<1>15. Fetched' /\ InterruptAnnounces'
  BY <1>3, <1>7 DEF Fetched, InterruptAnnounces
<1>16. Transfers'
  BY <1>3, <1>6, <1>8 DEF Core, Transfers, Running, Buffered, Moving, Pcs, Talk, SameDrive, SameAnswer
<1>17. Asked'
  BY <1>3, <1>6 DEF Core, Asked, FirstLba, LastLba, SameDrive
<1> QED
  BY <1>9, <1>10, <1>11, <1>13, <1>14, <1>15, <1>16, <1>17 DEF Core

LEMMA ProgramCore ==
  ASSUME Core, Program
  PROVE  Core'
<1>1. /\ pc = "start" /\ dma' = [dma EXCEPT !.mask = FALSE, !.count = SectorBytes - 1]
      /\ cd' = cd /\ cdda' = cdda /\ disc' = disc /\ pc' = pc
      /\ job' = job /\ count' = count /\ seen' = seen /\ answers' = answers /\ sent' = sent
  BY DEF Program, dma_w, guestVars
<1>2. SectorBytes - 1 \in 0..MaxCount
  <2>1. MaxCount \in Nat
    BY DEF MaxCount
  <2> QED
    BY <2>1, SectorAssumption
<1>3. Types'
  <2>1. dma' \in [mask : BOOLEAN, count : 0..MaxCount, timer : BOOLEAN]
    BY <1>1, <1>2 DEF Core, Types
  <2> QED
    BY <1>1, <2>1 DEF Core, Types
<1>4. Player' /\ Step' /\ Delayed'
  BY <1>1 DEF Core, Player, Step, Delayed, Outstanding
<1>5. Script' /\ Refused' /\ ReadScript'
  BY <1>1 DEF Script, Refused, ReadScript, Talk
<1>6. Fetched' /\ InterruptAnnounces'
  BY <1>1 DEF Fetched, InterruptAnnounces
<1>7. Transfers'
  <2>1. ~dma.timer /\ dma'.timer = dma.timer
    BY <1>1 DEF Core, Types, Transfers, Step
  <2> QED
    BY <1>1, <2>1 DEF Core, Transfers, Running, Buffered
<1>8. Asked'
  BY <1>1 DEF Core, Asked, FirstLba, LastLba
<1> QED
  BY <1>3, <1>4, <1>5, <1>6, <1>7, <1>8 DEF Core

LEMMA StartTransferCore ==
  ASSUME Core, StartTransfer
  PROVE  Core'
<1>1. PICK software, start : software = job.soft /\ start = (software \/ cd.buffer_ptr < 0)
  OBVIOUS
<1>2. PICK c : c = [Transfer(cd, software) EXCEPT !.software_tx = software]
  OBVIOUS
<1>3. /\ pc = "start" /\ pc' = (IF software THEN "data" ELSE "await") /\ count' = 0
      /\ cd' = [c EXCEPT !.buffer_ptr = IF start THEN 0 ELSE @,
                         !.read_timer = IF start /\ ~software THEN 1 ELSE @]
      /\ dma' = dma /\ cdda' = cdda /\ disc' = disc
      /\ job' = job /\ seen' = seen /\ answers' = answers /\ sent' = sent
  BY <1>1, <1>2 DEF StartTransfer, transfer_w
<1>4. /\ cd \in Cds /\ software \in BOOLEAN /\ cd.read_timer = -1
      /\ cd.buffer_ptr \in -1..SectorBytes /\ SectorBytes \in Nat \ {0}
      /\ ~Outstanding /\ ~cd.seek_timer /\ ~cd.cdda_timer /\ cd.command = job.cmd
      /\ job.cmd.op = "read" /\ disc /\ Buffered /\ ~dma.timer
  <2>1. cd \in Cds /\ software \in BOOLEAN
    BY <1>1 DEF Core, Types
  <2>2. cd.buffer_ptr \in -1..SectorBytes /\ SectorBytes \in Nat \ {0}
    BY <2>1, Bounds DEF Cds
  <2>3. cd.read_timer = -1 /\ ~Outstanding /\ ~cd.seek_timer /\ ~cd.cdda_timer /\ cd.command = job.cmd
    BY <1>3 DEF Core, Step, Delayed, Talk, Moving
  <2>4. job.cmd.op = "read" /\ disc /\ Buffered /\ ~dma.timer
    BY <1>3, <2>3 DEF Core, Transfers, Moving
  <2> QED
    BY <2>1, <2>2, <2>3, <2>4
<1>5. start
  BY <1>1, <1>3, <1>4 DEF Core, Transfers, Running, Pcs, Moving
<1>6. c \in Cds /\ c.software_tx = software /\ c.status.req = cd.status.req
  <2>1. c.status \in Flags /\ c.status.req = cd.status.req
    <3>1. CASE software = TRUE
      BY <1>2, <1>4, <3>1 DEF Transfer, Cds, Flags
    <3>2. CASE software = FALSE
      BY <1>2, <1>4, <3>2 DEF Transfer, Cds, Flags
    <3> QED
      BY <1>4, <3>1, <3>2
  <2>2. c \in Cds /\ c.software_tx = software
    BY <1>2, <1>4, <2>1 DEF Transfer, Cds
  <2> QED
    BY <2>1, <2>2
<1>7. /\ c.command = cd.command /\ c.parameter = cd.parameter
      /\ c.cdda_current = cd.cdda_current /\ c.cdda_timer = cd.cdda_timer
      /\ c.buffer = cd.buffer /\ c.lba_current = cd.lba_current /\ c.lba_last = cd.lba_last
      /\ c.seek_timer = cd.seek_timer /\ c.status_timer = cd.status_timer
      /\ c.read_timer = cd.read_timer
  BY <1>2, <1>4 DEF Transfer, Cds
<1>8. /\ cd' \in Cds /\ cd'.buffer_ptr = 0 /\ cd'.software_tx = software
      /\ cd'.read_timer = (IF software THEN -1 ELSE 1)
      /\ cd'.status = c.status
  <2>1. 0 \in -1..SectorBytes /\ 1 \in -1..1 /\ -1 \in -1..1
    BY <1>4
  <2>2. cd' = [c EXCEPT !.buffer_ptr = 0, !.read_timer = IF software THEN -1 ELSE 1]
    BY <1>3, <1>4, <1>5, <1>7
  <2> QED
    BY <1>6, <2>1, <2>2 DEF Cds
<1>9. /\ cd'.command = cd.command /\ cd'.parameter = cd.parameter
      /\ cd'.cdda_current = cd.cdda_current /\ cd'.cdda_timer = cd.cdda_timer
      /\ cd'.buffer = cd.buffer /\ cd'.lba_current = cd.lba_current /\ cd'.lba_last = cd.lba_last
      /\ cd'.seek_timer = cd.seek_timer /\ cd'.status_timer = cd.status_timer
      /\ cd'.status.req = cd.status.req
  BY <1>3, <1>6, <1>7, <1>8 DEF Cds
<1>10. Types'
  BY <1>3, <1>8 DEF Core, Types, Pcs, Talk, Moving
<1>11. Player'
  BY <1>3, <1>9 DEF Core, Player
<1>12. Step' /\ Delayed'
  BY <1>3, <1>4, <1>8, <1>9 DEF Step, Delayed, Outstanding, Talk, Moving
<1>13. Script' /\ Refused'
  BY <1>3, <1>4 DEF Script, Refused, Works
<1>14. ReadScript'
  BY <1>3, <1>4, <1>8, <1>9 DEF ReadScript, Outstanding, Running, Talk
<1>15. Fetched' /\ InterruptAnnounces'
  BY <1>3, <1>4, <1>9 DEF Fetched, InterruptAnnounces, Outstanding
<1>16. Transfers'
  BY <1>1, <1>3, <1>4, <1>8, <1>9 DEF Transfers, Running, Buffered, Outstanding, Moving, Pcs
<1>17. Asked'
  BY <1>3, <1>9 DEF Core, Asked, FirstLba, LastLba
<1> QED
  BY <1>10, <1>11, <1>12, <1>13, <1>14, <1>15, <1>16, <1>17 DEF Core

LEMMA AbandonCore ==
  ASSUME Core, Abandon
  PROVE  Core'
<1>1. /\ pc = "data" /\ pc' = "left"
      /\ cd' = cd /\ dma' = dma /\ cdda' = cdda /\ disc' = disc
      /\ job' = job /\ count' = count /\ seen' = seen /\ answers' = answers /\ sent' = sent
  BY DEF Abandon, vars
<1>2. Types'
  BY <1>1 DEF Core, Types, Pcs, Moving
<1>3. Player' /\ Step' /\ Delayed'
  BY <1>1 DEF Core, Player, Step, Delayed, Outstanding, Talk, Moving
<1>4. Script' /\ Refused' /\ ReadScript' /\ Fetched' /\ InterruptAnnounces'
  BY <1>1 DEF Script, Refused, ReadScript, Fetched, InterruptAnnounces, Talk
<1>5. Transfers'
  BY <1>1 DEF Core, Transfers, Running, Buffered, Moving
<1>6. Asked'
  BY <1>1 DEF Core, Asked, FirstLba, LastLba
<1> QED
  BY <1>2, <1>3, <1>4, <1>5, <1>6 DEF Core

LEMMA ReadDataCore ==
  ASSUME Core, ReadData
  PROVE  Core'
<1>1. /\ pc = "data" /\ count' = count + 1
      /\ pc' = (IF count + 1 = SectorBytes THEN "await" ELSE "data")
      /\ cd' = (IF cd.software_tx THEN read_byte_software(cd) ELSE cd)
      /\ dma' = dma /\ cdda' = cdda /\ disc' = disc
      /\ job' = job /\ seen' = seen /\ answers' = answers /\ sent' = sent
  BY DEF ReadData, data_r
<1>2. /\ cd \in Cds /\ SectorBytes \in Nat \ {0} /\ count \in Nat
      /\ cd.software_tx /\ job.soft /\ cd.buffer_ptr = count /\ count < SectorBytes
      /\ job.cmd.op = "read" /\ disc /\ Buffered
      /\ ~Outstanding /\ ~cd.seek_timer /\ ~cd.cdda_timer /\ cd.command = job.cmd
      /\ cd.read_timer = -1 /\ ~dma.timer
  <2>1. cd \in Cds /\ SectorBytes \in Nat \ {0} /\ count \in Nat
    BY Bounds DEF Core, Types
  <2>2. /\ cd.read_timer = -1 /\ ~Outstanding /\ ~cd.seek_timer /\ ~cd.cdda_timer
        /\ cd.command = job.cmd
    BY <1>1 DEF Core, Step, Delayed, Talk, Moving
  <2>3. /\ cd.software_tx /\ job.soft /\ cd.buffer_ptr = count /\ count < SectorBytes
        /\ job.cmd.op = "read" /\ disc /\ Buffered /\ ~dma.timer
    BY <1>1, <2>2 DEF Core, Transfers, Moving
  <2> QED
    BY <2>1, <2>2, <2>3
<1>3. PICK t : t = [cd EXCEPT !.buffer_ptr = @ + 1]
  OBVIOUS
<1>4. t \in Cds /\ t.buffer_ptr = count + 1
  BY <1>2, <1>3 DEF Cds
<1>5. /\ t.command = cd.command /\ t.parameter = cd.parameter
      /\ t.cdda_current = cd.cdda_current /\ t.cdda_timer = cd.cdda_timer
      /\ t.software_tx = cd.software_tx /\ t.seek_timer = cd.seek_timer
      /\ t.buffer = cd.buffer /\ t.lba_current = cd.lba_current /\ t.lba_last = cd.lba_last
      /\ t.read_timer = cd.read_timer /\ SameAnswer(cd, t)
  BY <1>2, <1>3 DEF Cds, SameAnswer
<1>6. CASE count + 1 # SectorBytes
  <2>1. cd' = t
    <3>1. ~(cd.buffer_ptr < 0) /\ cd.buffer_ptr + 1 < SectorBytes
      BY <1>2, <1>6
    <3>2. read_byte_software(cd) = t
      BY <1>3, <3>1, Zenon DEF read_byte_software
    <3> QED
      BY <1>1, <1>2, <3>2
  <2>2. Types'
    BY <1>1, <1>2, <1>4, <1>6, <2>1 DEF Core, Types
  <2>3. Player'
    BY <1>1, <1>5, <2>1 DEF Core, Player
  <2>4. Step' /\ Delayed'
    BY <1>1, <1>2, <1>5, <1>6, <2>1 DEF Step, Delayed, Outstanding, SameAnswer, Talk
  <2>5. Script' /\ Refused' /\ ReadScript' /\ Fetched' /\ InterruptAnnounces'
    BY <1>1, <1>6 DEF Script, Refused, ReadScript, Fetched, InterruptAnnounces, Talk
  <2>6. Transfers'
    <3>1. Buffered'
      BY <1>2, <1>5, <2>1 DEF Buffered
    <3>2. cd'.software_tx /\ job'.soft /\ ~dma'.timer /\ disc'
      BY <1>1, <1>2, <1>5, <2>1, Zenon
    <3>3. /\ pc' = "data" /\ count' = cd'.buffer_ptr
          /\ count' < SectorBytes /\ cd'.read_timer = -1 /\ job'.cmd.op = "read"
      BY <1>1, <1>2, <1>4, <1>5, <1>6, <2>1
    <3> QED
      BY <3>1, <3>2, <3>3 DEF Transfers, Running
  <2>7. Asked'
    BY <1>1, <1>5, <1>6, <2>1 DEF Core, Asked, FirstLba, LastLba
  <2> QED
    BY <2>2, <2>3, <2>4, <2>5, <2>6, <2>7 DEF Core
<1>7. CASE count + 1 = SectorBytes
  <2>1. PICK e : e = EndOfSector(t, \h21)
    OBVIOUS
  <2>2. t.lba_current <= t.lba_last /\ \h21 \in Bytes
    BY <1>2, <1>5, ByteFacts DEF Buffered
  <2>3. /\ e \in Cds /\ e.read_timer = t.read_timer
        /\ t.lba_current = t.lba_last => SectorEnded(t, e, 6) /\ e.lba_current = t.lba_current
        /\ t.lba_current # t.lba_last =>
             /\ SectorEnded(t, e, \h21)
             /\ e.lba_current = t.lba_current + 1 /\ e.buffer = t.lba_current + 1
    BY <1>4, <2>1, <2>2, EndFields, Zenon
  <2>4. cd' = IF cd.lba_current >= cd.lba_last THEN e ELSE Transfer(e, TRUE)
    <3>1. ~(cd.buffer_ptr < 0) /\ ~(cd.buffer_ptr + 1 < SectorBytes)
      BY <1>2, <1>7
    <3>2. read_byte_software(cd) = IF cd.lba_current >= cd.lba_last THEN e ELSE Transfer(e, TRUE)
      BY <1>3, <2>1, <3>1, Zenon DEF read_byte_software
    <3> QED
      BY <1>1, <1>2, <3>2
  <2>5. /\ cd' \in Cds /\ SameDrive(e, cd') /\ SameAnswer(e, cd') /\ cd'.seek_timer = e.seek_timer
    <3>1. CASE cd' = e
      BY <2>3, <3>1 DEF SameDrive, SameAnswer
    <3>2. CASE cd' = Transfer(e, TRUE)
      BY <2>3, <3>2 DEF SameDrive, SameAnswer, Transfer, Cds, Flags
    <3> QED
      BY <2>4, <3>1, <3>2
  <2>6. /\ cd'.command = cd.command /\ cd'.parameter = cd.parameter
        /\ cd'.cdda_current = cd.cdda_current /\ cd'.cdda_timer = cd.cdda_timer
        /\ cd'.lba_last = cd.lba_last /\ cd'.seek_timer = cd.seek_timer
        /\ cd'.status.req = cd.status.req /\ cd'.status_timer /\ cd'.extra_status = 0
        /\ cd'.buffer_ptr = -1 /\ cd'.read_timer = -1
    <3>1. PICK x : SectorEnded(t, e, x)
      BY <2>3
    <3> QED
      BY <1>2, <1>5, <2>3, <2>5, <3>1 DEF SectorEnded, SameDrive, SameAnswer
  <2>7. \/ cd'.cmd_status[1] = 6 /\ cd'.lba_current = cd'.lba_last
        \/ cd'.cmd_status[1] = \h21 /\ Buffered'
    <3>1. CASE t.lba_current = t.lba_last
      BY <1>5, <2>3, <2>5, <2>6, <3>1 DEF SectorEnded, SameDrive, SameAnswer
    <3>2. CASE t.lba_current # t.lba_last
      <4>1. cd'.cmd_status[1] = \h21 /\ cd'.lba_current = t.lba_current + 1 /\ cd'.buffer = t.lba_current + 1
        BY <2>3, <2>5, <3>2 DEF SectorEnded, SameDrive, SameAnswer
      <4>2. t.lba_current \in Int /\ t.lba_last \in Int
        BY <1>4, Bounds DEF Cds
      <4> QED
        BY <1>5, <2>2, <2>6, <3>2, <4>1, <4>2 DEF Buffered
    <3> QED
      BY <3>1, <3>2
  <2>8. Types'
    BY <1>1, <1>2, <1>7, <2>5 DEF Core, Types, Pcs, Talk
  <2>9. Player'
    BY <1>1, <2>6 DEF Core, Player
  <2>10. Step' /\ Delayed'
    BY <1>1, <1>2, <1>7, <2>6 DEF Step, Delayed, Outstanding, Talk, Moving
  <2>11. Script' /\ Refused'
    BY <1>1, <1>2 DEF Script, Refused, Works
  <2>12. ReadScript'
    BY <1>1, <1>2, <1>7, <2>6, <2>7 DEF ReadScript, Outstanding
  <2>13. Fetched' /\ InterruptAnnounces'
    BY <1>1, <1>2, <1>7, <2>6 DEF Fetched, InterruptAnnounces, Outstanding
  <2>14. Transfers'
    BY <1>1, <1>2, <1>7, <2>6 DEF Transfers, Running, Moving
  <2>15. Asked'
    BY <1>1, <1>7, <2>6 DEF Core, Asked, FirstLba, LastLba
  <2> QED
    BY <2>8, <2>9, <2>10, <2>11, <2>12, <2>13, <2>14, <2>15 DEF Core
<1> QED
  BY <1>6, <1>7

-----------------------------------------------------------------------------
(* So does every timer *)

LEMMA StatusReadyFields ==
  ASSUME Core, StatusReady
  PROVE  /\ cd \in Cds /\ cd.read_timer = -1 /\ pc = "await" /\ ~cd.cdda_timer /\ ~dma.timer
         /\ cd' \in Cds /\ cd'.status.req /\ cd'.cmd_status_ptr = 0 /\ cd'.status_timer = FALSE
         /\ SameDrive(cd, cd') /\ cd'.cmd_status = cd.cmd_status
         /\ cd'.extra_status = cd.extra_status
         /\ cd'.seek_timer = cd.seek_timer /\ cd'.ir1 = (cd.ir1 \/ cd.command.irq)
         /\ Outstanding /\ Outstanding'
<1>1. PICK i : i = towns_cdrom_set_irq(cd, "mpu", TRUE)
  OBVIOUS
<1>2. /\ cd.status_timer /\ ~(cd.read_timer = 1 /\ cd.buffer_ptr < 0)
      /\ cd' = [i EXCEPT !.status.req = TRUE, !.status.ready = TRUE,
                         !.cmd_status_ptr = 0, !.status_timer = FALSE]
      /\ dma' = dma /\ cdda' = cdda /\ disc' = disc /\ pc' = pc
      /\ job' = job /\ count' = count /\ seen' = seen /\ answers' = answers /\ sent' = sent
  BY <1>1 DEF StatusReady, towns_cd_status_ready, guestVars
<1>3. cd \in Cds /\ cd.read_timer = -1 /\ pc = "await" /\ ~cd.cdda_timer /\ ~dma.timer
  <2>1. cd \in Cds /\ pc \in Pcs
    BY DEF Core, Types
  <2>2. pc = "await"
    BY <1>2, <2>1 DEF Core, Step, Outstanding, Talk, Pcs
  <2>3. cd.read_timer = -1 /\ ~dma.timer
    BY <1>2 DEF Core, Transfers
  <2>4. ~cd.cdda_timer
    BY <1>2 DEF Core, Delayed, Outstanding
  <2> QED
    BY <2>1, <2>2, <2>3, <2>4
<1>4. /\ i \in Cds /\ SameDrive(cd, i) /\ SameAnswer(cd, i)
      /\ i.seek_timer = cd.seek_timer /\ i.ir1 = (cd.ir1 \/ cd.command.irq)
  BY <1>1, <1>3, IrqFields, Zenon
<1>5. /\ cd' \in Cds /\ cd'.status.req /\ cd'.cmd_status_ptr = 0 /\ cd'.status_timer = FALSE
      /\ cd'.cmd_status = i.cmd_status /\ cd'.extra_status = i.extra_status
      /\ cd'.seek_timer = i.seek_timer /\ cd'.ir1 = i.ir1
  <2>1. cd'.status \in Flags /\ cd'.status.req
    BY <1>2, <1>4 DEF Cds, Flags
  <2>2. cd' \in Cds
    <3>1. cd' = [i EXCEPT !.status.req = TRUE, !.status.ready = TRUE,
                          !.cmd_status_ptr = 0, !.status_timer = FALSE]
      BY <1>2
    <3>2. i \in Cds /\ 0 \in 0..3 /\ FALSE \in BOOLEAN
      BY <1>4
    <3> QED
      BY <2>1, <3>1, <3>2 DEF Cds
  <2>3. /\ cd'.cmd_status_ptr = 0 /\ cd'.status_timer = FALSE
        /\ cd'.cmd_status = i.cmd_status /\ cd'.extra_status = i.extra_status
        /\ cd'.seek_timer = i.seek_timer /\ cd'.ir1 = i.ir1
    BY <1>2, <1>4 DEF Cds
  <2> QED
    BY <2>1, <2>2, <2>3
<1>6. SameDrive(i, cd')
  BY <1>2, <1>4 DEF Cds, SameDrive
<1>7. /\ SameDrive(cd, cd') /\ cd'.cmd_status = cd.cmd_status /\ cd'.extra_status = cd.extra_status
      /\ cd'.seek_timer = cd.seek_timer /\ cd'.ir1 = (cd.ir1 \/ cd.command.irq)
  BY <1>4, <1>5, <1>6, Zenon DEF SameDrive, SameAnswer
<1>8. Outstanding /\ Outstanding'
  BY <1>2, <1>5 DEF Outstanding
<1> QED
  BY <1>3, <1>5, <1>7, <1>8, Zenon

LEMMA StatusReadyCore ==
  ASSUME Core, StatusReady
  PROVE  Core'
<1>2. /\ dma' = dma /\ cdda' = cdda /\ disc' = disc /\ pc' = pc
      /\ job' = job /\ count' = count /\ seen' = seen /\ answers' = answers /\ sent' = sent
  BY DEF StatusReady, towns_cd_status_ready, guestVars
<1>3. cd \in Cds /\ cd.read_timer = -1 /\ pc = "await" /\ ~cd.cdda_timer /\ ~dma.timer
  BY StatusReadyFields, Zenon
<1>5. cd' \in Cds /\ cd'.status.req /\ cd'.cmd_status_ptr = 0 /\ cd'.status_timer = FALSE
  BY StatusReadyFields, Zenon
<1>7. /\ SameDrive(cd, cd') /\ cd'.cmd_status = cd.cmd_status /\ cd'.extra_status = cd.extra_status
      /\ cd'.seek_timer = cd.seek_timer /\ cd'.ir1 = (cd.ir1 \/ cd.command.irq)
  BY StatusReadyFields, Zenon
<1>8. Outstanding /\ Outstanding'
  BY StatusReadyFields, Zenon
<1>9. Types'
  BY <1>2, <1>5 DEF Core, Types
<1>10. Player'
  BY <1>2, <1>7 DEF Core, Player, SameDrive
<1>11. Step' /\ Delayed'
  BY <1>2, <1>3, <1>5, <1>7 DEF Core, Step, Delayed, SameDrive, Talk, Moving
<1>12. Script'
  BY <1>2, <1>7, <1>8 DEF Core, Script, Works, Done
<1>13. Refused' /\ ReadScript'
  BY <1>2, <1>7, <1>8 DEF Core, Refused, ReadScript, Works, Buffered, SameDrive
<1>14. Fetched'
  BY <1>2, <1>3 DEF Fetched
<1>15. InterruptAnnounces'
  BY <1>7 DEF InterruptAnnounces, SameDrive
<1>16. Transfers'
  BY <1>2, <1>3, <1>7 DEF Core, Transfers, Running, Buffered, SameDrive
<1>17. Asked'
  BY <1>2, <1>7 DEF Core, Asked, FirstLba, LastLba, SameDrive
<1> QED
  BY <1>9, <1>10, <1>11, <1>12, <1>13, <1>14, <1>15, <1>16, <1>17 DEF Core

LEMMA DelayCddaCore ==
  ASSUME Core, DelayCdda
  PROVE  Core'
<1>1. PICK first, last, length :
         first = FirstLba(cd) /\ last = LastLba(cd) /\ length = last - first + 1
  OBVIOUS
<1>2. PICK c : c = [cd EXCEPT !.cdda_timer = FALSE, !.cdda_current = first, !.cdda_length = length]
  OBVIOUS
<1>3. PICK q : q = <<0, 3, 0, 0>>
  OBVIOUS
<1>4. /\ cd.cdda_timer /\ cd' = (IF cd.command.st THEN Answer(c, 1, q) ELSE c)
      /\ cdda' = [playing |-> TRUE, pause |-> FALSE, ended |-> FALSE, lba |-> first, length |-> length]
      /\ dma' = dma /\ disc' = disc /\ pc' = pc
      /\ job' = job /\ count' = count /\ seen' = seen /\ answers' = answers /\ sent' = sent
  BY <1>1, <1>2, <1>3 DEF DelayCdda, towns_delay_cdda, guestVars
<1>5. /\ pc \in {"await", "idle"} /\ ~Outstanding /\ ~cd.seek_timer /\ cd.command = job.cmd
      /\ job.cmd.op = "play" /\ disc /\ job \in Jobs /\ sent > 0 /\ (job.cmd.st <=> pc = "await")
  BY <1>4 DEF Core, Delayed
<1>6. /\ first \in 0..LeadOut /\ last \in 0..LeadOut /\ first <= last /\ LeadOut \in Nat
      /\ first = job.first /\ last = job.last
  <2>1. first = job.first /\ last = job.last
    BY <1>1, <1>5 DEF Core, Asked
  <2> QED
    BY <1>5, <2>1, JobsAssumption, Bounds
<1>7. cd \in Cds /\ cd.read_timer = -1 /\ ~dma.timer
  BY <1>5 DEF Core, Types, Transfers
<1>8. q \in Quads /\ q[1] = 0 /\ 1 \in Extras
  <2>1. 0 \in Bytes /\ 3 \in Bytes
    BY ByteFacts
  <2>2. q \in Quads /\ q[1] = 0
    BY <1>3, <2>1, Quad
  <2> QED
    BY <2>2, Bounds DEF Extras
<1>9. /\ c \in Cds /\ SameAnswer(cd, c) /\ c.seek_timer = cd.seek_timer /\ c.read_timer = cd.read_timer
      /\ c.cdda_timer = FALSE /\ c.cdda_current = first
      /\ c.command = cd.command /\ c.parameter = cd.parameter
      /\ c.buffer_ptr = cd.buffer_ptr
  <2>1. first \in Int /\ length \in Int
    BY <1>1, <1>6
  <2> QED
    BY <1>2, <1>7, <2>1 DEF Cds, SameAnswer
<1>10. /\ cd' \in Cds /\ cd'.cdda_timer = FALSE /\ cd'.cdda_current = first
       /\ cd'.command = cd.command /\ cd'.parameter = cd.parameter
       /\ cd'.buffer_ptr = cd.buffer_ptr /\ cd'.read_timer = -1 /\ cd'.seek_timer = cd.seek_timer
       /\ cd'.status.req = cd.status.req
       /\ cd'.status_timer <=> pc = "await"
       /\ pc = "await" => cd'.extra_status = 1 /\ cd'.cmd_status[1] = 0
  <2>1. CASE pc = "await"
    <3>1. cd' \in Cds /\ Answered(c, cd', 1, q)
      BY <1>4, <1>5, <1>8, <1>9, <2>1, AnswerFields, Zenon
    <3> QED
      BY <1>7, <1>8, <1>9, <2>1, <3>1 DEF Answered, SameDrive, SameAnswer
  <2>2. CASE pc # "await"
    BY <1>4, <1>5, <1>7, <1>9, <2>2 DEF SameAnswer, Outstanding
  <2> QED
    BY <2>1, <2>2
<1>11. Types'
  BY <1>4, <1>10 DEF Core, Types
<1>12. Player'
  BY <1>1, <1>4, <1>6, <1>10 DEF Player, Cddas
<1>13. Step' /\ Delayed'
  BY <1>4, <1>5, <1>10 DEF Core, Step, Delayed, Outstanding, Talk, Moving
<1>14. Script'
  <2>1. pc = "await" => Done = 0 /\ Done' = 0
    BY <1>4, <1>5 DEF Core, Script, Works, Done, Talk
  <2> QED
    BY <1>4, <1>5, <1>10, <2>1 DEF Script, Works, Outstanding, AnswerCount, ExtraAt, Talk
<1>15. Refused' /\ ReadScript' /\ Fetched' /\ InterruptAnnounces'
  BY <1>4, <1>5, <1>10 DEF Refused, ReadScript, Fetched, InterruptAnnounces, Works, Outstanding, Talk
<1>16. Transfers'
  BY <1>4, <1>5, <1>7, <1>10 DEF Transfers, Running, Moving
<1>17. Asked'
  BY <1>4, <1>10 DEF Core, Asked, FirstLba, LastLba
<1> QED
  BY <1>11, <1>12, <1>13, <1>14, <1>15, <1>16, <1>17 DEF Core

LEMMA DelaySeekCore ==
  ASSUME Core, DelaySeek
  PROVE  Core'
<1>1. PICK q, a : q = <<4, 0, 0, 0>> /\ a = Answer(cd, 0, q)
  OBVIOUS
<1>2. /\ cd.seek_timer /\ ~Outstanding /\ cd' = [a EXCEPT !.seek_timer = FALSE]
      /\ dma' = dma /\ cdda' = cdda /\ disc' = disc /\ pc' = pc
      /\ job' = job /\ count' = count /\ seen' = seen /\ answers' = answers /\ sent' = sent
  BY <1>1 DEF DelaySeek, towns_delay_seek, guestVars
<1>3. /\ cd \in Cds /\ pc = "await" /\ job.cmd.op = "seek" /\ Works /\ Done = 1
      /\ cd.read_timer = -1 /\ ~dma.timer /\ ~cd.cdda_timer
  <2>1. cd \in Cds /\ pc \in Pcs
    BY DEF Core, Types
  <2>2. pc = "await" /\ pc \in Talk
    BY <1>2, <2>1 DEF Core, Step, Outstanding, Talk, Pcs
  <2>3. Works
    BY <1>2, <2>2 DEF Core, Refused
  <2>4. job.cmd.op # "read"
    BY <1>2, <2>2, <2>3 DEF Core, ReadScript, Works
  <2>5. ~cd.cdda_timer
    BY <1>2 DEF Core, Delayed
  <2>6. job.cmd.op = "seek" /\ Done = 1
    BY <1>2, <2>2, <2>3, <2>4, <2>5 DEF Core, Script
  <2>7. cd.read_timer = -1 /\ ~dma.timer
    BY <2>4 DEF Core, Transfers
  <2> QED
    BY <2>1, <2>2, <2>3, <2>5, <2>6, <2>7
<1>4. q \in Quads /\ q[1] = 4 /\ 0 \in Extras
  <2>1. 4 \in Bytes /\ 0 \in Bytes
    BY ByteFacts
  <2>2. q \in Quads /\ q[1] = 4
    BY <1>1, <2>1, Quad
  <2> QED
    BY <2>2, Bounds DEF Extras
<1>5. a \in Cds /\ Answered(cd, a, 0, q)
  BY <1>1, <1>3, <1>4, AnswerFields, Zenon
<1>6. cd' \in Cds /\ SameDrive(a, cd') /\ SameAnswer(a, cd') /\ cd'.seek_timer = FALSE
  BY <1>2, <1>5 DEF Cds, SameDrive, SameAnswer
<1>7. /\ SameDrive(cd, cd') /\ cd'.cmd_status[1] = 4 /\ cd'.extra_status = 0
      /\ cd'.status_timer /\ cd'.status.req = cd.status.req /\ ~cd'.seek_timer
  BY <1>4, <1>5, <1>6 DEF Answered, SameDrive, SameAnswer
<1>8. Outstanding' /\ ~cd'.status.req
  BY <1>2, <1>7 DEF Outstanding
<1>9. Types'
  BY <1>2, <1>6 DEF Core, Types
<1>10. Player'
  BY <1>2, <1>7 DEF Core, Player, SameDrive
<1>11. Step' /\ Delayed'
  BY <1>2, <1>3, <1>7, <1>8 DEF Core, Step, Delayed, SameDrive, Talk, Moving
<1>12. Script'
  <2>1. Done' = 1 /\ Works'
    BY <1>2, <1>3 DEF Done, Works
  <2> QED
    BY <1>2, <1>3, <1>7, <1>8, <2>1 DEF Script, AnswerCount, ExtraAt
<1>13. Refused' /\ ReadScript'
  BY <1>2, <1>3 DEF Refused, ReadScript, Works
<1>14. Fetched' /\ InterruptAnnounces'
  BY <1>2, <1>3, <1>8 DEF Fetched, InterruptAnnounces
<1>15. Transfers'
  BY <1>2, <1>3, <1>7 DEF Transfers, Running, Moving, SameDrive
<1>16. Asked'
  BY <1>2, <1>7 DEF Core, Asked, FirstLba, LastLba, SameDrive
<1> QED
  BY <1>9, <1>10, <1>11, <1>12, <1>13, <1>14, <1>15, <1>16 DEF Core

LEMMA PlayAudioCore ==
  ASSUME Core, PlayAudio
  PROVE  Core'
<1>1. /\ cdda' = (IF cdda.length = 0 THEN [cdda EXCEPT !.playing = FALSE, !.ended = TRUE]
                   ELSE [cdda EXCEPT !.lba = @ + 1, !.length = @ - 1])
      /\ cd' = cd /\ dma' = dma /\ disc' = disc /\ pc' = pc
      /\ job' = job /\ count' = count /\ seen' = seen /\ answers' = answers /\ sent' = sent
  BY DEF PlayAudio, get_audio_data, guestVars
<1>2. Player'
  <2>1. /\ cdda \in Cddas /\ cdda.lba \in Nat /\ cdda.length \in Nat /\ LeadOut \in Nat
        /\ cdda.lba + cdda.length <= LeadOut + 1 /\ cd.cdda_current \in 0..cdda.lba
    BY Bounds DEF Core, Player, Cddas
  <2>2. CASE cdda.length = 0
    <3>1. cdda' \in Cddas /\ cdda'.lba = cdda.lba /\ cdda'.length = cdda.length
      BY <1>1, <2>1, <2>2 DEF Cddas
    <3> QED
      BY <1>1, <2>1, <3>1 DEF Player
  <2>3. CASE cdda.length # 0
    <3>0. cdda.lba + 1 \in Nat /\ cdda.length - 1 \in Nat
      BY <2>1, <2>3
    <3>1. cdda' \in Cddas /\ cdda'.lba = cdda.lba + 1 /\ cdda'.length = cdda.length - 1
      <4>1. cdda' = [cdda EXCEPT !.lba = @ + 1, !.length = @ - 1]
        BY <1>1, <2>3
      <4> QED
        BY <2>1, <3>0, <4>1 DEF Cddas
    <3> QED
      BY <1>1, <2>1, <3>1 DEF Player
  <2> QED
    BY <2>2, <2>3
<1>3. Types'
  BY <1>1 DEF Core, Types
<1>4. Step' /\ Delayed'
  BY <1>1 DEF Core, Step, Delayed, Outstanding
<1>5. Script'
  BY <1>1 DEF Core, Script, Works, Done, Outstanding
<1>6. Refused' /\ ReadScript' /\ Fetched' /\ InterruptAnnounces'
  BY <1>1 DEF Core, Refused, ReadScript, Fetched, InterruptAnnounces, Works, Outstanding, Running, Buffered
<1>7. Transfers'
  BY <1>1 DEF Core, Transfers, Running, Buffered
<1>8. Asked'
  BY <1>1 DEF Core, Asked, FirstLba, LastLba
<1> QED
  BY <1>2, <1>3, <1>4, <1>5, <1>6, <1>7, <1>8 DEF Core

LEMMA DmaTransferCore ==
  ASSUME Core, DmaTransfer
  PROVE  Core'
<1>1. /\ dma.timer
      /\ cd' = (IF cd.buffer_ptr < SectorBytes THEN [cd EXCEPT !.buffer_ptr = @ + 1] ELSE cd)
      /\ dma' = [mask |-> dma.count = 0, count |-> (dma.count - 1) % 65536, timer |-> FALSE]
      /\ cdda' = cdda /\ disc' = disc /\ pc' = pc
      /\ job' = job /\ count' = count /\ seen' = seen /\ answers' = answers /\ sent' = sent
  BY DEF DmaTransfer, dma_transfer_timer, guestVars
<1>2. /\ cd \in Cds /\ SectorBytes \in Nat \ {0} /\ cd.buffer_ptr \in 0..(SectorBytes - 1)
      /\ cd.read_timer = 0 /\ pc = "await" /\ Buffered /\ disc
      /\ job.cmd.op = "read" /\ ~Outstanding
  <2>1. cd \in Cds /\ SectorBytes \in Nat \ {0}
    BY Bounds DEF Core, Types
  <2>2. cd.read_timer = 0 /\ cd.buffer_ptr \in 0..(SectorBytes - 1)
    BY <1>1 DEF Core, Transfers
  <2>3. pc = "await"
    BY <2>2 DEF Core, Step
  <2>4. Buffered /\ disc /\ job.cmd.op = "read" /\ ~cd.status.req
    BY <2>1, <2>2 DEF Core, Transfers, Running
  <2>5. ~cd.status_timer
    BY <2>1, <2>2 DEF Core, Transfers
  <2> QED
    BY <2>1, <2>2, <2>3, <2>4, <2>5 DEF Outstanding
<1>3. cd' = [cd EXCEPT !.buffer_ptr = @ + 1]
  BY <1>1, <1>2
<1>4. cd' \in Cds /\ cd'.buffer_ptr = cd.buffer_ptr + 1
  BY <1>2, <1>3 DEF Cds
<1>5. /\ SameAnswer(cd, cd') /\ cd'.seek_timer = cd.seek_timer /\ cd'.read_timer = 0
      /\ cd'.command = cd.command /\ cd'.parameter = cd.parameter
      /\ cd'.cdda_current = cd.cdda_current /\ cd'.cdda_timer = cd.cdda_timer
      /\ cd'.buffer = cd.buffer /\ cd'.lba_current = cd.lba_current /\ cd'.lba_last = cd.lba_last
  BY <1>2, <1>3 DEF Cds, SameAnswer
<1>6. ~Outstanding' /\ Running' /\ Buffered' /\ cd'.buffer_ptr >= 0
  BY <1>2, <1>4, <1>5 DEF Outstanding, Running, Buffered, SameAnswer
<1>7. Types'
  <2>1. dma.count \in 0..MaxCount
    BY DEF Core, Types
  <2>2. (dma.count - 1) % 65536 \in 0..MaxCount
    <3>1. MaxCount \in Nat /\ MaxCount + 1 = 65536
      BY DEF MaxCount
    <3> QED
      BY <2>1, <3>1
  <2>3. (dma.count = 0) \in BOOLEAN
    OBVIOUS
  <2>4. dma' \in [mask : BOOLEAN, count : 0..MaxCount, timer : BOOLEAN]
    BY <1>1, <2>2, <2>3
  <2> QED
    BY <1>1, <1>4, <2>4 DEF Core, Types
<1>8. Player'
  BY <1>1, <1>5 DEF Core, Player
<1>9. Step' /\ Delayed'
  BY <1>1, <1>2, <1>5 DEF Core, Step, Delayed, Outstanding, SameAnswer
<1>10. Script' /\ Refused'
  BY <1>1, <1>2 DEF Script, Refused, Works
<1>11. ReadScript'
  BY <1>1, <1>2, <1>5, <1>6 DEF Core, ReadScript
<1>12. Fetched' /\ InterruptAnnounces'
  BY <1>1, <1>2, <1>6 DEF Fetched, InterruptAnnounces, Outstanding
<1>13. Transfers'
  <2>1. ~dma'.timer
    BY <1>1
  <2>2. ~cd'.status_timer /\ ~cd'.status.req /\ ~job'.soft
    BY <1>1, <1>2, <1>6 DEF Core, Transfers, Outstanding
  <2> QED
    BY <1>1, <1>2, <1>4, <1>5, <1>6, <2>1, <2>2 DEF Transfers, Running, Moving
<1>14. Asked'
  BY <1>1, <1>5 DEF Core, Asked, FirstLba, LastLba
<1> QED
  BY <1>7, <1>8, <1>9, <1>10, <1>11, <1>12, <1>13, <1>14 DEF Core

LEMMA ReadTimerCore ==
  ASSUME Core, ReadTimer
  PROVE  Core'
<1>1. /\ cd.read_timer # -1 /\ ~dma.timer
      /\ cd' = towns_cdrom_read_byte(cd, cd.read_timer)
      /\ dma' = (IF cd.buffer_ptr < 0 THEN dma ELSE dmarq(dma, cd.read_timer))
      /\ cdda' = cdda /\ disc' = disc /\ pc' = pc
      /\ job' = job /\ count' = count /\ seen' = seen /\ answers' = answers /\ sent' = sent
  BY DEF ReadTimer, read_timer_expires, guestVars
<1>2. /\ cd \in Cds /\ SectorBytes \in Nat \ {0} /\ cd.buffer_ptr \in -1..SectorBytes
      /\ cd.read_timer \in {0, 1} /\ pc = "await" /\ job.cmd.op = "read" /\ disc /\ ~job.soft
      /\ ~cd.status.req /\ cd.command = job.cmd
  <2>1. cd \in Cds /\ SectorBytes \in Nat \ {0}
    BY Bounds DEF Core, Types
  <2>2. pc = "await"
    BY <1>1 DEF Core, Step
  <2>3. job.cmd.op = "read" /\ disc /\ ~job.soft /\ ~cd.status.req
    BY <1>1 DEF Core, Transfers
  <2>4. cd.command = job.cmd
    BY <2>2 DEF Core, Step, Talk
  <2>5. cd.buffer_ptr \in -1..SectorBytes /\ cd.read_timer \in -1..1
    BY <2>1 DEF Cds
  <2> QED
    BY <1>1, <2>1, <2>2, <2>3, <2>4, <2>5
<1>3. ~cd.seek_timer /\ ~cd.cdda_timer
  BY <1>2 DEF Core, ReadScript, Delayed, Talk
<1>4. ASSUME cd' \in Cds, ~cd'.seek_timer, ~cd'.cdda_timer, cd'.command = cd.command,
             cd'.parameter = cd.parameter, cd'.cdda_current = cd.cdda_current,
             dma' \in [mask : BOOLEAN, count : 0..MaxCount, timer : BOOLEAN],
             ~cd'.status.req, Transfers', ReadScript'
      PROVE  Core'
  <2>1. Types'
    BY <1>1, <1>4 DEF Core, Types
  <2>2. Player'
    BY <1>1, <1>4 DEF Core, Player
  <2>3. Step' /\ Delayed'
    BY <1>1, <1>2, <1>4 DEF Step, Delayed, Talk
  <2>4. Script' /\ Refused'
    BY <1>1, <1>2 DEF Script, Refused, Works
  <2>5. Fetched' /\ InterruptAnnounces'
    BY <1>1, <1>2, <1>4 DEF Fetched, InterruptAnnounces
  <2>6. Asked'
    BY <1>1, <1>4 DEF Core, Asked, FirstLba, LastLba
  <2> QED
    BY <1>4, <2>1, <2>2, <2>3, <2>4, <2>5, <2>6 DEF Core
<1>5. /\ dma' \in [mask : BOOLEAN, count : 0..MaxCount, timer : BOOLEAN]
      /\ dma'.timer => cd.read_timer = 1 /\ cd.buffer_ptr >= 0
  <2>1. dma \in [mask : BOOLEAN, count : 0..MaxCount, timer : BOOLEAN]
    BY DEF Core, Types
  <2>2. CASE cd.buffer_ptr < 0
    BY <1>1, <2>1, <2>2
  <2>3. CASE ~(cd.buffer_ptr < 0) /\ cd.read_timer = 1
    <3>1. PICK b \in BOOLEAN : b = (dma.timer \/ ~dma.mask)
      OBVIOUS
    <3>2. dma' = [dma EXCEPT !.timer = b]
      BY <1>1, <2>3, <3>1, Zenon DEF dmarq
    <3>3. cd.buffer_ptr >= 0
      BY <1>2, <2>3
    <3> QED
      BY <2>1, <2>3, <3>2, <3>3
  <2>4. CASE ~(cd.buffer_ptr < 0) /\ cd.read_timer # 1
    <3>1. dma' = [dma EXCEPT !.timer = FALSE]
      BY <1>1, <2>4, Zenon DEF dmarq
    <3> QED
      BY <2>1, <3>1
  <2> QED
    BY <2>2, <2>3, <2>4
<1>6. ASSUME NEW t \in {-1, 0, 1}, cd' = [cd EXCEPT !.read_timer = t]
      PROVE  /\ cd' \in Cds /\ ~cd'.seek_timer /\ ~cd'.cdda_timer /\ cd'.command = cd.command
             /\ cd'.parameter = cd.parameter /\ cd'.cdda_current = cd.cdda_current
             /\ ~cd'.status.req /\ cd'.read_timer = t /\ cd'.buffer_ptr = cd.buffer_ptr
             /\ (Outstanding' <=> Outstanding) /\ (Buffered' <=> Buffered)
             /\ cd'.status_timer = cd.status_timer /\ cd'.cmd_status = cd.cmd_status
             /\ cd'.extra_status = cd.extra_status
             /\ cd'.lba_current = cd.lba_current /\ cd'.lba_last = cd.lba_last
  <2>1. cd' \in Cds /\ cd'.read_timer = t
    BY <1>2, <1>6 DEF Cds
  <2>2. /\ cd'.seek_timer = cd.seek_timer /\ cd'.cdda_timer = cd.cdda_timer /\ cd'.command = cd.command
        /\ cd'.parameter = cd.parameter /\ cd'.cdda_current = cd.cdda_current
        /\ cd'.status = cd.status /\ cd'.buffer_ptr = cd.buffer_ptr /\ cd'.buffer = cd.buffer
        /\ cd'.status_timer = cd.status_timer /\ cd'.cmd_status = cd.cmd_status
        /\ cd'.extra_status = cd.extra_status
        /\ cd'.lba_current = cd.lba_current /\ cd'.lba_last = cd.lba_last
    BY <1>2, <1>6 DEF Cds
  <2> QED
    BY <1>2, <1>3, <2>1, <2>2, Zenon DEF Outstanding, Buffered
<1>7. CASE cd.buffer_ptr < 0
  <2>1. cd.read_timer = 1 /\ cd.status_timer
    BY <1>1, <1>7 DEF Core, Transfers
  <2>2. cd' = [cd EXCEPT !.read_timer = -1]
    <3>1. ~(cd.buffer_ptr >= 0) /\ ~(cd.buffer_ptr \in 0..(SectorBytes - 1))
      BY <1>2, <1>7
    <3> QED
      BY <1>1, <1>7, <3>1, Zenon DEF towns_cdrom_read_byte
  <2>3. /\ cd' \in Cds /\ ~cd'.seek_timer /\ ~cd'.cdda_timer /\ cd'.command = cd.command
        /\ cd'.parameter = cd.parameter /\ cd'.cdda_current = cd.cdda_current
        /\ ~cd'.status.req /\ cd'.read_timer = -1 /\ cd'.buffer_ptr = cd.buffer_ptr
        /\ Outstanding' /\ Outstanding /\ (Buffered' <=> Buffered)
        /\ cd'.cmd_status = cd.cmd_status /\ cd'.extra_status = cd.extra_status
        /\ cd'.lba_current = cd.lba_current /\ cd'.lba_last = cd.lba_last
    BY <1>6, <2>1, <2>2 DEF Outstanding
  <2>4. ~dma'.timer
    BY <1>1, <1>7
  <2>5. Transfers'
    BY <1>1, <1>2, <1>7, <2>3, <2>4 DEF Transfers, Running, Moving
  <2>6. ReadScript'
    BY <1>1, <1>2, <2>3 DEF Core, ReadScript, Talk
  <2> QED
    BY <1>4, <1>5, <2>3, <2>5, <2>6, Zenon
<1>8. CASE cd.buffer_ptr >= 0
  <2>0. ~cd.status_timer /\ ~Outstanding /\ Running /\ Buffered
    BY <1>1, <1>2, <1>8 DEF Core, Transfers, Outstanding, Running
  <2>1. ASSUME NEW t \in {0, 1}, cd' = [cd EXCEPT !.read_timer = t],
               dma'.timer => t = 0, cd.buffer_ptr < SectorBytes
        PROVE  Core'
    <3>1. /\ cd' \in Cds /\ ~cd'.seek_timer /\ ~cd'.cdda_timer /\ cd'.command = cd.command
          /\ cd'.parameter = cd.parameter /\ cd'.cdda_current = cd.cdda_current
          /\ ~cd'.status.req /\ cd'.read_timer = t /\ cd'.buffer_ptr = cd.buffer_ptr
          /\ ~Outstanding' /\ Buffered' /\ ~cd'.status_timer
      BY <1>6, <2>0, <2>1
    <3>2. Transfers'
      BY <1>1, <1>2, <1>8, <2>1, <3>1 DEF Transfers, Running, Moving
    <3>3. ReadScript'
      BY <1>2, <1>8, <2>1, <3>1 DEF ReadScript, Running
    <3> QED
      BY <1>4, <1>5, <3>1, <3>2, <3>3, Zenon
  <2>2. CASE cd.read_timer = 1
    <3>1. cd' = [cd EXCEPT !.read_timer = 0]
      <4>1. ~(cd.buffer_ptr < 0)
        BY <1>2, <1>8
      <4> QED
        BY <1>1, <1>8, <2>2, <4>1, Zenon DEF towns_cdrom_read_byte
    <3>2. cd.buffer_ptr < SectorBytes
      BY <2>2 DEF Core, Transfers
    <3> QED
      BY <2>1, <3>1, <3>2
  <2>3. CASE cd.read_timer = 0 /\ cd.buffer_ptr # SectorBytes
    <3>1. /\ ~(cd.buffer_ptr < 0) /\ cd.read_timer # 1
          /\ cd.buffer_ptr \in 0..(SectorBytes - 1) /\ cd.buffer_ptr < SectorBytes
      BY <1>2, <1>8, <2>3
    <3>2. cd' = [cd EXCEPT !.read_timer = 1]
      BY <1>1, <1>8, <2>3, <3>1, Zenon DEF towns_cdrom_read_byte
    <3>3. ~dma'.timer
      BY <1>5, <3>1
    <3> QED
      BY <2>1, <3>1, <3>2, <3>3
  <2>4. CASE cd.read_timer = 0 /\ cd.buffer_ptr = SectorBytes
    <3>1. PICK e, t : /\ e = EndOfSector(cd, \h22)
                      /\ t = IF cd.lba_current >= cd.lba_last THEN -1 ELSE 1
      OBVIOUS
    <3>2. cd' = [e EXCEPT !.read_timer = t]
      <4>1. /\ ~(cd.buffer_ptr < 0) /\ cd.read_timer # 1
            /\ ~(cd.buffer_ptr \in 0..(SectorBytes - 1))
        BY <1>2, <2>4
      <4> QED
        BY <1>1, <3>1, <4>1, Zenon DEF towns_cdrom_read_byte
    <3>3. cd.lba_current <= cd.lba_last /\ cd.lba_current \in Nat /\ cd.lba_last \in Nat
      BY <1>2, <2>0, Bounds DEF Buffered, Cds
    <3>4. \h22 \in Bytes
      BY ByteFacts
    <3>5. /\ e \in Cds
          /\ cd.lba_current = cd.lba_last => SectorEnded(cd, e, 6) /\ e.lba_current = cd.lba_current
          /\ cd.lba_current # cd.lba_last =>
               /\ SectorEnded(cd, e, \h22)
               /\ e.lba_current = cd.lba_current + 1 /\ e.buffer = cd.lba_current + 1
      BY <1>2, <3>1, <3>3, <3>4, EndFields, Zenon
    <3>6. PICK code : SectorEnded(cd, e, code) /\ code = IF cd.lba_current = cd.lba_last THEN 6 ELSE \h22
      BY <3>5
    <3>7. /\ cd' \in Cds /\ cd'.read_timer = t
          /\ cd'.seek_timer = e.seek_timer /\ cd'.cdda_timer = e.cdda_timer
          /\ cd'.command = e.command
          /\ cd'.parameter = e.parameter /\ cd'.cdda_current = e.cdda_current
          /\ cd'.status = e.status /\ cd'.status_timer = e.status_timer
          /\ cd'.cmd_status = e.cmd_status /\ cd'.extra_status = e.extra_status
          /\ cd'.buffer_ptr = e.buffer_ptr /\ cd'.buffer = e.buffer
          /\ cd'.lba_current = e.lba_current /\ cd'.lba_last = e.lba_last
      <4>1. t \in -1..1
        BY <3>1
      <4>2. e \in Cds
        BY <3>5
      <4> QED
        BY <3>2, <4>1, <4>2 DEF Cds
    <3>8. /\ ~cd'.seek_timer /\ ~cd'.cdda_timer /\ cd'.command = cd.command
          /\ cd'.parameter = cd.parameter /\ cd'.cdda_current = cd.cdda_current
          /\ ~cd'.status.req /\ cd'.status_timer /\ cd'.cmd_status[1] = code
          /\ cd'.extra_status = 0 /\ cd'.buffer_ptr = -1 /\ cd'.lba_last = cd.lba_last
      <4>1. /\ e.seek_timer = cd.seek_timer /\ e.cdda_timer = cd.cdda_timer /\ e.command = cd.command
            /\ e.parameter = cd.parameter /\ e.cdda_current = cd.cdda_current
            /\ e.status.req = cd.status.req /\ e.status_timer /\ e.cmd_status[1] = code
            /\ e.extra_status = 0 /\ e.buffer_ptr = -1 /\ e.lba_last = cd.lba_last
        BY <3>6, Zenon DEF SectorEnded
      <4> QED
        BY <1>2, <1>3, <3>7, <4>1
    <3>9. ~dma'.timer
      BY <1>5, <2>4
    <3>10. Transfers'
      <4>1. cd'.read_timer \in {-1, 1} /\ ~Running'
        BY <3>1, <3>7, <3>8 DEF Running
      <4> QED
        BY <1>1, <1>2, <3>8, <3>9, <4>1 DEF Transfers, Moving
    <3>11. ReadScript'
      <4>1. CASE cd.lba_current = cd.lba_last
        <5>1. cd'.cmd_status[1] = 6 /\ cd'.lba_current = cd'.lba_last
          BY <3>5, <3>6, <3>7, <3>8, <4>1
        <5> QED
          BY <3>8, <5>1 DEF ReadScript, Outstanding
      <4>2. CASE cd.lba_current # cd.lba_last
        <5>1. cd'.cmd_status[1] = \h22 /\ Buffered'
          BY <3>3, <3>5, <3>6, <3>7, <3>8, <4>2 DEF Buffered
        <5> QED
          BY <3>8, <5>1 DEF ReadScript, Outstanding
      <4> QED
        BY <4>1, <4>2
    <3> QED
      BY <1>4, <1>5, <3>7, <3>8, <3>10, <3>11, Zenon
  <2> QED
    BY <1>2, <2>2, <2>3, <2>4
<1> QED
  BY <1>2, <1>7, <1>8

LEMMA WriteCommandCore ==
  ASSUME Core, WriteCommand
  PROVE  Core'
<1>1. PICK c : c = [cd EXCEPT !.command = job.cmd]
  OBVIOUS
<1>2. /\ pc = "command" /\ pc' = (IF Answers(job.cmd) THEN "await" ELSE "idle")
      /\ sent' = sent + 1 /\ cd' = towns_cdrom_execute_command(c)
      /\ cdda' = CommandedAudio(job.cmd) /\ dma' = dma /\ disc' = disc
      /\ job' = job /\ count' = count /\ seen' = seen /\ answers' = answers
  BY <1>1 DEF WriteCommand, command_w
<1>3. /\ cd \in Cds /\ job \in Jobs /\ job.cmd \in Commands /\ sent \in Nat /\ sent < MaxJobs
      /\ MaxJobs \in Nat /\ job.first \in 0..LeadOut /\ job.last \in 0..LeadOut
      /\ job.cmd.st \in BOOLEAN /\ job.cmd.op \in Ops /\ disc \in BOOLEAN
  BY <1>2, JobsAssumption DEF Core, Types, Commands
<1>4. ~cd.status.req /\ ~cd.status_timer /\ ~cd.seek_timer /\ ~cd.cdda_timer /\ cd.read_timer = -1
  BY <1>2 DEF Core, Step, Delayed, Outstanding, Talk
<1>5. FirstLba(cd) = job.first /\ LastLba(cd) = job.last /\ answers = <<>>
  BY <1>2 DEF Core, Asked
<1>6. /\ c \in Cds /\ c.command = job.cmd /\ c.parameter = cd.parameter
      /\ c.cdda_current = cd.cdda_current /\ c.cdda_timer = cd.cdda_timer
      /\ c.buffer_ptr = cd.buffer_ptr /\ c.read_timer = cd.read_timer
      /\ SameAnswer(cd, c)
  BY <1>1, <1>3 DEF Cds, SameAnswer
<1>7. Done' = 0
  BY <1>2, <1>5 DEF Done
<1>8. ASSUME cd' \in Cds, cd'.command = job.cmd, cd'.parameter = cd.parameter,
             cd'.cdda_current = cd.cdda_current, cd'.buffer_ptr = cd.buffer_ptr,
             cd'.read_timer = -1, ~cd'.status.req,
             pc' = "idle" => ~cd'.status_timer /\ ~cd'.seek_timer,
             Delayed', Script', Refused', ReadScript'
      PROVE  Core'
  <2>1. Types'
    BY <1>2, <1>3, <1>8 DEF Core, Types, Pcs, Talk
  <2>2. Player'
    <3>1. cdda \in Cddas
      BY DEF Core, Player
    <3>2. cdda' \in Cddas /\ cdda'.lba = cdda.lba /\ cdda'.length = cdda.length
      <4>1. CASE cdda' = cdda
        BY <3>1, <4>1
      <4>2. CASE cdda' # cdda
        <5>1. PICK b \in BOOLEAN : b = (job.cmd.op # "resume")
          OBVIOUS
        <5>2. cdda' = [cdda EXCEPT !.pause = b]
          BY <1>2, <4>2, <5>1, Zenon DEF CommandedAudio
        <5> QED
          BY <3>1, <5>2 DEF Cddas
      <4> QED
        BY <4>1, <4>2
    <3> QED
      BY <1>2, <1>8, <3>2 DEF Core, Player
  <2>3. Step'
    BY <1>2, <1>8 DEF Step, Outstanding, Talk, Moving
  <2>4. Fetched' /\ InterruptAnnounces'
    BY <1>2, <1>8 DEF Fetched, InterruptAnnounces
  <2>5. Transfers'
    <3>1. ~dma.timer
      BY <1>4 DEF Core, Transfers
    <3>2. ~job.soft /\ job.cmd.op = "read" => cd.buffer_ptr < 0
      BY <1>2, <1>4 DEF Core, Transfers, Running, Pcs
    <3> QED
      BY <1>2, <1>8, <3>1, <3>2 DEF Transfers, Running, Moving
  <2>6. Asked'
    BY <1>2, <1>3, <1>5, <1>8 DEF Asked, FirstLba, LastLba
  <2> QED
    BY <1>8, <2>1, <2>2, <2>3, <2>4, <2>5, <2>6 DEF Core
<1> DEFINE Base(d) == /\ SameDrive(c, d) /\ d \in Cds
                      /\ ~d.seek_timer /\ ~d.status.req /\ ~d.status_timer
<1>9. PICK quiet, taken :
         /\ quiet = [towns_cdrom_set_irq(c, "mpu", FALSE) EXCEPT !.seek_timer = FALSE]
         /\ taken = [quiet EXCEPT !.status.req = FALSE]
  OBVIOUS
<1>10. Base(quiet) /\ Base(taken)
  <2>1. PICK i : i = towns_cdrom_set_irq(c, "mpu", FALSE)
    OBVIOUS
  <2>2. i \in Cds /\ SameDrive(c, i) /\ SameAnswer(c, i)
    BY <1>6, <2>1, IrqFields, Zenon
  <2>3. /\ quiet \in Cds /\ SameDrive(i, quiet) /\ SameAnswer(i, quiet)
        /\ quiet.seek_timer = FALSE
    BY <1>9, <2>1, <2>2 DEF Cds, SameDrive, SameAnswer
  <2>4. Base(quiet)
    BY <1>4, <1>6, <2>2, <2>3, Zenon DEF SameDrive, SameAnswer
  <2>5. taken.status \in Flags /\ taken.status.req = FALSE
    BY <1>9, <2>3 DEF Cds, Flags
  <2>6. taken \in Cds /\ SameDrive(quiet, taken)
    <3>1. taken = [quiet EXCEPT !.status.req = FALSE]
      BY <1>9, Zenon
    <3>2. taken \in Cds
      BY <2>3, <2>5, <3>1 DEF Cds
    <3>3. SameDrive(quiet, taken)
      BY <2>3, <3>1 DEF Cds, SameDrive
    <3> QED
      BY <3>2, <3>3
  <2>7. taken.seek_timer = quiet.seek_timer /\ taken.status_timer = quiet.status_timer
    BY <1>9, <2>3 DEF Cds
  <2>8. Base(taken)
    BY <2>4, <2>5, <2>6, <2>7, Zenon DEF SameDrive
  <2> QED
    BY <2>4, <2>8
<1> HIDE DEF Base
<1>11. ASSUME NEW d, Base(d), SameDrive(d, cd')
       PROVE  /\ cd'.command = job.cmd /\ cd'.parameter = cd.parameter
              /\ cd'.cdda_current = cd.cdda_current /\ cd'.buffer_ptr = cd.buffer_ptr
              /\ cd'.read_timer = -1 /\ ~cd'.cdda_timer
  BY <1>4, <1>6, <1>11, Zenon DEF Base, SameDrive
<1>12. ASSUME NEW d, Base(d), NEW extra \in Extras, NEW q \in Quads,
              cd' = Answer(d, extra, q)
       PROVE  /\ cd' \in Cds /\ SameDrive(d, cd') /\ ~cd'.seek_timer /\ ~cd'.status.req
              /\ cd'.status_timer /\ cd'.cmd_status = q /\ cd'.extra_status = extra
  <2>1. cd' \in Cds /\ Answered(d, cd', extra, q)
    BY <1>12, AnswerFields, Zenon DEF Base
  <2> QED
    BY <1>12, <2>1, Zenon DEF Base, Answered
<1>13. 0 \in Extras /\ 1 \in Extras /\ 2 \in Extras /\ 1 \in TocNumbers
  BY Bounds DEF Extras, TocNumbers
<1>14. CASE ~Works
  <2>1. ~disc /\ c.command # [op |-> "setstate", irq |-> FALSE, st |-> TRUE]
    BY <1>6, <1>14, Zenon DEF Works
  <2>2. ~Works' /\ ~disc'
    BY <1>2, <1>14, <2>1, Zenon DEF Works
  <2>3. CASE job.cmd.st
    <3>1. PICK q : q = <<\h10, 0, 0, 0>>
      OBVIOUS
    <3>2. cd' = Answer(quiet, 0, q)
      BY <1>2, <1>6, <1>9, <2>1, <2>3, <3>1, Zenon DEF towns_cdrom_execute_command
    <3>3. q \in Quads /\ q[1] = \h10
      <4>1. \h10 \in Bytes /\ 0 \in Bytes
        BY ByteFacts
      <4> QED
        BY <3>1, <4>1, Quad
    <3>4. /\ cd' \in Cds /\ SameDrive(quiet, cd') /\ ~cd'.seek_timer /\ ~cd'.status.req
          /\ cd'.status_timer /\ cd'.cmd_status = q /\ cd'.extra_status = 0
      BY <1>10, <1>12, <1>13, <3>2, <3>3, Zenon
    <3>5. /\ cd'.command = job.cmd /\ cd'.parameter = cd.parameter
          /\ cd'.cdda_current = cd.cdda_current /\ cd'.buffer_ptr = cd.buffer_ptr
          /\ cd'.read_timer = -1 /\ ~cd'.cdda_timer
      BY <1>10, <1>11, <3>4, Zenon
    <3>6. Delayed' /\ Script' /\ ReadScript'
      BY <2>2, <3>5, Zenon DEF Delayed, Script, ReadScript
    <3>7. Refused'
      BY <3>3, <3>4, <3>5 DEF Refused
    <3>8. pc' = "await"
      BY <1>2, <2>3 DEF Answers
    <3> QED
      BY <1>8, <3>4, <3>5, <3>6, <3>7, <3>8
  <2>4. CASE ~job.cmd.st
    <3>1. cd' = quiet
      BY <1>2, <1>6, <1>9, <2>1, <2>4, Zenon DEF towns_cdrom_execute_command
    <3>2. SameDrive(quiet, cd') /\ cd' \in Cds /\ ~cd'.seek_timer /\ ~cd'.status.req /\ ~cd'.status_timer
      BY <1>10, <3>1, Zenon DEF Base, SameDrive
    <3>3. /\ cd'.command = job.cmd /\ cd'.parameter = cd.parameter
          /\ cd'.cdda_current = cd.cdda_current /\ cd'.buffer_ptr = cd.buffer_ptr
          /\ cd'.read_timer = -1 /\ ~cd'.cdda_timer
      BY <1>10, <1>11, <3>2, Zenon
    <3>4. Delayed' /\ Script' /\ ReadScript'
      BY <2>2, <3>3, Zenon DEF Delayed, Script, ReadScript
    <3>5. Refused'
      BY <3>2, <3>3 DEF Refused, Outstanding
    <3> QED
      BY <1>8, <3>2, <3>3, <3>4, <3>5
  <2> QED
    BY <2>3, <2>4
<1>15. CASE Works
  <2>1. ~(~disc /\ c.command # [op |-> "setstate", irq |-> FALSE, st |-> TRUE])
    BY <1>6, <1>15, Zenon DEF Works
  <2>2. /\ Works' /\ Refused'
    BY <1>2, <1>15, Zenon DEF Works, Refused
  <2>3. job.cmd.op # "setstate" => disc /\ disc'
    BY <1>2, <1>15 DEF Works
  <2>4. c.command.op = job.cmd.op /\ c.command.st = job.cmd.st
    BY <1>6
  \* An answer that begins the script of the command.
  <2>5. ASSUME NEW d, Base(d), SameDrive(d, cd'), cd' \in Cds, ~cd'.status.req, cd'.status_timer,
               job.cmd.op # "read", pc' = "await",
               cd'.extra_status = ExtraAt(job.cmd, 0), 0 < AnswerCount(job.cmd),
               job.cmd.op # "other" => cd'.cmd_status[1] # \h10,
               cd'.seek_timer <=> job.cmd.op = "seek"
        PROVE  Core'
    <3>1. /\ cd'.command = job.cmd /\ cd'.parameter = cd.parameter
          /\ cd'.cdda_current = cd.cdda_current /\ cd'.buffer_ptr = cd.buffer_ptr
          /\ cd'.read_timer = -1 /\ ~cd'.cdda_timer
      BY <1>11, <2>5, Zenon
    <3>2. Delayed' /\ ReadScript'
      BY <1>2, <2>5, <3>1, Zenon DEF Delayed, ReadScript
    <3>3. Script'
      <4>1. Outstanding'
        BY <2>5 DEF Outstanding
      <4> QED
        BY <1>2, <1>7, <2>5, <4>1 DEF Script
    <3> QED
      BY <1>8, <2>2, <2>5, <3>1, <3>2, <3>3
  \* A single answer without a seek.
  <2>6. ASSUME NEW extra \in Extras, NEW q \in Quads, cd' = Answer(taken, extra, q),
               job.cmd.op \notin {"read", "seek"}, pc' = "await",
               extra = ExtraAt(job.cmd, 0), 0 < AnswerCount(job.cmd),
               job.cmd.op # "other" => q[1] # \h10
        PROVE  Core'
    <3>1. /\ cd' \in Cds /\ SameDrive(taken, cd') /\ ~cd'.seek_timer /\ ~cd'.status.req
          /\ cd'.status_timer /\ cd'.cmd_status = q /\ cd'.extra_status = extra
      BY <1>10, <1>12, <2>6, Zenon
    <3> QED
      BY <1>10, <2>5, <2>6, <3>1
  <2>7. CASE job.cmd.op = "read"
    <3>1. cd' = towns_cdrom_read(taken)
      BY <1>2, <1>9, <2>1, <2>4, <2>7, Zenon DEF towns_cdrom_execute_command
    <3>2. taken \in Cds /\ taken.parameter = cd.parameter
      BY <1>6, <1>10, Zenon DEF Base, SameDrive
    <3>3. FirstLba(taken) = job.first /\ LastLba(taken) = job.last
      BY <1>5, <3>2, Zenon DEF FirstLba, LastLba
    <3>4. cd' \in Cds /\ ReadTaken(taken, cd', job.first, job.last)
      BY <1>3, <3>1, <3>2, <3>3, ReadFields, Zenon
    <3>5. /\ cd'.command = job.cmd /\ cd'.parameter = cd.parameter
          /\ cd'.cdda_current = cd.cdda_current /\ cd'.buffer_ptr = cd.buffer_ptr
          /\ cd'.read_timer = -1 /\ ~cd'.cdda_timer /\ ~cd'.seek_timer
          /\ ~cd'.status.req /\ cd'.status_timer
      <4>1. /\ cd'.command = taken.command /\ cd'.parameter = taken.parameter
            /\ cd'.cdda_current = taken.cdda_current /\ cd'.buffer_ptr = taken.buffer_ptr
            /\ cd'.read_timer = taken.read_timer /\ cd'.cdda_timer = taken.cdda_timer
            /\ cd'.seek_timer = taken.seek_timer /\ cd'.status.req = taken.status.req
            /\ cd'.status_timer
        BY <3>4, Zenon DEF ReadTaken
      <4>2. /\ taken.command = c.command /\ taken.parameter = c.parameter
            /\ taken.cdda_current = c.cdda_current /\ taken.buffer_ptr = c.buffer_ptr
            /\ taken.read_timer = c.read_timer /\ taken.cdda_timer = c.cdda_timer
            /\ ~taken.seek_timer /\ ~taken.status.req
        BY <1>10, Zenon DEF Base, SameDrive
      <4> QED
        BY <1>4, <1>6, <4>1, <4>2
    <3>6. pc' = "await"
      BY <1>2, <2>7 DEF Answers
    <3>7. Delayed' /\ Script'
      BY <1>2, <2>7, <3>5, Zenon DEF Delayed, Script
    <3>8. ReadScript'
      <4>1. CASE job.first > job.last
        BY <3>4, <3>5, <4>1 DEF ReadTaken, ReadScript, Outstanding
      <4>2. CASE ~(job.first > job.last)
        <5>1. cd'.lba_current <= cd'.lba_last
          BY <1>3, <3>4, <4>2, Bounds DEF ReadTaken
        <5>2. Buffered'
          BY <3>4, <4>2, <5>1, Zenon DEF ReadTaken, Buffered
        <5> QED
          BY <3>4, <3>5, <4>2, <5>2 DEF ReadTaken, ReadScript, Outstanding
      <4> QED
        BY <4>1, <4>2
    <3> QED
      BY <1>8, <2>2, <3>4, <3>5, <3>6, <3>7, <3>8
  <2>8. CASE job.cmd.op = "play"
    <3>1. cd' = [taken EXCEPT !.cdda_timer = TRUE]
      BY <1>2, <1>9, <2>1, <2>4, <2>8, Zenon DEF towns_cdrom_execute_command
    <3>2. /\ taken \in Cds /\ ~taken.seek_timer /\ ~taken.status.req /\ ~taken.status_timer
          /\ SameDrive(c, taken)
      BY <1>10, Zenon DEF Base
    <3>3. /\ cd' \in Cds /\ cd'.cdda_timer = TRUE /\ cd'.seek_timer = taken.seek_timer
          /\ cd'.status = taken.status /\ cd'.status_timer = taken.status_timer
          /\ cd'.command = taken.command /\ cd'.parameter = taken.parameter
          /\ cd'.cdda_current = taken.cdda_current /\ cd'.buffer_ptr = taken.buffer_ptr
          /\ cd'.read_timer = taken.read_timer
      BY <3>1, <3>2 DEF Cds
    <3>4. /\ cd'.command = job.cmd /\ cd'.parameter = cd.parameter
          /\ cd'.cdda_current = cd.cdda_current /\ cd'.buffer_ptr = cd.buffer_ptr
          /\ cd'.read_timer = -1 /\ ~cd'.seek_timer
          /\ ~cd'.status.req /\ ~cd'.status_timer
      BY <1>4, <1>6, <3>2, <3>3, Zenon DEF SameDrive
    <3>5. ~Outstanding'
      BY <3>4 DEF Outstanding
    <3>6. pc' \in {"await", "idle"} /\ (job.cmd.st <=> pc' = "await")
      BY <1>2, <2>8 DEF Answers
    <3>7. Delayed'
      BY <1>2, <1>3, <2>3, <2>8, <3>4, <3>5, <3>6 DEF Delayed
    <3>8. Script' /\ ReadScript'
      BY <1>2, <1>7, <2>8, <3>3, <3>4, <3>5 DEF Script, ReadScript
    <3> QED
      BY <1>8, <2>2, <3>3, <3>4, <3>7, <3>8
  <2>9. CASE job.cmd.op = "toc"
    <3>1. pc' = "await"
      BY <1>2, <2>9 DEF Answers
    <3>2. 0 < AnswerCount(job.cmd)
      BY <2>9, Bounds DEF AnswerCount
    <3>3. CASE job.cmd.st
      <4>1. PICK q : q = <<0, 0, 0, 0>>
        OBVIOUS
      <4>2. cd' = Answer(taken, 1, q)
        BY <1>2, <1>9, <2>1, <2>4, <2>9, <3>3, <4>1, Zenon DEF towns_cdrom_execute_command
      <4>3. q \in Quads /\ q[1] = 0
        <5>1. 0 \in Bytes
          BY ByteFacts
        <5> QED
          BY <4>1, <5>1, Quad
      <4>4. ExtraAt(job.cmd, 0) = 1
        BY <2>9, <3>3 DEF ExtraAt
      <4> QED
        BY <1>13, <2>6, <2>9, <3>1, <3>2, <4>2, <4>3, <4>4
    <3>4. CASE ~job.cmd.st
      <4>1. PICK q : q = <<\h16, 0, \ha0, 0>>
        OBVIOUS
      <4>2. cd' = Answer(taken, 2, q)
        BY <1>2, <1>9, <2>1, <2>4, <2>9, <3>4, <4>1, Zenon DEF towns_cdrom_execute_command
      <4>3. q \in Quads /\ q[1] = \h16
        <5>1. 0 \in Bytes /\ \h16 \in Bytes /\ \ha0 \in Bytes
          BY ByteFacts
        <5> QED
          BY <4>1, <5>1, Quad
      <4>4. ExtraAt(job.cmd, 0) = 2
        <5>1. TocNext(0 + 1) = 2
          BY <1>13, TocExtra, Bounds
        <5> QED
          BY <2>9, <3>4, <5>1 DEF ExtraAt
      <4> QED
        BY <1>13, <2>6, <2>9, <3>1, <3>2, <4>2, <4>3, <4>4
    <3> QED
      BY <3>3, <3>4
  <2>10. CASE job.cmd.op \in {"cddastate", "unknown1f", "other"}
    <3>1. PICK q, extra : /\ q = <<IF job.cmd.op = "other" THEN \h10 ELSE 0, 0, 0, 0>>
                          /\ extra = IF job.cmd.op = "cddastate" THEN 1 ELSE 0
      OBVIOUS
    <3>2. cd' = Answer(taken, extra, q)
      <4>1. CASE job.cmd.op = "cddastate"
        <5>1. extra = 1 /\ q = <<0, 0, 0, 0>>
          BY <3>1, <4>1
        <5> QED
          BY <1>2, <1>9, <2>1, <2>4, <4>1, <5>1, Zenon DEF towns_cdrom_execute_command
      <4>2. CASE job.cmd.op = "unknown1f"
        <5>1. extra = 0 /\ q = <<0, 0, 0, 0>>
          BY <3>1, <4>2
        <5> QED
          BY <1>2, <1>9, <2>1, <2>4, <4>2, <5>1, Zenon DEF towns_cdrom_execute_command
      <4>3. CASE job.cmd.op = "other"
        <5>1. extra = 0 /\ q = <<\h10, 0, 0, 0>>
          BY <3>1, <4>3
        <5> QED
          BY <1>2, <1>9, <2>1, <2>4, <4>3, <5>1, Zenon DEF towns_cdrom_execute_command
      <4> QED
        BY <2>10, <4>1, <4>2, <4>3
    <3>3. q \in Quads /\ (job.cmd.op # "other" => q[1] # \h10)
      <4>1. PICK x : x = IF job.cmd.op = "other" THEN \h10 ELSE 0
        OBVIOUS
      <4>2. x \in Bytes /\ 0 \in Bytes
        BY <4>1, ByteFacts
      <4>3. q \in Quads /\ q[1] = x
        BY <3>1, <4>1, <4>2, Quad
      <4> QED
        BY <4>1, <4>3
    <3>4. /\ extra \in Extras /\ extra = ExtraAt(job.cmd, 0) /\ 0 < AnswerCount(job.cmd)
          /\ pc' = "await"
      BY <1>2, <1>13, <2>10, <3>1 DEF ExtraAt, AnswerCount, Answers
    <3> QED
      BY <2>6, <2>10, <3>2, <3>3, <3>4
  <2>11. CASE job.cmd.op \in Silents /\ ~job.cmd.st
    <3>1. cd' = taken
      BY <1>2, <1>9, <2>1, <2>4, <2>11 DEF towns_cdrom_execute_command, Silents
    <3>2. SameDrive(taken, cd') /\ cd' \in Cds /\ ~cd'.seek_timer /\ ~cd'.status.req /\ ~cd'.status_timer
      BY <1>10, <3>1, Zenon DEF Base, SameDrive
    <3>3. /\ cd'.command = job.cmd /\ cd'.parameter = cd.parameter
          /\ cd'.cdda_current = cd.cdda_current /\ cd'.buffer_ptr = cd.buffer_ptr
          /\ cd'.read_timer = -1 /\ ~cd'.cdda_timer
      BY <1>10, <1>11, <3>2, Zenon
    <3>4. pc' = "idle"
      BY <1>2, <2>11 DEF Answers, Silents
    <3>5. Delayed' /\ Script' /\ ReadScript'
      BY <3>3, <3>4 DEF Delayed, Script, ReadScript, Talk
    <3> QED
      BY <1>8, <2>2, <3>2, <3>3, <3>5
  <2>12. CASE job.cmd.op \in Silents /\ job.cmd.st
    <3>1. PICK a, op : op = job.cmd.op /\ a = Acknowledged(op)
      OBVIOUS
    <3>2. PICK extra, q, b : extra = a[1] /\ q = a[2] /\ b = Answer(taken, extra, q)
      OBVIOUS
    <3>3. /\ extra = IF op \in {"stop84", "stop85", "resume"} THEN 1 ELSE 0
          /\ extra \in Extras /\ q \in Quads /\ q[1] = 0
      BY <2>12, <3>1, <3>2, AckFields, Zenon
    <3>4. cd' = [b EXCEPT !.seek_timer = (op = "seek")]
      BY <1>2, <1>9, <2>1, <2>4, <2>12, <3>1, <3>2 DEF towns_cdrom_execute_command, Silents
    <3>5. taken \in Cds /\ ~taken.status.req
      BY <1>10, Zenon DEF Base
    <3>6. b \in Cds /\ Answered(taken, b, extra, q)
      BY <3>2, <3>3, <3>5, AnswerFields, Zenon
    <3>7. PICK s \in BOOLEAN : s = (op = "seek")
      OBVIOUS
    <3>8. /\ cd' \in Cds /\ SameDrive(b, cd') /\ SameAnswer(b, cd') /\ cd'.seek_timer = s
      BY <3>4, <3>6, <3>7 DEF Cds, SameDrive, SameAnswer
    <3>9. /\ SameDrive(taken, cd') /\ ~cd'.status.req /\ cd'.status_timer
          /\ cd'.cmd_status[1] = 0 /\ cd'.extra_status = extra
      BY <3>3, <3>5, <3>6, <3>8, Zenon DEF Answered, SameDrive, SameAnswer
    <3>10. pc' = "await" /\ job.cmd.op \notin {"read", "other"}
      BY <1>2, <2>12 DEF Answers, Silents
    <3>11. extra = ExtraAt(job.cmd, 0) /\ 0 < AnswerCount(job.cmd)
      <4>1. CASE op \in {"stop84", "stop85"}
        BY <3>1, <3>3, <4>1 DEF ExtraAt, AnswerCount
      <4>2. CASE op = "resume"
        BY <3>1, <3>3, <4>2 DEF ExtraAt, AnswerCount
      <4>3. CASE op = "seek"
        BY <3>1, <3>3, <4>3 DEF ExtraAt, AnswerCount
      <4>4. CASE op \in {"unknown01", "setstate", "cddaset"}
        BY <3>1, <3>3, <4>4 DEF ExtraAt, AnswerCount
      <4> QED
        BY <2>12, <3>1, <4>1, <4>2, <4>3, <4>4 DEF Silents
    <3>12. cd'.seek_timer <=> job.cmd.op = "seek"
      <4>1. cd'.seek_timer = (op = "seek")
        BY <3>7, <3>8, Zenon
      <4> QED
        BY <3>1, <4>1, Zenon
    <3> QED
      BY <1>10, <2>5, <3>8, <3>9, <3>10, <3>11, <3>12
  <2> QED
    BY <1>3, <2>7, <2>8, <2>9, <2>10, <2>11, <2>12 DEF Ops, Silents
<1> QED
  BY <1>14, <1>15

\* The script of a command: whether answer d + 1 is its last, and what
\* extra_status is with the one after it.
LEMMA ScriptGoesOn ==
  ASSUME NEW cmd \in Commands, NEW d \in Nat, d < AnswerCount(cmd), cmd.op # "read"
  PROVE  LET e == ExtraAt(cmd, d)
         IN /\ cmd.op \in {"toc", "cddastate", "play", "stop84", "stop85"} =>
                 (e = 0 <=> d + 1 = AnswerCount(cmd))
            /\ cmd.op = "toc" /\ e # 0 => ExtraAt(cmd, d + 1) = TocNext(e)
            /\ cmd.op = "cddastate" /\ e # 0 =>
                 e \in 1..4 /\ ExtraAt(cmd, d + 1) = IF e = 4 THEN 0 ELSE e + 1
            /\ cmd.op \in {"play", "stop84", "stop85"} => ExtraAt(cmd, d + 1) = 0
            /\ cmd.op = "seek" => AnswerCount(cmd) = 2 /\ e = 0
            /\ cmd.op \notin {"toc", "cddastate", "play", "stop84", "stop85", "seek"} =>
                 d + 1 = AnswerCount(cmd)
<1> DEFINE last == 8 + 2 * get_last_track
<1>0. get_last_track \in Nat /\ get_last_track >= 1
  BY Bounds
<1>1. CASE cmd.op = "toc"
  <2>1. \A n \in 1..last : TocNext(n) = IF n = last THEN 0 ELSE n + 1
    BY <1>0, TocExtra DEF TocNumbers
  <2>2. cmd.st \in BOOLEAN
    BY DEF Commands
  <2>3. CASE cmd.st
    <3>1. AnswerCount(cmd) = last + 1
      BY <1>0, <1>1, <2>3 DEF AnswerCount
    <3>2. CASE d = 0
      <4>1. ExtraAt(cmd, d) = 1 /\ ExtraAt(cmd, d + 1) = TocNext(1)
        BY <1>1, <2>3, <3>2 DEF ExtraAt
      <4> QED
        BY <1>0, <1>1, <3>1, <3>2, <4>1
    <3>3. CASE d # 0
      <4>1. ExtraAt(cmd, d) = TocNext(d) /\ ExtraAt(cmd, d + 1) = TocNext(d + 1)
        BY <1>1, <2>3, <3>3 DEF ExtraAt
      <4> QED
        BY <1>0, <1>1, <2>1, <3>1, <3>3, <4>1
    <3> QED
      BY <3>2, <3>3
  <2>4. CASE ~cmd.st
    <3>1. AnswerCount(cmd) = last
      BY <1>0, <1>1, <2>4 DEF AnswerCount
    <3>2. ExtraAt(cmd, d) = TocNext(d + 1) /\ ExtraAt(cmd, d + 1) = TocNext((d + 1) + 1)
      BY <1>1, <2>4 DEF ExtraAt
    <3> QED
      BY <1>0, <1>1, <2>1, <3>1, <3>2
  <2> QED
    BY <2>3, <2>4
<1>2. CASE cmd.op = "cddastate"
  BY <1>2 DEF ExtraAt, AnswerCount
<1>3. CASE cmd.op \in {"play", "stop84", "stop85"}
  BY <1>3 DEF ExtraAt, AnswerCount
<1>4. CASE cmd.op = "seek"
  BY <1>4 DEF ExtraAt, AnswerCount
<1>5. CASE cmd.op \notin {"toc", "cddastate", "play", "stop84", "stop85", "seek"}
  <2>1. AnswerCount(cmd) = 1
    BY <1>5 DEF AnswerCount
  <2> QED
    BY <1>5, <2>1
<1> QED
  BY <1>1, <1>2, <1>3, <1>4, <1>5, Zenon

\* The last element of a sequence is replaced.
Relast(t, s, x) ==
  /\ Len(t) = Len(s) /\ t[Len(s)] = x /\ \A i \in 1..(Len(s) - 1) : t[i] = s[i]

LEMMA Relasted ==
  ASSUME NEW S, NEW s \in Seq(S), Len(s) > 0, NEW x \in S
  PROVE  /\ [s EXCEPT ![Len(s)] = x] \in Seq(S)
         /\ Relast([s EXCEPT ![Len(s)] = x], s, x)
BY DEF Relast

\* One more byte of the answer the status bytes hold.
LEMMA ByteFetched ==
  ASSUME Core, Fetch
  PROVE  /\ count \in 0..3 /\ cd.cmd_status_ptr = count
         /\ cd.status.req /\ ~cd.status_timer /\ ~cd.cdda_timer /\ cd.read_timer = -1
         /\ cd \in Cds /\ Len(answers) \in Nat /\ Len(answers) > 0
         /\ answers' \in Seq(Seq(Bytes)) /\ Len(answers') = Len(answers)
         /\ \A i \in 1..(Len(answers) - 1) : answers'[i] = answers[i]
         /\ Len(answers'[Len(answers)]) = count + 1
         /\ \A i \in 1..(count + 1) : answers'[Len(answers)][i] = cd.cmd_status[i]
<1>1. /\ pc = "fetch"
      /\ answers' = [answers EXCEPT ![Len(answers)] =
                       Append(@, cd.cmd_status[cd.cmd_status_ptr + 1])]
  BY DEF Fetch
<1>2. /\ cd.status.req /\ cd.cmd_status_ptr = count /\ ~cd.status_timer /\ ~cd.cdda_timer
      /\ cd.read_timer = -1
  BY <1>1 DEF Core, Step, Delayed
<1>3. /\ cd \in Cds /\ count \in 0..3 /\ answers \in Seq(Seq(Bytes)) /\ Len(answers) > 0
      /\ Len(answers[Len(answers)]) = count
      /\ \A i \in 1..count : answers[Len(answers)][i] = cd.cmd_status[i]
  BY <1>1 DEF Core, Types, Fetched
<1>4. PICK n, old, byte : /\ n = Len(answers) /\ old = answers[n]
                          /\ byte = cd.cmd_status[cd.cmd_status_ptr + 1]
  OBVIOUS
<1>5. n \in Nat /\ n > 0 /\ old \in Seq(Bytes) /\ Len(old) = count
  BY <1>3, <1>4
<1>6. byte \in Bytes /\ byte = cd.cmd_status[count + 1]
  <2>1. cd.cmd_status \in Quads
    BY <1>3 DEF Cds
  <2>2. count + 1 \in 1..4
    BY <1>3
  <2> QED
    BY <1>2, <1>4, <2>1, <2>2, Zenon DEF Quads
<1>7. PICK new : new = Append(old, byte)
  OBVIOUS
<1>8. /\ new \in Seq(Bytes) /\ Len(new) = count + 1 /\ new[count + 1] = byte
      /\ \A i \in 1..count : new[i] = old[i]
  BY <1>5, <1>6, <1>7
<1>9. PICK t : t = [answers EXCEPT ![Len(answers)] = new]
  OBVIOUS
<1>10. answers' = t
  BY <1>1, <1>4, <1>7, <1>9, <1>3
<1>11. t \in Seq(Seq(Bytes)) /\ Relast(t, answers, new)
  BY <1>3, <1>8, <1>9, Relasted, Zenon
<1>12. /\ Len(t) = Len(answers) /\ t[Len(answers)] = new
       /\ \A i \in 1..(Len(answers) - 1) : t[i] = answers[i]
  BY <1>11, Zenon DEF Relast
<1>13. \A i \in 1..(count + 1) : new[i] = cd.cmd_status[i]
  <2>1. ASSUME NEW i \in 1..(count + 1) PROVE new[i] = cd.cmd_status[i]
    <3>1. CASE i \in 1..count
      BY <1>3, <1>4, <1>8, <3>1
    <3>2. CASE i = count + 1
      BY <1>6, <1>8, <3>2, Zenon
    <3> QED
      BY <1>3, <3>1, <3>2
  <2> QED
    BY <2>1
<1> QED
  BY <1>2, <1>3, <1>4, <1>5, <1>8, <1>10, <1>11, <1>12, <1>13, Zenon

\* Whether answer n, which begins with code, is the last one of a command.
Ends(cmd, code, n) ==
  \/ code = \h10
  \/ cmd.op = "read" /\ code \in {1, 6}
  \/ cmd.op # "read" /\ n = AnswerCount(cmd)

LEMMA AnswerFetched ==
  ASSUME Core, Fetch, count = 3
  PROVE  /\ cd' \in Cds /\ SameDrive(cd, cd') /\ ~cd'.status.req /\ cd'.seek_timer = cd.seek_timer
         /\ Fourth(cd, cd')
         /\ pc' = IF job.cmd.op = "read" /\ cd.cmd_status[1] \in {\h21, \h22} THEN "start"
                  ELSE IF Ends(job.cmd, cd.cmd_status[1], Len(answers)) THEN "idle" ELSE "await"
<1>1. /\ pc = "fetch" /\ cd' = command_status_read(cd)
      /\ pc' = CASE count < 3 -> "fetch"
                 [] count = 3 /\ job.cmd.op = "read" /\ answers'[Len(answers)][1] \in {\h21, \h22} -> "start"
                 [] OTHER -> IF Complete(job, answers') THEN "idle" ELSE "await"
  BY DEF Fetch, command_status_r
<1>2. /\ cd.cmd_status_ptr = 3 /\ cd \in Cds /\ ~cd.status_timer
      /\ Len(answers') = Len(answers) /\ answers'[Len(answers)][1] = cd.cmd_status[1]
  BY ByteFetched
<1>3. /\ cd' \in Cds /\ SameDrive(cd, cd') /\ ~cd'.status.req /\ cd'.seek_timer = cd.seek_timer
      /\ Fourth(cd, cd')
  <2>1. Player
    BY DEF Core
  <2> QED
    BY <1>1, <1>2, <2>1, FourthFields, Zenon
<1>4. Complete(job, answers') <=> Ends(job.cmd, cd.cmd_status[1], Len(answers))
  BY <1>2 DEF Complete, Ends
<1>5. ~(count < 3)
  OBVIOUS
<1> QED
  BY <1>1, <1>2, <1>3, <1>4, <1>5

LEMMA FetchCore ==
  ASSUME Core, Fetch
  PROVE  Core'
<1>1. /\ pc = "fetch" /\ cd' = command_status_read(cd) /\ count' = count + 1
      /\ pc' = CASE count < 3 -> "fetch"
                 [] count = 3 /\ job.cmd.op = "read" /\ answers'[Len(answers)][1] \in {\h21, \h22} -> "start"
                 [] OTHER -> IF Complete(job, answers') THEN "idle" ELSE "await"
      /\ dma' = dma /\ cdda' = cdda /\ disc' = disc
      /\ job' = job /\ seen' = seen /\ sent' = sent
  BY DEF Fetch, command_status_r
<1>2. /\ count \in 0..3 /\ cd.cmd_status_ptr = count
      /\ cd.status.req /\ ~cd.status_timer /\ ~cd.cdda_timer /\ cd.read_timer = -1
      /\ cd \in Cds /\ Len(answers) \in Nat /\ Len(answers) > 0
      /\ answers' \in Seq(Seq(Bytes)) /\ Len(answers') = Len(answers)
      /\ Len(answers'[Len(answers)]) = count + 1
      /\ \A i \in 1..(count + 1) : answers'[Len(answers)][i] = cd.cmd_status[i]
  BY ByteFetched
<1>3. Outstanding /\ cd.command = job.cmd
  BY <1>1, <1>2 DEF Core, Step, Outstanding, Talk
<1>4. ~dma.timer /\ (~job.soft /\ job.cmd.op = "read" => cd.buffer_ptr < 0)
  BY <1>1, <1>2 DEF Core, Transfers, Running, Pcs, Talk
<1>5. CASE count < 3
  <2>1. cd' = [cd EXCEPT !.cmd_status_ptr = @ + 1]
    <3>1. ~(cd.cmd_status_ptr >= 3)
      BY <1>2, <1>5
    <3> QED
      BY <1>1, <3>1, Zenon DEF command_status_read
  <2>2. /\ cd' \in Cds /\ cd'.cmd_status_ptr = count + 1
        /\ cd'.cmd_status = cd.cmd_status /\ cd'.extra_status = cd.extra_status
        /\ cd'.status = cd.status /\ cd'.status_timer = cd.status_timer
        /\ cd'.seek_timer = cd.seek_timer
    <3>1. count + 1 \in 0..3
      BY <1>2, <1>5
    <3> QED
      BY <1>2, <2>1, <3>1 DEF Cds
  <2>3. SameDrive(cd, cd')
    BY <1>2, <2>1 DEF Cds, SameDrive
  <2>4. pc' = "fetch"
    BY <1>1, <1>2, <1>5
  <2>5. Done' = Done
    BY <1>1, <1>2, <2>4 DEF Done
  <2>6. Types'
    <3>1. cd' \in Cds /\ answers' \in Seq(Seq(Bytes)) /\ count' \in Nat /\ pc' = pc
      BY <1>1, <1>2, <2>2, <2>4
    <3> QED
      BY <1>1, <3>1 DEF Core, Types
  <2>7. Player'
    BY <1>1, <2>3 DEF Core, Player, SameDrive
  <2>8. Step' /\ Delayed'
    <3>1. cd'.status.req /\ ~cd'.status_timer /\ cd'.cmd_status_ptr = count'
      BY <1>1, <1>2, <2>2
    <3>2. ~cd'.cdda_timer /\ cd'.read_timer = -1 /\ cd'.command = job'.cmd
      BY <1>1, <1>2, <1>3, <2>3, Zenon DEF SameDrive
    <3> QED
      BY <2>4, <3>1, <3>2 DEF Step, Delayed, Talk
  <2>9. Script'
    BY <1>1, <1>3, <2>2, <2>4, <2>5 DEF Core, Script, Works, Outstanding
  <2>10. Refused' /\ ReadScript'
    BY <1>1, <1>3, <2>2, <2>3, <2>4 DEF Core, Refused, ReadScript, Works, Outstanding, Buffered, SameDrive
  <2>11. Fetched'
    BY <1>1, <1>2, <1>5, <2>2 DEF Fetched
  <2>12. Transfers' /\ InterruptAnnounces'
    BY <1>1, <1>2, <1>4, <2>3, <2>4 DEF Transfers, InterruptAnnounces, Running, Moving, SameDrive
  <2>13. Asked'
    BY <1>1, <2>3, <2>4 DEF Core, Asked, FirstLba, LastLba, SameDrive
  <2> QED
    BY <2>6, <2>7, <2>8, <2>9, <2>10, <2>11, <2>12, <2>13 DEF Core
<1>6. CASE count = 3
  <2>1. PICK code, n, extra : /\ code = cd.cmd_status[1] /\ n = Len(answers)
                              /\ extra = cd.extra_status
    OBVIOUS
  <2>2. Len(answers') = n
    BY <1>2, <2>1
  <2>3. /\ cd' \in Cds /\ SameDrive(cd, cd') /\ ~cd'.status.req /\ cd'.seek_timer = cd.seek_timer
        /\ Fourth(cd, cd')
        /\ pc' = IF job.cmd.op = "read" /\ code \in {\h21, \h22} THEN "start"
                 ELSE IF Ends(job.cmd, code, n) THEN "idle" ELSE "await"
    BY <1>6, <2>1, AnswerFetched, Zenon
  <2>4. Ends(job.cmd, code, n) <=>
           \/ code = \h10
           \/ job.cmd.op = "read" /\ code \in {1, 6}
           \/ job.cmd.op # "read" /\ n = AnswerCount(job.cmd)
    BY Zenon DEF Ends
  <2>5. /\ cd' \in Cds /\ SameDrive(cd, cd') /\ ~cd'.status.req /\ cd'.seek_timer = cd.seek_timer
        /\ Fourth(cd, cd')
    BY <2>3, Zenon
  <2>6. Done = n - 1 /\ Done' = n /\ n \in Nat /\ n > 0
    <3>1. pc' # "fetch"
      BY <2>3
    <3> QED
      BY <1>1, <1>2, <2>1, <2>2, <3>1 DEF Done
  <2>7. ASSUME pc' # "await" => ~cd'.status_timer /\ ~cd.seek_timer,
               pc' = "start" => job.cmd.op = "read" /\ disc /\ Buffered,
               pc' = "await" => Script' /\ Refused' /\ ReadScript'
        PROVE  Core'
    <3>0. pc' \in {"idle", "await", "start"}
      BY <2>3
    <3>1. Types'
      <4>1. count' \in Nat /\ dma' = dma /\ disc' = disc /\ job' = job /\ seen' = seen /\ sent' = sent
        BY <1>1, <1>2
      <4>2. pc' \in Pcs /\ pc' \notin {"params", "command"}
        BY <3>0 DEF Pcs, Talk, Moving
      <4>3. cd' \in Cds /\ answers' \in Seq(Seq(Bytes))
        BY <1>2, <2>5
      <4>4. job \in Jobs
        BY <1>1 DEF Core, Types
      <4> QED
        BY <4>1, <4>2, <4>3, <4>4 DEF Core, Types
    <3>2. Player'
      BY <1>1, <2>5 DEF Core, Player, SameDrive
    <3>3. Step' /\ Delayed'
      BY <1>1, <1>2, <1>3, <2>5, <2>7, <3>0 DEF Step, Delayed, Outstanding, SameDrive, Talk
    <3>4. Script' /\ Refused' /\ ReadScript'
      BY <2>7, <3>0 DEF Script, Refused, ReadScript, Talk
    <3>5. Transfers'
      BY <1>1, <1>2, <1>4, <2>5, <2>7, <3>0 DEF Transfers, Running, Buffered, SameDrive, Moving
    <3>6. Fetched' /\ InterruptAnnounces'
      BY <2>5, <3>0 DEF Fetched, InterruptAnnounces
    <3>7. Asked'
      BY <1>1, <2>5, <3>0 DEF Core, Asked, FirstLba, LastLba, SameDrive
    <3> QED
      BY <3>1, <3>2, <3>3, <3>4, <3>5, <3>6, <3>7 DEF Core
  <2>8. CASE ~Works
    <3>1. code = \h10 /\ extra = 0 /\ ~cd.seek_timer
      BY <1>1, <1>3, <2>1, <2>8 DEF Core, Refused, Talk
    <3>2. ~cd'.status_timer
      BY <2>1, <2>5, <3>1 DEF Fourth
    <3>3. pc' = "idle"
      BY <2>3, <2>4, <3>1
    <3> QED
      BY <2>7, <3>1, <3>2, <3>3
  <2>9. CASE Works /\ job.cmd.op = "read"
    <3>1. disc /\ cd.command.op = "read"
      BY <1>3, <2>9 DEF Works
    <3>2. /\ ~cd.seek_timer
          /\ \/ code = 1 /\ extra = 0
             \/ code = 0 /\ extra = 2 /\ Buffered
             \/ code \in {\h21, \h22} /\ extra = 0 /\ Buffered
             \/ code = 6 /\ extra = 0
      BY <1>1, <1>3, <2>1, <2>9, <3>1 DEF Core, ReadScript, Talk
    <3>3. CASE extra = 0
      <4>1. ~cd'.status_timer
        BY <2>1, <2>5, <3>3 DEF Fourth
      <4>2. pc' # "await" /\ (pc' = "start" => Buffered)
        BY <2>3, <2>4, <2>9, <3>2, <3>3
      <4> QED
        BY <2>7, <2>9, <3>1, <3>2, <4>1, <4>2
    <3>4. CASE extra = 2
      <4>1. cd'.status_timer /\ cd'.extra_status = 0 /\ cd'.cmd_status[1] = \h22
        BY <2>1, <2>5, <3>1, <3>4 DEF Fourth
      <4>2. code = 0 /\ Buffered
        BY <3>2, <3>4
      <4>3. pc' = "await"
        BY <2>3, <2>4, <2>9, <4>2
      <4>4. Script' /\ Refused'
        BY <1>1, <2>9, Zenon DEF Script, Refused, Works
      <4>5. ReadScript'
        <5>1. Buffered' /\ Outstanding' /\ ~cd'.seek_timer
          BY <2>5, <3>2, <4>1, <4>2, Zenon DEF Buffered, SameDrive, Outstanding
        <5> QED
          BY <4>1, <5>1 DEF ReadScript
      <4> QED
        BY <2>7, <4>3, <4>4, <4>5
    <3> QED
      BY <3>2, <3>3, <3>4
  <2>10. CASE Works /\ job.cmd.op # "read"
    <3>1. PICK op, d : op = job.cmd.op /\ d = Done
      OBVIOUS
    <3>2. /\ d < AnswerCount(job.cmd) /\ extra = ExtraAt(job.cmd, d)
          /\ op # "other" => code # \h10
          /\ cd.seek_timer <=> (op = "seek" /\ d = 0)
      BY <1>1, <1>3, <2>1, <2>10, <3>1 DEF Core, Script, Talk
    <3>3. /\ job.cmd \in Commands /\ d \in Nat /\ n = d + 1 /\ op \in Ops
          /\ cd.command.op = op
      <4>1. job.cmd \in Commands
        BY DEF Core, Types
      <4> QED
        BY <1>3, <2>6, <3>1, <4>1 DEF Commands
    <3>4. /\ op \in {"toc", "cddastate", "play", "stop84", "stop85"} =>
               (extra = 0 <=> d + 1 = AnswerCount(job.cmd))
          /\ op = "toc" /\ extra # 0 => ExtraAt(job.cmd, d + 1) = TocNext(extra)
          /\ op = "cddastate" /\ extra # 0 =>
               extra \in 1..4 /\ ExtraAt(job.cmd, d + 1) = IF extra = 4 THEN 0 ELSE extra + 1
          /\ op \in {"play", "stop84", "stop85"} => ExtraAt(job.cmd, d + 1) = 0
          /\ op = "seek" => AnswerCount(job.cmd) = 2 /\ extra = 0
          /\ op \notin {"toc", "cddastate", "play", "stop84", "stop85", "seek"} =>
               d + 1 = AnswerCount(job.cmd)
      BY <2>10, <3>1, <3>2, <3>3, ScriptGoesOn, Zenon
    <3>5. Refused' /\ ReadScript'
      BY <1>1, <2>10, Zenon DEF Refused, ReadScript, Works
    <3>6. pc' = IF d + 1 = AnswerCount(job.cmd) \/ code = \h10 THEN "idle" ELSE "await"
      BY <2>3, <2>4, <2>10, <3>3
    \* No answer follows.
    <3>7. ASSUME ~cd'.status_timer, d + 1 = AnswerCount(job.cmd), op # "seek"
          PROVE  Core'
      BY <2>7, <3>2, <3>6, <3>7
    \* One does.
    <3>8. ASSUME cd'.status_timer, d + 1 # AnswerCount(job.cmd), op \notin {"seek", "other"},
                 cd'.extra_status = ExtraAt(job.cmd, d + 1), cd'.cmd_status[1] # \h10
          PROVE  Core'
      <4>1. pc' = "await"
        BY <3>2, <3>6, <3>8
      <4>2. Outstanding' /\ ~cd'.seek_timer
        BY <2>5, <3>2, <3>8 DEF Outstanding
      <4>3. d + 1 < AnswerCount(job.cmd)
        <5>1. AnswerCount(job.cmd) \in Int
          BY <3>3, Bounds DEF AnswerCount, Commands
        <5> QED
          BY <3>2, <3>3, <3>8, <5>1
      <4>4. Script'
        BY <1>1, <2>6, <3>1, <3>3, <3>8, <4>2, <4>3 DEF Script
      <4> QED
        BY <2>7, <3>5, <4>1, <4>4
    <3>9. CASE op = "seek"
      <4>1. ~cd'.status_timer
        BY <2>1, <2>5, <3>4, <3>9 DEF Fourth
      <4>2. ~Outstanding'
        BY <2>5, <4>1 DEF Outstanding
      <4>3. CASE d = 0
        <5>1. pc' = "await"
          BY <3>2, <3>4, <3>6, <3>9, <4>3
        <5>2. Script'
          <6>1. Done' = 1 /\ cd'.seek_timer /\ job'.cmd.op = "seek"
            BY <1>1, <2>5, <2>6, <3>1, <3>2, <3>3, <3>9, <4>3
          <6> QED
            BY <4>2, <6>1 DEF Script
        <5> QED
          BY <2>7, <3>5, <5>1, <5>2
      <4>4. CASE d # 0
        <5>1. d + 1 = AnswerCount(job.cmd) /\ ~cd.seek_timer
          BY <3>2, <3>3, <3>4, <3>9, <4>4
        <5> QED
          BY <2>7, <3>6, <4>1, <5>1
      <4> QED
        BY <4>3, <4>4
    <3>10. CASE op \in {"toc", "cddastate", "play", "stop84", "stop85"} /\ extra = 0
      <4>1. ~cd'.status_timer
        BY <2>1, <2>5, <3>10 DEF Fourth
      <4> QED
        BY <3>4, <3>7, <3>10, <4>1
    <3>11. CASE op = "toc" /\ extra # 0
      <4>1. cd'.status_timer /\ cd'.extra_status = TocNext(extra) /\ cd'.cmd_status = TocBytes(extra)
        BY <2>1, <2>5, <3>3, <3>11 DEF Fourth
      <4>2. extra \in TocNumbers
        <5>1. extra \in Extras
          BY <1>2, <2>1 DEF Cds
        <5> QED
          BY <3>11, <5>1, Bounds DEF Extras, TocNumbers
      <4>3. TocBytes(extra)[1] # \h10
        BY <4>2, TocQuad
      <4> QED
        BY <3>4, <3>8, <3>11, <4>1, <4>3
    <3>12. CASE op = "cddastate" /\ extra # 0
      <4>1. /\ cd'.status_timer /\ cd'.extra_status = IF extra = 4 THEN 0 ELSE extra + 1
            /\ cd'.cmd_status[1] \in {\h18, \h19, \h20}
        BY <2>1, <2>5, <3>3, <3>4, <3>12 DEF Fourth
      <4> QED
        BY <3>4, <3>8, <3>12, <4>1
    <3>13. CASE op \in {"play", "stop84", "stop85"} /\ extra # 0
      <4>1. cd'.status_timer /\ cd'.extra_status = 0 /\ cd'.cmd_status[1] \in {0, 7, \h11, \h12}
        BY <2>1, <2>5, <3>3, <3>13 DEF Fourth
      <4> QED
        BY <3>4, <3>8, <3>13, <4>1
    <3>14. CASE op \notin {"toc", "cddastate", "play", "stop84", "stop85", "seek"}
      <4>1. ~cd'.status_timer
        BY <2>1, <2>5, <2>10, <3>1, <3>3, <3>14 DEF Fourth
      <4> QED
        BY <3>4, <3>7, <3>14, <4>1
    <3> QED
      BY <3>9, <3>10, <3>11, <3>12, <3>13, <3>14
  <2> QED
    BY <2>8, <2>9, <2>10
<1> QED
  BY <1>2, <1>5, <1>6

LEMMA CoreHolds ==
  ASSUME Core, [Next]_allVars
  PROVE  Core'
<1>1. CASE UNCHANGED allVars
  <2>1. /\ cd' = cd /\ dma' = dma /\ cdda' = cdda /\ disc' = disc /\ pc' = pc
        /\ job' = job /\ count' = count /\ seen' = seen /\ answers' = answers /\ sent' = sent
    BY <1>1 DEF allVars, vars, guestVars
  <2>2. Types'
    BY <2>1 DEF Core, Types
  <2>3. Player' /\ Step' /\ Delayed'
    BY <2>1 DEF Core, Player, Step, Delayed, Outstanding
  <2>4. Script' /\ Refused' /\ ReadScript'
    BY <2>1 DEF Core, Script, Refused, ReadScript, Works, Done, Outstanding, Running, Buffered
  <2>5. Fetched' /\ InterruptAnnounces' /\ Transfers'
    BY <2>1 DEF Core, Fetched, InterruptAnnounces, Transfers, Running, Buffered
  <2>6. Asked'
    BY <2>1 DEF Core, Asked, FirstLba, LastLba
  <2> QED
    BY <2>2, <2>3, <2>4, <2>5, <2>6 DEF Core
<1>2. CASE Guest
  BY <1>2, ChooseCore, WriteParameterCore, WriteCommandCore, PollCore, ClearCore,
     FetchCore, ProgramCore, StartTransferCore, ReadDataCore DEF Guest
<1>3. CASE Next /\ ~Guest
  BY <1>3, AbandonCore, StatusReadyCore, DelayCddaCore, DelaySeekCore, ReadTimerCore,
     DmaTransferCore, PlayAudioCore DEF Next
<1> QED
  BY <1>1, <1>2, <1>3

LEMMA CoreBegins ==
  ASSUME GuestInit
  PROVE  Core
<1>1. /\ cd = [command |-> NoCommand,
           status |-> [mpu |-> FALSE, dma |-> FALSE, softtx |-> FALSE, dmatx |-> FALSE,
                       req |-> FALSE, ready |-> TRUE],
           cmd_status |-> <<0, 0, 0, 0>>, cmd_status_ptr |-> 0, extra_status |-> 0,
           parameter |-> [i \in 1..8 |-> 0], software_tx |-> FALSE,
           buffer |-> -1, buffer_ptr |-> -1, lba_current |-> 0, lba_last |-> 0,
           cdda_current |-> 0, cdda_length |-> 0, ir1 |-> FALSE,
           status_timer |-> FALSE, seek_timer |-> FALSE, cdda_timer |-> FALSE,
           read_timer |-> -1]
      /\ dma = [mask |-> TRUE, count |-> 0, timer |-> FALSE]
      /\ cdda = [playing |-> FALSE, pause |-> FALSE, ended |-> FALSE, lba |-> 0, length |-> 0]
      /\ disc \in BOOLEAN
      /\ pc = "idle" /\ count = 0 /\ sent = 0
      /\ job = [cmd |-> NoCommand, first |-> 0, last |-> 0, soft |-> FALSE]
      /\ seen = [mpu |-> FALSE, dma |-> FALSE] /\ answers = <<>>
  BY DEF GuestInit, Init
<1>2. /\ SectorBytes \in Nat /\ LeadOut \in Nat /\ get_last_track \in Nat /\ MaxJobs \in Nat
      /\ 0 \in Bytes
  BY Bounds, JobsAssumption, ByteFacts
<1>3. NoCommand \in Commands
  BY DEF NoCommand, Commands, Ops
<1>4. PICK q, p : q = <<0, 0, 0, 0>> /\ p = [i \in 1..8 |-> 0]
  OBVIOUS
<1>5. q \in Quads /\ p \in Eights
  BY <1>2, <1>4 DEF Quads, Eights
<1>6. cd \in Cds
  <2>1. 0 \in Extras /\ 0 \in 0..LeadOut /\ -1 \in -1..LeadOut /\ -1 \in -1..SectorBytes
    BY <1>2 DEF Extras
  <2>2. cd.status \in Flags
    BY <1>1 DEF Flags
  <2> QED
    BY <1>1, <1>3, <1>4, <1>5, <2>1, <2>2 DEF Cds
<1>7. Types
  <2>1. dma \in [mask : BOOLEAN, count : 0..MaxCount, timer : BOOLEAN]
    <3>1. MaxCount \in Nat
      BY DEF MaxCount
    <3> QED
      BY <1>1, <3>1
  <2>2. job \in [cmd : Commands, first : 0..LeadOut, last : 0..LeadOut, soft : BOOLEAN]
    BY <1>1, <1>2, <1>3
  <2> QED
    BY <1>1, <1>2, <1>6, <2>1, <2>2 DEF Types, Pcs
<1>8. Player
  BY <1>1, <1>2 DEF Player, Cddas
<1>9. Step /\ Delayed
  BY <1>1 DEF Step, Delayed, Outstanding, Talk, Moving
<1>10. Script /\ Refused /\ ReadScript /\ Fetched /\ InterruptAnnounces
  BY <1>1 DEF Script, Refused, ReadScript, Fetched, InterruptAnnounces, Talk
<1>11. Transfers /\ Asked
  BY <1>1 DEF Transfers, Asked, Running, Moving
<1> QED
  BY <1>7, <1>8, <1>9, <1>10, <1>11 DEF Core

\* The guest and the controller stay in step: at most one answer is
\* outstanding, it is the next one of the command's script, and the transfer of
\* a sector goes on only where the guest expects it (the handlers of the ports
\* and the five timers check little of this themselves).
THEOREM AlwaysCore == Spec => []Core
<1>1. GuestInit => Core
  BY CoreBegins
<1>2. Core /\ [Next]_allVars => Core'
  BY CoreHolds
<1> QED
  BY <1>1, <1>2, PTL DEF Spec

\* The registers keep their types, and when the DMA controller takes a byte
\* there is one of the current sector in the buffer.
THEOREM TransfersStayInBounds == Spec => []TransferInBounds
<1>1. Core => TransferInBounds
  <2> SUFFICES ASSUME Core PROVE TransferInBounds
    OBVIOUS
  <2>1. cd \in Cds /\ LeadOut \in Nat /\ SectorBytes \in Nat
    BY Bounds DEF Core, Types
  <2>2. TypeOK
    <3>1. /\ cd.command \in Commands /\ cd.status \in Flags
          /\ cd.cmd_status \in Quads /\ cd.cmd_status_ptr \in 0..3
          /\ cd.extra_status \in Extras /\ cd.parameter \in Eights
          /\ cd.buffer_ptr \in -1..SectorBytes /\ cd.read_timer \in -1..1
          /\ cd.buffer \in -1..LeadOut /\ cd.lba_current \in 0..LeadOut /\ cd.lba_last \in 0..LeadOut
          /\ {cd.software_tx, cd.ir1, cd.status_timer, cd.seek_timer, cd.cdda_timer} \subseteq BOOLEAN
      BY <2>1 DEF Cds
    <3>2. {cdda.playing, cdda.pause, cdda.ended, disc} \subseteq BOOLEAN
      BY DEF Core, Types, Player, Cddas
    <3>3. /\ dma \in [mask : BOOLEAN, count : 0..MaxCount, timer : BOOLEAN]
          /\ pc \in {"idle", "params", "command", "await", "clear", "fetch", "start", "data", "left"}
          /\ job \in Jobs \/ sent = 0
          /\ sent \in 0..MaxJobs
      BY DEF Core, Types, Pcs, Talk, Moving
    <3> QED
      BY <3>1, <3>2, <3>3, Zenon DEF TypeOK, Flags, Quads, Extras, Eights
  <2>3. ASSUME dma.timer
        PROVE  cd.buffer_ptr \in 0..(SectorBytes - 1) /\ cd.buffer = cd.lba_current
    <3>1. cd.read_timer = 0 /\ cd.buffer_ptr \in 0..(SectorBytes - 1)
      BY <2>3 DEF Core, Transfers
    <3>2. Running
      BY <2>1, <3>1 DEF Running
    <3>3. Buffered
      BY <3>2 DEF Core, Transfers
    <3> QED
      BY <3>1, <3>3 DEF Buffered
  <2> QED
    BY <2>2, <2>3 DEF TransferInBounds
<1> QED
  BY <1>1, AlwaysCore, PTL

\* A ready answer is announced by the interrupt line when the command asked
\* for it.
THEOREM InterruptAlwaysAnnounces == Spec => []InterruptAnnounces
<1>1. Core => InterruptAnnounces
  BY DEF Core
<1> QED
  BY <1>1, AlwaysCore, PTL

LEMMA HoldsAnswer ==
  ASSUME Core, [Next]_allVars, Outstanding, ~(pc = "fetch" /\ count = 3)
  PROVE  cd'.cmd_status = cd.cmd_status
<1>1. cd \in Cds
  BY DEF Core, Types
<1>2. pc \in Talk
  BY DEF Core, Step
<1>3. CASE cd' = cd
  BY <1>3
<1>4. CASE Clear
  <2>1. PICK m, e : m = seen.mpu /\ e = seen.dma
    OBVIOUS
  <2>2. PICK c : c = IF m THEN towns_cdrom_set_irq(cd, "mpu", FALSE) ELSE cd
    OBVIOUS
  <2>3. cd' = IF e THEN towns_cdrom_set_irq(c, "dma", FALSE) ELSE c
    BY <1>4, <2>1, <2>2 DEF Clear, status_w
  <2>4. c \in Cds /\ c.cmd_status = cd.cmd_status
    <3>1. CASE m
      <4>1. c \in Cds /\ SameAnswer(cd, c)
        BY <1>1, <2>2, <3>1, IrqFields, Zenon
      <4> QED
        BY <4>1, Zenon DEF SameAnswer
    <3>2. CASE ~m
      BY <1>1, <2>2, <3>2, Zenon
    <3> QED
      BY <3>1, <3>2
  <2>5. CASE e
    <3>1. SameAnswer(c, cd')
      BY <2>3, <2>4, <2>5, IrqFields, Zenon
    <3> QED
      BY <2>4, <3>1, Zenon DEF SameAnswer
  <2>6. CASE ~e
    BY <2>3, <2>4, <2>6, Zenon
  <2> QED
    BY <2>5, <2>6
<1>5. CASE Fetch
  <2>1. cd' = command_status_read(cd) /\ pc = "fetch"
    BY <1>5 DEF Fetch, command_status_r
  <2>2. ~(cd.cmd_status_ptr >= 3)
    BY <1>5, <2>1, ByteFetched
  <2>3. cd' = [cd EXCEPT !.cmd_status_ptr = @ + 1]
    BY <2>1, <2>2, Zenon DEF command_status_read
  <2> QED
    BY <1>1, <2>3 DEF Cds
<1>6. CASE StatusReady
  <2>1. PICK i : i = towns_cdrom_set_irq(cd, "mpu", TRUE)
    OBVIOUS
  <2>2. i \in Cds /\ SameAnswer(cd, i)
    BY <1>1, <2>1, IrqFields, Zenon
  <2>3. cd' = [i EXCEPT !.status.req = TRUE, !.status.ready = TRUE,
                        !.cmd_status_ptr = 0, !.status_timer = FALSE]
    BY <1>6, <2>1 DEF StatusReady, towns_cd_status_ready
  <2>4. cd'.cmd_status = i.cmd_status
    BY <2>2, <2>3 DEF Cds
  <2> QED
    BY <2>2, <2>4, Zenon DEF SameAnswer
<1>7. CASE ReadTimer
  <2>1. cd.read_timer # -1 /\ cd' = towns_cdrom_read_byte(cd, cd.read_timer)
    BY <1>7 DEF ReadTimer, read_timer_expires
  <2>2. cd.buffer_ptr < 0
    BY <2>1 DEF Core, Transfers, Outstanding
  <2>3. ~(cd.buffer_ptr >= 0) /\ ~(cd.buffer_ptr \in 0..(SectorBytes - 1))
    <3>1. cd.buffer_ptr \in -1..SectorBytes /\ SectorBytes \in Nat
      BY <1>1, Bounds DEF Cds
    <3> QED
      BY <2>2, <3>1
  <2>4. cd' = [cd EXCEPT !.read_timer = -1]
    BY <2>1, <2>2, <2>3, Zenon DEF towns_cdrom_read_byte
  <2> QED
    BY <1>1, <2>4 DEF Cds
<1>8. CASE DmaTransfer
  <2>1. cd' = cd \/ cd' = [cd EXCEPT !.buffer_ptr = @ + 1]
    BY <1>8 DEF DmaTransfer, dma_transfer_timer
  <2> QED
    BY <1>1, <2>1 DEF Cds
<1>9. CASE DelayCdda \/ DelaySeek
  BY <1>9 DEF Core, Delayed, DelayCdda, towns_delay_cdda, DelaySeek
<1>10. CASE Choose \/ Poll \/ Program \/ Abandon \/ PlayAudio \/ UNCHANGED allVars
  <2>1. cd' = cd
    BY <1>10 DEF Choose, Poll, Program, dma_w, Abandon, PlayAudio, get_audio_data, allVars, vars
  <2> QED
    BY <2>1
<1>11. CASE WriteParameter \/ WriteCommand \/ StartTransfer \/ ReadData
  BY <1>2, <1>11 DEF WriteParameter, WriteCommand, StartTransfer, ReadData, Talk
<1> QED
  BY <1>4, <1>5, <1>6, <1>7, <1>8, <1>9, <1>10, <1>11 DEF Next, Guest

\* No answer is lost or torn: the four status bytes change only when the last
\* one has been read to its end.
THEOREM AnswerAlwaysHeld == Spec => AnswerIsHeld
<1>1. Core /\ [Next]_allVars =>
        [Outstanding /\ ~(pc = "fetch" /\ count = 3) => cd'.cmd_status = cd.cmd_status]_allVars
  BY HoldsAnswer
<1> QED
  BY <1>1, AlwaysCore, PTL DEF Spec, AnswerIsHeld

-----------------------------------------------------------------------------
(* Delivery: where the bytes received stand in the sectors asked for *)

\* Byte k of what job j asks for, and how many there are.
Byte(j, k) == <<j.first + ((k - 1) \div SectorBytes), (k - 1) % SectorBytes>>
Size(j) == IF j.first > j.last THEN 0 ELSE (1 + j.last - j.first) * SectorBytes

\* How many bytes of the current sector the guest has.
Place ==
  IF Running \/ pc \in {"data", "left"} THEN cd.buffer_ptr
  ELSE IF Outstanding /\ cd.cmd_status[1] = 6 THEN SectorBytes ELSE 0

\* The guest has all bytes before the place where the transfer stands.
InPlace ==
  /\ cd.lba_last = job.last /\ job.first <= cd.lba_current
  /\ job.first > job.last => mem = <<>> /\ cd.cmd_status[1] = 1
  /\ job.first <= job.last =>
       /\ cd.lba_current <= job.last
       /\ Len(mem) = (cd.lba_current - job.first) * SectorBytes + Place

Delivers ==
  /\ mem \in Seq(Int \X Int)
  /\ pc \in {"params", "command"} => mem = <<>>
  /\ job.cmd.op = "read" /\ disc =>
       /\ \A k \in 1..Len(mem) : mem[k] = Byte(job, k)
       /\ pc \in Talk \cup Moving => InPlace
       /\ pc = "idle" => Len(mem) = Size(job)

LEMMA Scaled ==
  ASSUME NEW a \in Int, NEW b \in Int, NEW n \in Nat, a < b
  PROVE  a * n + n <= b * n
OBVIOUS

LEMMA DivMod ==
  ASSUME NEW q \in Int, NEW n \in Nat \ {0}, NEW r \in 0..(n - 1)
  PROVE  (q * n + r) \div n = q /\ (q * n + r) % n = r
<1>1. PICK m, d, e : m = q * n + r /\ d = m \div n /\ e = m % n
  OBVIOUS
<1>2. m \in Int /\ d \in Int /\ e \in 0..(n - 1) /\ m = n * d + e
  BY <1>1
<1>3. d * n + e = q * n + r
  BY <1>1, <1>2
<1>4. ~(d < q)
  <2>1. d < q => d * n + n <= q * n
    BY <1>2, Scaled
  <2>2. d * n \in Int /\ q * n \in Int
    BY <1>2
  <2> QED
    BY <1>2, <1>3, <2>1, <2>2
<1>5. ~(q < d)
  <2>1. q < d => q * n + n <= d * n
    BY <1>2, Scaled
  <2>2. d * n \in Int /\ q * n \in Int
    BY <1>2
  <2> QED
    BY <1>2, <1>3, <2>1, <2>2
<1>6. d = q
  BY <1>2, <1>4, <1>5
<1>7. e = r
  BY <1>2, <1>3, <1>6
<1> QED
  BY <1>1, <1>6, <1>7

\* What is asked for, byte by byte.
LEMMA WantedBytes ==
  ASSUME NEW j, j.first \in Int, j.last \in Int
  PROVE  /\ Size(j) \in Nat /\ Len(Wanted(j)) = Size(j)
         /\ \A k \in 1..Size(j) : Wanted(j)[k] = Byte(j, k)
<1>1. SectorBytes \in Nat \ {0}
  BY Bounds
<1>2. PICK n : n = (1 + j.last - j.first) * SectorBytes
  OBVIOUS
<1>3. n \in Int /\ Size(j) \in Nat /\ 1..n = 1..Size(j)
  <2>1. CASE j.first > j.last
    <3>1. Size(j) = 0
      BY <2>1 DEF Size
    <3>2. (1 + j.last - j.first) * SectorBytes <= 0 /\ n \in Int
      <4>1. 1 + j.last - j.first <= 0 /\ 1 + j.last - j.first \in Int
        BY <2>1
      <4>2. PICK m \in Int : m = 1 + j.last - j.first
        BY <4>1
      <4>3. m * SectorBytes <= 0 /\ m * SectorBytes \in Int
        BY <1>1, <4>1, <4>2
      <4> QED
        BY <1>2, <4>2, <4>3
    <3> QED
      BY <1>2, <3>1, <3>2
  <2>2. CASE ~(j.first > j.last)
    <3>1. Size(j) = n
      BY <1>2, <2>2, Zenon DEF Size
    <3>2. PICK m \in Nat : m = 1 + j.last - j.first
      BY <2>2
    <3>3. n \in Nat
      BY <1>1, <1>2, <3>2
    <3> QED
      BY <3>1, <3>3
  <2> QED
    BY <2>1, <2>2
<1>4. PICK size \in Nat : size = Size(j)
  BY <1>3
<1>5. Wanted(j) = [k \in 1..size |-> Byte(j, k)]
  BY <1>2, <1>3, <1>4, Zenon DEF Wanted, Byte
<1>6. ASSUME NEW f, f = [k \in 1..size |-> Byte(j, k)]
      PROVE  Len(f) = size /\ \A k \in 1..size : f[k] = Byte(j, k)
  BY <1>6
<1> QED
  BY <1>3, <1>4, <1>5, <1>6, Zenon

LEMMA DeliverOther ==
  ASSUME job' = job, disc' = disc, ~(job.cmd.op = "read" /\ disc),
         mem' \in Seq(Int \X Int), pc' \in {"params", "command"} => mem' = <<>>
  PROVE  Delivers'
BY DEF Delivers

LEMMA JobNumbers ==
  ASSUME Core
  PROVE  /\ job.first \in Nat /\ job.last \in Nat
         /\ cd.lba_current \in Nat /\ cd.lba_last \in Nat /\ SectorBytes \in Nat \ {0}
BY Bounds DEF Core, Types, Cds

\* No byte moves, and neither does the place.
LEMMA DeliverSame ==
  ASSUME Core, Delivers, job' = job, disc' = disc, mem' = mem,
         pc \in Talk \cup Moving, pc' \in Talk \cup Moving,
         job.cmd.op = "read" /\ disc =>
           /\ cd'.lba_current = cd.lba_current /\ cd'.lba_last = cd.lba_last /\ Place' = Place
           /\ job.first <= job.last \/ cd'.cmd_status[1] = cd.cmd_status[1]
  PROVE  Delivers'
<1>1. mem \in Seq(Int \X Int)
  BY DEF Delivers
<1>2. pc' \notin {"params", "command", "idle"}
  BY DEF Talk, Moving
<1>3. CASE ~(job.cmd.op = "read" /\ disc)
  BY <1>1, <1>2, <1>3, DeliverOther
<1>4. CASE job.cmd.op = "read" /\ disc
  <2>1. InPlace /\ \A k \in 1..Len(mem) : mem[k] = Byte(job, k)
    BY <1>4 DEF Delivers
  <2>2. InPlace'
    <3>1. cd'.lba_last = job'.last /\ job'.first <= cd'.lba_current
      BY <1>4, <2>1 DEF InPlace
    <3>2. job'.first <= job'.last =>
            /\ cd'.lba_current <= job'.last
            /\ Len(mem') = (cd'.lba_current - job'.first) * SectorBytes + Place'
      BY <1>4, <2>1, Zenon DEF InPlace
    <3>3. ASSUME job.first > job.last PROVE mem' = <<>> /\ cd'.cmd_status[1] = 1
      <4>1. mem = <<>> /\ cd.cmd_status[1] = 1
        BY <2>1, <3>3, Zenon DEF InPlace
      <4>2. ~(job.first <= job.last)
        BY <3>3, JobNumbers
      <4> QED
        BY <1>4, <4>1, <4>2
    <3> QED
      BY <3>1, <3>2, <3>3, Zenon DEF InPlace
  <2> QED
    BY <1>1, <1>2, <1>4, <2>1, <2>2 DEF Delivers, Byte
<1> QED
  BY <1>3, <1>4

\* One byte moves from the place to the guest.
TakesByte(lba, p) ==
  /\ job' = job /\ disc' = disc /\ job.cmd.op = "read" /\ disc
  /\ pc \in Talk \cup Moving /\ pc' \in Talk \cup Moving
  /\ lba = cd.lba_current /\ p \in 0..(SectorBytes - 1) /\ p = Place /\ Buffered
  /\ mem' = Append(mem, <<lba, p>>) /\ cd'.lba_last = cd.lba_last
  /\ \/ cd'.lba_current = lba /\ Place' = p + 1
     \/ /\ cd'.lba_current = lba + 1 /\ lba + 1 <= cd.lba_last
        /\ p + 1 = SectorBytes /\ Place' = 0

LEMMA DeliverByte ==
  ASSUME Core, Delivers, NEW lba, NEW p, TakesByte(lba, p)
  PROVE  Delivers'
<1>0. /\ job' = job /\ disc' = disc /\ job.cmd.op = "read" /\ disc
      /\ lba = cd.lba_current /\ p \in 0..(SectorBytes - 1) /\ p = Place /\ Buffered
      /\ mem' = Append(mem, <<lba, p>>) /\ cd'.lba_last = cd.lba_last
  BY Zenon DEF TakesByte
<1>1. mem \in Seq(Int \X Int) /\ InPlace /\ \A k \in 1..Len(mem) : mem[k] = Byte(job, k)
  BY <1>0 DEF Delivers, TakesByte
<1>2. PICK first, last, n : first = job.first /\ last = job.last /\ n = SectorBytes
  OBVIOUS
<1>3. /\ first \in Nat /\ last \in Nat /\ n \in Nat \ {0} /\ lba \in Nat
      /\ cd.lba_last = last /\ first <= lba /\ lba <= last /\ first <= last
  BY <1>0, <1>1, <1>2, JobNumbers DEF InPlace, Buffered
<1>4. PICK q, m : q = lba - first /\ m = q * n
  OBVIOUS
<1>5. q \in Int /\ m \in Int /\ first + q = lba /\ p \in Nat /\ p \in 0..(n - 1)
  <2>1. q \in Int /\ first + q = lba
    BY <1>3, <1>4
  <2>2. m \in Int
    BY <1>3, <1>4, <2>1
  <2> QED
    BY <1>0, <1>2, <1>3, <2>1, <2>2
<1>6. Len(mem) = m + p /\ <<lba, p>> = Byte(job, Len(mem) + 1)
  <2>1. cd.lba_current - job.first = q /\ job.first <= job.last
    BY <1>0, <1>2, <1>3, <1>4
  <2>2. Len(mem) = (cd.lba_current - job.first) * SectorBytes + Place
    BY <1>1, <2>1, Zenon DEF InPlace
  <2>3. Len(mem) = m + p
    BY <1>0, <1>2, <1>4, <2>1, <2>2, Zenon
  <2>4. PICK k : k = Len(mem) + 1
    OBVIOUS
  <2>5. k = m + p + 1
    BY <1>5, <2>3, <2>4
  <2>6. Byte(job, k) = <<job.first + q, p>>
    <3>1. n \in Nat \ {0} /\ p \in 0..(n - 1) /\ q \in Int
      BY <1>3, <1>5, Zenon
    <3>2. (q * n + p) \div n = q /\ (q * n + p) % n = p
      BY <3>1, DivMod, Zenon
    <3>3. k - 1 = m + p
      BY <1>5, <2>5
    <3>4. k - 1 = q * n + p
      BY <1>4, <3>3, Zenon
    <3> QED
      BY <1>2, <3>2, <3>4, Zenon DEF Byte
  <2> QED
    BY <1>2, <1>5, <2>3, <2>4, <2>6, Zenon
<1>7. PICK x : x = <<lba, p>>
  OBVIOUS
<1>8. x \in Int \X Int
  BY <1>3, <1>5, <1>7
<1>9. mem' \in Seq(Int \X Int) /\ Len(mem') = Len(mem) + 1
  BY <1>0, <1>1, <1>7, <1>8
<1>10. ASSUME NEW k \in 1..Len(mem') PROVE mem'[k] = Byte(job, k)
  <2>1. CASE k \in 1..Len(mem)
    <3>1. mem'[k] = mem[k]
      BY <1>0, <1>1, <1>7, <1>8, <2>1
    <3> QED
      BY <1>1, <2>1, <3>1, Zenon
  <2>2. CASE k = Len(mem) + 1
    <3>1. mem'[k] = x
      BY <1>0, <1>1, <1>7, <1>8, <2>2
    <3> QED
      BY <1>6, <1>7, <2>2, <3>1, Zenon
  <2> QED
    BY <1>1, <1>9, <2>1, <2>2
<1>11. InPlace'
  <2>1. ~(job'.first > job'.last) /\ job'.first <= job'.last
    BY <1>0, <1>2, <1>3
  <2>2. CASE cd'.lba_current = lba /\ Place' = p + 1
    <3>1. Len(mem') = m + Place'
      BY <1>5, <1>6, <1>9, <2>2
    <3>2. Len(mem') = (cd'.lba_current - job'.first) * SectorBytes + Place'
      BY <1>0, <1>2, <1>4, <2>2, <3>1, Zenon
    <3>3. cd'.lba_last = job'.last /\ job'.first <= cd'.lba_current /\ cd'.lba_current <= job'.last
      BY <1>0, <1>2, <1>3, <2>2
    <3> QED
      BY <2>1, <3>2, <3>3, Zenon DEF InPlace
  <2>3. CASE /\ cd'.lba_current = lba + 1 /\ lba + 1 <= cd.lba_last
             /\ p + 1 = SectorBytes /\ Place' = 0
    <3>1. PICK q1, m1 : q1 = q + 1 /\ m1 = q1 * n
      OBVIOUS
    <3>2. (lba + 1) - first = q1
      BY <1>3, <1>5, <3>1
    <3>3. q1 * n = q * n + n
      BY <1>3, <1>5, <3>1
    <3>4. m1 = m + n
      BY <1>4, <3>1, <3>3, Zenon
    <3>5. Len(mem') = m1 + Place'
      <4>1. Len(mem') = (m + p) + 1
        BY <1>6, <1>9, Zenon
      <4>2. p + 1 = n /\ Place' = 0
        BY <1>2, <2>3, Zenon
      <4> QED
        BY <1>3, <1>5, <3>4, <4>1, <4>2
    <3>6. Len(mem') = (cd'.lba_current - job'.first) * SectorBytes + Place'
      BY <1>0, <1>2, <2>3, <3>1, <3>2, <3>5, Zenon
    <3>7. cd'.lba_last = job'.last /\ job'.first <= cd'.lba_current /\ cd'.lba_current <= job'.last
      BY <1>0, <1>2, <1>3, <2>3
    <3> QED
      BY <2>1, <3>6, <3>7, Zenon DEF InPlace
  <2> QED
    BY <2>2, <2>3, Zenon DEF TakesByte
<1>12. pc' \notin {"params", "command", "idle"}
  BY DEF TakesByte, Talk, Moving
<1> QED
  BY <1>0, <1>9, <1>10, <1>11, <1>12 DEF Delivers, Byte

LEMMA DeliverNone ==
  ASSUME mem' = <<>>, pc' \in {"params", "command"}
  PROVE  Delivers'
BY DEF Delivers, Talk, Moving

\* The guest is not at a job that could be a read, and gets nothing.
LEMMA DeliverRest ==
  ASSUME Delivers, job' = job, disc' = disc, mem' = mem, pc' = pc,
         pc \notin Talk \cup Moving \/ ~(job.cmd.op = "read" /\ disc)
  PROVE  Delivers'
<1>1. CASE ~(job.cmd.op = "read" /\ disc)
  BY <1>1, DeliverOther DEF Delivers
<1>2. CASE pc \notin Talk \cup Moving
  BY <1>2 DEF Delivers, Byte, Size
<1> QED
  BY <1>1, <1>2

LEMMA PlaceSame ==
  ASSUME SameDrive(cd, cd'), cd'.cmd_status = cd.cmd_status, Outstanding' <=> Outstanding,
         pc \in {"data", "left"} <=> pc' \in {"data", "left"}
  PROVE  Place' = Place
BY DEF Place, Running, SameDrive

LEMMA PollDelivers ==
  ASSUME Core, Delivers, Poll \/ Abandon
  PROVE  Delivers'
<1>1. /\ cd' = cd /\ disc' = disc /\ job' = job /\ mem' = mem
      /\ pc \in Talk \cup Moving /\ pc' \in Talk \cup Moving
      /\ pc \in {"data", "left"} <=> pc' \in {"data", "left"}
  BY DEF Poll, Abandon, vars, Talk, Moving
<1>2. Place' = Place
  BY <1>1 DEF Place, Running, Outstanding
<1> QED
  BY <1>1, <1>2, DeliverSame

LEMMA ClearDelivers ==
  ASSUME Core, Delivers, Clear
  PROVE  Delivers'
<1>1. /\ disc' = disc /\ job' = job /\ mem' = mem /\ pc = "clear" /\ pc' = "fetch"
      /\ SameDrive(cd, cd') /\ SameAnswer(cd, cd')
  BY ClearFields
<1>2. Outstanding' <=> Outstanding
  BY <1>1, Zenon DEF Outstanding, SameAnswer
<1>3. /\ cd'.cmd_status = cd.cmd_status
      /\ cd'.lba_current = cd.lba_current /\ cd'.lba_last = cd.lba_last
  BY <1>1, Zenon DEF SameDrive, SameAnswer
<1>4. Place' = Place
  BY <1>1, <1>2, <1>3, PlaceSame
<1> QED
  BY <1>1, <1>3, <1>4, DeliverSame DEF Talk

LEMMA StatusReadyDelivers ==
  ASSUME Core, Delivers, StatusReady
  PROVE  Delivers'
<1>1. disc' = disc /\ job' = job /\ mem' = mem /\ pc' = pc
  BY DEF StatusReady, towns_cd_status_ready, guestVars
<1>2. /\ pc = "await" /\ SameDrive(cd, cd') /\ cd'.cmd_status = cd.cmd_status
      /\ Outstanding /\ Outstanding'
  BY StatusReadyFields, Zenon
<1>3. cd'.lba_current = cd.lba_current /\ cd'.lba_last = cd.lba_last
  BY <1>2, Zenon DEF SameDrive
<1>4. Place' = Place
  BY <1>1, <1>2, PlaceSame
<1> QED
  BY <1>1, <1>2, <1>3, <1>4, DeliverSame DEF Talk

LEMMA ProgramDelivers ==
  ASSUME Core, Delivers, Program \/ PlayAudio
  PROVE  Delivers'
<1>1. /\ cd' = cd /\ disc' = disc /\ job' = job /\ mem' = mem /\ pc' = pc
  BY DEF Program, PlayAudio, dma_w, get_audio_data, guestVars
<1>2. Place' = Place
  BY <1>1 DEF Place, Running, Outstanding
<1>3. CASE pc \in Talk \cup Moving
  BY <1>1, <1>2, <1>3, DeliverSame
<1>4. CASE pc \notin Talk \cup Moving
  BY <1>1, <1>4, DeliverRest
<1> QED
  BY <1>3, <1>4

\* Delays belong to other commands.
LEMMA DelayDelivers ==
  ASSUME Core, Delivers, DelayCdda \/ DelaySeek
  PROVE  Delivers'
<1>1. disc' = disc /\ job' = job /\ mem' = mem /\ pc' = pc /\ (cd.cdda_timer \/ cd.seek_timer)
  BY DEF DelayCdda, DelaySeek, towns_delay_cdda, towns_delay_seek, guestVars
<1>2. ~(job.cmd.op = "read" /\ disc)
  <2>1. CASE cd.cdda_timer
    BY <2>1 DEF Core, Delayed
  <2>2. CASE cd.seek_timer
    BY <2>2 DEF Core, Step, ReadScript
  <2> QED
    BY <1>1, <2>1, <2>2
<1> QED
  BY <1>1, <1>2, DeliverRest

LEMMA StartTransferDelivers ==
  ASSUME Core, Delivers, StartTransfer
  PROVE  Delivers'
<1>1. /\ disc' = disc /\ job' = job /\ mem' = mem /\ pc = "start" /\ pc' \in {"data", "await"}
  BY DEF StartTransfer, transfer_w
<1>2. ~Outstanding /\ cd.read_timer = -1 /\ (job.soft \/ cd.buffer_ptr < 0)
  BY <1>1 DEF Core, Step, Transfers, Running, Pcs, Talk, Moving
<1>3. Place = 0
  BY <1>1, <1>2 DEF Place, Running
<1>4. cd \in Cds
  BY DEF Core, Types
<1>5. PICK c : c = [Transfer(cd, job.soft) EXCEPT !.software_tx = job.soft]
  OBVIOUS
<1>6. PICK t : cd' = [c EXCEPT !.buffer_ptr = 0, !.read_timer = t]
  BY <1>2, <1>5 DEF StartTransfer, transfer_w
<1>7. /\ DOMAIN c = DOMAIN cd /\ c.lba_current = cd.lba_current /\ c.lba_last = cd.lba_last
      /\ c.cmd_status = cd.cmd_status /\ c.status_timer = cd.status_timer
      /\ c.status.req = cd.status.req
  BY <1>4, <1>5 DEF Transfer, Cds, Flags
<1>8. /\ cd'.lba_current = cd.lba_current /\ cd'.lba_last = cd.lba_last
      /\ cd'.cmd_status = cd.cmd_status /\ cd'.buffer_ptr = 0
      /\ cd'.status_timer = cd.status_timer /\ cd'.status = c.status
  BY <1>4, <1>6, <1>7 DEF Cds
<1>9. ~Outstanding'
  BY <1>2, <1>7, <1>8, Zenon DEF Outstanding
<1>10. Place' = 0
  BY <1>8, <1>9 DEF Place
<1> QED
  BY <1>1, <1>3, <1>8, <1>10, DeliverSame DEF Talk, Moving

\* The controller as a command that is carried out finds it.
Taken(c) ==
  [[towns_cdrom_set_irq(c, "mpu", FALSE) EXCEPT !.seek_timer = FALSE] EXCEPT !.status.req = FALSE]

LEMMA TakenFields ==
  ASSUME NEW c \in Cds
  PROVE  /\ Taken(c) \in Cds
         /\ Taken(c).parameter = c.parameter /\ Taken(c).read_timer = c.read_timer
<1>1. PICK i : i = towns_cdrom_set_irq(c, "mpu", FALSE)
  OBVIOUS
<1>2. i \in Cds /\ SameDrive(c, i)
  BY <1>1, IrqFields, Zenon
<1>3. PICK quiet : quiet = [i EXCEPT !.seek_timer = FALSE]
  OBVIOUS
<1>4. quiet \in Cds /\ quiet.parameter = i.parameter /\ quiet.read_timer = i.read_timer
  BY <1>2, <1>3 DEF Cds
<1>5. PICK taken : taken = [quiet EXCEPT !.status.req = FALSE]
  OBVIOUS
<1>6. taken \in Cds /\ taken.parameter = quiet.parameter /\ taken.read_timer = quiet.read_timer
  <2>1. taken.status \in Flags
    BY <1>4, <1>5 DEF Cds, Flags
  <2> QED
    BY <1>4, <1>5, <2>1 DEF Cds
<1>7. Taken(c) = taken
  BY <1>1, <1>3, <1>5, Zenon DEF Taken
<1> QED
  BY <1>2, <1>4, <1>6, <1>7, Zenon DEF SameDrive

LEMMA ReadExecuted ==
  ASSUME NEW c, disc, c.command.op = "read"
  PROVE  towns_cdrom_execute_command(c) = towns_cdrom_read(Taken(c))
<1>1. PICK quiet, taken :
         /\ quiet = [towns_cdrom_set_irq(c, "mpu", FALSE) EXCEPT !.seek_timer = FALSE]
         /\ taken = [quiet EXCEPT !.status.req = FALSE]
  OBVIOUS
<1>2. towns_cdrom_execute_command(c) = towns_cdrom_read(taken)
  BY <1>1, Zenon DEF towns_cdrom_execute_command
<1> QED
  BY <1>1, <1>2, Zenon DEF Taken

\* A read command: the transfer stands before the first byte asked for.
LEMMA ReadCommanded ==
  ASSUME Core, WriteCommand, job.cmd.op = "read", disc
  PROVE  /\ cd'.lba_current = job.first /\ cd'.lba_last = job.last
         /\ cd'.read_timer = -1 /\ cd'.cmd_status[1] # 6
         /\ job.first > job.last => cd'.cmd_status[1] = 1
<1>1. PICK c : c = [cd EXCEPT !.command = job.cmd]
  OBVIOUS
<1>2. pc = "command" /\ cd' = towns_cdrom_execute_command(c)
  BY <1>1 DEF WriteCommand, command_w
<1>3. /\ cd \in Cds /\ job.cmd \in Commands /\ job.first \in 0..LeadOut /\ job.last \in 0..LeadOut
      /\ cd.read_timer = -1 /\ FirstLba(cd) = job.first /\ LastLba(cd) = job.last
  BY <1>2 DEF Core, Types, Step, Asked
<1>4. /\ c \in Cds /\ c.command = job.cmd /\ c.parameter = cd.parameter /\ c.read_timer = -1
  BY <1>1, <1>3 DEF Cds
<1>5. PICK taken : taken = Taken(c)
  OBVIOUS
<1>8. taken \in Cds /\ taken.parameter = c.parameter /\ taken.read_timer = c.read_timer
  BY <1>4, <1>5, TakenFields, Zenon
<1>9. cd' = towns_cdrom_read(taken)
  <2>1. c.command.op = "read"
    BY <1>4
  <2> QED
    BY <1>2, <1>5, <2>1, ReadExecuted, Zenon
<1>10. taken.parameter = cd.parameter /\ taken.read_timer = -1
  BY <1>4, <1>8, Zenon
<1>11. FirstLba(taken) = job.first /\ LastLba(taken) = job.last
  BY <1>3, <1>10, Zenon DEF FirstLba, LastLba
<1>12. ReadTaken(taken, cd', job.first, job.last)
  BY <1>3, <1>8, <1>9, <1>11, ReadFields, Zenon
<1> QED
  BY <1>10, <1>12 DEF ReadTaken

LEMMA WriteCommandDelivers ==
  ASSUME Core, Delivers, WriteCommand
  PROVE  Delivers'
<1>1. /\ disc' = disc /\ job' = job /\ mem' = mem /\ pc = "command"
      /\ pc' = IF Answers(job.cmd) THEN "await" ELSE "idle"
  BY DEF WriteCommand, command_w
<1>2. mem = <<>> /\ mem \in Seq(Int \X Int)
  BY <1>1 DEF Delivers
<1>3. CASE ~(job.cmd.op = "read" /\ disc)
  BY <1>1, <1>2, <1>3, DeliverOther
<1>4. CASE job.cmd.op = "read" /\ disc
  <2>1. pc' = "await"
    BY <1>1, <1>4 DEF Answers
  <2>2. /\ cd'.lba_current = job.first /\ cd'.lba_last = job.last
        /\ cd'.read_timer = -1 /\ cd'.cmd_status[1] # 6
        /\ job.first > job.last => cd'.cmd_status[1] = 1
    BY <1>4, ReadCommanded
  <2>3. Place' = 0
    BY <2>1, <2>2 DEF Place, Running
  <2>4. job.first \in Nat /\ job.last \in Nat /\ SectorBytes \in Nat
    BY JobNumbers
  <2>5. (job.first - job.first) * SectorBytes + 0 = 0
    <3>1. job.first - job.first = 0 /\ 0 * SectorBytes = 0
      BY <2>4
    <3> QED
      BY <3>1
  <2>6. Len(mem') = 0
    BY <1>1, <1>2
  <2>7. Len(mem') = (cd'.lba_current - job'.first) * SectorBytes + Place'
    BY <1>1, <2>2, <2>3, <2>5, <2>6, Zenon
  <2>8. /\ cd'.lba_last = job'.last /\ job'.first <= cd'.lba_current
        /\ job'.first > job'.last => mem' = <<>> /\ cd'.cmd_status[1] = 1
        /\ job'.first <= job'.last => cd'.lba_current <= job'.last
    BY <1>1, <1>2, <2>2, <2>4
  <2>9. InPlace'
    BY <2>7, <2>8, Zenon DEF InPlace
  <2> QED
    BY <1>1, <1>2, <2>1, <2>9 DEF Delivers
<1> QED
  BY <1>3, <1>4

LEMMA FetchDelivers ==
  ASSUME Core, Delivers, Fetch
  PROVE  Delivers'
<1>1. /\ disc' = disc /\ job' = job /\ mem' = mem /\ pc = "fetch" /\ cd' = command_status_read(cd)
      /\ count < 3 => pc' = "fetch"
  BY DEF Fetch, command_status_r
<1>2. /\ count \in 0..3 /\ cd.cmd_status_ptr = count /\ cd \in Cds /\ cd.read_timer = -1
      /\ Outstanding /\ cd.command = job.cmd /\ ~cd.status_timer
  BY <1>1, ByteFetched DEF Core, Step, Outstanding, Talk
<1>3. mem \in Seq(Int \X Int)
  BY DEF Delivers
<1>4. CASE count < 3
  <2>1. cd' = [cd EXCEPT !.cmd_status_ptr = @ + 1]
    <3>1. ~(cd.cmd_status_ptr >= 3)
      BY <1>2, <1>4
    <3> QED
      BY <1>1, <3>1, Zenon DEF command_status_read
  <2>2. SameDrive(cd, cd')
    BY <1>2, <2>1 DEF Cds, SameDrive
  <2>3. cd'.cmd_status = cd.cmd_status /\ cd'.status = cd.status /\ cd'.status_timer = cd.status_timer
    BY <1>2, <2>1 DEF Cds
  <2>4. Outstanding' <=> Outstanding
    BY <2>3, Zenon DEF Outstanding
  <2>5. Place' = Place
    BY <1>1, <1>4, <2>2, <2>3, <2>4, PlaceSame
  <2>6. cd'.lba_current = cd.lba_current /\ cd'.lba_last = cd.lba_last
    BY <2>2, Zenon DEF SameDrive
  <2> QED
    BY <1>1, <1>4, <2>3, <2>5, <2>6, DeliverSame DEF Talk
<1>5. CASE count = 3
  <2>1. PICK code : code = cd.cmd_status[1]
    OBVIOUS
  <2>2. /\ SameDrive(cd, cd') /\ ~cd'.status.req /\ Fourth(cd, cd')
        /\ pc' = IF job.cmd.op = "read" /\ code \in {\h21, \h22} THEN "start"
                 ELSE IF Ends(job.cmd, code, Len(answers)) THEN "idle" ELSE "await"
    BY <1>5, <2>1, AnswerFetched, Zenon
  <2>3. pc' \in {"start", "idle", "await"}
    BY <2>2
  <2>4. CASE ~(job.cmd.op = "read" /\ disc)
    BY <1>1, <1>3, <2>3, <2>4, DeliverOther
  <2>5. CASE job.cmd.op = "read" /\ disc
    <3>1. InPlace /\ \A k \in 1..Len(mem) : mem[k] = Byte(job, k)
      BY <1>1, <2>5 DEF Delivers, Talk
    <3>2. \/ code = 1 /\ cd.extra_status = 0 /\ cd.lba_current > cd.lba_last
          \/ code = 0 /\ cd.extra_status = 2 /\ Buffered
          \/ code \in {\h21, \h22} /\ cd.extra_status = 0 /\ Buffered
          \/ code = 6 /\ cd.extra_status = 0 /\ cd.lba_current = cd.lba_last
      BY <1>1, <1>2, <2>1, <2>5 DEF Core, ReadScript, Talk
    <3>3. /\ job.first \in Nat /\ job.last \in Nat /\ cd.lba_current \in Nat
          /\ cd.lba_last \in Nat /\ SectorBytes \in Nat \ {0}
      BY JobNumbers
    <3>4. Place = IF code = 6 THEN SectorBytes ELSE 0
      BY <1>1, <1>2, <2>1 DEF Place, Running
    <3>5. cd'.lba_current = cd.lba_current /\ cd'.lba_last = cd.lba_last /\ cd'.read_timer = -1
      BY <1>2, <2>2, Zenon DEF SameDrive
    <3>6. CASE code = 1
      <4>1. pc' = "idle"
        BY <2>2, <2>5, <3>6 DEF Ends
      <4>2. job.first > job.last
        BY <3>1, <3>2, <3>3, <3>6 DEF InPlace
      <4>3. mem = <<>> /\ Size(job) = 0
        BY <3>1, <4>2, Zenon DEF InPlace, Size
      <4> QED
        BY <1>1, <1>3, <4>1, <4>3 DEF Delivers, Talk, Moving, Size
    <3>7. CASE code = 0
      <4>1. pc' = "await"
        BY <2>2, <2>5, <3>7 DEF Ends
      <4>2. cd'.cmd_status[1] = \h22
        BY <1>2, <2>2, <2>5, <3>2, <3>7 DEF Fourth
      <4>3. Place' = 0 /\ Place = 0
        BY <3>4, <3>5, <3>7, <4>1, <4>2 DEF Place, Running
      <4>4. job.first <= job.last
        BY <3>1, <3>2, <3>3, <3>7 DEF Buffered, InPlace
      <4> QED
        BY <1>1, <3>5, <4>1, <4>3, <4>4, DeliverSame DEF Talk
    <3>8. CASE code \in {\h21, \h22}
      <4>1. pc' = "start"
        BY <2>2, <2>5, <3>8
      <4>2. ~cd'.status_timer
        BY <2>2, <3>2, <3>8 DEF Fourth
      <4>3. Place' = 0 /\ Place = 0
        BY <2>2, <3>4, <3>5, <3>8, <4>1, <4>2 DEF Place, Running, Outstanding
      <4>4. job.first <= job.last
        BY <3>1, <3>2, <3>3, <3>8 DEF Buffered, InPlace
      <4> QED
        BY <1>1, <3>5, <4>1, <4>3, <4>4, DeliverSame DEF Talk, Moving
    <3>9. CASE code = 6
      <4>1. pc' = "idle"
        BY <2>2, <2>5, <3>9 DEF Ends
      <4>2. job.first <= job.last /\ ~(job.first > job.last) /\ cd.lba_current = job.last
        <5>1. cd.cmd_status[1] # 1 /\ cd.lba_current = cd.lba_last
          BY <2>1, <3>2, <3>9
        <5> QED
          BY <3>1, <3>3, <5>1 DEF InPlace
      <4>3. Len(mem) = (cd.lba_current - job.first) * SectorBytes + SectorBytes
        BY <3>1, <3>4, <3>9, <4>2, Zenon DEF InPlace
      <4>4. PICK q, n : q = job.last - job.first /\ n = SectorBytes
        OBVIOUS
      <4>5. q \in Int /\ n \in Nat /\ 1 + job.last - job.first = 1 + q
        BY <3>3, <4>4
      <4>6. q * n + n = (1 + q) * n
        BY <4>5
      <4>7. Len(mem) = Size(job)
        BY <4>2, <4>3, <4>4, <4>5, <4>6, Zenon DEF Size
      <4> QED
        BY <1>1, <1>3, <3>1, <4>1, <4>7 DEF Delivers, Talk, Moving, Size, Byte
    <3> QED
      BY <3>2, <3>6, <3>7, <3>8, <3>9
  <2> QED
    BY <2>4, <2>5
<1> QED
  BY <1>2, <1>4, <1>5

LEMMA DmaTransferDelivers ==
  ASSUME Core, Delivers, DmaTransfer
  PROVE  Delivers'
<1>1. PICK lba, p : lba = cd.lba_current /\ p = cd.buffer_ptr
  OBVIOUS
<1>2. /\ cd \in Cds /\ SectorBytes \in Nat \ {0} /\ p \in 0..(SectorBytes - 1)
      /\ cd.read_timer = 0 /\ pc = "await" /\ Buffered /\ disc /\ job.cmd.op = "read"
  <2>1. cd \in Cds /\ SectorBytes \in Nat \ {0}
    BY Bounds DEF Core, Types
  <2>2. cd.read_timer = 0 /\ p \in 0..(SectorBytes - 1)
    BY <1>1 DEF Core, Transfers, DmaTransfer, dma_transfer_timer
  <2>3. pc = "await"
    BY <2>2 DEF Core, Step
  <2>4. Buffered /\ disc /\ job.cmd.op = "read"
    BY <1>1, <2>1, <2>2 DEF Core, Transfers, Running
  <2> QED
    BY <2>1, <2>2, <2>3, <2>4
<1>3. /\ disc' = disc /\ job' = job /\ pc' = pc
      /\ mem' = Append(mem, <<lba, p>>) /\ cd' = [cd EXCEPT !.buffer_ptr = p + 1]
  <2>1. cd.buffer_ptr < SectorBytes /\ cd.buffer = lba
    BY <1>1, <1>2 DEF Buffered
  <2> QED
    BY <1>1, <2>1 DEF DmaTransfer, dma_transfer_timer, guestVars
<1>4. /\ cd'.lba_current = lba /\ cd'.lba_last = cd.lba_last
      /\ cd'.buffer_ptr = p + 1 /\ cd'.read_timer = cd.read_timer
  BY <1>1, <1>2, <1>3 DEF Cds
<1>5. Place = p /\ Place' = p + 1
  <2>1. Running /\ Running'
    BY <1>1, <1>2, <1>4 DEF Running
  <2> QED
    BY <1>1, <1>4, <2>1, Zenon DEF Place
<1>6. TakesByte(lba, p)
  BY <1>1, <1>2, <1>3, <1>4, <1>5 DEF TakesByte, Talk
<1> QED
  BY <1>6, DeliverByte

LEMMA ReadDataDelivers ==
  ASSUME Core, Delivers, ReadData
  PROVE  Delivers'
<1>1. PICK lba, p : lba = cd.lba_current /\ p = cd.buffer_ptr
  OBVIOUS
<1>2. /\ pc = "data" /\ pc' = (IF count + 1 = SectorBytes THEN "await" ELSE "data")
      /\ cd' = (IF cd.software_tx THEN read_byte_software(cd) ELSE cd)
      /\ mem' = Append(mem, IF cd.software_tx THEN SoftwareByte(cd) ELSE Zero)
      /\ disc' = disc /\ job' = job
  BY DEF ReadData, data_r
<1>3. /\ cd \in Cds /\ SectorBytes \in Nat \ {0} /\ cd.software_tx /\ p \in 0..(SectorBytes - 1)
      /\ p = count /\ job.cmd.op = "read" /\ disc /\ Buffered /\ cd.read_timer = -1
  <2>1. cd \in Cds /\ SectorBytes \in Nat \ {0} /\ count \in Nat
    BY Bounds DEF Core, Types
  <2>2. cd.read_timer = -1
    BY <1>2 DEF Core, Step
  <2>3. /\ cd.software_tx /\ cd.buffer_ptr = count /\ count < SectorBytes
        /\ job.cmd.op = "read" /\ disc /\ Buffered
    BY <1>2, <2>2 DEF Core, Transfers, Moving
  <2> QED
    BY <1>1, <2>1, <2>2, <2>3
<1>4. cd' = read_byte_software(cd) /\ mem' = Append(mem, <<lba, p>>)
  <2>1. cd.buffer = lba /\ ~(cd.buffer_ptr < 0)
    BY <1>1, <1>3 DEF Buffered
  <2> QED
    BY <1>1, <1>2, <1>3, <2>1, Zenon DEF SoftwareByte
<1>5. Place = p
  BY <1>1, <1>2, Zenon DEF Place
<1>6. PICK t : t = [cd EXCEPT !.buffer_ptr = @ + 1]
  OBVIOUS
<1>7. /\ t \in Cds /\ t.buffer_ptr = p + 1 /\ t.lba_current = lba /\ t.lba_last = cd.lba_last
      /\ t.read_timer = -1
  <2>1. p + 1 \in -1..SectorBytes
    BY <1>3
  <2>2. t = [cd EXCEPT !.buffer_ptr = p + 1] /\ cd \in Cds /\ cd.read_timer = -1
    BY <1>1, <1>3, <1>6
  <2> QED
    BY <1>1, <2>1, <2>2 DEF Cds
<1>8. CASE p + 1 # SectorBytes
  <2>1. cd' = t
    <3>1. ~(cd.buffer_ptr < 0) /\ cd.buffer_ptr + 1 < SectorBytes
      BY <1>1, <1>3, <1>8
    <3> QED
      BY <1>4, <1>6, <3>1, Zenon DEF read_byte_software
  <2>2. pc' = "data"
    BY <1>2, <1>3, <1>8
  <2>3. Place' = p + 1
    BY <1>7, <2>1, <2>2, Zenon DEF Place
  <2>4. TakesByte(lba, p)
    BY <1>1, <1>2, <1>3, <1>4, <1>5, <1>7, <2>1, <2>2, <2>3 DEF TakesByte, Moving
  <2> QED
    BY <2>4, DeliverByte
<1>9. CASE p + 1 = SectorBytes
  <2>1. PICK e : e = EndOfSector(t, \h21)
    OBVIOUS
  <2>2. t.lba_current <= t.lba_last /\ \h21 \in Bytes
    BY <1>1, <1>3, <1>7, ByteFacts DEF Buffered
  <2>3. /\ e \in Cds /\ e.read_timer = t.read_timer
        /\ t.lba_current = t.lba_last => SectorEnded(t, e, 6) /\ e.lba_current = t.lba_current
        /\ t.lba_current # t.lba_last =>
             /\ SectorEnded(t, e, \h21)
             /\ e.lba_current = t.lba_current + 1 /\ e.buffer = t.lba_current + 1
    BY <1>7, <2>1, <2>2, EndFields, Zenon
  <2>4. cd' = IF cd.lba_current >= cd.lba_last THEN e ELSE Transfer(e, TRUE)
    <3>1. ~(cd.buffer_ptr < 0) /\ ~(cd.buffer_ptr + 1 < SectorBytes)
      BY <1>1, <1>3, <1>9
    <3> QED
      BY <1>4, <1>6, <2>1, <3>1, Zenon DEF read_byte_software
  <2>5. SameDrive(e, cd') /\ SameAnswer(e, cd')
    <3>1. CASE cd' = e
      BY <2>3, <3>1 DEF SameDrive, SameAnswer
    <3>2. CASE cd' = Transfer(e, TRUE)
      BY <2>3, <3>2 DEF SameDrive, SameAnswer, Transfer, Cds, Flags
    <3> QED
      BY <2>4, <3>1, <3>2
  <2>6. pc' = "await" /\ ~Running'
    <3>1. cd'.read_timer = -1
      BY <1>7, <2>3, <2>5, Zenon DEF SameDrive
    <3> QED
      BY <1>2, <1>3, <1>9, <3>1 DEF Running
  <2>7. CASE t.lba_current = t.lba_last
    <3>1. SectorEnded(t, e, 6) /\ e.lba_current = lba
      BY <1>7, <2>3, <2>7
    <3>2. /\ cd'.lba_current = lba /\ cd'.lba_last = cd.lba_last
          /\ cd'.status_timer /\ cd'.cmd_status[1] = 6
      BY <1>7, <2>5, <3>1 DEF SectorEnded, SameDrive, SameAnswer
    <3>3. Place' = p + 1
      BY <1>9, <2>6, <3>2 DEF Place, Outstanding
    <3>4. TakesByte(lba, p)
      BY <1>1, <1>2, <1>3, <1>4, <1>5, <2>6, <3>2, <3>3 DEF TakesByte, Talk, Moving
    <3> QED
      BY <3>4, DeliverByte
  <2>8. CASE t.lba_current # t.lba_last
    <3>1. SectorEnded(t, e, \h21) /\ e.lba_current = lba + 1
      BY <1>7, <2>3, <2>8
    <3>2. /\ cd'.lba_current = lba + 1 /\ cd'.lba_last = cd.lba_last
          /\ cd'.status_timer /\ cd'.cmd_status[1] = \h21
      BY <1>7, <2>5, <3>1 DEF SectorEnded, SameDrive, SameAnswer
    <3>3. Place' = 0
      BY <2>6, <3>2 DEF Place, Outstanding
    <3>4. lba + 1 <= cd.lba_last
      <4>1. t.lba_current \in Int /\ t.lba_last \in Int
        BY <1>7, Bounds DEF Cds
      <4> QED
        BY <1>7, <2>2, <2>8, <4>1
    <3>5. TakesByte(lba, p)
      BY <1>1, <1>2, <1>3, <1>4, <1>5, <1>9, <2>6, <3>2, <3>3, <3>4 DEF TakesByte, Talk, Moving
    <3> QED
      BY <3>5, DeliverByte
  <2> QED
    BY <2>7, <2>8
<1> QED
  BY <1>8, <1>9

\* The end of a sector the guest has already: the place moves on to the next.
LEMMA DeliverNext ==
  ASSUME Core, Delivers, job' = job, disc' = disc, mem' = mem, pc' = pc, pc = "await",
         job.cmd.op = "read", disc, Place = SectorBytes, Place' = 0, Buffered,
         cd'.lba_current = cd.lba_current + 1, cd'.lba_last = cd.lba_last,
         cd.lba_current # cd.lba_last
  PROVE  Delivers'
<1>1. InPlace /\ mem \in Seq(Int \X Int) /\ \A k \in 1..Len(mem) : mem[k] = Byte(job, k)
  BY DEF Delivers, Talk
<1>2. PICK first, last, lba, n :
         first = job.first /\ last = job.last /\ lba = cd.lba_current /\ n = SectorBytes
  OBVIOUS
<1>3. /\ first \in Nat /\ last \in Nat /\ lba \in Nat /\ n \in Nat \ {0}
      /\ cd.lba_last = last /\ first <= lba /\ lba < last
  BY <1>1, <1>2, JobNumbers DEF InPlace, Buffered
<1>4. PICK q, q1, m, m1 : q = lba - first /\ q1 = (lba + 1) - first /\ m = q * n /\ m1 = q1 * n
  OBVIOUS
<1>5. q \in Int /\ q1 = q + 1
  BY <1>3, <1>4
<1>6. (q + 1) * n = q * n + n
  BY <1>3, <1>5
<1>7. m1 = m + n
  BY <1>4, <1>5, <1>6, Zenon
<1>8. Len(mem) = m + n
  <2>1. job.first <= job.last
    BY <1>2, <1>3
  <2>2. Len(mem) = (cd.lba_current - job.first) * SectorBytes + Place
    BY <1>1, <2>1, Zenon DEF InPlace
  <2> QED
    BY <1>2, <1>4, <2>2, Zenon
<1>9. Len(mem') = (cd'.lba_current - job'.first) * SectorBytes + Place'
  <2>1. m1 \in Int
    <3>1. m1 = Len(mem)
      BY <1>7, <1>8, Zenon
    <3> QED
      BY <1>1, <3>1
  <2>2. Len(mem') = m1 + 0
    BY <1>7, <1>8, <2>1
  <2> QED
    BY <1>2, <1>4, <2>2, Zenon
<1>10. InPlace'
  <2>1. ~(job'.first > job'.last) /\ cd'.lba_last = job'.last
    BY <1>2, <1>3
  <2>2. job'.first <= cd'.lba_current /\ cd'.lba_current <= job'.last
    BY <1>2, <1>3
  <2> QED
    BY <1>9, <2>1, <2>2, Zenon DEF InPlace
<1> QED
  BY <1>1, <1>10 DEF Delivers, Byte

LEMMA ReadTimerDelivers ==
  ASSUME Core, Delivers, ReadTimer
  PROVE  Delivers'
<1>1. /\ cd.read_timer # -1 /\ cd' = towns_cdrom_read_byte(cd, cd.read_timer)
      /\ disc' = disc /\ pc' = pc /\ job' = job /\ mem' = mem
  BY DEF ReadTimer, read_timer_expires, guestVars
<1>2. /\ cd \in Cds /\ SectorBytes \in Nat \ {0} /\ cd.buffer_ptr \in -1..SectorBytes
      /\ cd.read_timer \in {0, 1} /\ pc = "await" /\ job.cmd.op = "read" /\ disc
  <2>1. cd \in Cds /\ SectorBytes \in Nat \ {0}
    BY Bounds DEF Core, Types
  <2>2. pc = "await"
    BY <1>1 DEF Core, Step
  <2>3. job.cmd.op = "read" /\ disc
    BY <1>1 DEF Core, Transfers
  <2>4. cd.buffer_ptr \in -1..SectorBytes /\ cd.read_timer \in -1..1
    BY <2>1 DEF Cds
  <2> QED
    BY <1>1, <2>1, <2>2, <2>3, <2>4
<1>3. ASSUME NEW t, cd' = [cd EXCEPT !.read_timer = t], Running' <=> Running
      PROVE  Delivers'
  <2>1. /\ cd'.lba_current = cd.lba_current /\ cd'.lba_last = cd.lba_last
        /\ cd'.cmd_status = cd.cmd_status /\ cd'.buffer_ptr = cd.buffer_ptr
        /\ cd'.status = cd.status /\ cd'.status_timer = cd.status_timer
    BY <1>2, <1>3 DEF Cds
  <2>2. Outstanding' <=> Outstanding
    BY <2>1, Zenon DEF Outstanding
  <2>3. Place' = Place
    BY <1>1, <1>3, <2>1, <2>2, Zenon DEF Place
  <2> QED
    BY <1>1, <1>2, <2>1, <2>3, DeliverSame DEF Talk
<1>4. CASE cd.buffer_ptr < 0
  <2>1. ~(cd.buffer_ptr >= 0) /\ ~(cd.buffer_ptr \in 0..(SectorBytes - 1))
    BY <1>2, <1>4
  <2>2. cd' = [cd EXCEPT !.read_timer = -1]
    BY <1>1, <1>4, <2>1, Zenon DEF towns_cdrom_read_byte
  <2>3. ~Running /\ ~Running'
    <3>1. cd'.buffer_ptr = cd.buffer_ptr
      BY <1>2, <2>2 DEF Cds
    <3> QED
      BY <2>1, <3>1, Zenon DEF Running
  <2> QED
    BY <1>3, <2>2, <2>3
<1>5. CASE cd.buffer_ptr >= 0 /\ ~(cd.read_timer = 0 /\ cd.buffer_ptr = SectorBytes)
  <2>1. PICK t \in {0, 1} : cd' = [cd EXCEPT !.read_timer = t]
    <3>1. ~(cd.buffer_ptr < 0)
      BY <1>2, <1>5
    <3>2. CASE cd.read_timer = 1
      BY <1>1, <1>5, <3>1, <3>2, Zenon DEF towns_cdrom_read_byte
    <3>3. CASE cd.read_timer = 0
      <4>1. cd.buffer_ptr \in 0..(SectorBytes - 1) /\ cd.read_timer # 1
        BY <1>2, <1>5, <3>3
      <4> QED
        BY <1>1, <1>5, <3>1, <3>3, <4>1, Zenon DEF towns_cdrom_read_byte
    <3> QED
      BY <1>2, <3>2, <3>3
  <2>2. Running /\ Running'
    <3>1. cd'.buffer_ptr = cd.buffer_ptr /\ cd'.read_timer = t
      BY <1>2, <2>1 DEF Cds
    <3> QED
      BY <1>1, <1>5, <2>1, <3>1 DEF Running
  <2> QED
    BY <1>3, <2>1, <2>2
<1>6. CASE cd.read_timer = 0 /\ cd.buffer_ptr = SectorBytes
  <2>1. PICK e, t : /\ e = EndOfSector(cd, \h22)
                    /\ t = IF cd.lba_current >= cd.lba_last THEN -1 ELSE 1
    OBVIOUS
  <2>2. cd' = [e EXCEPT !.read_timer = t]
    <3>1. /\ ~(cd.buffer_ptr < 0) /\ cd.read_timer # 1
          /\ ~(cd.buffer_ptr \in 0..(SectorBytes - 1))
      BY <1>2, <1>6
    <3> QED
      BY <1>1, <2>1, <3>1, Zenon DEF towns_cdrom_read_byte
  <2>3. Running /\ Buffered /\ Place = SectorBytes
    <3>1. Running
      BY <1>2, <1>6 DEF Running
    <3>2. Buffered
      BY <3>1 DEF Core, Transfers
    <3> QED
      BY <1>6, <3>1, <3>2, Zenon DEF Place
  <2>4. cd.lba_current <= cd.lba_last /\ \h22 \in Bytes
    BY <2>3, ByteFacts DEF Buffered
  <2>5. /\ e \in Cds
        /\ cd.lba_current = cd.lba_last => SectorEnded(cd, e, 6) /\ e.lba_current = cd.lba_current
        /\ cd.lba_current # cd.lba_last =>
             /\ SectorEnded(cd, e, \h22)
             /\ e.lba_current = cd.lba_current + 1 /\ e.buffer = cd.lba_current + 1
    BY <1>2, <2>1, <2>4, EndFields, Zenon
  <2>6. /\ cd'.lba_current = e.lba_current /\ cd'.lba_last = e.lba_last
        /\ cd'.cmd_status = e.cmd_status /\ cd'.buffer_ptr = e.buffer_ptr
        /\ cd'.status_timer = e.status_timer
    BY <2>2, <2>5 DEF Cds
  <2>7. PICK code : SectorEnded(cd, e, code) /\ code = IF cd.lba_current = cd.lba_last THEN 6 ELSE \h22
    BY <2>5
  <2>8. /\ cd'.lba_last = cd.lba_last /\ cd'.cmd_status[1] = code
        /\ cd'.status_timer /\ cd'.buffer_ptr = -1
    BY <2>6, <2>7, Zenon DEF SectorEnded
  <2>9. ~Running' /\ Outstanding'
    BY <2>8 DEF Running, Outstanding
  <2>10. Place' = IF code = 6 THEN SectorBytes ELSE 0
    BY <1>1, <1>2, <2>8, <2>9 DEF Place
  <2>11. CASE cd.lba_current = cd.lba_last
    <3>1. Place' = Place /\ cd'.lba_current = cd.lba_current
      BY <2>3, <2>5, <2>6, <2>7, <2>10, <2>11
    <3>2. job.first <= job.last
      <4>1. InPlace
        BY <1>2 DEF Delivers, Talk
      <4> QED
        BY <2>11, <4>1, JobNumbers DEF InPlace
    <3> QED
      BY <1>1, <1>2, <2>8, <3>1, <3>2, DeliverSame DEF Talk
  <2>12. CASE cd.lba_current # cd.lba_last
    <3>1. Place' = 0 /\ cd'.lba_current = cd.lba_current + 1
      BY <2>5, <2>6, <2>7, <2>10, <2>12
    <3> QED
      BY <1>1, <1>2, <2>3, <2>8, <2>12, <3>1, DeliverNext
  <2> QED
    BY <2>11, <2>12
<1> QED
  BY <1>2, <1>4, <1>5, <1>6

LEMMA DeliversHolds ==
  ASSUME Core, Delivers, [Next]_allVars
  PROVE  Delivers'
<1>1. CASE Choose \/ WriteParameter
  <2>1. mem' = <<>> /\ pc' \in {"params", "command"}
    BY <1>1 DEF Choose, WriteParameter, parameter_w, Delivers
  <2> QED
    BY <2>1, DeliverNone
<1>2. CASE UNCHANGED allVars
  <2>1. /\ cd' = cd /\ disc' = disc /\ job' = job /\ mem' = mem /\ pc' = pc
    BY <1>2 DEF allVars, vars, guestVars
  <2>2. Place' = Place
    BY <2>1 DEF Place, Running, Outstanding
  <2>3. CASE pc \in Talk \cup Moving
    BY <2>1, <2>2, <2>3, DeliverSame
  <2>4. CASE pc \notin Talk \cup Moving
    BY <2>1, <2>4, DeliverRest
  <2> QED
    BY <2>3, <2>4
<1> QED
  BY <1>1, <1>2, WriteCommandDelivers, PollDelivers, ClearDelivers, FetchDelivers,
     ProgramDelivers, StartTransferDelivers, ReadDataDelivers, StatusReadyDelivers,
     DelayDelivers, ReadTimerDelivers, DmaTransferDelivers
  DEF Next, Guest

LEMMA DeliversBegins == GuestInit => Delivers
<1> SUFFICES ASSUME GuestInit PROVE Delivers
  OBVIOUS
<1>1. mem = <<>> /\ pc = "idle" /\ job.cmd.op = "seek"
  BY DEF GuestInit, Init, NoCommand
<1> QED
  BY <1>1 DEF Delivers

\* The place is within what is asked for.
LEMMA WithinSize ==
  ASSUME Core, Delivers, job.cmd.op = "read", disc
  PROVE  Len(mem) <= Size(job) /\ (pc = "idle" => Len(mem) = Size(job))
<1>1. /\ job.first \in Nat /\ job.last \in Nat /\ cd.lba_current \in Nat
      /\ cd.lba_last \in Nat /\ SectorBytes \in Nat \ {0}
  BY JobNumbers
<1>2. Size(job) \in Nat
  BY <1>1, WantedBytes
<1>3. mem \in Seq(Int \X Int) /\ pc \in Pcs
  BY DEF Delivers, Core, Types
<1>4. CASE pc = "idle"
  BY <1>2, <1>4 DEF Delivers
<1>5. CASE pc \in {"params", "command"}
  BY <1>2, <1>5 DEF Delivers
<1>6. CASE pc \in Talk \cup Moving
  <2>1. InPlace
    BY <1>6 DEF Delivers
  <2>2. CASE job.first > job.last
    <3>1. mem = <<>>
      BY <2>1, <2>2, Zenon DEF InPlace
    <3> QED
      BY <1>2, <1>6, <3>1 DEF Talk, Moving
  <2>3. CASE job.first <= job.last
    <3>1. PICK q, r, n, l, place :
            /\ q = cd.lba_current - job.first /\ r = 1 + job.last - job.first
            /\ n = SectorBytes /\ l = Len(mem) /\ place = Place
      OBVIOUS
    <3>2. q \in Int /\ r \in Int /\ q < r /\ n \in Nat
      BY <1>1, <2>1, <2>3, <3>1 DEF InPlace
    <3>3. l = q * n + place
      BY <2>1, <2>3, <3>1, Zenon DEF InPlace
    <3>4. place \in Int /\ place <= n
      <4>1. cd.buffer_ptr \in -1..SectorBytes
        BY DEF Core, Types, Cds
      <4> QED
        BY <1>1, <3>1, <4>1 DEF Place
    <3>5. q * n + n <= r * n
      BY <3>2, Scaled
    <3>6. l <= r * n
      <4>1. q * n \in Int /\ r * n \in Int
        BY <3>2
      <4> QED
        BY <3>2, <3>3, <3>4, <3>5, <4>1
    <3>7. Size(job) = r * n
      <4>1. ~(job.first > job.last)
        BY <1>1, <2>3
      <4> QED
        BY <3>1, <4>1, Zenon DEF Size
    <3>8. pc # "idle"
      BY <1>6 DEF Talk, Moving
    <3> QED
      BY <3>1, <3>6, <3>7, <3>8, Zenon
  <2> QED
    BY <1>1, <2>2, <2>3
<1> QED
  BY <1>3, <1>4, <1>5, <1>6 DEF Pcs

\* What a read delivers is at every moment the beginning of the sectors asked
\* for, each byte once and in order, by DMA and by software, and all of it when
\* the guest has its last answer (towns_cdrom_read, towns_cdrom_read_byte and
\* towns_cdrom_read_byte_software).
THEOREM ReadsDeliverInOrder == Spec => []DeliversInOrder
<1>1. Core /\ Delivers => DeliversInOrder
  <2> SUFFICES ASSUME Core, Delivers, job.cmd.op = "read", disc
               PROVE  /\ Len(mem) <= Len(Wanted(job))
                      /\ \A k \in 1..Len(mem) : mem[k] = Wanted(job)[k]
                      /\ pc = "idle" => Len(mem) = Len(Wanted(job))
    BY DEF DeliversInOrder
  <2>1. job.first \in Int /\ job.last \in Int
    BY JobNumbers
  <2>2. PICK size, w, l : size = Size(job) /\ w = Wanted(job) /\ l = Len(mem)
    OBVIOUS
  <2>3. size \in Nat /\ Len(w) = size /\ \A k \in 1..size : w[k] = Byte(job, k)
    BY <2>1, <2>2, WantedBytes, Zenon
  <2>4. l <= size /\ (pc = "idle" => l = size) /\ \A k \in 1..l : mem[k] = Byte(job, k)
    BY <2>2, WithinSize DEF Delivers
  <2>5. l \in Nat
    BY <2>2 DEF Delivers
  <2>6. \A k \in 1..l : k \in 1..size
    BY <2>3, <2>4, <2>5
  <2>7. \A k \in 1..l : mem[k] = w[k]
    BY <2>3, <2>4, <2>6, Zenon
  <2> QED
    BY <2>2, <2>3, <2>4, <2>7, Zenon
<1>2. GuestInit => Delivers
  BY DeliversBegins
<1>3. Core /\ Delivers /\ [Next]_allVars => Delivers'
  BY DeliversHolds
<1> QED
  BY <1>1, <1>2, <1>3, AlwaysCore, PTL DEF Spec

-----------------------------------------------------------------------------
(* The table of contents: what its answers are, one by one *)

\* Answer k, where an acknowledgement comes first when status is asked for.
TocAnswer(st, k) ==
  IF st THEN (IF k = 1 THEN <<0, 0, 0, 0>> ELSE TocBytes(k - 1)) ELSE TocBytes(k)

\* The answers read are the first ones, and the next is in the status bytes.
Told ==
  job.cmd.op = "toc" /\ disc =>
    /\ pc \in Talk =>
         /\ \A k \in 1..Done : answers[k] = TocAnswer(job.cmd.st, k)
         /\ Outstanding => cd.cmd_status = TocAnswer(job.cmd.st, Done + 1)
    /\ pc = "idle" =>
         /\ Len(answers) = AnswerCount(job.cmd)
         /\ \A k \in 1..Len(answers) : answers[k] = TocAnswer(job.cmd.st, k)

LEMMA ToldOther ==
  ASSUME job' = job, disc' = disc,
         ~(job.cmd.op = "toc" /\ disc) \/ pc' \notin Talk \cup {"idle"}
  PROVE  Told'
BY DEF Told

\* No answer is completed, and none replaced.
LEMMA ToldSame ==
  ASSUME Told, job' = job, disc' = disc, pc \in Talk, pc' \in Talk, Done' = Done,
         \A k \in 1..Done : answers'[k] = answers[k],
         Outstanding' => Outstanding, cd'.cmd_status = cd.cmd_status
  PROVE  Told'
<1>1. pc' # "idle"
  BY DEF Talk
<1>2. CASE ~(job.cmd.op = "toc" /\ disc)
  BY <1>2, ToldOther
<1>3. CASE job.cmd.op = "toc" /\ disc
  <2>1. /\ \A k \in 1..Done : answers[k] = TocAnswer(job.cmd.st, k)
        /\ Outstanding => cd.cmd_status = TocAnswer(job.cmd.st, Done + 1)
    BY <1>3 DEF Told
  <2>2. \A k \in 1..Done' : answers'[k] = TocAnswer(job'.cmd.st, k)
    BY <2>1, Zenon
  <2>3. Outstanding' => cd'.cmd_status = TocAnswer(job'.cmd.st, Done' + 1)
    BY <2>1, Zenon
  <2> QED
    BY <1>1, <2>2, <2>3, Zenon DEF Told
<1> QED
  BY <1>2, <1>3

LEMMA TocCommanded ==
  ASSUME NEW c \in Cds, disc, c.command.op = "toc"
  PROVE  towns_cdrom_execute_command(c).cmd_status = TocAnswer(c.command.st, 1)
<1>1. PICK quiet, taken :
         /\ quiet = [towns_cdrom_set_irq(c, "mpu", FALSE) EXCEPT !.seek_timer = FALSE]
         /\ taken = [quiet EXCEPT !.status.req = FALSE]
  OBVIOUS
<1>2. taken \in Cds
  BY <1>1, TakenFields, Zenon DEF Taken
<1>3. CASE c.command.st
  <2>1. PICK q : q = <<0, 0, 0, 0>>
    OBVIOUS
  <2>2. towns_cdrom_execute_command(c) = Answer(taken, 1, q)
    BY <1>1, <1>3, <2>1, Zenon DEF towns_cdrom_execute_command
  <2>3. Answer(taken, 1, q).cmd_status = q
    BY <1>2 DEF Answer, towns_cd_set_status, Cds
  <2>4. TocAnswer(c.command.st, 1) = q
    BY <1>3, <2>1 DEF TocAnswer
  <2> QED
    BY <2>2, <2>3, <2>4, Zenon
<1>4. CASE ~c.command.st
  <2>1. PICK q : q = <<\h16, 0, \ha0, 0>>
    OBVIOUS
  <2>2. towns_cdrom_execute_command(c) = Answer(taken, 2, q)
    BY <1>1, <1>4, <2>1, Zenon DEF towns_cdrom_execute_command
  <2>3. Answer(taken, 2, q).cmd_status = q
    BY <1>2 DEF Answer, towns_cd_set_status, Cds
  <2>4. TocAnswer(c.command.st, 1) = q
    BY <1>4, <2>1 DEF TocAnswer, TocBytes
  <2> QED
    BY <2>2, <2>3, <2>4, Zenon
<1> QED
  BY <1>3, <1>4

LEMMA WriteCommandTold ==
  ASSUME Core, Told, WriteCommand
  PROVE  Told'
<1>1. PICK c : c = [cd EXCEPT !.command = job.cmd]
  OBVIOUS
<1>2. /\ pc = "command" /\ cd' = towns_cdrom_execute_command(c) /\ answers' = answers
      /\ pc' = (IF Answers(job.cmd) THEN "await" ELSE "idle") /\ job' = job /\ disc' = disc
  BY <1>1 DEF WriteCommand, command_w
<1>3. CASE ~(job.cmd.op = "toc" /\ disc)
  BY <1>2, <1>3, ToldOther
<1>4. CASE job.cmd.op = "toc" /\ disc
  <2>1. cd \in Cds /\ job.cmd \in Commands /\ answers = <<>>
    BY <1>2 DEF Core, Types, Asked
  <2>2. pc' = "await" /\ Done' = 0
    BY <1>2, <1>4, <2>1 DEF Answers, Done
  <2>3. c \in Cds /\ c.command = job.cmd
    BY <1>1, <2>1 DEF Cds
  <2>8. cd'.cmd_status = TocAnswer(job.cmd.st, 1)
    <3>1. c.command.op = "toc" /\ c.command.st = job.cmd.st /\ disc
      BY <1>4, <2>3, Zenon
    <3> QED
      BY <1>2, <2>3, <3>1, TocCommanded, Zenon
  <2> QED
    BY <1>2, <2>2, <2>8 DEF Told
<1> QED
  BY <1>3, <1>4

LEMMA FetchTold ==
  ASSUME Core, Told, Fetch
  PROVE  Told'
<1>1. /\ disc' = disc /\ job' = job /\ pc = "fetch" /\ cd' = command_status_read(cd)
      /\ count < 3 => pc' = "fetch"
  BY DEF Fetch, command_status_r
<1>2. PICK n : n = Len(answers)
  OBVIOUS
<1>3. /\ count \in 0..3 /\ cd.cmd_status_ptr = count /\ cd.status.req /\ ~cd.status_timer
      /\ cd \in Cds /\ n \in Nat /\ n > 0
      /\ answers' \in Seq(Seq(Bytes)) /\ Len(answers') = n
      /\ \A i \in 1..(n - 1) : answers'[i] = answers[i]
      /\ Len(answers'[n]) = count + 1
      /\ \A i \in 1..(count + 1) : answers'[n][i] = cd.cmd_status[i]
  BY <1>2, ByteFetched
<1>4. Done = n - 1 /\ Outstanding /\ cd.command = job.cmd
  BY <1>1, <1>2, <1>3 DEF Done, Outstanding, Core, Step, Talk
<1>5. CASE ~(job.cmd.op = "toc" /\ disc)
  BY <1>1, <1>5, ToldOther
<1>6. CASE job.cmd.op = "toc" /\ disc /\ count < 3
  <2>1. cd' = [cd EXCEPT !.cmd_status_ptr = @ + 1]
    <3>1. ~(cd.cmd_status_ptr >= 3)
      BY <1>3, <1>6
    <3> QED
      BY <1>1, <3>1, Zenon DEF command_status_read
  <2>2. cd'.cmd_status = cd.cmd_status
    BY <1>3, <2>1 DEF Cds
  <2>3. pc' = "fetch" /\ Done' = Done
    BY <1>1, <1>2, <1>3, <1>6 DEF Done
  <2>4. \A k \in 1..Done : answers'[k] = answers[k]
    BY <1>3, <1>4
  <2> QED
    BY <1>1, <1>4, <2>2, <2>3, <2>4, ToldSame DEF Talk
<1>7. CASE job.cmd.op = "toc" /\ disc /\ count = 3
  <2>1. PICK st, e : st = job.cmd.st /\ e = cd.extra_status
    OBVIOUS
  <2>2. /\ ~cd'.status.req /\ Fourth(cd, cd')
        /\ pc' = IF job.cmd.op = "read" /\ cd.cmd_status[1] \in {\h21, \h22} THEN "start"
                 ELSE IF Ends(job.cmd, cd.cmd_status[1], n) THEN "idle" ELSE "await"
    BY <1>2, <1>7, AnswerFetched, Zenon
  <2>3. /\ Done < AnswerCount(job.cmd) /\ e = ExtraAt(job.cmd, Done)
        /\ cd.cmd_status[1] # \h10
    BY <1>1, <1>4, <1>7, <2>1 DEF Core, Script, Works, Talk
  <2>4. /\ \A k \in 1..Done : answers[k] = TocAnswer(st, k)
        /\ cd.cmd_status = TocAnswer(st, Done + 1)
    BY <1>1, <1>4, <1>7, <2>1 DEF Told, Talk
  <2>5. pc' \in {"idle", "await"} /\ (pc' = "idle" => n = AnswerCount(job.cmd))
    BY <1>7, <2>2, <2>3 DEF Ends
  <2>6. Done' = n
    BY <1>3, <2>5 DEF Done
  <2>7. answers'[n] = cd.cmd_status
    <3>1. PICK a, q : a = answers'[n] /\ q = cd.cmd_status
      OBVIOUS
    <3>2. a \in Seq(Bytes) /\ Len(a) = 4 /\ \A i \in 1..4 : a[i] = q[i]
      <4>1. count + 1 = 4
        BY <1>7
      <4>2. Len(a) = count + 1 /\ \A i \in 1..(count + 1) : a[i] = q[i]
        BY <1>3, <3>1, Zenon
      <4>3. n \in 1..Len(answers')
        BY <1>3
      <4>4. a \in Seq(Bytes)
        BY <1>3, <3>1, <4>3
      <4> QED
        BY <4>1, <4>2, <4>4, Zenon
    <3>3. a \in Quads /\ q \in Quads
      <4>1. a \in [1..4 -> Bytes]
        BY <3>2, SeqIsFunction
      <4> QED
        BY <1>3, <3>1, <4>1 DEF Cds, Quads
    <3> QED
      BY <3>1, <3>2, <3>3 DEF Quads
  <2>8. \A k \in 1..n : answers'[k] = TocAnswer(st, k)
    <3>1. ASSUME NEW k \in 1..n PROVE answers'[k] = TocAnswer(st, k)
      <4>1. CASE k = n
        <5>1. Done + 1 = n
          BY <1>3, <1>4
        <5> QED
          BY <2>4, <2>7, <4>1, <5>1, Zenon
      <4>2. CASE k # n
        <5>1. k \in 1..(n - 1)
          BY <1>3, <4>2
        <5> QED
          BY <1>3, <1>4, <2>4, <5>1, Zenon
      <4> QED
        BY <4>1, <4>2
    <3> QED
      BY <3>1
  <2>9. ASSUME cd'.status_timer PROVE cd'.cmd_status = TocAnswer(st, n + 1)
    <3>1. e # 0 /\ cd'.cmd_status = TocBytes(e)
      BY <1>4, <1>7, <2>1, <2>2, <2>9 DEF Fourth
    <3>2. e = IF st THEN n ELSE n + 1
      <4>1. job.cmd.op = "toc" /\ e = ExtraAt(job.cmd, n - 1)
        BY <1>4, <1>7, <2>3
      <4>2. CASE st /\ n = 1
        BY <2>1, <4>1, <4>2 DEF ExtraAt
      <4>3. CASE st /\ n # 1
        <5>1. ExtraAt(job.cmd, n - 1) = TocNext(n - 1)
          BY <1>3, <2>1, <4>1, <4>3 DEF ExtraAt
        <5> QED
          BY <1>3, <3>1, <4>1, <4>3, <5>1 DEF TocNext
      <4>4. CASE ~st
        <5>1. ExtraAt(job.cmd, n - 1) = TocNext(n)
          BY <1>3, <2>1, <4>1, <4>4 DEF ExtraAt
        <5> QED
          BY <1>3, <3>1, <4>1, <4>4, <5>1 DEF TocNext
      <4> QED
        BY <4>2, <4>3, <4>4
    <3>3. n + 1 # 1 /\ (n + 1) - 1 = n
      BY <1>3
    <3> QED
      BY <3>1, <3>2, <3>3, Zenon DEF TocAnswer
  <2>10. Outstanding' => cd'.status_timer
    BY <2>2 DEF Outstanding
  <2> QED
    BY <1>1, <1>3, <2>1, <2>5, <2>6, <2>8, <2>9, <2>10 DEF Told
<1> QED
  BY <1>3, <1>5, <1>6, <1>7

LEMMA ToldHolds ==
  ASSUME Core, Told, [Next]_allVars
  PROVE  Told'
<1>1. CASE Choose \/ WriteParameter
  BY <1>1 DEF Choose, WriteParameter, parameter_w, Told, Talk
<1>2. CASE Poll
  <2>1. /\ pc = "await" /\ pc' = "clear" /\ cd' = cd /\ disc' = disc /\ job' = job
        /\ answers' = answers
    BY <1>2 DEF Poll, vars
  <2> QED
    BY <2>1, ToldSame DEF Talk, Done, Outstanding
<1>3. CASE Clear
  <2>1. /\ pc = "clear" /\ pc' = "fetch" /\ answers' = Append(answers, <<>>)
        /\ disc' = disc /\ job' = job /\ SameAnswer(cd, cd')
    BY <1>3, ClearFields
  <2>2. cd'.cmd_status = cd.cmd_status /\ (Outstanding' <=> Outstanding)
    BY <2>1, Zenon DEF SameAnswer, Outstanding
  <2>3. Done' = Done /\ \A k \in 1..Done : answers'[k] = answers[k]
    BY <2>1 DEF Core, Types, Done
  <2> QED
    BY <2>1, <2>2, <2>3, ToldSame DEF Talk
<1>4. CASE StatusReady
  <2>1. disc' = disc /\ job' = job /\ pc' = pc /\ answers' = answers
    BY <1>4 DEF StatusReady, towns_cd_status_ready, guestVars
  <2>2. pc = "await" /\ cd'.cmd_status = cd.cmd_status /\ Outstanding
    BY <1>4, StatusReadyFields, Zenon
  <2> QED
    BY <2>1, <2>2, ToldSame DEF Talk, Done
<1>5. CASE Program \/ StartTransfer \/ ReadData \/ Abandon
  <2>1. disc' = disc /\ job' = job /\ pc \in Moving
    BY <1>5 DEF Program, StartTransfer, ReadData, Abandon, dma_w, transfer_w, data_r, vars,
                guestVars, Moving
  <2>2. job.cmd.op = "read"
    BY <2>1 DEF Core, Transfers
  <2> QED
    BY <2>1, <2>2, ToldOther
<1>6. CASE ReadTimer \/ DmaTransfer
  <2>1. disc' = disc /\ job' = job /\ (cd.read_timer # -1 \/ dma.timer)
    BY <1>6 DEF ReadTimer, DmaTransfer, read_timer_expires, dma_transfer_timer, guestVars
  <2>2. job.cmd.op = "read"
    BY <2>1 DEF Core, Transfers
  <2> QED
    BY <2>1, <2>2, ToldOther
<1>7. CASE DelayCdda
  <2>1. disc' = disc /\ job' = job /\ cd.cdda_timer
    BY <1>7 DEF DelayCdda, towns_delay_cdda, guestVars
  <2>2. job.cmd.op = "play"
    BY <2>1 DEF Core, Delayed
  <2> QED
    BY <2>1, <2>2, ToldOther
<1>8. CASE DelaySeek
  <2>1. disc' = disc /\ job' = job /\ cd.seek_timer /\ ~Outstanding
    BY <1>8 DEF DelaySeek, towns_delay_seek, guestVars
  <2>2. ~(job.cmd.op = "toc" /\ disc)
    BY <2>1 DEF Core, Step, Script, Works
  <2> QED
    BY <2>1, <2>2, ToldOther
<1>9. CASE PlayAudio \/ UNCHANGED allVars
  <2>1. cd' = cd /\ disc' = disc /\ job' = job /\ pc' = pc /\ answers' = answers
    BY <1>9 DEF PlayAudio, get_audio_data, allVars, vars, guestVars
  <2> QED
    BY <2>1 DEF Told, Done, Outstanding, TocAnswer
<1> QED
  BY <1>1, <1>2, <1>3, <1>4, <1>5, <1>6, <1>7, <1>8, <1>9, WriteCommandTold, FetchTold
  DEF Next, Guest

\* Answer n + 1 of a table of contents tells the number of track t, the one
\* after it its start.
LEMMA TrackTold ==
  ASSUME NEW t \in 1..get_last_track, NEW n, n = 2 * t + 5
  PROVE  /\ TocBytes(n)[1] = \h16 /\ TocBytes(n)[3] = byte_to_bcd(t)
         /\ TocBytes(n + 1) = <<\h17>> \o lba_to_msf(get_track_start(t - 1) + 150)
<1>1. t \in Nat /\ t >= 1
  BY Bounds
<1>2. /\ n > 6 /\ n % 2 = 1 /\ n \div 2 = t + 2
      /\ n + 1 > 6 /\ (n + 1) % 2 = 0 /\ (n + 1) \div 2 = t + 3
  BY <1>1
<1>3. (t + 2) - 2 = t /\ (t + 3) - 4 = t - 1
  BY <1>1
<1>4. n \notin {1, 2, 3, 4, 5, 6} /\ n + 1 \notin {1, 2, 3, 4, 5, 6} /\ (n + 1) % 2 # 1
  BY <1>1, <1>2
<1>5. TocBytes(n) = <<\h16, SwappedAdr((n \div 2) - 3), byte_to_bcd(t), 0>>
  BY <1>2, <1>3, <1>4 DEF TocBytes
<1>6. TocBytes(n + 1) = <<\h17>> \o lba_to_msf(get_track_start(t - 1) + 150)
  BY <1>2, <1>3, <1>4 DEF TocBytes
<1>7. PICK a, b, q : q = <<\h16, a, b, 0>> /\ b = byte_to_bcd(t) /\ q = TocBytes(n)
  BY <1>5
<1>8. q[1] = \h16 /\ q[3] = b
  BY <1>7
<1> QED
  BY <1>6, <1>7, <1>8, Zenon

\* Answer n of a table, and the one after it, when it was read to its end.
LEMMA PairTold ==
  ASSUME Told, pc = "idle", job.cmd.op = "toc", disc,
         NEW n \in 1..(7 + 2 * get_last_track), NEW point, NEW answer,
         TocBytes(n)[1] = \h16, TocBytes(n)[3] = point, TocBytes(n + 1) = answer
  PROVE  TocTells(point, answer)
<1>1. PICK st, l : st = job.cmd.st /\ l = Len(answers)
  OBVIOUS
<1>2. l = AnswerCount(job.cmd) /\ \A k \in 1..l : answers[k] = TocAnswer(st, k)
  BY <1>1 DEF Told
<1>3. get_last_track \in Nat /\ n \in Nat /\ n >= 1 /\ n <= 7 + 2 * get_last_track
  BY Bounds
<1>4. l = 6 + 2 * (get_last_track + 1) + (IF st THEN 1 ELSE 0)
  BY <1>1, <1>2 DEF AnswerCount
<1>5. CASE st
  <2>1. n + 1 \in 1..(l - 1) /\ n + 1 \in 1..l /\ (n + 1) + 1 \in 1..l
    BY <1>3, <1>4, <1>5
  <2>2. n + 1 # 1 /\ (n + 1) + 1 # 1 /\ (n + 1) - 1 = n /\ ((n + 1) + 1) - 1 = n + 1
    BY <1>3
  <2>3. TocAnswer(st, n + 1) = TocBytes(n) /\ TocAnswer(st, (n + 1) + 1) = TocBytes(n + 1)
    BY <1>5, <2>2, Zenon DEF TocAnswer
  <2>4. answers[n + 1] = TocBytes(n) /\ answers[(n + 1) + 1] = TocBytes(n + 1)
    BY <1>2, <2>1, <2>3, Zenon
  <2> QED
    BY <1>1, <2>1, <2>4, Zenon DEF TocTells
<1>6. CASE ~st
  <2>1. n \in 1..(l - 1) /\ n \in 1..l /\ n + 1 \in 1..l
    BY <1>3, <1>4, <1>6
  <2>2. TocAnswer(st, n) = TocBytes(n) /\ TocAnswer(st, n + 1) = TocBytes(n + 1)
    BY <1>6, Zenon DEF TocAnswer
  <2>3. answers[n] = TocBytes(n) /\ answers[n + 1] = TocBytes(n + 1)
    BY <1>2, <2>1, <2>2, Zenon
  <2> QED
    BY <1>1, <2>1, <2>3, Zenon DEF TocTells
<1> QED
  BY <1>5, <1>6

\* The first six answers tell the first track, the last one and the lead-out.
LEMMA PointsTold ==
  /\ TocBytes(1)[1] = \h16 /\ TocBytes(1)[3] = \ha0 /\ TocBytes(1 + 1) = <<\h17, 1, 0, 0>>
  /\ TocBytes(3)[1] = \h16 /\ TocBytes(3)[3] = \ha1
  /\ TocBytes(3 + 1) = <<\h17, byte_to_bcd(get_last_track), 0, 0>>
  /\ TocBytes(5)[1] = \h16 /\ TocBytes(5)[3] = \ha2
  /\ TocBytes(5 + 1) = <<\h17>> \o lba_to_msf(LeadOut + 150)
<1>1. TocBytes(1) = <<\h16, 0, \ha0, 0>> /\ TocBytes(1 + 1) = <<\h17, 1, 0, 0>>
  BY DEF TocBytes
<1>2. TocBytes(3) = <<\h16, 0, \ha1, 0>> /\ TocBytes(3 + 1) = <<\h17, byte_to_bcd(get_last_track), 0, 0>>
  BY DEF TocBytes
<1>3. TocBytes(5) = <<\h16, 0, \ha2, 0>> /\ TocBytes(5 + 1) = <<\h17>> \o lba_to_msf(LeadOut + 150)
  BY DEF TocBytes
<1> QED
  BY <1>1, <1>2, <1>3

\* A table of contents read to its end tells the first and the last track, the
\* lead-out and every track of the disc (towns_cdrom_r counts the answers in
\* extra_status).
THEOREM TocAlwaysComplete == Spec => []TocIsComplete
<1>1. Core /\ Told => TocIsComplete
  <2> SUFFICES ASSUME Told, pc = "idle", job.cmd.op = "toc", disc
               PROVE  /\ TocTells(\ha0, <<\h17, 1, 0, 0>>)
                      /\ TocTells(\ha1, <<\h17, byte_to_bcd(get_last_track), 0, 0>>)
                      /\ TocTells(\ha2, <<\h17>> \o lba_to_msf(LeadOut + 150))
                      /\ \A t \in 1..get_last_track :
                           TocTells(byte_to_bcd(t), <<\h17>> \o lba_to_msf(get_track_start(t - 1) + 150))
    BY DEF TocIsComplete
  <2>1. ASSUME NEW n \in 1..(7 + 2 * get_last_track), NEW point, NEW answer,
               TocBytes(n)[1] = \h16 /\ TocBytes(n)[3] = point, TocBytes(n + 1) = answer
        PROVE  TocTells(point, answer)
    BY <2>1, PairTold, Zenon
  <2>2. TocTells(\ha0, <<\h17, 1, 0, 0>>)
    <3>1. PICK n, point, answer : n = 1 /\ point = \ha0 /\ answer = <<\h17, 1, 0, 0>>
      OBVIOUS
    <3>2. n \in 1..(7 + 2 * get_last_track) /\ TocBytes(n)[1] = \h16 /\ TocBytes(n)[3] = point
      BY <3>1, PointsTold, Bounds
    <3>3. TocBytes(n + 1) = answer
      BY <3>1, PointsTold
    <3>4. TocTells(point, answer)
      BY <2>1, <3>2, <3>3, Zenon
    <3> QED
      BY <3>1, <3>4, Zenon
  <2>3. TocTells(\ha1, <<\h17, byte_to_bcd(get_last_track), 0, 0>>)
    <3>1. PICK n, point, answer : n = 3 /\ point = \ha1 /\ answer = <<\h17, byte_to_bcd(get_last_track), 0, 0>>
      OBVIOUS
    <3>2. n \in 1..(7 + 2 * get_last_track) /\ TocBytes(n)[1] = \h16 /\ TocBytes(n)[3] = point
      BY <3>1, PointsTold, Bounds
    <3>3. TocBytes(n + 1) = answer
      BY <3>1, PointsTold
    <3>4. TocTells(point, answer)
      BY <2>1, <3>2, <3>3, Zenon
    <3> QED
      BY <3>1, <3>4, Zenon
  <2>4. TocTells(\ha2, <<\h17>> \o lba_to_msf(LeadOut + 150))
    <3>1. PICK n, point, answer : n = 5 /\ point = \ha2 /\ answer = <<\h17>> \o lba_to_msf(LeadOut + 150)
      OBVIOUS
    <3>2. n \in 1..(7 + 2 * get_last_track) /\ TocBytes(n)[1] = \h16 /\ TocBytes(n)[3] = point
      BY <3>1, PointsTold, Bounds
    <3>3. TocBytes(n + 1) = answer
      BY <3>1, PointsTold
    <3>4. TocTells(point, answer)
      BY <2>1, <3>2, <3>3, Zenon
    <3> QED
      BY <3>1, <3>4, Zenon
  <2>5. ASSUME NEW t \in 1..get_last_track
        PROVE  TocTells(byte_to_bcd(t), <<\h17>> \o lba_to_msf(get_track_start(t - 1) + 150))
    <3>1. PICK n, point, answer :
            /\ n = 2 * t + 5 /\ point = byte_to_bcd(t)
            /\ answer = <<\h17>> \o lba_to_msf(get_track_start(t - 1) + 150)
      OBVIOUS
    <3>2. n \in 1..(7 + 2 * get_last_track)
      BY <3>1, Bounds
    <3>3. TocBytes(n)[1] = \h16 /\ TocBytes(n)[3] = point /\ TocBytes(n + 1) = answer
      BY <3>1, TrackTold, Zenon
    <3>4. TocTells(point, answer)
      BY <2>1, <3>2, <3>3, Zenon
    <3> QED
      BY <3>1, <3>4, Zenon
  <2> QED
    BY <2>2, <2>3, <2>4, <2>5
<1>2. GuestInit => Told
  BY DEF GuestInit, NoCommand, Told
<1>3. Core /\ Told /\ [Next]_allVars => Told'
  BY ToldHolds
<1> QED
  BY <1>1, <1>2, <1>3, AlwaysCore, PTL DEF Spec
=============================================================================
