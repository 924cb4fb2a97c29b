-------------------------- MODULE TownsScsiProofs ---------------------------
(***************************************************************************)
(* Proofs about TownsScsi, for every list of orders, every number of bytes *)
(* in a sector and in a command, every memory and every set of drives.     *)
(*                                                                         *)
(* IInv is the inductive invariant.  Bus says which phase may follow which *)
(* at each point of the guest's program; Command, that the bytes spoken so *)
(* far are those of the order and what the drive made of them; Channel,    *)
(* that the adapter's count plus what the DMA channel has left is what the *)
(* guest gave away, and the channel's address the place of the next byte;  *)
(* Drive, that the drive stands at the sector the count says, with the     *)
(* adapter's buffer holding that sector, or its bytes so far; Memory and   *)
(* Written, what has reached the guest's memory and the image.             *)
(*                                                                         *)
(* The handlers of FmScsi are nested updates of one record.  A lemma for   *)
(* each (ReadInFields, PhaseFields...) says once what each field becomes;  *)
(* the lemmas of the steps (DrainKeeps...) use nothing else of a handler.  *)
(***************************************************************************)
EXTENDS TownsScsi, TLAPS

-----------------------------------------------------------------------------
(* The inductive invariant *)

Triples == Int \X Int \X Int
Buffers == [1..SectorBytes -> Triples]
Images  == [Lbas -> Buffers]

DriveOps == {"none", "read", "write", "inquiry", "parameter", "ready", "other"}
Drives == [op : DriveOps,
           lba : Nat, blocks : Nat, length : Nat, phase : Phases, image : Images]

Outs  == [dmae : BOOLEAN, imsk : BOOLEAN, atn : BOOLEAN, sel : BOOLEAN]
Shows == [cd : BOOLEAN, msg : BOOLEAN, io : BOOLEAN]

Targets == 0..6

Adapters ==
  [phase : Phases, next : Phases \cup {"none"}, transfer : BOOLEAN,
   req : BOOLEAN, int : BOOLEAN, bsy : BOOLEAN, lines : Shows, out : Outs,
   target : Targets, selected : Targets, command : Seq(Triples),
   length : Nat, index : Nat, data : Triples, buffer : Buffers]

Pcs == {"idle", "free", "select", "busy", "run", "attention"}

Types ==
  /\ s \in Adapters /\ d \in Dmas /\ t \in [Ids -> Drives]
  /\ mem \in [0..(MemSize - 1) -> Triples]
  /\ pc \in Pcs /\ n \in 0..Len(Orders) /\ said \in 0..CommandBytes
  /\ moved \in Nat /\ armed \in BOOLEAN /\ status \in Triples
  /\ sent \in 0..MaxSent /\ faults \in 0..MaxFaults
  /\ pc # "idle" => n > 0
  /\ Len(s.command) <= CommandBytes

\* The bus.
Quiet == ~s.bsy /\ ~s.transfer /\ s.command = <<>>
Spoken == [k \in 1..said |-> CommandByte(n, k)]

Bus ==
  /\ s.lines = Shown(s.phase)
  /\ pc # "busy" => ~s.out.sel
  /\ pc \in {"idle", "free"} =>
       /\ Quiet
       /\ s.phase \in {"bus_free", "status", "message_in"}
       /\ s.next \in {"none", "status", "message_in", "bus_free"}
       /\ s.next = "none" /\ s.phase # "bus_free" => s.req
  /\ pc = "select" => Quiet /\ s.phase = "bus_free" /\ s.next = "none" /\ s.target = order.id
  /\ pc = "busy" =>
       /\ ~s.transfer /\ s.command = <<>> /\ s.selected = order.id
       /\ s.out.dmae = order.dma
       /\ \/ order.id \in Ids /\ s.phase = "bus_free" /\ s.next = "command" /\ ~s.bsy
          \/ order.id \in Ids /\ s.phase = "command" /\ s.next = "none" /\ s.bsy
          \/ order.id \notin Ids /\ s.phase = "bus_free" /\ s.next = "none" /\ ~s.bsy
  /\ pc \in {"free", "select", "busy"} => said = 0 /\ status = Pending
  /\ pc = "attention" =>
       /\ s.bsy /\ ~s.transfer /\ status = Cut
       /\ s.selected = order.id /\ order.id \in Ids /\ s.out.dmae = order.dma
       /\ \/ s.phase = "command" /\ s.next = "message_out"
          \/ s.phase = "message_out" /\ s.next = "none"
  /\ pc = "run" =>
       /\ s.selected = order.id /\ order.id \in Ids /\ s.out.dmae = order.dma
       /\ s.bsy <=> s.phase # "bus_free"
       /\ s.phase \in {"bus_free", "status"} => s.next \in {"none", "message_in"}
       /\ s.phase = "message_in" => s.next \in {"none", "bus_free"}
       /\ s.phase = "message_out" => s.next \in {"none", "status"}
       /\ s.phase = "bus_free" => s.next = "none"
       /\ s.phase \in {"message_in", "bus_free"} => s.command = <<>> /\ status # Pending
       /\ s.phase = "status" /\ s.next = "message_in" => s.command = <<>> /\ status # Pending
       /\ s.phase = "status" /\ s.next = "none" => status \in {Pending, Cut}
       /\ s.phase = "message_out" => status = Cut
       /\ InDataPhase(s) \/ ~s.transfer

\* The command, byte by byte, and what the drive makes of it.
Length(o) == IF o.op \in {"read", "write"} THEN Total(o)
             ELSE IF o.op \in {"inquiry", "parameter"} THEN 1 ELSE 0
Phase(o)  == CASE o.op \in {"read", "inquiry"} -> "datain"
               [] o.op \in {"write", "parameter"} -> "dataout"
               [] o.op = "ready" -> "status"
               [] OTHER -> "command"

Command ==
  pc = "run" =>
    /\ s.phase = "command" =>
         /\ status = Pending /\ s.command = Spoken
         /\ said < CommandBytes => s.next \in {"none", "command"}
         /\ said = CommandBytes => s.next \in {"none", Phase(order)}
         /\ said = CommandBytes /\ s.next = "none" => Phase(order) = "command"
    /\ InDataPhase(s) => status = Pending /\ said = CommandBytes /\ s.phase = Phase(order)
    /\ status # Cut /\ said = CommandBytes /\ (s.phase = "command" \/ InDataPhase(s)) =>
         t[order.id].op = order.op /\ s.length = Length(order)

\* The data phases, and the DMA channel's part of them.
Left == IF armed /\ ScsiChannel \notin d.reached THEN d.count[ScsiChannel] + 1 ELSE 0

Channel ==
  /\ d.timer \subseteq {ScsiChannel}
  /\ pc \in {"free", "select", "busy", "attention"} \/ (pc = "run" /\ s.phase = "command") =>
       moved = 0 /\ ~armed /\ ScsiChannel \in d.mask /\ ScsiChannel \notin d.reached
  /\ pc = "run" /\ ~armed => ScsiChannel \notin d.reached
  /\ armed => n > 0 /\ order.dma
  /\ ScsiChannel \in d.timer =>
       /\ armed /\ d.address[ScsiChannel] \in 0..(Total(order) - 1)
       /\ d.mode[ScsiChannel].direction = IF order.op = "write" THEN "out" ELSE "in"
       /\ \/ pc = "run" /\ InDataPhase(s) /\ s.transfer /\ ScsiChannel \notin d.reached
          \/ pc = "idle" /\ s.phase = "bus_free" /\ s.next = "status" /\ status = Cut
  /\ pc = "run" /\ InDataPhase(s) =>
       /\ s.index <= s.length
       /\ s.transfer <=> s.index < s.length
       /\ s.next = IF s.transfer THEN "none" ELSE "status"
       /\ ~s.transfer => ~s.req
       /\ ~order.dma => moved = s.index
       /\ order.dma => moved = s.index + Left /\ moved <= Total(order)
       /\ s.transfer /\ ScsiChannel \notin d.mask => armed /\ ScsiChannel \notin d.reached
       /\ armed /\ ScsiChannel \notin d.reached =>
            /\ d.address[ScsiChannel] = At(order, s.index)
            /\ d.mode[ScsiChannel].down = order.down
            /\ d.mode[ScsiChannel].auto = order.auto
            /\ d.mode[ScsiChannel].direction = IF order.op = "write" THEN "out" ELSE "in"
            /\ order.auto => moved = Total(order)

\* Where the drive stands.
Drive ==
  pc = "run" /\ status = Pending /\ order.op \in {"read", "write"} =>
    LET drive == t[order.id]
        q     == s.index \div SectorBytes
    IN /\ s.phase = "command" /\ said = CommandBytes =>
            drive.lba = order.lba /\ drive.blocks = order.blocks
       /\ s.phase = "datain" /\ order.id \in Loaded =>
            /\ drive.lba + drive.blocks = order.lba + order.blocks
            /\ s.index < s.length => /\ drive.lba = order.lba + q + 1
                                     /\ s.buffer = drive.image[order.lba + q]
       /\ s.phase = "datain" /\ order.id \notin Loaded => s.buffer = [k \in 1..SectorBytes |-> Zero]
       /\ s.phase = "dataout" /\ order.id \in Loaded =>
            /\ drive.lba + drive.blocks = order.lba + order.blocks
            /\ drive.lba = order.lba + q
       /\ s.phase = "dataout" =>
            \A k \in 1..(s.index % SectorBytes) : s.buffer[k] = Payload(q * SectorBytes + k - 1)

\* How much of the order's data has been moved.
Got == IF status # Pending \/ (pc = "run" /\ s.phase = "status") THEN Total(order)
       ELSE IF pc = "run" /\ InDataPhase(s) THEN s.index ELSE 0

Memory ==
  n > 0 =>
    /\ \A a \in Total(order)..(MemSize - 1) : mem[a] = Unused
    /\ order.op = "write" => \A i \in 0..(Total(order) - 1) : mem[At(order, i)] = Payload(i)
    /\ order.op = "read" /\ status # Cut =>
         \A i \in 0..(Total(order) - 1) :
            mem[At(order, i)] = IF i < Got THEN Wanted(order, i) ELSE Unused

Written ==
  n > 0 /\ order.op = "write" /\ order.id \in Loaded /\ status # Cut =>
    \A j \in 0..(order.blocks - 1) : j < Got \div SectorBytes =>
       \A k \in 1..SectorBytes :
          t[order.id].image[order.lba + j][k] = Payload(j * SectorBytes + k - 1)

Verdict ==
  n > 0 /\ status \notin {Pending, Cut} => status[2] = IF order.id \in Loaded THEN 0 ELSE 2

IInv == Types /\ Bus /\ Command /\ Channel /\ Drive /\ Memory /\ Written /\ Verdict

-----------------------------------------------------------------------------
(* Bytes and sectors *)

LEMMA Scaled ==
  ASSUME NEW a \in Int, NEW b \in Int, NEW c \in Nat, a < b
  PROVE  a * c + c <= b * c
OBVIOUS

LEMMA DivMod ==
  ASSUME NEW q \in Int, NEW c \in Nat \ {0}, NEW r \in 0..(c - 1)
  PROVE  (q * c + r) \div c = q /\ (q * c + r) % c = r
<1>1. PICK m, u, v : m = q * c + r /\ u = m \div c /\ v = m % c
  OBVIOUS
<1>2. m \in Int /\ u \in Int /\ v \in 0..(c - 1) /\ m = c * u + v
  BY <1>1
<1>3. u * c + v = q * c + r
  BY <1>1, <1>2
<1>4. u * c \in Int /\ q * c \in Int
  BY <1>2
<1>5. ~(u < q)
  BY <1>2, <1>3, <1>4, Scaled
<1>6. ~(q < u)
  BY <1>2, <1>3, <1>4, Scaled
<1>7. u = q
  BY <1>2, <1>5, <1>6
<1> QED
  BY <1>1, <1>2, <1>3, <1>7

\* Byte i is byte i % SectorBytes of sector i \div SectorBytes.
LEMMA SectorOf ==
  ASSUME NEW i \in Nat
  PROVE  /\ i \div SectorBytes \in Nat /\ i % SectorBytes \in 0..(SectorBytes - 1)
         /\ i = (i \div SectorBytes) * SectorBytes + (i % SectorBytes)
         /\ \A b \in Nat : i < b * SectorBytes => i \div SectorBytes < b
         /\ \A b \in Nat : i = b * SectorBytes => i \div SectorBytes = b /\ i % SectorBytes = 0
<1>1. PICK c : c = SectorBytes
  OBVIOUS
<1>2. c \in Nat \ {0}
  BY <1>1, ScsiAssumption
<1>3. PICK q, r : q = i \div c /\ r = i % c
  OBVIOUS
<1>4. q \in Int /\ r \in 0..(c - 1) /\ i = q * c + r
  BY <1>2, <1>3
<1>5. q \in Nat
  <2>1. q < 0 => q * c + c <= 0 * c
    BY <1>2, <1>4, Scaled
  <2> QED
    BY <1>2, <1>4, <2>1
<1>6. ASSUME NEW b \in Nat, i < b * c
      PROVE  q < b
  <2>1. b < q => b * c + c <= q * c
    BY <1>2, <1>4, <1>6, Scaled
  <2>2. b * c \in Nat /\ q * c \in Nat
    BY <1>2, <1>5
  <2> QED
    BY <1>2, <1>4, <1>6, <2>1, <2>2
<1>7. ASSUME NEW b \in Nat, i = b * c
      PROVE  q = b /\ r = 0
  <2>1. (b * c + 0) \div c = b /\ (b * c + 0) % c = 0
    BY <1>2, DivMod
  <2>2. b * c + 0 = i
    BY <1>2, <1>7
  <2> QED
    BY <1>3, <2>1, <2>2
<1> QED
  BY <1>1, <1>3, <1>4, <1>5, <1>6, <1>7

\* The byte after it is in the same sector, or the first of the next one.
LEMMA NextByte ==
  ASSUME NEW i \in Nat
  PROVE  /\ (i + 1) % SectorBytes = 0 =>
              i % SectorBytes = SectorBytes - 1 /\ (i + 1) \div SectorBytes = i \div SectorBytes + 1
         /\ (i + 1) % SectorBytes # 0 =>
              /\ (i + 1) % SectorBytes = (i % SectorBytes) + 1
              /\ (i + 1) \div SectorBytes = i \div SectorBytes
<1>1. PICK c, q, r : c = SectorBytes /\ q = i \div c /\ r = i % c
  OBVIOUS
<1>2. c \in Nat \ {0, 1} /\ q \in Nat /\ r \in 0..(c - 1) /\ i = q * c + r
  BY <1>1, ScsiAssumption, SectorOf
<1>3. CASE r = c - 1
  <2>1. i + 1 = (q + 1) * c + 0
    BY <1>2, <1>3
  <2>2. (i + 1) \div c = q + 1 /\ (i + 1) % c = 0
    BY <1>2, <2>1, DivMod
  <2> QED
    BY <1>1, <1>2, <1>3, <2>2
<1>4. CASE r # c - 1
  <2>1. i + 1 = q * c + (r + 1) /\ r + 1 \in 0..(c - 1)
    BY <1>2, <1>4
  <2>2. (i + 1) \div c = q /\ (i + 1) % c = r + 1
    BY <1>2, <2>1, DivMod
  <2> QED
    BY <1>1, <1>2, <1>4, <2>2
<1> QED
  BY <1>3, <1>4

\* Orders, and where their bytes are.
LEMMA OrderFacts ==
  ASSUME NEW i \in 1..Len(Orders)
  PROVE  /\ Orders[i] \in OrderKinds
         /\ Total(Orders[i]) \in Nat
         /\ Total(Orders[i]) < MemSize /\ Total(Orders[i]) <= CountModulus
         /\ MemSize \in Nat /\ MemSize <= AddressModulus
<1>1. Orders[i] \in OrderKinds
  BY GuestAssumption
<1>2. PICK b, c : b = Orders[i].blocks /\ c = SectorBytes
  OBVIOUS
<1>3. b \in Nat /\ c \in Nat
  BY <1>1, <1>2, ScsiAssumption DEF OrderKinds
<1>4. b * c \in Nat
  BY <1>3
<1> QED
  BY <1>1, <1>2, <1>4, GuestAssumption DEF Total

-----------------------------------------------------------------------------
(* The DMA channel *)

LEMMA Modulo ==
  ASSUME NEW a \in Int, NEW m \in Nat \ {0}
  PROVE  a % m \in 0..(m - 1) /\ (a \in 0..(m - 1) => a % m = a)
OBVIOUS

LEMMA ChannelFact == ScsiChannel \in Channels
BY DEF ScsiChannel, Channels

\* Registers that a request leaves alone.
SameDma(y, z) ==
  /\ y.mask = z.mask /\ y.reached = z.reached /\ y.mode = z.mode
  /\ y.count = z.count /\ y.address = z.address

LEMMA RequestFields ==
  ASSUME NEW z \in Dmas
  PROVE  LET y == request(z, ScsiChannel)
         IN /\ y \in Dmas /\ SameDma(y, z)
            /\ y.timer \subseteq z.timer \cup {ScsiChannel}
            /\ y.timer \subseteq z.timer \/ ScsiChannel \notin z.mask
<1>1. CASE z.disabled \/ ScsiChannel \in z.mask
  BY <1>1 DEF request, SameDma
<1>2. CASE ~(z.disabled \/ ScsiChannel \in z.mask)
  BY <1>2, ChannelFact, ZenonT(30) DEF request, SameDma, Dmas
<1> QED
  BY <1>1, <1>2

LEMMA WithdrawFields ==
  ASSUME NEW z \in Dmas
  PROVE  LET y == withdraw(z, ScsiChannel)
         IN /\ y \in Dmas /\ SameDma(y, z)
            /\ y.timer = z.timer \ {ScsiChannel}
BY ChannelFact DEF withdraw, SameDma, Dmas

DmaSet(z, a, c) == [z EXCEPT !.address[ScsiChannel] = a, !.count[ScsiChannel] = c]

LEMMA DmaSetFields ==
  ASSUME NEW z \in Dmas, NEW a \in 0..(AddressModulus - 1), NEW c \in 0..(CountModulus - 1),
         NEW y, y = DmaSet(z, a, c)
  PROVE  /\ y \in Dmas /\ y.mode = z.mode /\ y.timer = z.timer /\ y.mask = z.mask
         /\ y.reached = z.reached
         /\ y.count[ScsiChannel] = c /\ y.address[ScsiChannel] = a
<1>1. PICK A, C : A = 0..(AddressModulus - 1) /\ C = 0..(CountModulus - 1)
  OBVIOUS
<1>2. z \in [selected : Channels, base : BOOLEAN, disabled : BOOLEAN, eop : BOOLEAN,
         mask : SUBSET Channels, reached : SUBSET Channels, requests : SUBSET Channels,
         timer : SUBSET Channels, mode : [Channels -> Modes],
         count : [Channels -> C], count_base : [Channels -> C],
         address : [Channels -> A], address_base : [Channels -> A]]
  BY <1>1 DEF Dmas
<1>3. a \in A /\ c \in C
  BY <1>1
<1> USE DEF DmaSet
<1>4. y.address \in [Channels -> A] /\ y.count \in [Channels -> C]
  BY <1>2, <1>3, ChannelFact
<1>5. y = [z EXCEPT !.address = y.address, !.count = y.count]
  BY <1>2
<1>6. y \in [selected : Channels, base : BOOLEAN, disabled : BOOLEAN, eop : BOOLEAN,
         mask : SUBSET Channels, reached : SUBSET Channels, requests : SUBSET Channels,
         timer : SUBSET Channels, mode : [Channels -> Modes],
         count : [Channels -> C], count_base : [Channels -> C],
         address : [Channels -> A], address_base : [Channels -> A]]
  BY <1>2, <1>4
<1>7. y \in Dmas
  BY <1>1, <1>6 DEF Dmas
<1> QED
  BY <1>2, <1>7, ChannelFact

LEMMA AdvanceFields ==
  ASSUME NEW z \in Dmas
  PROVE  LET y == advance(z, ScsiChannel)
             c == z.count[ScsiChannel]
             a == z.address[ScsiChannel]
         IN /\ y \in Dmas /\ y.mode = z.mode
            /\ y.timer \subseteq z.timer
            /\ c # 0 => /\ y.mask = z.mask /\ y.reached = z.reached
                        /\ y.count[ScsiChannel] = c - 1
                        /\ y.address[ScsiChannel] =
                             (IF z.mode[ScsiChannel].down THEN a - 1 ELSE a + 1) % AddressModulus
            /\ c = 0 => /\ y.reached = z.reached \cup {ScsiChannel}
                        /\ ~z.mode[ScsiChannel].auto => ScsiChannel \in y.mask
<1> DEFINE y == advance(z, ScsiChannel)
           c == z.count[ScsiChannel]
           a == z.address[ScsiChannel]
           next == (a + (IF z.mode[ScsiChannel].down THEN -1 ELSE 1)) % AddressModulus
           less == (c - 1) % CountModulus
<1>1. c \in 0..(CountModulus - 1) /\ a \in 0..(AddressModulus - 1)
  BY ChannelFact DEF Dmas
<1>2. /\ CountModulus \in Nat \ {0} /\ AddressModulus \in Nat \ {0}
      /\ next \in 0..(AddressModulus - 1) /\ less \in 0..(CountModulus - 1)
      /\ c # 0 => less = c - 1
  <2>1. c - 1 \in Int /\ a + (IF z.mode[ScsiChannel].down THEN -1 ELSE 1) \in Int
    BY <1>1
  <2>2. CountModulus \in Nat \ {0} /\ AddressModulus \in Nat \ {0}
    BY ModulusAssumption
  <2>3. next \in 0..(AddressModulus - 1)
    BY <2>1, <2>2, Modulo, Zenon
  <2>4. less \in 0..(CountModulus - 1) /\ (c - 1 \in 0..(CountModulus - 1) => less = c - 1)
    BY <2>1, <2>2, Modulo, Zenon
  <2>5. c # 0 => c - 1 \in 0..(CountModulus - 1)
    BY <1>1, <2>2
  <2> HIDE DEF next, less
  <2> QED
    BY <2>2, <2>3, <2>4, <2>5
<1>3. next = (IF z.mode[ScsiChannel].down THEN a - 1 ELSE a + 1) % AddressModulus
  BY <1>1
<1> DEFINE moves == [z EXCEPT !.address[ScsiChannel] = next, !.count[ScsiChannel] = less]
<1>4. /\ moves \in Dmas /\ moves.mode = z.mode /\ moves.timer = z.timer /\ moves.mask = z.mask
      /\ moves.reached = z.reached
      /\ moves.count[ScsiChannel] = less /\ moves.address[ScsiChannel] = next
  <2> HIDE DEF next, less
  <2>1. moves = DmaSet(z, next, less)
    BY DEF DmaSet
  <2> HIDE DEF moves
  <2> QED
    BY <1>2, <2>1, DmaSetFields
<1>5. moves = [z EXCEPT !.address[ScsiChannel] = (@ + (IF z.mode[ScsiChannel].down THEN -1 ELSE 1)) % AddressModulus,
                        !.count[ScsiChannel] = (@ - 1) % CountModulus]
  BY Zenon
<1>6. CASE c # 0
  <2>1. y = moves
    BY <1>5, <1>6 DEF advance
  <2> QED
    BY <1>2, <1>3, <1>4, <1>6, <2>1
<1>7. CASE c = 0
  <2> DEFINE ended == [moves EXCEPT !.eop = TRUE, !.reached = @ \cup {ScsiChannel}]
  <2>1. /\ ended \in Dmas /\ ended.mode = z.mode /\ ended.timer = z.timer
        /\ ended.reached = z.reached \cup {ScsiChannel}
    <3> HIDE DEF moves
    <3> QED
      BY <1>4, ChannelFact DEF Dmas
  <2>2. CASE z.mode[ScsiChannel].auto
    <3>1. y = DmaSet(ended, z.address_base[ScsiChannel], z.count_base[ScsiChannel])
      BY <1>5, <1>7, <2>2 DEF advance, DmaSet
    <3>2. /\ z.address_base[ScsiChannel] \in 0..(AddressModulus - 1)
          /\ z.count_base[ScsiChannel] \in 0..(CountModulus - 1)
      BY ChannelFact DEF Dmas
    <3>3. y \in Dmas /\ y.mode = ended.mode /\ y.timer = ended.timer /\ y.reached = ended.reached
      <4> HIDE DEF ended, y
      <4> QED
        BY <2>1, <3>1, <3>2, DmaSetFields
    <3> HIDE DEF ended
    <3> QED
      BY <1>7, <2>1, <2>2, <3>3
  <2>3. CASE ~z.mode[ScsiChannel].auto
    <3>1. y = [ended EXCEPT !.timer = @ \ {ScsiChannel}, !.mask = @ \cup {ScsiChannel}]
      BY <1>5, <1>7, <2>3 DEF advance
    <3>2. /\ y \in Dmas /\ y.mode = ended.mode /\ y.timer \subseteq ended.timer
          /\ y.reached = ended.reached /\ ScsiChannel \in y.mask
      <4> HIDE DEF ended, y
      <4> QED
        BY <2>1, <3>1, ChannelFact DEF Dmas
    <3> HIDE DEF ended
    <3> QED
      BY <1>7, <2>1, <2>3, <3>2
  <2> QED
    BY <2>2, <2>3
<1> QED
  BY <1>6, <1>7

-----------------------------------------------------------------------------
(* The adapter's operators, field by field *)

Xs == [s : Adapters, d : Dmas, t : [Ids -> Drives]]

\* What of the adapter a change of REQ leaves alone, and the rest of it.
SameBus(y, z) ==
  /\ y.phase = z.phase /\ y.bsy = z.bsy /\ y.lines = z.lines
  /\ y.out = z.out /\ y.selected = z.selected

SameData(y, z) ==
  /\ y.command = z.command /\ y.length = z.length /\ y.index = z.index
  /\ y.buffer = z.buffer

LEMMA ReqFields ==
  ASSUME NEW x \in Xs, NEW b \in BOOLEAN
  PROVE  LET y == set_req(x, b)
         IN /\ y \in Xs /\ y.d = x.d /\ y.t = x.t
            /\ SameBus(y.s, x.s) /\ SameData(y.s, x.s)
            /\ y.s.req = b /\ y.s.data = x.s.data /\ y.s.next = x.s.next
            /\ y.s.target = x.s.target /\ y.s.transfer = x.s.transfer
<1> DEFINE y == set_req(x, b)
<1>1. x.s \in Adapters /\ x.d \in Dmas /\ x.t \in [Ids -> Drives]
  BY DEF Xs
<1>2. PICK i \in BOOLEAN : y = [x EXCEPT !.s.req = b, !.s.int = i]
  <2>1. (IF b # x.s.req /\ x.s.out.imsk /\ ~InDataPhase(x.s) THEN b ELSE x.s.int) \in BOOLEAN
    BY <1>1 DEF Adapters
  <2> QED
    BY <2>1 DEF set_req
<1>3. y.s = [x.s EXCEPT !.req = b, !.int = i] /\ y.d = x.d /\ y.t = x.t
  BY <1>2 DEF Xs
<1>4. y.s \in Adapters
  BY <1>1, <1>3, ZenonT(30) DEF Adapters
<1>5. y \in Xs
  BY <1>1, <1>2, <1>4 DEF Xs
<1> QED
  BY <1>1, <1>3, <1>5 DEF SameBus, SameData, Adapters

LEMMA DrqFields ==
  ASSUME NEW x \in Xs, NEW b \in BOOLEAN
  PROVE  LET y == drq(x, b)
         IN /\ y \in Xs /\ y.s = x.s /\ y.t = x.t
            /\ ~x.s.out.dmae => y.d = x.d
            /\ x.s.out.dmae => y.d = dmarq(x.d, b, ScsiChannel)
<1>1. dmarq(x.d, b, ScsiChannel) \in Dmas
  BY RequestFields, WithdrawFields DEF dmarq, Xs
<1> QED
  BY <1>1 DEF drq, Xs

LEMMA StopFields ==
  ASSUME NEW x \in Xs
  PROVE  LET y == stop_transfer(x)
         IN /\ y \in Xs /\ y.t = x.t
            /\ SameBus(y.s, x.s) /\ SameData(y.s, x.s)
            /\ y.s.req = x.s.req /\ y.s.data = x.s.data /\ y.s.next = "status"
            /\ y.s.target = x.s.target /\ ~y.s.transfer
            /\ SameDma(y.d, x.d)
            /\ y.d.timer \subseteq x.d.timer
<1> DEFINE w == [x EXCEPT !.s.transfer = FALSE, !.s.next = "status"]
           y == stop_transfer(x)
<1>1. w \in Xs /\ w.d = x.d /\ w.t = x.t /\ w.s = [x.s EXCEPT !.transfer = FALSE, !.next = "status"]
  <2>1. [x.s EXCEPT !.transfer = FALSE, !.next = "status"] \in Adapters
    BY DEF Xs, Adapters, Phases
  <2> QED
    BY <2>1 DEF Xs
<1>2. y = drq(w, FALSE)
  BY DEF stop_transfer
<1>3. y \in Xs /\ y.s = w.s /\ y.t = w.t /\ (y.d = w.d \/ y.d = withdraw(w.d, ScsiChannel))
  <2> HIDE DEF w, y
  <2> QED
    BY <1>1, <1>2, DrqFields DEF dmarq
<1>4. SameDma(y.d, x.d) /\ y.d.timer \subseteq x.d.timer
  <2>1. w.d \in Dmas
    BY <1>1 DEF Xs
  <2> HIDE DEF w, y
  <2> QED
    BY <1>1, <1>3, <2>1, WithdrawFields DEF SameDma
<1>5. x.s \in Adapters
  BY DEF Xs
<1>6. /\ SameBus(w.s, x.s) /\ SameData(w.s, x.s) /\ w.s.req = x.s.req /\ w.s.data = x.s.data
      /\ w.s.next = "status" /\ w.s.target = x.s.target /\ ~w.s.transfer
  <2> HIDE DEF w
  <2> QED
    BY <1>1, <1>5 DEF SameBus, SameData, Adapters
<1> HIDE DEF w
<1> QED
  BY <1>1, <1>3, <1>4, <1>6

\* The lines and timers of the adapter that a drive leaves alone.
SameLines(y, z) ==
  /\ y.req = z.req /\ y.data = z.data /\ y.next = z.next
  /\ y.target = z.target /\ y.transfer = z.transfer

SameImages(y, z) == \A id \in Ids : y[id].image = z[id].image /\ y[id].op = z[id].op

Zeros == [k \in 1..SectorBytes |-> Zero]

\* The next sector, if one is to be read, is one of the image's.
Readable(x) ==
  LET drive == x.t[x.s.selected]
  IN x.s.selected \in Loaded /\ drive.op = "read" /\ drive.blocks > 0 => drive.lba \in Lbas

\* y is what x becomes when a sector is fetched.
Fetches(y, x) ==
  LET id    == x.s.selected
      drive == x.t[id]
  IN /\ id \notin Loaded => y.s.buffer = Zeros
     /\ id \in Loaded /\ drive.op = "read" /\ drive.blocks > 0 =>
          /\ y.s.buffer = drive.image[drive.lba]
          /\ y.t[id].lba = drive.lba + 1 /\ y.t[id].blocks = drive.blocks - 1
     /\ id \in Loaded /\ drive.op = "read" /\ drive.blocks = 0 => y.s.buffer = x.s.buffer /\ y.t = x.t

LEMMA IdFacts ==
  /\ Loaded \subseteq Ids /\ Ids \subseteq Targets /\ Targets \subseteq Int /\ Ids \subseteq Int
  /\ 0..4 \subseteq Targets /\ 0 \in Targets
BY ScsiAssumption DEF Targets

LEMMA TripleOf ==
  ASSUME NEW a \in Int, NEW b \in Int, NEW c \in Int
  PROVE  <<a, b, c>> \in Triples /\ <<a, b, c>>[1] = a /\ <<a, b, c>>[2] = b
BY DEF Triples

LEMMA ZeroBuffers == Zeros \in Buffers /\ Zero \in Triples
BY DEF Zeros, Buffers, Zero, Triples

\* A drive after a sector.
NextSector(drive) == [drive EXCEPT !.lba = @ + 1, !.blocks = @ - 1]

LEMMA NextSectorFields ==
  ASSUME NEW drive \in Drives, drive.blocks > 0
  PROVE  LET next == NextSector(drive)
         IN /\ next \in Drives /\ next.image = drive.image /\ next.op = drive.op
            /\ next.lba = drive.lba + 1 /\ next.blocks = drive.blocks - 1
<1>1. drive.blocks - 1 \in Nat /\ drive.lba + 1 \in Nat
  BY DEF Drives
<1> QED
  BY <1>1 DEF NextSector, Drives

Put(b, k, v) == [b EXCEPT ![k] = v]

LEMMA PutFields ==
  ASSUME NEW b \in Buffers, NEW k \in 1..SectorBytes, NEW v \in Triples
  PROVE  /\ Put(b, k, v) \in Buffers
         /\ Put(b, k, v)[k] = v
         /\ \A j \in 1..SectorBytes : j # k => Put(b, k, v)[j] = b[j]
BY DEF Put, Buffers

LEMMA SetBuffer ==
  ASSUME NEW x \in Xs, NEW b \in Buffers
  PROVE  LET y == [x EXCEPT !.s.buffer = b]
         IN /\ y \in Xs /\ y.d = x.d /\ y.t = x.t /\ y.s.buffer = b
            /\ SameBus(y.s, x.s) /\ SameLines(y.s, x.s)
            /\ y.s.command = x.s.command /\ y.s.length = x.s.length /\ y.s.index = x.s.index
<1>1. x.s \in Adapters
  BY DEF Xs
<1>2. [x.s EXCEPT !.buffer = b] \in Adapters
  BY <1>1 DEF Adapters
<1> QED
  BY <1>1, <1>2 DEF Xs, SameBus, SameLines, Adapters

LEMMA ReadDataFields ==
  ASSUME NEW x \in Xs, x.s.selected \in Ids, Readable(x)
  PROVE  LET y == ReadData(x)
         IN /\ y \in Xs /\ y.d = x.d /\ SameImages(y.t, x.t) /\ Fetches(y, x)
            /\ SameBus(y.s, x.s) /\ SameLines(y.s, x.s)
            /\ y.s.command = x.s.command /\ y.s.length = x.s.length /\ y.s.index = x.s.index
<1> DEFINE y == ReadData(x)
           id == x.s.selected
           drive == x.t[id]
<1>1. id \in Ids /\ drive \in Drives /\ x.s \in Adapters /\ x.d \in Dmas /\ x.t \in [Ids -> Drives]
  BY DEF Xs
<1>2. CASE id \notin Loaded
  <2>1. y = [x EXCEPT !.s.buffer = Zeros]
    BY <1>2 DEF ReadData, Zeros
  <2> QED
    BY <1>2, <2>1, SetBuffer, ZeroBuffers DEF SameImages, Fetches
<1>3. CASE id \in Loaded /\ drive.op = "inquiry"
  <2> DEFINE b == Put(Zeros, 1, <<-5, id, 0>>)
  <2>1. y = [x EXCEPT !.s.buffer = b]
    BY <1>3 DEF ReadData, Zeros, Put
  <2>2. b \in Buffers
    <3>1. id \in Int
      BY <1>1, IdFacts
    <3>2. <<-5, id, 0>> \in Triples
      BY <3>1, TripleOf
    <3>3. 1 \in 1..SectorBytes
      BY ScsiAssumption
    <3> QED
      BY <3>2, <3>3, ZeroBuffers, PutFields
  <2> HIDE DEF b
  <2> QED
    BY <1>3, <2>1, <2>2, SetBuffer DEF SameImages, Fetches
<1>4. CASE id \in Loaded /\ drive.op = "read" /\ drive.blocks > 0
  <2> DEFINE b == drive.image[drive.lba]
             w == [x EXCEPT !.s.buffer = b]
             next == NextSector(drive)
  <2>1. y = [w EXCEPT !.t[id].lba = @ + 1, !.t[id].blocks = @ - 1]
    BY <1>4 DEF ReadData
  <2>2. b \in Buffers
    BY <1>1, <1>4 DEF Readable, Drives, Images
  <2>3. /\ w \in Xs /\ w.d = x.d /\ w.t = x.t /\ w.s.buffer = b
        /\ SameBus(w.s, x.s) /\ SameLines(w.s, x.s)
        /\ w.s.command = x.s.command /\ w.s.length = x.s.length /\ w.s.index = x.s.index
    BY <2>2, SetBuffer, Zenon
  <2>4. next \in Drives /\ next.image = drive.image /\ next.op = drive.op
        /\ next.lba = drive.lba + 1 /\ next.blocks = drive.blocks - 1
    <3> HIDE DEF drive
    <3> QED
      BY <1>1, <1>4, NextSectorFields
  <2>5. y = [s |-> w.s, d |-> w.d, t |-> [x.t EXCEPT ![id] = next]]
    <3>1. y = [w EXCEPT !.t = [x.t EXCEPT ![id] = next]]
      <4>1. w.t = x.t
        BY <2>3, ZenonT(30)
      <4> HIDE DEF w
      <4> QED
        BY <1>1, <2>1, <4>1, Zenon DEF NextSector
    <3> HIDE DEF w, y, next
    <3> QED
      BY <2>3, <3>1 DEF Xs
  <2>6. y.t \in [Ids -> Drives]
    <3> HIDE DEF next, y
    <3> QED
      BY <1>1, <2>4, <2>5
  <2>7. y \in Xs
    <3> HIDE DEF w, y
    <3> QED
      BY <2>3, <2>5, <2>6 DEF Xs
  <2>8. SameImages(y.t, x.t) /\ y.t[id] = next
    <3> HIDE DEF next, y
    <3> QED
      BY <1>1, <2>4, <2>5 DEF SameImages
  <2>9. Fetches(y, x)
    <3> HIDE DEF next, y, w
    <3> QED
      BY <1>1, <1>4, <2>3, <2>4, <2>5, <2>8 DEF Fetches
  <2>10. y.s = w.s /\ y.d = w.d
    <3> HIDE DEF w, y, next
    <3> QED
      BY <2>5
  <2> HIDE DEF w
  <2> QED
    BY <2>3, <2>7, <2>8, <2>9, <2>10
<1>5. CASE id \in Loaded /\ drive.op # "inquiry" /\ ~(drive.op = "read" /\ drive.blocks > 0)
  <2>1. y = x
    BY <1>5 DEF ReadData
  <2>2. drive.blocks \in Nat
    BY <1>1, SMTT(30) DEF Drives
  <2> QED
    BY <1>5, <2>1, <2>2 DEF SameImages, Fetches, SameBus, SameLines
<1> QED
  BY <1>2, <1>3, <1>4, <1>5

\* The drive takes sectors: it has one to write.
Writes(x) ==
  LET drive == x.t[x.s.selected]
  IN x.s.selected \in Loaded /\ drive.op = "write" /\ drive.blocks > 0

\* y is what x becomes when a buffer b goes to the drive.
Stores(y, x, b) ==
  LET id    == x.s.selected
      drive == x.t[id]
  IN /\ \A i \in Ids : y.t[i].op = x.t[i].op
     /\ \A i \in Ids, l \in Lbas : y.t[i].image[l] # x.t[i].image[l] =>
          Writes(x) /\ i = id /\ l = drive.lba
     /\ Writes(x) => /\ y.t[id].image[drive.lba] = b
                     /\ y.t[id].lba = drive.lba + 1 /\ y.t[id].blocks = drive.blocks - 1

LEMMA StoresSame ==
  ASSUME NEW w, NEW x, NEW y, NEW z, NEW b, y.t = w.t, z.t = x.t, z.s.selected = x.s.selected,
         Stores(w, z, b)
  PROVE  Stores(y, x, b)
BY DEF Stores, Writes

Written1(drive, b) == [NextSector(drive) EXCEPT !.image[drive.lba] = b]

LEMMA Written1Fields ==
  ASSUME NEW drive \in Drives, NEW b \in Buffers, drive.blocks > 0, drive.lba \in Lbas
  PROVE  LET y == Written1(drive, b)
         IN /\ y \in Drives /\ y.op = drive.op
            /\ y.lba = drive.lba + 1 /\ y.blocks = drive.blocks - 1
            /\ y.image[drive.lba] = b
            /\ \A l \in Lbas : l # drive.lba => y.image[l] = drive.image[l]
<1> DEFINE y == Written1(drive, b)
           next == NextSector(drive)
<1>1. /\ next \in Drives /\ next.image = drive.image /\ next.op = drive.op
      /\ next.lba = drive.lba + 1 /\ next.blocks = drive.blocks - 1
  BY NextSectorFields
<1>2. y = [next EXCEPT !.image = [drive.image EXCEPT ![drive.lba] = b]]
  <2>1. y = [next EXCEPT !.image[drive.lba] = b]
    BY DEF Written1
  <2> HIDE DEF y, next
  <2> QED
    BY <1>1, <2>1
<1>3. [drive.image EXCEPT ![drive.lba] = b] \in Images
  BY DEF Drives, Images
<1>4. PICK m : m = [drive.image EXCEPT ![drive.lba] = b]
  OBVIOUS
<1>5. m[drive.lba] = b /\ \A l \in Lbas : l # drive.lba => m[l] = drive.image[l]
  BY <1>4 DEF Drives, Images
<1>6. y = [next EXCEPT !.image = m] /\ m \in Images
  BY <1>2, <1>3, <1>4
<1>7. y \in Drives /\ y.op = next.op /\ y.lba = next.lba /\ y.blocks = next.blocks /\ y.image = m
  <2> HIDE DEF y, next
  <2> QED
    BY <1>1, <1>6 DEF Drives
<1> HIDE DEF next
<1> QED
  BY <1>1, <1>5, <1>7

LEMMA WriteDataFields ==
  ASSUME NEW x \in Xs, x.s.selected \in Ids,
         Writes(x) => x.t[x.s.selected].lba \in Lbas
  PROVE  LET y == WriteData(x)
         IN /\ y \in Xs /\ y.d = x.d /\ y.s = x.s /\ Stores(y, x, x.s.buffer)
            /\ ~Writes(x) => y.t = x.t
<1> DEFINE y == WriteData(x)
           id == x.s.selected
           drive == x.t[id]
           done == Written1(drive, x.s.buffer)
<1>1. id \in Ids /\ drive \in Drives /\ x.s \in Adapters /\ x.d \in Dmas /\ x.t \in [Ids -> Drives]
  BY DEF Xs
<1>2. CASE Writes(x)
  <2>1. drive.blocks > 0 /\ drive.lba \in Lbas /\ x.s.buffer \in Buffers
    BY <1>1, <1>2 DEF Writes, Adapters
  <2>2. /\ done \in Drives /\ done.op = drive.op
        /\ done.lba = drive.lba + 1 /\ done.blocks = drive.blocks - 1
        /\ done.image[drive.lba] = x.s.buffer
        /\ \A l \in Lbas : l # drive.lba => done.image[l] = drive.image[l]
    <3> HIDE DEF drive
    <3> QED
      BY <1>1, <2>1, Written1Fields
  <2>3. y = [x EXCEPT !.t[id] = done]
    <3>1. y = [x EXCEPT !.t[id].image[drive.lba] = x.s.buffer,
                        !.t[id].lba = @ + 1, !.t[id].blocks = @ - 1]
      BY <1>2 DEF WriteData, Writes
    <3>2. done = [drive EXCEPT !.image[drive.lba] = x.s.buffer, !.lba = @ + 1, !.blocks = @ - 1]
      <4> HIDE DEF drive
      <4> QED
        BY <1>1 DEF Written1, NextSector, Drives
    <3>3. done = [[[drive EXCEPT !.image[drive.lba] = x.s.buffer] EXCEPT !.lba = drive.lba + 1]
                    EXCEPT !.blocks = drive.blocks - 1]
      <4> HIDE DEF drive, done
      <4> QED
        BY <1>1, <3>2 DEF Drives
    <3> HIDE DEF y, done
    <3>4. PICK w1 : w1 = [x EXCEPT !.t[id].image[drive.lba] = x.s.buffer]
      OBVIOUS
    <3>5. PICK d1 : d1 = [drive EXCEPT !.image[drive.lba] = x.s.buffer]
      OBVIOUS
    <3>6. w1 = [x EXCEPT !.t[id] = d1]
      BY <1>1, <3>4, <3>5
    <3>7. y = [w1 EXCEPT !.t[id].lba = drive.lba + 1, !.t[id].blocks = drive.blocks - 1]
      BY <3>1, <3>4, Zenon
    <3>8. d1.lba = drive.lba /\ d1.blocks = drive.blocks /\ done = [d1 EXCEPT !.lba = @ + 1, !.blocks = @ - 1]
      <4> HIDE DEF drive
      <4> QED
        BY <1>1, <3>3, <3>5, SMTT(30) DEF Drives
    <3>9. y = [w1 EXCEPT !.t[id] = [d1 EXCEPT !.lba = @ + 1, !.blocks = @ - 1]]
      <4>1. w1.t[id] = d1
        BY <1>1, <3>6 DEF Xs
      <4> QED
        BY <1>1, <3>7, <3>8, <4>1, ZenonT(30)
    <3> QED
      BY <1>1, <3>6, <3>8, <3>9 DEF Xs
  <2>4. y.s = x.s /\ y.d = x.d /\ y.t = [x.t EXCEPT ![id] = done] /\ y \in Xs
    <3> HIDE DEF done, y
    <3> QED
      BY <1>1, <2>2, <2>3 DEF Xs
  <2>5. y.t[id] = done /\ \A i \in Ids : i # id => y.t[i] = x.t[i]
    <3> HIDE DEF done, y
    <3> QED
      BY <1>1, <2>4, SMTT(30)
  <2>6. Stores(y, x, x.s.buffer)
    <3> HIDE DEF done, y
    <3> QED
      BY <1>1, <1>2, <2>2, <2>5 DEF Stores
  <2> QED
    BY <1>2, <2>4, <2>6
<1>3. CASE ~Writes(x)
  <2>1. y = x
    BY <1>3 DEF WriteData, Writes
  <2> QED
    BY <1>3, <2>1 DEF Stores
<1> QED
  BY <1>2, <1>3

-----------------------------------------------------------------------------
(* One byte of a data phase *)

\* What a byte leaves of the DMA controller: its transfer may be cancelled.
Cancels(y, x) == SameDma(y.d, x.d) /\ y.d.timer \subseteq x.d.timer

\* The byte counts, and the last one ends the transfer.
Counts(y, x) ==
  /\ y.s.index = x.s.index + 1
  /\ y.s.index >= y.s.length => ~y.s.transfer /\ y.s.next = "status"
  /\ y.s.index < y.s.length => y.s.transfer = x.s.transfer /\ y.s.next = x.s.next

SameRest(y, x) ==
  /\ SameBus(y.s, x.s) /\ y.s.req = x.s.req /\ y.s.target = x.s.target
  /\ y.s.command = x.s.command /\ y.s.length = x.s.length

LEMMA PlaceInSector ==
  ASSUME NEW i \in Nat
  PROVE  (i % SectorBytes) + 1 \in 1..SectorBytes
BY SectorOf, ScsiAssumption

Taken(x) == [x EXCEPT !.s.data = x.s.buffer[(x.s.index % SectorBytes) + 1], !.s.index = @ + 1]

LEMMA TakenFields ==
  ASSUME NEW x \in Xs
  PROVE  LET y == Taken(x)
         IN /\ y \in Xs /\ y.d = x.d /\ y.t = x.t /\ SameRest(y, x)
            /\ y.s.index = x.s.index + 1 /\ y.s.buffer = x.s.buffer
            /\ y.s.transfer = x.s.transfer /\ y.s.next = x.s.next
            /\ y.s.data = x.s.buffer[(x.s.index % SectorBytes) + 1]
<1> DEFINE v == x.s.buffer[(x.s.index % SectorBytes) + 1]
           z == [x.s EXCEPT !.data = v, !.index = @ + 1]
<1>1. x.s \in Adapters /\ x.s.index \in Nat /\ x.s.buffer \in Buffers
  BY DEF Xs, Adapters
<1>2. v \in Triples
  <2>1. (x.s.index % SectorBytes) + 1 \in 1..SectorBytes
    BY <1>1, PlaceInSector
  <2> QED
    BY <1>1, <2>1 DEF Buffers
<1> HIDE DEF v
<1>3. z \in Adapters /\ z.index = x.s.index + 1 /\ z.data = v
  <2>1. PICK i : i = x.s.index + 1
    OBVIOUS
  <2>2. i \in Nat
    BY <1>1, <2>1
  <2>3. z = [x.s EXCEPT !.data = v, !.index = i]
    BY <2>1
  <2> HIDE DEF z
  <2> QED
    BY <1>1, <1>2, <2>1, <2>2, <2>3 DEF Adapters
<1>4. Taken(x) = [x EXCEPT !.s = z]
  BY DEF Taken, v
<1>5. /\ SameBus(z, x.s) /\ z.req = x.s.req /\ z.target = x.s.target /\ z.command = x.s.command
      /\ z.length = x.s.length /\ z.buffer = x.s.buffer /\ z.transfer = x.s.transfer /\ z.next = x.s.next
  BY <1>1 DEF SameBus, Adapters
<1> HIDE DEF z
<1>6. PICK y : y = Taken(x)
  OBVIOUS
<1>7. y \in Xs /\ y.d = x.d /\ y.t = x.t /\ y.s = z
  BY <1>3, <1>4, <1>6 DEF Xs
<1>8. v = x.s.buffer[(x.s.index % SectorBytes) + 1]
  BY DEF v
<1> QED
  BY <1>3, <1>5, <1>6, <1>7, <1>8 DEF SameRest

LEMMA DataInFields ==
  ASSUME NEW x \in Xs, x.s.selected \in Ids, Readable(x)
  PROVE  LET y == data_in(x)
         IN /\ y \in Xs /\ SameRest(y, x) /\ Counts(y, x) /\ Cancels(y, x)
            /\ SameImages(y.t, x.t)
            /\ y.s.data = x.s.buffer[(x.s.index % SectorBytes) + 1]
            /\ (x.s.index + 1) % SectorBytes # 0 => y.s.buffer = x.s.buffer /\ y.t = x.t
            /\ (x.s.index + 1) % SectorBytes = 0 => Fetches(y, x)
<1>1. PICK taken : taken = Taken(x)
  OBVIOUS
<1>2. /\ taken \in Xs /\ taken.d = x.d /\ taken.t = x.t /\ SameRest(taken, x)
      /\ taken.s.index = x.s.index + 1 /\ taken.s.buffer = x.s.buffer
      /\ taken.s.transfer = x.s.transfer /\ taken.s.next = x.s.next
      /\ taken.s.data = x.s.buffer[(x.s.index % SectorBytes) + 1]
  BY <1>1, TakenFields
<1>3. PICK next : next = IF taken.s.index % SectorBytes = 0 THEN ReadData(taken) ELSE taken
  OBVIOUS
<1>4. taken.s.selected = x.s.selected /\ Readable(taken)
  BY <1>2 DEF SameRest, SameBus, Readable
<1>5. /\ next \in Xs /\ next.d = x.d /\ SameImages(next.t, x.t) /\ SameRest(next, x)
      /\ next.s.index = x.s.index + 1 /\ next.s.data = taken.s.data
      /\ next.s.transfer = x.s.transfer /\ next.s.next = x.s.next
      /\ (x.s.index + 1) % SectorBytes # 0 => next.s.buffer = x.s.buffer /\ next.t = x.t
      /\ (x.s.index + 1) % SectorBytes = 0 => Fetches(next, x)
  <2>1. CASE (x.s.index + 1) % SectorBytes # 0
    <3>1. next = taken
      BY <1>2, <1>3, <2>1
    <3> QED
      BY <1>2, <2>1, <3>1 DEF SameImages
  <2>2. CASE (x.s.index + 1) % SectorBytes = 0
    <3>1. next = ReadData(taken)
      BY <1>2, <1>3, <2>2
    <3>2. /\ next \in Xs /\ next.d = taken.d /\ SameImages(next.t, taken.t) /\ Fetches(next, taken)
          /\ SameBus(next.s, taken.s) /\ SameLines(next.s, taken.s)
          /\ next.s.command = taken.s.command /\ next.s.length = taken.s.length
          /\ next.s.index = taken.s.index
      BY <1>2, <1>4, <3>1, ReadDataFields
    <3>3. Fetches(next, x)
      BY <1>2, <1>4, <3>2 DEF Fetches
    <3> QED
      BY <1>2, <2>2, <3>2, <3>3 DEF SameRest, SameBus, SameLines
  <2> QED
    BY <2>1, <2>2
<1>6. data_in(x) = IF next.s.index >= next.s.length THEN stop_transfer(next) ELSE next
  <2>1. data_in(x) = LET a == Taken(x)
                         b == IF a.s.index % SectorBytes = 0 THEN ReadData(a) ELSE a
                     IN IF b.s.index >= b.s.length THEN stop_transfer(b) ELSE b
    BY DEF data_in, Taken
  <2> QED
    BY <1>1, <1>3, <2>1
<1>7. next.s.index \in Nat /\ next.s.length \in Nat
  BY <1>5 DEF Xs, Adapters
<1>8. PICK y : y = data_in(x)
  OBVIOUS
<1>9. CASE next.s.index >= next.s.length
  <2>1. y = stop_transfer(next)
    BY <1>6, <1>8, <1>9
  <2>2. /\ y \in Xs /\ y.t = next.t
        /\ SameBus(y.s, next.s) /\ SameData(y.s, next.s)
        /\ y.s.req = next.s.req /\ y.s.data = next.s.data /\ y.s.next = "status"
        /\ y.s.target = next.s.target /\ ~y.s.transfer
        /\ SameDma(y.d, next.d)
        /\ y.d.timer \subseteq next.d.timer
    BY <1>5, <2>1, StopFields
  <2>3. SameRest(y, x)
    BY <1>5, <2>2 DEF SameRest, SameBus, SameData
  <2>4. Counts(y, x) /\ Cancels(y, x)
    BY <1>5, <1>7, <1>9, <2>2 DEF Counts, Cancels, SameData
  <2>5. (x.s.index + 1) % SectorBytes = 0 => Fetches(y, x)
    BY <1>5, <2>2 DEF Fetches, SameData
  <2> QED
    BY <1>2, <1>5, <1>8, <2>2, <2>3, <2>4, <2>5 DEF SameData
<1>10. CASE ~(next.s.index >= next.s.length)
  <2>1. y = next
    BY <1>6, <1>8, <1>10
  <2>2. Counts(y, x) /\ Cancels(y, x)
    BY <1>5, <1>7, <1>10, <2>1 DEF Counts, Cancels, SameDma
  <2> QED
    BY <1>2, <1>5, <1>8, <2>1, <2>2
<1> QED
  BY <1>9, <1>10

Placed(x, byte) ==
  [x EXCEPT !.s.buffer[(x.s.index % SectorBytes) + 1] = byte, !.s.index = @ + 1]

LEMMA PlacedFields ==
  ASSUME NEW x \in Xs, NEW byte \in Triples
  PROVE  LET y == Placed(x, byte)
         IN /\ y \in Xs /\ y.d = x.d /\ y.t = x.t /\ SameRest(y, x)
            /\ y.s.index = x.s.index + 1
            /\ y.s.buffer = Put(x.s.buffer, (x.s.index % SectorBytes) + 1, byte)
            /\ y.s.transfer = x.s.transfer /\ y.s.next = x.s.next
<1>1. x.s \in Adapters /\ x.s.index \in Nat /\ x.s.buffer \in Buffers
  BY DEF Xs, Adapters
<1>2. PICK k : k = (x.s.index % SectorBytes) + 1
  OBVIOUS
<1>3. k \in 1..SectorBytes
  BY <1>1, <1>2, PlaceInSector
<1>4. PICK b : b = Put(x.s.buffer, k, byte)
  OBVIOUS
<1>5. b \in Buffers
  BY <1>1, <1>3, <1>4, PutFields
<1>6. PICK i : i = x.s.index + 1
  OBVIOUS
<1>7. i \in Nat
  BY <1>1, <1>6
<1>8. PICK z : z = [x.s EXCEPT !.buffer = b, !.index = i]
  OBVIOUS
<1>9. z \in Adapters /\ z.index = i /\ z.buffer = b
  BY <1>1, <1>5, <1>7, <1>8 DEF Adapters
<1>10. /\ SameBus(z, x.s) /\ z.req = x.s.req /\ z.target = x.s.target /\ z.command = x.s.command
       /\ z.length = x.s.length /\ z.transfer = x.s.transfer /\ z.next = x.s.next
  BY <1>1, <1>8 DEF SameBus, Adapters
<1>11. PICK y : y = Placed(x, byte)
  OBVIOUS
<1>12. y = [x EXCEPT !.s = z]
  <2>1. y = [x EXCEPT !.s.buffer[k] = byte, !.s.index = i]
    BY <1>2, <1>6, <1>11 DEF Placed
  <2> QED
    BY <1>4, <1>8, <2>1 DEF Put
<1>13. y \in Xs /\ y.d = x.d /\ y.t = x.t /\ y.s = z
  BY <1>9, <1>12 DEF Xs
<1> QED
  BY <1>2, <1>4, <1>6, <1>9, <1>10, <1>11, <1>13 DEF SameRest

LEMMA DataOutFields ==
  ASSUME NEW x \in Xs, NEW byte \in Triples, x.s.selected \in Ids,
         Writes(x) => x.t[x.s.selected].lba \in Lbas
  PROVE  LET y == data_out(x, byte)
         IN /\ y \in Xs /\ SameRest(y, x) /\ Counts(y, x) /\ Cancels(y, x)
            /\ y.s.data = x.s.data
            /\ y.s.buffer = Put(x.s.buffer, (x.s.index % SectorBytes) + 1, byte)
            /\ (x.s.index + 1) % SectorBytes # 0 \/ ~Writes(x) => y.t = x.t
            /\ (x.s.index + 1) % SectorBytes = 0 => Stores(y, x, y.s.buffer)
<1>1. PICK put : put = Placed(x, byte)
  OBVIOUS
<1>2. PICK b : b = Put(x.s.buffer, (x.s.index % SectorBytes) + 1, byte)
  OBVIOUS
<1>3. /\ put \in Xs /\ put.d = x.d /\ put.t = x.t /\ SameRest(put, x)
      /\ put.s.index = x.s.index + 1 /\ put.s.buffer = b
      /\ put.s.transfer = x.s.transfer /\ put.s.next = x.s.next
  BY <1>1, <1>2, PlacedFields
<1>4. put.s.data = x.s.data
  BY <1>1 DEF Placed, Xs, Adapters
<1>5. PICK out : out = IF put.s.index % SectorBytes = 0 THEN WriteData(put) ELSE put
  OBVIOUS
<1>6. put.s.selected = x.s.selected /\ (Writes(put) <=> Writes(x))
  BY <1>3 DEF SameRest, SameBus, Writes
<1>7. /\ out \in Xs /\ out.d = x.d /\ out.s = put.s
      /\ (x.s.index + 1) % SectorBytes # 0 \/ ~Writes(x) => out.t = x.t
      /\ (x.s.index + 1) % SectorBytes = 0 => Stores(out, x, b)
  <2>1. CASE (x.s.index + 1) % SectorBytes # 0
    BY <1>3, <1>5, <2>1
  <2>2. CASE (x.s.index + 1) % SectorBytes = 0
    <3>1. out = WriteData(put)
      BY <1>3, <1>5, <2>2
    <3>2. /\ out \in Xs /\ out.d = put.d /\ out.s = put.s /\ Stores(out, put, b)
          /\ ~Writes(put) => out.t = put.t
      BY <1>3, <1>6, <3>1, WriteDataFields
    <3>3. Stores(out, x, b)
      BY <1>3, <1>6, <3>2, StoresSame
    <3> QED
      BY <1>3, <1>6, <2>2, <3>2, <3>3
  <2> QED
    BY <2>1, <2>2
<1>8. data_out(x, byte) = IF out.s.index >= out.s.length THEN stop_transfer(out) ELSE out
  <2>1. data_out(x, byte) = LET e == Placed(x, byte)
                                f == IF e.s.index % SectorBytes = 0 THEN WriteData(e) ELSE e
                            IN IF f.s.index >= f.s.length THEN stop_transfer(f) ELSE f
    BY DEF data_out, Placed
  <2> QED
    BY <1>1, <1>5, <2>1
<1>9. out.s.index \in Nat /\ out.s.length \in Nat
  BY <1>7 DEF Xs, Adapters
<1>10. PICK y : y = data_out(x, byte)
  OBVIOUS
<1>11. CASE out.s.index >= out.s.length
  <2>1. y = stop_transfer(out)
    BY <1>8, <1>10, <1>11
  <2>2. /\ y \in Xs /\ y.t = out.t
        /\ SameBus(y.s, out.s) /\ SameData(y.s, out.s)
        /\ y.s.req = out.s.req /\ y.s.data = out.s.data /\ y.s.next = "status"
        /\ y.s.target = out.s.target /\ ~y.s.transfer
        /\ SameDma(y.d, out.d)
        /\ y.d.timer \subseteq out.d.timer
    BY <1>7, <2>1, StopFields
  <2>3. SameRest(y, x)
    BY <1>3, <1>7, <2>2 DEF SameRest, SameBus, SameData
  <2>4. Counts(y, x) /\ Cancels(y, x)
    BY <1>3, <1>7, <1>9, <1>11, <2>2 DEF Counts, Cancels, SameData
  <2>5. (x.s.index + 1) % SectorBytes = 0 => Stores(y, x, b)
    BY <1>7, <2>2, StoresSame
  <2> QED
    BY <1>2, <1>3, <1>4, <1>7, <1>10, <2>2, <2>3, <2>4, <2>5 DEF SameData
<1>12. CASE ~(out.s.index >= out.s.length)
  <2>1. y = out
    BY <1>8, <1>10, <1>12
  <2>2. Counts(y, x) /\ Cancels(y, x)
    BY <1>3, <1>7, <1>9, <1>12, <2>1 DEF Counts, Cancels, SameDma
  <2>3. SameRest(y, x)
    BY <1>3, <1>7, <2>1 DEF SameRest
  <2> QED
    BY <1>2, <1>3, <1>4, <1>7, <1>10, <2>1, <2>2, <2>3
<1> QED
  BY <1>11, <1>12

-----------------------------------------------------------------------------
(* The data register *)

\* The rest of the adapter, when no data move.
SameXfer(y, x) ==
  /\ SameBus(y.s, x.s) /\ y.s.transfer = x.s.transfer /\ y.s.length = x.s.length
  /\ y.s.index = x.s.index /\ y.s.buffer = x.s.buffer /\ y.d = x.d

LEMMA AckFields ==
  ASSUME NEW x \in Xs
  PROVE  LET y == set_req(x, FALSE)
         IN /\ y \in Xs /\ SameXfer(y, x) /\ y.t = x.t /\ ~y.s.req
            /\ y.s.data = x.s.data /\ y.s.next = x.s.next
            /\ y.s.target = x.s.target /\ y.s.command = x.s.command
BY ReqFields DEF SameXfer, SameData

Ended(x, v, p) == [x EXCEPT !.s.data = v, !.s.next = p, !.s.command = <<>>]

LEMMA EndedFields ==
  ASSUME NEW x \in Xs, NEW v \in Triples, NEW p \in Phases
  PROVE  LET y == Ended(x, v, p)
         IN /\ y \in Xs /\ SameXfer(y, x) /\ y.t = x.t /\ y.s.req = x.s.req
            /\ y.s.data = v /\ y.s.next = p /\ y.s.command = <<>> /\ y.s.target = x.s.target
<1>1. x.s \in Adapters
  BY DEF Xs
<1>2. PICK z, e : e = <<>> /\ z = [x.s EXCEPT !.data = v, !.next = p, !.command = e]
  OBVIOUS
<1>3. z \in Adapters
  <2>1. e \in Seq(Triples) /\ p \in Phases \cup {"none"}
    BY <1>2
  <2> QED
    BY <1>1, <1>2, <2>1 DEF Adapters
<1>4. /\ SameBus(z, x.s) /\ z.transfer = x.s.transfer /\ z.length = x.s.length /\ z.index = x.s.index
      /\ z.buffer = x.s.buffer /\ z.req = x.s.req
      /\ z.data = v /\ z.next = p /\ z.command = <<>> /\ z.target = x.s.target
  BY <1>1, <1>2 DEF SameBus, Adapters
<1>5. PICK y : y = Ended(x, v, p)
  OBVIOUS
<1>6. y = [x EXCEPT !.s = z]
  BY <1>2, <1>5 DEF Ended
<1>7. y \in Xs /\ y.d = x.d /\ y.t = x.t /\ y.s = z
  BY <1>3, <1>6 DEF Xs
<1> QED
  BY <1>4, <1>5, <1>7 DEF SameXfer

\* Reads outside the data phases.
LEMMA ReadEndFields ==
  ASSUME NEW x \in Xs, x.s.phase \in {"status", "message_in"}
  PROVE  LET y == fmscsi_data_r(x)
         IN /\ y \in Xs /\ SameXfer(y, x) /\ y.t = x.t /\ ~y.s.req
            /\ y.s.command = <<>> /\ y.s.target = x.s.target
            /\ x.s.phase = "status" => y.s.next = "message_in"
            /\ x.s.phase = "message_in" => y.s.next = "bus_free"
            /\ x.s.phase = "status" =>
                 y.s.data = <<-2, IF x.s.selected \in Ids \ Loaded THEN 2 ELSE 0, 0>>
<1>1. PICK a : a = set_req(x, FALSE)
  OBVIOUS
<1>2. /\ a \in Xs /\ SameXfer(a, x) /\ a.t = x.t /\ ~a.s.req /\ a.s.target = x.s.target
  BY <1>1, AckFields
<1>3. CASE x.s.phase = "status"
  <2>1. PICK v : v = <<-2, IF x.s.selected \in Ids \ Loaded THEN 2 ELSE 0, 0>>
    OBVIOUS
  <2>2. v \in Triples
    BY <2>1, TripleOf
  <2>3. PICK y : y = fmscsi_data_r(x)
    OBVIOUS
  <2>4. y = Ended(a, v, "message_in")
    BY <1>1, <1>3, <2>1, <2>3 DEF fmscsi_data_r, Ended
  <2>5. "message_in" \in Phases
    BY DEF Phases
  <2>6. /\ y \in Xs /\ SameXfer(y, a) /\ y.t = a.t /\ y.s.req = a.s.req
        /\ y.s.data = v /\ y.s.next = "message_in" /\ y.s.command = <<>> /\ y.s.target = a.s.target
    BY <1>2, <2>2, <2>4, <2>5, EndedFields
  <2>7. SameXfer(y, x)
    BY <1>2, <2>6 DEF SameXfer, SameBus
  <2> QED
    BY <1>2, <1>3, <2>1, <2>3, <2>6, <2>7
<1>4. CASE x.s.phase = "message_in"
  <2>3. PICK y : y = fmscsi_data_r(x)
    OBVIOUS
  <2>4. y = Ended(a, Zero, "bus_free")
    BY <1>1, <1>4, <2>3 DEF fmscsi_data_r, Ended
  <2>5. "bus_free" \in Phases /\ Zero \in Triples
    BY ZeroBuffers DEF Phases
  <2>6. /\ y \in Xs /\ SameXfer(y, a) /\ y.t = a.t /\ y.s.req = a.s.req
        /\ y.s.next = "bus_free" /\ y.s.command = <<>> /\ y.s.target = a.s.target
    BY <1>2, <2>4, <2>5, EndedFields
  <2>7. SameXfer(y, x)
    BY <1>2, <2>6 DEF SameXfer, SameBus
  <2> QED
    BY <1>2, <1>4, <2>3, <2>6, <2>7
<1> QED
  BY <1>3, <1>4

LEMMA ReadIdleFields ==
  ASSUME NEW x \in Xs, x.s.phase = "bus_free"
  PROVE  LET y == fmscsi_data_r(x)
         IN /\ y \in Xs /\ SameXfer(y, x) /\ y.t = x.t /\ ~y.s.req
            /\ y.s.data = x.s.data /\ y.s.next = x.s.next
            /\ y.s.target = x.s.target /\ y.s.command = x.s.command
BY AckFields DEF fmscsi_data_r

\* A read in phase DATA IN.
LEMMA ReadInFields ==
  ASSUME NEW x \in Xs, x.s.phase = "datain", x.s.selected \in Ids, Readable(x)
  PROVE  LET y == fmscsi_data_r(x)
         IN /\ y \in Xs /\ Counts(y, x) /\ Cancels(y, x) /\ SameBus(y.s, x.s) /\ ~y.s.req
            /\ y.s.command = x.s.command /\ y.s.length = x.s.length /\ y.s.target = x.s.target
            /\ SameImages(y.t, x.t)
            /\ y.s.data = x.s.buffer[(x.s.index % SectorBytes) + 1]
            /\ (x.s.index + 1) % SectorBytes # 0 => y.s.buffer = x.s.buffer /\ y.t = x.t
            /\ (x.s.index + 1) % SectorBytes = 0 => Fetches(y, x)
<1>1. PICK a : a = set_req(x, FALSE)
  OBVIOUS
<1>2. /\ a \in Xs /\ SameXfer(a, x) /\ a.t = x.t /\ ~a.s.req
      /\ a.s.next = x.s.next /\ a.s.target = x.s.target /\ a.s.command = x.s.command
  BY <1>1, AckFields
<1>3. a.s.selected = x.s.selected /\ a.s.selected \in Ids /\ Readable(a)
  BY <1>2 DEF SameXfer, SameBus, Readable
<1>4. PICK y : y = fmscsi_data_r(x)
  OBVIOUS
<1>5. y = data_in(a)
  BY <1>1, <1>4 DEF fmscsi_data_r
<1>6. /\ y \in Xs /\ SameRest(y, a) /\ Counts(y, a) /\ Cancels(y, a)
      /\ SameImages(y.t, a.t)
      /\ y.s.data = a.s.buffer[(a.s.index % SectorBytes) + 1]
      /\ (a.s.index + 1) % SectorBytes # 0 => y.s.buffer = a.s.buffer /\ y.t = a.t
      /\ (a.s.index + 1) % SectorBytes = 0 => Fetches(y, a)
  BY <1>2, <1>3, <1>5, DataInFields
<1>7. a.s.index = x.s.index /\ a.s.buffer = x.s.buffer /\ a.d = x.d /\ a.s.transfer = x.s.transfer
      /\ SameBus(a.s, x.s) /\ a.s.length = x.s.length
  BY <1>2 DEF SameXfer
<1>8. SameBus(y.s, x.s) /\ ~y.s.req /\ y.s.command = x.s.command /\ y.s.length = x.s.length
      /\ y.s.target = x.s.target
  BY <1>2, <1>6, <1>7 DEF SameRest, SameBus
<1>9. Counts(y, x) /\ Cancels(y, x)
  BY <1>2, <1>6, <1>7 DEF Counts, Cancels
<1>10. Fetches(y, a) => Fetches(y, x)
  BY <1>2, <1>3, <1>7 DEF Fetches
<1> QED
  BY <1>2, <1>4, <1>6, <1>7, <1>8, <1>9, <1>10

\* A write puts the byte on the bus and lowers REQ.
Given(x, byte) == set_req([x EXCEPT !.s.data = byte], FALSE)

LEMMA GivenFields ==
  ASSUME NEW x \in Xs, NEW byte \in Triples
  PROVE  LET y == Given(x, byte)
         IN /\ y \in Xs /\ SameXfer(y, x) /\ y.t = x.t /\ ~y.s.req
            /\ y.s.next = x.s.next /\ y.s.target = x.s.target /\ y.s.command = x.s.command
<1>1. x.s \in Adapters
  BY DEF Xs
<1>2. PICK z : z = [x.s EXCEPT !.data = byte]
  OBVIOUS
<1>3. z \in Adapters
  BY <1>1, <1>2 DEF Adapters
<1>4. /\ SameBus(z, x.s) /\ z.transfer = x.s.transfer /\ z.length = x.s.length /\ z.index = x.s.index
      /\ z.buffer = x.s.buffer /\ z.next = x.s.next /\ z.command = x.s.command /\ z.target = x.s.target
  BY <1>1, <1>2 DEF SameBus, Adapters
<1>5. PICK w : w = [x EXCEPT !.s.data = byte]
  OBVIOUS
<1>6. w = [x EXCEPT !.s = z]
  BY <1>2, <1>5
<1>7. w \in Xs /\ w.d = x.d /\ w.t = x.t /\ w.s = z
  BY <1>3, <1>6 DEF Xs
<1>8. PICK y : y = Given(x, byte)
  OBVIOUS
<1>9. y = set_req(w, FALSE)
  BY <1>5, <1>8 DEF Given
<1>10. /\ y \in Xs /\ SameXfer(y, w) /\ y.t = w.t /\ ~y.s.req
       /\ y.s.next = w.s.next /\ y.s.target = w.s.target /\ y.s.command = w.s.command
  BY <1>7, <1>9, AckFields
<1>11. SameXfer(y, x)
  BY <1>4, <1>7, <1>10 DEF SameXfer, SameBus
<1> QED
  BY <1>4, <1>7, <1>8, <1>10, <1>11

\* A single field of the adapter is set.
LEMMA SetTarget ==
  ASSUME NEW x \in Xs, NEW v \in Targets
  PROVE  LET y == [x EXCEPT !.s.target = v]
         IN /\ y \in Xs /\ SameXfer(y, x) /\ y.t = x.t /\ y.s.req = x.s.req
            /\ y.s.next = x.s.next /\ y.s.command = x.s.command /\ y.s.target = v
<1>1. x.s \in Adapters
  BY DEF Xs
<1>2. PICK z : z = [x.s EXCEPT !.target = v]
  OBVIOUS
<1>3. z \in Adapters
  BY <1>1, <1>2 DEF Adapters
<1>4. /\ SameBus(z, x.s) /\ z.transfer = x.s.transfer /\ z.length = x.s.length /\ z.index = x.s.index
      /\ z.buffer = x.s.buffer /\ z.next = x.s.next /\ z.command = x.s.command /\ z.target = v
      /\ z.req = x.s.req
  BY <1>1, <1>2 DEF SameBus, Adapters
<1>5. PICK y : y = [x EXCEPT !.s.target = v]
  OBVIOUS
<1>6. y = [x EXCEPT !.s = z]
  BY <1>2, <1>5
<1>7. y \in Xs /\ y.d = x.d /\ y.t = x.t /\ y.s = z
  BY <1>3, <1>6 DEF Xs
<1> QED
  BY <1>4, <1>5, <1>7 DEF SameXfer

SetNext(x, p) == [x EXCEPT !.s.next = p]

LEMMA SetNextFields ==
  ASSUME NEW x \in Xs, NEW p \in Phases \cup {"none"}
  PROVE  LET y == SetNext(x, p)
         IN /\ y \in Xs /\ SameXfer(y, x) /\ y.t = x.t /\ y.s.req = x.s.req
            /\ y.s.next = p /\ y.s.command = x.s.command /\ y.s.target = x.s.target
<1>1. x.s \in Adapters
  BY DEF Xs
<1>2. PICK z : z = [x.s EXCEPT !.next = p]
  OBVIOUS
<1>3. z \in Adapters
  BY <1>1, <1>2 DEF Adapters
<1>4. /\ SameBus(z, x.s) /\ z.transfer = x.s.transfer /\ z.length = x.s.length /\ z.index = x.s.index
      /\ z.buffer = x.s.buffer /\ z.next = p /\ z.command = x.s.command /\ z.target = x.s.target
      /\ z.req = x.s.req
  BY <1>1, <1>2 DEF SameBus, Adapters
<1>5. PICK y : y = SetNext(x, p)
  OBVIOUS
<1>6. y = [x EXCEPT !.s = z]
  BY <1>2, <1>5 DEF SetNext
<1>7. y \in Xs /\ y.d = x.d /\ y.t = x.t /\ y.s = z
  BY <1>3, <1>6 DEF Xs
<1> QED
  BY <1>4, <1>5, <1>7 DEF SameXfer

LEMMA WriteIdFields ==
  ASSUME NEW x \in Xs, NEW byte \in Triples, x.s.phase = "bus_free",
         byte[1] = -3 => byte[2] \in 0..4
  PROVE  LET y == fmscsi_data_w(x, byte)
         IN /\ y \in Xs /\ SameXfer(y, x) /\ y.t = x.t /\ ~y.s.req
            /\ y.s.next = x.s.next /\ y.s.command = x.s.command
            /\ y.s.target = IF byte[1] = -3 THEN byte[2] ELSE x.s.target
<1>1. PICK a : a = Given(x, byte)
  OBVIOUS
<1>2. /\ a \in Xs /\ SameXfer(a, x) /\ a.t = x.t /\ ~a.s.req
      /\ a.s.next = x.s.next /\ a.s.target = x.s.target /\ a.s.command = x.s.command
  BY <1>1, GivenFields
<1>3. PICK v : v = IF byte[1] = -3 THEN byte[2] ELSE a.s.target
  OBVIOUS
<1>4. v \in Targets
  BY <1>2, <1>3, IdFacts DEF Xs, Adapters
<1>5. PICK y : y = fmscsi_data_w(x, byte)
  OBVIOUS
<1>6. y = [a EXCEPT !.s.target = v]
  <2>1. byte[1] = -3 => byte[2] <= 4
    OBVIOUS
  <2>2. y = [a EXCEPT !.s.target = IF byte[1] = -3 /\ byte[2] <= 4 THEN byte[2] ELSE @]
    BY <1>1, <1>5 DEF fmscsi_data_w, Given
  <2> QED
    BY <1>3, <2>1, <2>2
<1>7. /\ y \in Xs /\ SameXfer(y, a) /\ y.t = a.t /\ y.s.req = a.s.req
      /\ y.s.next = a.s.next /\ y.s.command = a.s.command /\ y.s.target = v
  BY <1>2, <1>4, <1>6, SetTarget, Zenon
<1>8. SameXfer(y, x)
  BY <1>2, <1>7 DEF SameXfer, SameBus
<1> QED
  BY <1>2, <1>3, <1>5, <1>7, <1>8

LEMMA WriteMessageFields ==
  ASSUME NEW x \in Xs, NEW byte \in Triples, x.s.phase = "message_out"
  PROVE  LET y == fmscsi_data_w(x, byte)
         IN /\ y \in Xs /\ SameXfer(y, x) /\ y.t = x.t /\ ~y.s.req
            /\ y.s.next = "status" /\ y.s.command = x.s.command /\ y.s.target = x.s.target
<1>1. PICK a : a = Given(x, byte)
  OBVIOUS
<1>2. /\ a \in Xs /\ SameXfer(a, x) /\ a.t = x.t /\ ~a.s.req
      /\ a.s.target = x.s.target /\ a.s.command = x.s.command
  BY <1>1, GivenFields
<1>3. PICK y : y = fmscsi_data_w(x, byte)
  OBVIOUS
<1>4. y = SetNext(a, "status")
  BY <1>1, <1>3 DEF fmscsi_data_w, Given, SetNext
<1>5. "status" \in Phases \cup {"none"}
  BY DEF Phases
<1>6. /\ y \in Xs /\ SameXfer(y, a) /\ y.t = a.t /\ y.s.req = a.s.req
      /\ y.s.next = "status" /\ y.s.command = a.s.command /\ y.s.target = a.s.target
  BY <1>2, <1>4, <1>5, SetNextFields
<1>7. SameXfer(y, x)
  BY <1>2, <1>6 DEF SameXfer, SameBus
<1> QED
  BY <1>2, <1>3, <1>6, <1>7

\* A write in phase DATA OUT.
LEMMA WriteOutFields ==
  ASSUME NEW x \in Xs, NEW byte \in Triples, x.s.phase = "dataout", x.s.selected \in Ids,
         Writes(x) => x.t[x.s.selected].lba \in Lbas
  PROVE  LET y == fmscsi_data_w(x, byte)
         IN /\ y \in Xs /\ Counts(y, x) /\ Cancels(y, x) /\ SameBus(y.s, x.s) /\ ~y.s.req
            /\ y.s.command = x.s.command /\ y.s.length = x.s.length /\ y.s.target = x.s.target
            /\ y.s.buffer = Put(x.s.buffer, (x.s.index % SectorBytes) + 1, byte)
            /\ (x.s.index + 1) % SectorBytes # 0 \/ ~Writes(x) => y.t = x.t
            /\ (x.s.index + 1) % SectorBytes = 0 => Stores(y, x, y.s.buffer)
<1>1. PICK a : a = Given(x, byte)
  OBVIOUS
<1>2. /\ a \in Xs /\ SameXfer(a, x) /\ a.t = x.t /\ ~a.s.req
      /\ a.s.next = x.s.next /\ a.s.target = x.s.target /\ a.s.command = x.s.command
  BY <1>1, GivenFields
<1>3. a.s.selected = x.s.selected /\ (Writes(a) <=> Writes(x))
  BY <1>2 DEF SameXfer, SameBus, Writes
<1>4. PICK y : y = fmscsi_data_w(x, byte)
  OBVIOUS
<1>5. y = data_out(a, byte)
  BY <1>1, <1>4 DEF fmscsi_data_w, Given
<1>6. a.s.index = x.s.index /\ a.s.buffer = x.s.buffer /\ a.d = x.d /\ a.s.transfer = x.s.transfer
      /\ SameBus(a.s, x.s) /\ a.s.length = x.s.length
  BY <1>2 DEF SameXfer
<1>7. Writes(a) => a.t[a.s.selected].lba \in Lbas
  BY <1>2, <1>3
<1>8. /\ y \in Xs /\ SameRest(y, a) /\ Counts(y, a) /\ Cancels(y, a)
      /\ y.s.buffer = Put(a.s.buffer, (a.s.index % SectorBytes) + 1, byte)
      /\ (a.s.index + 1) % SectorBytes # 0 \/ ~Writes(a) => y.t = a.t
      /\ (a.s.index + 1) % SectorBytes = 0 => Stores(y, a, y.s.buffer)
  BY <1>2, <1>3, <1>5, <1>7, DataOutFields
<1>9. SameBus(y.s, x.s) /\ ~y.s.req /\ y.s.command = x.s.command /\ y.s.length = x.s.length
      /\ y.s.target = x.s.target
  BY <1>2, <1>6, <1>8 DEF SameRest, SameBus
<1>10. Counts(y, x) /\ Cancels(y, x)
  BY <1>2, <1>6, <1>8 DEF Counts, Cancels
<1>11. Stores(y, a, y.s.buffer) => Stores(y, x, y.s.buffer)
  BY <1>2, <1>3, StoresSame
<1> QED
  BY <1>2, <1>3, <1>4, <1>6, <1>8, <1>9, <1>10, <1>11

-----------------------------------------------------------------------------
(* Commands *)

\* y is the drive that was given order o.
Takes(y, drive, o) ==
  /\ y \in Drives /\ y.op = o.op /\ y.image = drive.image
  /\ y.length = Length(o) /\ y.phase = Phase(o)
  /\ o.op \in {"read", "write"} => y.lba = o.lba /\ y.blocks = o.blocks

LEMMA ExecFields ==
  ASSUME NEW drive \in Drives, NEW i \in 1..Len(Orders)
  PROVE  Takes(ExecCommand(drive, Orders[i]), drive, Orders[i])
<1>1. PICK o : o = Orders[i]
  OBVIOUS
<1>2. o \in OrderKinds /\ Total(o) \in Nat
  BY <1>1, OrderFacts
<1>3. PICK op, a, b, m : op = o.op /\ a = o.lba /\ b = o.blocks /\ m = Total(o)
  OBVIOUS
<1>4. /\ op \in {"read", "write", "inquiry", "parameter", "ready", "other"} /\ op \in DriveOps
      /\ a \in Nat /\ b \in Nat /\ m \in Nat
  BY <1>2, <1>3 DEF OrderKinds, DriveOps
<1>5. {"datain", "dataout", "status", "command"} \subseteq Phases
  BY DEF Phases
<1>6. PICK y : y = ExecCommand(drive, o)
  OBVIOUS
<1>7. b * SectorBytes = m
  BY <1>3 DEF Total
<1>8. CASE op = "read"
  <2>1. y = [[[drive EXCEPT !.op = op, !.phase = "command"]
                EXCEPT !.lba = a, !.blocks = b, !.length = m] EXCEPT !.phase = "datain"]
    BY <1>3, <1>6, <1>7, <1>8, Zenon DEF ExecCommand
  <2>2. /\ y \in Drives /\ y.op = op /\ y.phase = "datain" /\ y.length = m
        /\ y.image = drive.image /\ y.lba = a /\ y.blocks = b
    BY <1>4, <1>5, <2>1 DEF Drives
  <2> QED
    BY <1>1, <1>3, <1>6, <1>8, <2>2 DEF Takes, Length, Phase
<1>9. CASE op = "write"
  <2>1. y = [[[drive EXCEPT !.op = op, !.phase = "command"]
                EXCEPT !.lba = a, !.blocks = b, !.length = m] EXCEPT !.phase = "dataout"]
    BY <1>3, <1>6, <1>7, <1>9, Zenon DEF ExecCommand
  <2>2. /\ y \in Drives /\ y.op = op /\ y.phase = "dataout" /\ y.length = m
        /\ y.image = drive.image /\ y.lba = a /\ y.blocks = b
    BY <1>4, <1>5, <2>1 DEF Drives
  <2> QED
    BY <1>1, <1>3, <1>6, <1>9, <2>2 DEF Takes, Length, Phase
<1>10. CASE op = "inquiry"
  <2>1. y = [[drive EXCEPT !.op = op, !.phase = "command"] EXCEPT !.phase = "datain", !.length = 1]
    BY <1>3, <1>6, <1>10, Zenon DEF ExecCommand
  <2>2. y \in Drives /\ y.op = op /\ y.phase = "datain" /\ y.length = 1 /\ y.image = drive.image
    BY <1>4, <1>5, <2>1 DEF Drives
  <2> QED
    BY <1>1, <1>3, <1>6, <1>10, <2>2 DEF Takes, Length, Phase
<1>11. CASE op = "parameter"
  <2>1. y = [[drive EXCEPT !.op = op, !.phase = "command"] EXCEPT !.phase = "dataout", !.length = 1]
    BY <1>3, <1>6, <1>11, Zenon DEF ExecCommand
  <2>2. y \in Drives /\ y.op = op /\ y.phase = "dataout" /\ y.length = 1 /\ y.image = drive.image
    BY <1>4, <1>5, <2>1 DEF Drives
  <2> QED
    BY <1>1, <1>3, <1>6, <1>11, <2>2 DEF Takes, Length, Phase
<1>12. CASE op = "ready"
  <2>1. y = [[drive EXCEPT !.op = op, !.phase = "command"] EXCEPT !.phase = "status", !.length = 0]
    BY <1>3, <1>6, <1>12, Zenon DEF ExecCommand
  <2>2. y \in Drives /\ y.op = op /\ y.phase = "status" /\ y.length = 0 /\ y.image = drive.image
    BY <1>4, <1>5, <2>1 DEF Drives
  <2> QED
    BY <1>1, <1>3, <1>6, <1>12, <2>2 DEF Takes, Length, Phase
<1>13. CASE op = "other"
  <2>1. y = [[drive EXCEPT !.op = op, !.phase = "command"] EXCEPT !.length = 0]
    BY <1>3, <1>6, <1>13 DEF ExecCommand
  <2>2. y \in Drives /\ y.op = op /\ y.phase = "command" /\ y.length = 0 /\ y.image = drive.image
    BY <1>4, <1>5, <2>1 DEF Drives
  <2> QED
    BY <1>1, <1>3, <1>6, <1>13, <2>2 DEF Takes, Length, Phase
<1> QED
  BY <1>4, <1>8, <1>9, <1>10, <1>11, <1>12, <1>13

\* The first k bytes of command i.
Bytes(i, k) == [j \in 1..k |-> CommandByte(i, j)]

LEMMA CommandByteFacts ==
  ASSUME NEW i \in Nat, NEW k \in Nat
  PROVE  /\ CommandByte(i, k) \in Triples /\ CommandByte(i, k)[2] = i
         /\ Bytes(i, k) \in Seq(Triples) /\ Len(Bytes(i, k)) = k
         /\ Append(Bytes(i, k), CommandByte(i, k + 1)) = Bytes(i, k + 1)
<1>1. \A j \in Nat : CommandByte(i, j) \in Triples /\ CommandByte(i, j)[2] = i
  BY TripleOf DEF CommandByte
<1>2. \A m \in Nat : Bytes(i, m) \in Seq(Triples) /\ Len(Bytes(i, m)) = m
  <2> TAKE m \in Nat
  <2>1. \A j \in 1..m : CommandByte(i, j) \in Triples
    BY <1>1
  <2> QED
    BY <2>1 DEF Bytes
<1>3. Append(Bytes(i, k), CommandByte(i, k + 1)) = Bytes(i, k + 1)
  <2>1. PICK v : v = CommandByte(i, k + 1)
    OBVIOUS
  <2>2. PICK b, c : b = Bytes(i, k) /\ c = Bytes(i, k + 1)
    OBVIOUS
  <2>3. v \in Triples /\ b \in Seq(Triples) /\ Len(b) = k /\ c \in Seq(Triples) /\ Len(c) = k + 1
    BY <1>1, <1>2, <2>1, <2>2
  <2>4. \A j \in 1..(k + 1) : c[j] = IF j = k + 1 THEN v ELSE b[j]
    BY <2>1, <2>2 DEF Bytes
  <2> QED
    BY <2>1, <2>2, <2>3, <2>4
<1> QED
  BY <1>1, <1>2, <1>3

LEMMA DecodeFact ==
  ASSUME NEW i \in 1..Len(Orders)
  PROVE  Decode(Bytes(i, CommandBytes)) = Orders[i]
<1>1. PICK b : b = Bytes(i, CommandBytes)
  OBVIOUS
<1>2. CommandBytes \in Nat \ {0} /\ i \in Nat
  BY ScsiAssumption
<1>3. b[1] = CommandByte(i, 1)
  BY <1>1, <1>2 DEF Bytes
<1>4. b[1][2] = i
  BY <1>2, <1>3, CommandByteFacts
<1>5. b = [k \in 1..CommandBytes |-> CommandByte(i, k)]
  BY <1>1 DEF Bytes
<1> QED
  BY <1>1, <1>4, <1>5 DEF Decode

Added(x, byte) == [x EXCEPT !.s.command = Append(@, byte)]

LEMMA CommandFields ==
  ASSUME NEW x \in Xs, x.s.phase = "command", x.s.selected \in Ids,
         NEW i \in 1..Len(Orders), NEW k \in Nat, k < CommandBytes, x.s.command = Bytes(i, k)
  PROVE  LET y == fmscsi_data_w(x, CommandByte(i, k + 1))
             id == x.s.selected
         IN /\ y \in Xs /\ SameBus(y.s, x.s) /\ y.d = x.d /\ ~y.s.req
            /\ y.s.transfer = x.s.transfer /\ y.s.target = x.s.target
            /\ y.s.command = Bytes(i, k + 1)
            /\ k + 1 < CommandBytes => y.s.next = "command" /\ y.t = x.t
            /\ k + 1 = CommandBytes =>
                 /\ y.s.next = Phase(Orders[i]) /\ y.s.length = Length(Orders[i])
                 /\ Takes(y.t[id], x.t[id], Orders[i])
                 /\ \A j \in Ids : j # id => y.t[j] = x.t[j]
<1>1. PICK v : v = CommandByte(i, k + 1)
  OBVIOUS
<1>2. /\ v \in Triples /\ Append(x.s.command, v) = Bytes(i, k + 1)
      /\ Bytes(i, k + 1) \in Seq(Triples) /\ Len(Bytes(i, k + 1)) = k + 1
  <2>1. i \in Nat /\ k + 1 \in Nat
    OBVIOUS
  <2> QED
    BY <1>1, <2>1, CommandByteFacts
<1>3. PICK a : a = Given(x, v)
  OBVIOUS
<1>4. /\ a \in Xs /\ SameXfer(a, x) /\ a.t = x.t /\ ~a.s.req
      /\ a.s.target = x.s.target /\ a.s.command = x.s.command
  BY <1>2, <1>3, GivenFields
<1>5. PICK y : y = fmscsi_data_w(x, v)
  OBVIOUS
<1>6. y = command_byte(a, v)
  BY <1>3, <1>5 DEF fmscsi_data_w, Given
<1>7. PICK c : c = Bytes(i, k + 1)
  OBVIOUS
<1>8. PICK got : got = [a EXCEPT !.s.command = c]
  OBVIOUS
<1>9. PICK z : z = [a.s EXCEPT !.command = c]
  OBVIOUS
<1>10. z \in Adapters /\ z.command = c
  BY <1>2, <1>4, <1>7, <1>9 DEF Xs, Adapters
<1>11. /\ SameBus(z, a.s) /\ z.transfer = a.s.transfer /\ z.length = a.s.length /\ z.index = a.s.index
       /\ z.buffer = a.s.buffer /\ z.next = a.s.next /\ z.target = a.s.target /\ z.req = a.s.req
  BY <1>4, <1>9 DEF Xs, SameBus, Adapters
<1>12. got = [a EXCEPT !.s = z]
  BY <1>8, <1>9
<1>13. got \in Xs /\ got.d = a.d /\ got.t = a.t /\ got.s = z
  BY <1>4, <1>10, <1>12 DEF Xs
<1>14. PICK drive : drive = ExecCommand(a.t[a.s.selected], Decode(c))
  OBVIOUS
<1>15. y = IF Len(c) < CommandBytes THEN SetNext(got, "command")
           ELSE [got EXCEPT !.t[a.s.selected] = drive,
                            !.s.length = drive.length, !.s.next = drive.phase]
  <2>1. got = Added(a, v) /\ got.s.command = c
    BY <1>2, <1>4, <1>7, <1>8, <1>10, <1>13 DEF Added
  <2>2. y = LET g == Added(a, v)
                e == ExecCommand(a.t[a.s.selected], Decode(g.s.command))
            IN IF Len(g.s.command) < CommandBytes THEN [g EXCEPT !.s.next = "command"]
               ELSE [g EXCEPT !.t[a.s.selected] = e, !.s.length = e.length, !.s.next = e.phase]
    BY <1>6 DEF command_byte, Added
  <2> QED
    BY <1>14, <2>1, <2>2 DEF SetNext
<1>16. a.s.selected = x.s.selected
  BY <1>4 DEF SameXfer, SameBus
<1>17. Len(c) = k + 1 /\ CommandBytes \in Nat
  BY <1>2, <1>7, ScsiAssumption
<1>18. CASE k + 1 < CommandBytes
  <2>1. y = SetNext(got, "command")
    BY <1>15, <1>17, <1>18
  <2>2. "command" \in Phases \cup {"none"}
    BY DEF Phases
  <2>3. /\ y \in Xs /\ SameXfer(y, got) /\ y.t = got.t /\ y.s.req = got.s.req
        /\ y.s.next = "command" /\ y.s.command = got.s.command /\ y.s.target = got.s.target
    BY <1>13, <2>1, <2>2, SetNextFields
  <2>4. SameBus(y.s, x.s) /\ y.d = x.d /\ ~y.s.req /\ y.s.transfer = x.s.transfer
        /\ y.s.target = x.s.target /\ y.s.command = c /\ y.t = x.t
    BY <1>4, <1>10, <1>11, <1>13, <2>3 DEF SameXfer, SameBus
  <2> QED
    BY <1>1, <1>5, <1>7, <1>18, <2>3, <2>4
<1>19. CASE k + 1 = CommandBytes
  <2>1. y = [got EXCEPT !.t[a.s.selected] = drive, !.s.length = drive.length, !.s.next = drive.phase]
    BY <1>15, <1>17, <1>19
  <2>2. PICK id : id = x.s.selected
    OBVIOUS
  <2>3. id \in Ids /\ x.t[id] \in Drives /\ x.t \in [Ids -> Drives]
    BY <2>2 DEF Xs
  <2>4. Takes(drive, x.t[id], Orders[i])
    <3>1. Decode(c) = Orders[i]
      BY <1>7, <1>19, DecodeFact
    <3>2. drive = ExecCommand(x.t[id], Orders[i])
      BY <1>4, <1>14, <1>16, <2>2, <3>1
    <3> QED
      BY <2>3, <3>2, ExecFields
  <2>5. PICK u : u = [z EXCEPT !.length = drive.length, !.next = drive.phase]
    OBVIOUS
  <2>6. drive \in Drives /\ drive.length \in Nat /\ drive.phase \in Phases \cup {"none"}
    BY <2>4 DEF Takes, Drives
  <2>7. u \in Adapters /\ u.length = drive.length /\ u.next = drive.phase /\ u.command = c
    BY <1>10, <2>5, <2>6 DEF Adapters
  <2>8. SameBus(u, z) /\ u.transfer = z.transfer /\ u.target = z.target /\ u.req = z.req
    BY <1>10, <2>5 DEF SameBus, Adapters
  <2>9. PICK w : w = [x.t EXCEPT ![id] = drive]
    OBVIOUS
  <2>10. w \in [Ids -> Drives] /\ w[id] = drive /\ \A j \in Ids : j # id => w[j] = x.t[j]
    BY <2>3, <2>6, <2>9
  <2>11. y = [s |-> u, d |-> got.d, t |-> w]
    <3>1. got.t = x.t /\ got.s = z /\ got \in Xs
      BY <1>4, <1>13
    <3>2. y = [got EXCEPT !.t = w, !.s = u]
      BY <1>16, <2>1, <2>2, <2>5, <2>9, <3>1
    <3> QED
      BY <3>1, <3>2 DEF Xs
  <2>12. y \in Xs /\ y.s = u /\ y.d = got.d /\ y.t = w
    BY <1>13, <2>7, <2>10, <2>11 DEF Xs
  <2>13. SameBus(y.s, x.s) /\ y.d = x.d /\ ~y.s.req /\ y.s.transfer = x.s.transfer
         /\ y.s.target = x.s.target /\ y.s.command = c
    BY <1>4, <1>11, <1>13, <2>7, <2>8, <2>12 DEF SameXfer, SameBus
  <2>14. y.s.next = Phase(Orders[i]) /\ y.s.length = Length(Orders[i])
    BY <2>4, <2>7, <2>12 DEF Takes
  <2> QED
    BY <1>1, <1>5, <1>7, <1>17, <1>19, <2>2, <2>4, <2>10, <2>12, <2>13, <2>14
<1> QED
  BY <1>17, <1>18, <1>19

-----------------------------------------------------------------------------
(* The timers *)

LEMMA ShownType ==
  ASSUME NEW p
  PROVE  Shown(p) \in Shows
BY DEF Shown, Shows

Busy(x, p) == CASE p = "bus_free" -> FALSE [] p = "command" -> TRUE [] OTHER -> x.s.bsy

ShownTo(x, p) ==
  [x EXCEPT !.s.phase = p, !.s.next = "none", !.s.lines = Shown(p), !.s.bsy = Busy(x, p)]

\* The bus as a phase makes it; the data of the adapter stay.
ShowsPhase(y, x, p) ==
  /\ y.s.phase = p /\ y.s.next = "none" /\ y.s.lines = Shown(p) /\ y.s.bsy = Busy(x, p)
  /\ y.s.out = x.s.out /\ y.s.selected = x.s.selected /\ y.s.target = x.s.target
  /\ y.s.command = x.s.command /\ y.s.length = x.s.length /\ y.d = x.d

LEMMA ShownToFields ==
  ASSUME NEW x \in Xs, NEW p \in Phases
  PROVE  LET y == ShownTo(x, p)
         IN /\ y \in Xs /\ ShowsPhase(y, x, p) /\ y.t = x.t /\ y.s.transfer = x.s.transfer
            /\ y.s.index = x.s.index /\ y.s.buffer = x.s.buffer /\ y.s.req = x.s.req
<1>1. x.s \in Adapters
  BY DEF Xs
<1>2. PICK b : b = Busy(x, p)
  OBVIOUS
<1>3. b \in BOOLEAN
  BY <1>1, <1>2 DEF Busy, Adapters
<1>4. PICK l : l = Shown(p)
  OBVIOUS
<1>5. l \in Shows
  BY <1>4, ShownType
<1>6. PICK z : z = [x.s EXCEPT !.phase = p, !.next = "none", !.lines = l, !.bsy = b]
  OBVIOUS
<1>7. z \in Adapters
  BY <1>1, <1>3, <1>5, <1>6 DEF Adapters
<1>8. /\ z.phase = p /\ z.next = "none" /\ z.lines = l /\ z.bsy = b
      /\ z.out = x.s.out /\ z.selected = x.s.selected /\ z.target = x.s.target
      /\ z.command = x.s.command /\ z.length = x.s.length /\ z.transfer = x.s.transfer
      /\ z.index = x.s.index /\ z.buffer = x.s.buffer /\ z.req = x.s.req
  BY <1>1, <1>6 DEF Adapters
<1>9. PICK y : y = ShownTo(x, p)
  OBVIOUS
<1>10. y = [x EXCEPT !.s = z]
  BY <1>2, <1>4, <1>6, <1>9 DEF ShownTo
<1>11. y \in Xs /\ y.d = x.d /\ y.t = x.t /\ y.s = z
  BY <1>7, <1>10 DEF Xs
<1> QED
  BY <1>2, <1>4, <1>8, <1>9, <1>11 DEF ShowsPhase

Begun(x) == [x EXCEPT !.s.transfer = TRUE, !.s.index = 0]

LEMMA BegunFields ==
  ASSUME NEW x \in Xs
  PROVE  LET y == Begun(x)
         IN /\ y \in Xs /\ SameBus(y.s, x.s) /\ y.d = x.d /\ y.t = x.t
            /\ y.s.transfer /\ y.s.index = 0 /\ y.s.buffer = x.s.buffer /\ y.s.req = x.s.req
            /\ y.s.next = x.s.next /\ y.s.target = x.s.target
            /\ y.s.command = x.s.command /\ y.s.length = x.s.length
<1>1. x.s \in Adapters
  BY DEF Xs
<1>2. PICK z : z = [x.s EXCEPT !.transfer = TRUE, !.index = 0]
  OBVIOUS
<1>3. z \in Adapters
  BY <1>1, <1>2 DEF Adapters
<1>4. /\ SameBus(z, x.s) /\ z.transfer /\ z.index = 0 /\ z.buffer = x.s.buffer /\ z.req = x.s.req
      /\ z.next = x.s.next /\ z.target = x.s.target
      /\ z.command = x.s.command /\ z.length = x.s.length
  BY <1>1, <1>2 DEF SameBus, Adapters
<1>5. PICK y : y = Begun(x)
  OBVIOUS
<1>6. y = [x EXCEPT !.s = z]
  BY <1>2, <1>5 DEF Begun
<1>7. y \in Xs /\ y.d = x.d /\ y.t = x.t /\ y.s = z
  BY <1>3, <1>6 DEF Xs
<1> QED
  BY <1>4, <1>5, <1>7

\* The phase timer.
LEMMA PhaseFields ==
  ASSUME NEW x \in Xs, NEW p \in Phases, x.s.next = p,
         p = "datain" => x.s.selected \in Ids /\ Readable(x)
  PROVE  LET y == set_phase(x)
         IN /\ y \in Xs /\ ShowsPhase(y, x, p)
            /\ p = "bus_free" => y.s.req = x.s.req
            /\ p # "bus_free" => y.s.req
            /\ p \notin {"datain", "dataout"} => y.t = x.t /\ y.s.transfer = x.s.transfer
            /\ p \in {"datain", "dataout"} => y.s.transfer /\ y.s.index = 0
            /\ p = "dataout" => y.t = x.t
            /\ SameImages(y.t, x.t)
            /\ p = "datain" => Fetches(y, x)
<1>1. PICK w : w = ShownTo(x, p)
  OBVIOUS
<1>2. /\ w \in Xs /\ ShowsPhase(w, x, p) /\ w.t = x.t /\ w.s.transfer = x.s.transfer
      /\ w.s.index = x.s.index /\ w.s.buffer = x.s.buffer /\ w.s.req = x.s.req
  BY <1>1, ShownToFields
<1>3. PICK a : a = IF p = "bus_free" THEN w ELSE set_req(w, TRUE)
  OBVIOUS
<1>4. /\ a \in Xs /\ ShowsPhase(a, x, p) /\ a.t = x.t /\ a.s.transfer = x.s.transfer
      /\ a.s.buffer = x.s.buffer
      /\ p = "bus_free" => a.s.req = x.s.req
      /\ p # "bus_free" => a.s.req
  <2>1. CASE p = "bus_free"
    BY <1>2, <1>3, <2>1
  <2>2. CASE p # "bus_free"
    <3>1. a = set_req(w, TRUE)
      BY <1>3, <2>2
    <3>2. /\ a \in Xs /\ a.d = w.d /\ a.t = w.t
          /\ SameBus(a.s, w.s) /\ SameData(a.s, w.s)
          /\ a.s.req = TRUE /\ a.s.next = w.s.next
          /\ a.s.target = w.s.target /\ a.s.transfer = w.s.transfer
      BY <1>2, <3>1, ReqFields
    <3> QED
      BY <1>2, <2>2, <3>2 DEF ShowsPhase, SameBus, SameData
  <2> QED
    BY <2>1, <2>2
<1>5. PICK b : b = Begun(a)
  OBVIOUS
<1>6. /\ b \in Xs /\ SameBus(b.s, a.s) /\ b.d = a.d /\ b.t = a.t
      /\ b.s.transfer /\ b.s.index = 0 /\ b.s.buffer = a.s.buffer /\ b.s.req = a.s.req
      /\ b.s.next = a.s.next /\ b.s.target = a.s.target
      /\ b.s.command = a.s.command /\ b.s.length = a.s.length
  BY <1>4, <1>5, BegunFields
<1>7. ShowsPhase(b, x, p)
  BY <1>4, <1>6 DEF ShowsPhase, SameBus
<1>8. PICK y : y = set_phase(x)
  OBVIOUS
<1>9. y = CASE p = "datain"  -> ReadData(b)
            [] p = "dataout" -> b
            [] OTHER -> a
  <2>1. y = LET e == ShownTo(x, x.s.next)
                f == IF x.s.next = "bus_free" THEN e ELSE set_req(e, TRUE)
                g == Begun(f)
            IN CASE x.s.next = "datain"  -> ReadData(g)
                 [] x.s.next = "dataout" -> g
                 [] OTHER -> f
    BY <1>8 DEF set_phase, ShownTo, Busy, Begun
  <2> QED
    BY <1>1, <1>3, <1>5, <2>1
<1>10. CASE p = "datain"
  <2>1. y = ReadData(b)
    BY <1>9, <1>10
  <2>2. b.s.selected = x.s.selected /\ b.t = x.t /\ b.s.buffer = x.s.buffer
    BY <1>4, <1>6, <1>7 DEF ShowsPhase
  <2>3. Readable(b)
    BY <1>10, <2>2 DEF Readable
  <2>4. /\ y \in Xs /\ y.d = b.d /\ SameImages(y.t, b.t) /\ Fetches(y, b)
        /\ SameBus(y.s, b.s) /\ SameLines(y.s, b.s)
        /\ y.s.command = b.s.command /\ y.s.length = b.s.length /\ y.s.index = b.s.index
    BY <1>6, <1>10, <2>1, <2>2, <2>3, ReadDataFields
  <2>5. Fetches(y, x)
    BY <2>2, <2>4 DEF Fetches
  <2>6. ShowsPhase(y, x, p)
    BY <1>7, <2>4 DEF ShowsPhase, SameBus, SameLines
  <2> QED
    BY <1>4, <1>6, <1>8, <1>10, <2>2, <2>4, <2>5, <2>6 DEF SameLines
<1>11. CASE p = "dataout"
  <2>1. y = b
    BY <1>9, <1>11
  <2> QED
    BY <1>4, <1>6, <1>7, <1>8, <1>11, <2>1 DEF SameImages
<1>12. CASE p \notin {"datain", "dataout"}
  <2>1. y = a
    BY <1>9, <1>12
  <2> QED
    BY <1>4, <1>8, <1>12, <2>1 DEF SameImages
<1> QED
  BY <1>10, <1>11, <1>12

\* The transfer timer.
LEMMA TransferFields ==
  ASSUME NEW x \in Xs
  PROVE  LET y == update_transfer(x)
         IN /\ y \in Xs /\ y.t = x.t /\ SameBus(y.s, x.s) /\ SameData(y.s, x.s)
            /\ y.s.req /\ y.s.next = x.s.next /\ y.s.target = x.s.target
            /\ y.s.transfer = x.s.transfer
            /\ SameDma(y.d, x.d)
            /\ ~x.s.out.dmae => y.d = x.d
            /\ y.d.timer \subseteq x.d.timer \cup {ScsiChannel}
            /\ y.d.timer \subseteq x.d.timer \/ ScsiChannel \notin x.d.mask
<1>1. PICK a : a = set_req(x, TRUE)
  OBVIOUS
<1>2. /\ a \in Xs /\ a.d = x.d /\ a.t = x.t
      /\ SameBus(a.s, x.s) /\ SameData(a.s, x.s)
      /\ a.s.req /\ a.s.next = x.s.next
      /\ a.s.target = x.s.target /\ a.s.transfer = x.s.transfer
  BY <1>1, ReqFields
<1>3. PICK y : y = update_transfer(x)
  OBVIOUS
<1>4. y = drq(a, TRUE)
  BY <1>1, <1>3 DEF update_transfer
<1>5. /\ y \in Xs /\ y.s = a.s /\ y.t = a.t
      /\ ~a.s.out.dmae => y.d = a.d
      /\ a.s.out.dmae => y.d = request(a.d, ScsiChannel)
  BY <1>2, <1>4, DrqFields DEF dmarq
<1>6. x.d \in Dmas /\ a.s.out.dmae = x.s.out.dmae /\ x.s.out.dmae \in BOOLEAN
  BY <1>2 DEF Xs, SameBus, Adapters, Outs
<1>7. /\ SameDma(y.d, x.d)
      /\ y.d.timer \subseteq x.d.timer \cup {ScsiChannel}
      /\ y.d.timer \subseteq x.d.timer \/ ScsiChannel \notin x.d.mask
  <2>1. CASE x.s.out.dmae
    BY <1>2, <1>5, <1>6, <2>1, RequestFields
  <2>2. CASE ~x.s.out.dmae
    BY <1>2, <1>5, <1>6, <2>2 DEF SameDma
  <2> QED
    BY <1>6, <2>1, <2>2
<1> QED
  BY <1>2, <1>3, <1>5, <1>6, <1>7

-----------------------------------------------------------------------------
(* The control register *)

SetOut(x, o) == [x EXCEPT !.s.out = o]

\* What the control register leaves alone.
SameControl(y, x) ==
  /\ y.s.phase = x.s.phase /\ y.s.bsy = x.s.bsy /\ y.s.lines = x.s.lines /\ y.s.req = x.s.req
  /\ y.s.transfer = x.s.transfer /\ y.s.command = x.s.command /\ y.s.length = x.s.length
  /\ y.s.index = x.s.index /\ y.s.buffer = x.s.buffer /\ y.s.target = x.s.target
  /\ y.d = x.d /\ y.t = x.t

LEMMA SetOutFields ==
  ASSUME NEW x \in Xs, NEW o \in Outs
  PROVE  LET y == SetOut(x, o)
         IN /\ y \in Xs /\ SameControl(y, x)
            /\ y.s.next = x.s.next /\ y.s.selected = x.s.selected /\ y.s.out = o
<1>1. x.s \in Adapters
  BY DEF Xs
<1>2. PICK z : z = [x.s EXCEPT !.out = o]
  OBVIOUS
<1>3. z \in Adapters
  BY <1>1, <1>2 DEF Adapters
<1>4. /\ z.phase = x.s.phase /\ z.bsy = x.s.bsy /\ z.lines = x.s.lines /\ z.req = x.s.req
      /\ z.transfer = x.s.transfer /\ z.command = x.s.command /\ z.length = x.s.length
      /\ z.index = x.s.index /\ z.buffer = x.s.buffer /\ z.target = x.s.target
      /\ z.next = x.s.next /\ z.selected = x.s.selected /\ z.out = o
  BY <1>1, <1>2 DEF Adapters
<1>5. PICK y : y = SetOut(x, o)
  OBVIOUS
<1>6. y = [x EXCEPT !.s = z]
  BY <1>2, <1>5 DEF SetOut
<1>7. y \in Xs /\ y.d = x.d /\ y.t = x.t /\ y.s = z
  BY <1>3, <1>6 DEF Xs
<1> QED
  BY <1>4, <1>5, <1>7 DEF SameControl

\* The steps of a write without RST.
Attends(x, o)     == IF o.atn THEN SetNext(x, "message_out") ELSE x
Selects(x, y, o)  == IF o.sel /\ ~x.s.out.sel THEN select(y) ELSE y

LEMMA ControlSteps ==
  ASSUME NEW x, NEW o
  PROVE  fmscsi_control_w(x, FALSE, o) = SetOut(Selects(x, Attends(x, o), o), o)
BY DEF fmscsi_control_w, SetOut, Selects, Attends, SetNext

\* No line rises that matters.
LEMMA ReleaseFields ==
  ASSUME NEW x \in Xs, NEW o \in Outs, ~o.atn, ~o.sel
  PROVE  LET y == fmscsi_control_w(x, FALSE, o)
         IN /\ y \in Xs /\ SameControl(y, x)
            /\ y.s.next = x.s.next /\ y.s.selected = x.s.selected /\ y.s.out = o
<1>1. PICK y : y = fmscsi_control_w(x, FALSE, o)
  OBVIOUS
<1>2. y = SetOut(x, o)
  BY <1>1, ControlSteps DEF Selects, Attends
<1>3. /\ y \in Xs /\ SameControl(y, x)
      /\ y.s.next = x.s.next /\ y.s.selected = x.s.selected /\ y.s.out = o
  BY <1>2, SetOutFields
<1> QED
  BY <1>1, <1>3

\* ATN.
LEMMA AttentionFields ==
  ASSUME NEW x \in Xs, NEW o \in Outs, o.atn, ~o.sel
  PROVE  LET y == fmscsi_control_w(x, FALSE, o)
         IN /\ y \in Xs /\ SameControl(y, x)
            /\ y.s.next = "message_out" /\ y.s.selected = x.s.selected /\ y.s.out = o
<1>1. PICK a : a = SetNext(x, "message_out")
  OBVIOUS
<1>2. "message_out" \in Phases \cup {"none"}
  BY DEF Phases
<1>3. /\ a \in Xs /\ SameXfer(a, x) /\ a.t = x.t /\ a.s.req = x.s.req
      /\ a.s.next = "message_out" /\ a.s.command = x.s.command /\ a.s.target = x.s.target
  BY <1>1, <1>2, SetNextFields
<1>4. PICK y : y = fmscsi_control_w(x, FALSE, o)
  OBVIOUS
<1>5. y = SetOut(a, o)
  BY <1>1, <1>4, ControlSteps DEF Selects, Attends
<1>6. /\ y \in Xs /\ SameControl(y, a)
      /\ y.s.next = a.s.next /\ y.s.selected = a.s.selected /\ y.s.out = o
  BY <1>3, <1>5, SetOutFields
<1> QED
  BY <1>3, <1>4, <1>6, ZenonT(30) DEF SameControl, SameXfer, SameBus

\* SEL.
LEMMA SelectFields ==
  ASSUME NEW x \in Xs, NEW o \in Outs, ~o.atn, o.sel, ~x.s.out.sel
  PROVE  LET y == fmscsi_control_w(x, FALSE, o)
         IN /\ y \in Xs /\ SameControl(y, x)
            /\ y.s.selected = x.s.target /\ y.s.out = o
            /\ x.s.target \in Ids => y.s.next = "command"
            /\ x.s.target \notin Ids => y.s.next = x.s.next
<1>1. x.s \in Adapters /\ x.s.target \in Targets
  BY DEF Xs, Adapters
<1>2. PICK a : a = select(x)
  OBVIOUS
<1>3. /\ a \in Xs /\ SameControl(a, x) /\ a.s.selected = x.s.target
      /\ x.s.target \in Ids => a.s.next = "command"
      /\ x.s.target \notin Ids => a.s.next = x.s.next
  <2>1. PICK v : v = x.s.target
    OBVIOUS
  <2>2. v \in Targets
    BY <1>1, <2>1
  <2>3. CASE v \in Ids
    <3>1. PICK c : c = <<-3, 3, 0>>
      OBVIOUS
    <3>2. c \in Triples /\ "command" \in Phases \cup {"none"}
      BY <3>1, TripleOf DEF Phases
    <3>3. PICK z : z = [x.s EXCEPT !.selected = v, !.next = "command", !.data = c]
      OBVIOUS
    <3>4. z \in Adapters
      BY <1>1, <2>2, <3>2, <3>3 DEF Adapters
    <3>5. /\ z.phase = x.s.phase /\ z.bsy = x.s.bsy /\ z.lines = x.s.lines /\ z.req = x.s.req
          /\ z.transfer = x.s.transfer /\ z.command = x.s.command /\ z.length = x.s.length
          /\ z.index = x.s.index /\ z.buffer = x.s.buffer /\ z.target = x.s.target
          /\ z.next = "command" /\ z.selected = v
      BY <1>1, <3>3 DEF Adapters
    <3>6. a = [x EXCEPT !.s = z]
      <4>1. a = [[x EXCEPT !.s.selected = v] EXCEPT !.s.next = "command", !.s.data = c]
        BY <1>2, <2>1, <2>3, <3>1 DEF select
      <4> QED
        BY <3>3, <4>1
    <3>7. a \in Xs /\ a.d = x.d /\ a.t = x.t /\ a.s = z
      BY <3>4, <3>6 DEF Xs
    <3> QED
      BY <2>1, <2>3, <3>5, <3>7 DEF SameControl
  <2>4. CASE v \notin Ids
    <3>3. PICK z : z = [x.s EXCEPT !.selected = v]
      OBVIOUS
    <3>4. z \in Adapters
      BY <1>1, <2>2, <3>3 DEF Adapters
    <3>5. /\ z.phase = x.s.phase /\ z.bsy = x.s.bsy /\ z.lines = x.s.lines /\ z.req = x.s.req
          /\ z.transfer = x.s.transfer /\ z.command = x.s.command /\ z.length = x.s.length
          /\ z.index = x.s.index /\ z.buffer = x.s.buffer /\ z.target = x.s.target
          /\ z.next = x.s.next /\ z.selected = v
      BY <1>1, <3>3 DEF Adapters
    <3>6. a = [x EXCEPT !.s = z]
      BY <1>2, <2>1, <2>4, <3>3 DEF select
    <3>7. a \in Xs /\ a.d = x.d /\ a.t = x.t /\ a.s = z
      BY <3>4, <3>6 DEF Xs
    <3> QED
      BY <2>1, <2>4, <3>5, <3>7 DEF SameControl
  <2> QED
    BY <2>3, <2>4
<1>4. PICK y : y = fmscsi_control_w(x, FALSE, o)
  OBVIOUS
<1>5. y = SetOut(a, o)
  BY <1>2, <1>4, ControlSteps DEF Selects, Attends
<1>6. /\ y \in Xs /\ SameControl(y, a)
      /\ y.s.next = a.s.next /\ y.s.selected = a.s.selected /\ y.s.out = o
  BY <1>3, <1>5, SetOutFields
<1> QED
  BY <1>3, <1>4, <1>6, ZenonT(30) DEF SameControl

LEMMA PoweredOnFields ==
  /\ PoweredOn \in Adapters
  /\ PoweredOn.phase = "bus_free" /\ PoweredOn.next = "status" /\ ~PoweredOn.transfer
  /\ ~PoweredOn.bsy /\ PoweredOn.lines = Shown("bus_free") /\ PoweredOn.command = <<>>
  /\ PoweredOn.out = NoLines
<1>1. NoLines \in Outs
  BY DEF NoLines, Outs
<1>2. Shown("bus_free") \in Shows
  BY ShownType
<1>3. Zeros \in Buffers /\ Zero \in Triples /\ 0 \in Targets
  BY ZeroBuffers, IdFacts
<1>4. PICK e : e = <<>>
  OBVIOUS
<1>5. e \in Seq(Triples)
  BY <1>4
<1>6. "bus_free" \in Phases /\ "status" \in Phases
  BY DEF Phases
<1>7. PoweredOn = [phase |-> "bus_free", next |-> "status", transfer |-> FALSE,
        req |-> FALSE, int |-> FALSE, bsy |-> FALSE, lines |-> Shown("bus_free"),
        out |-> NoLines, target |-> 0, selected |-> 0, command |-> e,
        length |-> 0, index |-> 0, data |-> Zero, buffer |-> Zeros]
  BY <1>4 DEF PoweredOn, Zeros
<1> QED
  BY <1>1, <1>2, <1>3, <1>4, <1>5, <1>6, <1>7 DEF Adapters

\* RST, with the other lines low.
LEMMA ResetFields ==
  ASSUME NEW x \in Xs, NEW o \in Outs, ~o.atn, ~o.sel
  PROVE  LET y == fmscsi_control_w(x, TRUE, o)
         IN /\ y \in Xs /\ y.d = x.d /\ y.t = x.t
            /\ y.s.phase = "bus_free" /\ y.s.next = "status" /\ ~y.s.transfer
            /\ ~y.s.bsy /\ y.s.lines = Shown("bus_free") /\ y.s.command = <<>> /\ y.s.out = o
<1>1. PICK a : a = device_reset(x)
  OBVIOUS
<1>2. PICK v, b : v = x.s.selected /\ b = x.s.buffer
  OBVIOUS
<1>3. v \in Targets /\ b \in Buffers
  BY <1>2 DEF Xs, Adapters
<1>4. PICK z : z = [PoweredOn EXCEPT !.selected = v, !.buffer = b]
  OBVIOUS
<1>5. z \in Adapters
  BY <1>3, <1>4, PoweredOnFields DEF Adapters
<1>6. /\ z.phase = "bus_free" /\ z.next = "status" /\ ~z.transfer
      /\ ~z.bsy /\ z.lines = Shown("bus_free") /\ z.command = <<>>
  BY <1>4, PoweredOnFields DEF Adapters
<1>7. a = [x EXCEPT !.s = z]
  BY <1>1, <1>2, <1>4 DEF device_reset
<1>8. a \in Xs /\ a.d = x.d /\ a.t = x.t /\ a.s = z
  BY <1>5, <1>7 DEF Xs
<1>9. PICK y : y = fmscsi_control_w(x, TRUE, o)
  OBVIOUS
<1>10. y = SetOut(a, o)
  BY <1>1, <1>9 DEF fmscsi_control_w, SetOut
<1>11. /\ y \in Xs /\ SameControl(y, a)
       /\ y.s.next = a.s.next /\ y.s.selected = a.s.selected /\ y.s.out = o
  BY <1>8, <1>10, SetOutFields
<1> QED
  BY <1>6, <1>8, <1>9, <1>11 DEF SameControl

-----------------------------------------------------------------------------
(* What every step rests on *)

LEMMA TypedX ==
  ASSUME Types
  PROVE  x0 \in Xs /\ x0.s = s /\ x0.d = d /\ x0.t = t
BY DEF x0, Xs, Types

LEMMA OrderType ==
  ASSUME Types, n > 0
  PROVE  /\ n \in 1..Len(Orders) /\ order \in OrderKinds
         /\ order.id \in 0..4 /\ order.id \in Targets /\ order.blocks \in Nat /\ order.lba \in Nat
         /\ Total(order) \in Nat /\ Total(order) < MemSize /\ Total(order) <= CountModulus
         /\ MemSize \in Nat /\ MemSize <= AddressModulus
         /\ order.op \in {"read", "write"} =>
              /\ order.blocks > 0
              /\ order.lba..(order.lba + order.blocks - 1) \subseteq Lbas
         /\ order.dma => order.op \in {"read", "write"}
<1>1. n \in 1..Len(Orders)
  <2>1. Len(Orders) \in Nat
    BY GuestAssumption
  <2> QED
    BY <2>1 DEF Types
<1>2. /\ order \in OrderKinds
      /\ Total(order) \in Nat /\ Total(order) < MemSize /\ Total(order) <= CountModulus
      /\ MemSize \in Nat /\ MemSize <= AddressModulus
  BY <1>1, OrderFacts DEF order
<1>3. /\ order.op \in {"read", "write"} =>
           /\ order.blocks > 0
           /\ order.lba..(order.lba + order.blocks - 1) \subseteq Lbas
      /\ order.dma => order.op \in {"read", "write"}
  BY <1>1, GuestAssumption DEF order
<1>4. order.id \in 0..4 /\ order.blocks \in Nat /\ order.lba \in Nat
  BY <1>2 DEF OrderKinds
<1>5. order.id \in Targets
  BY <1>4, IdFacts
<1> QED
  BY <1>1, <1>2, <1>3, <1>4, <1>5

\* The place of a byte in the buffer, and the byte of a place.
LEMMA AtFacts ==
  ASSUME NEW o, Total(o) \in Nat, NEW i \in 0..(Total(o) - 1)
  PROVE  /\ At(o, i) \in 0..(Total(o) - 1) /\ At(o, At(o, i)) = i
         /\ \A k \in 0..(Total(o) - 1) : At(o, k) = At(o, i) => k = i
BY DEF At

LEMMA ZeroSector == 0 \div SectorBytes = 0 /\ 0 % SectorBytes = 0
<1>1. 0 = 0 * SectorBytes
  BY ScsiAssumption
<1> QED
  BY <1>1, SectorOf

\* The registers of the guest and of the devices, put together.
LEMMA TypesKept ==
  ASSUME Types, n' = n, sent' = sent, NEW x \in Xs, Becomes(x), Len(x.s.command) <= CommandBytes,
         mem' \in [0..(MemSize - 1) -> Triples], pc' \in Pcs, pc' # "idle" => n > 0,
         said' \in 0..CommandBytes, moved' \in Nat, armed' \in BOOLEAN, status' \in Triples,
         faults' \in 0..MaxFaults
  PROVE  Types'
BY DEF Types, Becomes, Xs

\* The sectors of the drives stay as they are.
ImagesStay == \A id \in Ids : t'[id].image = t[id].image

\* Memory and disks, when no data move.
LEMMA DataKept ==
  ASSUME Types, Memory, Written, n' = n, sent' = sent, mem' = mem,
         \A id \in Ids : t'[id].image = t[id].image,
         n > 0 /\ order.op \in {"read", "write"} /\ status' # Cut => status # Cut /\ Got' = Got
  PROVE  Memory' /\ Written'
<1>1. order' = order
  BY DEF order
<1>2. ASSUME n > 0
      PROVE  Memory'
  <2>1. \A i \in Nat : Wanted(order, i)' = Wanted(order, i)
    BY <1>1, IdFacts DEF Wanted
  <2>2. Total(order) \in Nat
    BY <1>2, OrderType
  <2>3. /\ \A a \in Total(order)..(MemSize - 1) : mem[a] = Unused
        /\ order.op = "write" => \A i \in 0..(Total(order) - 1) : mem[At(order, i)] = Payload(i)
        /\ order.op = "read" /\ status # Cut =>
             \A i \in 0..(Total(order) - 1) :
                mem[At(order, i)] = IF i < Got THEN Wanted(order, i) ELSE Unused
    BY <1>2 DEF Memory
  <2> QED
    BY <1>1, <2>1, <2>2, <2>3 DEF Memory, Payload
<1>3. ASSUME n > 0, order.op = "write", order.id \in Loaded, status' # Cut,
             NEW j \in 0..(order.blocks - 1), j < Got' \div SectorBytes, NEW k \in 1..SectorBytes
      PROVE  t'[order.id].image[order.lba + j][k] = Payload(j * SectorBytes + k - 1)'
  <2>1. t'[order.id].image = t[order.id].image /\ Got' = Got /\ status # Cut
    BY <1>3, IdFacts
  <2>2. t[order.id].image[order.lba + j][k] = Payload(j * SectorBytes + k - 1)
    BY <1>3, <2>1 DEF Written
  <2>3. Payload(j * SectorBytes + k - 1)' = Payload(j * SectorBytes + k - 1)
    BY DEF Payload
  <2> QED
    BY <2>1, <2>2, <2>3
<1> QED
  BY <1>1, <1>2, <1>3 DEF Memory, Written

\* The drives, the memory and the bus do not see what the DMA controller does.
LEMMA DmaAlone ==
  ASSUME IInv, UNCHANGED <<s, t, mem, pc, n, said, status, sent>>
  PROVE  Bus' /\ Command' /\ Drive' /\ Memory' /\ Written' /\ Verdict'
<1>1. order' = order /\ Spoken' = Spoken /\ Quiet' = Quiet /\ Got' = Got
  BY DEF order, Spoken, Quiet, Got
<1>2. \A i : Payload(i)' = Payload(i)
  BY DEF Payload
<1>3. Bus'
  BY <1>1 DEF IInv, Bus
<1>4. Command'
  BY <1>1 DEF IInv, Command
<1>5. Drive'
  BY <1>1, <1>2 DEF IInv, Drive
<1>6. Memory' /\ Written'
  BY <1>1, DataKept DEF IInv
<1>7. Verdict'
  BY <1>1 DEF IInv, Verdict
<1> QED
  BY <1>3, <1>4, <1>5, <1>6, <1>7

-----------------------------------------------------------------------------
(* The first state, and the guest's steps *)

LEMMA InitKeeps ==
  ASSUME Init
  PROVE  IInv
<1>1. s \in Adapters /\ s.command = <<>>
  BY PoweredOnFields DEF Init
<1>2. d \in Dmas
  BY ModulusAssumption DEF Init, Started, Dmas, Channels, Modes, NoMode
<1>3. t \in [Ids -> Drives]
  <2>1. ASSUME NEW id \in Ids
        PROVE  NewDrive(id) \in Drives
    <3>1. id \in Int
      BY IdFacts
    <3>2. Lbas \subseteq Int
      BY ScsiAssumption
    <3>3. ASSUME NEW l \in Lbas
          PROVE  [k \in 1..SectorBytes |-> <<id, l, k>>] \in Buffers
      BY <3>1, <3>2 DEF Buffers, Triples
    <3>4. Blank(id) \in Images
      BY <3>3 DEF Blank, Images
    <3> QED
      BY <3>4 DEF NewDrive, Drives, DriveOps, Phases
  <2> QED
    BY <2>1 DEF Init
<1>4. mem \in [0..(MemSize - 1) -> Triples] /\ status \in Triples
  <2>1. Unused \in Triples /\ Pending \in Triples
    BY TripleOf DEF Unused, Pending
  <2> QED
    BY <2>1 DEF Init
<1>5. Types
  <2>1. Len(Orders) \in Nat /\ MaxSent \in Nat /\ MaxFaults \in Nat /\ CommandBytes \in Nat
    BY GuestAssumption, ScsiAssumption
  <2>2. Len(s.command) = 0
    BY <1>1
  <2>3. pc = "idle" /\ n = 0 /\ said = 0 /\ moved = 0 /\ ~armed /\ armed \in BOOLEAN
    BY DEF Init
  <2>4. sent = 0 /\ faults = 0
    BY DEF Init
  <2> QED
    BY <1>1, <1>2, <1>3, <1>4, <2>1, <2>2, <2>3, <2>4 DEF Types, Pcs
<1>6. Bus
  BY PoweredOnFields DEF Bus, Quiet, Init, NoLines
<1>7. Channel
  BY DEF Channel, Init, Started
<1> QED
  BY <1>5, <1>6, <1>7 DEF IInv, Command, Drive, Memory, Written, Verdict, Init

LEMMA BeginKeeps ==
  ASSUME IInv, Begin
  PROVE  IInv'
<1>1. Len(Orders) \in Nat /\ MaxSent \in Nat /\ CommandBytes \in Nat /\ MemSize \in Nat
  BY GuestAssumption, ScsiAssumption
<1>2. n' \in 1..Len(Orders) /\ n' > 0 /\ order' = Orders[n']
  BY <1>1 DEF Begin, order
<1>3. PICK o, T : o = Orders[n'] /\ T = Total(o)
  OBVIOUS
<1>4. T \in Nat /\ T < MemSize
  BY <1>2, <1>3, OrderFacts
<1>5. PICK u : u = sent'
  OBVIOUS
<1>6. sent \in Nat /\ u \in 0..MaxSent /\ u \in Int
  BY <1>1, <1>5 DEF Begin, IInv, Types
<1>7. DOMAIN mem = 0..(MemSize - 1)
  BY DEF IInv, Types
<1>8. mem' = [a \in 0..(MemSize - 1) |->
                IF o.op = "write" /\ a < T THEN <<-10 - u, At(o, a), 0>> ELSE Unused]
  BY <1>3, <1>5, <1>7 DEF Begin
<1>9. mem' \in [0..(MemSize - 1) -> Triples]
  <2>1. Unused \in Triples
    BY TripleOf DEF Unused
  <2>2. ASSUME NEW a \in 0..(MemSize - 1), a < T
        PROVE  <<-10 - u, At(o, a), 0>> \in Triples
    <3>1. At(o, a) \in Int
      BY <1>3, <1>4, <2>2 DEF At
    <3> QED
      BY <1>6, <3>1, TripleOf
  <2> QED
    BY <1>8, <2>1, <2>2
<1>10. d' \in Dmas /\ d'.timer = {} /\ d'.reached = {} /\ d'.mask = Channels
  <2>1. d \in Dmas /\ d.timer = {}
    BY DEF Begin, IInv, Types
  <2>2. PICK y : y = d'
    OBVIOUS
  <2>3. CASE y = status_r(mask_w(d, Channels))
    <3>1. PICK w : w = mask_w(d, Channels)
      OBVIOUS
    <3>2. w \in Dmas /\ w.timer = d.timer /\ w.mask = Channels
      BY <2>1, <3>1 DEF mask_w, Dmas
    <3>3. y \in Dmas /\ y.timer = w.timer /\ y.mask = w.mask /\ y.reached = {}
      BY <2>3, <3>1, <3>2 DEF status_r, Dmas
    <3> QED
      BY <2>1, <2>2, <3>2, <3>3
  <2>4. CASE y = soft_reset(d)
    <3>1. NoMode \in Modes /\ 0 \in Channels
      BY DEF NoMode, Modes, Channels
    <3>2. PICK m, c, w : m = [c1 \in Channels |-> NoMode] /\ c = Channels /\ w = {}
      OBVIOUS
    <3>3. m \in [Channels -> Modes] /\ c \in SUBSET Channels /\ w \in SUBSET Channels
      BY <3>1, <3>2
    <3>4. y = [d EXCEPT !.selected = 0, !.base = FALSE, !.mode = m,
                        !.disabled = FALSE, !.mask = c, !.reached = w]
      BY <2>4, <3>2 DEF soft_reset
    <3> QED
      BY <2>1, <2>2, <3>1, <3>2, <3>3, <3>4 DEF Dmas
  <2> QED
    BY <2>2, <2>3, <2>4 DEF Begin
<1>11. Types'
  <2>1. Pending \in Triples
    BY TripleOf DEF Pending
  <2>2. /\ pc' = "free" /\ said' = 0 /\ moved' = 0 /\ armed' = FALSE /\ status' = Pending
        /\ s' = s /\ t' = t /\ faults' = faults
    BY DEF Begin
  <2>3. /\ s \in Adapters /\ t \in [Ids -> Drives] /\ faults \in 0..MaxFaults
        /\ Len(s.command) <= CommandBytes
    BY DEF IInv, Types
  <2>4. n' \in 0..Len(Orders) /\ sent' \in 0..MaxSent /\ said' \in 0..CommandBytes
    BY <1>1, <1>2, <1>5, <1>6, <2>2
  <2>5. d' \in Dmas /\ n' > 0
    BY <1>2, <1>10
  <2> QED
    BY <1>9, <2>1, <2>2, <2>3, <2>4, <2>5 DEF Types, Pcs
<1>12. Bus'
  BY DEF Begin, IInv, Bus, Quiet
<1>13. Command' /\ Drive' /\ Verdict'
  BY DEF Begin, Command, Drive, Verdict
<1>14. Channel'
  BY <1>10, ChannelFact DEF Begin, Channel
<1>15. Got' = 0
  BY DEF Begin, Got
<1>16. Memory'
  <2>1. ASSUME NEW a \in T..(MemSize - 1)
        PROVE  mem'[a] = Unused
    BY <1>4, <1>8, <2>1
  <2>2. ASSUME o.op = "write", NEW i \in 0..(T - 1)
        PROVE  mem'[At(o, i)] = Payload(i)'
    <3>1. At(o, i) \in 0..(T - 1) /\ At(o, At(o, i)) = i
      BY <1>3, <1>4, AtFacts
    <3> QED
      BY <1>1, <1>4, <1>5, <1>8, <2>2, <3>1 DEF Payload
  <2>3. ASSUME o.op = "read", NEW i \in 0..(T - 1)
        PROVE  mem'[At(o, i)] = Unused
    <3>1. At(o, i) \in 0..(T - 1)
      BY <1>3, <1>4, AtFacts
    <3> QED
      BY <1>1, <1>4, <1>8, <2>3, <3>1
  <2> QED
    BY <1>2, <1>3, <1>4, <1>15, <2>1, <2>2, <2>3 DEF Memory
<1>17. Written'
  <2>1. order'.blocks \in Nat
    BY <1>2, OrderFacts DEF OrderKinds
  <2> QED
    BY <1>15, <2>1, ZeroSector DEF Written
<1> QED
  BY <1>11, <1>12, <1>13, <1>14, <1>16, <1>17 DEF IInv

LEMMA PieceDoneKeeps ==
  ASSUME IInv, PieceDone
  PROVE  IInv'
<1>1. d \in Dmas
  BY DEF IInv, Types
<1>2. PICK y : y = d'
  OBVIOUS
<1>3. y \in Dmas /\ y.timer = d.timer /\ y.mask = d.mask /\ y.reached = {}
      /\ y.count = d.count /\ y.mode = d.mode /\ y.address = d.address
  BY <1>1, <1>2 DEF PieceDone, status_r, Dmas
<1>4. Types'
  BY <1>2, <1>3 DEF PieceDone, IInv, Types
<1>5. Bus' /\ Command' /\ Drive' /\ Memory' /\ Written' /\ Verdict'
  BY DmaAlone DEF PieceDone
<1>6. order' = order
  BY DEF order, PieceDone
<1>7. Left = 0 /\ Left' = 0
  BY DEF Left, PieceDone
<1>8. Channel'
  <2>1. ScsiChannel \notin d.timer
    BY DEF PieceDone, IInv, Channel
  <2>2. ~(s.phase = "command") 
    BY DEF PieceDone, IInv, Channel
  <2> QED
    BY <1>2, <1>3, <1>6, <1>7, <2>1, <2>2 DEF PieceDone, IInv, Channel
<1> QED
  BY <1>4, <1>5, <1>8 DEF IInv

LEMMA DisableFields ==
  ASSUME NEW z \in Dmas, NEW b \in BOOLEAN
  PROVE  LET y == device_control_w(z, b)
         IN y \in Dmas /\ SameDma(y, z) /\ y.timer = z.timer
BY DEF device_control_w, Dmas, SameDma

\* The DMA controller is disabled or enabled.
LEMMA DisableKeeps ==
  ASSUME IInv, NEW b \in BOOLEAN, d' = device_control_w(d, b),
         UNCHANGED <<s, t, mem, pc, n, said, moved, armed, status, sent>>, faults' \in 0..MaxFaults
  PROVE  IInv'
<1>1. d \in Dmas
  BY DEF IInv, Types
<1>2. PICK y : y = d'
  OBVIOUS
<1>3. y \in Dmas /\ SameDma(y, d) /\ y.timer = d.timer
  BY <1>1, <1>2, DisableFields
<1>4. Types'
  BY <1>2, <1>3 DEF IInv, Types
<1>5. Bus' /\ Command' /\ Drive' /\ Memory' /\ Written' /\ Verdict'
  BY DmaAlone
<1>6. order' = order /\ Left' = Left
  BY <1>2, <1>3 DEF order, Left, SameDma
<1>7. Channel'
  BY <1>2, <1>3, <1>6 DEF IInv, Channel, SameDma
<1> QED
  BY <1>4, <1>5, <1>7 DEF IInv

LEMMA FaultType ==
  ASSUME Types, Fault
  PROVE  faults' \in 0..MaxFaults
BY GuestAssumption DEF Types, Fault

LEMMA PauseKeeps ==
  ASSUME IInv, PauseDma \/ ResumeDma
  PROVE  IInv'
<1>1. faults' \in 0..MaxFaults
  BY FaultType DEF PauseDma, ResumeDma, IInv, Types
<1> QED
  BY <1>1, DisableKeeps DEF PauseDma, ResumeDma

LEMMA DrainKeeps ==
  ASSUME IInv, Drain
  PROVE  IInv' /\ ImagesStay
<1>1. x0 \in Xs /\ x0.s = s /\ x0.d = d /\ x0.t = t
  BY TypedX DEF IInv
<1>2. PICK y : y = fmscsi_data_r(x0)
  OBVIOUS
<1>3. s' = y.s /\ d' = y.d /\ t' = y.t
  BY <1>2 DEF Drain, Becomes
<1>4. pc = "free" /\ s.next = "none" /\ s.phase \in {"bus_free", "status", "message_in"}
  BY DEF Drain, IInv, Bus
<1>5. /\ y \in Xs /\ SameXfer(y, x0) /\ y.t = x0.t /\ ~y.s.req /\ y.s.command = <<>>
      /\ s.phase = "bus_free" => y.s.next = "none"
      /\ s.phase # "bus_free" => y.s.next \in {"message_in", "bus_free"}
  <2>1. CASE s.phase = "bus_free"
    BY <1>1, <1>2, <1>4, <2>1, ReadIdleFields DEF IInv, Bus, Quiet
  <2>2. CASE s.phase # "bus_free"
    BY <1>1, <1>2, <1>4, <2>2, ReadEndFields
  <2> QED
    BY <2>1, <2>2
<1>6. order' = order /\ SameImages(t', t)
  BY <1>1, <1>3, <1>5 DEF Drain, order, SameImages
<1>7. Types'
  <2>1. Len(y.s.command) = 0 /\ CommandBytes \in Nat
    BY <1>5, ScsiAssumption
  <2> QED
    BY <1>2, <1>5, <2>1, TypesKept DEF Drain, IInv, Types
<1>8. Bus'
  BY <1>1, <1>3, <1>4, <1>5, <1>6 DEF Drain, IInv, Bus, Quiet, SameXfer, SameBus
<1>9. Command' /\ Drive' /\ Verdict'
  BY <1>4 DEF Drain, IInv, Bus, Command, Drive, Verdict
<1>10. Channel'
  BY <1>1, <1>3, <1>4, <1>5, <1>6 DEF Drain, IInv, Channel, SameXfer
<1>11. status = Pending /\ Got = 0 /\ Got' = 0
  BY <1>4 DEF Drain, IInv, Bus, Got
<1>12. Memory' /\ Written'
  BY <1>6, <1>11, DataKept DEF SameImages, Drain, IInv, Pending, Cut
<1> QED
  BY <1>6, <1>7, <1>8, <1>9, <1>10, <1>12 DEF IInv, SameImages, ImagesStay

LEMMA WriteIdKeeps ==
  ASSUME IInv, WriteId
  PROVE  IInv' /\ ImagesStay
<1>1. x0 \in Xs /\ x0.s = s /\ x0.d = d /\ x0.t = t
  BY TypedX DEF IInv
<1>2. PICK b : b = IdByte(order.id)
  OBVIOUS
<1>3. PICK y : y = fmscsi_data_w(x0, b)
  OBVIOUS
<1>4. s' = y.s /\ d' = y.d /\ t' = y.t
  BY <1>2, <1>3 DEF WriteId, Becomes
<1>5. pc = "free" /\ s.next = "none" /\ s.phase = "bus_free" /\ n > 0
  BY DEF WriteId, IInv, Bus, Types
<1>6. b \in Triples /\ b[1] = -3 /\ b[2] = order.id /\ order.id \in 0..4
  <2>1. order.id \in 0..4 /\ order.id \in Int
    BY <1>5, OrderType DEF IInv
  <2> QED
    BY <1>2, <2>1, TripleOf DEF IdByte
<1>7. /\ y \in Xs /\ SameXfer(y, x0) /\ y.t = x0.t /\ ~y.s.req
      /\ y.s.next = x0.s.next /\ y.s.command = x0.s.command /\ y.s.target = order.id
  BY <1>1, <1>3, <1>5, <1>6, WriteIdFields
<1>8. order' = order /\ SameImages(t', t)
  BY <1>1, <1>4, <1>7 DEF WriteId, order, SameImages
<1>9. Types'
  <2>1. Len(y.s.command) <= CommandBytes
    BY <1>1, <1>7 DEF IInv, Types
  <2> QED
    BY <1>2, <1>3, <1>5, <1>7, <2>1, TypesKept DEF WriteId, IInv, Types, Pcs
<1>10. Bus'
  BY <1>1, <1>4, <1>5, <1>7, <1>8 DEF WriteId, IInv, Bus, Quiet, SameXfer, SameBus
<1>11. Command' /\ Drive' /\ Verdict'
  BY <1>5 DEF WriteId, IInv, Bus, Command, Drive, Verdict
<1>12. Channel'
  BY <1>1, <1>4, <1>5, <1>7, <1>8 DEF WriteId, IInv, Channel, SameXfer
<1>13. status = Pending /\ Got = 0 /\ Got' = 0
  BY <1>5 DEF WriteId, IInv, Bus, Got
<1>14. Memory' /\ Written'
  BY <1>8, <1>13, DataKept DEF SameImages, WriteId, IInv, Pending, Cut
<1> QED
  BY <1>8, <1>9, <1>10, <1>11, <1>12, <1>14 DEF IInv, SameImages, ImagesStay

LEMMA OutFields ==
  ASSUME Types, n > 0, NEW sel \in BOOLEAN, NEW atn \in BOOLEAN
  PROVE  LET o == Out(sel, atn)
         IN o \in Outs /\ o.atn = atn /\ o.sel = sel /\ o.dmae = order.dma
<1>1. order.dma \in BOOLEAN /\ order.irq \in BOOLEAN
  BY OrderType DEF OrderKinds
<1> QED
  BY <1>1 DEF Out, Outs

LEMMA SelectKeeps ==
  ASSUME IInv, Select
  PROVE  IInv' /\ ImagesStay
<1>1. x0 \in Xs /\ x0.s = s /\ x0.d = d /\ x0.t = t
  BY TypedX DEF IInv
<1>2. PICK o : o = Out(TRUE, FALSE)
  OBVIOUS
<1>3. PICK y : y = fmscsi_control_w(x0, FALSE, o)
  OBVIOUS
<1>4. s' = y.s /\ d' = y.d /\ t' = y.t
  BY <1>2, <1>3 DEF Select, Becomes
<1>5. pc = "select" /\ s.next = "none" /\ s.target = order.id /\ ~s.out.sel /\ n > 0
  BY DEF Select, IInv, Bus, Types
<1>6. o \in Outs /\ ~o.atn /\ o.sel /\ o.dmae = order.dma
  BY <1>2, <1>5, OutFields DEF IInv
<1>7. /\ y \in Xs /\ SameControl(y, x0) /\ y.s.selected = order.id /\ y.s.out = o
      /\ order.id \in Ids => y.s.next = "command"
      /\ order.id \notin Ids => y.s.next = "none"
  BY <1>1, <1>3, <1>5, <1>6, SelectFields, ZenonT(30)
<1>8. order' = order /\ SameImages(t', t)
  BY <1>1, <1>4, <1>7 DEF Select, order, SameImages, SameControl
<1>9. Types'
  <2>1. Len(y.s.command) <= CommandBytes
    BY <1>1, <1>7 DEF IInv, Types, SameControl
  <2> QED
    BY <1>2, <1>3, <1>5, <1>7, <2>1, TypesKept DEF Select, IInv, Types, Pcs
<1>10. Bus'
  BY <1>1, <1>4, <1>5, <1>6, <1>7, <1>8 DEF Select, IInv, Bus, Quiet, SameControl
<1>11. Command' /\ Drive' /\ Verdict'
  BY <1>5 DEF Select, IInv, Bus, Command, Drive, Verdict
<1>12. Channel'
  BY <1>1, <1>4, <1>5, <1>7, <1>8 DEF Select, IInv, Channel, SameControl
<1>13. status = Pending /\ Got = 0 /\ Got' = 0
  BY <1>5 DEF Select, IInv, Bus, Got
<1>14. Memory' /\ Written'
  BY <1>8, <1>13, DataKept DEF SameImages, Select, IInv, Pending, Cut
<1> QED
  BY <1>8, <1>9, <1>10, <1>11, <1>12, <1>14 DEF IInv, SameImages, ImagesStay

LEMMA NothingSpoken ==
  ASSUME said = 0
  PROVE  Spoken = <<>>
BY DEF Spoken

LEMMA AnsweredKeeps ==
  ASSUME IInv, Answered
  PROVE  IInv' /\ ImagesStay
<1>1. x0 \in Xs /\ x0.s = s /\ x0.d = d /\ x0.t = t
  BY TypedX DEF IInv
<1>2. PICK o : o = Out(FALSE, FALSE)
  OBVIOUS
<1>3. PICK y : y = fmscsi_control_w(x0, FALSE, o)
  OBVIOUS
<1>4. s' = y.s /\ d' = y.d /\ t' = y.t
  BY <1>2, <1>3 DEF Answered, Becomes
<1>5. pc = "busy" /\ n > 0 /\ said = 0 /\ status = Pending
  BY DEF Answered, IInv, Bus, Types
<1>6. o \in Outs /\ ~o.atn /\ ~o.sel /\ o.dmae = order.dma
  BY <1>2, <1>5, OutFields DEF IInv
<1>7. /\ y \in Xs /\ SameControl(y, x0) /\ y.s.next = x0.s.next
      /\ y.s.selected = x0.s.selected /\ y.s.out = o
  BY <1>1, <1>3, <1>6, ReleaseFields
<1>8. order' = order /\ SameImages(t', t)
  BY <1>1, <1>4, <1>7 DEF Answered, order, SameImages, SameControl
<1>9. Types'
  <2>1. Len(y.s.command) <= CommandBytes
    BY <1>1, <1>7 DEF IInv, Types, SameControl
  <2>2. pc' \in Pcs
    BY DEF Answered, Pcs
  <2> QED
    BY <1>2, <1>3, <1>5, <1>7, <2>1, <2>2, TypesKept DEF Answered, IInv, Types
<1>10. /\ s.bsy => pc' = "run" /\ s.phase = "command" /\ s.next = "none" /\ order.id \in Ids
       /\ ~s.bsy => pc' = "idle" /\ s.phase = "bus_free" /\ s.next = "none"
       /\ ~s.transfer /\ s.command = <<>> /\ s.selected = order.id
  BY <1>5 DEF Answered, IInv, Bus
<1>11. Bus'
  BY <1>1, <1>4, <1>5, <1>6, <1>7, <1>8, <1>10
  DEF Answered, IInv, Bus, Quiet, SameControl, InDataPhase
<1>12. Command'
  <2>1. said' = 0 /\ Spoken' = <<>> /\ CommandBytes \in Nat \ {0}
    BY <1>5, NothingSpoken, ScsiAssumption DEF Answered, Spoken
  <2> QED
    BY <1>1, <1>4, <1>5, <1>7, <1>10, <2>1 DEF Answered, Command, SameControl, InDataPhase
<1>13. Drive'
  <2>1. said' = 0 /\ CommandBytes \in Nat \ {0}
    BY <1>5, ScsiAssumption DEF Answered
  <2>2. pc' = "run" => s'.phase = "command"
    BY <1>1, <1>4, <1>7, <1>10 DEF SameControl
  <2> QED
    BY <2>1, <2>2 DEF Drive
<1>14. Channel'
  BY <1>1, <1>4, <1>5, <1>7, <1>8, <1>10 DEF Answered, IInv, Channel, SameControl, InDataPhase
<1>15. Got = 0 /\ Got' = 0
  BY <1>1, <1>4, <1>5, <1>7, <1>10 DEF Answered, Got, SameControl, InDataPhase
<1>16. Memory' /\ Written'
  BY <1>5, <1>8, <1>15, DataKept DEF SameImages, Answered, IInv, Pending, Cut
<1>17. Verdict'
  BY <1>5 DEF Answered, Verdict
<1> QED
  BY <1>8, <1>9, <1>11, <1>12, <1>13, <1>14, <1>16, <1>17 DEF IInv, SameImages, ImagesStay

\* What the guest sees is the phase the adapter is in.
LEMMA SeesFacts ==
  ASSUME IInv, NEW p \in Phases \ {"bus_free"}, Sees(p)
  PROVE  pc = "run" /\ s.req /\ s.bsy /\ s.phase = p /\ n > 0
<1>1. pc = "run" /\ s.req /\ s.bsy /\ s.lines = Shown(p)
  BY DEF Sees
<1>2. s.phase # "bus_free" /\ s.phase \in Phases /\ s.lines = Shown(s.phase) /\ n > 0
  BY <1>1 DEF IInv, Bus, Types, Adapters
<1>3. PICK a, b : a = Shown(s.phase) /\ b = Shown(p)
  OBVIOUS
<1>4. a.cd = b.cd /\ a.msg = b.msg /\ a.io = b.io
  BY <1>1, <1>2, <1>3
<1>5. s.phase = p
  BY <1>2, <1>3, <1>4 DEF Shown, Phases
<1> QED
  BY <1>1, <1>2, <1>5

LEMMA SendCommandKeeps ==
  ASSUME IInv, SendCommand
  PROVE  IInv' /\ ImagesStay
<1>1. x0 \in Xs /\ x0.s = s /\ x0.d = d /\ x0.t = t
  BY TypedX DEF IInv
<1>2. "command" \in Phases \ {"bus_free"}
  BY DEF Phases
<1>3. pc = "run" /\ s.phase = "command" /\ n > 0
  BY <1>2, SeesFacts DEF SendCommand
<1>4. PICK k, i : k = said /\ i = n
  OBVIOUS
<1>5. k \in Nat /\ k < CommandBytes /\ CommandBytes \in Nat /\ said' = k + 1
  BY <1>4, ScsiAssumption DEF SendCommand, IInv, Types
<1>6. i \in 1..Len(Orders) /\ Orders[i] = order
  BY <1>3, <1>4, OrderType DEF IInv, order
<1>7. s.command = Bytes(i, k) /\ status = Pending
  BY <1>3, <1>4 DEF IInv, Command, Spoken, Bytes
<1>8. s.selected = order.id /\ order.id \in Ids
  BY <1>3 DEF IInv, Bus
<1>9. PICK y : y = fmscsi_data_w(x0, CommandByte(i, k + 1))
  OBVIOUS
<1>10. s' = y.s /\ d' = y.d /\ t' = y.t
  BY <1>4, <1>9 DEF SendCommand, Becomes
<1>11. /\ y \in Xs /\ SameBus(y.s, s) /\ y.d = d /\ ~y.s.req
       /\ y.s.transfer = s.transfer /\ y.s.target = s.target
       /\ y.s.command = Bytes(i, k + 1)
       /\ k + 1 < CommandBytes => y.s.next = "command" /\ y.t = t
       /\ k + 1 = CommandBytes =>
            /\ y.s.next = Phase(order) /\ y.s.length = Length(order)
            /\ Takes(y.t[order.id], t[order.id], order)
            /\ \A j \in Ids : j # order.id => y.t[j] = t[j]
  BY <1>1, <1>3, <1>5, <1>6, <1>7, <1>8, <1>9, CommandFields
<1>12. order' = order
  BY DEF SendCommand, order
<1>13. k + 1 < CommandBytes \/ k + 1 = CommandBytes
  BY <1>5
<1>14. \A id \in Ids : t'[id].image = t[id].image
  BY <1>8, <1>10, <1>11, <1>13 DEF Takes
<1>15. Types'
  <2>1. Len(y.s.command) = k + 1 /\ said' \in 0..CommandBytes
    <3>1. i \in Nat /\ k + 1 \in Nat /\ k + 1 \in 0..CommandBytes
      BY <1>5, <1>6
    <3>2. Len(Bytes(i, k + 1)) = k + 1
      BY <3>1, CommandByteFacts
    <3> QED
      BY <1>5, <1>11, <3>1, <3>2
  <2>2. Len(y.s.command) <= CommandBytes
    BY <1>5, <2>1
  <2>3. Types /\ n' = n /\ sent' = sent /\ Becomes(y)
    BY <1>10 DEF SendCommand, IInv, Becomes
  <2>4. /\ mem' \in [0..(MemSize - 1) -> Triples] /\ pc' \in Pcs /\ moved' \in Nat
        /\ armed' \in BOOLEAN /\ status' \in Triples /\ faults' \in 0..MaxFaults
    BY DEF SendCommand, IInv, Types
  <2> QED
    BY <1>3, <1>11, <2>1, <2>2, <2>3, <2>4, TypesKept
<1>16. s'.phase = "command" /\ InDataPhase(s)' = FALSE
  BY <1>3, <1>10, <1>11 DEF SameBus, InDataPhase
<1>17. Bus'
  <2>1. ~s.transfer
    BY <1>3 DEF IInv, Bus, InDataPhase
  <2> QED
    BY <1>3, <1>7, <1>8, <1>10, <1>11, <1>12, <1>16, <2>1 DEF SendCommand, IInv, Bus, SameBus
<1>18. Command'
  <2>1. Spoken' = Bytes(i, k + 1)
    BY <1>4, <1>5 DEF SendCommand, Spoken, Bytes
  <2>2. Phase(order) # "none"
    BY DEF Phase
  <2> QED
    BY <1>3, <1>5, <1>7, <1>10, <1>11, <1>12, <1>13, <1>16, <2>1, <2>2
    DEF SendCommand, Command, Takes
<1>19. Channel'
  BY <1>3, <1>10, <1>11, <1>12, <1>16 DEF SendCommand, IInv, Channel, InDataPhase
<1>20. Drive'
  BY <1>5, <1>10, <1>11, <1>12, <1>16 DEF SendCommand, Drive, Takes
<1>21. Got = 0 /\ Got' = 0
  BY <1>3, <1>7, <1>16 DEF SendCommand, Got, InDataPhase
<1>22. Memory' /\ Written'
  BY <1>7, <1>14, <1>21, DataKept DEF SendCommand, IInv, Pending, Cut
<1>23. Verdict'
  BY <1>7 DEF SendCommand, Verdict
<1> QED
  BY <1>14, <1>15, <1>17, <1>18, <1>19, <1>20, <1>22, <1>23 DEF IInv, ImagesStay

\* STATUS and MESSAGE IN are read.
LEMMA ReadEndKeeps ==
  ASSUME IInv, ReadStatus \/ ReadMessage
  PROVE  IInv' /\ ImagesStay
<1>1. x0 \in Xs /\ x0.s = s /\ x0.d = d /\ x0.t = t
  BY TypedX DEF IInv
<1>2. {"status", "message_in"} \subseteq Phases \ {"bus_free"}
  BY DEF Phases
<1>3. /\ pc = "run" /\ n > 0
      /\ ReadStatus => s.phase = "status"
      /\ ReadMessage => s.phase = "message_in"
  BY <1>2, SeesFacts DEF ReadStatus, ReadMessage
<1>4. PICK y : y = fmscsi_data_r(x0)
  OBVIOUS
<1>5. s' = y.s /\ d' = y.d /\ t' = y.t
  BY <1>4 DEF ReadStatus, ReadMessage, Becomes
<1>6. UNCHANGED <<mem, pc, n, said, moved, armed, sent, faults>>
  BY DEF ReadStatus, ReadMessage
<1>7. /\ y \in Xs /\ SameXfer(y, x0) /\ y.t = x0.t /\ ~y.s.req
      /\ y.s.command = <<>> /\ y.s.target = x0.s.target
      /\ s.phase = "status" => y.s.next = "message_in"
      /\ s.phase = "message_in" => y.s.next = "bus_free"
      /\ s.phase = "status" => y.s.data = <<-2, IF s.selected \in Ids \ Loaded THEN 2 ELSE 0, 0>>
  BY <1>1, <1>3, <1>4, ReadEndFields
<1>8. order' = order /\ SameImages(t', t)
  BY <1>1, <1>5, <1>6, <1>7 DEF order, SameImages
<1>9. s.selected = order.id /\ order.id \in Ids
  BY <1>3 DEF IInv, Bus
<1>10. /\ status' \in Triples /\ status' # Pending /\ (status' = Cut <=> status = Cut)
       /\ status' # Cut => status'[2] = IF order.id \in Loaded THEN 0 ELSE 2
  <2>1. CASE ReadStatus
    <3>1. PICK v : v = IF s.selected \in Ids \ Loaded THEN 2 ELSE 0
      OBVIOUS
    <3>2. PICK w : w = <<-2, v, 0>>
      OBVIOUS
    <3>3. w \in Triples /\ w[1] = -2 /\ w[2] = v
      BY <3>1, <3>2, TripleOf
    <3>4. Pending[1] = -7 /\ Cut[1] = -8 /\ Cut \in Triples
      BY TripleOf DEF Pending, Cut
    <3>5. status' = IF status = Cut THEN Cut ELSE w
      BY <1>3, <1>5, <1>7, <2>1, <3>1, <3>2 DEF ReadStatus
    <3> QED
      BY <1>9, <3>1, <3>3, <3>4, <3>5
  <2>2. CASE ReadMessage
    <3>1. status' = status /\ status # Pending /\ status \in Triples
      BY <1>3, <2>2 DEF ReadMessage, IInv, Bus, Types
    <3>2. status # Cut => status[2] = IF order.id \in Loaded THEN 0 ELSE 2
      BY <1>3, <3>1 DEF IInv, Verdict
    <3> QED
      BY <3>1, <3>2
  <2> QED
    BY <2>1, <2>2
<1>11. Types'
  <2>1. Len(y.s.command) = 0 /\ CommandBytes \in Nat
    BY <1>7, ScsiAssumption
  <2> QED
    BY <1>3, <1>4, <1>6, <1>7, <1>10, <2>1, TypesKept DEF ReadStatus, ReadMessage, IInv, Types
<1>12. s'.phase = s.phase /\ InDataPhase(s)' = FALSE /\ s.phase \in {"status", "message_in"}
  BY <1>1, <1>3, <1>5, <1>7 DEF InDataPhase, SameXfer, SameBus
<1>13. Bus'
  BY <1>1, <1>3, <1>5, <1>6, <1>7, <1>8, <1>9, <1>10, <1>12
  DEF IInv, Bus, SameXfer, SameBus, InDataPhase
<1>14. Command' /\ Drive'
  BY <1>12 DEF Command, Drive
<1>15. Channel'
  BY <1>1, <1>3, <1>5, <1>6, <1>7, <1>8, <1>12 DEF IInv, Channel, SameXfer, InDataPhase
<1>16. status # Cut => Got = Total(order) /\ Got' = Total(order)
  <2>1. s.phase = "message_in" => status # Pending
    BY <1>3 DEF IInv, Bus
  <2> QED
    BY <1>3, <1>8, <1>10, <1>12, <2>1 DEF Got
<1>17. Memory' /\ Written'
  BY <1>6, <1>8, <1>10, <1>16, DataKept DEF IInv, SameImages
<1>18. Verdict'
  BY <1>8, <1>10 DEF Verdict
<1> QED
  BY <1>8, <1>11, <1>13, <1>14, <1>15, <1>17, <1>18 DEF IInv, SameImages, ImagesStay

LEMMA WriteMessageKeeps ==
  ASSUME IInv, WriteMessage
  PROVE  IInv' /\ ImagesStay
<1>1. x0 \in Xs /\ x0.s = s /\ x0.d = d /\ x0.t = t
  BY TypedX DEF IInv
<1>2. "message_out" \in Phases \ {"bus_free"} /\ Zero \in Triples
  BY ZeroBuffers DEF Phases
<1>3. pc = "run" /\ n > 0 /\ s.phase = "message_out"
  BY <1>2, SeesFacts DEF WriteMessage
<1>4. PICK y : y = fmscsi_data_w(x0, Zero)
  OBVIOUS
<1>5. s' = y.s /\ d' = y.d /\ t' = y.t
  BY <1>4 DEF WriteMessage, Becomes
<1>6. UNCHANGED <<mem, pc, n, said, moved, armed, status, sent, faults>>
  BY DEF WriteMessage
<1>7. /\ y \in Xs /\ SameXfer(y, x0) /\ y.t = x0.t /\ ~y.s.req
      /\ y.s.next = "status" /\ y.s.command = x0.s.command /\ y.s.target = x0.s.target
  BY <1>1, <1>2, <1>3, <1>4, WriteMessageFields
<1>8. order' = order /\ SameImages(t', t)
  BY <1>1, <1>5, <1>6, <1>7 DEF order, SameImages
<1>9. status = Cut
  BY <1>3 DEF IInv, Bus
<1>10. Types'
  <2>1. Len(y.s.command) <= CommandBytes
    BY <1>1, <1>7 DEF IInv, Types
  <2> QED
    BY <1>3, <1>4, <1>6, <1>7, <2>1, TypesKept DEF WriteMessage, IInv, Types
<1>11. s'.phase = "message_out" /\ InDataPhase(s)' = FALSE
  BY <1>1, <1>3, <1>5, <1>7 DEF InDataPhase, SameXfer, SameBus
<1>12. Bus'
  BY <1>1, <1>3, <1>5, <1>6, <1>7, <1>8, <1>9, <1>11
  DEF IInv, Bus, SameXfer, SameBus, InDataPhase
<1>13. Command' /\ Drive'
  BY <1>11 DEF Command, Drive
<1>14. Channel'
  BY <1>1, <1>3, <1>5, <1>6, <1>7, <1>8, <1>11 DEF IInv, Channel, SameXfer, InDataPhase
<1>15. Memory' /\ Written'
  BY <1>6, <1>8, <1>9, DataKept DEF IInv, SameImages
<1>16. Verdict'
  BY <1>6, <1>9 DEF Verdict
<1> QED
  BY <1>8, <1>10, <1>12, <1>13, <1>14, <1>15, <1>16 DEF IInv, SameImages, ImagesStay

LEMMA EndKeeps ==
  ASSUME IInv, End
  PROVE  IInv'
<1>1. pc = "run" /\ ~s.bsy /\ pc' = "idle"
      /\ UNCHANGED <<s, d, t, mem, n, said, moved, armed, status, sent, faults>>
  BY DEF End, device
<1>2. /\ s.phase = "bus_free" /\ s.next = "none" /\ ~s.transfer /\ s.command = <<>>
      /\ status # Pending
  BY <1>1 DEF IInv, Bus, InDataPhase
<1>3. order' = order
  BY <1>1 DEF order
<1>4. Types'
  BY <1>1 DEF IInv, Types, Pcs
<1>5. Bus'
  BY <1>1, <1>2, <1>3 DEF IInv, Bus, Quiet
<1>6. Command' /\ Drive' /\ Verdict'
  BY <1>1, <1>3 DEF IInv, Command, Drive, Verdict
<1>7. Channel'
  BY <1>1, <1>2, <1>3 DEF IInv, Channel, InDataPhase
<1>8. Got' = Got
  BY <1>1, <1>2, <1>3 DEF Got
<1>9. Memory' /\ Written'
  BY <1>1, <1>8, DataKept DEF IInv
<1> QED
  BY <1>4, <1>5, <1>6, <1>7, <1>9 DEF IInv

LEMMA GiveUpKeeps ==
  ASSUME IInv, GiveUp, faults' \in 0..MaxFaults
  PROVE  IInv' /\ ImagesStay
<1>1. x0 \in Xs /\ x0.s = s /\ x0.d = d /\ x0.t = t
  BY TypedX DEF IInv
<1>2. "command" \in Phases \ {"bus_free"}
  BY DEF Phases
<1>3. pc = "run" /\ s.phase = "command" /\ n > 0 /\ s.bsy
  BY <1>2, SeesFacts DEF GiveUp
<1>4. PICK o : o = Out(FALSE, TRUE)
  OBVIOUS
<1>5. PICK y : y = fmscsi_control_w(x0, FALSE, o)
  OBVIOUS
<1>6. s' = y.s /\ d' = y.d /\ t' = y.t /\ Becomes(y)
  BY <1>4, <1>5 DEF GiveUp, Becomes
<1>7. /\ pc' = "attention" /\ status' = Cut
      /\ UNCHANGED <<mem, n, said, moved, armed, sent>>
  BY DEF GiveUp
<1>8. o \in Outs /\ o.atn /\ ~o.sel /\ o.dmae = order.dma
  BY <1>3, <1>4, OutFields DEF IInv
<1>9. /\ y \in Xs /\ SameControl(y, x0)
      /\ y.s.next = "message_out" /\ y.s.selected = x0.s.selected /\ y.s.out = o
  BY <1>1, <1>5, <1>8, AttentionFields
<1>10. order' = order /\ SameImages(t', t)
  BY <1>1, <1>6, <1>7, <1>9 DEF order, SameImages, SameControl
<1>11. Types'
  <2>1. Len(y.s.command) <= CommandBytes
    BY <1>1, <1>9 DEF IInv, Types, SameControl
  <2>2. pc' \in Pcs /\ status' \in Triples
    BY <1>7, TripleOf DEF Pcs, Cut
  <2> QED
    BY <1>3, <1>6, <1>7, <1>9, <2>1, <2>2, TypesKept DEF IInv, Types
<1>12. s.selected = order.id /\ order.id \in Ids /\ ~s.transfer
  BY <1>3 DEF IInv, Bus, InDataPhase
<1>13. Bus'
  BY <1>1, <1>3, <1>6, <1>7, <1>8, <1>9, <1>10, <1>12 DEF IInv, Bus, SameControl
<1>14. Command' /\ Drive' /\ Verdict'
  BY <1>7 DEF Command, Drive, Verdict
<1>15. Channel'
  BY <1>1, <1>3, <1>6, <1>7, <1>9, <1>10 DEF IInv, Channel, SameControl, InDataPhase
<1>16. Memory' /\ Written'
  BY <1>7, <1>10, DataKept DEF IInv, SameImages
<1> QED
  BY <1>10, <1>11, <1>13, <1>14, <1>15, <1>16 DEF IInv, SameImages, ImagesStay

LEMMA AttendedKeeps ==
  ASSUME IInv, Attended
  PROVE  IInv'
<1>1. pc = "attention" /\ s.lines.msg /\ pc' = "run" /\ n > 0
      /\ UNCHANGED <<s, d, t, mem, n, said, moved, armed, status, sent, faults>>
  BY DEF Attended, device, IInv, Types
<1>2. /\ s.phase = "message_out" /\ s.next = "none" /\ ~s.transfer /\ s.bsy
      /\ status = Cut /\ s.selected = order.id /\ order.id \in Ids /\ s.out.dmae = order.dma
  <2>1. ~Shown("command").msg
    BY DEF Shown
  <2>2. s.phase # "command"
    BY <1>1, <2>1 DEF IInv, Bus
  <2> QED
    BY <1>1, <2>2 DEF IInv, Bus
<1>3. order' = order
  BY <1>1 DEF order
<1>4. Types'
  BY <1>1 DEF IInv, Types, Pcs
<1>5. Bus'
  BY <1>1, <1>2, <1>3 DEF IInv, Bus
<1>6. Command' /\ Drive' /\ Verdict'
  BY <1>1, <1>2 DEF Command, Drive, Verdict, InDataPhase
<1>7. Channel'
  BY <1>1, <1>2, <1>3 DEF IInv, Channel, InDataPhase
<1>8. Memory' /\ Written'
  BY <1>1, <1>2, DataKept DEF IInv
<1> QED
  BY <1>4, <1>5, <1>6, <1>7, <1>8 DEF IInv

LEMMA ResetKeeps ==
  ASSUME IInv, Reset
  PROVE  IInv' /\ ImagesStay
<1>1. x0 \in Xs /\ x0.s = s /\ x0.d = d /\ x0.t = t
  BY TypedX DEF IInv
<1>2. PICK imsk \in BOOLEAN : Becomes(fmscsi_control_w(x0, TRUE, [NoLines EXCEPT !.imsk = imsk]))
  BY DEF Reset
<1>3. PICK o : o = [NoLines EXCEPT !.imsk = imsk]
  OBVIOUS
<1>4. o \in Outs /\ ~o.atn /\ ~o.sel
  BY <1>3 DEF NoLines, Outs
<1>5. PICK y : y = fmscsi_control_w(x0, TRUE, o)
  OBVIOUS
<1>6. s' = y.s /\ d' = y.d /\ t' = y.t /\ Becomes(y)
  BY <1>2, <1>3, <1>5 DEF Becomes
<1>7. /\ y \in Xs /\ y.d = d /\ y.t = t
      /\ y.s.phase = "bus_free" /\ y.s.next = "status" /\ ~y.s.transfer
      /\ ~y.s.bsy /\ y.s.lines = Shown("bus_free") /\ y.s.command = <<>> /\ y.s.out = o
  BY <1>1, <1>4, <1>5, ResetFields
<1>8. /\ pc' = "idle" /\ status' = Cut /\ n > 0
      /\ UNCHANGED <<mem, n, said, moved, armed, sent>>
  BY DEF Reset
<1>9. order' = order /\ SameImages(t', t)
  BY <1>6, <1>7, <1>8 DEF order, SameImages
<1>10. Types'
  <2>1. Len(y.s.command) = 0 /\ CommandBytes \in Nat
    BY <1>7, ScsiAssumption
  <2>2. pc' \in Pcs /\ status' \in Triples /\ faults' \in 0..MaxFaults
    BY <1>8, TripleOf, FaultType DEF Pcs, Cut, Reset, IInv
  <2> QED
    BY <1>6, <1>7, <1>8, <2>1, <2>2, TypesKept DEF IInv, Types
<1>11. Bus'
  BY <1>4, <1>6, <1>7, <1>8 DEF Bus, Quiet
<1>12. Command' /\ Drive' /\ Verdict'
  BY <1>8 DEF Command, Drive, Verdict
<1>13. Channel'
  BY <1>6, <1>7, <1>8, <1>9 DEF IInv, Channel
<1>14. Memory' /\ Written'
  BY <1>8, <1>9, DataKept DEF IInv, SameImages
<1> QED
  BY <1>9, <1>10, <1>11, <1>12, <1>13, <1>14 DEF IInv, SameImages, ImagesStay

-----------------------------------------------------------------------------
(* The data phases *)

\* What is known in a data phase.
LEMMA DataPhase ==
  ASSUME IInv, pc = "run", InDataPhase(s)
  PROVE  /\ n > 0 /\ status = Pending /\ s.phase = Phase(order)
         /\ s.selected = order.id /\ order.id \in Ids /\ s.out.dmae = order.dma
         /\ t[order.id].op = order.op /\ s.length = Length(order)
         /\ order.op \in {"read", "write"} => s.length = Total(order)
         /\ s.phase = "datain" => order.op \in {"read", "inquiry"}
         /\ s.phase = "dataout" => order.op \in {"write", "parameter"}
<1>1. n > 0 /\ s.selected = order.id /\ order.id \in Ids /\ s.out.dmae = order.dma
  BY DEF IInv, Types, Bus
<1>2. status = Pending /\ said = CommandBytes /\ s.phase = Phase(order)
  BY DEF IInv, Command
<1>3. status # Cut
  <2>1. Pending[1] = -7 /\ Cut[1] = -8
    BY TripleOf DEF Pending, Cut
  <2> QED
    BY <1>2, <2>1
<1>4. t[order.id].op = order.op /\ s.length = Length(order)
  BY <1>2, <1>3 DEF IInv, Command
<1>5. order.op \in {"read", "write"} => s.length = Total(order)
  BY <1>4 DEF Length
<1>6. order.op \in {"read", "write", "inquiry", "parameter", "ready", "other"}
  BY <1>1, OrderType DEF IInv, OrderKinds
<1>7. /\ s.phase = "datain" => order.op \in {"read", "inquiry"}
      /\ s.phase = "dataout" => order.op \in {"write", "parameter"}
  BY <1>2, <1>6 DEF Phase
<1> QED
  BY <1>1, <1>2, <1>4, <1>5, <1>7

LEMMA TransferTimerKeeps ==
  ASSUME IInv, TransferTimer
  PROVE  IInv' /\ ImagesStay
<1>1. x0 \in Xs /\ x0.s = s /\ x0.d = d /\ x0.t = t
  BY TypedX DEF IInv
<1>2. PICK y : y = update_transfer(x0)
  OBVIOUS
<1>3. s' = y.s /\ d' = y.d /\ t' = y.t /\ Becomes(y)
  BY <1>2 DEF TransferTimer, Becomes
<1>4. s.transfer /\ d.timer = {}
      /\ UNCHANGED <<mem, pc, n, said, moved, armed, status, sent, faults>>
  BY DEF TransferTimer
<1>5. /\ y \in Xs /\ y.t = t /\ SameBus(y.s, s) /\ SameData(y.s, s)
      /\ y.s.req /\ y.s.next = s.next /\ y.s.target = s.target
      /\ y.s.transfer = s.transfer
      /\ SameDma(y.d, d)
      /\ ~s.out.dmae => y.d = d
      /\ y.d.timer \subseteq {ScsiChannel}
      /\ y.d.timer = {} \/ ScsiChannel \notin d.mask
  BY <1>1, <1>2, <1>4, TransferFields
<1>6. pc = "run" /\ InDataPhase(s)
  BY <1>4 DEF IInv, Bus, Quiet, Types, Pcs
<1>7. order' = order /\ Left' = Left /\ Got' = Got /\ Spoken' = Spoken /\ InDataPhase(s')
      /\ SameImages(t', t)
  BY <1>3, <1>4, <1>5, <1>6
  DEF order, Left, Got, Spoken, InDataPhase, SameImages, SameBus, SameData, SameDma
<1>8. /\ n > 0 /\ status = Pending /\ s.out.dmae = order.dma
      /\ order.op \in {"read", "write"} => s.length = Total(order)
  BY <1>6, DataPhase
<1>9. Types'
  <2>1. Len(y.s.command) <= CommandBytes
    BY <1>5 DEF IInv, Types, SameData
  <2> QED
    BY <1>3, <1>4, <1>5, <1>8, <2>1, TypesKept DEF IInv, Types
<1>10. Bus'
  BY <1>3, <1>4, <1>5, <1>6, <1>7 DEF IInv, Bus, SameBus, SameData, InDataPhase
<1>11. Command'
  BY <1>3, <1>4, <1>5, <1>6, <1>7 DEF IInv, Command, SameBus, SameData, InDataPhase
<1>12. Drive'
  BY <1>3, <1>4, <1>5, <1>6, <1>7 DEF IInv, Drive, SameBus, SameData, Payload
<1>13. Memory' /\ Written'
  BY <1>4, <1>7, <1>8, DataKept DEF IInv, SameImages, Pending, Cut
<1>14. Verdict'
  BY <1>4, <1>8 DEF Verdict
<1>15. Channel'
  <2>1. ASSUME ScsiChannel \in d'.timer
        PROVE  /\ armed /\ ScsiChannel \notin d.reached
               /\ d.address[ScsiChannel] \in 0..(Total(order) - 1)
               /\ d.mode[ScsiChannel].direction = IF order.op = "write" THEN "out" ELSE "in"
    <3>1. ScsiChannel \notin d.mask
      BY <1>3, <1>5, <2>1
    <3>2. armed /\ ScsiChannel \notin d.reached /\ order.dma
      BY <1>4, <1>6, <3>1 DEF IInv, Channel
    <3>3. /\ d.address[ScsiChannel] = At(order, s.index) /\ s.index < s.length
          /\ d.mode[ScsiChannel].direction = IF order.op = "write" THEN "out" ELSE "in"
      BY <1>4, <1>6, <3>2 DEF IInv, Channel
    <3>4. s.length = Total(order) /\ Total(order) \in Nat
      BY <1>8, <3>2, OrderType DEF IInv
    <3>5. s.index \in Nat
      BY DEF IInv, Types, Adapters
    <3>6. At(order, s.index) \in 0..(Total(order) - 1)
      BY <3>3, <3>4, <3>5, AtFacts
    <3> QED
      BY <3>2, <3>3, <3>6
  <2>2. /\ s'.index = s.index /\ s'.length = s.length /\ s'.transfer = s.transfer /\ s'.req
        /\ s'.phase = s.phase /\ s'.next = s.next
    BY <1>3, <1>5 DEF SameBus, SameData
  <2>3. /\ d'.mask = d.mask /\ d'.reached = d.reached /\ d'.mode = d.mode
        /\ d'.count = d.count /\ d'.address = d.address /\ d'.timer \subseteq {ScsiChannel}
    BY <1>3, <1>5 DEF SameDma
  <2> QED
    BY <1>4, <1>6, <1>7, <2>1, <2>2, <2>3 DEF IInv, Channel, InDataPhase
<1> QED
  BY <1>7, <1>9, <1>10, <1>11, <1>12, <1>13, <1>14, <1>15 DEF IInv, SameImages, ImagesStay

\* The guest programs the channel while it is masked.
Programmed(z, m, c, a) ==
  mask_w(address_w(count_w(mode_w(channel_w(z, ScsiChannel, FALSE), m), c), a),
         Channels \ {ScsiChannel})

LEMMA ProgrammedFields ==
  ASSUME NEW z \in Dmas, NEW m \in Modes, NEW c \in 0..(CountModulus - 1),
         NEW a \in 0..(AddressModulus - 1)
  PROVE  LET y == Programmed(z, m, c, a)
         IN /\ y \in Dmas /\ y.reached = z.reached /\ y.timer = z.timer
            /\ y.mask = Channels \ {ScsiChannel} /\ y.mode[ScsiChannel] = m
            /\ y.count[ScsiChannel] = c /\ y.address[ScsiChannel] = a
<1>1. PICK A, C : A = 0..(AddressModulus - 1) /\ C = 0..(CountModulus - 1)
  OBVIOUS
<1> DEFINE D == [selected : Channels, base : BOOLEAN, disabled : BOOLEAN, eop : BOOLEAN,
         mask : SUBSET Channels, reached : SUBSET Channels, requests : SUBSET Channels,
         timer : SUBSET Channels, mode : [Channels -> Modes],
         count : [Channels -> C], count_base : [Channels -> C],
         address : [Channels -> A], address_base : [Channels -> A]]
<1>2. Dmas = D
  BY <1>1 DEF Dmas
<1>3. z \in D /\ a \in A /\ c \in C /\ ScsiChannel \in Channels
  BY <1>1, <1>2, ChannelFact
<1>4. PICK d1 : d1 = channel_w(z, ScsiChannel, FALSE)
  OBVIOUS
<1>5. /\ d1 \in D /\ d1.selected = ScsiChannel /\ d1.base = FALSE
      /\ d1.reached = z.reached /\ d1.timer = z.timer
  BY <1>3, <1>4 DEF channel_w
<1>6. PICK d2 : d2 = mode_w(d1, m)
  OBVIOUS
<1>7. /\ d2 \in D /\ d2.selected = ScsiChannel /\ d2.base = FALSE
      /\ d2.reached = z.reached /\ d2.timer = z.timer /\ d2.mode[ScsiChannel] = m
  BY <1>3, <1>5, <1>6 DEF mode_w
<1>8. PICK d3 : d3 = count_w(d2, c)
  OBVIOUS
<1>9. /\ d3 \in D /\ d3.selected = ScsiChannel /\ d3.base = FALSE
      /\ d3.reached = z.reached /\ d3.timer = z.timer /\ d3.mode[ScsiChannel] = m
      /\ d3.count[ScsiChannel] = c
  BY <1>3, <1>7, <1>8 DEF count_w
<1>10. PICK d4 : d4 = address_w(d3, a)
  OBVIOUS
<1>11. /\ d4 \in D
       /\ d4.reached = z.reached /\ d4.timer = z.timer /\ d4.mode[ScsiChannel] = m
       /\ d4.count[ScsiChannel] = c /\ d4.address[ScsiChannel] = a
  BY <1>3, <1>9, <1>10 DEF address_w
<1>12. PICK k : k = Channels \ {ScsiChannel}
  OBVIOUS
<1>13. PICK y : y = mask_w(d4, k)
  OBVIOUS
<1>14. /\ y \in D
       /\ y.reached = z.reached /\ y.timer = z.timer /\ y.mode[ScsiChannel] = m
       /\ y.count[ScsiChannel] = c /\ y.address[ScsiChannel] = a /\ y.mask = k
  BY <1>11, <1>12, <1>13 DEF mask_w
<1>15. y = Programmed(z, m, c, a)
  BY <1>4, <1>6, <1>8, <1>10, <1>12, <1>13 DEF Programmed
<1> QED
  BY <1>2, <1>12, <1>14, <1>15

LEMMA ProgramKeeps ==
  ASSUME IInv, NEW length \in 1..MemSize, Program(length)
  PROVE  IInv'
<1>1. /\ order.dma /\ ~armed /\ moved + length <= Total(order)
      /\ order.auto => length = Total(order)
      /\ armed' = TRUE /\ moved' = moved + length
      /\ UNCHANGED <<s, t, mem, pc, n, said, status, sent, faults>>
  BY DEF Program
<1>2. {"datain", "dataout"} \subseteq Phases \ {"bus_free"}
  BY DEF Phases
<1>3. pc = "run" /\ s.req /\ InDataPhase(s) /\ n > 0
  BY <1>2, SeesFacts DEF Program, InDataPhase
<1>4. /\ moved \in Nat /\ Total(order) \in Nat /\ length \in Nat \ {0}
      /\ Total(order) <= CountModulus /\ Total(order) < MemSize
      /\ MemSize <= AddressModulus /\ AddressModulus \in Nat /\ CountModulus \in Nat
      /\ MemSize \in Nat
  BY <1>3, OrderType, ModulusAssumption DEF IInv, Types
<1>5. PICK m : m = [transfer |-> order.transfer, auto |-> order.auto, down |-> order.down,
                    direction |-> IF order.op = "write" THEN "out" ELSE "in"]
  OBVIOUS
<1>6. /\ m \in Modes /\ m.auto = order.auto /\ m.down = order.down
      /\ m.direction = IF order.op = "write" THEN "out" ELSE "in"
  <2>1. order.auto \in BOOLEAN /\ order.down \in BOOLEAN
        /\ order.transfer \in {"demand", "single", "block", "cascade"}
    BY <1>3, OrderType DEF IInv, OrderKinds
  <2> QED
    BY <1>5, <2>1 DEF Modes
<1>7. PICK c, a : c = length - 1 /\ a = At(order, moved)
  OBVIOUS
<1>8. c \in 0..(CountModulus - 1) /\ c + 1 = length
  BY <1>1, <1>4, <1>7
<1>9. a \in 0..(AddressModulus - 1)
  <2>1. moved \in 0..(Total(order) - 1)
    BY <1>1, <1>4
  <2>2. a \in 0..(Total(order) - 1)
    BY <1>4, <1>7, <2>1, AtFacts
  <2> QED
    BY <1>4, <2>2
<1>10. d' = Programmed(d, m, c, a)
  BY <1>5, <1>7 DEF Program, Programmed
<1>11. PICK y : y = d'
  OBVIOUS
<1>12. /\ y \in Dmas /\ y.reached = d.reached /\ y.timer = d.timer
       /\ y.mask = Channels \ {ScsiChannel} /\ y.mode[ScsiChannel] = m
       /\ y.count[ScsiChannel] = c /\ y.address[ScsiChannel] = a
  <2>1. d \in Dmas
    BY DEF IInv, Types
  <2> QED
    BY <1>6, <1>8, <1>9, <1>10, <1>11, <2>1, ProgrammedFields
<1>13. Types'
  <2>1. moved' \in Nat /\ armed' \in BOOLEAN
    BY <1>1, <1>4
  <2> QED
    BY <1>1, <1>11, <1>12, <2>1 DEF IInv, Types
<1>14. Bus' /\ Command' /\ Drive' /\ Memory' /\ Written' /\ Verdict'
  BY <1>1, DmaAlone
<1>15. order' = order
  BY <1>1 DEF order
<1>16. s.transfer /\ s.index \in Nat /\ moved = s.index /\ ScsiChannel \notin d.reached
       /\ ScsiChannel \notin d.timer
  <2>1. Left = 0 /\ s.index \in Nat
    BY <1>1 DEF Left, IInv, Types, Adapters
  <2>2. s.transfer /\ moved = s.index + Left
    BY <1>1, <1>3 DEF IInv, Channel
  <2>3. ScsiChannel \notin d.reached /\ ScsiChannel \notin d.timer
    BY <1>1, <1>3 DEF IInv, Channel
  <2> QED
    BY <2>1, <2>2, <2>3
<1>17. Left' = length /\ moved' = s.index + Left' /\ moved' <= Total(order)
       /\ (order.auto => moved' = Total(order))
  BY <1>1, <1>4, <1>8, <1>11, <1>12, <1>16 DEF Left
<1>18. Channel'
  <2>1. /\ s.index <= s.length /\ (s.transfer <=> s.index < s.length)
        /\ s.next = IF s.transfer THEN "none" ELSE "status"
        /\ d.timer \subseteq {ScsiChannel}
    BY <1>3 DEF IInv, Channel
  <2>2. s.phase # "command"
    BY <1>3 DEF InDataPhase
  <2>3. d'.timer = d.timer /\ d'.reached = d.reached
        /\ d'.mode[ScsiChannel] = m /\ d'.address[ScsiChannel] = At(order, s.index)
    BY <1>7, <1>11, <1>12, <1>16
  <2> QED
    BY <1>1, <1>3, <1>6, <1>15, <1>16, <1>17, <2>1, <2>2, <2>3 DEF Channel
<1> QED
  BY <1>13, <1>14, <1>18 DEF IInv

\* A drive that DATA IN turns to has the sector that is read first.
LEMMA FirstSector ==
  ASSUME IInv, s.next = "datain"
  PROVE  s.selected \in Ids /\ Readable(x0)
<1>1. pc = "run" /\ s.phase = "command" /\ said = CommandBytes
  <2>1. pc = "run"
    BY DEF IInv, Types, Pcs, Bus
  <2>2. ~InDataPhase(s)
    BY <2>1 DEF IInv, Channel
  <2>3. s.phase = "command"
    BY <2>1, <2>2 DEF IInv, Types, Adapters, Phases, Bus, InDataPhase
  <2>4. ~(said < CommandBytes)
    BY <2>1, <2>3 DEF IInv, Command
  <2> QED
    BY <2>1, <2>3, <2>4, ScsiAssumption DEF IInv, Types
<1>2. s.selected = order.id /\ order.id \in Ids /\ status = Pending /\ n > 0
  BY <1>1 DEF IInv, Types, Bus, Command
<1>3. t[order.id].op = order.op
  <2>1. Pending # Cut
    BY TripleOf DEF Pending, Cut
  <2> QED
    BY <1>1, <1>2, <2>1 DEF IInv, Command
<1>4. order.op = "read" => t[order.id].lba = order.lba
  BY <1>1, <1>2 DEF IInv, Drive
<1>5. order.op = "read" => order.lba \in Lbas
  <2>1. order.op = "read" =>
          order.blocks > 0 /\ order.lba..(order.lba + order.blocks - 1) \subseteq Lbas
    BY <1>2, OrderType DEF IInv
  <2>2. order.blocks \in Nat /\ order.lba \in Nat
    BY <1>2, OrderType DEF IInv
  <2> QED
    BY <2>1, <2>2
<1>6. x0.s = s /\ x0.t = t
  BY TypedX DEF IInv
<1> QED
  BY <1>2, <1>3, <1>4, <1>5, <1>6 DEF Readable

LEMMA PhaseTimerKeeps ==
  ASSUME IInv, PhaseTimer
  PROVE  IInv' /\ ImagesStay
<1>1. x0 \in Xs /\ x0.s = s /\ x0.d = d /\ x0.t = t
  BY TypedX DEF IInv
<1>2. PICK y : y = set_phase(x0)
  OBVIOUS
<1>3. s' = y.s /\ d' = y.d /\ t' = y.t /\ Becomes(y)
  BY <1>2 DEF PhaseTimer, Becomes
<1>4. s.next # "none" /\ d.timer = {}
      /\ UNCHANGED <<mem, pc, n, said, moved, armed, status, sent, faults>>
  BY DEF PhaseTimer
<1>5. PICK p : p = s.next
  OBVIOUS
<1>6. p \in Phases
  BY <1>4, <1>5 DEF IInv, Types, Adapters
<1>7. /\ y \in Xs /\ ShowsPhase(y, x0, p)
      /\ p = "bus_free" => y.s.req = s.req
      /\ p # "bus_free" => y.s.req
      /\ p \notin {"datain", "dataout"} => y.t = t /\ y.s.transfer = s.transfer
      /\ p \in {"datain", "dataout"} => y.s.transfer /\ y.s.index = 0
      /\ p = "dataout" => y.t = t
      /\ SameImages(y.t, t)
      /\ p = "datain" => Fetches(y, x0)
  BY <1>1, <1>2, <1>5, <1>6, FirstSector, PhaseFields
<1>8. /\ s'.phase = p /\ s'.next = "none" /\ s'.lines = Shown(p) /\ d' = d
      /\ s'.out = s.out /\ s'.selected = s.selected /\ s'.target = s.target
      /\ s'.command = s.command /\ s'.length = s.length
      /\ s'.bsy = CASE p = "bus_free" -> FALSE [] p = "command" -> TRUE [] OTHER -> s.bsy
  BY <1>1, <1>3, <1>7 DEF ShowsPhase, Busy
<1>9. order' = order /\ Spoken' = Spoken
  BY <1>4 DEF order, Spoken
<1>10. Types'
  <2>1. Len(y.s.command) <= CommandBytes
    BY <1>3, <1>8 DEF IInv, Types
  <2> QED
    BY <1>3, <1>4, <1>7, <2>1, TypesKept DEF IInv, Types
<1>11. Pending # Cut
  BY TripleOf DEF Pending, Cut
<1> DEFINE SameGot == n > 0 /\ order.op \in {"read", "write"} /\ status # Cut => Got' = Got
           Rest    == Bus' /\ Command' /\ Channel' /\ Drive' /\ SameGot
<1>12. ASSUME pc \in {"idle", "free"}
       PROVE  Rest
  <2>1. p \in {"status", "message_in", "bus_free"} /\ Quiet
    BY <1>4, <1>5, <1>12 DEF IInv, Bus
  <2>2. Bus'
    BY <1>3, <1>4, <1>7, <1>8, <1>9, <1>12, <2>1 DEF IInv, Bus, Quiet
  <2>3. Command' /\ Drive' /\ SameGot
    BY <1>4, <1>9, <1>12 DEF Command, Drive, Got
  <2>4. Channel'
    BY <1>4, <1>8, <1>9, <1>12 DEF IInv, Channel
  <2> QED
    BY <2>2, <2>3, <2>4
<1>13. ASSUME pc = "busy"
       PROVE  Rest
  <2>1. /\ p = "command" /\ order.id \in Ids /\ ~s.transfer /\ s.command = <<>>
        /\ s.selected = order.id /\ s.out.dmae = order.dma /\ said = 0 /\ status = Pending
    BY <1>4, <1>5, <1>13 DEF IInv, Bus
  <2>2. Bus'
    BY <1>3, <1>4, <1>7, <1>8, <1>9, <1>13, <2>1 DEF Bus
  <2>3. Command' /\ Drive' /\ SameGot
    BY <1>4, <1>9, <1>13 DEF Command, Drive, Got
  <2>4. Channel'
    BY <1>4, <1>8, <1>9, <1>13 DEF IInv, Channel
  <2> QED
    BY <2>2, <2>3, <2>4
<1>14. ASSUME pc = "attention"
       PROVE  Rest
  <2>1. p = "message_out" /\ s.bsy /\ ~s.transfer
    BY <1>4, <1>5, <1>14 DEF IInv, Bus
  <2>2. Bus'
    BY <1>3, <1>4, <1>7, <1>8, <1>9, <1>14, <2>1 DEF IInv, Bus
  <2>3. Command' /\ Drive' /\ SameGot
    BY <1>4, <1>9, <1>14 DEF Command, Drive, Got
  <2>4. Channel'
    BY <1>4, <1>8, <1>9, <1>14 DEF IInv, Channel
  <2> QED
    BY <2>2, <2>3, <2>4
<1>15. ASSUME pc = "run" /\ s.phase = "command" /\ said < CommandBytes
       PROVE  Rest
  <2>1. p = "command" /\ status = Pending /\ s.command = Spoken
    BY <1>4, <1>5, <1>15 DEF IInv, Command
  <2>2. Bus'
    BY <1>3, <1>4, <1>7, <1>8, <1>9, <1>15, <2>1 DEF IInv, Bus, InDataPhase
  <2>3. said < CommandBytes /\ said # CommandBytes
    BY <1>15, ScsiAssumption DEF IInv, Types
  <2>4. Command'
    BY <1>4, <1>8, <1>9, <2>1, <2>3 DEF Command, InDataPhase
  <2>5. Drive' /\ SameGot
    BY <1>4, <1>8, <1>9, <1>15, <2>1, <2>3 DEF Drive, Got, InDataPhase
  <2>6. Channel'
    BY <1>4, <1>8, <1>9, <1>15, <2>1 DEF IInv, Channel, InDataPhase
  <2> QED
    BY <2>2, <2>4, <2>5, <2>6
<1>16. ASSUME pc = "run" /\ s.phase = "command" /\ ~(said < CommandBytes)
       PROVE  Rest
  <2>1. said = CommandBytes /\ n > 0
    BY <1>16, ScsiAssumption DEF IInv, Types
  <2>2. /\ p = Phase(order) /\ status = Pending /\ s.command = Spoken
        /\ t[order.id].op = order.op /\ s.length = Length(order)
    BY <1>4, <1>5, <1>11, <1>16, <2>1 DEF IInv, Command
  <2>3. /\ s.selected = order.id /\ order.id \in Ids /\ s.out.dmae = order.dma
        /\ s.bsy /\ ~s.transfer
    BY <1>16 DEF IInv, Bus, InDataPhase
  <2>4. p \in {"datain", "dataout", "status", "command"}
    BY <2>2 DEF Phase
  <2>5. Bus'
    BY <1>3, <1>4, <1>7, <1>8, <1>9, <1>16, <2>2, <2>3, <2>4 DEF IInv, Bus, InDataPhase
  <2>6. t'[order.id].op = order.op /\ t'[order.id].image = t[order.id].image
    BY <1>3, <1>7, <2>2, <2>3 DEF SameImages
  <2>7. Command'
    BY <1>4, <1>8, <1>9, <2>1, <2>2, <2>6 DEF Command, InDataPhase
  <2>8. order.op \in {"read", "write", "inquiry", "parameter", "ready", "other"}
    BY <2>1, OrderType DEF IInv, OrderKinds
  <2>9. Channel'
    <3>1. moved = 0 /\ ~armed /\ ScsiChannel \in d.mask /\ ScsiChannel \notin d.reached
      BY <1>16 DEF IInv, Channel
    <3>2. Left' = 0 /\ Total(order) \in Nat
      BY <1>4, <2>1, <3>1, OrderType DEF Left, IInv
    <3>3. p \in {"datain", "dataout"} => s.length \in Nat /\ 0 < s.length
      <4>1. order.op \in {"read", "write"} => 0 < Total(order)
        <5>1. PICK b, c : b = order.blocks /\ c = SectorBytes
          OBVIOUS
        <5>2. b \in Nat /\ c \in Nat \ {0} /\ (order.op \in {"read", "write"} => b > 0)
          BY <2>1, <5>1, OrderType, ScsiAssumption DEF IInv
        <5>3. b > 0 => 0 * c + c <= b * c
          BY <5>2, Scaled
        <5> QED
          BY <5>1, <5>2, <5>3 DEF Total
      <4> QED
        BY <2>2, <2>8, <3>2, <4>1 DEF Length, Phase
    <3>4. p \in {"datain", "dataout"} => s'.transfer /\ s'.index = 0
      BY <1>3, <1>7
    <3> QED
      BY <1>4, <1>8, <1>9, <2>4, <3>1, <3>2, <3>3, <3>4 DEF Channel, InDataPhase
  <2>10. Drive'
    <3>1. CASE order.op \in {"read", "write"}
      <4>1. t[order.id].lba = order.lba /\ t[order.id].blocks = order.blocks
        BY <1>16, <2>1, <2>2, <3>1 DEF IInv, Drive
      <4>2. order.blocks \in Nat /\ order.lba \in Nat /\ order.blocks > 0
        BY <2>1, <3>1, OrderType DEF IInv
      <4>3. p = IF order.op = "read" THEN "datain" ELSE "dataout"
        BY <2>2, <3>1 DEF Phase
      <4>4. s'.index \div SectorBytes = 0 /\ s'.index % SectorBytes = 0
        BY <1>3, <1>7, <4>3, ZeroSector
      <4>5. CASE order.op = "read"
        <5>1. /\ order.id \notin Loaded => s'.buffer = Zeros
              /\ order.id \in Loaded =>
                   /\ s'.buffer = t[order.id].image[order.lba]
                   /\ t'[order.id].lba = order.lba + 1 /\ t'[order.id].blocks = order.blocks - 1
          BY <1>1, <1>3, <1>7, <2>2, <2>3, <4>1, <4>2, <4>3, <4>5 DEF Fetches
        <5> QED
          BY <1>8, <1>9, <2>6, <4>2, <4>3, <4>4, <4>5, <5>1 DEF Drive, Zeros
      <4>6. CASE order.op = "write"
        <5>1. t' = t
          BY <1>3, <1>7, <4>3, <4>6
        <5> QED
          BY <1>8, <1>9, <4>1, <4>2, <4>3, <4>4, <4>6, <5>1 DEF Drive
      <4> QED
        BY <3>1, <4>5, <4>6
    <3>2. CASE order.op \notin {"read", "write"}
      BY <1>9, <3>2 DEF Drive
    <3> QED
      BY <3>1, <3>2
  <2>11. SameGot
    BY <1>3, <1>4, <1>7, <1>8, <1>9, <1>16, <2>2, <2>4, <2>8 DEF Got, InDataPhase, Phase
  <2> QED
    BY <2>5, <2>7, <2>9, <2>10, <2>11
<1>17. ASSUME pc = "run" /\ InDataPhase(s)
       PROVE  Rest
  <2>1. p = "status" /\ ~s.transfer /\ s.index = s.length
    <3>1. s.index \in Nat /\ s.length \in Nat
      BY DEF IInv, Types, Adapters
    <3> QED
      BY <1>4, <1>5, <1>17, <3>1 DEF IInv, Channel
  <2>2. /\ status = Pending /\ s.selected = order.id /\ order.id \in Ids
        /\ s.out.dmae = order.dma
        /\ order.op \in {"read", "write"} => s.length = Total(order)
    BY <1>17, DataPhase
  <2>3. Bus'
    BY <1>3, <1>4, <1>7, <1>8, <1>9, <1>17, <2>1, <2>2 DEF IInv, Bus, InDataPhase
  <2>4. Command' /\ Drive'
    BY <1>8, <2>1 DEF Command, Drive, InDataPhase
  <2>5. Channel'
    BY <1>4, <1>8, <1>9, <1>17, <2>1 DEF IInv, Channel, InDataPhase
  <2>6. SameGot
    BY <1>4, <1>8, <1>9, <1>17, <2>1, <2>2 DEF Got, InDataPhase
  <2> QED
    BY <2>3, <2>4, <2>5, <2>6
<1>18. ASSUME pc = "run" /\ s.phase \in {"status", "message_in", "message_out"}
       PROVE  Rest
  <2>1. /\ s.phase = "status" => p = "message_in" /\ s.command = <<>> /\ status # Pending
        /\ s.phase = "message_in" => p = "bus_free" /\ s.command = <<>> /\ status # Pending
        /\ s.phase = "message_out" => p = "status" /\ status = Cut
        /\ s.bsy /\ ~s.transfer
    BY <1>4, <1>5, <1>18 DEF IInv, Bus, InDataPhase
  <2>2. Bus'
    BY <1>3, <1>4, <1>7, <1>8, <1>9, <1>18, <2>1 DEF IInv, Bus, InDataPhase
  <2>3. Command' /\ Drive'
    BY <1>8, <1>18, <2>1 DEF Command, Drive, InDataPhase
  <2>4. Channel'
    BY <1>4, <1>8, <1>9, <1>18, <2>1 DEF IInv, Channel, InDataPhase
  <2>5. SameGot
    BY <1>4, <1>9, <1>11, <1>18, <2>1 DEF Got
  <2> QED
    BY <2>2, <2>3, <2>4, <2>5
<1>19. Rest
  <2>1. \/ pc \in {"idle", "free", "busy", "attention"}
        \/ pc = "run" /\ s.phase \in {"command", "datain", "dataout", "status", "message_in", "message_out"}
    <3>1. pc # "select"
      BY <1>4 DEF IInv, Bus
    <3>2. pc = "run" => s.phase # "bus_free"
      BY <1>4 DEF IInv, Bus
    <3> QED
      BY <3>1, <3>2 DEF IInv, Types, Pcs, Adapters, Phases
  <2> QED
    BY <1>12, <1>13, <1>14, <1>15, <1>16, <1>17, <1>18, <2>1 DEF InDataPhase
<1>20. Memory' /\ Written'
  BY <1>3, <1>4, <1>7, <1>19, DataKept DEF IInv, SameImages
<1>21. Verdict'
  BY <1>4, <1>9 DEF IInv, Verdict
<1> QED
  BY <1>3, <1>7, <1>10, <1>19, <1>20, <1>21 DEF IInv, SameImages, ImagesStay

-----------------------------------------------------------------------------
(* A byte moves, by program or by DMA *)

\* What a byte does to the adapter, whichever way it goes.
MovesByte ==
  /\ s'.index = s.index + 1 /\ s'.length = s.length /\ s'.phase = s.phase /\ ~s'.req
  /\ s'.index >= s'.length => ~s'.transfer /\ s'.next = "status"
  /\ s'.index < s'.length => s'.transfer /\ s'.next = "none"
  /\ Len(s'.command) <= CommandBytes

\* The images change as OnlyOrderedWrites allows.
OrderedWrite ==
  \A id \in Ids, l \in Lbas : t'[id].image[l] # t[id].image[l] =>
    /\ order.op = "write" /\ id = order.id
    /\ l \in order.lba..(order.lba + order.blocks - 1)
    /\ \A k \in 1..SectorBytes :
         t'[id].image[l][k] = Payload((l - order.lba) * SectorBytes + k - 1)

\* The byte that is moved is one of the order's, in a sector of the order's.
LEMMA IndexFacts ==
  ASSUME IInv, pc = "run", InDataPhase(s), s.transfer
  PROVE  /\ s.index \in Nat /\ s.length \in Nat /\ s.index < s.length /\ s.next = "none"
         /\ order.op \in {"read", "write"} =>
              /\ s.index \in 0..(Total(order) - 1)
              /\ s.index \div SectorBytes < order.blocks
              /\ order.lba + (s.index \div SectorBytes) \in order.lba..(order.lba + order.blocks - 1)
              /\ order.lba + (s.index \div SectorBytes) \in Lbas
<1>1. s.index \in Nat /\ s.length \in Nat
  BY DEF IInv, Types, Adapters
<1>2. s.index < s.length /\ s.next = "none"
  BY DEF IInv, Channel
<1>3. ASSUME order.op \in {"read", "write"}
      PROVE  /\ s.index \in 0..(Total(order) - 1)
             /\ s.index \div SectorBytes < order.blocks
             /\ order.lba + (s.index \div SectorBytes) \in order.lba..(order.lba + order.blocks - 1)
             /\ order.lba + (s.index \div SectorBytes) \in Lbas
  <2>1. n > 0 /\ s.length = Total(order)
    BY <1>3, DataPhase
  <2>2. /\ order.blocks \in Nat /\ order.lba \in Nat /\ Total(order) \in Nat
        /\ order.lba..(order.lba + order.blocks - 1) \subseteq Lbas
    BY <1>3, <2>1, OrderType DEF IInv
  <2>3. s.index < order.blocks * SectorBytes
    BY <1>2, <2>1 DEF Total
  <2>4. PICK q : q = s.index \div SectorBytes
    OBVIOUS
  <2>5. q \in Nat /\ q < order.blocks
    BY <1>1, <2>2, <2>3, <2>4, SectorOf
  <2>6. order.lba + q \in order.lba..(order.lba + order.blocks - 1)
    BY <2>2, <2>5
  <2> QED
    BY <1>1, <1>2, <2>1, <2>2, <2>4, <2>5, <2>6
<1> QED
  BY <1>1, <1>2, <1>3

\* The drive stands within the order's sectors.
LEMMA NextReadable ==
  ASSUME IInv, pc = "run", s.phase = "datain", s.transfer, NEW x, x.s = s, x.t = t
  PROVE  Readable(x)
<1>1. InDataPhase(s)
  BY DEF InDataPhase
<1>2. /\ n > 0 /\ status = Pending /\ s.selected = order.id /\ order.id \in Ids
      /\ t[order.id].op = order.op
  BY <1>1, DataPhase
<1>3. PICK q, drive : q = s.index \div SectorBytes /\ drive = t[order.id]
  OBVIOUS
<1>4. s.index \in Nat /\ s.index < s.length
  BY <1>1, IndexFacts
<1>5. /\ order.blocks \in Nat /\ order.lba \in Nat
      /\ order.op = "read" => order.lba..(order.lba + order.blocks - 1) \subseteq Lbas
  BY <1>2, OrderType DEF IInv
<1>6. drive.lba \in Nat /\ drive.blocks \in Nat /\ q \in Nat
  BY <1>2, <1>3, <1>4, SectorOf DEF IInv, Types, Drives
<1>7. order.op = "read" /\ order.id \in Loaded =>
        /\ drive.lba + drive.blocks = order.lba + order.blocks
        /\ drive.lba = order.lba + q + 1
  BY <1>2, <1>3, <1>4 DEF IInv, Drive
<1>8. ASSUME order.op = "read", order.id \in Loaded, drive.blocks > 0
      PROVE  drive.lba \in Lbas
  <2>1. drive.lba \in order.lba..(order.lba + order.blocks - 1)
    BY <1>5, <1>6, <1>7, <1>8
  <2> QED
    BY <1>5, <1>8, <2>1
<1> QED
  BY <1>2, <1>3, <1>8 DEF Readable

LEMMA NextWritable ==
  ASSUME IInv, pc = "run", s.phase = "dataout", s.transfer, NEW x, x.s = s, x.t = t
  PROVE  LET drive == t[order.id]
         IN /\ Writes(x) <=> order.op = "write" /\ order.id \in Loaded
            /\ Writes(x) => /\ drive.lba = order.lba + (s.index \div SectorBytes)
                            /\ drive.lba + drive.blocks = order.lba + order.blocks
                            /\ x.t[x.s.selected].lba \in Lbas
<1>1. InDataPhase(s)
  BY DEF InDataPhase
<1>2. /\ n > 0 /\ status = Pending /\ s.selected = order.id /\ order.id \in Ids
      /\ t[order.id].op = order.op
  BY <1>1, DataPhase
<1>3. PICK q, drive : q = s.index \div SectorBytes /\ drive = t[order.id]
  OBVIOUS
<1>4. /\ s.index \in Nat
      /\ order.op = "write" => q < order.blocks /\ order.lba + q \in Lbas
  BY <1>1, <1>3, IndexFacts
<1>5. order.blocks \in Nat /\ order.lba \in Nat
  BY <1>2, OrderType DEF IInv
<1>6. drive.lba \in Nat /\ drive.blocks \in Nat /\ q \in Nat
  BY <1>2, <1>3, <1>4, SectorOf DEF IInv, Types, Drives
<1>7. order.op = "write" /\ order.id \in Loaded =>
        /\ drive.lba + drive.blocks = order.lba + order.blocks
        /\ drive.lba = order.lba + q
  BY <1>2, <1>3 DEF IInv, Drive
<1>8. order.op = "write" /\ order.id \in Loaded => drive.blocks > 0
  BY <1>4, <1>5, <1>6, <1>7
<1>9. Writes(x) <=> order.id \in Loaded /\ order.op = "write" /\ drive.blocks > 0
  BY <1>2, <1>3 DEF Writes
<1> QED
  BY <1>2, <1>3, <1>4, <1>7, <1>8, <1>9

\* A byte is read in phase DATA IN and put into the guest's memory.
LEMMA ReadByteKeeps ==
  ASSUME IInv, pc = "run", s.phase = "datain", s.transfer,
         UNCHANGED <<pc, n, said, status, sent>>,
         NEW x \in Xs, x.s = s, x.t = t, NEW y, y = fmscsi_data_r(x), s' = y.s, t' = y.t,
         mem' = IF s.index < Total(order) THEN [mem EXCEPT ![At(order, s.index)] = y.s.data] ELSE mem
  PROVE  /\ y \in Xs /\ Cancels(y, x) /\ MovesByte
         /\ mem' \in [0..(MemSize - 1) -> Triples]
         /\ Bus' /\ Command' /\ Drive' /\ Memory' /\ Written' /\ Verdict' /\ OrderedWrite
<1>1. InDataPhase(s) /\ order' = order
  BY DEF InDataPhase, order
<1>2. /\ n > 0 /\ status = Pending /\ s.selected = order.id /\ order.id \in Ids
      /\ s.out.dmae = order.dma /\ t[order.id].op = order.op /\ s.length = Length(order)
      /\ s.phase = Phase(order) /\ order.op \in {"read", "inquiry"}
      /\ order.op = "read" => s.length = Total(order)
  BY <1>1, DataPhase
<1>3. PICK i, q, r, drive :
         i = s.index /\ q = i \div SectorBytes /\ r = i % SectorBytes /\ drive = t[order.id]
  OBVIOUS
<1>4. /\ i \in Nat /\ s.length \in Nat /\ i < s.length /\ s.next = "none"
      /\ order.op = "read" =>
           /\ i \in 0..(Total(order) - 1) /\ q < order.blocks
           /\ order.lba + q \in order.lba..(order.lba + order.blocks - 1) /\ order.lba + q \in Lbas
  BY <1>1, <1>3, IndexFacts
<1>5. /\ order.blocks \in Nat /\ order.lba \in Nat /\ Total(order) \in Nat /\ MemSize \in Nat
      /\ Total(order) < MemSize
      /\ order.op = "read" => order.lba..(order.lba + order.blocks - 1) \subseteq Lbas
  BY <1>2, OrderType DEF IInv
<1>6. /\ drive \in Drives /\ drive.lba \in Nat /\ drive.blocks \in Nat
  BY <1>2, <1>3 DEF IInv, Types, Drives
<1>7. /\ q \in Nat /\ r \in 0..(SectorBytes - 1) /\ i = q * SectorBytes + r
  BY <1>3, <1>4, SectorOf
<1>8. order.op = "read" /\ order.id \in Loaded =>
        /\ drive.lba + drive.blocks = order.lba + order.blocks
        /\ drive.lba = order.lba + q + 1 /\ s.buffer = drive.image[order.lba + q]
  BY <1>2, <1>3, <1>4 DEF IInv, Drive
<1>9. order.op = "read" /\ order.id \notin Loaded => s.buffer = Zeros
  BY <1>2 DEF IInv, Drive, Zeros
<1>10. Readable(x)
  BY NextReadable
<1>11. /\ y \in Xs /\ Counts(y, x) /\ Cancels(y, x) /\ SameBus(y.s, x.s) /\ ~y.s.req
       /\ y.s.command = x.s.command /\ y.s.length = x.s.length /\ y.s.target = x.s.target
       /\ SameImages(y.t, x.t)
       /\ y.s.data = x.s.buffer[(x.s.index % SectorBytes) + 1]
       /\ (x.s.index + 1) % SectorBytes # 0 => y.s.buffer = x.s.buffer /\ y.t = x.t
       /\ (x.s.index + 1) % SectorBytes = 0 => Fetches(y, x)
  BY <1>2, <1>10, ReadInFields
<1>12. MovesByte
  <2>1. Len(s.command) <= CommandBytes
    BY DEF IInv, Types
  <2> QED
    BY <1>4, <1>11, <2>1 DEF MovesByte, Counts, SameBus
<1>13. PICK v : v = y.s.data
  OBVIOUS
<1>14. v = s.buffer[r + 1] /\ v \in Triples
  BY <1>3, <1>11, <1>13 DEF Xs, Adapters
<1>15. PICK a : a = At(order, i)
  OBVIOUS
<1>16. i < Total(order) => a \in 0..(Total(order) - 1)
  BY <1>4, <1>5, <1>15, AtFacts
<1>17. mem \in [0..(MemSize - 1) -> Triples]
  BY DEF IInv, Types
<1>18. mem' = IF i < Total(order) THEN [mem EXCEPT ![a] = v] ELSE mem
  BY <1>3, <1>13, <1>15
<1>19. mem' \in [0..(MemSize - 1) -> Triples]
  BY <1>5, <1>14, <1>16, <1>17, <1>18
<1>20. Bus'
  BY <1>1, <1>2, <1>11 DEF IInv, Bus, SameBus, InDataPhase
<1>21. s'.phase = "datain" /\ s'.index = i + 1 /\ s'.length = s.length
  BY <1>3, <1>12 DEF MovesByte
<1>22. t'[order.id].op = order.op /\ t'[order.id].image = drive.image
  BY <1>2, <1>3, <1>11 DEF SameImages
<1>23. Command'
  <2>1. said = CommandBytes
    BY <1>1 DEF IInv, Command
  <2> QED
    BY <1>1, <1>2, <1>21, <1>22, <2>1 DEF Command, InDataPhase
<1>24. Drive'
  <2>1. CASE order.op # "read"
    BY <1>1, <1>2, <2>1 DEF Drive
  <2>2. CASE order.op = "read" /\ (i + 1) % SectorBytes # 0
    <3>1. (i + 1) \div SectorBytes = q
      BY <1>3, <1>4, <2>2, NextByte
    <3>2. s'.buffer = s.buffer /\ t'[order.id] = drive
      BY <1>3, <1>11, <2>2
    <3> QED
      BY <1>1, <1>8, <1>9, <1>21, <2>2, <3>1, <3>2 DEF Drive, Zeros
  <2>3. CASE order.op = "read" /\ (i + 1) % SectorBytes = 0
    <3>1. (i + 1) \div SectorBytes = q + 1
      BY <1>3, <1>4, <2>3, NextByte
    <3>2. /\ order.id \notin Loaded => s'.buffer = Zeros
          /\ order.id \in Loaded /\ drive.blocks > 0 =>
               /\ s'.buffer = drive.image[drive.lba]
               /\ t'[order.id].lba = drive.lba + 1 /\ t'[order.id].blocks = drive.blocks - 1
          /\ order.id \in Loaded /\ drive.blocks = 0 => t' = t
      BY <1>2, <1>3, <1>11, <2>3 DEF Fetches
    <3>3. CASE order.id \notin Loaded
      BY <1>1, <1>21, <2>3, <3>2, <3>3 DEF Drive, Zeros
    <3>4. CASE order.id \in Loaded /\ drive.blocks > 0
      <4>1. /\ t'[order.id].lba + t'[order.id].blocks = order.lba + order.blocks
            /\ t'[order.id].lba = order.lba + (q + 1) + 1
            /\ s'.buffer = t'[order.id].image[order.lba + (q + 1)]
        <5>1. drive.lba = order.lba + (q + 1)
          BY <1>5, <1>7, <1>8, <2>3, <3>4
        <5> QED
          BY <1>5, <1>6, <1>7, <1>8, <1>22, <2>3, <3>2, <3>4, <5>1
      <4> QED
        BY <1>1, <1>21, <2>3, <3>1, <3>4, <4>1 DEF Drive
    <3>5. CASE order.id \in Loaded /\ drive.blocks = 0
      <4>1. q + 1 = order.blocks
        BY <1>5, <1>6, <1>7, <1>8, <2>3, <3>5
      <4>2. i + 1 = (q + 1) * SectorBytes
        <5>1. i + 1 \in Nat
          BY <1>4
        <5>2. i + 1 = ((i + 1) \div SectorBytes) * SectorBytes + ((i + 1) % SectorBytes)
          BY <5>1, SectorOf
        <5>3. (q + 1) * SectorBytes \in Int
          BY <1>7, ScsiAssumption
        <5> QED
          BY <2>3, <3>1, <5>2, <5>3
      <4>3. ~(s'.index < s'.length)
        <5>1. i + 1 = Total(order)
          BY <4>1, <4>2 DEF Total
        <5> QED
          BY <1>2, <1>4, <1>21, <2>3, <5>1
      <4>4. t'[order.id] = drive
        BY <1>3, <3>2, <3>5
      <4> QED
        BY <1>1, <1>8, <1>21, <2>3, <3>5, <4>3, <4>4 DEF Drive
    <3> QED
      BY <1>6, <3>3, <3>4, <3>5
  <2> QED
    BY <2>1, <2>2, <2>3
<1>25. Got = i /\ Got' = i + 1
  BY <1>1, <1>2, <1>3, <1>21 DEF Got, InDataPhase
<1>26. Memory'
  <2>1. ASSUME NEW b \in Total(order)..(MemSize - 1)
        PROVE  mem'[b] = Unused
    <3>1. mem[b] = Unused
      BY <1>2, <2>1 DEF IInv, Memory
    <3>2. mem'[b] = mem[b]
      BY <1>5, <1>16, <1>17, <1>18, <2>1
    <3> QED
      BY <3>1, <3>2
  <2>2. ASSUME order.op = "read", NEW k \in 0..(Total(order) - 1)
        PROVE  mem'[At(order, k)] = IF k < i + 1 THEN Wanted(order, k)' ELSE Unused
    <3>1. mem[At(order, k)] = IF k < i THEN Wanted(order, k) ELSE Unused
      <4>1. status # Cut
        BY <1>2, TripleOf DEF Pending, Cut
      <4> QED
        BY <1>2, <1>25, <2>2, <4>1 DEF IInv, Memory
    <3>2. Wanted(order, k)' = Wanted(order, k)
      BY <1>1, <1>3, <1>22 DEF Wanted
    <3>3. At(order, k) \in 0..(Total(order) - 1) /\ (At(order, k) = a => k = i)
      BY <1>4, <1>5, <1>15, <2>2, AtFacts
    <3>4. CASE k = i
      <4>1. mem'[At(order, k)] = v
        BY <1>4, <1>5, <1>15, <1>17, <1>18, <2>2, <3>3, <3>4
      <4>2. Wanted(order, k) = v
        <5>1. order.id \in Loaded => s.buffer = drive.image[order.lba + q]
          BY <1>8, <2>2
        <5>2. order.id \notin Loaded => v = Zero
          <6>1. r + 1 \in 1..SectorBytes
            BY <1>3, <1>4, PlaceInSector
          <6>2. Zeros[r + 1] = Zero
            BY <6>1 DEF Zeros
          <6> QED
            BY <1>9, <1>14, <2>2, <6>2
        <5> QED
          BY <1>3, <1>14, <3>4, <5>1, <5>2 DEF Wanted
      <4> QED
        BY <1>4, <3>2, <3>4, <4>1, <4>2
    <3>5. CASE k # i
      <4>1. mem'[At(order, k)] = mem[At(order, k)]
        BY <1>5, <1>17, <1>18, <3>3, <3>5
      <4> QED
        BY <1>4, <3>1, <3>2, <3>5, <4>1
    <3> QED
      BY <3>4, <3>5
  <2> QED
    BY <1>1, <1>2, <1>25, <2>1, <2>2 DEF Memory
<1>27. Written' /\ Verdict'
  BY <1>1, <1>2 DEF Written, Verdict
<1>28. OrderedWrite
  BY <1>11 DEF OrderedWrite, SameImages
<1> QED
  BY <1>11, <1>12, <1>19, <1>20, <1>23, <1>24, <1>26, <1>27, <1>28

\* A byte is written in phase DATA OUT: the guest's next one.
LEMMA WriteByteKeeps ==
  ASSUME IInv, pc = "run", s.phase = "dataout", s.transfer,
         UNCHANGED <<pc, n, said, status, sent, mem>>,
         NEW byte \in Triples, order.op = "write" => byte = Payload(s.index),
         NEW x \in Xs, x.s = s, x.t = t, NEW y, y = fmscsi_data_w(x, byte), s' = y.s, t' = y.t
  PROVE  /\ y \in Xs /\ Cancels(y, x) /\ MovesByte
         /\ Bus' /\ Command' /\ Drive' /\ Memory' /\ Written' /\ Verdict' /\ OrderedWrite
<1>1. InDataPhase(s) /\ order' = order
  BY DEF InDataPhase, order
<1>2. /\ n > 0 /\ status = Pending /\ s.selected = order.id /\ order.id \in Ids
      /\ s.out.dmae = order.dma /\ t[order.id].op = order.op /\ s.length = Length(order)
      /\ s.phase = Phase(order) /\ order.op \in {"write", "parameter"}
  BY <1>1, DataPhase
<1>3. PICK i, q, r, drive :
         i = s.index /\ q = i \div SectorBytes /\ r = i % SectorBytes /\ drive = t[order.id]
  OBVIOUS
<1>4. /\ i \in Nat /\ s.length \in Nat /\ i < s.length /\ s.next = "none"
      /\ order.op = "write" =>
           /\ i \in 0..(Total(order) - 1) /\ q < order.blocks
           /\ order.lba + q \in order.lba..(order.lba + order.blocks - 1) /\ order.lba + q \in Lbas
  BY <1>1, <1>3, IndexFacts
<1>5. /\ order.blocks \in Nat /\ order.lba \in Nat
      /\ order.op = "write" => order.lba..(order.lba + order.blocks - 1) \subseteq Lbas
  BY <1>2, OrderType DEF IInv
<1>6. /\ drive \in Drives /\ drive.lba \in Nat /\ drive.blocks \in Nat
  BY <1>2, <1>3 DEF IInv, Types, Drives
<1>7. /\ q \in Nat /\ r \in 0..(SectorBytes - 1) /\ r + 1 \in 1..SectorBytes
      /\ SectorBytes \in Nat
  BY <1>3, <1>4, SectorOf, PlaceInSector, ScsiAssumption
<1>7a. i = q * SectorBytes + r /\ q * SectorBytes \in Int
  <2>1. i = q * SectorBytes + r
    BY <1>3, <1>4, SectorOf
  <2>2. q * SectorBytes \in Int
    BY <1>7
  <2> QED
    BY <2>1, <2>2
<1>8. order.op = "write" /\ order.id \in Loaded =>
        /\ drive.lba + drive.blocks = order.lba + order.blocks
        /\ drive.lba = order.lba + q
  BY <1>3, NextWritable
<1>9. order.op = "write" => \A k \in 1..r : s.buffer[k] = Payload(q * SectorBytes + k - 1)
  BY <1>2, <1>3 DEF IInv, Drive
<1>10. /\ Writes(x) => order.op = "write" /\ order.id \in Loaded
       /\ order.op = "write" /\ order.id \in Loaded =>
            Writes(x) /\ drive.lba \in Lbas /\ drive.lba = order.lba + q
  BY <1>4, <1>8, NextWritable
<1>11. /\ y \in Xs /\ Counts(y, x) /\ Cancels(y, x) /\ SameBus(y.s, x.s) /\ ~y.s.req
       /\ y.s.command = x.s.command /\ y.s.length = x.s.length /\ y.s.target = x.s.target
       /\ y.s.buffer = Put(x.s.buffer, (x.s.index % SectorBytes) + 1, byte)
       /\ (x.s.index + 1) % SectorBytes # 0 \/ ~Writes(x) => y.t = x.t
       /\ (x.s.index + 1) % SectorBytes = 0 => Stores(y, x, y.s.buffer)
  <2>1. Writes(x) => x.t[x.s.selected].lba \in Lbas
    BY NextWritable
  <2> QED
    BY <1>2, <2>1, WriteOutFields
<1>12. MovesByte
  <2>1. Len(s.command) <= CommandBytes
    BY DEF IInv, Types
  <2> QED
    BY <1>4, <1>11, <2>1 DEF MovesByte, Counts, SameBus
<1>13. Bus'
  BY <1>1, <1>2, <1>11 DEF IInv, Bus, SameBus, InDataPhase
<1>14. s'.phase = "dataout" /\ s'.index = i + 1 /\ s'.length = s.length
  BY <1>3, <1>12 DEF MovesByte
<1>15. \A j \in Ids : t'[j].op = t[j].op
  BY <1>3, <1>11 DEF Stores
<1>16. Command'
  <2>1. said = CommandBytes
    BY <1>1 DEF IInv, Command
  <2> QED
    BY <1>1, <1>2, <1>14, <1>15, <2>1 DEF Command, InDataPhase
\* The buffer, up to this byte.
<1>17. PICK w : w = y.s.buffer
  OBVIOUS
<1>18. ASSUME order.op = "write", NEW k \in 1..(r + 1)
       PROVE  w[k] = Payload(q * SectorBytes + k - 1)
  <2>1. s.buffer \in Buffers /\ w = Put(s.buffer, r + 1, byte)
    BY <1>3, <1>11, <1>17 DEF IInv, Types, Adapters
  <2>2. k \in 1..SectorBytes /\ k \in Int
    BY <1>7
  <2>3. w[r + 1] = byte /\ (k # r + 1 => w[k] = s.buffer[k])
    <3>1. PICK p : p = r + 1
      OBVIOUS
    <3>2. p \in 1..SectorBytes
      BY <1>7, <3>1
    <3>3. w = Put(s.buffer, p, byte)
      BY <2>1, <3>1
    <3>4. w[p] = byte /\ (k # p => w[k] = s.buffer[k])
      BY <2>1, <2>2, <3>2, <3>3, PutFields
    <3> QED
      BY <3>1, <3>4
  <2>4. CASE k = r + 1
    <3>1. q * SectorBytes + k - 1 = i
      BY <1>7, <1>7a, <2>4
    <3> QED
      BY <1>3, <1>18, <2>3, <2>4, <3>1
  <2>5. CASE k # r + 1
    <3>1. k \in 1..r
      BY <1>7, <2>2, <2>5
    <3> QED
      BY <1>9, <1>18, <2>3, <2>5, <3>1
  <2> QED
    BY <2>4, <2>5
\* A sector that is full goes to its place, whole.
<1>19. ASSUME order.op = "write", order.id \in Loaded, (i + 1) % SectorBytes = 0
       PROVE  /\ t'[order.id].image[order.lba + q] = w
              /\ t'[order.id].lba = order.lba + (q + 1)
              /\ t'[order.id].lba + t'[order.id].blocks = order.lba + order.blocks
              /\ \A k \in 1..SectorBytes : w[k] = Payload(q * SectorBytes + k - 1)
  <2>1. /\ t'[order.id].image[drive.lba] = w
        /\ t'[order.id].lba = drive.lba + 1 /\ t'[order.id].blocks = drive.blocks - 1
    BY <1>2, <1>3, <1>10, <1>11, <1>17, <1>19 DEF Stores
  <2>2. r + 1 = SectorBytes
    BY <1>3, <1>4, <1>7, <1>19, NextByte
  <2> QED
    BY <1>5, <1>6, <1>7, <1>8, <1>18, <1>19, <2>1, <2>2, SMTT(30)
<1>20. ASSUME NEW id \in Ids, NEW l \in Lbas, t'[id].image[l] # t[id].image[l]
       PROVE  /\ order.op = "write" /\ id = order.id /\ order.id \in Loaded
              /\ (i + 1) % SectorBytes = 0 /\ l = order.lba + q
  <2>1. (i + 1) % SectorBytes = 0 /\ Writes(x)
    BY <1>3, <1>11, <1>20
  <2>2. id = order.id /\ l = drive.lba
    BY <1>2, <1>3, <1>11, <1>20, <2>1 DEF Stores
  <2> QED
    BY <1>10, <2>1, <2>2
<1>21. OrderedWrite
  <2>1. ASSUME NEW id \in Ids, NEW l \in Lbas, t'[id].image[l] # t[id].image[l]
        PROVE  /\ order.op = "write" /\ id = order.id
               /\ l \in order.lba..(order.lba + order.blocks - 1)
               /\ \A k \in 1..SectorBytes :
                    t'[id].image[l][k] = Payload((l - order.lba) * SectorBytes + k - 1)
    <3>1. /\ order.op = "write" /\ id = order.id /\ order.id \in Loaded
          /\ (i + 1) % SectorBytes = 0 /\ l = order.lba + q
      BY <1>20, <2>1
    <3>2. l - order.lba = q
      BY <1>5, <1>7, <3>1
    <3> QED
      BY <1>4, <1>19, <3>1, <3>2
  <2> QED
    BY <2>1 DEF OrderedWrite
<1>22. \A k : Payload(k)' = Payload(k)
  BY DEF Payload
<1>23. Drive'
  <2>1. CASE order.op # "write"
    BY <1>1, <1>2, <2>1 DEF Drive
  <2>2. CASE order.op = "write" /\ (i + 1) % SectorBytes # 0
    <3>1. (i + 1) \div SectorBytes = q /\ (i + 1) % SectorBytes = r + 1
      BY <1>3, <1>4, <2>2, NextByte
    <3>2. t'[order.id] = drive /\ s'.buffer = w
      BY <1>3, <1>11, <1>17, <2>2
    <3>3. \A k \in 1..(r + 1) : s'.buffer[k] = Payload(q * SectorBytes + k - 1)'
      BY <1>18, <1>22, <2>2, <3>2
    <3> QED
      BY <1>1, <1>8, <1>14, <2>2, <3>1, <3>2, <3>3 DEF Drive
  <2>3. CASE order.op = "write" /\ (i + 1) % SectorBytes = 0
    <3>1. (i + 1) \div SectorBytes = q + 1
      BY <1>3, <1>4, <2>3, NextByte
    <3>2. 1..((i + 1) % SectorBytes) = {}
      BY <2>3
    <3> QED
      BY <1>1, <1>14, <1>19, <2>3, <3>1, <3>2 DEF Drive
  <2> QED
    BY <2>1, <2>2, <2>3
<1>24. Got = i /\ Got' = i + 1
  BY <1>1, <1>2, <1>3, <1>14 DEF Got, InDataPhase
<1>25. Memory'
  BY <1>1, <1>2, <1>22 DEF IInv, Memory
<1>26. Written'
  <2>1. ASSUME order.op = "write", order.id \in Loaded, NEW j \in 0..(order.blocks - 1),
               j < (i + 1) \div SectorBytes, NEW k \in 1..SectorBytes
        PROVE  t'[order.id].image[order.lba + j][k] = Payload(j * SectorBytes + k - 1)
    <3>1. order.lba + j \in Lbas
      BY <1>5, <2>1
    <3>2. CASE j < q
      <4>1. t[order.id].image[order.lba + j][k] = Payload(j * SectorBytes + k - 1)
        <5>1. status # Cut
          BY <1>2, TripleOf DEF Pending, Cut
        <5> QED
          BY <1>2, <1>3, <1>24, <2>1, <3>2, <5>1 DEF IInv, Written
      <4>2. order.lba + j # order.lba + q
        BY <1>5, <1>7, <2>1, <3>2
      <4>3. t'[order.id].image[order.lba + j] = t[order.id].image[order.lba + j]
        BY <1>2, <1>20, <3>1, <4>2
      <4> QED
        BY <4>1, <4>3
    <3>3. CASE ~(j < q)
      <4>1. /\ (i + 1) % SectorBytes = 0 => (i + 1) \div SectorBytes = q + 1
            /\ (i + 1) % SectorBytes # 0 => (i + 1) \div SectorBytes = q
        BY <1>3, <1>4, NextByte
      <4>2. (i + 1) % SectorBytes = 0 /\ j < q + 1
        BY <2>1, <3>3, <4>1
      <4>3. j = q
        BY <1>7, <3>3, <4>2
      <4> QED
        BY <1>19, <2>1, <4>2, <4>3
    <3> QED
      BY <3>2, <3>3
  <2> QED
    BY <1>1, <1>22, <1>24, <2>1 DEF Written
<1>27. Verdict'
  BY <1>2 DEF Verdict
<1> QED
  BY <1>11, <1>12, <1>13, <1>16, <1>21, <1>23, <1>25, <1>26, <1>27

\* By program.
LEMMA ProgramByte ==
  ASSUME IInv, pc = "run", InDataPhase(s), s.transfer, ~order.dma, MovesByte,
         SameDma(d', d), d'.timer \subseteq d.timer, moved' = moved + 1,
         UNCHANGED <<pc, n, armed>>
  PROVE  Channel'
<1>1. order' = order /\ ~armed
  BY DEF order, IInv, Channel
<1>2. moved = s.index /\ s.index \in Nat /\ s.length \in Nat
  BY DEF IInv, Channel, Types, Adapters
<1>3. /\ s'.index = s.index + 1 /\ s'.length = s.length /\ s'.phase = s.phase /\ ~s'.req
      /\ s'.index >= s'.length => ~s'.transfer /\ s'.next = "status"
      /\ s'.index < s'.length => s'.transfer /\ s'.next = "none"
  BY DEF MovesByte
<1>4. s.index < s.length /\ ScsiChannel \in d.mask /\ ScsiChannel \notin d.timer
      /\ ScsiChannel \notin d.reached /\ d.timer \subseteq {ScsiChannel}
  BY <1>1 DEF IInv, Channel
<1>5. ScsiChannel \in d'.mask /\ ScsiChannel \notin d'.timer /\ ScsiChannel \notin d'.reached
      /\ d'.timer \subseteq {ScsiChannel}
  BY <1>4 DEF SameDma
<1>6. InDataPhase(s') /\ s'.phase # "command"
  BY <1>3 DEF InDataPhase
<1> QED
  BY <1>1, <1>2, <1>3, <1>4, <1>5, <1>6 DEF Channel

LEMMA TakeByteKeeps ==
  ASSUME IInv, TakeByte
  PROVE  IInv' /\ OrderedWrite
<1>1. x0 \in Xs /\ x0.s = s /\ x0.d = d /\ x0.t = t
  BY TypedX DEF IInv
<1>2. "datain" \in Phases \ {"bus_free"}
  BY DEF Phases
<1>3. pc = "run" /\ s.req /\ s.phase = "datain" /\ n > 0 /\ InDataPhase(s)
  BY <1>2, SeesFacts DEF TakeByte, InDataPhase
<1>4. s.transfer /\ moved = s.index /\ moved \in Nat
  BY <1>3 DEF TakeByte, IInv, Channel, Types
<1>5. PICK y : y = fmscsi_data_r(x0)
  OBVIOUS
<1>6. s' = y.s /\ d' = y.d /\ t' = y.t /\ Becomes(y)
  BY <1>5 DEF TakeByte, Becomes
<1>7. ~order.dma /\ moved' = moved + 1 /\ UNCHANGED <<pc, n, said, armed, status, sent, faults>>
  BY DEF TakeByte
<1>8. mem' = IF s.index < Total(order) THEN [mem EXCEPT ![At(order, s.index)] = y.s.data] ELSE mem
  BY <1>4, <1>6 DEF TakeByte
<1>9. /\ y \in Xs /\ Cancels(y, x0) /\ MovesByte
      /\ mem' \in [0..(MemSize - 1) -> Triples]
      /\ Bus' /\ Command' /\ Drive' /\ Memory' /\ Written' /\ Verdict' /\ OrderedWrite
  BY <1>1, <1>3, <1>4, <1>5, <1>6, <1>7, <1>8, ReadByteKeeps
<1>10. SameDma(d', d) /\ d'.timer \subseteq d.timer
  BY <1>1, <1>6, <1>9 DEF Cancels
<1>11. Channel'
  BY <1>3, <1>4, <1>7, <1>9, <1>10, ProgramByte
<1>12. Types'
  <2>1. Len(y.s.command) <= CommandBytes /\ moved' \in Nat
    BY <1>4, <1>6, <1>7, <1>9 DEF MovesByte
  <2>2. Types /\ n' = n /\ sent' = sent
    BY <1>7 DEF IInv
  <2>3. /\ pc' \in Pcs /\ said' \in 0..CommandBytes
        /\ armed' \in BOOLEAN /\ status' \in Triples /\ faults' \in 0..MaxFaults
    BY <1>7 DEF IInv, Types
  <2> QED
    BY <1>3, <1>6, <1>9, <2>1, <2>2, <2>3, TypesKept
<1> QED
  BY <1>9, <1>11, <1>12 DEF IInv

LEMMA GiveByteKeeps ==
  ASSUME IInv, GiveByte
  PROVE  IInv' /\ OrderedWrite
<1>1. x0 \in Xs /\ x0.s = s /\ x0.d = d /\ x0.t = t
  BY TypedX DEF IInv
<1>2. "dataout" \in Phases \ {"bus_free"}
  BY DEF Phases
<1>3. pc = "run" /\ s.req /\ s.phase = "dataout" /\ n > 0 /\ InDataPhase(s)
  BY <1>2, SeesFacts DEF GiveByte, InDataPhase
<1>4. s.transfer /\ moved = s.index /\ moved \in Nat
  BY <1>3 DEF GiveByte, IInv, Channel, Types
<1>5. PICK byte : byte = IF moved < Total(order) THEN mem[At(order, moved)] ELSE Zero
  OBVIOUS
<1>6. byte \in Triples /\ (order.op = "write" => byte = Payload(s.index))
  <2>1. Total(order) \in Nat /\ Total(order) < MemSize /\ MemSize \in Nat
    BY <1>3, OrderType DEF IInv
  <2>2. mem \in [0..(MemSize - 1) -> Triples] /\ Zero \in Triples
    BY ZeroBuffers DEF IInv, Types
  <2>3. moved < Total(order) => At(order, moved) \in 0..(Total(order) - 1)
    BY <1>4, <2>1, AtFacts
  <2>4. moved < Total(order) => mem[At(order, moved)] \in Triples
    BY <2>1, <2>2, <2>3
  <2>5. order.op = "write" => moved \in 0..(Total(order) - 1)
    BY <1>3, <1>4, IndexFacts
  <2>6. order.op = "write" => mem[At(order, moved)] = Payload(moved)
    BY <1>3, <2>5 DEF IInv, Memory
  <2> QED
    BY <1>4, <1>5, <2>1, <2>2, <2>4, <2>5, <2>6
<1>7. PICK y : y = fmscsi_data_w(x0, byte)
  OBVIOUS
<1>8. s' = y.s /\ d' = y.d /\ t' = y.t /\ Becomes(y)
  BY <1>5, <1>7 DEF GiveByte, Becomes
<1>9. /\ ~order.dma /\ moved' = moved + 1
      /\ UNCHANGED <<mem, pc, n, said, armed, status, sent, faults>>
  BY DEF GiveByte
<1>10. /\ y \in Xs /\ Cancels(y, x0) /\ MovesByte
       /\ Bus' /\ Command' /\ Drive' /\ Memory' /\ Written' /\ Verdict' /\ OrderedWrite
  BY <1>1, <1>3, <1>4, <1>6, <1>7, <1>8, <1>9, WriteByteKeeps
<1>11. SameDma(d', d) /\ d'.timer \subseteq d.timer
  BY <1>1, <1>8, <1>10 DEF Cancels
<1>12. Channel'
  BY <1>3, <1>4, <1>9, <1>10, <1>11, ProgramByte
<1>13. Types'
  <2>1. Len(y.s.command) <= CommandBytes /\ moved' \in Nat
    BY <1>4, <1>8, <1>9, <1>10 DEF MovesByte
  <2>2. Types /\ n' = n /\ sent' = sent
    BY <1>9 DEF IInv
  <2>3. /\ mem' \in [0..(MemSize - 1) -> Triples]  /\ pc' \in Pcs /\ said' \in 0..CommandBytes
        /\ armed' \in BOOLEAN /\ status' \in Triples /\ faults' \in 0..MaxFaults
    BY <1>9 DEF IInv, Types
  <2> QED
    BY <1>3, <1>8, <1>10, <2>1, <2>2, <2>3, TypesKept
<1> QED
  BY <1>10, <1>12, <1>13 DEF IInv

\* By DMA: the byte at the channel's address, and the channel's registers after it.
LEMMA DmaByte ==
  ASSUME IInv, pc = "run", InDataPhase(s), s.transfer, armed, ScsiChannel \notin d.reached, MovesByte,
         NEW z \in Dmas, SameDma(z, d), z.timer = {}, d' = advance(z, ScsiChannel),
         UNCHANGED <<pc, n, armed, moved>>
  PROVE  d' \in Dmas /\ Channel'
<1>1. order' = order /\ order.dma /\ n > 0
  BY DEF order, IInv, Channel, Types
<1>2. order.op \in {"read", "write"} /\ order.down \in BOOLEAN
  BY <1>1, OrderType DEF IInv, OrderKinds
<1>3. PICK i, c, a, T : i = s.index /\ c = d.count[ScsiChannel] /\ a = d.address[ScsiChannel] /\ T = Total(order)
  OBVIOUS
<1>4. /\ i \in Nat /\ i < s.length /\ s.length = T /\ T \in Nat /\ T <= AddressModulus
      /\ AddressModulus \in Nat \ {0} /\ s.next = "none"
  <2>1. i \in Nat /\ i < s.length /\ s.next = "none"
    BY <1>3, IndexFacts
  <2>2. s.length = T
    BY <1>2, <1>3, DataPhase
  <2>3. T \in Nat /\ T < MemSize /\ MemSize <= AddressModulus /\ MemSize \in Nat
    BY <1>1, <1>3, OrderType DEF IInv
  <2>4. AddressModulus \in Nat \ {0}
    BY ModulusAssumption
  <2> QED
    BY <2>1, <2>2, <2>3, <2>4
<1>5. c \in Nat
  <2>1. d \in Dmas
    BY DEF IInv, Types
  <2>2. d.count \in [Channels -> 0..(CountModulus - 1)]
    BY <2>1 DEF Dmas
  <2> QED
    BY <1>3, <2>2, ChannelFact, ModulusAssumption
<1>6. /\ moved = i + (c + 1) /\ moved <= T
      /\ a = At(order, i) /\ d.mode[ScsiChannel].down = order.down
      /\ d.mode[ScsiChannel].auto = order.auto
      /\ d.mode[ScsiChannel].direction = IF order.op = "write" THEN "out" ELSE "in"
      /\ order.auto => moved = T
  <2>1. Left = c + 1
    BY <1>3 DEF Left
  <2> QED
    BY <1>1, <1>3, <2>1 DEF IInv, Channel
<1>7. PICK y : y = d'
  OBVIOUS
<1>8. /\ y \in Dmas /\ y.mode = d.mode /\ y.timer = {}
      /\ c # 0 => /\ y.mask = d.mask /\ y.reached = d.reached
                  /\ y.count[ScsiChannel] = c - 1
                  /\ y.address[ScsiChannel] =
                       (IF order.down THEN a - 1 ELSE a + 1) % AddressModulus
      /\ c = 0 => /\ y.reached = d.reached \cup {ScsiChannel}
                  /\ ~order.auto => ScsiChannel \in y.mask
  <2>1. /\ z.mode = d.mode /\ z.count = d.count /\ z.address = d.address
        /\ z.mask = d.mask /\ z.reached = d.reached
    BY DEF SameDma
  <2>2. /\ y \in Dmas /\ y.mode = z.mode /\ y.timer \subseteq z.timer
        /\ z.count[ScsiChannel] # 0 =>
             /\ y.mask = z.mask /\ y.reached = z.reached
             /\ y.count[ScsiChannel] = z.count[ScsiChannel] - 1
             /\ y.address[ScsiChannel] =
                  (IF z.mode[ScsiChannel].down THEN z.address[ScsiChannel] - 1
                   ELSE z.address[ScsiChannel] + 1) % AddressModulus
        /\ z.count[ScsiChannel] = 0 =>
             /\ y.reached = z.reached \cup {ScsiChannel}
             /\ ~z.mode[ScsiChannel].auto => ScsiChannel \in y.mask
    BY <1>7, AdvanceFields
  <2>3. z.count[ScsiChannel] = c /\ z.address[ScsiChannel] = a /\ z.timer = {}
        /\ z.mode = d.mode /\ z.mask = d.mask /\ z.reached = d.reached
    BY <1>3, <2>1
  <2>4. z.mode[ScsiChannel].down = order.down /\ z.mode[ScsiChannel].auto = order.auto
    BY <1>6, <2>1
  <2> QED
    BY <2>2, <2>3, <2>4
<1>9. /\ s'.index = i + 1 /\ s'.length = T /\ s'.phase = s.phase /\ ~s'.req
      /\ i + 1 >= T => ~s'.transfer /\ s'.next = "status"
      /\ i + 1 < T => s'.transfer /\ s'.next = "none"
  BY <1>3, <1>4 DEF MovesByte
<1>10. InDataPhase(s') /\ s'.phase # "command" /\ ScsiChannel \notin y.timer
       /\ y.timer \subseteq {ScsiChannel}
  BY <1>8, <1>9 DEF InDataPhase
<1>11. CASE c # 0
  <2>1. i + 1 < T
    BY <1>4, <1>5, <1>6, <1>11
  <2>2. y.address[ScsiChannel] = At(order, i + 1)
    <3>1. PICK b : b = IF order.down THEN a - 1 ELSE a + 1
      OBVIOUS
    <3>2. b = At(order, i + 1) /\ b \in 0..(AddressModulus - 1)
      BY <1>2, <1>3, <1>4, <1>6, <2>1, <3>1 DEF At
    <3>3. b % AddressModulus = b
      BY <1>4, <3>2, Modulo
    <3> QED
      BY <1>8, <1>11, <3>1, <3>2, <3>3
  <2>3. Left' = c
    BY <1>5, <1>7, <1>8, <1>11 DEF Left
  <2>4. moved = (i + 1) + Left'
    BY <1>4, <1>5, <1>6, <2>3
  <2>5. Channel'
    BY <1>1, <1>3, <1>4, <1>6, <1>7, <1>8, <1>9, <1>10, <1>11, <2>1, <2>2, <2>4 DEF Channel
  <2> QED
    BY <1>7, <1>8, <2>5
<1>12. CASE c = 0
  <2>1. Left' = 0 /\ ScsiChannel \in y.reached
    BY <1>7, <1>8, <1>12 DEF Left
  <2>2. moved = (i + 1) + Left' /\ i + 1 <= T
    BY <1>4, <1>6, <1>12, <2>1
  <2>3. s'.transfer => ScsiChannel \in y.mask
    <3>1. order.auto => ~s'.transfer
      BY <1>4, <1>6, <1>9, <2>1, <2>2
    <3> QED
      BY <1>8, <1>12, <3>1
  <2>4. s'.transfer <=> i + 1 < T
    BY <1>4, <1>9
  <2>5. Channel'
    BY <1>1, <1>3, <1>4, <1>6, <1>7, <1>9, <1>10, <2>1, <2>2, <2>3, <2>4 DEF Channel
  <2> QED
    BY <1>7, <1>8, <2>5
<1> QED
  BY <1>11, <1>12

\* The transfer timer of the channel has run out, and the registers count.
Fired(x)    == [x EXCEPT !.d.timer = @ \ {ScsiChannel}]
Advanced(x) == [x EXCEPT !.d = advance(@, ScsiChannel)]

LEMMA FiredFields ==
  ASSUME NEW x \in Xs
  PROVE  LET y == Fired(x)
         IN /\ y \in Xs /\ y.s = x.s /\ y.t = x.t /\ SameDma(y.d, x.d)
            /\ y.d.timer = x.d.timer \ {ScsiChannel}
<1>1. PICK z : z = [x.d EXCEPT !.timer = @ \ {ScsiChannel}]
  OBVIOUS
<1>2. x.d \in Dmas
  BY DEF Xs
<1>3. z \in Dmas /\ SameDma(z, x.d) /\ z.timer = x.d.timer \ {ScsiChannel}
  BY <1>1, <1>2 DEF Dmas, SameDma
<1>4. PICK y : y = Fired(x)
  OBVIOUS
<1>5. y = [x EXCEPT !.d = z]
  BY <1>1, <1>4 DEF Fired
<1>6. y \in Xs /\ y.s = x.s /\ y.t = x.t /\ y.d = z
  BY <1>3, <1>5 DEF Xs
<1> QED
  BY <1>3, <1>4, <1>6

LEMMA AdvancedFields ==
  ASSUME NEW x \in Xs, NEW y, Becomes(Advanced(x)), y = advance(x.d, ScsiChannel)
  PROVE  s' = x.s /\ d' = y /\ t' = x.t
<1>1. PICK z : z = Advanced(x)
  OBVIOUS
<1>2. z = [x EXCEPT !.d = y]
  BY <1>1 DEF Advanced
<1>3. z.s = x.s /\ z.t = x.t /\ z.d = y
  BY <1>2 DEF Xs
<1> QED
  BY <1>1, <1>3 DEF Becomes

LEMMA DmaTypes ==
  ASSUME Types, NEW y \in Xs, s' = y.s, t' = y.t, d' \in Dmas, MovesByte,
         mem' \in [0..(MemSize - 1) -> Triples],
         UNCHANGED <<pc, n, said, moved, armed, status, sent, faults>>
  PROVE  Types'
<1>1. s' \in Adapters /\ t' \in [Ids -> Drives] /\ Len(s'.command) <= CommandBytes
  BY DEF Xs, MovesByte
<1> QED
  BY <1>1 DEF Types

\* A byte that the channel still moves after a reset.
LEMMA LateByte ==
  ASSUME IInv, pc = "idle", s.phase = "bus_free", s.next = "status", status = Cut, armed,
         UNCHANGED <<pc, n, said, moved, armed, status, sent, faults>>,
         NEW y \in Xs, SameBus(y.s, s), y.s.transfer = s.transfer, y.s.next = s.next,
         y.s.command = s.command, s' = y.s, t' = t, d' \in Dmas, d'.timer = {},
         mem' \in [0..(MemSize - 1) -> Triples],
         \A a \in Total(order)..(MemSize - 1) : mem'[a] = mem[a],
         order.op = "write" => mem' = mem
  PROVE  IInv' /\ OrderedWrite
<1>1. order' = order /\ n > 0
  BY DEF order, IInv, Channel
<1>2. Types'
  <2>1. s' \in Adapters /\ t' \in [Ids -> Drives] /\ Len(s'.command) <= CommandBytes
    BY DEF Xs, IInv, Types
  <2> QED
    BY <2>1 DEF IInv, Types
<1>3. Bus'
  BY DEF IInv, Bus, Quiet, SameBus
<1>4. Command' /\ Drive' /\ Verdict' /\ Written'
  BY DEF Command, Drive, Verdict, Written
<1>5. Channel'
  BY <1>1 DEF IInv, Channel
<1>6. Memory'
  BY <1>1 DEF IInv, Memory, Payload
<1>7. OrderedWrite
  BY DEF OrderedWrite
<1> QED
  BY <1>2, <1>3, <1>4, <1>5, <1>6, <1>7 DEF IInv

LEMMA DmaTimerKeeps ==
  ASSUME IInv, DmaTimer
  PROVE  IInv' /\ OrderedWrite
<1>1. x0 \in Xs /\ x0.s = s /\ x0.d = d /\ x0.t = t
  BY TypedX DEF IInv
<1>2. PICK x, a, dir : x = Fired(x0) /\ a = d.address[ScsiChannel] /\ dir = d.mode[ScsiChannel].direction
  OBVIOUS
<1>3. ScsiChannel \in d.timer /\ d.timer \subseteq {ScsiChannel}
  BY DEF DmaTimer, IInv, Channel
<1>4. /\ x \in Xs /\ x.s = s /\ x.t = t /\ SameDma(x.d, d) /\ x.d.timer = {}
  <2>1. x.d.timer = d.timer \ {ScsiChannel}
    BY <1>1, <1>2, FiredFields
  <2> QED
    BY <1>1, <1>2, <1>3, <2>1, FiredFields
<1>5. UNCHANGED <<pc, n, said, moved, armed, status, sent, faults>>
  BY DEF DmaTimer
<1>6. /\ armed /\ a \in 0..(Total(order) - 1) /\ n > 0
      /\ dir = IF order.op = "write" THEN "out" ELSE "in"
      /\ \/ pc = "run" /\ InDataPhase(s) /\ s.transfer /\ ScsiChannel \notin d.reached
         \/ pc = "idle" /\ s.phase = "bus_free" /\ s.next = "status" /\ status = Cut
  BY <1>2, <1>3 DEF IInv, Channel
<1>7. Total(order) \in Nat /\ Total(order) < MemSize /\ MemSize \in Nat
  BY <1>6, OrderType DEF IInv
<1>8. mem \in [0..(MemSize - 1) -> Triples] /\ a \in 0..(MemSize - 1)
  <2>1. mem \in [0..(MemSize - 1) -> Triples]
    BY DEF IInv, Types
  <2>2. a \in 0..(MemSize - 1)
    BY <1>6, <1>7
  <2> QED
    BY <2>1, <2>2
<1>9. /\ dir = "in" => /\ mem' = [mem EXCEPT ![a] = fmscsi_data_r(x).s.data]
                       /\ Becomes(Advanced(fmscsi_data_r(x)))
      /\ dir = "out" => mem' = mem /\ Becomes(Advanced(fmscsi_data_w(x, mem[a])))
  <2>1. x = [x0 EXCEPT !.d.timer = @ \ {ScsiChannel}]
    BY <1>2 DEF Fired
  <2>2. CASE dir = "in"
    <3>1. mem' = [mem EXCEPT ![a] = fmscsi_data_r(x).s.data]
      BY <1>2, <2>1, <2>2 DEF DmaTimer
    <3>2. Becomes(Advanced(fmscsi_data_r(x)))
      BY <1>2, <2>1, <2>2 DEF DmaTimer, Advanced
    <3> QED
      BY <2>2, <3>1, <3>2
  <2>3. CASE dir = "out"
    <3>1. mem' = mem
      BY <1>2, <2>1, <2>3 DEF DmaTimer
    <3>2. Becomes(Advanced(fmscsi_data_w(x, mem[a])))
      BY <1>2, <2>1, <2>3 DEF DmaTimer, Advanced
    <3> QED
      BY <2>3, <3>1, <3>2
  <2> QED
    BY <2>2, <2>3
<1>10. ASSUME pc = "run"
       PROVE  /\ order.dma /\ order.op \in {"read", "write"}
              /\ order.op = "read" => s.phase = "datain"
              /\ order.op = "write" => s.phase = "dataout"
              /\ a = At(order, s.index) /\ s.index < Total(order)
  <2>1. order.dma
    BY <1>6 DEF IInv, Channel
  <2>2. order.op \in {"read", "write"}
    BY <1>6, <2>1, OrderType DEF IInv
  <2>3. s.phase = Phase(order)
    BY <1>6, <1>10, DataPhase
  <2>4. s.index \in 0..(Total(order) - 1)
    BY <1>6, <1>10, <2>2, IndexFacts
  <2>5. a = At(order, s.index)
    BY <1>2, <1>6, <1>10 DEF IInv, Channel
  <2> QED
    BY <1>7, <2>1, <2>2, <2>3, <2>4, <2>5 DEF Phase
<1>11. ASSUME order.op # "write", pc = "run"
       PROVE  IInv' /\ OrderedWrite
  <2>1. PICK y, z, e : y = fmscsi_data_r(x) /\ z = y.d /\ e = advance(z, ScsiChannel)
    OBVIOUS
  <2>2. mem' = [mem EXCEPT ![a] = y.s.data] /\ Becomes(Advanced(y))
    BY <1>6, <1>9, <1>11, <2>1
  <2>3. s.phase = "datain" /\ InDataPhase(s) /\ s.transfer /\ ScsiChannel \notin d.reached
        /\ a = At(order, s.index) /\ s.index < Total(order)
    BY <1>6, <1>10, <1>11
  <2>4. y \in Xs
    <3>1. s.selected \in Ids
      BY <1>11, <2>3, DataPhase
    <3>2. Readable(x)
      BY <1>4, <1>11, <2>3, NextReadable
    <3> QED
      BY <1>4, <2>1, <2>3, <3>1, <3>2, ReadInFields
  <2>5. s' = y.s /\ d' = e /\ t' = y.t
    BY <2>1, <2>2, <2>4, AdvancedFields
  <2>6. mem' = IF s.index < Total(order) THEN [mem EXCEPT ![At(order, s.index)] = y.s.data] ELSE mem
    BY <2>2, <2>3
  <2>7. /\ Cancels(y, x) /\ MovesByte
        /\ mem' \in [0..(MemSize - 1) -> Triples]
        /\ Bus' /\ Command' /\ Drive' /\ Memory' /\ Written' /\ Verdict' /\ OrderedWrite
    BY <1>4, <1>5, <1>11, <2>1, <2>3, <2>5, <2>6, ReadByteKeeps
  <2>8. z \in Dmas /\ SameDma(z, d) /\ z.timer = {}
    BY <1>4, <2>1, <2>4, <2>7 DEF Cancels, SameDma, Xs
  <2>9. d' \in Dmas /\ Channel'
    BY <1>5, <1>6, <1>11, <2>1, <2>3, <2>5, <2>7, <2>8, DmaByte
  <2>10. Types'
    BY <1>5, <2>4, <2>5, <2>7, <2>9, DmaTypes DEF IInv
  <2> QED
    BY <2>7, <2>9, <2>10 DEF IInv
<1>12. ASSUME order.op = "write", pc = "run"
       PROVE  IInv' /\ OrderedWrite
  <2>1. PICK byte, y, z, e : byte = mem[a] /\ y = fmscsi_data_w(x, byte) /\ z = y.d
                             /\ e = advance(z, ScsiChannel)
    OBVIOUS
  <2>2. mem' = mem /\ Becomes(Advanced(y)) /\ byte \in Triples
    BY <1>6, <1>8, <1>9, <1>12, <2>1
  <2>3. s.phase = "dataout" /\ InDataPhase(s) /\ s.transfer /\ ScsiChannel \notin d.reached
        /\ a = At(order, s.index) /\ s.index < Total(order)
    BY <1>6, <1>10, <1>12
  <2>4. byte = Payload(s.index)
    <3>1. s.index \in 0..(Total(order) - 1)
      BY <1>12, <2>3, IndexFacts
    <3> QED
      BY <1>6, <1>12, <2>1, <2>3, <3>1 DEF IInv, Memory
  <2>5. y \in Xs
    <3>1. s.selected \in Ids
      BY <1>12, <2>3, DataPhase
    <3>2. Writes(x) => x.t[x.s.selected].lba \in Lbas
      BY <1>4, <1>12, <2>3, NextWritable
    <3> QED
      BY <1>4, <2>1, <2>2, <2>3, <3>1, <3>2, WriteOutFields
  <2>6. s' = y.s /\ d' = e /\ t' = y.t
    BY <2>1, <2>2, <2>5, AdvancedFields
  <2>7. /\ Cancels(y, x) /\ MovesByte
        /\ Bus' /\ Command' /\ Drive' /\ Memory' /\ Written' /\ Verdict' /\ OrderedWrite
    BY <1>4, <1>5, <1>12, <2>1, <2>2, <2>3, <2>4, <2>6, WriteByteKeeps
  <2>8. z \in Dmas /\ SameDma(z, d) /\ z.timer = {}
    BY <1>4, <2>1, <2>5, <2>7 DEF Cancels, SameDma, Xs
  <2>9. d' \in Dmas /\ Channel'
    BY <1>5, <1>6, <1>12, <2>1, <2>3, <2>6, <2>7, <2>8, DmaByte
  <2>10. Types'
    BY <1>5, <1>8, <2>2, <2>5, <2>6, <2>7, <2>9, DmaTypes DEF IInv
  <2> QED
    BY <2>7, <2>9, <2>10 DEF IInv
<1>13. ASSUME order.op # "write", pc # "run"
       PROVE  IInv' /\ OrderedWrite
  <2>1. PICK y, z, e : y = fmscsi_data_r(x) /\ z = y.d /\ e = advance(z, ScsiChannel)
    OBVIOUS
  <2>2. mem' = [mem EXCEPT ![a] = y.s.data] /\ Becomes(Advanced(y))
    BY <1>6, <1>9, <1>13, <2>1
  <2>3. pc = "idle" /\ s.phase = "bus_free" /\ s.next = "status" /\ status = Cut
    BY <1>6, <1>13
  <2>4. /\ y \in Xs /\ SameXfer(y, x) /\ y.t = x.t
        /\ y.s.next = x.s.next /\ y.s.command = x.s.command
    BY <1>4, <2>1, <2>3, ReadIdleFields
  <2>5. s' = y.s /\ d' = e /\ t' = t
    BY <1>4, <2>1, <2>2, <2>4, AdvancedFields
  <2>6. z \in Dmas /\ z.timer = {} /\ y.s.data \in Triples
    BY <1>4, <2>1, <2>4 DEF SameXfer, Xs, Adapters
  <2>7. d' \in Dmas /\ d'.timer = {}
    BY <2>1, <2>5, <2>6, AdvanceFields
  <2>8. PICK v : v = y.s.data
    OBVIOUS
  <2>9. /\ mem' \in [0..(MemSize - 1) -> Triples]
        /\ \A b \in Total(order)..(MemSize - 1) : mem'[b] = mem[b]
    BY <1>6, <1>7, <1>8, <2>2, <2>6, <2>8
  <2> QED
    BY <1>4, <1>5, <1>6, <1>13, <2>3, <2>4, <2>5, <2>7, <2>9, LateByte DEF SameXfer
<1>14. ASSUME order.op = "write", pc # "run"
       PROVE  IInv' /\ OrderedWrite
  <2>1. PICK byte, y, z, e : byte = mem[a] /\ y = fmscsi_data_w(x, byte) /\ z = y.d
                             /\ e = advance(z, ScsiChannel)
    OBVIOUS
  <2>2. mem' = mem /\ Becomes(Advanced(y)) /\ byte \in Triples
    BY <1>6, <1>8, <1>9, <1>14, <2>1
  <2>3. pc = "idle" /\ s.phase = "bus_free" /\ s.next = "status" /\ status = Cut
    BY <1>6, <1>14
  <2>4. byte[1] # -3
    <3>1. PICK i : i = At(order, a)
      OBVIOUS
    <3>2. i \in 0..(Total(order) - 1) /\ At(order, i) = a
      BY <1>6, <1>7, <3>1, AtFacts
    <3>3. byte = Payload(i)
      BY <1>6, <1>14, <2>1, <3>2 DEF IInv, Memory
    <3>4. sent \in Nat /\ i \in Int
      BY <3>2, <1>7, GuestAssumption DEF IInv, Types
    <3>5. byte[1] = -10 - sent
      BY <3>3, <3>4, TripleOf DEF Payload
    <3> QED
      BY <3>4, <3>5
  <2>5. /\ y \in Xs /\ SameXfer(y, x) /\ y.t = x.t
        /\ y.s.next = x.s.next /\ y.s.command = x.s.command
    BY <1>4, <2>1, <2>2, <2>3, <2>4, WriteIdFields
  <2>6. s' = y.s /\ d' = e /\ t' = t
    BY <1>4, <2>1, <2>2, <2>5, AdvancedFields
  <2>7. z \in Dmas /\ z.timer = {}
    BY <1>4, <2>1, <2>5 DEF SameXfer, Xs
  <2>8. d' \in Dmas /\ d'.timer = {}
    BY <2>1, <2>6, <2>7, AdvanceFields
  <2> QED
    BY <1>4, <1>5, <1>6, <1>8, <2>2, <2>3, <2>5, <2>6, <2>8, LateByte DEF SameXfer
<1> QED
  BY <1>11, <1>12, <1>13, <1>14

-----------------------------------------------------------------------------
(* Every step, and what follows for every behaviour *)

LEMMA NextKeeps ==
  ASSUME IInv, Next
  PROVE  IInv' /\ OrderedWrite
<1>1. ImagesStay \/ t' = t => OrderedWrite
  BY DEF ImagesStay, OrderedWrite
<1>2. CASE Begin
  BY <1>1, <1>2, BeginKeeps DEF Begin
<1>3. CASE Drain
  BY <1>1, <1>3, DrainKeeps
<1>4. CASE WriteId
  BY <1>1, <1>4, WriteIdKeeps
<1>5. CASE Select
  BY <1>1, <1>5, SelectKeeps
<1>6. CASE Answered
  BY <1>1, <1>6, AnsweredKeeps
<1>7. CASE SendCommand
  BY <1>1, <1>7, SendCommandKeeps
<1>8. CASE TakeByte
  BY <1>8, TakeByteKeeps
<1>9. CASE GiveByte
  BY <1>9, GiveByteKeeps
<1>10. CASE \E length \in 1..MemSize : Program(length)
  <2>1. PICK length \in 1..MemSize : Program(length)
    BY <1>10
  <2>2. t' = t
    BY <2>1 DEF Program
  <2> QED
    BY <1>1, <2>1, <2>2, ProgramKeeps
<1>11. CASE PieceDone
  BY <1>1, <1>11, PieceDoneKeeps DEF PieceDone
<1>12. CASE ReadStatus \/ ReadMessage
  BY <1>1, <1>12, ReadEndKeeps
<1>13. CASE WriteMessage
  BY <1>1, <1>13, WriteMessageKeeps
<1>14. CASE End
  BY <1>1, <1>14, EndKeeps DEF End, device
<1>15. CASE Unknown \/ Attention
  <2>1. GiveUp /\ faults' \in 0..MaxFaults
    BY <1>15, FaultType DEF Unknown, Attention, IInv, Types
  <2> QED
    BY <1>1, <2>1, GiveUpKeeps
<1>16. CASE Attended
  BY <1>1, <1>16, AttendedKeeps DEF Attended, device
<1>17. CASE Reset
  BY <1>1, <1>17, ResetKeeps
<1>18. CASE PauseDma \/ ResumeDma
  BY <1>1, <1>18, PauseKeeps DEF PauseDma, ResumeDma
<1>19. CASE TransferTimer
  BY <1>1, <1>19, TransferTimerKeeps
<1>20. CASE PhaseTimer
  BY <1>1, <1>20, PhaseTimerKeeps
<1>21. CASE DmaTimer
  BY <1>21, DmaTimerKeeps
<1> QED
  BY <1>2, <1>3, <1>4, <1>5, <1>6, <1>7, <1>8, <1>9, <1>10, <1>11, <1>12, <1>13, <1>14,
     <1>15, <1>16, <1>17, <1>18, <1>19, <1>20, <1>21 DEF Next, Guest

LEMMA StutterKeeps ==
  ASSUME IInv, UNCHANGED vars
  PROVE  IInv'
<1>1. Types'
  BY DEF IInv, Types, vars
<1>2. Bus' /\ Command' /\ Drive' /\ Memory' /\ Written' /\ Verdict'
  BY DmaAlone DEF vars
<1>3. order' = order /\ Left' = Left
  BY DEF order, Left, vars
<1>4. Channel'
  BY <1>3 DEF IInv, Channel, vars
<1> QED
  BY <1>1, <1>2, <1>4 DEF IInv

\* The adapter, the drives, the DMA channel and the guest agree after every
\* step, for every list of orders, every sector size and every command length:
\* the guest's count and the adapter's differ by exactly what the channel has
\* still to move, and the drive stands at the sector the count says.
THEOREM AlwaysInStep == Spec => []IInv
<1>1. Init => IInv
  BY InitKeeps
<1>2. IInv /\ [Next]_vars => IInv'
  BY NextKeeps, StutterKeeps
<1> QED
  BY <1>1, <1>2, PTL DEF Spec

LEMMA OutIsFunction ==
  ASSUME NEW o \in Outs
  PROVE  o \in [{"dmae", "imsk", "atn", "sel"} -> BOOLEAN]
BY DEF Outs

LEMMA MemoryFollows ==
  ASSUME IInv
  PROVE  MemoryIsSafe
<1>1. s \in Adapters
  BY DEF IInv, Types
<1>2. /\ s.phase \in Phases /\ s.next \in Phases \cup {"none"}
      /\ s.transfer \in BOOLEAN /\ s.req \in BOOLEAN /\ s.int \in BOOLEAN /\ s.bsy \in BOOLEAN
      /\ s.out \in Outs /\ s.target \in Targets /\ s.selected \in Targets /\ s.index \in Nat
  BY <1>1 DEF Adapters
<1>3. s.out \in [{"dmae", "imsk", "atn", "sel"} -> BOOLEAN]
  BY <1>2, OutIsFunction
<1>4. InDataPhase(s) => s.index <= s.length
  <2>1. InDataPhase(s) => pc = "run"
    BY DEF IInv, Types, Pcs, Bus, InDataPhase
  <2> QED
    BY <2>1 DEF IInv, Channel
<1>5. TypeOK
  <2>1. Targets = 0..6 /\ Triples = Int \X Int \X Int
    BY DEF Targets, Triples
  <2>2. /\ d \in Dmas /\ mem \in [0..(MemSize - 1) -> Triples] /\ pc \in Pcs
        /\ n \in 0..Len(Orders) /\ moved \in Nat /\ said \in 0..CommandBytes
        /\ sent \in 0..MaxSent /\ faults \in 0..MaxFaults /\ Len(s.command) <= CommandBytes
    BY DEF IInv, Types
  <2> QED
    BY <1>2, <1>3, <1>4, <2>1, <2>2 DEF TypeOK, Pcs
<1>6. ASSUME n > 0
      PROVE  /\ \A a \in Total(order)..(MemSize - 1) : mem[a] = Unused
             /\ order.op = "read" /\ status # Cut =>
                  \A i \in 0..(Total(order) - 1) : mem[At(order, i)] \in {Unused, Wanted(order, i)}
  BY <1>6 DEF IInv, Memory
<1> QED
  BY <1>5, <1>6 DEF MemoryIsSafe

\* Whatever the orders, the pieces, the resets and the pauses, with ATN in the
\* command phase only: registers stay
\* in their ranges, no transfer passes the length of its command, memory outside
\* the order's buffer is never touched, and a read leaves in the buffer nothing
\* but the bytes it asked for (fmscsi_data_r, dma_transfer_timer).
THEOREM MemoryAlwaysSafe == Spec => []MemoryIsSafe
BY AlwaysInStep, MemoryFollows, PTL

LEMMA DoneFollows ==
  ASSUME IInv
  PROVE  OrderIsDone
<1> SUFFICES ASSUME pc = "idle", n > 0, status \notin {Pending, Cut}
             PROVE  /\ order.op = "read" =>
                         \A i \in 0..(Total(order) - 1) : mem[At(order, i)] = Wanted(order, i)
                    /\ order.op = "write" /\ order.id \in Loaded =>
                         \A i \in 0..(Total(order) - 1) : Wanted(order, i) = Payload(i)
                    /\ status[2] = (IF order.id \in Loaded THEN 0 ELSE 2)
  BY DEF OrderIsDone
<1>1. Got = Total(order) /\ Total(order) \in Nat /\ order.blocks \in Nat
  BY OrderType DEF Got, IInv
<1>2. ASSUME order.op = "read", NEW i \in 0..(Total(order) - 1)
      PROVE  mem[At(order, i)] = Wanted(order, i)
  BY <1>1, <1>2 DEF IInv, Memory
<1>3. ASSUME order.op = "write", order.id \in Loaded, NEW i \in 0..(Total(order) - 1)
      PROVE  Wanted(order, i) = Payload(i)
  <2>1. PICK j, r : j = i \div SectorBytes /\ r = i % SectorBytes
    OBVIOUS
  <2>2. i \in Nat /\ i < order.blocks * SectorBytes
    BY <1>1 DEF Total
  <2>3. j \in Nat /\ j < order.blocks /\ r \in 0..(SectorBytes - 1) /\ r + 1 \in 1..SectorBytes
    BY <1>1, <2>1, <2>2, SectorOf, PlaceInSector
  <2>4. i = j * SectorBytes + r
    BY <2>1, <2>2, SectorOf
  <2>5. Got \div SectorBytes = order.blocks
    BY <1>1, SectorOf DEF Total
  <2>6. t[order.id].image[order.lba + j][r + 1] = Payload(j * SectorBytes + (r + 1) - 1)
    <3>1. j \in 0..(order.blocks - 1)
      BY <1>1, <2>3
    <3> QED
      BY <1>3, <2>3, <2>5, <3>1 DEF IInv, Written
  <2>7. j * SectorBytes + (r + 1) - 1 = i
    <3>1. j * SectorBytes \in Int /\ r \in Int
      BY <2>3, ScsiAssumption
    <3> QED
      BY <2>4, <3>1
  <2> QED
    BY <1>3, <2>1, <2>6, <2>7 DEF Wanted
<1>4. status[2] = (IF order.id \in Loaded THEN 0 ELSE 2)
  BY DEF IInv, Verdict
<1> QED
  BY <1>2, <1>3, <1>4

\* Whatever the orders and however their data are moved, an order that ended
\* with a status has moved all of them, each byte once and in its place, and
\* the status tells a drive with an image from one without (fmscsi_data_r,
\* fmscsi_data_w, ReadData and WriteData of t10sbc.cpp).
THEOREM OrderAlwaysDone == Spec => []OrderIsDone
BY AlwaysInStep, DoneFollows, PTL

\* No step writes a sector but one of the order's own, on the drive the guest
\* selected, and what it writes there is the whole of what the guest sent for
\* that sector (WriteData, called when the adapter's buffer is full).
THEOREM WritesAlwaysOrdered == Spec => OnlyOrderedWrites
<1>1. IInv /\ [Next]_vars => [OrderedWrite]_vars
  BY NextKeeps
<1>2. [][OrderedWrite]_vars => OnlyOrderedWrites
  BY PTL DEF OnlyOrderedWrites, OrderedWrite
<1> QED
  BY <1>1, <1>2, AlwaysInStep, PTL DEF Spec
=============================================================================
