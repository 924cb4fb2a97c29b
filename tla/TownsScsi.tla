----------------------------- MODULE TownsScsi ------------------------------
(***************************************************************************)
(* The SCSI adapter, its drives and the DMA channel, together with a guest *)
(* that works the way the phases ask for: it selects a drive, and then,    *)
(* whenever REQ is high, does what the phase lines say.  Data it moves     *)
(* through the data register or by DMA, in pieces of its own choice.  The  *)
(* guest is external to the emulator.  It may take any time between two    *)
(* port accesses, reset the bus at any moment, and give a command up by    *)
(* ATN when it is asked for a byte of it.                                  *)
(*                                                                         *)
(* Assumed of the guest: it lets a millisecond pass after a reset, an      *)
(* ended command or power on, and reads away the phase it then finds,      *)
(* before it selects.  device_reset leaves STATUS as the phase to come     *)
(* 800 us later, and in STATUS the ID that selects a drive is ignored.     *)
(* Also that it raises ATN in no other phase: set_output_line (375-379)    *)
(* leaves the transfer timer running, which would go on raising REQ.  And  *)
(* that its commands are of the groups get_scsi_cmd_len knows.             *)
(***************************************************************************)
EXTENDS FmScsi

CONSTANTS
  MemSize,     \* addresses of the guest's memory
  MaxSent,     \* bound: commands the guest sends
  MaxFaults    \* bound: resets, attentions and pauses of the DMA controller

\* What an order says: the command, how its data are moved and whether the
\* guest waits for interrupts.  fmscsi_data_w takes the IDs 0 to 4 for targets;
\* "other" is a command of a known length that the drive does not know.
OrderKinds ==
  [op : {"read", "write", "inquiry", "parameter", "ready", "other"}, id : 0..4, lba : Nat,
   blocks : Nat, dma : BOOLEAN, irq : BOOLEAN, down : BOOLEAN, auto : BOOLEAN,
   transfer : {"demand", "single", "block", "cascade"}]

\* Sectors are read and written where the image has them, at least one of them;
\* the data fit the guest's buffer and a DMA count, and only they go by DMA.
ASSUME GuestAssumption ==
  /\ MemSize \in Nat /\ MaxSent \in Nat /\ MaxFaults \in Nat
  /\ MemSize <= AddressModulus
  /\ Orders \in Seq(OrderKinds)
  /\ \A i \in 1..Len(Orders) :
       /\ Orders[i].blocks * SectorBytes < MemSize
       /\ Orders[i].blocks * SectorBytes <= CountModulus
       /\ Orders[i].op \in {"read", "write"} =>
            /\ Orders[i].blocks > 0
            /\ Orders[i].lba..(Orders[i].lba + Orders[i].blocks - 1) \subseteq Lbas
       /\ Orders[i].dma => Orders[i].op \in {"read", "write"}

VARIABLES
  s, d, t,    \* adapter, DMA controller, drives
  mem,        \* the guest's memory, its buffer at address 0
  pc,         \* what the guest does next
  n,          \* the number of the order it works on, 0 before the first
  said,       \* bytes of the command sent
  moved,      \* bytes of data moved or given to the DMA channel
  armed,      \* the channel works on a piece
  status,     \* the status byte read, or Pending, or Cut: reset or given up
  sent,       \* commands sent
  faults      \* resets, attentions and pauses so far

device == <<s, d, t>>
vars   == <<s, d, t, mem, pc, n, said, moved, armed, status, sent, faults>>

order == Orders[n]
Total(o) == o.blocks * SectorBytes
Unused  == <<-9, 0, 0>>
Pending == <<-7, 0, 0>>
Cut     == <<-8, 0, 0>>

\* Where the guest's buffer has byte i = 0, 1, ... of the order's data.
At(o, i) == IF o.down THEN Total(o) - 1 - i ELSE i

\* The data of a write, made out of the number of commands sent.
Payload(i) == <<-10 - sent, i, 0>>

-----------------------------------------------------------------------------
x0 == [s |-> s, d |-> d, t |-> t]
Becomes(x) == s' = x.s /\ d' = x.d /\ t' = x.t

Init ==
  /\ s = PoweredOn /\ d = Started /\ t = [id \in Ids |-> NewDrive(id)]
  /\ mem = [a \in 0..(MemSize - 1) |-> Unused]
  /\ pc = "idle" /\ n = 0 /\ said = 0 /\ moved = 0 /\ armed = FALSE
  /\ status = Pending /\ sent = 0 /\ faults = 0

\* The guest takes up an order: it fills or empties its buffer, masks the
\* DMA channels and reads old terminal counts away, or resets the controller,
\* which does the same.
Begin ==
  /\ pc = "idle" /\ sent < MaxSent /\ d.timer = {}
  /\ n' \in 1..Len(Orders)
  /\ sent' = sent + 1
  /\ LET o == Orders[n']
     IN mem' = [a \in DOMAIN mem |->
                  IF o.op = "write" /\ a < Total(o)
                  THEN <<-10 - sent', At(o, a), 0>> ELSE Unused]
  /\ d' \in {status_r(mask_w(d, Channels)), soft_reset(d)}
  /\ pc' = "free" /\ said' = 0 /\ moved' = 0 /\ armed' = FALSE /\ status' = Pending
  /\ UNCHANGED <<s, t, faults>>

\* A phase that is left over is read away; then the bus is free.
Drain ==
  /\ pc = "free" /\ s.next = "none" /\ s.req
  /\ Becomes(fmscsi_data_r(x0))
  /\ UNCHANGED <<mem, pc, n, said, moved, armed, status, sent, faults>>

WriteId ==
  /\ pc = "free" /\ s.next = "none" /\ ~s.req /\ ~s.bsy
  /\ Becomes(fmscsi_data_w(x0, IdByte(order.id)))
  /\ pc' = "select"
  /\ UNCHANGED <<mem, n, said, moved, armed, status, sent, faults>>

Out(sel, atn) == [dmae |-> order.dma, imsk |-> order.irq, atn |-> atn, sel |-> sel]

Select ==
  /\ pc = "select"
  /\ Becomes(fmscsi_control_w(x0, FALSE, Out(TRUE, FALSE)))
  /\ pc' = "busy"
  /\ UNCHANGED <<mem, n, said, moved, armed, status, sent, faults>>

\* The drive answers, or there is none.
Answered ==
  /\ pc = "busy" /\ (s.bsy \/ s.next = "none")
  /\ Becomes(fmscsi_control_w(x0, FALSE, Out(FALSE, FALSE)))
  /\ pc' = IF s.bsy THEN "run" ELSE "idle"
  /\ UNCHANGED <<mem, n, said, moved, armed, status, sent, faults>>

\* The guest sees a phase: by the lines and REQ, and the interrupt if it uses
\* it; the data phases never interrupt.
Sees(phase) ==
  /\ pc = "run" /\ s.req /\ s.bsy
  /\ s.lines = Shown(phase)
  /\ phase \in {"datain", "dataout"} \/ (order.irq => s.int)

SendCommand ==
  /\ Sees("command") /\ said < CommandBytes
  /\ said' = said + 1
  /\ Becomes(fmscsi_data_w(x0, CommandByte(n, said')))
  /\ UNCHANGED <<mem, pc, n, moved, armed, status, sent, faults>>

\* By program.  A guest does not take more than its buffer has room for.
TakeByte ==
  /\ Sees("datain") /\ ~order.dma
  /\ Becomes(fmscsi_data_r(x0))
  /\ mem' = IF moved < Total(order) THEN [mem EXCEPT ![At(order, moved)] = s'.data] ELSE mem
  /\ moved' = moved + 1
  /\ UNCHANGED <<pc, n, said, armed, status, sent, faults>>

GiveByte ==
  /\ Sees("dataout") /\ ~order.dma
  /\ Becomes(fmscsi_data_w(x0, IF moved < Total(order) THEN mem[At(order, moved)] ELSE Zero))
  /\ moved' = moved + 1
  /\ UNCHANGED <<mem, pc, n, said, armed, status, sent, faults>>

\* By DMA, in pieces; with automatic initialisation the whole at once.
Program(length) ==
  /\ Sees("datain") \/ Sees("dataout")
  /\ order.dma /\ ~armed /\ moved + length <= Total(order)
  /\ order.auto => length = Total(order)
  /\ LET sel  == channel_w(d, ScsiChannel, FALSE)
         mode == [transfer |-> order.transfer, auto |-> order.auto, down |-> order.down,
                  direction |-> IF order.op = "write" THEN "out" ELSE "in"]
     IN d' = mask_w(address_w(count_w(mode_w(sel, mode), length - 1), At(order, moved)),
                    Channels \ {ScsiChannel})
  /\ armed' = TRUE /\ moved' = moved + length
  /\ UNCHANGED <<s, t, mem, pc, n, said, status, sent, faults>>

\* The guest reads the status register of the DMA controller.
PieceDone ==
  /\ pc = "run" /\ armed /\ ScsiChannel \in d.reached
  /\ d' = status_r(d)
  /\ armed' = FALSE
  /\ UNCHANGED <<s, t, mem, pc, n, said, moved, status, sent, faults>>

ReadStatus ==
  /\ Sees("status")
  /\ Becomes(fmscsi_data_r(x0))
  /\ status' = IF status = Cut THEN status ELSE s'.data
  /\ UNCHANGED <<mem, pc, n, said, moved, armed, sent, faults>>

ReadMessage ==
  /\ Sees("message_in")
  /\ Becomes(fmscsi_data_r(x0))
  /\ UNCHANGED <<mem, pc, n, said, moved, armed, status, sent, faults>>

WriteMessage ==
  /\ Sees("message_out")
  /\ Becomes(fmscsi_data_w(x0, Zero))
  /\ UNCHANGED <<mem, pc, n, said, moved, armed, status, sent, faults>>

\* BUSY has fallen: the command is over.
End ==
  /\ pc = "run" /\ ~s.bsy
  /\ pc' = "idle"
  /\ UNCHANGED <<device, mem, n, said, moved, armed, status, sent, faults>>

-----------------------------------------------------------------------------
(* What disturbs it *)

Fault == faults < MaxFaults /\ faults' = faults + 1

\* The guest gives a command up and waits for MESSAGE OUT: before it is sent, or
\* because the drive, which does not know it, asks for more of it.
GiveUp ==
  /\ Sees("command")
  /\ Becomes(fmscsi_control_w(x0, FALSE, Out(FALSE, TRUE)))
  /\ pc' = "attention" /\ status' = Cut
  /\ UNCHANGED <<mem, n, said, moved, armed, sent>>

Unknown   == GiveUp /\ said = CommandBytes /\ UNCHANGED faults
Attention == GiveUp /\ Fault

Attended ==
  /\ pc = "attention" /\ s.lines.msg
  /\ pc' = "run"
  /\ UNCHANGED <<device, mem, n, said, moved, armed, status, sent, faults>>

\* RST at any moment, with the other lines low; IMSK may stay set.
Reset ==
  /\ Fault /\ n > 0
  /\ \E imsk \in BOOLEAN : Becomes(fmscsi_control_w(x0, TRUE, [NoLines EXCEPT !.imsk = imsk]))
  /\ pc' = "idle"
  /\ status' = Cut
  /\ UNCHANGED <<mem, n, said, moved, armed, sent>>

\* The guest disables the DMA controller for a while.
PauseDma ==
  /\ Fault /\ pc = "run" /\ order.dma /\ ~d.disabled
  /\ d' = device_control_w(d, TRUE)
  /\ UNCHANGED <<s, t, mem, pc, n, said, moved, armed, status, sent>>

ResumeDma ==
  /\ d.disabled
  /\ d' = device_control_w(d, FALSE)
  /\ UNCHANGED <<s, t, mem, pc, n, said, moved, armed, status, sent, faults>>

-----------------------------------------------------------------------------
(* Timers.  DMA, at 4 MHz, has moved the byte before the transfer timer, at *)
(* 3 MHz, or the phase timer, at 800 us, runs out.                          *)

TransferTimer ==
  /\ s.transfer /\ d.timer = {}
  /\ Becomes(update_transfer(x0))
  /\ UNCHANGED <<mem, pc, n, said, moved, armed, status, sent, faults>>

PhaseTimer ==
  /\ s.next # "none" /\ d.timer = {}
  /\ Becomes(set_phase(x0))
  /\ UNCHANGED <<mem, pc, n, said, moved, armed, status, sent, faults>>

\* dma_transfer_timer.  A mode without direction moves nothing.
DmaTimer ==
  /\ ScsiChannel \in d.timer
  /\ LET mode  == d.mode[ScsiChannel]
         a     == d.address[ScsiChannel]
         fired == [x0 EXCEPT !.d.timer = @ \ {ScsiChannel}]
         x     == CASE mode.direction = "in"  -> fmscsi_data_r(fired)
                    [] mode.direction = "out" -> fmscsi_data_w(fired, mem[a])
                    [] OTHER -> fired
     IN /\ mem' = IF mode.direction = "in" THEN [mem EXCEPT ![a] = x.s.data] ELSE mem
        /\ Becomes(IF mode.direction \in {"in", "out"} THEN [x EXCEPT !.d = advance(@, ScsiChannel)] ELSE x)
  /\ UNCHANGED <<pc, n, said, moved, armed, status, sent, faults>>

-----------------------------------------------------------------------------
Guest ==
  \/ Begin
  \/ Drain
  \/ WriteId
  \/ Select
  \/ Answered
  \/ SendCommand
  \/ TakeByte
  \/ GiveByte
  \/ \E length \in 1..MemSize : Program(length)
  \/ PieceDone
  \/ ReadStatus
  \/ ReadMessage
  \/ WriteMessage
  \/ End
  \/ Unknown
  \/ Attended
  \/ ResumeDma

Next ==
  \/ Guest
  \/ Attention
  \/ Reset
  \/ PauseDma
  \/ TransferTimer
  \/ PhaseTimer
  \/ DmaTimer

Spec == Init /\ [][Next]_vars

\* The timers of the emulated machine run out, and a guest that has begun an
\* order goes on with it.
FairSpec ==
  /\ Spec
  /\ WF_vars(Guest) /\ WF_vars(ResumeDma)
  /\ WF_vars(TransferTimer) /\ WF_vars(PhaseTimer) /\ WF_vars(DmaTimer)

-----------------------------------------------------------------------------
\* The registers of adapter, DMA controller and guest are of their types; in
\* particular no transfer runs past the length the drive gave.
TypeOK ==
  /\ s.phase \in Phases /\ s.next \in Phases \cup {"none"}
  /\ {s.transfer, s.req, s.int, s.bsy} \subseteq BOOLEAN
  /\ s.out \in [{"dmae", "imsk", "atn", "sel"} -> BOOLEAN]
  /\ s.target \in 0..6 /\ s.selected \in 0..6
  /\ Len(s.command) <= CommandBytes
  /\ s.index \in Nat /\ (InDataPhase(s) => s.index <= s.length)
  /\ d \in Dmas
  /\ mem \in [0..(MemSize - 1) -> Int \X Int \X Int]
  /\ pc \in {"idle", "free", "select", "busy", "run", "attention"}
  /\ n \in 0..Len(Orders) /\ moved \in Nat /\ said \in 0..CommandBytes
  /\ sent \in 0..MaxSent /\ faults \in 0..MaxFaults

\* Byte i of what the order reads.
Wanted(o, i) ==
  IF o.id \in Loaded THEN t[o.id].image[o.lba + (i \div SectorBytes)][(i % SectorBytes) + 1] ELSE Zero

\* An order that ended with a status has moved all of its data: a read filled
\* the guest's buffer with the sectors of the drive it asked for, each byte once
\* and in its place, by program or by DMA in whatever pieces; a write put the
\* buffer on the drive (fmscsi_data_r and fmscsi_data_w count bytes and fetch
\* or flush the buffer while dma_transfer_timer counts its own).
OrderIsDone ==
  pc = "idle" /\ n > 0 /\ status \notin {Pending, Cut} =>
    /\ order.op = "read" => \A i \in 0..(Total(order) - 1) : mem[At(order, i)] = Wanted(order, i)
    /\ order.op = "write" /\ order.id \in Loaded =>
         \A i \in 0..(Total(order) - 1) : Wanted(order, i) = Payload(i)
    /\ status[2] = (IF order.id \in Loaded THEN 0 ELSE 2)

\* A read that is not cut off leaves in memory nothing but bytes it wanted, and
\* no order at all touches memory outside its buffer (a transfer that is
\* pending when the request is withdrawn, or the bus reset, still moves a byte).
\* The registers are of their types, and no transfer runs past the length the
\* drive gave.
MemoryIsSafe ==
  /\ TypeOK
  /\ n > 0 =>
       /\ \A a \in Total(order)..(MemSize - 1) : mem[a] = Unused
       /\ order.op = "read" /\ status # Cut =>
            \A i \in 0..(Total(order) - 1) : mem[At(order, i)] \in {Unused, Wanted(order, i)}

\* Only the order's own sectors are ever written, on the drive whose ID the
\* guest selected, and only with the bytes it sent for that sector, also when the
\* bus is reset within it.
OnlyOrderedWrites ==
  [][\A id \in Ids, l \in Lbas : t'[id].image[l] # t[id].image[l] =>
       /\ order.op = "write" /\ id = order.id
       /\ l \in order.lba..(order.lba + order.blocks - 1)
       /\ \A k \in 1..SectorBytes :
            t'[id].image[l][k] = Payload((l - order.lba) * SectorBytes + k - 1)]_vars

\* Every order comes to its end: no request is lost between adapter and DMA
\* controller, whatever was masked, disabled or reset at any moment, or given up by
\* ATN while its command was asked for.
OrderEnds == (pc # "idle") ~> (pc = "idle")
=============================================================================
