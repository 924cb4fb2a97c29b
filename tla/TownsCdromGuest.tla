-------------------------- MODULE TownsCdromGuest --------------------------
(***************************************************************************)
(* The CD-ROM controller together with a guest that drives it the way the  *)
(* port description at the head of its handlers asks for: parameters, the  *)
(* command, then for each answer wait for the status read request, clear   *)
(* the interrupt flags seen and read four bytes; before each sector start  *)
(* the transfer.  The guest is external to the emulator.  It polls, may    *)
(* take any time between two port accesses, and sends the next command     *)
(* only when the last one has given all its answers; a command that asks   *)
(* for no answer it does not wait for.  It may leave a software transfer   *)
(* in the middle of a sector and turn to another command.                  *)
(*                                                                         *)
(* Assumed of it, because the controller relies on it: after a play with   *)
(* no answer it keeps off the ports for the millisecond after which the    *)
(* play begins with the command and the parameters of then; and after a    *)
(* transfer it left it reads by software, as the start of a DMA transfer   *)
(* is ignored while the old one is under way.                              *)
(***************************************************************************)
EXTENDS TownsCdrom

CONSTANTS
  Jobs,      \* the commands the guest may send, with their parameters
  MaxJobs    \* bound: how many of them it sends

\* The guest asks for sectors of the disc, and plays no empty range.
ASSUME JobsAssumption ==
  /\ MaxJobs \in Nat
  /\ Jobs \subseteq [cmd : Commands, first : 0..LeadOut, last : 0..LeadOut, soft : BOOLEAN]
  /\ \A j \in Jobs : j.cmd.op = "play" => j.first <= j.last

VARIABLES
  pc,       \* what the guest does next
  job,      \* the job it works on, or worked on last
  count,    \* bytes written or read so far of what pc handles
  seen,     \* the interrupt flags it saw last
  answers,  \* the answers of this job, as read
  sent      \* commands sent so far

guestVars == <<pc, job, count, seen, answers, sent>>
allVars   == <<vars, guestVars>>

-----------------------------------------------------------------------------
Parameters(j) == lba_to_msf(j.first + 150) \o lba_to_msf(j.last + 150) \o <<0, 0>>

\* The commands that answer, asked or not.
Answers(cmd) == cmd.st \/ cmd.op \in {"read", "toc", "cddastate", "unknown1f", "other"}

\* How many answers a command other than read has when a disc is in.
AnswerCount(cmd) ==
  CASE cmd.op = "toc" -> 6 + 2 * (get_last_track + 1) + (IF cmd.st THEN 1 ELSE 0)
    [] cmd.op = "cddastate" -> 5
    [] cmd.op \in {"seek", "play", "stop84", "stop85"} -> 2
    [] OTHER -> 1

\* Whether the answers received, all of them, complete the job.
Complete(j, all) ==
  LET code == all[Len(all)][1]
  IN \/ code = \h10
     \/ j.cmd.op = "read" /\ code \in {1, 6}
     \/ j.cmd.op # "read" /\ Len(all) = AnswerCount(j.cmd)

GuestInit ==
  /\ Init
  /\ pc = "idle" /\ count = 0 /\ sent = 0
  /\ job = [cmd |-> NoCommand, first |-> 0, last |-> 0, soft |-> FALSE]
  /\ seen = [mpu |-> FALSE, dma |-> FALSE]
  /\ answers = <<>>

\* The guest turns to a new job and sets up memory for it.
Choose ==
  /\ pc \in {"idle", "left"} /\ sent < MaxJobs
  /\ ~cd.cdda_timer
  /\ \E j \in Jobs :
       /\ cd.buffer_ptr >= 0 => j.cmd.op # "read" \/ j.soft
       /\ job' = j
  /\ pc' = "params" /\ count' = 0 /\ answers' = <<>> /\ mem' = <<>>
  /\ UNCHANGED <<cd, dma, cdda, disc, seen, sent>>

WriteParameter ==
  /\ pc = "params"
  /\ parameter_w(Parameters(job)[count + 1])
  /\ count' = count + 1
  /\ pc' = IF count = 7 THEN "command" ELSE "params"
  /\ UNCHANGED <<job, seen, answers, sent>>

WriteCommand ==
  /\ pc = "command"
  /\ command_w(job.cmd)
  /\ pc' = IF Answers(job.cmd) THEN "await" ELSE "idle"
  /\ sent' = sent + 1
  /\ UNCHANGED <<job, count, seen, answers>>

\* A read of the status port; the guest goes on at a status read request.
Poll ==
  /\ pc = "await" /\ cd.status.req
  /\ seen' = [mpu |-> cd.status.mpu, dma |-> cd.status.dma]
  /\ pc' = "clear"
  /\ UNCHANGED <<vars, job, count, answers, sent>>

Clear ==
  /\ pc = "clear"
  /\ status_w(seen.mpu, seen.dma)
  /\ pc' = "fetch" /\ count' = 0 /\ answers' = Append(answers, <<>>)
  /\ UNCHANGED <<job, seen, sent>>

\* One byte of the answer; after the fourth the guest decides what to do.
Fetch ==
  /\ pc = "fetch"
  /\ command_status_r
  /\ answers' = [answers EXCEPT ![Len(answers)] = Append(@, cd.cmd_status[cd.cmd_status_ptr + 1])]
  /\ count' = count + 1
  /\ pc' = CASE count < 3 -> "fetch"
             [] count = 3 /\ job.cmd.op = "read" /\ answers'[Len(answers)][1] \in {\h21, \h22} -> "start"
             [] OTHER -> IF Complete(job, answers') THEN "idle" ELSE "await"
  /\ UNCHANGED <<job, seen, sent>>

\* A sector is ready: by DMA, program the channel first.
Program ==
  /\ pc = "start" /\ ~job.soft /\ dma.mask
  /\ dma_w(SectorBytes - 1)
  /\ UNCHANGED guestVars

StartTransfer ==
  /\ pc = "start" /\ (job.soft \/ ~dma.mask)
  /\ transfer_w(job.soft)
  /\ pc' = IF job.soft THEN "data" ELSE "await"
  /\ count' = 0
  /\ UNCHANGED <<job, seen, answers, sent>>

ReadData ==
  /\ pc = "data"
  /\ data_r
  /\ count' = count + 1
  /\ pc' = IF count + 1 = SectorBytes THEN "await" ELSE "data"
  /\ UNCHANGED <<job, seen, answers, sent>>

\* The guest has enough of the sector, or gives up.
Abandon ==
  /\ pc = "data" /\ count > 0
  /\ pc' = "left"
  /\ UNCHANGED <<vars, job, count, seen, answers, sent>>

Guest ==
  \/ Choose
  \/ WriteParameter
  \/ WriteCommand
  \/ Poll
  \/ Clear
  \/ Fetch
  \/ Program
  \/ StartTransfer
  \/ ReadData

\* An answer is on its way or waits to be read.
Outstanding == cd.status_timer \/ cd.status.req

StatusReady   == towns_cd_status_ready /\ UNCHANGED guestVars
DelayCdda     == towns_delay_cdda /\ UNCHANGED guestVars
ReadTimer     == read_timer_expires /\ UNCHANGED guestVars
DmaTransfer   == dma_transfer_timer /\ UNCHANGED guestVars
PlayAudio     == get_audio_data /\ UNCHANGED guestVars

\* Assumed of the guest: it reads the first answer of a seek, which comes
\* after 1 ms, before the second, which comes after 500 ms.
DelaySeek == towns_delay_seek /\ ~Outstanding /\ UNCHANGED guestVars

Next ==
  \/ Guest
  \/ Abandon
  \/ StatusReady
  \/ DelayCdda
  \/ DelaySeek
  \/ ReadTimer
  \/ DmaTransfer
  \/ PlayAudio

Spec == GuestInit /\ [][Next]_allVars

\* Timers of the emulated machine expire, and a guest that has begun a job
\* goes on with it.
FairSpec ==
  /\ Spec
  /\ WF_allVars(Guest) /\ WF_allVars(StatusReady) /\ WF_allVars(DelayCdda)
  /\ WF_allVars(DelaySeek) /\ WF_allVars(ReadTimer) /\ WF_allVars(DmaTransfer)

-----------------------------------------------------------------------------
\* The state of the controller, the channel, the player and the guest is of
\* its type; in particular buffer_ptr stays within the sector buffer.
TypeOK ==
  /\ cd.command \in Commands
  /\ cd.status \in [mpu : BOOLEAN, dma : BOOLEAN, softtx : BOOLEAN, dmatx : BOOLEAN,
                    req : BOOLEAN, ready : BOOLEAN]
  /\ cd.cmd_status \in [1..4 -> Bytes] /\ cd.cmd_status_ptr \in 0..3
  /\ cd.extra_status \in 0..(8 + 2 * get_last_track)
  /\ cd.parameter \in [1..8 -> Bytes]
  /\ cd.buffer_ptr \in -1..SectorBytes /\ cd.read_timer \in -1..1
  /\ cd.buffer \in -1..LeadOut /\ cd.lba_current \in 0..LeadOut /\ cd.lba_last \in 0..LeadOut
  /\ {cd.software_tx, cd.ir1, cd.status_timer, cd.seek_timer, cd.cdda_timer} \subseteq BOOLEAN
  /\ dma \in [mask : BOOLEAN, count : 0..MaxCount, timer : BOOLEAN]
  /\ {cdda.playing, cdda.pause, cdda.ended, disc} \subseteq BOOLEAN
  /\ pc \in {"idle", "params", "command", "await", "clear", "fetch", "start", "data", "left"}
  /\ job \in Jobs \/ sent = 0
  /\ sent \in 0..MaxJobs

\* The bytes of sectors first to last, in order.
Wanted(j) ==
  [k \in 1..((1 + j.last - j.first) * SectorBytes) |->
     <<j.first + ((k - 1) \div SectorBytes), (k - 1) % SectorBytes>>]

\* What a read delivers is at every moment the beginning of the sectors asked
\* for, each byte once and in order, by DMA and by software alike, and all of
\* them when the guest has its last answer (towns_cdrom_read,
\* towns_cdrom_read_byte and towns_cdrom_read_byte_software hand the sector
\* buffer and its pointer to each other across the guest's restarts).
DeliversInOrder ==
  job.cmd.op = "read" /\ disc =>
    /\ Len(mem) <= Len(Wanted(job))
    /\ \A k \in 1..Len(mem) : mem[k] = Wanted(job)[k]
    /\ pc = "idle" => Len(mem) = Len(Wanted(job))

\* When the DMA controller takes a byte there is one in the buffer, and it is
\* of the sector the controller says it transfers: towns_cdrom_dma_r itself
\* does not look whether a transfer is under way.  At all times the registers
\* are of their types.
TransferInBounds ==
  /\ TypeOK
  /\ dma.timer => cd.buffer_ptr \in 0..(SectorBytes - 1) /\ cd.buffer = cd.lba_current

\* An answer stays in the four status bytes until its last byte is read, so
\* that no answer is lost or torn: set_status overwrites them without looking.
AnswerIsHeld ==
  [][Outstanding /\ ~(pc = "fetch" /\ count = 3) => cd'.cmd_status = cd.cmd_status]_allVars

\* When an answer to a command with the IRQ bit is ready and the guest waits
\* for it, the interrupt line is high: the flags of sub MPU and DMA share the
\* line, and clearing one of them lowers it for both.  The bit has the sense that
\* towns_cdrom_set_irq gives it (fmtowns.cpp 1099 and 1121), and a flag goes when
\* the guest writes to the port; the port's description (1059-1065) has the
\* interrupt without the bit, and the flags reset when read.
InterruptAnnounces ==
  pc = "await" /\ cd.status.req /\ cd.command.irq => cd.ir1

\* Two answers in a row: a point of the table, and what belongs to it.
TocTells(point, answer) ==
  \E k \in 1..(Len(answers) - 1) :
    /\ answers[k][1] = \h16 /\ answers[k][3] = point
    /\ answers[k + 1] = answer

\* A table of contents read to its end tells the numbers of the first and of the
\* last track, the start of the lead-out, and for each track of the disc its
\* number and its start (extra_status counts the answers across the reads of the
\* status port).
TocIsComplete ==
  pc = "idle" /\ job.cmd.op = "toc" /\ disc /\ sent > 0 =>
    /\ TocTells(\ha0, <<\h17, 1, 0, 0>>)
    /\ TocTells(\ha1, <<\h17, byte_to_bcd(get_last_track), 0, 0>>)
    /\ TocTells(\ha2, <<\h17>> \o lba_to_msf(LeadOut + 150))
    /\ \A t \in 1..get_last_track :
         TocTells(byte_to_bcd(t), <<\h17>> \o lba_to_msf(get_track_start(t - 1) + 150))

\* Every command that must answer is answered to its end: a read gets all its
\* sectors through, whatever ran before it, a transfer left in the middle of a
\* sector included.  With no disc only commands that ask for status are answered.
JobEnds == (pc # "idle" /\ (disc \/ job.cmd.st)) ~> (pc \in {"idle", "left"})
=============================================================================
