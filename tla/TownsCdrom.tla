----------------------------- MODULE TownsCdrom -----------------------------
(***************************************************************************)
(* The CD-ROM controller of the FM Towns driver (fmtowns.cpp, I/O ports    *)
(* 4c0-4c6), channel 3 of the uPD71071 it transfers by, and the CD-DA      *)
(* player it drives.  The operators named after handlers are translated    *)
(* one by one; `cd' is struct towns_cdrom_controller together with the     *)
(* controller's timers and its line to the slave PIC.                      *)
(*                                                                         *)
(* A handler is a function from the controller's record to the record it   *)
(* leaves behind, so that a call inside a handler is an application.  The  *)
(* guest, who performs the port accesses, is module TownsCdromGuest.       *)
(*                                                                         *)
(* Data: a sector is its LBA, and byte i of sector l is <<l, i>>.          *)
(***************************************************************************)
EXTENDS Integers, Sequences, FiniteSetsExt

CONSTANTS
  SectorBytes,   \* bytes of a sector, 2048 in the code
  TrackStart,    \* start LBA of track index 0, 1, ... and of the lead-out
  AdrControl     \* the adr/control byte of each of these

\* The largest values of a byte, and of a count of the uPD71071.
MaxByte == 255
MaxCount == 65535
Bytes == 0..MaxByte

\* A sector can be transferred at once.  A disc has at most 99 tracks and less
\* than 100 minutes, the most that two digits can tell.
ASSUME SectorAssumption == SectorBytes \in Nat \ {0} /\ SectorBytes <= MaxCount + 1
ASSUME TrackAssumption ==
  /\ TrackStart \in Seq(Nat) /\ Len(TrackStart) > 1 /\ Len(TrackStart) <= 100
  /\ \A i \in 1..Len(TrackStart) : TrackStart[i] < 100 * 4500 - 151
  /\ \A i \in 2..Len(TrackStart) : TrackStart[i - 1] < TrackStart[i]
  /\ AdrControl \in [1..Len(TrackStart) -> Bytes]

VARIABLES
  cd,     \* m_towns_cd, its four timers and the state of ir1 of the slave PIC
  dma,    \* channel 3 of the uPD71071
  cdda,   \* the CD-DA player
  disc,   \* an image is in the drive
  mem     \* the bytes the guest received, in order

vars == <<cd, dma, cdda, disc, mem>>

-----------------------------------------------------------------------------
(* The disc and its addresses *)

byte_to_bcd(n) == (n \div 10) * 16 + (n % 10)
bcd_to_byte(b) == (b \div 16) * 10 + (b % 16)

\* Minute, second and frame of a frame count, each in BCD.
lba_to_msf(lba) ==
  <<byte_to_bcd(lba \div 4500), byte_to_bcd((lba % 4500) \div 75), byte_to_bcd(lba % 75)>>

\* The inverse, for the three parameter bytes m, s and f.
msf_to_lbafm(m, s, f) ==
  bcd_to_byte(m) * 4500 + bcd_to_byte(s) * 75 + bcd_to_byte(f) - 150

get_last_track == Len(TrackStart) - 1
get_track_start(track) == TrackStart[track + 1]
LeadOut == TrackStart[Len(TrackStart)]

\* The one-based number of the first track that starts after lba, less one.
towns_cd_get_track(lba) ==
  LET after == {t \in 1..get_last_track : get_track_start(t) > lba}
  IN IF after = {} THEN 99 ELSE Min(after)

-----------------------------------------------------------------------------
(* Interrupts and status bytes *)

\* Mutant: the sense of the IRQ bit is inverted, as the description of port 4c0 in
\* fmtowns.cpp (1065) has it.
mutant_irq_inverted(c, source, state) ==
  [c EXCEPT !.status[source] = state,
            !.ir1 = IF state THEN c.ir1 \/ ~c.command.irq ELSE FALSE]

\* Raising a flag raises the line when the command asked for interrupts;
\* clearing either flag lowers the line.
towns_cdrom_set_irq(c, source, state) ==
  [c EXCEPT !.status[source] = state,
            !.ir1 = IF state THEN c.ir1 \/ c.command.irq ELSE FALSE]

\* The four bytes change now; the guest is told a millisecond later.
towns_cd_set_status(c, bytes) ==
  [c EXCEPT !.cmd_status = bytes, !.status_timer = TRUE]

\* The pair of statements that every answer consists of.
Answer(c, extra, bytes) ==
  [towns_cd_set_status(c, bytes) EXCEPT !.extra_status = extra]

\* How the status port shows the kind of transfer.
Transfer(c, software) ==
  [c EXCEPT !.status.softtx = software, !.status.dmatx = ~software]

-----------------------------------------------------------------------------
(* Commands *)

\* The bits of the command byte: bits 7 and 4-0 are op, 6 is irq, 5 is st.
Ops == {"seek", "unknown01", "read", "play", "toc", "cddastate", "unknown1f",
        "setstate", "cddaset", "stop84", "stop85", "resume", "other"}
Commands == [op : Ops, irq : BOOLEAN, st : BOOLEAN]

FirstLba(c) == msf_to_lbafm(c.parameter[8], c.parameter[7], c.parameter[6])
LastLba(c)  == msf_to_lbafm(c.parameter[5], c.parameter[4], c.parameter[3])

towns_cdrom_read(c) ==
  LET first == FirstLba(c)
      asked == [c EXCEPT !.lba_current = first, !.lba_last = LastLba(c)]
      ready == Transfer([asked EXCEPT !.buffer = first], c.software_tx)
  IN IF first > LastLba(c) THEN Answer(asked, 0, <<\h01, 0, 0, 0>>)
     ELSE IF c.command.st THEN Answer(ready, 2, <<0, 0, 0, 0>>)
     ELSE Answer(ready, 0, <<IF c.software_tx THEN \h21 ELSE \h22, 0, 0, 0>>)

\* The commands that only answer, and only when the command asks for status:
\* what goes in extra_status, and the bytes.
Acknowledged(op) ==
  CASE op = "unknown01" -> <<0, <<0, \hff, \hff, \hff>>>>
    [] op = "setstate"  -> <<0, <<0, IF cdda.playing /\ ~cdda.pause THEN 3 ELSE 1, 0, 0>>>>
    [] op = "resume"    -> <<1, <<0, 3, 0, 0>>>>
    [] op \in {"stop84", "stop85"} -> <<1, <<0, 0, 0, 0>>>>
    [] op \in {"seek", "cddaset"}  -> <<0, <<0, 0, 0, 0>>>>

towns_cdrom_execute_command(c) ==
  LET quiet == [towns_cdrom_set_irq(c, "mpu", FALSE) EXCEPT !.seek_timer = FALSE]
      taken == [quiet EXCEPT !.status.req = FALSE]
      op    == c.command.op
  IN CASE ~disc /\ c.command # [op |-> "setstate", irq |-> FALSE, st |-> TRUE] ->
            (IF c.command.st THEN Answer(quiet, 0, <<\h10, 0, 0, 0>>) ELSE quiet)
       [] OTHER ->
            CASE op = "read"      -> towns_cdrom_read(taken)
              [] op = "play"      -> [taken EXCEPT !.cdda_timer = TRUE]
              [] op = "toc"       -> (IF c.command.st
                                      THEN Answer(taken, 1, <<0, 0, 0, 0>>)
                                      ELSE Answer(taken, 2, <<\h16, 0, \ha0, 0>>))
              [] op = "cddastate" -> Answer(taken, 1, <<0, 0, 0, 0>>)
              [] op = "unknown1f" -> Answer(taken, 0, <<0, 0, 0, 0>>)
              [] op = "other"     -> Answer(taken, 0, <<\h10, 0, 0, 0>>)
              [] OTHER -> IF ~c.command.st THEN taken
                          ELSE LET a == Acknowledged(op)
                               IN [Answer(taken, a[1], a[2]) EXCEPT !.seek_timer = (op = "seek")]

\* The player, when the command stops or resumes it.
CommandedAudio(command) ==
  IF command.op \in {"stop84", "stop85", "resume"} /\ disc
  THEN [cdda EXCEPT !.pause = (command.op # "resume")]
  ELSE cdda

-----------------------------------------------------------------------------
(* The command status port: the answers that follow the first *)

\* The adr/control byte with its nibbles exchanged.
SwappedAdr(track) ==
  LET adr == AdrControl[track + 1] IN (adr % 16) * 16 + (adr \div 16)

\* Mutant: the track numbers are one short.
mutant_toc_numbers(n) ==
  CASE n > 6 /\ n % 2 = 1 -> <<\h16, SwappedAdr((n \div 2) - 3), byte_to_bcd((n \div 2) - 3), 0>>
    [] n > 6 /\ n % 2 = 0 -> <<\h17>> \o lba_to_msf(get_track_start((n \div 2) - 4) + 150)
    [] OTHER -> <<IF n % 2 = 1 THEN \h16 ELSE \h17, 0, 0, 0>>

\* Answers n = 1, 2, ... of the table of contents: two for the first track,
\* two for the last, two for the lead-out and then two for each track.
TocBytes(n) ==
  CASE n = 1 -> <<\h16, 0, \ha0, 0>>
    [] n = 2 -> <<\h17, 1, 0, 0>>
    [] n = 3 -> <<\h16, 0, \ha1, 0>>
    [] n = 4 -> <<\h17, byte_to_bcd(get_last_track), 0, 0>>
    [] n = 5 -> <<\h16, 0, \ha2, 0>>
    [] n = 6 -> <<\h17>> \o lba_to_msf(LeadOut + 150)
    [] n > 6 /\ n % 2 = 1 -> <<\h16, SwappedAdr((n \div 2) - 3), byte_to_bcd((n \div 2) - 2), 0>>
    [] OTHER -> <<\h17>> \o lba_to_msf(get_track_start((n \div 2) - 4) + 150)

TocNext(n) == IF n > 6 /\ n % 2 = 0 /\ (n \div 2) - 4 >= get_last_track THEN 0 ELSE n + 1

\* Answers 1 to 4 of the CD-DA state: the track, the time since the start of
\* what is played, and the position on the disc in two halves.
CddaStateBytes(n) ==
  LET at == lba_to_msf(cdda.lba)
  IN CASE n = 1 -> <<\h18, 0, towns_cd_get_track(cdda.lba), 0>>
       [] n = 2 -> <<\h19>> \o lba_to_msf(cdda.lba - cd.cdda_current)
       [] n = 3 -> <<\h19, 0, at[1], at[2]>>
       [] n = 4 -> <<\h20, at[3], 0, 0>>

\* What reading the fourth byte sets off while extra_status is not zero.
FollowUp(c) ==
  LET n == c.extra_status
  IN CASE c.command.op = "read" -> (IF n = 2 THEN Answer(c, 0, <<\h22, 0, 0, 0>>)
                                    ELSE [c EXCEPT !.extra_status = 0])
       [] c.command.op = "play" ->
            Answer(c, 0, IF cdda.ended THEN <<7, 0, 0, 0>> ELSE <<0, 0, 3, 0>>)
       [] c.command.op = "toc" -> Answer(c, TocNext(n), TocBytes(n))
       [] c.command.op = "cddastate" -> (IF n \in 1..4
                                         THEN Answer(c, IF n = 4 THEN 0 ELSE n + 1, CddaStateBytes(n))
                                         ELSE c)
       [] c.command.op = "stop84" -> Answer(c, 0, <<\h11, 0, 0, 0>>)
       [] c.command.op = "stop85" -> Answer(c, 0, <<\h12, 0, 0, 0>>)
       [] OTHER -> c

\* Mutant: the next answer is set up one byte early.
mutant_follows_early(c) ==
  LET last == c.cmd_status_ptr >= 2
      told == IF last THEN [c EXCEPT !.status.req = FALSE] ELSE c
      more == IF last /\ c.extra_status # 0 THEN FollowUp(told) ELSE told
  IN [more EXCEPT !.cmd_status_ptr = IF c.cmd_status_ptr >= 3 THEN 0 ELSE @ + 1]

\* towns_cdrom_r, offset 1: the controller after the read.
command_status_read(c) ==
  LET fourth == c.cmd_status_ptr >= 3
      told   == IF fourth THEN [c EXCEPT !.status.req = FALSE] ELSE c
      more   == IF fourth /\ c.extra_status # 0 THEN FollowUp(told) ELSE told
  IN [more EXCEPT !.cmd_status_ptr = IF fourth THEN 0 ELSE @ + 1]

-----------------------------------------------------------------------------
(* Data transfer *)

Zero == <<-1, 0>>   \* the byte read when there is none

\* Mutants: the sector number is advanced after the read; one sector too many
\* is read.
mutant_advances_late(c, more) ==
  LET idle == [c EXCEPT !.status.dmatx = FALSE, !.status.softtx = FALSE, !.buffer_ptr = -1]
      next == [idle EXCEPT !.lba_current = @ + 1, !.buffer = c.lba_current]
  IN towns_cdrom_set_irq(IF c.lba_current >= c.lba_last THEN Answer(idle, 0, <<6, 0, 0, 0>>)
                         ELSE Answer(next, 0, <<more, 0, 0, 0>>), "dma", TRUE)
mutant_one_more_sector(c, more) ==
  LET idle == [c EXCEPT !.status.dmatx = FALSE, !.status.softtx = FALSE, !.buffer_ptr = -1]
      next == [idle EXCEPT !.lba_current = @ + 1, !.buffer = c.lba_current + 1]
  IN towns_cdrom_set_irq(IF c.lba_current > c.lba_last THEN Answer(idle, 0, <<6, 0, 0, 0>>)
                         ELSE Answer(next, 0, <<more, 0, 0, 0>>), "dma", TRUE)

\* The last byte of a sector left the buffer: more is the code that announces
\* a further sector.
EndOfSector(c, more) ==
  LET idle == [c EXCEPT !.status.dmatx = FALSE, !.status.softtx = FALSE, !.buffer_ptr = -1]
      next == [idle EXCEPT !.lba_current = @ + 1, !.buffer = c.lba_current + 1]
  IN IF c.lba_current >= c.lba_last
     THEN [towns_cdrom_set_irq(Answer(idle, 0, <<6, 0, 0, 0>>), "dma", TRUE) EXCEPT !.status.ready = TRUE]
     ELSE towns_cdrom_set_irq(Answer(next, 0, <<more, 0, 0, 0>>), "dma", TRUE)

\* The controller after one byte is taken through the data port.
read_byte_software(c) ==
  LET taken == [c EXCEPT !.buffer_ptr = @ + 1]
      ended == EndOfSector(taken, \h21)
  IN CASE c.buffer_ptr < 0 -> c
       [] c.buffer_ptr + 1 < SectorBytes -> taken
       [] OTHER -> IF c.lba_current >= c.lba_last THEN ended ELSE Transfer(ended, TRUE)

SoftwareByte(c) == IF c.buffer_ptr < 0 THEN Zero ELSE <<c.buffer, c.buffer_ptr>>

\* upd71071 dmarq: a request on a masked channel starts nothing, and a
\* withdrawn request cancels the transfer.
dmarq(d, state) ==
  [d EXCEPT !.timer = IF state = 1 THEN d.timer \/ ~d.mask ELSE FALSE]

\* Mutant: a full sector is not taken for one.
mutant_never_full(c, param) ==
  CASE c.buffer_ptr < 0 -> [c EXCEPT !.read_timer = -1]
    [] c.buffer_ptr >= 0 /\ param = 1 -> [c EXCEPT !.read_timer = 0]
    [] OTHER -> [c EXCEPT !.read_timer = 1]

\* The read timer with parameter param: request a byte, or look what became
\* of the request.
towns_cdrom_read_byte(c, param) ==
  CASE c.buffer_ptr < 0 -> [c EXCEPT !.read_timer = -1]
    [] c.buffer_ptr >= 0 /\ param = 1 -> [c EXCEPT !.read_timer = 0]
    [] c.buffer_ptr \in 0..(SectorBytes - 1) /\ param = 0 -> [c EXCEPT !.read_timer = 1]
    [] OTHER -> [EndOfSector(c, \h22) EXCEPT
                   !.read_timer = IF c.lba_current >= c.lba_last THEN -1 ELSE 1]

-----------------------------------------------------------------------------
(* The state after device_start *)

NoCommand == [op |-> "seek", irq |-> FALSE, st |-> FALSE]

Init ==
  /\ cd = [command |-> NoCommand,
           status |-> [mpu |-> FALSE, dma |-> FALSE, softtx |-> FALSE, dmatx |-> FALSE,
                       req |-> FALSE, ready |-> TRUE],
           cmd_status |-> <<0, 0, 0, 0>>, cmd_status_ptr |-> 0, extra_status |-> 0,
           parameter |-> [i \in 1..8 |-> 0], software_tx |-> FALSE,
           buffer |-> -1, buffer_ptr |-> -1, lba_current |-> 0, lba_last |-> 0,
           cdda_current |-> 0, cdda_length |-> 0, ir1 |-> FALSE,
           status_timer |-> FALSE, seek_timer |-> FALSE, cdda_timer |-> FALSE,
           read_timer |-> -1]
  /\ dma = [mask |-> TRUE, count |-> 0, timer |-> FALSE]
  /\ cdda = [playing |-> FALSE, pause |-> FALSE, ended |-> FALSE, lba |-> 0, length |-> 0]
  /\ disc \in BOOLEAN
  /\ mem = <<>>

-----------------------------------------------------------------------------
(* Port accesses, performed by the guest *)

command_w(command) ==
  /\ cd' = towns_cdrom_execute_command([cd EXCEPT !.command = command])
  /\ cdda' = CommandedAudio(command)
  /\ UNCHANGED <<dma, disc, mem>>

parameter_w(byte) ==
  /\ cd' = [cd EXCEPT !.parameter = <<byte>> \o SubSeq(@, 1, 7)]
  /\ UNCHANGED <<dma, cdda, disc, mem>>

\* Bits 7 and 6 of a write to the status port clear the two flags.
status_w(mpu, end) ==
  LET c == IF mpu THEN towns_cdrom_set_irq(cd, "mpu", FALSE) ELSE cd
  IN /\ cd' = IF end THEN towns_cdrom_set_irq(c, "dma", FALSE) ELSE c
     /\ UNCHANGED <<dma, cdda, disc, mem>>

\* The transfer mode port.  The start of a DMA transfer leaves a transfer
\* that is already under way alone; that of a software transfer does not.
transfer_w(software) ==
  LET c == [Transfer(cd, software) EXCEPT !.software_tx = software]
      start == software \/ cd.buffer_ptr < 0
  IN /\ cd' = [c EXCEPT !.buffer_ptr = IF start THEN 0 ELSE @,
                        !.read_timer = IF start /\ ~software THEN 1 ELSE @]
     /\ UNCHANGED <<dma, cdda, disc, mem>>

command_status_r ==
  /\ cd' = command_status_read(cd)
  /\ UNCHANGED <<dma, cdda, disc, mem>>

data_r ==
  /\ cd' = IF cd.software_tx THEN read_byte_software(cd) ELSE cd
  /\ mem' = Append(mem, IF cd.software_tx THEN SoftwareByte(cd) ELSE Zero)
  /\ UNCHANGED <<dma, cdda, disc>>

\* The writes that program channel 3 for count + 1 bytes from the I/O device
\* to memory in single mode and unmask it.
dma_w(count) ==
  /\ dma' = [dma EXCEPT !.mask = FALSE, !.count = count]
  /\ UNCHANGED <<cd, cdda, disc, mem>>

-----------------------------------------------------------------------------
(* Timers *)

\* 1 ms after the last set_status.  A read timer that was left running at the
\* end of a sector was set together with it and runs out within 4 us.
towns_cd_status_ready ==
  /\ cd.status_timer
  /\ ~(cd.read_timer = 1 /\ cd.buffer_ptr < 0)
  /\ cd' = [towns_cdrom_set_irq(cd, "mpu", TRUE) EXCEPT
              !.status.req = TRUE, !.status.ready = TRUE,
              !.cmd_status_ptr = 0, !.status_timer = FALSE]
  /\ UNCHANGED <<dma, cdda, disc, mem>>

\* 1 ms after the play command: the parameters and the command of now.
towns_delay_cdda ==
  /\ cd.cdda_timer
  /\ LET length == LastLba(cd) - FirstLba(cd) + 1
         c == [cd EXCEPT !.cdda_timer = FALSE,
                         !.cdda_current = FirstLba(cd), !.cdda_length = length]
     IN /\ cd' = IF cd.command.st THEN Answer(c, 1, <<0, 3, 0, 0>>) ELSE c
        /\ cdda' = [playing |-> TRUE, pause |-> FALSE, ended |-> FALSE,
                    lba |-> FirstLba(cd), length |-> length]
  /\ UNCHANGED <<dma, disc, mem>>

towns_delay_seek ==
  /\ cd.seek_timer
  /\ cd' = [Answer(cd, 0, <<4, 0, 0, 0>>) EXCEPT !.seek_timer = FALSE]
  /\ UNCHANGED <<dma, cdda, disc, mem>>

\* The read timer.  The DMA controller, at 4 MHz, has moved the byte before
\* the read timer, at 300 kHz, looks again.
read_timer_expires ==
  /\ cd.read_timer # -1 /\ ~dma.timer
  /\ cd' = towns_cdrom_read_byte(cd, cd.read_timer)
  /\ dma' = IF cd.buffer_ptr < 0 THEN dma ELSE dmarq(dma, cd.read_timer)
  /\ UNCHANGED <<cdda, disc, mem>>

\* One byte by DMA: towns_cdrom_dma_r, then the count; at terminal count the
\* channel masks itself.
dma_transfer_timer ==
  /\ dma.timer
  /\ LET have == cd.buffer_ptr < SectorBytes
     IN /\ mem' = Append(mem, IF have THEN <<cd.buffer, cd.buffer_ptr>> ELSE Zero)
        /\ cd' = IF have THEN [cd EXCEPT !.buffer_ptr = @ + 1] ELSE cd
  /\ dma' = [mask |-> dma.count = 0, count |-> (dma.count - 1) % 65536, timer |-> FALSE]
  /\ UNCHANGED <<cdda, disc>>

\* One sector of audio is played, or the player finds that none is left.
get_audio_data ==
  /\ disc /\ cdda.playing /\ ~cdda.pause
  /\ cdda' = IF cdda.length = 0 THEN [cdda EXCEPT !.playing = FALSE, !.ended = TRUE]
             ELSE [cdda EXCEPT !.lba = @ + 1, !.length = @ - 1]
  /\ UNCHANGED <<cd, dma, disc, mem>>

Timers ==
  \/ towns_cd_status_ready
  \/ towns_delay_cdda
  \/ towns_delay_seek
  \/ read_timer_expires
  \/ dma_transfer_timer
  \/ get_audio_data
=============================================================================
