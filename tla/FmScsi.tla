------------------------------- MODULE FmScsi -------------------------------
(***************************************************************************)
(* The SCSI host adapter of the FM Towns (devices/machine/fm_scsi.cpp), the*)
(* hard disks behind it (t10sbc.cpp, reached through legscsi.cpp) and the  *)
(* DMA channel it asks for service, channel 1 of the first uPD71071.       *)
(*                                                                         *)
(* A handler is a function from a record x to the record it leaves behind: *)
(* x.s is the adapter, x.d the DMA controller and x.t the drives by SCSI   *)
(* ID, so that a call of m_drq_handler or of a drive is an application.    *)
(*                                                                         *)
(* Data: a byte is a triple.  Byte k of a sector that was never written is *)
(* <<id, lba, k>>.  A command is the record of what its bytes say, sent as *)
(* CommandBytes bytes <<-4, number, k>>.                                   *)
(***************************************************************************)
EXTENDS Upd71071, Sequences

CONSTANTS
  SectorBytes,    \* bytes of a sector and of m_buffer, 512 in the code
  CommandBytes,   \* bytes of a command: 6, 10 or 12 in the code
  Ids,            \* the SCSI IDs that have a drive
  Loaded,         \* those whose drive has an image
  Lbas,           \* the sectors of an image
  Orders          \* the commands the guest may send, a sequence

ASSUME ScsiAssumption ==
  /\ SectorBytes \in Nat \ {0, 1} /\ CommandBytes \in Nat \ {0}
  /\ Loaded \subseteq Ids /\ Ids \subseteq 0..6 /\ Lbas \subseteq Nat

ScsiChannel == 1
Phases == {"dataout", "datain", "command", "status", "message_out", "message_in", "bus_free"}
Zero   == <<-1, 0, 0>>
IdByte(id) == <<-3, id, 0>>
CommandByte(n, k) == <<-4, n, k>>

-----------------------------------------------------------------------------
(* A drive *)

Blank(id) == [l \in Lbas |-> [k \in 1..SectorBytes |-> <<id, l, k>>]]

\* t10_reset, with an image as it came.
NewDrive(id) == [op |-> "none", lba |-> 0, blocks |-> 0, length |-> 0,
                 phase |-> "bus_free", image |-> Blank(id)]

\* SetCommand and ExecCommand.  A command that is not known stays in COMMAND:
\* the adapter then waits for a byte that nobody sends.
ExecCommand(drive, o) ==
  LET taken == [drive EXCEPT !.op = o.op, !.phase = "command"]
      moves == [taken EXCEPT !.lba = o.lba, !.blocks = o.blocks, !.length = o.blocks * SectorBytes]
  IN CASE o.op = "read"      -> [moves EXCEPT !.phase = "datain"]
       [] o.op = "write"     -> [moves EXCEPT !.phase = "dataout"]
       [] o.op = "inquiry"   -> [taken EXCEPT !.phase = "datain", !.length = 1]
       [] o.op = "parameter" -> [taken EXCEPT !.phase = "dataout", !.length = 1]
       [] o.op = "ready"     -> [taken EXCEPT !.phase = "status", !.length = 0]
       [] OTHER              -> [taken EXCEPT !.length = 0]

\* ReadData: the sector, or nothing when the blocks asked for are used up.
ReadData(x) ==
  LET id == x.s.selected
      drive == x.t[id]
      zeros == [k \in 1..SectorBytes |-> Zero]
  IN CASE id \notin Loaded -> [x EXCEPT !.s.buffer = zeros]
       [] id \in Loaded /\ drive.op = "inquiry" -> [x EXCEPT !.s.buffer = [zeros EXCEPT ![1] = <<-5, id, 0>>]]
       [] id \in Loaded /\ drive.op = "read" /\ drive.blocks > 0 ->
            [x EXCEPT !.s.buffer = drive.image[drive.lba],
                      !.t[id].lba = @ + 1, !.t[id].blocks = @ - 1]
       [] OTHER -> x

WriteData(x) ==
  LET id == x.s.selected
      drive == x.t[id]
  IN IF id \in Loaded /\ drive.op = "write" /\ drive.blocks > 0
     THEN [x EXCEPT !.t[id].image[drive.lba] = x.s.buffer,
                    !.t[id].lba = @ + 1, !.t[id].blocks = @ - 1]
     ELSE x

-----------------------------------------------------------------------------
(* Lines, phases and transfers of the adapter *)

InDataPhase(s) == s.phase \in {"datain", "dataout"}

\* set_input_line(REQ): an edge outside the data phases is an interrupt edge.
set_req(x, state) ==
  [x EXCEPT !.s.req = state,
            !.s.int = IF state # x.s.req /\ x.s.out.imsk /\ ~InDataPhase(x.s) THEN state ELSE @]

\* m_drq_handler, towns_scsi_drq.
drq(x, state) == IF x.s.out.dmae THEN [x EXCEPT !.d = dmarq(@, state, ScsiChannel)] ELSE x

stop_transfer(x) == drq([x EXCEPT !.s.transfer = FALSE, !.s.next = "status"], FALSE)

\* Mutant: a data phase asks once.
mutant_asks_once(x) == [drq(set_req(x, TRUE), TRUE) EXCEPT !.s.transfer = FALSE]

\* The transfer timer.
update_transfer(x) == drq(set_req(x, TRUE), TRUE)

\* C/D, MSG and I/O as a phase shows them.
Shown(phase) ==
  [cd  |-> phase \in {"command", "status", "message_in", "message_out"},
   msg |-> phase \in {"message_in", "message_out"},
   io  |-> phase \in {"status", "datain", "message_in"}]

\* The phase timer.  A data phase starts the transfer timer, and DATA IN reads
\* the first sector.  The end of the bus phase leaves REQ alone.
set_phase(x) ==
  LET phase == x.s.next
      shown == [x EXCEPT !.s.phase = phase, !.s.next = "none", !.s.lines = Shown(phase),
                         !.s.bsy = CASE phase = "bus_free" -> FALSE
                                     [] phase = "command"  -> TRUE
                                     [] OTHER -> @]
      asked == IF phase = "bus_free" THEN shown ELSE set_req(shown, TRUE)
      begun == [asked EXCEPT !.s.transfer = TRUE, !.s.index = 0]
  IN CASE phase = "datain"  -> ReadData(begun)
       [] phase = "dataout" -> begun
       [] OTHER -> asked

-----------------------------------------------------------------------------
(* The data register *)

\* One byte in phase DATA IN: the next sector is fetched when one is used up.
data_in(x) ==
  LET taken == [x EXCEPT !.s.data = x.s.buffer[(x.s.index % SectorBytes) + 1], !.s.index = @ + 1]
      next  == IF taken.s.index % SectorBytes = 0 THEN ReadData(taken) ELSE taken
  IN IF next.s.index >= next.s.length THEN stop_transfer(next) ELSE next

\* A read: ACK is automatic.  The byte is x.s.data of the result.
fmscsi_data_r(x) ==
  LET acked == set_req(x, FALSE)
      status == <<-2, IF x.s.selected \in Ids \ Loaded THEN 2 ELSE 0, 0>>
  IN CASE x.s.phase = "datain"     -> data_in(acked)
       [] x.s.phase = "message_in" -> [acked EXCEPT !.s.data = Zero, !.s.next = "bus_free", !.s.command = <<>>]
       [] x.s.phase = "status"     -> [acked EXCEPT !.s.data = status, !.s.next = "message_in", !.s.command = <<>>]
       [] OTHER -> acked

\* Mutant: a sector goes to the drive before its last byte is in the buffer.
mutant_write_early(x, byte) ==
  LET put == [x EXCEPT !.s.buffer[(x.s.index % SectorBytes) + 1] = byte, !.s.index = @ + 1]
      out == IF put.s.index % SectorBytes = 1 THEN WriteData(put) ELSE put
  IN IF out.s.index >= out.s.length THEN stop_transfer(out) ELSE out

\* Mutant: the transfer stops before the last sector goes to the drive.
mutant_drops_last(x, byte) ==
  LET put == [x EXCEPT !.s.buffer[(x.s.index % SectorBytes) + 1] = byte, !.s.index = @ + 1]
  IN CASE put.s.index >= put.s.length -> stop_transfer(put)
       [] put.s.index < put.s.length /\ put.s.index % SectorBytes = 0 -> WriteData(put)
       [] OTHER -> put

\* One byte in phase DATA OUT: a full buffer goes to the drive.
data_out(x, byte) ==
  LET put == [x EXCEPT !.s.buffer[(x.s.index % SectorBytes) + 1] = byte, !.s.index = @ + 1]
      out == IF put.s.index % SectorBytes = 0 THEN WriteData(put) ELSE put
  IN IF out.s.index >= out.s.length THEN stop_transfer(out) ELSE out

\* The command that a sequence of bytes spells.  Its first byte is of the groups
\* 0, 1, 2 or 5: for 3, 4, 6 and 7 get_scsi_cmd_len ends in a fatalerror, which is
\* not modelled.
Decode(bytes) ==
  LET n == bytes[1][2]
  IN IF bytes = [k \in 1..CommandBytes |-> CommandByte(n, k)] THEN Orders[n]
     ELSE [op |-> "other", lba |-> 0, blocks |-> 0]

\* One byte in phase COMMAND: the last one executes the command.
command_byte(x, byte) ==
  LET got == [x EXCEPT !.s.command = Append(@, byte)]
      drive == ExecCommand(x.t[x.s.selected], Decode(got.s.command))
  IN IF Len(got.s.command) < CommandBytes THEN [got EXCEPT !.s.next = "command"]
     ELSE [got EXCEPT !.t[x.s.selected] = drive,
                      !.s.length = drive.length, !.s.next = drive.phase]

fmscsi_data_w(x, byte) ==
  LET acked == set_req([x EXCEPT !.s.data = byte], FALSE)
  IN CASE x.s.phase = "bus_free" -> [acked EXCEPT !.s.target = IF byte[1] = -3 /\ byte[2] <= 4 THEN byte[2] ELSE @]
       [] x.s.phase = "dataout"     -> data_out(acked, byte)
       [] x.s.phase = "command"     -> command_byte(acked, byte)
       [] x.s.phase = "message_out" -> [acked EXCEPT !.s.next = "status"]
       [] OTHER -> acked

-----------------------------------------------------------------------------
(* The control register *)

NoLines == [dmae |-> FALSE, imsk |-> FALSE, atn |-> FALSE, sel |-> FALSE]

\* What device_reset leaves.  The transfer that is stopped, if only for form,
\* leaves STATUS as the phase to come.
PoweredOn ==
  [phase |-> "bus_free", next |-> "status", transfer |-> FALSE,
   req |-> FALSE, int |-> FALSE, bsy |-> FALSE, lines |-> Shown("bus_free"),
   out |-> NoLines, target |-> 0, selected |-> 0, command |-> <<>>,
   length |-> 0, index |-> 0, data |-> Zero, buffer |-> [k \in 1..SectorBytes |-> Zero]]

\* Everything but the buffer and the drive selected.
device_reset(x) ==
  [x EXCEPT !.s = [PoweredOn EXCEPT !.selected = x.s.selected, !.buffer = x.s.buffer]]

\* A rising SEL asks for the drive, if there is one.
select(x) ==
  LET asked == [x EXCEPT !.s.selected = x.s.target]
  IN IF x.s.target \in Ids THEN [asked EXCEPT !.s.next = "command", !.s.data = <<-3, 3, 0>>] ELSE asked

\* RST first, then DMAE, IMSK, ATN and SEL.
fmscsi_control_w(x, rst, out) ==
  LET cleared == IF rst THEN device_reset(x) ELSE x
      atn     == IF out.atn THEN [cleared EXCEPT !.s.next = "message_out"] ELSE cleared
      sel     == IF out.sel /\ ~cleared.s.out.sel THEN select(atn) ELSE atn
  IN [sel EXCEPT !.s.out = out]
=============================================================================
