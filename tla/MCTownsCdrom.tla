---------------------------- MODULE MCTownsCdrom ----------------------------
(* A disc of two tracks, sectors 0-2 (data) and 3-4 (audio), and sectors of *)
(* three bytes.                                                             *)
EXTENDS TownsCdromGuest

Disc == <<0, 3, 5>>
Adr  == <<\h14, \h10, \h10>>

Job(op, irq, st, first, last, soft) ==
  [cmd |-> [op |-> op, irq |-> irq, st |-> st], first |-> first, last |-> last, soft |-> soft]

\* Reads of one and two sectors, of an empty range, by DMA and by software,
\* with and without an answer to the command itself.
Reads == {Job("read", irq, st, f, l, soft) :
            irq \in {TRUE}, st \in BOOLEAN, f \in {1}, l \in 0..2, soft \in BOOLEAN}

Others == {Job(op, TRUE, TRUE, 3, 4, FALSE) : op \in Ops \ {"read"}}
Silent == {Job(op, FALSE, FALSE, 3, 4, FALSE) : op \in {"seek", "toc", "play", "stop84", "resume", "cddaset"}}

AllJobs == Reads \cup Others \cup Silent
=============================================================================
