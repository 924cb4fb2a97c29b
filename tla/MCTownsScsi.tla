----------------------------- MODULE MCTownsScsi ----------------------------
(* Two drives, one of them without an image, an ID without a drive, and    *)
(* sectors of two bytes, read and written one and two at a time.           *)
EXTENDS TownsScsi

Order(op, id, lba, blocks, dma, irq) ==
  [op |-> op, id |-> id, lba |-> lba, blocks |-> blocks, dma |-> dma, irq |-> irq,
   down |-> FALSE, auto |-> FALSE, transfer |-> "single"]

OrderList ==
  <<Order("read", 1, 0, 2, FALSE, TRUE),
    Order("read", 1, 1, 2, TRUE, TRUE),
    [Order("read", 1, 1, 1, TRUE, FALSE) EXCEPT !.auto = TRUE, !.transfer = "demand"],
    Order("write", 1, 0, 2, TRUE, FALSE),
    [Order("write", 1, 1, 2, TRUE, TRUE) EXCEPT !.down = TRUE],
    Order("write", 1, 2, 1, FALSE, TRUE),
    Order("read", 0, 0, 1, FALSE, TRUE),
    Order("inquiry", 1, 0, 0, FALSE, TRUE),
    Order("parameter", 0, 0, 0, FALSE, FALSE),
    Order("ready", 1, 0, 0, FALSE, TRUE),
    Order("other", 1, 0, 0, FALSE, TRUE),
    Order("ready", 3, 0, 0, FALSE, FALSE)>>
=============================================================================
