------------------------------ MODULE Pic8259 ------------------------------
(***************************************************************************)
(* The 8259 interrupt controller of devices/machine/pic8259.cpp, after its *)
(* initialisation, in x86 mode, with fixed priorities and explicit end of  *)
(* interrupt.  A handler is a function from the controller's record to the *)
(* record it leaves behind.  The registers are sets of request numbers;    *)
(* 'timer' says that irq_timer is armed (always with no delay), 'level' is *)
(* m_current_level, and the INT output is high exactly when there is one.  *)
(***************************************************************************)
EXTENDS Integers, FiniteSetsExt

Irqs == 0..7
NoLevel == -1

Pics == [irr : SUBSET Irqs, isr : SUBSET Irqs, imr : SUBSET Irqs, lines : SUBSET Irqs,
         level : {NoLevel} \cup Irqs, timer : BOOLEAN,
         slaves : SUBSET Irqs, level_trig : BOOLEAN, nested : BOOLEAN]

\* As the guest's initialisation leaves it: which requests have a slave (ICW3),
\* level or edge triggered (ICW1), special fully nested (ICW4).
Initialised(slaves, level_trig, nested) ==
    [irr |-> {}, isr |-> {}, imr |-> {}, lines |-> {}, level |-> NoLevel, timer |-> FALSE,
     slaves |-> slaves, level_trig |-> level_trig, nested |-> nested]

INT(p) == p.level # NoLevel

\* Mutant: a falling line leaves its request latched.
mutant_no_withdrawal(p, irq, state) ==
    [p EXCEPT !.irr = IF state /\ irq \notin p.lines THEN @ \cup {irq} ELSE @,
              !.lines = IF state THEN @ \cup {irq} ELSE @ \ {irq},
              !.timer = TRUE]

\* A rising line latches its request, a falling one withdraws it.
set_irq_line(p, irq, state) ==
    [p EXCEPT !.irr = IF state /\ irq \notin p.lines THEN @ \cup {irq}
                      ELSE IF ~state /\ irq \in p.lines THEN @ \ {irq} ELSE @,
              !.lines = IF state THEN @ \cup {irq} ELSE @ \ {irq},
              !.timer = TRUE]

\* Requests that may interrupt now.  One in service blocks itself and all behind
\* it; in special fully nested mode that of a slave does not block itself.
Deliverable(p) ==
    {i \in p.irr \ p.imr :
        /\ \A j \in p.isr : i <= j
        /\ i \in p.isr => p.nested /\ i \in p.slaves}

\* irq_timer_tick.
irq_timer_tick(p) ==
    [p EXCEPT !.level = IF Deliverable(p) = {} THEN NoLevel ELSE Min(Deliverable(p)),
              !.timer = FALSE]

\* acknowledge, with a current level: in edge mode the request is taken back, but
\* for one of a slave, which follows the slave's output.
acknowledge(p) ==
    [p EXCEPT !.irr = IF p.level_trig \/ p.level \in p.slaves THEN @ ELSE @ \ {p.level},
              !.isr = @ \cup {p.level},
              !.timer = TRUE]

\* Mutant: the end of interrupt is lost.
mutant_no_eoi(p) == [p EXCEPT !.timer = TRUE]

\* OCW2 20h: the end of the first interrupt in service.
end_of_interrupt(p) ==
    [p EXCEPT !.isr = IF @ = {} THEN @ ELSE @ \ {Min(@)}, !.timer = TRUE]

\* OCW1.
write_mask(p, data) == [p EXCEPT !.imr = data, !.timer = TRUE]
=============================================================================
