---------------------------- MODULE MCTownsInput ----------------------------
(* A townspad and a mouse; motions that wrap a position and that, two of   *)
(* them between two packets, do not fit into eight bits.                   *)
EXTENDS TownsInput

XY(x, y) == [a \in Axes |-> IF a = "x" THEN x ELSE y]

MotionSet == {XY(-17, 33), XY(128, -100)}

PressSet == {[pads |-> [p \in Players |-> b], mouse |-> b] : b \in {{}, Buttons}}

OptionSet == {[mode |-> "hybrid", mouse |-> TRUE], [mode |-> "keyboard", mouse |-> TRUE],
              [mode |-> "retropad", mouse |-> FALSE]}

Ports == [p \in Players |-> IF p = 0 THEN "townspad" ELSE "mouse"]
=============================================================================
