--------------------------- MODULE MCScreenUpdate ---------------------------
(* Three sizes: few and many lines, short and long ones. *)
EXTENDS ScreenUpdate

Sizes == {[w |-> 2, h |-> 2], [w |-> 2, h |-> 3], [w |-> 3, h |-> 2]}
=============================================================================
