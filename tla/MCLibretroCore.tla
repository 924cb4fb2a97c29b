--------------------------- MODULE MCLibretroCore ---------------------------
(* Small instances of LibretroCore for TLC.                                *)
EXTENDS LibretroCore

CONSTANTS mA, mB, d1, d2

MCDefaultOptions == [model |-> mA, devices |-> d1]
=============================================================================
