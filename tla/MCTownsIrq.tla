---------------------------- MODULE MCTownsIrq -----------------------------
EXTENDS TownsIrq

\* The scan codes of two keys.
TwoKeys == {2, 9}
=============================================================================
