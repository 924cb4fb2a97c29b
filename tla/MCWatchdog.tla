----------------------------- MODULE MCWatchdog -----------------------------
(* The instance of Watchdog that TLC checks.                               *)
EXTENDS Watchdog
=============================================================================
