-------------------------- MODULE LibretroContract --------------------------
(***************************************************************************)
(* What a frontend may rely on, without the machinery: a core is down or   *)
(* up; when it is up it has no game, or a game that is settling, or one    *)
(* whose state can be saved.  A game gets ready only by running frames,    *)
(* loses that by a boot or a restore, and the saved state changes only by  *)
(* a save.  LibretroCore implements it under the mapping stated there.     *)
(***************************************************************************)
EXTENDS Naturals

CONSTANTS
    NoState,        \* nothing has been saved
    BootWindow,     \* frames between a boot and the first save
    RestoreWindow   \* frames between a restore and the next save

VARIABLES
    status,         \* "down", "empty", "settling" or "ready"
    left,           \* frames still missing while settling
    saved           \* the state the frontend holds

Init == status = "down" /\ left = 0 /\ saved = NoState

\* The frontend initialises or tears down the core.
PowerUp   == status = "down" /\ status' = "empty" /\ UNCHANGED <<left, saved>>
PowerDown == status # "down" /\ status' = "down" /\ left' = 0 /\ UNCHANGED saved

\* A game is booted (again), or goes away because that failed or on request.
Boot == /\ status # "down"
        /\ status' = "settling"
        /\ left' = BootWindow
        /\ UNCHANGED saved
Drop == /\ status \notin {"down", "empty"}
        /\ status' = "empty"
        /\ left' = 0
        /\ UNCHANGED saved

\* A frame brings a settling game one frame nearer to being ready.
Frame == /\ status = "settling"
         /\ left' = left - 1
         /\ status' = IF left' = 0 THEN "ready" ELSE "settling"
         /\ UNCHANGED saved

\* Only a ready game is saved or restored, and only what was saved is restored.
Save    == status = "ready" /\ saved' # NoState /\ UNCHANGED <<status, left>>
Restore == /\ status = "ready" /\ saved # NoState
           /\ status' = "settling"
           /\ left' = RestoreWindow
           /\ UNCHANGED saved

Next == PowerUp \/ PowerDown \/ Boot \/ Drop \/ Frame \/ Save \/ Restore

Spec == Init /\ [][Next]_<<status, left, saved>>
=============================================================================
