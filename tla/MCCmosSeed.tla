----------------------------- MODULE MCCmosSeed -----------------------------
(* Two games, two models, and a start without content. *)
EXTENDS CmosSeed

MCStemOf == [c \in {"a/game", "b/other", "none"} |->
                CASE c = "a/game" -> "game" [] c = "b/other" -> "other" [] OTHER -> ""]
=============================================================================
