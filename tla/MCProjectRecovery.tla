------------------------- MODULE MCProjectRecovery -------------------------
(* One project directory, a few edits and as many sessions as the          *)
(* counterexamples need: one that works, one that recovers, one that looks.*)
EXTENDS ProjectRecovery
=============================================================================
