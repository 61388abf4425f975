------------------------ MODULE MCWorkspaceSessions ------------------------
(* Two applications and two project directories, every kind of call.       *)
EXTENDS WorkspaceSessions, TLC

MCSymmetry == Permutations(Session) \cup Permutations(Root)
=============================================================================
