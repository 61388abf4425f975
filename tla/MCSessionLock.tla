---------------------------- MODULE MCSessionLock ----------------------------
(* Three sessions on one host, the third with the pid of the first, and a  *)
(* fourth session on a second host that shares the directory.              *)
EXTENDS SessionLock, TLC

CONSTANTS s1, s2, s3, s4, here, there, pid1, pid2

MCSession == {s1, s2, s3, s4}
MCHost    == {here, there}
MCPid     == {pid1, pid2}
MCHostOf  == (s1 :> here) @@ (s2 :> here) @@ (s3 :> here) @@ (s4 :> there)
MCPidOf   == (s1 :> pid1) @@ (s2 :> pid2) @@ (s3 :> pid1) @@ (s4 :> pid1)
=============================================================================
