-------------------------- MODULE ExclusiveSession --------------------------
(***************************************************************************)
(* What session.lock promises of a project directory: at any time at most  *)
(* one session holds it; it becomes free when its holder lets go of it or  *)
(* when the holder's process is gone, and only then may another take it.   *)
(*                                                                         *)
(* The promise ends ("void") when the lock of the holder, or one about to  *)
(* be taken, is removed by a session that meant to remove another one.     *)
(***************************************************************************)
CONSTANTS Session, Nobody

VARIABLES holder, ended, void

vars == <<holder, ended, void>>

Init == holder = Nobody /\ ended = {} /\ void = FALSE

Acquire(s) ==
    /\ ~void
    /\ s \notin ended
    /\ holder = Nobody
    /\ holder' = s
    /\ UNCHANGED <<ended, void>>

Release(s) ==
    /\ ~void
    /\ holder = s
    /\ holder' = Nobody
    /\ UNCHANGED <<ended, void>>

\* A session that ends lets go of what it holds.
Expire(s) ==
    /\ s \notin ended
    /\ ended' = ended \cup {s}
    /\ holder' = IF holder = s THEN Nobody ELSE holder
    /\ UNCHANGED void

Void ==
    /\ ~void
    /\ void' = TRUE
    /\ holder' = Nobody
    /\ UNCHANGED ended

Next == Void \/ \E s \in Session : Acquire(s) \/ Release(s) \/ Expire(s)

Spec == Init /\ [][Next]_vars
=============================================================================
