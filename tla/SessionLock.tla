---------------------------- MODULE SessionLock ----------------------------
(***************************************************************************)
(* The session.lock file of ONE project directory and the application      *)
(* processes that fight for it: project/session_lock.py.                   *)
(*                                                                         *)
(* A session is one run of the application (SessionLockManager draws a     *)
(* fresh session_id per run), so a session that ended never comes back.    *)
(* Its process id may: the system hands the same pid to a later process of *)
(* the same host.  The file system gives two atomic steps only, exclusive  *)
(* creation and unlink; everything between them interleaves.               *)
(***************************************************************************)
EXTENDS FiniteSets

CONSTANTS
    Session,   \* runs of the application
    Host,      \* machines that can reach the project directory
    Pid,       \* process ids
    HostOf,    \* the machine a session runs on
    PidOf,     \* the pid the session's process gets
    Absent,    \* "there is no session.lock"
    Nobody     \* no session: what the abstract lock says when it is free

ASSUME HostOfAssumption   == HostOf \in [Session -> Host]
ASSUME PidOfAssumption    == PidOf \in [Session -> Pid]
ASSUME AbsentAssumption   == Absent \notin [owner : Session, written : BOOLEAN]
ASSUME NobodyAssumption   == Nobody \notin Session

VARIABLES
    status,    \* per session: "new", "running" or "ended"
    pc,        \* where the session is inside acquire() or release()
    seen,      \* the session_id read by the inspect() in progress
    owned,     \* the sessions whose _owned map has this project
    lockFile,  \* Absent, or who created the file and whether it is written
    usurped    \* history: an unlink removed a lock that it had not judged

vars == <<status, pc, seen, owned, lockFile, usurped>>

Status == {"new", "running", "ended"}
Step   == {"idle", "read", "stale", "create", "write", "remove"}
Lock   == [owner : Session, written : BOOLEAN]

TypeOK ==
    /\ status \in [Session -> Status]
    /\ pc \in [Session -> Step]
    /\ seen \in [Session -> Session]
    /\ owned \subseteq Session
    /\ lockFile \in Lock \cup {Absent}
    /\ usurped \in BOOLEAN

Init ==
    /\ status = [s \in Session |-> "new"]
    /\ pc = [s \in Session |-> "idle"]
    /\ seen = [s \in Session |-> s]
    /\ owned = {}
    /\ lockFile = Absent
    /\ usurped = FALSE

----------------------------------------------------------------------------
(* Processes.  Two live processes of a host never share a pid.             *)

PidAlive(h, p) ==
    \E t \in Session : status[t] = "running" /\ HostOf[t] = h /\ PidOf[t] = p

Start(s) ==
    /\ status[s] = "new"
    /\ ~PidAlive(HostOf[s], PidOf[s])
    /\ status' = [status EXCEPT ![s] = "running"]
    /\ UNCHANGED <<pc, seen, owned, lockFile, usurped>>

\* The process exits or crashes, wherever it is; only the file survives it.
End(s) ==
    /\ status[s] = "running"
    /\ status' = [status EXCEPT ![s] = "ended"]
    /\ pc' = [pc EXCEPT ![s] = "idle"]
    /\ owned' = owned \ {s}
    /\ UNCHANGED <<seen, lockFile, usurped>>

Running(s, step) == status[s] = "running" /\ pc[s] = step

Goto(s, step) == pc' = [pc EXCEPT ![s] = step]

----------------------------------------------------------------------------
(* acquire(): inspect(), unlink of a stale lock, exclusive creation.       *)
(* A file that is not (completely) written or that another host created    *)
(* classifies as UNKNOWN: acquire raises and nothing has changed, so there *)
(* is no step for it.                                                      *)

FindNoLock(s) ==
    /\ Running(s, "idle")
    /\ lockFile = Absent
    /\ Goto(s, "create")
    /\ UNCHANGED <<status, seen, owned, lockFile, usurped>>

\* Mutant: the lock itself is remembered instead of its session_id.
ReadLockWhole(s) ==
    /\ Running(s, "idle")
    /\ lockFile # Absent
    /\ seen' = [seen EXCEPT ![s] = lockFile]
    /\ Goto(s, "read")
    /\ UNCHANGED <<status, owned, lockFile, usurped>>

\* Mutant: the host name in the lock is not compared.
ReadLockAnyHost(s) ==
    /\ Running(s, "idle")
    /\ lockFile # Absent
    /\ lockFile.written
    /\ seen' = [seen EXCEPT ![s] = lockFile.owner]
    /\ Goto(s, "read")
    /\ UNCHANGED <<status, owned, lockFile, usurped>>

\* read_text() and from_dict() of inspect(); the pid is checked afterwards.
ReadLock(s) ==
    /\ Running(s, "idle")
    /\ lockFile # Absent
    /\ lockFile.written
    /\ HostOf[lockFile.owner] = HostOf[s]
    /\ seen' = [seen EXCEPT ![s] = lockFile.owner]
    /\ Goto(s, "read")
    /\ UNCHANGED <<status, owned, lockFile, usurped>>

\* Mutant: any readable lock of this host counts as stale.
JudgeStaleUnchecked(s) ==
    /\ Running(s, "read")
    /\ Goto(s, "stale")
    /\ UNCHANGED <<status, seen, owned, lockFile, usurped>>

\* The pid is looked up among the processes of the inspecting machine.
JudgeStale(s) ==
    /\ Running(s, "read")
    /\ ~PidAlive(HostOf[s], PidOf[seen[s]])
    /\ Goto(s, "stale")
    /\ UNCHANGED <<status, seen, owned, lockFile, usurped>>

\* ACTIVE, or UNKNOWN because the system would not tell: acquire raises.
JudgeHeld(s) ==
    /\ Running(s, "read")
    /\ Goto(s, "idle")
    /\ UNCHANGED <<status, seen, owned, lockFile, usurped>>

\* unlink() removes whatever file has the name now.
UnlinkStale(s) ==
    /\ Running(s, "stale")
    /\ lockFile # Absent
    /\ usurped' = (usurped \/ lockFile.owner # seen[s])
    /\ lockFile' = Absent
    /\ Goto(s, "create")
    /\ UNCHANGED <<status, seen, owned>>

\* Mutant: open("w") truncates the file of another session.
CreateOverwriting(s) ==
    /\ Running(s, "create")
    /\ lockFile' = [owner |-> s, written |-> FALSE]
    /\ Goto(s, "write")
    /\ UNCHANGED <<status, seen, owned, usurped>>

\* open("x"): the winner has an empty file, the loser ProjectLockedError.
CreateExclusive(s) ==
    /\ Running(s, "create")
    /\ IF lockFile = Absent
         THEN /\ lockFile' = [owner |-> s, written |-> FALSE]
              /\ Goto(s, "write")
         ELSE /\ Goto(s, "idle")
              /\ UNCHANGED lockFile
    /\ UNCHANGED <<status, seen, owned, usurped>>

\* When the file was removed meanwhile the bytes go to a nameless file.
WrittenBy(s) ==
    IF lockFile = [owner |-> s, written |-> FALSE]
      THEN [owner |-> s, written |-> TRUE]
      ELSE lockFile

\* json.dump, flush and fsync, then _owned[root] = session_id.
WriteLock(s) ==
    /\ Running(s, "write")
    /\ lockFile' = WrittenBy(s)
    /\ owned' = owned \cup {s}
    /\ Goto(s, "idle")
    /\ UNCHANGED <<status, seen, usurped>>

----------------------------------------------------------------------------
(* release(): only the session_id is compared, whatever inspect() says of  *)
(* the pid; a lock that is gone or foreign raises and stays in _owned.     *)

ReadOwnLock(s) ==
    /\ Running(s, "idle")
    /\ s \in owned
    /\ lockFile = [owner |-> s, written |-> TRUE]
    /\ Goto(s, "remove")
    /\ UNCHANGED <<status, seen, owned, lockFile, usurped>>

RemoveOwnLock(s) ==
    /\ Running(s, "remove")
    /\ lockFile # Absent
    /\ usurped' = (usurped \/ lockFile.owner # s)
    /\ lockFile' = Absent
    /\ owned' = owned \ {s}
    /\ Goto(s, "idle")
    /\ UNCHANGED <<status, seen>>

\* OSError from unlink or open: the call raises, nothing has changed.
IOFails(s) ==
    /\ status[s] = "running"
    /\ pc[s] \in {"stale", "create", "remove"}
    /\ Goto(s, "idle")
    /\ UNCHANGED <<status, seen, owned, lockFile, usurped>>

\* OSError from write, flush or fsync: the new file stays behind, with all
\* of its text or part of it, and _owned does not know of it.
WriteFails(s) ==
    /\ Running(s, "write")
    /\ \/ UNCHANGED lockFile
       \/ lockFile' = WrittenBy(s)
    /\ Goto(s, "idle")
    /\ UNCHANGED <<status, seen, owned, usurped>>

Next ==
    \E s \in Session :
        \/ Start(s)           \/ End(s)
        \/ FindNoLock(s)      \/ ReadLock(s)
        \/ JudgeStale(s)      \/ JudgeHeld(s)
        \/ UnlinkStale(s)     \/ CreateExclusive(s)  \/ WriteLock(s)
        \/ ReadOwnLock(s)     \/ RemoveOwnLock(s)
        \/ IOFails(s)         \/ WriteFails(s)

Spec == Init /\ [][Next]_vars

----------------------------------------------------------------------------
(* Properties                                                              *)

\* Two sessions never both believe that they own the project: "Hai phien
\* khong duoc cung ghi mot du an" (HMS_CADCAM_CODEX_MASTER_PLAN.md:265).
\* acquire() breaks it: a second session that judged the same stale lock
\* unlinks the first one's new lock.
OneWriter == \A s, t \in owned : s = t

\* As long as no unlink removed a lock it had not judged, a session that
\* believes it owns the project is the one named by a completely written
\* lock file, so that everybody else is refused.
OwnerHoldsLock ==
    ~usurped => \A s \in owned : lockFile = [owner |-> s, written |-> TRUE]

\* acquire() "replac[es] only a confirmed stale lock": the verdict on which
\* a lock is unlinked stays true until the unlink, in spite of reused pids.
StaleVerdictHolds ==
    \A s \in Session : pc[s] = "stale" => status[seen[s]] = "ended"

\* A session removes the lock it has judged, of a session of its own host
\* that has ended.
Evicts(s) ==
    /\ pc[s] = "stale"
    /\ lockFile.owner = seen[s]
    /\ status[seen[s]] = "ended"
    /\ HostOf[seen[s]] = HostOf[s]

\* release() removes the lock of its own session.
GivesUp(s) ==
    /\ pc[s] = "remove" /\ s \in owned
    /\ lockFile.owner = s

\* A lock that disappears is that of the session that removes it, or of one
\* that this session has judged and that has ended: the lock of a live session
\* is never taken away.  Excepted are the unlink that is contested, as the lock
\* it has judged was replaced meanwhile, and what follows it; it is never a
\* release() that is contested first.
RemovalJustified ==
    [][ lockFile # Absent /\ lockFile' = Absent =>
            \E s \in Session :
                /\ status[s] = "running" /\ pc[s] # pc'[s]
                /\ \/ Evicts(s)
                   \/ GivesUp(s)
                   \/ usurped' /\ (usurped \/ pc[s] = "stale") ]_vars

\* The holder of the abstract lock is the owner of the only _owned entry.
Holder == IF owned = {} \/ usurped THEN Nobody ELSE CHOOSE s \in Session : s \in owned

Ended == {s \in Session : status[s] = "ended"}

Exclusive == INSTANCE ExclusiveSession
                 WITH holder <- Holder, void <- usurped, ended <- Ended

\* Until an unlink is contested, session.lock keeps the promise of an
\* exclusive session: acquire() succeeds only when nobody holds the project.
ImplementsExclusive == Exclusive!Spec
=============================================================================
