------------------------- MODULE WorkspaceSessions -------------------------
(***************************************************************************)
(* Which project each running application has open, in which mode, and the *)
(* session locks it holds for it: the lifecycle part of ProjectService     *)
(* (project/service.py).                                                   *)
(*                                                                         *)
(* acquire(), release() and ensure_available() are single steps here       *)
(* (SessionLock opens them up, with the locks of other hosts); what        *)
(* interleaves are the service calls, which take, publish and give back    *)
(* directories in several steps and may fail between any two of them.      *)
(***************************************************************************)
EXTENDS FiniteSets

CONSTANTS
    Session,     \* runs of the application
    Root,        \* project directories
    Operations,  \* the kinds of calls the users make, a subset of Operation
    Nothing,     \* no project is open / no directory is being worked on
    Document,    \* a standalone CAD document is open
    Unlocked     \* the directory has no session.lock

Operation == {"open", "readOnly", "create", "workspace", "close", "document"}

ASSUME OperationsAssumption == Operations \subseteq Operation
ASSUME NothingAssumption    == Nothing \notin Root /\ Unlocked \notin Session
ASSUME DocumentAssumption   == Document # Nothing

Project == [root : Root, readOnly : BOOLEAN]

ASSUME CurrentAssumption == Nothing \notin Project /\ Document \notin Project

VARIABLES
    running,   \* the sessions whose process is alive
    current,   \* _current_project or _current_document of each session
    owned,     \* _owned of each session's lock manager
    at,        \* where each session's service call is
    target,    \* the directory that call works on
    lock,      \* per directory: the session_id in session.lock, or Unlocked
    exists,    \* the directories that are there
    made,      \* sessions whose new CAM workspace is still what they published
    bypassed,  \* history: directories where a call went around the lock
    leaked     \* history: directories whose lock a read-only reopen kept

disk == <<exists, made>>
vars == <<running, current, owned, at, target, lock, disk, bypassed, leaked>>

Phase == {"idle", "opened", "checked", "published", "created", "made", "entered",
          "discard", "remove"}

TypeOK ==
    /\ running \subseteq Session
    /\ current \in [Session -> Project \cup {Nothing, Document}]
    /\ owned \in [Session -> SUBSET Root]
    /\ at \in [Session -> Phase]
    /\ target \in [Session -> Root \cup {Nothing}]
    /\ lock \in [Root -> Session \cup {Unlocked}]
    /\ exists \subseteq Root /\ made \subseteq Session
    /\ bypassed \subseteq Root
    /\ leaked \subseteq Root

Init ==
    /\ running = Session
    /\ current = [s \in Session |-> Nothing]
    /\ owned = [s \in Session |-> {}]
    /\ at = [s \in Session |-> "idle"]
    /\ target = [s \in Session |-> Nothing]
    /\ lock = [r \in Root |-> Unlocked]
    /\ exists \in SUBSET Root /\ made = {}
    /\ bypassed = {}
    /\ leaked = {}

----------------------------------------------------------------------------
(* The lock manager, one call per step                                     *)

\* Mutant: an active lock is taken for a stale one.
AvailableAlways(r) == r \in Root

\* inspect(): no lock, or one whose process is gone (STALE).
Available(r) == lock[r] \notin running

\* The outcome of release(r): a no-op when the session does not own r, a
\* SessionLockError when the file names another session or is gone.
ReleaseRaises(s, r) == r \in owned[s] /\ lock[r] # s

LockAfterRelease(s, r) ==
    IF r \in owned[s] /\ lock[r] = s THEN [lock EXCEPT ![r] = Unlocked] ELSE lock

OwnedAfterRelease(s, r) ==
    IF lock[r] = s THEN [owned EXCEPT ![s] = @ \ {r}] ELSE owned

Release(s, r) ==
    /\ lock' = LockAfterRelease(s, r)
    /\ owned' = OwnedAfterRelease(s, r)

Take(s, r) ==
    /\ lock' = [lock EXCEPT ![r] = s]
    /\ owned' = [owned EXCEPT ![s] = @ \cup {r}]

----------------------------------------------------------------------------
HasProject(s) == current[s] \in Project
HasOpen(s, r) == HasProject(s) /\ current[s].root = r
Writes(s, r)  == current[s] = [root |-> r, readOnly |-> FALSE]

Calls(s, op) == s \in running /\ at[s] = "idle" /\ op \in Operations

Working(s, phase) == s \in running /\ at[s] = phase

\* The session has the lock of the directory that it is about to make current.
Activating(s) == s \in running /\ at[s] \in {"opened", "created", "entered"}

Goto(s, phase, r) ==
    /\ at' = [at EXCEPT ![s] = phase]
    /\ target' = [target EXCEPT ![s] = r]

Return(s) == Goto(s, "idle", Nothing)

SetCurrent(s, c) == current' = [current EXCEPT ![s] = c]

\* Mutant: the directory of the new project is not compared.
MustReleaseAnyRoot(s, r) == HasProject(s) /\ ~current[s].readOnly /\ r \in Root

\* _complete_activation gives back the lock of the project it replaces,
\* unless that one is the same directory or was open read-only.
MustRelease(s, r) ==
    HasProject(s) /\ ~current[s].readOnly /\ current[s].root # r

----------------------------------------------------------------------------
(* open_project(root, read_only=True): no lock is taken.                   *)

\* Mutant: the session remembers the directory only.
OpenReadOnlyByRoot(s, r) ==
    /\ Calls(s, "readOnly")
    /\ SetCurrent(s, r)
    /\ UNCHANGED <<running, owned, at, target, lock, disk, bypassed, leaked>>

OpenReadOnly(s, r) ==
    /\ Calls(s, "readOnly")
    /\ r \in exists
    /\ ~(MustRelease(s, r) /\ ReleaseRaises(s, current[s].root))
    /\ IF MustRelease(s, r) THEN Release(s, current[s].root)
                            ELSE UNCHANGED <<lock, owned>>
    /\ SetCurrent(s, [root |-> r, readOnly |-> TRUE])
    /\ leaked' = IF r \in owned[s] THEN leaked \cup {r} ELSE leaked
    /\ UNCHANGED <<running, at, target, disk, bypassed>>

\* open_project of the directory that is already current: it is loaded
\* again, writable, on the lock the session is supposed to have.
Reopen(s, r) ==
    /\ Calls(s, "open")
    /\ HasOpen(s, r) /\ r \in exists
    /\ SetCurrent(s, [root |-> r, readOnly |-> FALSE])
    /\ bypassed' = IF lock[r] = s THEN bypassed ELSE bypassed \cup {r}
    /\ UNCHANGED <<running, owned, at, target, lock, disk, leaked>>

\* open_project or recover_project of another directory, up to acquire().
AcquireOpened(s, r) ==
    /\ Calls(s, "open")
    /\ ~HasOpen(s, r)
    /\ r \in exists /\ Available(r)
    /\ Take(s, r)
    /\ Goto(s, "opened", r)
    /\ UNCHANGED <<running, current, disk, bypassed, leaked>>

\* A call that replaced the very project that is open, and fails, leaves
\* the session on that directory without its lock.
BypassedIfOpen(s) ==
    IF HasOpen(s, target[s]) THEN bypassed \cup {target[s]} ELSE bypassed

\* Mutant: a failed load does not give the lock back.
LoadFailsLocked(s) ==
    /\ Activating(s)
    /\ Return(s)
    /\ UNCHANGED <<running, current, owned, lock, disk, bypassed, leaked>>

\* A new CAM workspace that cannot be activated is removed again.
GiveUp(s) ==
    IF at[s] \in {"made", "entered"} THEN Goto(s, "discard", target[s]) ELSE Return(s)

\* Loading, recovering or validating raises: the new lock is given back.
LoadFails(s) ==
    /\ Activating(s)
    /\ Release(s, target[s])
    /\ bypassed' = BypassedIfOpen(s)
    /\ GiveUp(s)
    /\ UNCHANGED <<running, current, disk, leaked>>

----------------------------------------------------------------------------
(* new_project, create_project_from_source and save_as: the directory is   *)
(* published over the old one, and only then locked.                       *)

\* _ensure_overwrite_target_available; save_as of the current directory is
\* a plain save().
CheckTarget(s, r) ==
    /\ Calls(s, "create")
    /\ Available(r) \/ (lock[r] = s /\ r \in owned[s])
    /\ Goto(s, "checked", r)
    /\ UNCHANGED <<running, current, owned, lock, disk, bypassed, leaked>>

\* The directory goes away with whatever lock it has by now, and with the
\* identity of the project in it.
TakeAway(s) ==
    /\ lock' = [lock EXCEPT ![target[s]] = Unlocked]
    /\ bypassed' = IF lock[target[s]] \in running \ {s}
                     THEN bypassed \cup {target[s]} ELSE bypassed
    /\ made' = {t \in made : target[t] # target[s]}

Publish(s) ==
    /\ Working(s, "checked")
    /\ TakeAway(s)
    /\ exists' = exists \cup {target[s]}
    /\ Goto(s, "published", target[s])
    /\ UNCHANGED <<running, current, owned, leaked>>

\* Staging or publish_directory raises and the old directory is kept.
PublishFails(s) ==
    /\ Working(s, "checked")
    /\ Return(s)
    /\ UNCHANGED <<running, current, owned, lock, disk, bypassed, leaked>>

\* create_cam_workspace: the name must be free; the directory is published
\* under it without being locked.
CreateWorkspace(s, r) ==
    /\ Calls(s, "workspace")
    /\ r \notin exists
    /\ exists' = exists \cup {r} /\ made' = made \cup {s}
    /\ Goto(s, "made", r)
    /\ UNCHANGED <<running, current, owned, lock, bypassed, leaked>>

\* The acquire() of _activate.
AcquireCreated(s) ==
    /\ Working(s, "published") \/ Working(s, "made")
    /\ target[s] \in exists /\ Available(target[s])
    /\ Take(s, target[s])
    /\ Goto(s, IF at[s] = "made" THEN "entered" ELSE "created", target[s])
    /\ UNCHANGED <<running, current, disk, bypassed, leaked>>

\* Another session opened the new directory first, or removed it; what was
\* current stays current, also when it is the directory just replaced.
CreatedIsTaken(s) ==
    /\ Working(s, "published") \/ Working(s, "made")
    /\ ~(target[s] \in exists /\ Available(target[s]))
    /\ bypassed' = BypassedIfOpen(s)
    /\ GiveUp(s)
    /\ UNCHANGED <<running, current, owned, lock, disk, leaked>>

\* _rollback_new_cam_workspace: the manifest must still be that of the new
\* workspace, and release() must not raise.
Discard(s) ==
    /\ Working(s, "discard")
    /\ IF s \in made /\ ~ReleaseRaises(s, target[s])
         THEN Release(s, target[s]) /\ Goto(s, "remove", target[s]) /\ UNCHANGED made
         ELSE UNCHANGED <<lock, owned>> /\ Return(s) /\ made' = made \ {s}
    /\ UNCHANGED <<running, current, exists, bypassed, leaked>>

\* rmtree removes the directory, whoever has opened it meanwhile, or stops
\* at a file that is in use.
Remove(s) ==
    /\ Working(s, "remove")
    /\ TakeAway(s)
    /\ exists' \in {exists, exists \ {target[s]}}
    /\ Return(s)
    /\ UNCHANGED <<running, current, owned, leaked>>

----------------------------------------------------------------------------
(* _complete_activation of a writable project                              *)

Activate(s) ==
    /\ Activating(s) /\ target[s] \in exists
    /\ ~(MustRelease(s, target[s]) /\ ReleaseRaises(s, current[s].root))
    /\ IF MustRelease(s, target[s]) THEN Release(s, current[s].root)
                                    ELSE UNCHANGED <<lock, owned>>
    /\ SetCurrent(s, [root |-> target[s], readOnly |-> FALSE])
    /\ Return(s)
    /\ made' = made \ {s}
    /\ UNCHANGED <<running, exists, bypassed, leaked>>

\* The previous project's lock cannot be released: the new one is given
\* back and the previous project stays current.
ActivateFails(s) ==
    /\ Activating(s)
    /\ MustRelease(s, target[s]) /\ ReleaseRaises(s, current[s].root)
    /\ Release(s, target[s])
    /\ GiveUp(s)
    /\ UNCHANGED <<running, current, disk, bypassed, leaked>>

\* Closing the previous document raises when its extracted files cannot be
\* deleted, after _current_project has been set: open_project gives the
\* lock back and keeps the project, _activate takes the project back too.
ActivateFailsLate(s) ==
    /\ Activating(s)
    /\ current[s] = Document
    /\ Release(s, target[s])
    /\ IF at[s] = "opened"
         THEN /\ SetCurrent(s, [root |-> target[s], readOnly |-> FALSE])
              /\ bypassed' = bypassed \cup {target[s]}
         ELSE /\ SetCurrent(s, Nothing)
              /\ UNCHANGED bypassed
    /\ GiveUp(s)
    /\ UNCHANGED <<running, disk, leaked>>

----------------------------------------------------------------------------
(* Leaving a project                                                       *)

CloseProject(s) ==
    /\ Calls(s, "close")
    /\ HasProject(s)
    /\ IF current[s].readOnly
         THEN UNCHANGED <<lock, owned>>
         ELSE /\ ~ReleaseRaises(s, current[s].root)
              /\ Release(s, current[s].root)
    /\ SetCurrent(s, Nothing)
    /\ UNCHANGED <<running, at, target, disk, bypassed, leaked>>

CommitDocumentOpen(s) ==
    /\ Calls(s, "document")
    /\ IF HasProject(s)
         THEN /\ ~ReleaseRaises(s, current[s].root)
              /\ Release(s, current[s].root)
         ELSE UNCHANGED <<lock, owned>>
    /\ SetCurrent(s, Document)
    /\ UNCHANGED <<running, at, target, disk, bypassed, leaked>>

\* The process ends or is killed; its lock files stay.
End(s) ==
    /\ s \in running
    /\ running' = running \ {s}
    /\ SetCurrent(s, Nothing)
    /\ owned' = [owned EXCEPT ![s] = {}]
    /\ made' = made \ {s}
    /\ Return(s)
    /\ UNCHANGED <<lock, exists, bypassed, leaked>>

Next ==
    \E s \in Session :
        \/ \E r \in Root : \/ OpenReadOnly(s, r)
                           \/ Reopen(s, r)
                           \/ AcquireOpened(s, r)
                           \/ CheckTarget(s, r)
                           \/ CreateWorkspace(s, r)
        \/ LoadFails(s)       \/ Publish(s)         \/ PublishFails(s)
        \/ AcquireCreated(s)  \/ CreatedIsTaken(s)
        \/ Discard(s)         \/ Remove(s)
        \/ Activate(s)        \/ ActivateFails(s)   \/ ActivateFailsLate(s)
        \/ CloseProject(s)    \/ CommitDocumentOpen(s)
        \/ End(s)

Spec == Init /\ [][Next]_vars

----------------------------------------------------------------------------
(* Properties                                                              *)

\* Except where a call went around the lock, a session that can save a
\* project is the one its session.lock names, between any two calls.
WriterHoldsLock ==
    \A s \in running, r \in Root \ bypassed :
        at[s] = "idle" /\ Writes(s, r) => lock[r] = s /\ r \in owned[s]

\* A live lock is in use: the session it names has that directory open or
\* is opening it, so that closing a project frees it for everybody.  Only a
\* read-only reopen of a directory that was open for writing may strand it.
LiveLockIsInUse ==
    \A r \in Root \ leaked :
        lock[r] \in running =>
            \/ HasOpen(lock[r], r)
            \/ target[lock[r]] = r /\ at[lock[r]] \in {"opened", "created", "entered"}

\* The lock of a running session goes away by a call of that session only;
\* the exceptions are a directory that another session overwrites after it
\* has checked that nobody is using it, and a new workspace that its maker
\* removes because it could not be opened.
LockLostOnlyByOwnCall ==
    [][\A r \in Root : \A s \in running :
          lock[r] = s /\ lock'[r] # s /\ r \notin bypassed' =>
              <<at[s], current[s]>> # <<at'[s], current'[s]>>]_vars
=============================================================================
