--------------------- MODULE WorkspaceSessionsProofs ---------------------
(***************************************************************************)
(* Proofs about WorkspaceSessions for every set of sessions and project    *)
(* directories, and whatever kinds of calls the users make.                *)
(***************************************************************************)
EXTENDS WorkspaceSessions, TLAPS

(* The inductive invariant.  A call that is under way has a directory; the *)
(* lock manager of a running session knows of every lock it has; a session *)
(* that is about to make a directory current has its lock, and so has one  *)
(* that writes it, except while it replaces that very directory.           *)

TargetIsRoot ==
    \A s \in Session : at[s] # "idle" => target[s] \in Root

LockIsOwned ==
    \A r \in Root : lock[r] \in running => r \in owned[lock[r]]

ActivatorHoldsLock ==
    \A s \in running :
        Activating(s) /\ target[s] \notin bypassed => lock[target[s]] = s

Replacing(s, r) == target[s] = r /\ at[s] \in {"published", "made"}

WriterHasLock ==
    \A s \in running, r \in Root \ bypassed :
        Writes(s, r) /\ ~Replacing(s, r) => lock[r] = s

\* A new workspace that is being removed is not open, unless around its lock.
DiscardedIsNotOpen ==
    \A s \in running :
        at[s] \in {"discard", "remove"} /\ HasOpen(s, target[s]) => target[s] \in bypassed

\* A session that only reads a directory has its lock because a read-only
\* reopen kept it, or because it is about to open the directory for writing.
ReaderLeaksLock ==
    \A s \in running, r \in Root :
        current[s] = [root |-> r, readOnly |-> TRUE] /\ lock[r] = s =>
            r \in leaked \/ (target[s] = r /\ at[s] \in {"created", "entered"})

Inv ==
    /\ TypeOK
    /\ TargetIsRoot
    /\ LockIsOwned
    /\ ActivatorHoldsLock
    /\ WriterHasLock
    /\ DiscardedIsNotOpen
    /\ ReaderLeaksLock
    /\ LiveLockIsInUse

\* An open project is neither nothing nor a document.
LEMMA ProjectRecords ==
    \A r \in Root, w \in BOOLEAN :
        /\ [root |-> r, readOnly |-> w] \in Project
        /\ [root |-> r, readOnly |-> w] # Nothing
        /\ [root |-> r, readOnly |-> w] # Document
<1> SUFFICES ASSUME NEW r \in Root, NEW w \in BOOLEAN
             PROVE  /\ [root |-> r, readOnly |-> w] \in Project
                    /\ [root |-> r, readOnly |-> w] # Nothing
                    /\ [root |-> r, readOnly |-> w] # Document
  OBVIOUS
<1>1. [root |-> r, readOnly |-> w] \in Project
  BY DEF Project
<1> QED
  BY <1>1, CurrentAssumption

\* Who can write a directory, or has it open read-only, has it open.
LEMMA OpenRecords ==
    ASSUME NEW s \in Session, NEW r \in Root
    PROVE  /\ Writes(s, r) => HasOpen(s, r)
           /\ current[s] = [root |-> r, readOnly |-> TRUE] => HasOpen(s, r)
<1>1. ASSUME NEW w \in BOOLEAN, current[s] = [root |-> r, readOnly |-> w]
      PROVE  HasOpen(s, r)
  <2>1. current[s] \in Project
    BY <1>1, ProjectRecords
  <2> QED
    BY <1>1, <2>1 DEF HasOpen, HasProject
<1> QED
  BY <1>1 DEF Writes

\* The inductive invariant holds initially.
LEMMA InvInit == Init => Inv
<1> SUFFICES ASSUME Init PROVE Inv
  OBVIOUS
<1>1. \A s \in Session : at[s] = "idle" /\ current[s] = Nothing /\ s \in running
  BY DEF Init
<1>2. \A r \in Root : lock[r] \notin running
  BY NothingAssumption DEF Init
<1>3. TypeOK
  BY DEF Init, TypeOK, Phase
<1>4. \A s \in Session, r \in Root : ~HasOpen(s, r) /\ ~Writes(s, r)
  BY <1>1, ProjectRecords, CurrentAssumption DEF HasOpen, HasProject, Writes
<1>5. \A s \in Session, r \in Root : current[s] # [root |-> r, readOnly |-> TRUE]
  BY <1>1, ProjectRecords
<1> QED
  BY <1>1, <1>2, <1>3, <1>4, <1>5
     DEF Inv, TypeOK, TargetIsRoot, LockIsOwned, ActivatorHoldsLock, Activating,
         WriterHasLock, DiscardedIsNotOpen, ReaderLeaksLock, LiveLockIsInUse

----------------------------------------------------------------------------
(* What the calls of the lock manager do to its two variables.             *)

\* Acquiring a lock changes that lock and the caller's _owned only.
LEMMA TakeEffect ==
    ASSUME TypeOK, NEW s \in Session, NEW r \in Root, Take(s, r)
    PROVE  /\ lock' \in [Root -> Session \cup {Unlocked}]
           /\ owned' \in [Session -> SUBSET Root]
           /\ lock'[r] = s /\ r \in owned'[s]
           /\ \A q \in Root \ {r} : lock'[q] = lock[q]
           /\ \A t \in Session : owned[t] \subseteq owned'[t]
BY DEF TypeOK, Take

\* Releasing a lock frees it only when it is the caller's, and frees no other.
LEMMA ReleaseEffect ==
    ASSUME TypeOK, NEW s \in Session, NEW r \in Root, Release(s, r)
    PROVE  /\ lock' \in [Root -> Session \cup {Unlocked}]
           /\ owned' \in [Session -> SUBSET Root]
           /\ \A q \in Root : \/ lock'[q] = lock[q]
                              \/ q = r /\ lock[q] = s /\ lock'[q] = Unlocked
           /\ r \in owned[s] => lock'[r] # s
           /\ \A t \in Session : \A q \in owned[t] :
                 q \in owned'[t] \/ (t = s /\ q = r /\ lock[r] = s)
<1> USE DEF TypeOK, Release
<1>1. lock' \in [Root -> Session \cup {Unlocked}] /\ owned' \in [Session -> SUBSET Root]
  BY DEF LockAfterRelease, OwnedAfterRelease
<1>2. \A q \in Root : \/ lock'[q] = lock[q]
                      \/ q = r /\ lock[q] = s /\ lock'[q] = Unlocked
  BY DEF LockAfterRelease
<1>3. r \in owned[s] => lock'[r] # s
  BY NothingAssumption DEF LockAfterRelease
<1>4. ASSUME NEW t \in Session, NEW q \in owned[t]
      PROVE  q \in owned'[t] \/ (t = s /\ q = r /\ lock[r] = s)
  BY DEF OwnedAfterRelease
<1> QED
  BY <1>1, <1>2, <1>3, <1>4

\* Removing a directory takes its lock along, and the bypass of a living one is named.
LEMMA TakeAwayEffect ==
    ASSUME TypeOK, NEW s \in Session, target[s] \in Root, TakeAway(s)
    PROVE  /\ lock' \in [Root -> Session \cup {Unlocked}]
           /\ lock'[target[s]] = Unlocked
           /\ \A q \in Root \ {target[s]} : lock'[q] = lock[q]
           /\ bypassed' \subseteq Root /\ bypassed \subseteq bypassed'
           /\ lock[target[s]] \in running \ {s} => target[s] \in bypassed'
           /\ made' \subseteq Session
BY DEF TypeOK, TakeAway

----------------------------------------------------------------------------
(* Types.                                                                  *)

\* Every step keeps the types, and a call keeps a directory to work on.
LEMMA TypeStep ==
    ASSUME TypeOK, TargetIsRoot, [Next]_vars
    PROVE  TypeOK' /\ TargetIsRoot'
<1> USE DEF TypeOK, TargetIsRoot, Phase, Working, Calls, Goto, Return, SetCurrent, disk
<1>1. CASE UNCHANGED vars
  BY <1>1 DEF vars
<1>2. ASSUME NEW s \in Session, NEW r \in Root, OpenReadOnly(s, r)
      PROVE  TypeOK' /\ TargetIsRoot'
  <2>1. lock' \in [Root -> Session \cup {Unlocked}] /\ owned' \in [Session -> SUBSET Root]
    <3>1. CASE MustRelease(s, r)
      <4>1. current[s].root \in Root /\ Release(s, current[s].root)
        BY <1>2, <3>1 DEF OpenReadOnly, MustRelease, HasProject, Project
      <4> QED
        BY <4>1, ReleaseEffect
    <3>2. CASE ~MustRelease(s, r)
      BY <1>2, <3>2 DEF OpenReadOnly
    <3> QED
      BY <3>1, <3>2
  <2>2. current' \in [Session -> Project \cup {Nothing, Document}]
    BY <1>2, ProjectRecords DEF OpenReadOnly
  <2> QED
    BY <1>2, <2>1, <2>2 DEF OpenReadOnly
<1>3. ASSUME NEW s \in Session, NEW r \in Root, Reopen(s, r)
      PROVE  TypeOK' /\ TargetIsRoot'
  BY <1>3, ProjectRecords DEF Reopen
<1>4. ASSUME NEW s \in Session, NEW r \in Root, AcquireOpened(s, r)
      PROVE  TypeOK' /\ TargetIsRoot'
  BY <1>4, TakeEffect DEF AcquireOpened
<1>5. ASSUME NEW s \in Session, NEW r \in Root, CheckTarget(s, r) \/ CreateWorkspace(s, r)
      PROVE  TypeOK' /\ TargetIsRoot'
  BY <1>5 DEF CheckTarget, CreateWorkspace
\* The calls that are under way.
<1>6. ASSUME NEW s \in Session, LoadFails(s) \/ ActivateFails(s)
      PROVE  TypeOK' /\ TargetIsRoot'
  <2>1. target[s] \in Root /\ Release(s, target[s])
    BY <1>6 DEF LoadFails, ActivateFails, Activating
  <2> QED
    BY <1>6, <2>1, ReleaseEffect DEF LoadFails, ActivateFails, GiveUp, BypassedIfOpen
<1>7. ASSUME NEW s \in Session, Publish(s) \/ Remove(s)
      PROVE  TypeOK' /\ TargetIsRoot'
  <2>1. target[s] \in Root /\ TakeAway(s)
    BY <1>7 DEF Publish, Remove
  <2> QED
    BY <1>7, <2>1, TakeAwayEffect DEF Publish, Remove
<1>8. ASSUME NEW s \in Session, PublishFails(s) \/ CreatedIsTaken(s)
      PROVE  TypeOK' /\ TargetIsRoot'
  BY <1>8 DEF PublishFails, CreatedIsTaken, GiveUp, BypassedIfOpen
<1>9. ASSUME NEW s \in Session, AcquireCreated(s)
      PROVE  TypeOK' /\ TargetIsRoot'
  <2>1. target[s] \in Root /\ Take(s, target[s])
    BY <1>9 DEF AcquireCreated
  <2> QED
    BY <1>9, <2>1, TakeEffect DEF AcquireCreated
<1>10. ASSUME NEW s \in Session, Discard(s)
       PROVE  TypeOK' /\ TargetIsRoot'
  <2>1. target[s] \in Root
    BY <1>10 DEF Discard
  <2> QED
    BY <1>10, <2>1, ReleaseEffect DEF Discard
<1>11. ASSUME NEW s \in Session, Activate(s)
       PROVE  TypeOK' /\ TargetIsRoot'
  <2>1. target[s] \in Root
    BY <1>11 DEF Activate, Activating
  <2>2. lock' \in [Root -> Session \cup {Unlocked}] /\ owned' \in [Session -> SUBSET Root]
    <3>1. CASE MustRelease(s, target[s])
      <4>1. current[s].root \in Root /\ Release(s, current[s].root)
        BY <1>11, <3>1 DEF Activate, MustRelease, HasProject, Project
      <4> QED
        BY <4>1, ReleaseEffect
    <3>2. CASE ~MustRelease(s, target[s])
      BY <1>11, <3>2 DEF Activate
    <3> QED
      BY <3>1, <3>2
  <2> QED
    BY <1>11, <2>1, <2>2, ProjectRecords DEF Activate
<1>12. ASSUME NEW s \in Session, ActivateFailsLate(s)
       PROVE  TypeOK' /\ TargetIsRoot'
  <2>1. target[s] \in Root /\ Release(s, target[s])
    BY <1>12 DEF ActivateFailsLate, Activating
  <2>2. current' \in [Session -> Project \cup {Nothing, Document}]
    BY <1>12, <2>1, ProjectRecords DEF ActivateFailsLate
  <2> QED
    BY <1>12, <2>1, <2>2, ReleaseEffect DEF ActivateFailsLate, GiveUp
<1>13. ASSUME NEW s \in Session, CloseProject(s) \/ CommitDocumentOpen(s)
       PROVE  TypeOK' /\ TargetIsRoot'
  <2>1. HasProject(s) => current[s].root \in Root
    BY DEF HasProject, Project
  <2> QED
    BY <1>13, <2>1, ReleaseEffect DEF CloseProject, CommitDocumentOpen
<1>14. ASSUME NEW s \in Session, End(s)
       PROVE  TypeOK' /\ TargetIsRoot'
  BY <1>14 DEF End
<1> QED
  BY <1>1, <1>2, <1>3, <1>4, <1>5, <1>6, <1>7, <1>8, <1>9, <1>10, <1>11, <1>12,
     <1>13, <1>14 DEF Next

----------------------------------------------------------------------------
(* The other conjuncts of the invariant, one lemma per kind of step.       *)

\* Directories are checked, created or kept; no lock changes.
LEMMA PreparingStep ==
    ASSUME Inv, TypeOK', TargetIsRoot', NEW s \in Session, NEW r \in Root,
           CheckTarget(s, r) \/ CreateWorkspace(s, r) \/ PublishFails(s)
    PROVE  Inv'
<1> USE DEF Inv, TypeOK, TargetIsRoot, LockIsOwned, ActivatorHoldsLock, Activating,
            WriterHasLock, Replacing, Writes, DiscardedIsNotOpen, ReaderLeaksLock,
            LiveLockIsInUse, HasOpen, HasProject, Goto, Return
<1> QED
  BY DEF CheckTarget, CreateWorkspace, PublishFails, Calls, Working

\* A lock is taken on a directory that no running session has locked.
LEMMA TakingStep ==
    ASSUME Inv, TypeOK', TargetIsRoot', NEW s \in Session, NEW r \in Root, Take(s, r),
           AcquireOpened(s, r) \/ (AcquireCreated(s) /\ r = target[s])
    PROVE  Inv'
<1> USE DEF Inv, TypeOK, TargetIsRoot, LockIsOwned, ActivatorHoldsLock, Activating,
            WriterHasLock, Replacing, Writes, DiscardedIsNotOpen, ReaderLeaksLock,
            LiveLockIsInUse, HasOpen, HasProject, Goto, Return
<1>1. /\ lock'[r] = s /\ r \in owned'[s] /\ lock[r] \notin running
      /\ \A q \in Root \ {r} : lock'[q] = lock[q]
      /\ \A t \in Session : owned[t] \subseteq owned'[t]
  BY TakeEffect DEF AcquireOpened, AcquireCreated, Available
<1>2. /\ UNCHANGED <<running, current, bypassed, leaked>>
      /\ s \in running
      /\ \A t \in Session \ {s} : at'[t] = at[t] /\ target'[t] = target[t]
      /\ target'[s] = r /\ at'[s] \in {"opened", "created", "entered"}
      /\ at[s] \in {"idle", "published", "made"}
  BY DEF AcquireOpened, AcquireCreated, Calls, Working
<1>3a. /\ at[s] # "idle" => target[s] = r
       /\ at'[s] = "opened" => ~HasOpen(s, r)
  <2>1. CASE AcquireOpened(s, r)
    BY <2>1 DEF AcquireOpened, Calls
  <2>2. CASE AcquireCreated(s) /\ r = target[s]
    BY <2>2 DEF AcquireCreated
  <2> QED
    BY <2>1, <2>2
<1>3. LockIsOwned'
  BY <1>1, <1>2
<1>4. ActivatorHoldsLock'
  BY <1>1, <1>2
<1>5. WriterHasLock'
  <2> SUFFICES ASSUME NEW t \in running, NEW q \in Root \ bypassed,
                      Writes(t, q), ~Replacing(t, q)'
               PROVE  lock'[q] = t
    BY <1>2
  <2>1. CASE t = s /\ q = r
    BY <1>1, <2>1
  <2>2. CASE t # s \/ q # r
    <3>1. lock[q] = t
      BY <1>2, <1>3a, <2>2
    <3> QED
      BY <1>1, <3>1
  <2> QED
    BY <2>1, <2>2
<1>6. DiscardedIsNotOpen'
  BY <1>1, <1>2
<1>7. ReaderLeaksLock'
  <2> SUFFICES ASSUME NEW t \in running, NEW q \in Root, lock'[q] = t,
                      current[t] = [root |-> q, readOnly |-> TRUE]
               PROVE  q \in leaked \/ (target'[t] = q /\ at'[t] \in {"created", "entered"})
    BY <1>2
  <2>1. CASE q = r
    BY <1>1, <1>2, <1>3a, <2>1, OpenRecords
  <2>2. CASE q # r
    <3>1. lock[q] = t
      BY <1>1, <2>2
    <3> QED
      BY <1>2, <3>1
  <2> QED
    BY <2>1, <2>2
<1>8. LiveLockIsInUse'
  BY <1>1, <1>2
<1> QED
  BY <1>3, <1>4, <1>5, <1>6, <1>7, <1>8

\* The lock of the directory in hand is given back.
LEMMA GivingBackStep ==
    ASSUME Inv, TypeOK', TargetIsRoot', NEW s \in Session, target[s] \in Root,
           LoadFails(s) \/ ActivateFails(s) \/ Discard(s) \/ CreatedIsTaken(s)
    PROVE  Inv'
<1> USE DEF Inv, TypeOK, TargetIsRoot, LockIsOwned, ActivatorHoldsLock, Activating,
            WriterHasLock, Replacing, Writes, DiscardedIsNotOpen, ReaderLeaksLock,
            LiveLockIsInUse, HasOpen, HasProject, Goto, Return
<1>1. /\ \A q \in Root : \/ lock'[q] = lock[q]
                         \/ q = target[s] /\ lock[q] = s /\ lock'[q] = Unlocked
      /\ \A t \in Session : \A q \in owned[t] :
            q \in owned'[t] \/ (t = s /\ q = target[s] /\ lock[q] = s)
      /\ \/ target[s] \in owned[s] => lock'[target[s]] # s
         \/ UNCHANGED <<lock, owned>> /\ ~Activating(s)
  <2> HIDE DEF TypeOK, Activating
  <2>1. CASE Release(s, target[s])
    BY <2>1, ReleaseEffect
  <2>2. CASE UNCHANGED <<lock, owned>> /\ ~Activating(s)
    BY <2>2
  <2> QED
    BY <2>1, <2>2 DEF LoadFails, ActivateFails, Discard, CreatedIsTaken, Working, Activating
<1>2. /\ UNCHANGED <<running, current, leaked>>
      /\ s \in running
      /\ \A t \in Session \ {s} : at'[t] = at[t] /\ target'[t] = target[t]
      /\ at[s] # "idle"
      /\ at'[s] \in {"idle", "discard", "remove"}
      /\ at'[s] # "idle" => target'[s] = target[s]
      /\ bypassed \subseteq bypassed'
  BY DEF LoadFails, ActivateFails, Discard, CreatedIsTaken, Working, GiveUp, BypassedIfOpen
\* Who keeps the directory open has gone around its lock.
<1>3. HasOpen(s, target[s]) => target[s] \in bypassed' 
  BY DEF LoadFails, ActivateFails, Discard, CreatedIsTaken, Working, BypassedIfOpen,
     MustRelease
<1>4. Unlocked \notin running
  BY NothingAssumption
<1>5. LockIsOwned'
  BY <1>1, <1>2, <1>4
<1>6. ActivatorHoldsLock'
  BY <1>1, <1>2
<1>7. WriterHasLock'
  <2> SUFFICES ASSUME NEW t \in running, NEW q \in Root \ bypassed',
                      Writes(t, q), ~Replacing(t, q)'
               PROVE  lock'[q] = t
    BY <1>2
  <2>1. q # target[s] \/ t # s
    BY <1>2, <1>3, OpenRecords
  <2>2. lock[q] = t
    BY <1>2, <2>1
  <2> QED
    BY <1>1, <2>1, <2>2
<1>8. DiscardedIsNotOpen'
  BY <1>1, <1>2, <1>3
<1>9. ReaderLeaksLock'
  BY <1>1, <1>2, <1>4
<1>10. LiveLockIsInUse'
  BY <1>1, <1>2, <1>4
<1> QED
  BY <1>5, <1>6, <1>7, <1>8, <1>9, <1>10

\* A directory is replaced or removed with its lock.
LEMMA TakingAwayStep ==
    ASSUME Inv, TypeOK', TargetIsRoot', NEW s \in Session, target[s] \in Root,
           Publish(s) \/ Remove(s)
    PROVE  Inv'
<1> USE DEF Inv, TypeOK, TargetIsRoot, LockIsOwned, ActivatorHoldsLock, Activating,
            WriterHasLock, Replacing, Writes, DiscardedIsNotOpen, ReaderLeaksLock,
            LiveLockIsInUse, HasOpen, HasProject, Goto, Return
<1>1. /\ lock'[target[s]] = Unlocked
      /\ \A q \in Root \ {target[s]} : lock'[q] = lock[q]
      /\ bypassed \subseteq bypassed'
      /\ lock[target[s]] \in running \ {s} => target[s] \in bypassed'
  BY TakeAwayEffect DEF Publish, Remove
<1>2. /\ UNCHANGED <<running, current, owned, leaked>>
      /\ s \in running
      /\ \A t \in Session \ {s} : at'[t] = at[t] /\ target'[t] = target[t]
      /\ \/ at[s] = "checked" /\ at'[s] = "published" /\ target'[s] = target[s]
         \/ at[s] = "remove" /\ at'[s] = "idle"
  BY DEF Publish, Remove, Working
<1>3. Unlocked \notin running
  BY NothingAssumption
<1>4. LockIsOwned'
  BY <1>1, <1>2, <1>3
<1>5. ActivatorHoldsLock'
  BY <1>1, <1>2
<1>6. WriterHasLock'
  <2> SUFFICES ASSUME NEW t \in running, NEW q \in Root \ bypassed',
                      Writes(t, q), ~Replacing(t, q)'
               PROVE  lock'[q] = t
    BY <1>2
  <2>1. q # target[s] \/ t # s
    BY <1>1, <1>2, OpenRecords
  <2>2. lock[q] = t
    BY <1>1, <1>2, <2>1
  <2> QED
    BY <1>1, <2>1, <2>2
<1>7. DiscardedIsNotOpen'
  BY <1>1, <1>2
<1>8. ReaderLeaksLock'
  BY <1>1, <1>2, <1>3
<1>9. LiveLockIsInUse'
  BY <1>1, <1>2, <1>3
<1> QED
  BY <1>4, <1>5, <1>6, <1>7, <1>8, <1>9

\* What is current is known by its directory and mode.
LEMMA CurrentProject ==
    ASSUME TypeOK, NEW s \in Session, HasProject(s)
    PROVE  /\ current[s].root \in Root
           /\ current[s] = [root |-> current[s].root, readOnly |-> current[s].readOnly]
           /\ current[s].readOnly \in BOOLEAN
BY DEF HasProject, Project

\* Between two calls, a lock of a session is that of its open project, or
\* stranded.
LEMMA IdleHolder ==
    ASSUME Inv, NEW s \in running, at[s] = "idle", NEW q \in Root \ leaked, lock[q] = s
    PROVE  Writes(s, q)
<1>1. HasOpen(s, q)
  BY DEF Inv, LiveLockIsInUse
<1>2. s \in Session
  BY DEF Inv, TypeOK
<1>3. current[s] # [root |-> q, readOnly |-> TRUE]
  BY DEF Inv, ReaderLeaksLock
<1> QED
  BY <1>1, <1>2, <1>3, CurrentProject DEF Inv, HasOpen, Writes

\* An open project is left, for another one or for none.
LEMMA LeavingStep ==
    ASSUME Inv, TypeOK', TargetIsRoot', NEW s \in Session, NEW r,
           (r \in Root /\ OpenReadOnly(s, r)) \/ CloseProject(s) \/ CommitDocumentOpen(s)
    PROVE  Inv'
<1> USE DEF Inv, TypeOK, TargetIsRoot, LockIsOwned, ActivatorHoldsLock, Activating,
            WriterHasLock, Replacing, DiscardedIsNotOpen, ReaderLeaksLock,
            LiveLockIsInUse, Goto, Return, SetCurrent
<1>1. /\ UNCHANGED <<running, at, target, bypassed>>
      /\ s \in running /\ at[s] = "idle"
      /\ leaked \subseteq leaked'
      /\ \A t \in Session \ {s} : current'[t] = current[t]
      /\ current'[s] \in {[root |-> r, readOnly |-> TRUE], Nothing, Document}
  BY DEF OpenReadOnly, CloseProject, CommitDocumentOpen, Calls
<1>2. \/ HasProject(s) /\ Release(s, current[s].root)
      \/ /\ UNCHANGED <<lock, owned>>
         /\ \A q \in Root : Writes(s, q) => q = r /\ (r \in owned[s] => r \in leaked')
  <2>1. \A q \in Root : Writes(s, q) => /\ HasProject(s)
                                        /\ current[s].root = q
                                        /\ ~current[s].readOnly
    BY OpenRecords DEF HasOpen, Writes
  <2> QED
    BY <2>1 DEF OpenReadOnly, CloseProject, CommitDocumentOpen, MustRelease
<1>3. /\ \A q \in Root : lock'[q] = lock[q] \/ (lock[q] = s /\ lock'[q] = Unlocked)
      /\ \A t \in Session : \A q \in owned[t] :
            q \in owned'[t] \/ (t = s /\ lock[q] = s /\ lock'[q] # s)
  <2>1. CASE HasProject(s) /\ Release(s, current[s].root)
    BY <2>1, CurrentProject, ReleaseEffect
  <2>2. CASE UNCHANGED <<lock, owned>>
    BY <2>2
  <2> QED
    BY <1>2, <2>1, <2>2
\* No lock of the session is left, but for those that are stranded.
<1>4. \A q \in Root \ leaked' : lock'[q] # s
  <2> SUFFICES ASSUME NEW q \in Root \ leaked', lock'[q] = s PROVE FALSE
    OBVIOUS
  <2>1. lock[q] = s
    BY <1>3, NothingAssumption
  <2>2. Writes(s, q) /\ q \in owned[s]
    BY <1>1, <2>1, IdleHolder
  <2>3. HasProject(s) /\ current[s].root = q
    BY <2>2, OpenRecords DEF HasOpen
  <2>4. CASE Release(s, current[s].root)
    BY <2>2, <2>3, <2>4, ReleaseEffect
  <2> QED
    BY <1>2, <2>2, <2>4
<1>5. Unlocked \notin running
  BY NothingAssumption
<1>6. LockIsOwned'
  BY <1>1, <1>3, <1>5
<1>7. ActivatorHoldsLock'
  BY <1>1, <1>3
<1>8. WriterHasLock'
  <2>1. \A q \in Root : ~Writes(s, q)'
    <3> SUFFICES ASSUME NEW q \in Root, current'[s] = [root |-> q, readOnly |-> FALSE]
                 PROVE  FALSE
      BY DEF Writes
    <3>1. current'[s] # Nothing /\ current'[s] # Document
      BY ProjectRecords
    <3> QED
      BY <1>1, <3>1
  <2> QED
    BY <1>1, <1>3, <2>1 DEF Writes
<1>9. DiscardedIsNotOpen'
  BY <1>1 DEF HasOpen, HasProject
<1>10. ReaderLeaksLock'
  BY <1>1, <1>3, <1>4, <1>5
<1>11. LiveLockIsInUse'
  BY <1>1, <1>3, <1>4, <1>5 DEF HasOpen, HasProject
<1> QED
  BY <1>6, <1>7, <1>8, <1>9, <1>10, <1>11

\* The open project is loaded again for writing.
LEMMA ReopeningStep ==
    ASSUME Inv, TypeOK', TargetIsRoot', NEW s \in Session, NEW r \in Root, Reopen(s, r)
    PROVE  Inv'
<1> USE DEF Inv, TypeOK, TargetIsRoot, LockIsOwned, ActivatorHoldsLock, Activating,
            WriterHasLock, Replacing, DiscardedIsNotOpen, ReaderLeaksLock,
            LiveLockIsInUse, SetCurrent
<1>1. /\ UNCHANGED <<running, at, target, lock, owned, leaked>>
      /\ s \in running /\ at[s] = "idle" /\ HasOpen(s, r)
      /\ bypassed \subseteq bypassed'
      /\ lock[r] = s \/ r \in bypassed'
      /\ \A t \in Session \ {s} : current'[t] = current[t]
      /\ current'[s] = [root |-> r, readOnly |-> FALSE]
  BY DEF Reopen, Calls
<1>2. \A q \in Root : /\ Writes(s, q)' => q = r
                      /\ HasOpen(s, q) => HasOpen(s, q)'
                      /\ current'[s] # [root |-> q, readOnly |-> TRUE]
  <2>1. [root |-> r, readOnly |-> FALSE] \in Project
    BY ProjectRecords
  <2>2. HasOpen(s, r)'
    BY <1>1, <2>1 DEF HasOpen, HasProject
  <2> SUFFICES ASSUME NEW q \in Root
               PROVE  /\ Writes(s, q)' => q = r
                      /\ HasOpen(s, q) => HasOpen(s, q)'
                      /\ current'[s] # [root |-> q, readOnly |-> TRUE]
    OBVIOUS
  <2>3. Writes(s, q)' => q = r
    BY <1>1 DEF Writes
  <2>4. HasOpen(s, q) => q = r
    BY <1>1 DEF HasOpen
  <2>5. current'[s].readOnly = FALSE
    BY <1>1
  <2>6. current'[s] # [root |-> q, readOnly |-> TRUE]
    BY <2>5
  <2> QED
    BY <2>2, <2>3, <2>4, <2>6
<1>3. WriterHasLock'
  BY <1>1, <1>2 DEF Writes
<1>4. ReaderLeaksLock'
  BY <1>1, <1>2
<1>5. LiveLockIsInUse'
  <2>1. \A t \in Session, q \in Root : HasOpen(t, q) => HasOpen(t, q)'
    BY <1>1, <1>2 DEF HasOpen, HasProject
  <2> QED
    BY <1>1, <2>1
<1>6. DiscardedIsNotOpen' /\ LockIsOwned' /\ ActivatorHoldsLock'
  BY <1>1 DEF HasOpen, HasProject
<1> QED
  BY <1>3, <1>4, <1>5, <1>6

\* The process is gone, and with it everything but its locks.
LEMMA EndingStep ==
    ASSUME Inv, TypeOK', TargetIsRoot', NEW s \in Session, End(s)
    PROVE  Inv'
<1> USE DEF Inv, TypeOK, TargetIsRoot, LockIsOwned, ActivatorHoldsLock, Activating,
            WriterHasLock, Replacing, DiscardedIsNotOpen, ReaderLeaksLock,
            LiveLockIsInUse, SetCurrent, Goto, Return, Writes, HasOpen, HasProject
<1> QED
  BY DEF End

\* The directory in hand becomes current; the lock of the one before goes.
LEMMA ActivatingStep ==
    ASSUME Inv, TypeOK', TargetIsRoot', NEW s \in Session, NEW r \in Root,
           r = target[s], Activate(s)
    PROVE  Inv'
<1> USE DEF Inv, TypeOK, TargetIsRoot, LockIsOwned, ActivatorHoldsLock, Activating,
            WriterHasLock, Replacing, DiscardedIsNotOpen, ReaderLeaksLock,
            LiveLockIsInUse, Goto, Return, SetCurrent
<1>1. /\ UNCHANGED <<running, bypassed, leaked>>
      /\ s \in running
      /\ \A t \in Session \ {s} : /\ current'[t] = current[t]
                                  /\ at'[t] = at[t] /\ target'[t] = target[t]
      /\ current'[s] = [root |-> r, readOnly |-> FALSE]
      /\ at'[s] = "idle"
      /\ at[s] \in {"opened", "created", "entered"}
  BY DEF Activate
<1>2. \/ MustRelease(s, r) /\ Release(s, current[s].root)
      \/ ~MustRelease(s, r) /\ UNCHANGED <<lock, owned>>
  BY DEF Activate
<1>3. /\ lock'[r] = lock[r]
      /\ \A q \in Root : lock'[q] = lock[q] \/ (lock[q] = s /\ lock'[q] = Unlocked)
      /\ \A t \in Session : \A q \in owned[t] :
            q \in owned'[t] \/ (t = s /\ lock[q] = s /\ lock'[q] # s)
  <2>1. CASE MustRelease(s, r) /\ Release(s, current[s].root)
    <3>1. current[s].root \in Root \ {r}
      BY <2>1, CurrentProject DEF MustRelease
    <3> QED
      BY <2>1, <3>1, ReleaseEffect
  <2>2. CASE UNCHANGED <<lock, owned>>
    BY <2>2
  <2> QED
    BY <1>2, <2>1, <2>2
<1>4. \A q \in Root \ leaked : q # r => lock'[q] # s
  <2> SUFFICES ASSUME NEW q \in Root \ leaked, q # r, lock'[q] = s PROVE FALSE
    OBVIOUS
  <2>1. lock[q] = s
    BY <1>3, NothingAssumption
  <2>2. HasOpen(s, q) /\ current[s] # [root |-> q, readOnly |-> TRUE]
    BY <1>1, <2>1
  <2>3. MustRelease(s, r) /\ current[s].root = q
    BY <2>2, CurrentProject DEF HasOpen, MustRelease
  <2>4. q \in owned[s]
    BY <1>1, <2>1
  <2>5. Release(s, q)
    BY <1>2, <2>3
  <2> QED
    BY <2>4, <2>5, ReleaseEffect
<1>5. Unlocked \notin running
  BY NothingAssumption
<1>6. \A q \in Root : /\ Writes(s, q)' => q = r
                      /\ current'[s] # [root |-> q, readOnly |-> TRUE]
                      /\ HasOpen(s, r)'
  <2>1. [root |-> r, readOnly |-> FALSE] \in Project
    BY ProjectRecords
  <2>2. HasOpen(s, r)'
    BY <1>1, <2>1 DEF HasOpen, HasProject
  <2>3. current'[s].readOnly = FALSE
    BY <1>1
  <2>4. \A q \in Root : Writes(s, q)' => q = r
    BY <1>1 DEF Writes
  <2>5. \A q \in Root : current'[s] # [root |-> q, readOnly |-> TRUE]
    BY <2>3
  <2> QED
    BY <2>2, <2>4, <2>5
<1>7. LockIsOwned'
  BY <1>1, <1>3, <1>5
<1>8. ActivatorHoldsLock'
  BY <1>1, <1>3
<1>9. WriterHasLock'
  BY <1>1, <1>3, <1>6 DEF Writes
<1>10. DiscardedIsNotOpen'
  BY <1>1 DEF HasOpen, HasProject
<1>11. ReaderLeaksLock'
  BY <1>1, <1>3, <1>5, <1>6
<1>12. LiveLockIsInUse'
  <2>1. \A t \in Session \ {s}, q \in Root : HasOpen(t, q) => HasOpen(t, q)'
    BY <1>1 DEF HasOpen, HasProject
  <2>2. ASSUME NEW q \in Root \ leaked, lock'[q] \in running, lock'[q] # s
        PROVE  lock[q] = lock'[q]
    BY <1>3, <1>5, <2>2
  <2>3. ASSUME NEW q \in Root \ leaked, lock'[q] = s
        PROVE  HasOpen(s, q)'
    BY <1>4, <1>6, <2>3
  <2> QED
    BY <1>1, <2>1, <2>2, <2>3
<1> QED
  BY <1>7, <1>8, <1>9, <1>10, <1>11, <1>12

\* The previous document cannot be closed: the lock is given back, but the
\* project may stay.
LEMMA FailingLateStep ==
    ASSUME Inv, TypeOK', TargetIsRoot', NEW s \in Session, NEW r \in Root,
           r = target[s], ActivateFailsLate(s)
    PROVE  Inv'
<1> USE DEF Inv, TypeOK, TargetIsRoot, LockIsOwned, ActivatorHoldsLock, Activating,
            WriterHasLock, Replacing, DiscardedIsNotOpen, ReaderLeaksLock,
            LiveLockIsInUse, Goto, Return, SetCurrent
<1>1. /\ UNCHANGED <<running, leaked>>
      /\ s \in running
      /\ bypassed \subseteq bypassed'
      /\ \A t \in Session \ {s} : /\ current'[t] = current[t]
                                  /\ at'[t] = at[t] /\ target'[t] = target[t]
      /\ at[s] \in {"opened", "created", "entered"}
      /\ current[s] = Document
  BY DEF ActivateFailsLate, GiveUp
<1>2. \/ /\ current'[s] = [root |-> r, readOnly |-> FALSE]
         /\ r \in bypassed' /\ at'[s] = "idle"
      \/ /\ current'[s] = Nothing
         /\ at'[s] \in {"idle", "discard"}
  BY DEF ActivateFailsLate, GiveUp
<1>3. /\ \A q \in Root : lock'[q] = lock[q] \/ (lock[q] = s /\ lock'[q] = Unlocked)
      /\ \A t \in Session : \A q \in owned[t] :
            q \in owned'[t] \/ (t = s /\ lock[q] = s /\ lock'[q] # s)
      /\ r \in owned[s] => lock'[r] # s
  BY ReleaseEffect DEF ActivateFailsLate
<1>4. Unlocked \notin running
  BY NothingAssumption
<1>5. \A q \in Root : ~HasOpen(s, q)
  BY <1>1, CurrentAssumption DEF HasOpen, HasProject
<1>6. \A q \in Root \ leaked : lock'[q] # s
  <2> SUFFICES ASSUME NEW q \in Root \ leaked, lock'[q] = s PROVE FALSE
    OBVIOUS
  <2>1. lock[q] = s
    BY <1>3, NothingAssumption
  <2>2. q = r /\ q \in owned[s]
    BY <1>1, <1>5, <2>1
  <2> QED
    BY <1>3, <2>2
<1>7. \A q \in Root : /\ Writes(s, q)' => q \in bypassed'
                      /\ current'[s] # [root |-> q, readOnly |-> TRUE]
  <2> SUFFICES ASSUME NEW q \in Root
               PROVE  /\ Writes(s, q)' => q \in bypassed'
                      /\ current'[s] # [root |-> q, readOnly |-> TRUE]
    OBVIOUS
  <2>1. CASE current'[s] = Nothing
    BY <2>1, ProjectRecords DEF Writes
  <2>2. CASE current'[s] = [root |-> r, readOnly |-> FALSE] /\ r \in bypassed'
    <3>1. current'[s].readOnly = FALSE
      BY <2>2
    <3> QED
      BY <2>2, <3>1 DEF Writes
  <2> QED
    BY <1>2, <2>1, <2>2
<1>8. LockIsOwned'
  BY <1>1, <1>3, <1>4
<1>9. ActivatorHoldsLock'
  BY <1>1, <1>2, <1>3
<1>10. WriterHasLock'
  BY <1>1, <1>3, <1>7 DEF Writes
<1>11. DiscardedIsNotOpen'
  BY <1>1, <1>2, CurrentAssumption DEF HasOpen, HasProject
<1>12. ReaderLeaksLock'
  BY <1>1, <1>3, <1>4, <1>7
<1>13. LiveLockIsInUse'
  <2>1. \A t \in Session \ {s}, q \in Root : HasOpen(t, q) => HasOpen(t, q)'
    BY <1>1 DEF HasOpen, HasProject
  <2> QED
    BY <1>1, <1>3, <1>4, <1>6, <2>1
<1> QED
  BY <1>8, <1>9, <1>10, <1>11, <1>12, <1>13

----------------------------------------------------------------------------
\* Every step keeps the inductive invariant.
LEMMA InvStep == Inv /\ [Next]_vars => Inv'
<1> SUFFICES ASSUME Inv, [Next]_vars PROVE Inv'
  OBVIOUS
<1>1. TypeOK' /\ TargetIsRoot'
  BY TypeStep DEF Inv
<1>2. CASE UNCHANGED vars
  BY <1>2 DEF vars, disk, Inv, TypeOK, TargetIsRoot, LockIsOwned, ActivatorHoldsLock,
     Activating, WriterHasLock, Replacing, Writes, DiscardedIsNotOpen,
     ReaderLeaksLock, LiveLockIsInUse, HasOpen, HasProject
<1>3. ASSUME NEW s \in Session, NEW r \in Root,
             OpenReadOnly(s, r) \/ Reopen(s, r) \/ CheckTarget(s, r) \/ CreateWorkspace(s, r)
      PROVE  Inv'
  BY <1>1, <1>3, LeavingStep, ReopeningStep, PreparingStep
<1>4. ASSUME NEW s \in Session, NEW r \in Root, AcquireOpened(s, r)
      PROVE  Inv'
  BY <1>1, <1>4, TakingStep DEF AcquireOpened
\* Calls that are under way work on a directory.
<1>5. ASSUME NEW s \in Session,
             \/ LoadFails(s) \/ Publish(s) \/ PublishFails(s) \/ AcquireCreated(s)
             \/ CreatedIsTaken(s) \/ Discard(s) \/ Remove(s) \/ Activate(s)
             \/ ActivateFails(s) \/ ActivateFailsLate(s)
      PROVE  Inv'
  <2>1. target[s] \in Root
    BY <1>5 DEF Inv, TargetIsRoot, LoadFails, Publish, PublishFails, AcquireCreated,
       CreatedIsTaken, Discard, Remove, Activate, ActivateFails, ActivateFailsLate,
       Activating, Working
  <2>2. CASE AcquireCreated(s)
    BY <1>1, <2>1, <2>2, TakingStep DEF AcquireCreated
  <2> QED
    BY <1>1, <1>5, <2>1, <2>2, GivingBackStep, TakingAwayStep, PreparingStep,
       ActivatingStep, FailingLateStep
<1>6. ASSUME NEW s \in Session, CloseProject(s) \/ CommitDocumentOpen(s)
      PROVE  Inv'
  BY <1>1, <1>6, LeavingStep
<1>7. ASSUME NEW s \in Session, End(s)
      PROVE  Inv'
  BY <1>1, <1>7, EndingStep
<1> QED
  BY <1>2, <1>3, <1>4, <1>5, <1>6, <1>7 DEF Next

----------------------------------------------------------------------------
\* Inv holds in every reachable state, for any number of applications and
\* directories.
THEOREM SessionsInvariant == Spec => []Inv
BY InvInit, InvStep, PTL DEF Spec

\* Every variable keeps its type, and a call that is under way has the
\* directory that the code passes around (ProjectService).
THEOREM TypeCorrect == Spec => []TypeOK
<1>1. Inv => TypeOK
  BY DEF Inv
<1> QED
  BY <1>1, SessionsInvariant, PTL

\* Except where a call went around the lock, a session that can save a
\* project is the one that its session.lock names.
THEOREM WritersHoldTheLock == Spec => []WriterHoldsLock
<1>1. Inv => WriterHoldsLock
  BY DEF Inv, WriterHasLock, Replacing, LockIsOwned, WriterHoldsLock
<1> QED
  BY <1>1, SessionsInvariant, PTL

\* A live lock is in use: closing a project frees it for everybody, unless
\* a read-only reopen kept the lock.
THEOREM LiveLocksAreInUse == Spec => []LiveLockIsInUse
<1>1. Inv => LiveLockIsInUse
  BY DEF Inv
<1> QED
  BY <1>1, SessionsInvariant, PTL

\* A session takes part in every step that removes its lock, except when its
\* directory is overwritten or removed, which counts as bypassed.
LEMMA LosingStep ==
    ASSUME Inv, Next, NEW r \in Root, NEW t \in running,
           lock[r] = t, lock'[r] # t, r \notin bypassed'
    PROVE  <<at[t], current[t]>> # <<at'[t], current'[t]>>
<1> USE DEF Inv, TypeOK, TargetIsRoot, Goto, Return, SetCurrent, Calls, Working, Activating
<1> t \in Session
  OBVIOUS
<1>1. ASSUME NEW s \in Session, NEW q \in Root, Release(s, q)
      PROVE  s = t /\ q = r
  BY <1>1, ReleaseEffect
<1>2. ASSUME NEW s \in Session, NEW q \in Root, Take(s, q), Available(q)
      PROVE  FALSE
  BY <1>2, TakeEffect DEF Available
<1>3. ASSUME NEW s \in Session, target[s] \in Root, TakeAway(s)
      PROVE  s = t
  BY <1>3, TakeAwayEffect
<1>4. ASSUME NEW s \in Session, NEW q \in Root, OpenReadOnly(s, q)
      PROVE  <<at[t], current[t]>> # <<at'[t], current'[t]>>
  <2>1. MustRelease(s, q) /\ Release(s, current[s].root)
    BY <1>4 DEF OpenReadOnly
  <2>2. s = t /\ current[s].root # q
    BY <1>1, <2>1, CurrentProject DEF MustRelease
  <2>3. current'[s] = [root |-> q, readOnly |-> TRUE]
    BY <1>4 DEF OpenReadOnly
  <2> QED
    BY <2>2, <2>3
<1>5. ASSUME NEW s \in Session, NEW q \in Root,
             \/ Reopen(s, q) \/ AcquireOpened(s, q) \/ CheckTarget(s, q)
             \/ CreateWorkspace(s, q) \/ PublishFails(s) \/ CreatedIsTaken(s) \/ End(s)
      PROVE  FALSE
  BY <1>2, <1>5 DEF Reopen, AcquireOpened, CheckTarget, CreateWorkspace, PublishFails,
     CreatedIsTaken, End
<1>6. ASSUME NEW s \in Session, AcquireCreated(s)
      PROVE  FALSE
  BY <1>2, <1>6 DEF AcquireCreated
<1>7. ASSUME NEW s \in Session, LoadFails(s) \/ ActivateFails(s) \/ ActivateFailsLate(s)
      PROVE  at'[t] # at[t]
  BY <1>1, <1>7 DEF LoadFails, ActivateFails, ActivateFailsLate, GiveUp
<1>8. ASSUME NEW s \in Session, Publish(s) \/ Remove(s)
      PROVE  at'[t] # at[t]
  BY <1>3, <1>8 DEF Publish, Remove
<1>9. ASSUME NEW s \in Session, Discard(s)
      PROVE  at'[t] # at[t]
  BY <1>1, <1>9 DEF Discard
<1>10. ASSUME NEW s \in Session, Activate(s)
       PROVE  at'[t] # at[t]
  <2>1. MustRelease(s, target[s]) /\ Release(s, current[s].root)
    BY <1>10 DEF Activate
  <2>2. s = t
    BY <1>1, <2>1, CurrentProject DEF MustRelease
  <2> QED
    BY <1>10, <2>2 DEF Activate
<1>11. ASSUME NEW s \in Session, CloseProject(s) \/ CommitDocumentOpen(s)
       PROVE  <<at[t], current[t]>> # <<at'[t], current'[t]>>
  <2>1. HasProject(s) /\ Release(s, current[s].root)
    BY <1>11 DEF CloseProject, CommitDocumentOpen
  <2>2. s = t /\ current[s] \in Project
    BY <1>1, <2>1, CurrentProject DEF HasProject
  <2>3. current'[s] \in {Nothing, Document}
    BY <1>11 DEF CloseProject, CommitDocumentOpen
  <2> QED
    BY <2>2, <2>3, CurrentAssumption
<1> QED
  BY <1>4, <1>5, <1>6, <1>7, <1>8, <1>9, <1>10, <1>11 DEF Next

\* A running application loses the lock of a directory only by a step of a call of
\* its own (release, close), except where the directory was overwritten or removed
\* after its lock had been checked (bypassed).
THEOREM LocksLostByOwnCalls == Spec => LockLostOnlyByOwnCall
<1> DEFINE Justified ==
      \A r \in Root : \A s \in running :
          lock[r] = s /\ lock'[r] # s /\ r \notin bypassed' =>
              <<at[s], current[s]>> # <<at'[s], current'[s]>>
<1>1. Inv /\ [Next]_vars => [Justified]_vars
  BY LosingStep
<1> QED
  BY <1>1, SessionsInvariant, PTL DEF Spec, LockLostOnlyByOwnCall
=============================================================================
