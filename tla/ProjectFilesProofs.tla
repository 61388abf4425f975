------------------------ MODULE ProjectFilesProofs ------------------------
(***************************************************************************)
(* Proofs about the files that several threads or programs share in the    *)
(* directory of a project: its lock (SessionLock, for every set of         *)
(* sessions, hosts and pids) and its NC files (NcExport, for every set of  *)
(* operations and file names, and all bounds).                             *)
(***************************************************************************)
EXTENDS SessionLock, NcExport, TLAPS

-----------------------------------------------------------------------------
(* SessionLock: the lock of a project.                                     *)

\* Every step keeps the types.
LEMMA TypeStep == TypeOK /\ [Next]_vars => TypeOK'
<1> SUFFICES ASSUME TypeOK, [Next]_vars PROVE TypeOK'
  OBVIOUS
<1> USE DEF TypeOK, Status, Step, Lock, Running, Goto
<1>1. CASE UNCHANGED vars
  BY <1>1 DEF vars
<1>2. ASSUME NEW s \in Session,
             \/ Start(s) \/ End(s) \/ FindNoLock(s) \/ ReadLock(s)
             \/ JudgeStale(s) \/ JudgeHeld(s) \/ IOFails(s)
      PROVE  TypeOK'
  BY <1>2, AbsentAssumption
     DEF Start, End, FindNoLock, ReadLock, JudgeStale, JudgeHeld, IOFails
<1>3. ASSUME NEW s \in Session, WriteLock(s) \/ WriteFails(s)
      PROVE  TypeOK'
  <2>1. WrittenBy(s) \in Lock \cup {Absent}
    BY DEF WrittenBy
  <2> QED
    BY <1>3, <2>1 DEF WriteLock, WriteFails
<1>4. ASSUME NEW s \in Session, UnlinkStale(s) \/ RemoveOwnLock(s)
      PROVE  TypeOK'
  BY <1>4 DEF UnlinkStale, RemoveOwnLock
<1>5. ASSUME NEW s \in Session, CreateExclusive(s)
      PROVE  TypeOK'
  <2>1. [owner |-> s, written |-> FALSE] \in Lock
    OBVIOUS
  <2>2. CASE lockFile = Absent
    BY <1>5, <2>1, <2>2 DEF CreateExclusive
  <2>3. CASE lockFile # Absent
    BY <1>5, <2>3 DEF CreateExclusive
  <2> QED
    BY <2>2, <2>3
<1>6. ASSUME NEW s \in Session, ReadOwnLock(s)
      PROVE  TypeOK'
  BY <1>6 DEF ReadOwnLock
<1> QED
  BY <1>1, <1>2, <1>3, <1>4, <1>5, <1>6 DEF Next

\* Every variable keeps its type: the steps of acquire(), release() and of
\* the processes only move between the states named in session_lock.py.
THEOREM TypeCorrect == Spec => []TypeOK
<1>1. Init => TypeOK
  BY DEF Init, TypeOK, Status, Step, Lock
<1> QED
  BY <1>1, TypeStep, PTL DEF Spec

----------------------------------------------------------------------------
(* The inductive invariant: only a running session is inside a call or     *)
(* owns the lock; whoever is named by the file, or was read from it, has   *)
(* been started; a stale verdict is about an ended session; and, until a   *)
(* contested unlink, the file names the one session that owns or writes it.*)

ActiveOnlyWhileRunning ==
    \A s \in Session : (pc[s] # "idle" \/ s \in owned) => status[s] = "running"

RemoverOwns ==
    \A s \in Session : pc[s] = "remove" => s \in owned

NamedSessionsStarted ==
    /\ lockFile # Absent => status[lockFile.owner] # "new"
    /\ \A s \in Session : pc[s] = "read" => status[seen[s]] # "new"

OwnHost ==
    \A s \in Session : pc[s] \in {"read", "stale"} => HostOf[seen[s]] = HostOf[s]

WriterCreated ==
    ~usurped => \A s \in Session :
                    pc[s] = "write" => lockFile = [owner |-> s, written |-> FALSE]

LockInv ==
    /\ TypeOK
    /\ ActiveOnlyWhileRunning
    /\ RemoverOwns
    /\ NamedSessionsStarted
    /\ OwnHost
    /\ StaleVerdictHolds
    /\ WriterCreated
    /\ OwnerHoldsLock

\* The inductive invariant holds initially.
LEMMA LockInvInit == Init => LockInv
BY DEF Init, LockInv, TypeOK, Status, Step, Lock, ActiveOnlyWhileRunning,
       RemoverOwns, NamedSessionsStarted, OwnHost, StaleVerdictHolds,
       WriterCreated, OwnerHoldsLock

\* The steps that leave the lock file alone.
LEMMA ProcessSteps ==
    ASSUME LockInv, TypeOK', NEW s \in Session,
           \/ Start(s) \/ End(s) \/ FindNoLock(s) \/ ReadLock(s)
           \/ JudgeHeld(s) \/ ReadOwnLock(s) \/ IOFails(s)
    PROVE  LockInv'
<1> USE DEF LockInv, TypeOK, Lock, Running, Goto, ActiveOnlyWhileRunning,
            RemoverOwns, NamedSessionsStarted, OwnHost, StaleVerdictHolds,
            WriterCreated, OwnerHoldsLock
<1>1. CASE Start(s)
  BY <1>1 DEF Start
<1>2. CASE End(s)
  BY <1>2 DEF End
<1>3. CASE FindNoLock(s)
  BY <1>3 DEF FindNoLock
<1>4. CASE ReadLock(s)
  BY <1>4 DEF ReadLock
<1>5. CASE JudgeHeld(s)
  BY <1>5 DEF JudgeHeld
<1>6. CASE ReadOwnLock(s)
  BY <1>6 DEF ReadOwnLock
<1>7. CASE IOFails(s)
  BY <1>7 DEF IOFails
<1> QED
  BY <1>1, <1>2, <1>3, <1>4, <1>5, <1>6, <1>7

\* The verdict: a session whose pid is not alive has ended, because it was
\* started before its lock could be read.
LEMMA VerdictStep ==
    ASSUME LockInv, TypeOK', NEW s \in Session, JudgeStale(s)
    PROVE  LockInv'
<1> USE DEF LockInv, TypeOK, Running, Goto
<1>1. status[seen[s]] = "ended"
  <2>1. seen[s] \in Session /\ HostOf[seen[s]] = HostOf[s]
    BY DEF JudgeStale, OwnHost
  <2>2. status[seen[s]] # "running"
    BY <2>1 DEF JudgeStale, PidAlive
  <2> QED
    BY <2>1, <2>2 DEF JudgeStale, NamedSessionsStarted, Status
<1>2. StaleVerdictHolds'
  BY <1>1 DEF JudgeStale, StaleVerdictHolds
<1> QED
  BY <1>2 DEF JudgeStale, ActiveOnlyWhileRunning, RemoverOwns, OwnHost,
     NamedSessionsStarted, WriterCreated, OwnerHoldsLock

\* The steps that change the lock file.
LEMMA FileSteps ==
    ASSUME LockInv, TypeOK', NEW s \in Session,
           \/ UnlinkStale(s) \/ CreateExclusive(s) \/ WriteLock(s)
           \/ RemoveOwnLock(s) \/ WriteFails(s)
    PROVE  LockInv'
<1> USE DEF LockInv, TypeOK, Lock, Running, Goto, ActiveOnlyWhileRunning,
            RemoverOwns, NamedSessionsStarted, OwnHost, StaleVerdictHolds,
            WriterCreated, OwnerHoldsLock
<1>1. CASE UnlinkStale(s)
  <2>1. ASSUME ~usurped' PROVE lockFile.owner = seen[s] /\ status[seen[s]] = "ended"
    BY <1>1, <2>1 DEF UnlinkStale
  <2>2. ASSUME ~usurped', NEW t \in Session, t \in owned \/ pc[t] = "write"
        PROVE  FALSE
    <3>1. ~usurped /\ lockFile.owner = t /\ status[t] = "running"
      BY <1>1, <2>2 DEF UnlinkStale
    <3> QED
      BY <2>1, <2>2, <3>1
  <2>3. pc[s] = "stale"
    BY <1>1 DEF UnlinkStale
  <2>4. WriterCreated' /\ OwnerHoldsLock'
    BY <1>1, <2>2, <2>3 DEF UnlinkStale
  <2>5. NamedSessionsStarted'
    BY <1>1 DEF UnlinkStale
  <2> QED
    BY <1>1, <2>4, <2>5 DEF UnlinkStale
<1>2. CASE CreateExclusive(s)
  <2>1. CASE lockFile = Absent
    <3>1. \A t \in Session, w \in BOOLEAN :
             [owner |-> t, written |-> w] \in [owner : Session, written : BOOLEAN]
      OBVIOUS
    <3>2. \A t \in Session, w \in BOOLEAN :
             lockFile # [owner |-> t, written |-> w]
      BY <2>1, <3>1, AbsentAssumption
    <3>3. ~usurped => \A t \in Session : t \notin owned /\ pc[t] # "write"
      BY <3>2
    <3> HIDE DEF Lock
    <3> QED
      BY <1>2, <2>1, <3>3 DEF CreateExclusive
  <2>2. CASE lockFile # Absent
    BY <1>2, <2>2 DEF CreateExclusive
  <2> QED
    BY <2>1, <2>2
\* Of the sessions that are writing or own the lock there is one at most.
<1>3. ASSUME pc[s] = "write" \/ s \in owned, ~usurped, NEW t \in Session, t # s
      PROVE  t \notin owned /\ pc[t] # "write"
  <2>1. lockFile.owner = s
    BY <1>3
  <2>2. t \in owned \/ pc[t] = "write" => lockFile.owner = t
    BY <1>3
  <2> QED
    BY <1>3, <2>1, <2>2
<1>4. CASE WriteLock(s)
  <2>1. ~usurped => lockFile' = [owner |-> s, written |-> TRUE]
    BY <1>4 DEF WriteLock, WrittenBy
  <2>2. WriterCreated' /\ OwnerHoldsLock'
    BY <1>3, <1>4, <2>1 DEF WriteLock
  <2>3. NamedSessionsStarted'
    BY <1>4 DEF WriteLock, WrittenBy
  <2> QED
    BY <1>4, <2>2, <2>3 DEF WriteLock
<1>5. CASE RemoveOwnLock(s)
  <2>1. WriterCreated' /\ OwnerHoldsLock'
    BY <1>3, <1>5 DEF RemoveOwnLock
  <2> QED
    BY <1>5, <2>1 DEF RemoveOwnLock
<1>6. CASE WriteFails(s)
  BY <1>6 DEF WriteFails, WrittenBy
<1> QED
  BY <1>1, <1>2, <1>4, <1>5, <1>6

\* Every step keeps it.
LEMMA LockInvStep == LockInv /\ [Next]_vars => LockInv'
<1> SUFFICES ASSUME LockInv, [Next]_vars PROVE LockInv'
  OBVIOUS
<1>1. CASE UNCHANGED vars
  BY <1>1 DEF vars, LockInv, TypeOK, ActiveOnlyWhileRunning, RemoverOwns,
     NamedSessionsStarted, OwnHost, StaleVerdictHolds, WriterCreated,
     OwnerHoldsLock
<1>2. CASE Next
  <2>1. TypeOK'
    BY TypeStep DEF LockInv
  <2> QED
    BY <1>2, <2>1, ProcessSteps, VerdictStep, FileSteps DEF Next
<1> QED
  BY <1>1, <1>2

\* LockInv holds in every reachable state, for any number of sessions.
THEOREM LockInvariant == Spec => []LockInv
BY LockInvInit, LockInvStep, PTL DEF Spec

\* Until an unlink removes a lock it had not judged, whoever believes it
\* owns the project is named by the complete lock file.
THEOREM OwnersHoldTheLock == Spec => []OwnerHoldsLock
<1>1. LockInv => OwnerHoldsLock
  BY DEF LockInv
<1> QED
  BY <1>1, LockInvariant, PTL

\* The verdict on which a stale lock is unlinked is stable.
THEOREM StaleVerdictsHold == Spec => []StaleVerdictHolds
<1>1. LockInv => StaleVerdictHolds
  BY DEF LockInv
<1> QED
  BY <1>1, LockInvariant, PTL

\* Exclusion: without a contested unlink two sessions never both own the
\* project.
THEOREM Exclusion == Spec => [](~usurped => OneWriter)
<1>1. LockInv => (~usurped => OneWriter)
  BY DEF LockInv, OwnerHoldsLock, OneWriter, TypeOK
<1> QED
  BY <1>1, LockInvariant, PTL

\* A lock that disappears is the remover's own, or one it has judged and whose
\* session has ended, unless the unlink is contested.
THEOREM RemovalsJustified == Spec => RemovalJustified
<1> DEFINE Justified ==
      lockFile # Absent /\ lockFile' = Absent =>
          \E s \in Session :
              /\ status[s] = "running" /\ pc[s] # pc'[s]
              /\ \/ Evicts(s)
                 \/ GivesUp(s)
                 \/ usurped' /\ (usurped \/ pc[s] = "stale")
<1>1. LockInv /\ [Next]_vars => [Justified]_vars
  <2> SUFFICES ASSUME LockInv, Next, lockFile # Absent, lockFile' = Absent
               PROVE  Justified
    OBVIOUS
  <2>1. PICK s \in Session : UnlinkStale(s) \/ RemoveOwnLock(s)
    <3>1. ASSUME NEW s \in Session,
                 \/ CreateExclusive(s) \/ WriteLock(s) \/ WriteFails(s)
          PROVE  FALSE
      <4>1. [owner |-> s, written |-> TRUE] # Absent
        <5>1. [owner |-> s, written |-> TRUE] \in [owner : Session, written : BOOLEAN]
          OBVIOUS
        <5> QED
          BY <5>1, AbsentAssumption
      <4>2. WrittenBy(s) # Absent
        BY <4>1 DEF WrittenBy
      <4> QED
        BY <3>1, <4>2 DEF CreateExclusive, WriteLock, WriteFails
    <3>2. ASSUME NEW s \in Session,
                 \/ Start(s) \/ End(s) \/ FindNoLock(s) \/ ReadLock(s)
                 \/ JudgeStale(s) \/ JudgeHeld(s) \/ ReadOwnLock(s) \/ IOFails(s)
          PROVE  FALSE
      BY <3>2 DEF Start, End, FindNoLock, ReadLock, JudgeStale, JudgeHeld,
         ReadOwnLock, IOFails
    <3> QED
      BY <3>1, <3>2 DEF Next
  <2>2. CASE UnlinkStale(s)
    <3>1. status[s] = "running" /\ pc[s] = "stale" /\ pc'[s] = "create"
      BY <2>2 DEF UnlinkStale, Running, Goto, LockInv, TypeOK
    <3>2. status[seen[s]] = "ended" /\ HostOf[seen[s]] = HostOf[s]
      BY <3>1 DEF LockInv, OwnHost, StaleVerdictHolds
    <3>3. lockFile.owner = seen[s] \/ usurped'
      BY <2>2 DEF UnlinkStale
    <3> QED
      BY <3>1, <3>2, <3>3 DEF Evicts
  <2>3. CASE RemoveOwnLock(s)
    <3>1. status[s] = "running" /\ pc[s] = "remove" /\ pc'[s] = "idle" /\ s \in owned
      BY <2>3 DEF RemoveOwnLock, Running, Goto, LockInv, TypeOK, RemoverOwns
    <3>2. ~usurped => lockFile.owner = s
      BY <3>1 DEF LockInv, OwnerHoldsLock
    <3>3. usurped => usurped'
      BY <2>3 DEF RemoveOwnLock, LockInv, TypeOK
    <3> QED
      BY <3>1, <3>2, <3>3 DEF GivesUp
  <2> QED
    BY <2>1, <2>2, <2>3
<1> QED
  BY <1>1, LockInvariant, PTL DEF Spec, RemovalJustified

----------------------------------------------------------------------------
(* The refinement: until an unlink is contested there is at most one owner *)
(* and it holds the abstract lock.                                         *)

\* Until a contested unlink an owner is the only one.
LEMMA OneOwner ==
    ASSUME LockInv, ~usurped, NEW s \in owned
    PROVE  owned = {s} /\ s \in Session
BY DEF LockInv, OwnerHoldsLock, TypeOK

\* Choosing from a singleton.
LEMMA ChooseOnly ==
    ASSUME NEW S, NEW s \in S
    PROVE  (CHOOSE t \in S : t \in {s}) = s
OBVIOUS

\* Until a contested unlink the holder of the abstract session is the owner.
LEMMA HolderOwns ==
    ASSUME LockInv, ~usurped, NEW s \in owned
    PROVE  Holder = s
BY OneOwner, ChooseOnly DEF Holder

\* A session that writes the lock file finds the abstract lock free.
LEMMA WriterAlone ==
    ASSUME LockInv, ~usurped, NEW s \in Session, pc[s] = "write"
    PROVE  owned = {}
<1> SUFFICES ASSUME NEW t \in owned PROVE FALSE
  OBVIOUS
<1>1. lockFile = [owner |-> s, written |-> FALSE]
  BY DEF LockInv, WriterCreated
<1>2. lockFile = [owner |-> t, written |-> TRUE]
  BY DEF LockInv, OwnerHoldsLock
<1> QED
  BY <1>1, <1>2

\* A step of the lock file is a step of the exclusive session, or none.
LEMMA LockStepMaps ==
    ASSUME LockInv, LockInv', [Next]_vars
    PROVE  [Exclusive!Next]_(Exclusive!vars)
<1> USE DEF Exclusive!Next, Exclusive!vars
<1>1. ASSUME UNCHANGED <<owned, usurped, Ended>>
      PROVE  UNCHANGED Exclusive!vars
  BY <1>1 DEF Holder
<1>2. CASE UNCHANGED vars
  BY <1>1, <1>2 DEF vars, Ended
<1>3. ASSUME NEW s \in Session,
             \/ FindNoLock(s) \/ ReadLock(s) \/ JudgeStale(s) \/ JudgeHeld(s)
             \/ CreateExclusive(s) \/ ReadOwnLock(s) \/ IOFails(s) \/ WriteFails(s)
      PROVE  UNCHANGED Exclusive!vars
  <2>1. UNCHANGED <<owned, usurped, status>>
    BY <1>3 DEF FindNoLock, ReadLock, JudgeStale, JudgeHeld, CreateExclusive,
       ReadOwnLock, IOFails, WriteFails
  <2> QED
    BY <1>1, <2>1 DEF Ended
<1>4. ASSUME NEW s \in Session, Start(s)
      PROVE  UNCHANGED Exclusive!vars
  <2>1. Ended' = Ended
    BY <1>4 DEF Start, Ended, LockInv, TypeOK
  <2> QED
    BY <1>1, <1>4, <2>1 DEF Start
<1>5. ASSUME NEW s \in Session, End(s)
      PROVE  Exclusive!Expire(s)
  <2>1. s \notin Ended /\ Ended' = Ended \cup {s}
    BY <1>5 DEF End, Ended, LockInv, TypeOK
  <2>2. owned' = owned \ {s} /\ usurped' = usurped
    BY <1>5 DEF End
  <2>3. CASE usurped \/ owned = {}
    BY <2>1, <2>2, <2>3, NobodyAssumption DEF Exclusive!Expire, Holder
  <2>4. CASE ~usurped /\ owned # {}
    <3>1. PICK t \in owned : TRUE
      BY <2>4
    <3>2. owned = {t} /\ Holder = t
      BY <2>4, <3>1, OneOwner, HolderOwns
    <3>3. CASE t = s
      BY <2>1, <2>2, <3>2, <3>3 DEF Exclusive!Expire, Holder
    <3>4. CASE t # s
      <4>1. owned' = owned
        BY <2>2, <3>2, <3>4
      <4>2. usurped' = usurped
        BY <2>2
      <4>3. Holder' = Holder
        BY <4>1, <4>2 DEF Holder
      <4> QED
        BY <2>1, <3>2, <3>4, <4>2, <4>3 DEF Exclusive!Expire
    <3> QED
      BY <3>3, <3>4
  <2> QED
    BY <2>3, <2>4
<1>6. ASSUME NEW s \in Session, UnlinkStale(s)
      PROVE  Exclusive!Void \/ UNCHANGED Exclusive!vars
  <2>1. UNCHANGED <<owned, status>> /\ (usurped => usurped')
    BY <1>6 DEF UnlinkStale
  <2>2. CASE usurped' = usurped
    BY <1>1, <2>1, <2>2 DEF Ended
  <2>3. CASE usurped' # usurped
    BY <2>1, <2>3 DEF Exclusive!Void, Holder, Ended, LockInv, TypeOK
  <2> QED
    BY <2>2, <2>3
<1>7. ASSUME NEW s \in Session, WriteLock(s)
      PROVE  Exclusive!Acquire(s) \/ UNCHANGED Exclusive!vars
  <2>1. UNCHANGED <<status, usurped>> /\ owned' = owned \cup {s}
    BY <1>7 DEF WriteLock
  <2>2. CASE usurped
    BY <2>1, <2>2 DEF Holder, Ended
  <2>3. CASE ~usurped
    <3>1. owned = {}
      BY <1>7, <2>3, WriterAlone DEF WriteLock, Running
    <3>2. Holder = Nobody
      BY <3>1 DEF Holder
    <3>3. Holder' = s
      BY <2>1, <2>3, <3>1, ChooseOnly DEF Holder
    <3>4. s \notin Ended /\ Ended' = Ended
      BY <1>7, <2>1 DEF WriteLock, Running, Ended
    <3> QED
      BY <2>1, <2>3, <3>2, <3>3, <3>4 DEF Exclusive!Acquire
  <2> QED
    BY <2>2, <2>3
<1>8. ASSUME NEW s \in Session, RemoveOwnLock(s)
      PROVE  Exclusive!Release(s) \/ UNCHANGED Exclusive!vars
  <2>1. /\ UNCHANGED status
        /\ owned' = owned \ {s}
        /\ s \in owned
        /\ usurped' = (usurped \/ lockFile.owner # s)
    BY <1>8 DEF RemoveOwnLock, Running, LockInv, RemoverOwns
  <2>2. CASE usurped
    BY <2>1, <2>2 DEF Holder, Ended, LockInv, TypeOK
  <2>3. CASE ~usurped
    <3>1. owned = {s} /\ Holder = s
      BY <2>1, <2>3, OneOwner, HolderOwns
    <3>2. usurped' = usurped
      <4>1. lockFile.owner = s
        BY <2>1, <2>3 DEF LockInv, OwnerHoldsLock
      <4> QED
        BY <2>1, <4>1 DEF LockInv, TypeOK
    <3>3. Holder' = Nobody
      BY <2>1, <3>1 DEF Holder
    <3>4. Ended' = Ended
      BY <2>1 DEF Ended
    <3> QED
      BY <2>3, <3>1, <3>2, <3>3, <3>4 DEF Exclusive!Release
  <2> QED
    BY <2>2, <2>3
<1> QED
  BY <1>2, <1>3, <1>4, <1>5, <1>6, <1>7, <1>8 DEF Next

\* session.lock implements an exclusive session: a session comes to hold the
\* project only when nobody does, until an unlink removes a lock that it had
\* not judged.
THEOREM LockImplementsExclusive == Spec => ImplementsExclusive
<1>1. Init => Exclusive!Init
  BY DEF Init, Exclusive!Init, Holder, Ended
<1> QED
  BY <1>1, LockStepMaps, LockInvariant, PTL
     DEF Spec, ImplementsExclusive, Exclusive!Spec

-----------------------------------------------------------------------------
(* NcExport: the managed NC files.                                         *)

\* No two entries of a manifest have one file name.
NamedOnce(m) ==
    \A a, b \in Artifact : m[a] # "none" /\ m[b] # "none" /\ a.name = b.name => a = b

Manifests == {m \in [Artifact -> ArtifactStatus] : NamedOnce(m)}
Sidecars  == [Artifact -> ArtifactStatus]
Outputs   == [Names -> Artifact \cup {NoFile}]
Snapshots == [manifest : Manifests, sidecar : Sidecars, output : Outputs]

\* A file and what it is to hold.
FileWrites ==
    [file : {"output"}, key : Names, val : Artifact \cup {NoFile}]
        \cup [file : {"sidecar"}, key : Artifact, val : ArtifactStatus]
        \cup [file : {"manifest"}, key : {NoFile}, val : Manifests]

StoreOps ==
    [pc : BusyPc \cup {"registry", "load", "succeed", "register"}, kind : Kind, op : Ops,
     new : Artifact \cup {NoFile}, policy : Policy \cup {""}, latest : BOOLEAN,
     want : Manifests \cup {NoFile}, was : Snapshots \cup {NoFile},
     todo : SUBSET FileWrites, done : SUBSET FileWrites, garbage : SUBSET FileWrites]

\* What a store operation has at each of its steps.
Proper(t, x) ==
    /\ x.pc \in BusyPc => x.want \in Manifests /\ x.was \in Snapshots
    /\ x.kind = "publish" => t = "ui" /\ x.new \in Artifact /\ x.new.op = x.op
    /\ x.pc = "keep" => x.kind = "publish"
    /\ x.pc \in {"registry", "load", "keep"} => x.done = {}
    /\ x.pc = "registry" => x.kind = "mark"

NcScalarsTyped ==
    /\ toolpath \in [Ops -> 0 .. MaxToolpaths] /\ saved \in [Ops -> 0 .. MaxToolpaths]
    /\ posted \subseteq Ops /\ missed \subseteq Ops
    /\ results \in [Ops -> Artifact \cup {NoFile}]
    /\ fresh \in 0 .. MaxToolpaths /\ used \in 0 .. MaxUsed
    /\ damaged \in BOOLEAN

NcFilesTyped == manifest \in Manifests /\ sidecar \in Sidecars /\ output \in Outputs

NcThreadsTyped ==
    /\ thread \in [Thread -> StoreOps \cup {Idle}]
    /\ \A t \in Thread : thread[t] # Idle => Proper(t, thread[t])

NcTypes == NcScalarsTyped /\ NcFilesTyped /\ NcThreadsTyped

\* A thread that is going to make the files of o stale, or fails to.
Marks(t, o) ==
    thread[t].pc \in {"registry", "load", "write", "undo"}
        /\ thread[t].kind = "mark" /\ thread[t].op = o

\* An export that has still to compare a with the toolpath.
Publishes(t, a) ==
    thread[t].pc \in {"write", "remove", "undo", "succeed"}
        /\ thread[t].kind = "publish" /\ thread[t].new = a

\* a may be current: it was made from the toolpath, or somebody sees to it.
Attended(a, T) ==
    \/ a.src = toolpath[a.op]
    \/ a.op \in missed
    \/ \E t \in Thread : Marks(t, a.op)
    \/ \E t \in T : Publishes(t, a)

Settled(m, out, T) ==
    \A a \in Artifact : m[a] = "current" /\ out[a.name] = a => Attended(a, T)

\* The files between store operations.
AtRest == Readable /\ Settled(manifest, output, Thread)

\* The three kinds of writes an operation still has.
Planned(x) ==
    \A w \in x.todo :
        \/ x.kind = "publish" /\ w = WriteOutput(x.new.name, x.new)
        \/ \E a \in Entries(x.want) : w = WriteSidecar(a, x.want[a])
        \/ w = WriteManifest(x.want)

\* What is kept are the old files.
Kept(x) ==
    \A w \in x.done :
        \/ x.kind = "publish" /\ w.file = "output" /\ w.key = x.new.name
             /\ w.val \in {x.was.output[w.key], NoFile}
        \/ \E a \in Artifact : w = WriteSidecar(a, x.was.sidecar[a])
        \/ w = WriteManifest(x.was.manifest)

\* The new manifest has no other current artifacts than the old one.
Grown(x) ==
    \A a \in Artifact : x.want[a] = "current" =>
        \/ x.kind = "publish" /\ a = x.new
        \/ /\ x.was.manifest[a] = "current"
           /\ x.kind \in {"publish", "mark"} => a.op # x.op
           /\ x.kind = "publish" => a.name # x.new.name

\* What is removed is not in the new manifest.
Superfluous(x) ==
    /\ \A w \in x.garbage :
          \/ \E a \in Artifact : w = WriteSidecar(a, "none") /\ x.want[a] = "none"
          \/ x.kind # "publish" /\ \E n \in Names : w = WriteOutput(n, NoFile)
    /\ x.kind = "publish" => \A v, w \in x.garbage : v = w

\* A file that has still to be written is what it was.
Untouched(x) ==
    /\ \A a \in Artifact :
          (\E w \in x.todo : w.file = "sidecar" /\ w.key = a) => sidecar[a] = x.was.sidecar[a]
    /\ (\E w \in x.todo : w.file = "manifest") => manifest = x.was.manifest

\* What is not as the new manifest has it is still to be written.
Ahead(x) ==
    /\ \A a \in Entries(x.want) :
          sidecar[a] = x.want[a] \/ WriteSidecar(a, x.want[a]) \in x.todo
    /\ manifest = x.want \/ WriteManifest(x.want) \in x.todo

\* What is not as it was can be restored.
Restorable(x) ==
    /\ \A a \in Artifact :
          sidecar[a] = x.was.sidecar[a] \/ WriteSidecar(a, x.was.sidecar[a]) \in x.done
    /\ manifest = x.was.manifest \/ WriteManifest(x.was.manifest) \in x.done
    /\ x.kind = "publish" =>
          \/ output[x.new.name] \in {x.was.output[x.new.name], NoFile}
          \/ \E v \in Artifact \cup {NoFile} : WriteOutput(x.new.name, v) \in x.done

\* An export has kept all the files it writes.
AllKept(x) ==
    \A w \in x.todo :
        \E v \in x.done : v.file = w.file /\ v.key = w.key

\* An export writes one output; others may get lost.
OutputsOf(x) ==
    \A n \in Names :
        \/ output[n] \in {x.was.output[n], NoFile}
        \/ x.kind = "publish" /\ x.pc # "keep" /\ n = x.new.name /\ output[n] = x.new

\* The files as they were when the operation began were at rest.
WasAtRest(t, x) ==
    /\ \A a \in Artifact : x.was.manifest[a] # "none" => x.was.sidecar[a] = x.was.manifest[a]
    /\ IF x.kind = "publish" THEN Settled(x.was.manifest, x.was.output, Thread \ {t})
       ELSE Settled(x.was.manifest, output, Thread \ {t})

\* The files while a store operation works on them.
AtWork(t, x) ==
    /\ Planned(x) /\ Kept(x) /\ Grown(x) /\ Superfluous(x)
    /\ manifest \in {x.was.manifest, x.want}
    /\ x.kind = "publish" => OutputsOf(x)
    /\ x.pc = "keep" => manifest = x.was.manifest /\ sidecar = x.was.sidecar
    /\ x.pc \in {"keep", "write"} => Untouched(x) /\ Ahead(x)
    /\ x.pc = "write" /\ x.kind = "publish" => AllKept(x)
    /\ x.pc = "remove" =>
          /\ manifest = x.want
          /\ \A a \in Entries(x.want) : sidecar[a] = x.want[a]
    /\ x.pc = "remove" /\ x.kind # "publish" => Settled(manifest, output, Thread)
    /\ x.pc # "remove" \/ x.kind = "publish" => WasAtRest(t, x)
    /\ \/ x.pc \in {"write", "undo"}
       \/ x.pc = "remove" /\ x.kind = "publish" /\ x.garbage # {}
       => Restorable(x)

\* As long as nothing is damaged, one thread at a time is at work, and the
\* files are at rest otherwise.
NcOrder ==
    ~damaged =>
        /\ \A t, u \in Thread : Busy(t) /\ Busy(u) => t = u
        /\ (\A t \in Thread : ~Busy(t)) => AtRest
        /\ \A t \in Thread : Busy(t) => AtWork(t, thread[t])

NcInv == NcTypes /\ NcOrder

\* The bounds are numbers.
LEMMA NcBounds == MaxToolpaths \in Nat /\ MaxUsed \in Nat
  BY BoundsAssumption

\* The number of requests stays within its bound.
LEMMA RequestInBound == used \in 0 .. MaxUsed /\ Request => used' \in 0 .. MaxUsed
  BY NcBounds DEF Request

\* An operation under way is not the idle thread.
LEMMA StoreOpNotIdle == \A x \in StoreOps : x # Idle /\ x.pc # "idle"
<1> SUFFICES ASSUME NEW x \in StoreOps PROVE x # Idle /\ x.pc # "idle"  OBVIOUS
<1>1. x.pc # "idle"  BY DEF StoreOps, BusyPc
<1>2. Idle.pc = "idle"  BY DEF Idle
<1> QED  BY <1>1, <1>2

\* The manifests that staling makes are manifests.
LEMMA StaledIsManifest ==
    ASSUME manifest \in Manifests, NEW G
    PROVE  Staled(G) \in Manifests
<1>1. Staled(G) \in [Artifact -> ArtifactStatus]
  BY DEF Staled, Manifests, ArtifactStatus
<1>2. \A a \in Artifact : Staled(G)[a] # "none" => manifest[a] # "none"
  BY DEF Staled
<1> QED  BY <1>1, <1>2 DEF Manifests, NamedOnce

\* So is the one that inspection makes.
LEMMA InspectedIsManifest ==
    ASSUME manifest \in Manifests
    PROVE  Inspected \in Manifests
<1>1. Inspected \in [Artifact -> ArtifactStatus]
  BY DEF Inspected, Manifests, ArtifactStatus
<1>2. \A a \in Artifact : Inspected[a] # "none" => manifest[a] # "none"
  BY DEF Inspected
<1> QED  BY <1>1, <1>2 DEF Manifests, NamedOnce

\* So is the one with a new artifact: the older entries of its file name go.
LEMMA WithEntryIsManifest ==
    ASSUME manifest \in Manifests, NEW new \in Artifact
    PROVE  WithEntry(new) \in Manifests
<1>1. Staled(Of(new.op)) \in Manifests  BY StaledIsManifest
<1>2. WithEntry(new) \in [Artifact -> ArtifactStatus]
  BY <1>1 DEF WithEntry, Manifests, ArtifactStatus
<1>3. \A a \in Artifact : WithEntry(new)[a] # "none" =>
          a = new \/ (a.name # new.name /\ Staled(Of(new.op))[a] # "none")
  BY DEF WithEntry
<1>4. NamedOnce(WithEntry(new))  BY <1>1, <1>3 DEF NamedOnce, Manifests
<1> QED  BY <1>2, <1>4 DEF Manifests

\* What an operation wants the manifest to be is a manifest.
LEMMA CandidateIsManifest ==
    ASSUME manifest \in Manifests, NEW x \in StoreOps,
           x.kind = "publish" => x.new \in Artifact
    PROVE  Candidate(x) \in Manifests
<1>1. CASE x.kind = "publish"
  BY <1>1, WithEntryIsManifest DEF Candidate
<1>2. CASE x.kind = "mark"
  BY <1>2, StaledIsManifest DEF Candidate
<1>3. CASE x.kind = "reconcile"
  BY <1>3, StaledIsManifest DEF Candidate
<1>4. CASE x.kind = "clear"
  <2> DEFINE M == [a \in Artifact |-> IF a.op = x.op THEN "none" ELSE manifest[a]]
  <2>1. Candidate(x) = M  BY <1>4 DEF Candidate
  <2>2. M \in [Artifact -> ArtifactStatus]  BY DEF Manifests, ArtifactStatus
  <2>3. NamedOnce(M)  BY DEF NamedOnce, Manifests
  <2> QED  BY <2>1, <2>2, <2>3 DEF Manifests
<1>5. CASE x.kind = "flush"
  BY <1>5, InspectedIsManifest DEF Candidate
<1> QED  BY <1>1, <1>2, <1>3, <1>4, <1>5 DEF StoreOps, Kind

\* The planned writes are writes of files.
LEMMA PlanIsFileWrites ==
    ASSUME NEW x \in StoreOps, NEW m \in Manifests,
           x.kind = "publish" => x.new \in Artifact /\ m[x.new] \in ArtifactStatus
    PROVE  Plan(x, m) \subseteq FileWrites
<1>1. \A a \in Artifact : WriteSidecar(a, m[a]) \in FileWrites
  BY DEF WriteSidecar, FileWrites, Manifests
<1>2. WriteManifest(m) \in FileWrites  BY DEF WriteManifest, FileWrites
<1>3. x.kind = "publish" => WriteOutput(x.new.name, x.new) \in FileWrites
  BY DEF WriteOutput, FileWrites, Artifact
<1>4. Entries(m) \subseteq Artifact  BY DEF Entries
<1>5. \A w \in Plan(x, m) :
          \/ \E a \in Artifact : w = WriteSidecar(a, m[a])
          \/ w = WriteManifest(m)
          \/ x.kind = "publish" /\ w = WriteOutput(x.new.name, x.new)
  BY <1>4 DEF Plan
<1> QED  BY <1>1, <1>2, <1>3, <1>5

\* So are the removals.
LEMMA GarbageIsFileWrites ==
    ASSUME NEW x \in StoreOps
    PROVE  Garbage(x) \subseteq FileWrites
<1>1. \A a \in Artifact : WriteSidecar(a, "none") \in FileWrites
                              /\ WriteOutput(a.name, NoFile) \in FileWrites
  BY DEF WriteSidecar, WriteOutput, FileWrites, ArtifactStatus, Artifact
<1>2. \A w \in Garbage(x) :
          \E a \in Artifact : w \in {WriteSidecar(a, "none"), WriteOutput(a.name, NoFile)}
  <2>1. CASE x.kind = "publish"
    BY <2>1 DEF Garbage, Entries
  <2>2. CASE x.kind = "clear"
    BY <2>2 DEF Garbage, Entries
  <2>3. CASE x.kind \notin {"publish", "clear"}
    BY <2>3 DEF Garbage
  <2> QED  BY <2>1, <2>2, <2>3
<1> QED  BY <1>1, <1>2

\* A file as it is.
LEMMA OldIsFileWrite ==
    ASSUME NcFilesTyped, NEW w \in FileWrites
    PROVE  /\ Old(w) \in FileWrites
           /\ Old(w).file = w.file /\ Old(w).key = w.key
<1>1. CASE w.file = "output"
  BY <1>1 DEF Old, WriteOutput, FileWrites, NcFilesTyped, Outputs
<1>2. CASE w.file = "sidecar"
  BY <1>2 DEF Old, WriteSidecar, FileWrites, NcFilesTyped, Sidecars
<1>3. CASE w.file = "manifest"
  BY <1>3 DEF Old, WriteManifest, FileWrites, NcFilesTyped
<1> QED  BY <1>1, <1>2, <1>3 DEF FileWrites

\* Writing a file keeps the types of the files.
LEMMA PutTyped ==
    ASSUME NcFilesTyped, NEW w \in FileWrites, Put(w)
    PROVE  NcFilesTyped'
<1>1. CASE w.file = "output"
  BY <1>1 DEF Put, FileWrites, NcFilesTyped, Outputs
<1>2. CASE w.file = "sidecar"
  BY <1>2 DEF Put, FileWrites, NcFilesTyped, Sidecars
<1>3. CASE w.file = "manifest"
  BY <1>3 DEF Put, FileWrites, NcFilesTyped
<1> QED  BY <1>1, <1>2, <1>3 DEF FileWrites

\* Typed states are of the types the run checks.
LEMMA NcTypesSuffice == NcTypes => NcTypeOK
<1> SUFFICES ASSUME NcTypes PROVE NcTypeOK  OBVIOUS
<1> USE DEF NcTypes, NcScalarsTyped, NcFilesTyped, NcThreadsTyped
<1>1. /\ manifest \in [Artifact -> ArtifactStatus] /\ sidecar \in [Artifact -> ArtifactStatus]
      /\ output \in [Names -> Artifact \cup {NoFile}]
  BY DEF Manifests, Sidecars, Outputs
<1>2. \A a, b \in Artifact :
          manifest[a] = "current" /\ manifest[b] = "current" /\ a.name = b.name => a = b
  BY DEF Manifests, NamedOnce
<1>3. \A t \in Thread : thread[t] # Idle =>
          /\ thread[t].kind \in Kind
          /\ thread[t].pc \in {"registry", "load", "keep", "write", "remove", "undo",
                               "succeed", "register"}
  <2> TAKE t \in Thread
  <2>1. thread[t] # Idle => thread[t] \in StoreOps  OBVIOUS
  <2> QED  BY <2>1 DEF StoreOps, BusyPc
<1> QED  BY <1>1, <1>2, <1>3 DEF NcTypeOK

\* The initial states are typed.
LEMMA NcTypesInit == NcInit => NcTypes
<1> SUFFICES ASSUME NcInit PROVE NcTypes  OBVIOUS
<1>1. NcScalarsTyped  
  <2>1. 0 \in 0 .. MaxToolpaths /\ 0 \in 0 .. MaxUsed  BY NcBounds
  <2> QED  BY <2>1 DEF NcInit, NcScalarsTyped
<1>2. NcFilesTyped
  BY DEF NcInit, NcFilesTyped, Manifests, NamedOnce, Sidecars, Outputs, ArtifactStatus
<1>3. NcThreadsTyped  BY DEF NcInit, NcThreadsTyped
<1> QED  BY <1>1, <1>2, <1>3 DEF NcTypes

\* A thread that goes on with a proper operation, or ends one.
LEMMA ThreadGoesOn ==
    ASSUME NcThreadsTyped, NEW t \in Thread, NEW y,
           thread' = [thread EXCEPT ![t] = y],
           y = Idle \/ (y \in StoreOps /\ Proper(t, y))
    PROVE  NcThreadsTyped'
<1>1. thread' \in [Thread -> StoreOps \cup {Idle}]  BY DEF NcThreadsTyped
<1>2. ASSUME NEW u \in Thread, thread'[u] # Idle PROVE Proper(u, thread'[u])
  <2>1. CASE u = t
    <3>1. thread'[u] = y  BY <2>1 DEF NcThreadsTyped
    <3> QED  BY <1>2, <2>1, <3>1
  <2>2. CASE u # t
    <3>1. thread'[u] = thread[u]  BY <2>2 DEF NcThreadsTyped
    <3> QED  BY <1>2, <3>1 DEF NcThreadsTyped
  <2> QED  BY <2>1, <2>2
<1>3. \A u \in Thread : thread'[u] # Idle => Proper(u, thread'[u])  BY <1>2
<1> QED  BY <1>1, <1>3 DEF NcThreadsTyped

\* An operation that begins is proper.
LEMMA BegunTyped ==
    ASSUME NcThreadsTyped, NEW t \in Thread, NEW kind \in Kind, NEW op \in Ops,
           NEW new \in Artifact \cup {NoFile}, NEW policy \in Policy \cup {""},
           kind = "publish" => t = "ui" /\ new \in Artifact /\ new.op = op,
           Begin(t, kind, op, new, policy)
    PROVE  NcThreadsTyped'
<1> DEFINE y == [pc |-> IF kind = "mark" THEN "registry" ELSE "load", kind |-> kind,
                 op |-> op, new |-> new, policy |-> policy, latest |-> TRUE,
                 want |-> NoFile, was |-> NoFile, todo |-> {}, done |-> {}, garbage |-> {}]
<1>1. thread' = [thread EXCEPT ![t] = y]  BY DEF Begin
<1>2. y \in StoreOps  BY DEF StoreOps
<1>3. Proper(t, y)  BY DEF Proper, BusyPc
<1> HIDE DEF y
<1> QED  BY <1>1, <1>2, <1>3, ThreadGoesOn

\* Every request keeps the types.
LEMMA RequestTyped ==
    ASSUME NcTypes,
           \/ \E o \in Ops : Post(o) \/ Clear(o) \/ Calculate(o)
           \/ \E o \in Ops, n \in Names, p \in Policy : Export(o, n, p)
           \/ Edit \/ Save \/ Restart
           \/ \E n \in Names : Lose(n)
    PROVE  NcTypes'
<1>1. ASSUME NEW o \in Ops, Post(o) PROVE NcTypes'
  <2>1. NcScalarsTyped'
    BY <1>1 DEF Post, history, files, NcTypes, NcScalarsTyped
  <2> QED  BY <1>1, <2>1 DEF Post, files, NcTypes, NcFilesTyped, NcThreadsTyped
<1>2. ASSUME NEW o \in Ops, Clear(o) PROVE NcTypes'
  <2>1. NcScalarsTyped'
    BY <1>2, RequestInBound DEF Clear, project, NcTypes, NcScalarsTyped
  <2>2. NcFilesTyped'  BY <1>2 DEF Clear, files, NcTypes, NcFilesTyped
  <2>3. NcThreadsTyped'
    <3>1. Begin("ui", "clear", o, NoFile, "")  BY <1>2 DEF Clear
    <3> QED  BY <3>1, BegunTyped DEF Thread, Kind, NcTypes
  <2> QED  BY <2>1, <2>2, <2>3 DEF NcTypes
<1>3. ASSUME NEW o \in Ops, Calculate(o) PROVE NcTypes'
  <2>1. NcScalarsTyped'
    <3>1. fresh' \in 0 .. MaxToolpaths /\ fresh' = fresh + 1
      <4>1. fresh < MaxToolpaths /\ fresh' = fresh + 1  BY <1>3 DEF Calculate
      <4>2. fresh \in 0 .. MaxToolpaths  BY DEF NcTypes, NcScalarsTyped
      <4> QED  BY <4>1, <4>2, NcBounds
    <3>2. toolpath' \in [Ops -> 0 .. MaxToolpaths]
      BY <1>3, <3>1 DEF Calculate, NcTypes, NcScalarsTyped
    <3> QED  BY <1>3, <3>1, <3>2, RequestInBound DEF Calculate, NcTypes, NcScalarsTyped
  <2>2. NcFilesTyped'  BY <1>3 DEF Calculate, files, NcTypes, NcFilesTyped
  <2>3. NcThreadsTyped'
    <3>1. Begin("worker", "mark", o, NoFile, "")  BY <1>3 DEF Calculate
    <3> QED  BY <3>1, BegunTyped DEF Thread, Kind, NcTypes
  <2> QED  BY <2>1, <2>2, <2>3 DEF NcTypes
<1>4. ASSUME NEW o \in Ops, NEW n \in Names, NEW p \in Policy, Export(o, n, p) PROVE NcTypes'
  <2> DEFINE new == [op |-> o, src |-> toolpath[o], name |-> n]
  <2>1. NcScalarsTyped'
    BY <1>4, RequestInBound DEF Export, project, NcTypes, NcScalarsTyped
  <2>2. NcFilesTyped'  BY <1>4 DEF Export, files, NcTypes, NcFilesTyped
  <2>3. NcThreadsTyped'
    <3>1. Begin("ui", "publish", o, new, p)  BY <1>4 DEF Export
    <3>2. new \in Artifact /\ new.op = o
      BY DEF Artifact, NcTypes, NcScalarsTyped
    <3> HIDE DEF new
    <3> QED  BY <3>1, <3>2, BegunTyped DEF Thread, Kind, NcTypes
  <2> QED  BY <2>1, <2>2, <2>3 DEF NcTypes
<1>5. ASSUME Edit PROVE NcTypes'
  <2>1. NcScalarsTyped'
    BY <1>5, RequestInBound DEF Edit, NcTypes, NcScalarsTyped
  <2>2. NcFilesTyped'  BY <1>5 DEF Edit, files, NcTypes, NcFilesTyped
  <2>3. NcThreadsTyped'
    <3>1. PICK o \in Ops : Begin("ui", "reconcile", o, NoFile, "")  BY <1>5 DEF Edit
    <3> QED  BY <3>1, BegunTyped DEF Thread, Kind, NcTypes
  <2> QED  BY <2>1, <2>2, <2>3 DEF NcTypes
<1>6. ASSUME Save PROVE NcTypes'
  <2>1. NcScalarsTyped'
    BY <1>6, RequestInBound DEF Save, project, NcTypes, NcScalarsTyped
  <2>2. NcFilesTyped'  BY <1>6 DEF Save, files, NcTypes, NcFilesTyped
  <2>3. NcThreadsTyped'
    <3>1. PICK o \in Ops : Begin("save", "flush", o, NoFile, "")  BY <1>6 DEF Save
    <3> QED  BY <3>1, BegunTyped DEF Thread, Kind, NcTypes
  <2> QED  BY <2>1, <2>2, <2>3 DEF NcTypes
<1>7. ASSUME Restart PROVE NcTypes'
  <2>1. NcScalarsTyped'
    BY <1>7, RequestInBound DEF Restart, NcTypes, NcScalarsTyped
  <2>2. NcFilesTyped'  BY <1>7 DEF Restart, files, NcTypes, NcFilesTyped
  <2>3. NcThreadsTyped'  BY <1>7 DEF Restart, NcThreadsTyped
  <2> QED  BY <2>1, <2>2, <2>3 DEF NcTypes
<1>8. ASSUME NEW n \in Names, Lose(n) PROVE NcTypes'
  <2>1. NcScalarsTyped'
    BY <1>8, RequestInBound DEF Lose, project, NcTypes, NcScalarsTyped
  <2>2. NcFilesTyped'  BY <1>8 DEF Lose, NcTypes, NcFilesTyped, Outputs
  <2> QED  BY <1>8, <2>1, <2>2 DEF Lose, NcTypes, NcThreadsTyped
<1> QED  BY <1>1, <1>2, <1>3, <1>4, <1>5, <1>6, <1>7, <1>8

\* Every step of a store operation has an operation under way.
LEMMA StepHasOp ==
    ASSUME NcThreadsTyped, NEW t \in Thread, thread[t].pc # "idle"
    PROVE  thread[t] \in StoreOps /\ thread[t] # Idle /\ Proper(t, thread[t])
<1>1. thread[t] # Idle  BY DEF Idle
<1> QED  BY <1>1 DEF NcThreadsTyped

\* Two records of one store operation; only the token may differ.
SameOp(y, x) ==
    /\ y.kind = x.kind /\ y.op = x.op /\ y.new = x.new
    /\ y.want = x.want /\ y.was = x.was
    /\ y.todo = x.todo /\ y.done = x.done /\ y.garbage = x.garbage

\* An invalidation has left the registry; an export has lost its token at most.
LEMMA MarkRegistryEffect ==
    ASSUME NcThreadsTyped, NEW t \in Thread, MarkRegistry(t)
    PROVE  /\ thread' \in [Thread -> StoreOps \cup {Idle}]
           /\ \A u \in Thread :
                 /\ thread[u] = Idle => thread'[u] = Idle
                 /\ thread[u] # Idle =>
                       /\ thread'[u] \in StoreOps /\ SameOp(thread'[u], thread[u])
                       /\ thread'[u].pc = IF u = t THEN "load" ELSE thread[u].pc
<1>0. thread[t].pc = "registry"  BY DEF MarkRegistry
<1>1. thread[t] \in StoreOps /\ thread[t] # Idle  BY <1>0, StepHasOp
<1>2. ASSUME NEW u \in Thread
      PROVE  /\ thread[u] = Idle => thread'[u] = Idle
             /\ thread[u] # Idle =>
                   /\ thread'[u] \in StoreOps /\ SameOp(thread'[u], thread[u])
                   /\ thread'[u].pc = IF u = t THEN "load" ELSE thread[u].pc
  <2>1. CASE thread[u] = Idle
    BY <1>1, <2>1 DEF MarkRegistry
  <2>2. CASE thread[u] # Idle
    <3>1. thread[u] \in StoreOps  BY <2>2 DEF NcThreadsTyped
    <3>2. [thread[u] EXCEPT !.pc = "load"] \in StoreOps
             /\ SameOp([thread[u] EXCEPT !.pc = "load"], thread[u])
             /\ [thread[u] EXCEPT !.pc = "load"].pc = "load"
      BY <3>1 DEF StoreOps, SameOp
    <3>3. [thread[u] EXCEPT !.latest = FALSE] \in StoreOps
             /\ SameOp([thread[u] EXCEPT !.latest = FALSE], thread[u])
             /\ [thread[u] EXCEPT !.latest = FALSE].pc = thread[u].pc
      BY <3>1 DEF StoreOps, SameOp
    <3>4. SameOp(thread[u], thread[u])  BY DEF SameOp
    <3>5. thread'[u] = IF u = t THEN [thread[u] EXCEPT !.pc = "load"] ELSE thread'[u]
      BY DEF MarkRegistry
    <3>6. u # t => thread'[u] \in {thread[u], [thread[u] EXCEPT !.latest = FALSE]}
      BY DEF MarkRegistry
    <3> QED  BY <2>2, <3>1, <3>2, <3>3, <3>4, <3>5, <3>6
  <2> QED  BY <2>1, <2>2
<1>3. \A u \in Thread : thread'[u] \in StoreOps \cup {Idle}  BY <1>2
<1>4. thread' = [u \in Thread |-> thread'[u]]  BY DEF MarkRegistry
<1>5. thread' \in [Thread -> StoreOps \cup {Idle}]  BY <1>3, <1>4
<1> QED  BY <1>2, <1>5

\* Only three fields of an operation decide whether it is proper.
LEMMA SameOpProper ==
    ASSUME NEW t \in Thread, NEW x, NEW y, Proper(t, x), SameOp(y, x), x.pc = "registry",
           y.pc = "load"
    PROVE  Proper(t, y)
  BY DEF Proper, SameOp, BusyPc

\* A record of an operation with another program counter.
LEMMA PcUpdate ==
    ASSUME NEW x \in StoreOps, NEW at \in BusyPc \cup {"registry", "load", "succeed", "register"}
    PROVE  /\ [x EXCEPT !.pc = at] \in StoreOps
           /\ SameOp([x EXCEPT !.pc = at], x)
           /\ [x EXCEPT !.pc = at].pc = at
  BY DEF StoreOps, SameOp

\* A step that only moves the program counter keeps the types of the threads.
LEMMA GoTyped ==
    ASSUME NcThreadsTyped, NEW t \in Thread, thread[t] \in StoreOps, Proper(t, thread[t]),
           NEW at \in {"write", "remove", "undo", "succeed", "register"},
           at \in BusyPc => thread[t].pc \in BusyPc,
           thread' = [thread EXCEPT ![t] = [thread[t] EXCEPT !.pc = at]]
    PROVE  NcThreadsTyped'
<1> DEFINE x == thread[t]
           y == [x EXCEPT !.pc = at]
<1>1. y \in StoreOps /\ SameOp(y, x) /\ y.pc = at  BY PcUpdate DEF BusyPc
<1>2. Proper(t, y)
  <2> HIDE DEF y
  <2> QED  BY <1>1 DEF Proper, SameOp
<1>3. thread' = [thread EXCEPT ![t] = y]  OBVIOUS
<1> HIDE DEF y
<1> QED  BY <1>1, <1>2, <1>3, ThreadGoesOn

\* A step of t that moves its program counter and changes the files it has
\* still to write, has kept or is to remove.
WorkStep(t, at, W, D, G) ==
    thread' = [thread EXCEPT ![t] =
                  [thread[t] EXCEPT !.pc = at, !.todo = W, !.done = D, !.garbage = G]]

\* Such a step changes nothing else, and keeps the types.
LEMMA WorkStepEffect ==
    ASSUME NcThreadsTyped, NEW t \in Thread, thread[t].pc \in BusyPc,
           NEW at \in BusyPc \ {"keep"}, NEW W \in SUBSET FileWrites,
           NEW D \in SUBSET FileWrites, NEW G \in SUBSET FileWrites,
           WorkStep(t, at, W, D, G)
    PROVE  /\ NcThreadsTyped'
           /\ \A u \in Thread \ {t} : thread'[u] = thread[u]
           /\ thread'[t].pc = at /\ thread'[t].todo = W
           /\ thread'[t].done = D /\ thread'[t].garbage = G
           /\ thread'[t].kind = thread[t].kind /\ thread'[t].op = thread[t].op
           /\ thread'[t].new = thread[t].new
           /\ thread'[t].want = thread[t].want /\ thread'[t].was = thread[t].was
<1> DEFINE x == thread[t]
           y == [x EXCEPT !.pc = at, !.todo = W, !.done = D, !.garbage = G]
<1>1. x \in StoreOps /\ Proper(t, x)  BY StepHasOp DEF BusyPc
<1>2. /\ y \in StoreOps
      /\ y.pc = at /\ y.todo = W /\ y.done = D /\ y.garbage = G
      /\ y.kind = x.kind /\ y.op = x.op /\ y.new = x.new /\ y.want = x.want /\ y.was = x.was
  <2> HIDE DEF x
  <2> QED  BY <1>1 DEF StoreOps
<1>3. thread' = [thread EXCEPT ![t] = y]  BY DEF WorkStep
<1> HIDE DEF y
<1>4. Proper(t, y)  BY <1>1, <1>2 DEF Proper, BusyPc
<1>5. NcThreadsTyped'  BY <1>2, <1>3, <1>4, ThreadGoesOn
<1>6. thread'[t] = y /\ \A u \in Thread \ {t} : thread'[u] = thread[u]
  BY <1>3 DEF NcThreadsTyped
<1> QED  BY <1>2, <1>5, <1>6

\* What an operation keeps when it touches w.
LEMMA WithOldTyped ==
    ASSUME NcFilesTyped, NEW x \in StoreOps, NEW w \in x.todo
    PROVE  WithOld(x, w) \subseteq FileWrites
<1>1. w \in FileWrites /\ x.done \subseteq FileWrites  BY DEF StoreOps
<1> QED  BY <1>1, OldIsFileWrite DEF WithOld

\* The steps that keep a store operation at work, as work steps.
LEMMA BusySteps ==
    ASSUME NcFilesTyped, NcThreadsTyped, NEW t \in Thread
    PROVE  LET x == thread[t] IN
           /\ Keep(t) => /\ x.pc = "keep" /\ KeptBy(x.todo) \subseteq FileWrites
                         /\ WorkStep(t, "write", x.todo, KeptBy(x.todo), x.garbage)
           /\ KeepFails(t) => x.pc = "keep" /\ WorkStep(t, "undo", x.todo, x.done, x.garbage)
           /\ Write(t) => /\ x.pc = "write"
                          /\ \E w \in x.todo :
                                /\ Put(w) /\ WithOld(x, w) \subseteq FileWrites
                                /\ WorkStep(t, "write", x.todo \ {w}, WithOld(x, w), x.garbage)
           /\ PutFails(t) => /\ x.pc = "write"
                             /\ \E w \in x.todo :
                                   /\ WithOld(x, w) \subseteq FileWrites
                                   /\ WorkStep(t, "undo", x.todo, WithOld(x, w), x.garbage)
           /\ Verify(t) => /\ x.pc = "write" /\ x.todo = {}
                           /\ \/ /\ Readable
                                 /\ WorkStep(t, "remove", x.todo, x.done, x.garbage)
                              \/ WorkStep(t, "undo", x.todo, x.done, x.garbage)
           /\ Delete(t) => /\ x.pc = "remove"
                           /\ \E w \in x.garbage :
                                 /\ Put(w)
                                 /\ WorkStep(t, "remove", x.todo, x.done, x.garbage \ {w})
           /\ DeleteFails(t) /\ x.kind = "publish" =>
                 /\ x.pc = "remove" /\ x.garbage # {}
                 /\ WorkStep(t, "undo", x.todo, x.done, x.garbage)
           /\ Undo(t) => /\ x.pc = "undo"
                         /\ \E w \in x.done :
                               /\ Put(w)
                               /\ WorkStep(t, "undo", x.todo, x.done \ {w}, x.garbage)
           /\ UndoFails(t) => /\ x.pc = "undo"
                              /\ \E w \in x.done :
                                    /\ damaged' = (damaged \/ Old(w) # w)
                                    /\ WorkStep(t, "undo", x.todo, x.done \ {w}, x.garbage)
<1> DEFINE x == thread[t]
<1>0. x.pc # "idle" => x \in StoreOps  BY StepHasOp
<1>1. ASSUME Keep(t)
      PROVE  /\ x.pc = "keep" /\ KeptBy(x.todo) \subseteq FileWrites
             /\ WorkStep(t, "write", x.todo, KeptBy(x.todo), x.garbage)
  <2>1. x.pc = "keep" /\ x \in StoreOps  BY <1>0, <1>1 DEF Keep
  <2>2. KeptBy(x.todo) \subseteq FileWrites
    BY <2>1, OldIsFileWrite DEF KeptBy, StoreOps
  <2>e. [x EXCEPT !.pc = "write", !.done = KeptBy(x.todo)]
           = [x EXCEPT !.pc = "write", !.todo = x.todo, !.done = KeptBy(x.todo),
                        !.garbage = x.garbage]
    BY <2>1 DEF StoreOps
  <2>k. thread' = [thread EXCEPT ![t] = [x EXCEPT !.pc = "write", !.done = KeptBy(x.todo)]]
    BY <1>1 DEF Keep
  <2>3. WorkStep(t, "write", x.todo, KeptBy(x.todo), x.garbage)
    BY <2>e, <2>k DEF WorkStep
  <2> QED  BY <2>1, <2>2, <2>3
<1>2. ASSUME KeepFails(t)
      PROVE  x.pc = "keep" /\ WorkStep(t, "undo", x.todo, x.done, x.garbage)
  <2>1. x.pc = "keep" /\ x \in StoreOps  BY <1>0, <1>2 DEF KeepFails
  <2>e. [x EXCEPT !.pc = "undo"]
           = [x EXCEPT !.pc = "undo", !.todo = x.todo, !.done = x.done, !.garbage = x.garbage]
    BY <2>1 DEF StoreOps
  <2>2. thread' = [thread EXCEPT ![t] = [x EXCEPT !.pc = "undo"]]  BY <1>2 DEF KeepFails, Go
  <2> QED  BY <2>1, <2>2, <2>e DEF WorkStep
<1>3. ASSUME Write(t)
      PROVE  /\ x.pc = "write"
             /\ \E w \in x.todo :
                   /\ Put(w) /\ WithOld(x, w) \subseteq FileWrites
                   /\ WorkStep(t, "write", x.todo \ {w}, WithOld(x, w), x.garbage)
  <2>1. x.pc = "write" /\ x \in StoreOps  BY <1>0, <1>3 DEF Write
  <2>2. PICK w \in NextWrites(x) :
            /\ Put(w)
            /\ thread' = [thread EXCEPT ![t] =
                             [x EXCEPT !.todo = x.todo \ {w}, !.done = WithOld(x, w)]]
    BY <1>3 DEF Write
  <2>3. w \in x.todo  BY DEF NextWrites
  <2>e. [x EXCEPT !.todo = x.todo \ {w}, !.done = WithOld(x, w)]
           = [x EXCEPT !.pc = "write", !.todo = x.todo \ {w}, !.done = WithOld(x, w),
                        !.garbage = x.garbage]
    BY <2>1 DEF StoreOps
  <2>4. WorkStep(t, "write", x.todo \ {w}, WithOld(x, w), x.garbage)
    BY <2>2, <2>e DEF WorkStep
  <2> QED  BY <2>1, <2>2, <2>3, <2>4, WithOldTyped
<1>4. ASSUME PutFails(t)
      PROVE  /\ x.pc = "write"
             /\ \E w \in x.todo :
                   /\ WithOld(x, w) \subseteq FileWrites
                   /\ WorkStep(t, "undo", x.todo, WithOld(x, w), x.garbage)
  <2>1. x.pc = "write" /\ x \in StoreOps  BY <1>0, <1>4 DEF PutFails
  <2>2. PICK w \in NextWrites(x) :
            thread' = [thread EXCEPT ![t] = [x EXCEPT !.pc = "undo", !.done = WithOld(x, w)]]
    BY <1>4 DEF PutFails
  <2>3. w \in x.todo  BY DEF NextWrites
  <2>e. [x EXCEPT !.pc = "undo", !.done = WithOld(x, w)]
           = [x EXCEPT !.pc = "undo", !.todo = x.todo, !.done = WithOld(x, w),
                        !.garbage = x.garbage]
    BY <2>1 DEF StoreOps
  <2>4. WorkStep(t, "undo", x.todo, WithOld(x, w), x.garbage)
    BY <2>2, <2>e DEF WorkStep
  <2> QED  BY <2>1, <2>3, <2>4, WithOldTyped
<1>5. ASSUME Verify(t)
      PROVE  /\ x.pc = "write" /\ x.todo = {}
             /\ \/ /\ Readable
                   /\ WorkStep(t, "remove", x.todo, x.done, x.garbage)
                \/ WorkStep(t, "undo", x.todo, x.done, x.garbage)
  <2>1. x.pc = "write" /\ x.todo = {} /\ x \in StoreOps  BY <1>0, <1>5 DEF Verify
  <2>2. \/ Readable /\ thread' = [thread EXCEPT ![t] = [x EXCEPT !.pc = "remove"]]
        \/ thread' = [thread EXCEPT ![t] = [x EXCEPT !.pc = "undo"]]
    BY <1>5 DEF Verify, Go
  <2>e. [x EXCEPT !.pc = "remove"]
           = [x EXCEPT !.pc = "remove", !.todo = x.todo, !.done = x.done,
                        !.garbage = x.garbage]
    BY <2>1 DEF StoreOps
  <2>f. [x EXCEPT !.pc = "undo"]
           = [x EXCEPT !.pc = "undo", !.todo = x.todo, !.done = x.done, !.garbage = x.garbage]
    BY <2>1 DEF StoreOps
  <2> QED  BY <2>1, <2>2, <2>e, <2>f DEF WorkStep
<1>6. ASSUME Delete(t)
      PROVE  /\ x.pc = "remove"
             /\ \E w \in x.garbage :
                   /\ Put(w)
                   /\ WorkStep(t, "remove", x.todo, x.done, x.garbage \ {w})
  <2>1. x.pc = "remove" /\ x \in StoreOps  BY <1>0, <1>6 DEF Delete
  <2>2. PICK w \in Removable(x) :
            Put(w) /\ thread' = [thread EXCEPT ![t] = [x EXCEPT !.garbage = x.garbage \ {w}]]
    BY <1>6 DEF Delete
  <2>3. w \in x.garbage  BY DEF Removable
  <2>e. [x EXCEPT !.garbage = x.garbage \ {w}]
           = [x EXCEPT !.pc = "remove", !.todo = x.todo, !.done = x.done,
                        !.garbage = x.garbage \ {w}]
    BY <2>1 DEF StoreOps
  <2>4. WorkStep(t, "remove", x.todo, x.done, x.garbage \ {w})
    BY <2>2, <2>e DEF WorkStep
  <2> QED  BY <2>1, <2>2, <2>3, <2>4
<1>7. ASSUME DeleteFails(t), x.kind = "publish"
      PROVE  /\ x.pc = "remove" /\ x.garbage # {}
             /\ WorkStep(t, "undo", x.todo, x.done, x.garbage)
  <2>1. x.pc = "remove" /\ x.garbage # {} /\ x \in StoreOps  BY <1>0, <1>7 DEF DeleteFails
  <2>e. [x EXCEPT !.pc = "undo"]
           = [x EXCEPT !.pc = "undo", !.todo = x.todo, !.done = x.done, !.garbage = x.garbage]
    BY <2>1 DEF StoreOps
  <2>2. thread' = [thread EXCEPT ![t] = [x EXCEPT !.pc = "undo"]]  BY <1>7 DEF DeleteFails
  <2> QED  BY <2>1, <2>2, <2>e DEF WorkStep
<1>8. ASSUME Undo(t)
      PROVE  /\ x.pc = "undo"
             /\ \E w \in x.done :
                   /\ Put(w)
                   /\ WorkStep(t, "undo", x.todo, x.done \ {w}, x.garbage)
  <2>1. x.pc = "undo" /\ x \in StoreOps  BY <1>0, <1>8 DEF Undo
  <2>2. PICK w \in NextRestores(x) :
            Put(w) /\ thread' = [thread EXCEPT ![t] = [x EXCEPT !.done = x.done \ {w}]]
    BY <1>8 DEF Undo
  <2>3. w \in x.done  BY DEF NextRestores
  <2>e. [x EXCEPT !.done = x.done \ {w}]
           = [x EXCEPT !.pc = "undo", !.todo = x.todo, !.done = x.done \ {w}, !.garbage = x.garbage]
    BY <2>1 DEF StoreOps
  <2>4. WorkStep(t, "undo", x.todo, x.done \ {w}, x.garbage)
    BY <2>2, <2>e DEF WorkStep
  <2> QED  BY <2>1, <2>2, <2>3, <2>4
<1>9. ASSUME UndoFails(t)
      PROVE  /\ x.pc = "undo"
             /\ \E w \in x.done :
                   /\ damaged' = (damaged \/ Old(w) # w)
                   /\ WorkStep(t, "undo", x.todo, x.done \ {w}, x.garbage)
  <2>1. x.pc = "undo" /\ x \in StoreOps  BY <1>0, <1>9 DEF UndoFails
  <2>2. PICK w \in NextRestores(x) :
            /\ damaged' = (damaged \/ Old(w) # w)
            /\ thread' = [thread EXCEPT ![t] = [x EXCEPT !.done = x.done \ {w}]]
    BY <1>9 DEF UndoFails
  <2>3. w \in x.done  BY DEF NextRestores
  <2>e. [x EXCEPT !.done = x.done \ {w}]
           = [x EXCEPT !.pc = "undo", !.todo = x.todo, !.done = x.done \ {w}, !.garbage = x.garbage]
    BY <2>1 DEF StoreOps
  <2>4. WorkStep(t, "undo", x.todo, x.done \ {w}, x.garbage)
    BY <2>2, <2>e DEF WorkStep
  <2> QED  BY <2>1, <2>2, <2>3, <2>4
<1> QED  BY <1>1, <1>2, <1>3, <1>4, <1>5, <1>6, <1>7, <1>8, <1>9

\* What Load makes of an operation that has something to write.
Loaded(x) ==
    [x EXCEPT !.pc = IF x.kind = "publish" THEN "keep" ELSE "write",
              !.want = Candidate(x),
              !.was = [manifest |-> manifest, sidecar |-> sidecar, output |-> output],
              !.todo = Plan(x, Candidate(x)), !.garbage = Garbage(x)]

\* Its fields.
LEMMA LoadedFields ==
    ASSUME NcFilesTyped, NEW t \in Thread, NEW x \in StoreOps, Proper(t, x), x.pc = "load"
    PROVE  LET y == Loaded(x) IN
           /\ y \in StoreOps /\ Proper(t, y)
           /\ y.pc = IF x.kind = "publish" THEN "keep" ELSE "write"
           /\ y.kind = x.kind /\ y.op = x.op /\ y.new = x.new
           /\ y.want = Candidate(x) /\ y.want \in Manifests
           /\ y.was.manifest = manifest /\ y.was.sidecar = sidecar /\ y.was.output = output
           /\ y.todo = Plan(x, Candidate(x)) /\ y.done = {} /\ y.garbage = Garbage(x)
<1> DEFINE m == Candidate(x)
           W == Plan(x, m)
           G == Garbage(x)
           S == [manifest |-> manifest, sidecar |-> sidecar, output |-> output]
           at == IF x.kind = "publish" THEN "keep" ELSE "write"
           y == [x EXCEPT !.pc = at, !.want = m, !.was = S, !.todo = W, !.garbage = G]
<1>0. y = Loaded(x)  BY DEF Loaded
<1>1. m \in Manifests  BY CandidateIsManifest DEF NcFilesTyped, Proper
<1>2. S \in Snapshots /\ S.manifest = manifest /\ S.sidecar = sidecar /\ S.output = output
  BY DEF Snapshots, NcFilesTyped
<1>3. W \subseteq FileWrites
  BY <1>1, PlanIsFileWrites DEF Proper, Manifests
<1>4. G \subseteq FileWrites  BY GarbageIsFileWrites
<1>5. at \in {"keep", "write"}  OBVIOUS
<1>6. x.done = {}  BY DEF Proper
<1>7. at = "keep" => x.kind = "publish"  OBVIOUS
<1> HIDE DEF m, W, G, S, at
<1>8. /\ y \in StoreOps
      /\ y.pc = at /\ y.want = m /\ y.was = S /\ y.todo = W /\ y.garbage = G
      /\ y.kind = x.kind /\ y.op = x.op /\ y.new = x.new /\ y.done = x.done
  BY <1>1, <1>2, <1>3, <1>4, <1>5 DEF StoreOps, BusyPc
<1> HIDE DEF y
<1>9. Proper(t, y)  BY <1>1, <1>2, <1>5, <1>6, <1>7, <1>8 DEF Proper
<1> QED  BY <1>0, <1>1, <1>2, <1>6, <1>8, <1>9 DEF m, W, G, at

\* Load ends an operation that has nothing to write, or begins its work.
LEMMA LoadSteps ==
    ASSUME NEW t \in Thread, Load(t)
    PROVE  LET x == thread[t] IN
           \/ /\ x.kind # "publish" /\ Candidate(x) = manifest
              /\ thread' = [thread EXCEPT ![t] = [x EXCEPT !.pc = "succeed"]]
           \/ thread' = [thread EXCEPT ![t] = Loaded(x)]
  BY DEF Load, Loaded

\* Every step of a store operation keeps the types of the threads.
LEMMA StoreStepThreadsTyped ==
    ASSUME NcTypes, NEW t \in Thread, StoreStep(t)
    PROVE  NcThreadsTyped'
<1> USE DEF NcTypes
<1> DEFINE x == thread[t]
<1>0. x.pc # "idle" => x \in StoreOps /\ x # Idle /\ Proper(t, x)  BY StepHasOp
<1>1. ASSUME MarkRegistry(t) PROVE NcThreadsTyped'
  <2>1. x.pc = "registry" /\ x \in StoreOps /\ Proper(t, x)  BY <1>0, <1>1 DEF MarkRegistry
  <2>2. /\ thread' \in [Thread -> StoreOps \cup {Idle}]
        /\ \A u \in Thread :
              /\ thread[u] = Idle => thread'[u] = Idle
              /\ thread[u] # Idle =>
                    /\ thread'[u] \in StoreOps /\ SameOp(thread'[u], thread[u])
                    /\ thread'[u].pc = IF u = t THEN "load" ELSE thread[u].pc
    BY <1>1, MarkRegistryEffect
  <2>3. ASSUME NEW u \in Thread, thread'[u] # Idle PROVE Proper(u, thread'[u])
    <3>1. thread[u] # Idle /\ Proper(u, thread[u])  BY <2>2, <2>3 DEF NcThreadsTyped
    <3>2. SameOp(thread'[u], thread[u])
             /\ thread'[u].pc = IF u = t THEN "load" ELSE thread[u].pc
      BY <2>2, <3>1
    <3>3. CASE u = t
      BY <2>1, <3>1, <3>2, <3>3, SameOpProper
    <3>4. CASE u # t
      <4>1. thread'[u].pc = thread[u].pc  BY <3>2, <3>4
      <4> QED  BY <3>1, <3>2, <4>1 DEF Proper, SameOp
    <3> QED  BY <3>3, <3>4
  <2> QED  BY <2>2, <2>3 DEF NcThreadsTyped
<1>2. ASSUME Load(t) PROVE NcThreadsTyped'
  <2>1. x.pc = "load" /\ x \in StoreOps /\ Proper(t, x)  BY <1>0, <1>2 DEF Load
  <2>2. CASE thread' = [thread EXCEPT ![t] = [x EXCEPT !.pc = "succeed"]]
    BY <2>1, <2>2, GoTyped DEF BusyPc
  <2>3. CASE thread' = [thread EXCEPT ![t] = Loaded(x)]
    BY <2>1, <2>3, LoadedFields, ThreadGoesOn
  <2> QED  BY <1>2, <2>2, <2>3, LoadSteps
<1>3. ASSUME LoadFails(t) \/ Undone(t) \/ Register(t) \/ Finish(t) PROVE NcThreadsTyped'
  <2>1. thread' = [thread EXCEPT ![t] = Idle]
    BY <1>3 DEF LoadFails, Undone, Register, Finish
  <2> QED  BY <2>1, ThreadGoesOn
<1>4. ASSUME Deleted(t) PROVE NcThreadsTyped'
  <2>1. x.pc = "remove" /\ x \in StoreOps /\ Proper(t, x)  BY <1>0, <1>4 DEF Deleted
  <2>2. thread' = [thread EXCEPT ![t] = [x EXCEPT !.pc = "succeed"]]  BY <1>4 DEF Deleted, Go
  <2> QED  BY <2>1, <2>2, GoTyped DEF BusyPc
<1>5. ASSUME DeleteFails(t) PROVE NcThreadsTyped'
  <2>1. x.pc = "remove" /\ x \in StoreOps /\ Proper(t, x)  BY <1>0, <1>5 DEF DeleteFails
  <2>2. CASE x.kind = "publish"
    <3>1. thread' = [thread EXCEPT ![t] = [x EXCEPT !.pc = "undo"]]
      BY <1>5, <2>2 DEF DeleteFails
    <3> QED  BY <2>1, <3>1, GoTyped DEF BusyPc
  <2>3. CASE x.kind # "publish"
    <3>1. thread' = [thread EXCEPT ![t] = Idle]  BY <1>5, <2>3 DEF DeleteFails
    <3> QED  BY <3>1, ThreadGoesOn
  <2> QED  BY <2>2, <2>3
<1>6. ASSUME Recheck(t) PROVE NcThreadsTyped'
  <2>1. x.pc = "succeed" /\ x \in StoreOps /\ Proper(t, x)  BY <1>0, <1>6 DEF Recheck
  <2>2. CASE StillCurrent(x)
    <3>1. thread' = [thread EXCEPT ![t] = [x EXCEPT !.pc = "register"]]
      BY <1>6, <2>2 DEF Recheck
    <3> QED  BY <2>1, <3>1, GoTyped DEF BusyPc
  <2>3. CASE ~StillCurrent(x)
    <3> DEFINE y == [x EXCEPT !.pc = "load", !.kind = "mark",
                              !.want = NoFile, !.was = NoFile, !.done = {}]
    <3>1. thread' = [thread EXCEPT ![t] = y]  BY <1>6, <2>3 DEF Recheck
    <3>2. y \in StoreOps /\ y.pc = "load" /\ y.kind = "mark" /\ y.done = {}
      <4> HIDE DEF x
      <4> QED  BY <2>1 DEF StoreOps, Kind
    <3> HIDE DEF y
    <3>3. Proper(t, y)  BY <3>2 DEF Proper, BusyPc
    <3> QED  BY <3>1, <3>2, <3>3, ThreadGoesOn
  <2> QED  BY <2>2, <2>3
<1>7. ASSUME \/ Keep(t) \/ KeepFails(t) \/ Write(t) \/ PutFails(t) \/ Verify(t)
             \/ Delete(t) \/ Undo(t) \/ UndoFails(t)
      PROVE  NcThreadsTyped'
  <2>1. x.pc \in BusyPc  BY <1>7, BusySteps DEF BusyPc
  <2>2. x.todo \subseteq FileWrites /\ x.done \subseteq FileWrites /\ x.garbage \subseteq FileWrites
    BY <1>0, <2>1 DEF StoreOps, BusyPc
  <2>3. \E at \in BusyPc \ {"keep"}, W, D, G \in SUBSET FileWrites : WorkStep(t, at, W, D, G)
    <3>1. {"write", "remove", "undo"} \subseteq BusyPc \ {"keep"}  BY DEF BusyPc
    <3>2. CASE Keep(t)  BY <2>2, <3>1, <3>2, BusySteps
    <3>3. CASE KeepFails(t)  BY <2>2, <3>1, <3>3, BusySteps
    <3>4. CASE Write(t)
      <4>1. PICK w \in x.todo : /\ WithOld(x, w) \subseteq FileWrites
                                /\ WorkStep(t, "write", x.todo \ {w}, WithOld(x, w), x.garbage)
        BY <3>4, BusySteps
      <4> QED  BY <2>2, <3>1, <4>1
    <3>5. CASE PutFails(t)
      <4>1. PICK w \in x.todo : /\ WithOld(x, w) \subseteq FileWrites
                                /\ WorkStep(t, "undo", x.todo, WithOld(x, w), x.garbage)
        BY <3>5, BusySteps
      <4> QED  BY <2>2, <3>1, <4>1
    <3>6. CASE Verify(t)  BY <2>2, <3>1, <3>6, BusySteps
    <3>7. CASE Delete(t)
      <4>1. PICK w \in x.garbage : WorkStep(t, "remove", x.todo, x.done, x.garbage \ {w})
        BY <3>7, BusySteps
      <4> QED  BY <2>2, <3>1, <4>1
    <3>8. CASE Undo(t) \/ UndoFails(t)
      <4>1. PICK w \in x.done : WorkStep(t, "undo", x.todo, x.done \ {w}, x.garbage)
        BY <3>8, BusySteps
      <4> QED  BY <2>2, <3>1, <4>1
    <3> QED  BY <1>7, <3>2, <3>3, <3>4, <3>5, <3>6, <3>7, <3>8
  <2> QED  BY <2>1, <2>3, WorkStepEffect
<1> QED  BY <1>1, <1>2, <1>3, <1>4, <1>5, <1>6, <1>7 DEF StoreStep

\* Every step of a store operation keeps the types of the files.
LEMMA StoreStepFilesTyped ==
    ASSUME NcTypes, NEW t \in Thread, StoreStep(t)
    PROVE  NcFilesTyped'
<1> USE DEF NcTypes
<1> DEFINE x == thread[t]
<1>1. CASE UNCHANGED files
  BY <1>1 DEF files, NcFilesTyped
<1>2. CASE Write(t)
  <2>1. x.pc = "write" /\ \E w \in x.todo : Put(w)  BY <1>2, BusySteps
  <2>2. x.todo \subseteq FileWrites  BY <2>1, StepHasOp DEF StoreOps
  <2> QED  BY <2>1, <2>2, PutTyped
<1>3. CASE Delete(t)
  <2>1. x.pc = "remove" /\ \E w \in x.garbage : Put(w)  BY <1>3, BusySteps
  <2>2. x.garbage \subseteq FileWrites  BY <2>1, StepHasOp DEF StoreOps
  <2> QED  BY <2>1, <2>2, PutTyped
<1>4. CASE Undo(t)
  <2>1. x.pc = "undo" /\ \E w \in x.done : Put(w)  BY <1>4, BusySteps
  <2>2. x.done \subseteq FileWrites  BY <2>1, StepHasOp DEF StoreOps
  <2> QED  BY <2>1, <2>2, PutTyped
<1>5. \/ MarkRegistry(t) \/ Load(t) \/ LoadFails(t) \/ Keep(t) \/ KeepFails(t) \/ PutFails(t)
      \/ Verify(t) \/ DeleteFails(t) \/ Deleted(t) \/ UndoFails(t) \/ Undone(t)
      \/ Recheck(t) \/ Register(t) \/ Finish(t)
      => UNCHANGED files
  BY DEF MarkRegistry, Load, LoadFails, Keep, KeepFails, PutFails, Verify, DeleteFails,
         Deleted, UndoFails, Undone, Recheck, Register, Finish, files
<1> QED  BY <1>1, <1>2, <1>3, <1>4, <1>5 DEF StoreStep

\* Every step of a store operation keeps the types of everything else.
LEMMA StoreStepScalarsTyped ==
    ASSUME NcTypes, NEW t \in Thread, StoreStep(t)
    PROVE  NcScalarsTyped'
<1> USE DEF NcTypes
<1> DEFINE x == thread[t]
<1>0. x.pc # "idle" => x \in StoreOps /\ x # Idle /\ Proper(t, x)  BY StepHasOp
<1>1. ASSUME MarkRegistry(t) PROVE NcScalarsTyped'
  <2>1. x.op \in Ops  BY <1>0, <1>1 DEF MarkRegistry, StoreOps
  <2>2. results' = [results EXCEPT ![x.op] = NoFile]
           /\ UNCHANGED <<toolpath, saved, posted, fresh, used, damaged, missed>>
    BY <1>1 DEF MarkRegistry, project, history
  <2> QED  BY <2>1, <2>2 DEF NcScalarsTyped
<1>2. ASSUME Register(t) PROVE NcScalarsTyped'
  <2>1. x.op \in Ops /\ x.new \in Artifact \cup {NoFile}
    BY <1>0, <1>2 DEF Register, StoreOps
  <2>2. results' \in {results, [results EXCEPT ![x.op] = x.new]}
           /\ UNCHANGED <<toolpath, saved, posted, fresh, used, damaged, missed>>
    BY <1>2 DEF Register, project, history
  <2> QED  BY <2>1, <2>2 DEF NcScalarsTyped
<1>3. ASSUME Finish(t) PROVE NcScalarsTyped'
  <2>1. x.op \in Ops  BY <1>0, <1>3 DEF Finish, StoreOps
  <2>2. results' \in [Ops -> Artifact \cup {NoFile}]
    BY <1>3, <2>1 DEF Finish, NcScalarsTyped
  <2>3. saved' \in {saved, toolpath} /\ UNCHANGED <<toolpath, posted, fresh, used, damaged, missed>>
    BY <1>3 DEF Finish, history
  <2> QED  BY <2>2, <2>3 DEF NcScalarsTyped
<1>4. ASSUME LoadFails(t) \/ Undone(t) PROVE NcScalarsTyped'
  <2>1. x.op \in Ops  BY <1>0, <1>4 DEF LoadFails, Undone, StoreOps
  <2>2. missed' = missed \cup Misses(x)
           /\ UNCHANGED <<toolpath, saved, posted, results, fresh, used, damaged>>
    BY <1>4 DEF LoadFails, Undone, project
  <2> QED  BY <2>1, <2>2 DEF NcScalarsTyped, Misses
<1>5. ASSUME \/ Load(t) \/ Keep(t) \/ KeepFails(t) \/ Write(t) \/ PutFails(t) \/ Verify(t)
             \/ Delete(t) \/ DeleteFails(t) \/ Deleted(t) \/ Undo(t) \/ UndoFails(t)
             \/ Recheck(t)
      PROVE  NcScalarsTyped'
  <2>1. /\ UNCHANGED <<toolpath, saved, posted, results, fresh, used, missed>>
    BY <1>5 DEF Load, Keep, KeepFails, Write, PutFails, Verify, Delete, DeleteFails, Deleted,
                Undo, UndoFails, Recheck, project, history
  <2>2. damaged' \in BOOLEAN
    <3>1. CASE Load(t) \/ Write(t) \/ Delete(t) \/ Undo(t)
      BY <3>1 DEF Load, Write, Delete, Undo, Overlap
    <3>2. CASE UndoFails(t)
      BY <3>2 DEF UndoFails
    <3>3. CASE \/ Keep(t) \/ KeepFails(t) \/ PutFails(t) \/ Verify(t) \/ DeleteFails(t)
               \/ Deleted(t) \/ Recheck(t)
      <4>1. damaged' = damaged
        BY <3>3 DEF Keep, KeepFails, PutFails, Verify, DeleteFails, Deleted, Recheck, history
      <4> QED  BY <4>1 DEF NcScalarsTyped
    <3> QED  BY <1>5, <3>1, <3>2, <3>3
  <2> QED  BY <2>1, <2>2 DEF NcScalarsTyped
<1> QED  BY <1>1, <1>2, <1>3, <1>4, <1>5 DEF StoreStep

\* Every step keeps the types.
LEMMA NcTypesStep == NcTypes /\ [NcNext]_ncVars => NcTypes'
<1> SUFFICES ASSUME NcTypes, [NcNext]_ncVars PROVE NcTypes'  OBVIOUS
<1>1. ASSUME NEW t \in Thread, StoreStep(t) PROVE NcTypes'
  BY <1>1, StoreStepScalarsTyped, StoreStepFilesTyped, StoreStepThreadsTyped DEF NcTypes
<1>2. CASE UNCHANGED ncVars
  BY <1>2 DEF ncVars, project, files, history, NcTypes, NcScalarsTyped, NcFilesTyped,
              NcThreadsTyped
<1> QED  BY <1>1, <1>2, RequestTyped DEF NcNext

\* The files of the store, the registry and the operations of all threads keep
\* their types, and no two current entries of the manifest have one file name,
\* for any operations, names and bounds (NCArtifactManifest).
THEOREM NcTypeCorrect == NcSpec => []NcTypeOK
<1>1. NcSpec => []NcTypes  BY NcTypesInit, NcTypesStep, PTL DEF NcSpec
<1> QED  BY <1>1, NcTypesSuffice, PTL

\* An artifact stays attended when nobody who sees to it gives up silently.
LEMMA AttendedKept ==
    ASSUME NEW T \in SUBSET Thread,
           missed \subseteq missed',
           \A a \in Artifact : a.src = toolpath[a.op] =>
               \/ a.src = toolpath'[a.op]
               \/ a.op \in missed'
               \/ \E u \in Thread : Marks(u, a.op)',
           \A u \in Thread : \A o \in Ops : Marks(u, o) => Marks(u, o)' \/ o \in missed',
           \A u \in Thread : \A a \in Artifact : Publishes(u, a) =>
               \/ Publishes(u, a)'
               \/ a.src = toolpath'[a.op]
               \/ a.op \in missed'
               \/ Marks(u, a.op)'
    PROVE  \A a \in Artifact : Attended(a, T) => Attended(a, T)'
<1> SUFFICES ASSUME NEW a \in Artifact, Attended(a, T) PROVE Attended(a, T)'  OBVIOUS
<1>0. a.op \in Ops  BY DEF Artifact
<1>1. CASE a.src = toolpath[a.op]  BY <1>1 DEF Attended
<1>2. CASE a.op \in missed  BY <1>2 DEF Attended
<1>3. CASE \E u \in Thread : Marks(u, a.op)  BY <1>0, <1>3 DEF Attended
<1>4. CASE \E u \in T : Publishes(u, a)  BY <1>4 DEF Attended
<1> QED  BY <1>1, <1>2, <1>3, <1>4 DEF Attended

\* What an operation under way knows holds on while others leave manifest and
\* sidecars alone and outputs are lost at most.
LEMMA AtWorkKept ==
    ASSUME NcTypes, NEW t \in Thread, AtWork(t, thread[t]), thread[t] # Idle,
           Busy(t),
           SameOp(thread'[t], thread[t]), thread'[t].pc = thread[t].pc,
           UNCHANGED <<manifest, sidecar>>,
           \A n \in Names : output'[n] \in {output[n], NoFile},
           \A T \in SUBSET Thread : \A a \in Artifact : Attended(a, T) => Attended(a, T)'
    PROVE  AtWork(t, thread[t])'
<1> DEFINE x == thread[t]
           y == thread'[t]
<1>0. /\ y.kind = x.kind /\ y.op = x.op /\ y.new = x.new
      /\ y.want = x.want /\ y.was = x.was
      /\ y.todo = x.todo /\ y.done = x.done /\ y.garbage = x.garbage /\ y.pc = x.pc
  BY DEF SameOp
<1>n. \A a \in Artifact : a.name \in Names /\ a # NoFile
  BY NoFileAssumption DEF Artifact
<1>p. x \in StoreOps /\ Proper(t, x)
  BY DEF NcTypes, NcThreadsTyped
<1>q. x.kind = "publish" => x.new.name \in Names
  BY <1>n, <1>p DEF Proper
<1>1. (Planned(thread[t]) /\ Kept(thread[t]) /\ Grown(thread[t]) /\ Superfluous(thread[t]))'
  <2>1. Planned(thread[t])'  BY <1>0 DEF AtWork, Planned
  <2>2. Kept(thread[t])'  BY <1>0 DEF AtWork, Kept
  <2>3. Grown(thread[t])'  BY <1>0 DEF AtWork, Grown
  <2>4. Superfluous(thread[t])'  BY <1>0 DEF AtWork, Superfluous
  <2> QED  BY <2>1, <2>2, <2>3, <2>4
<1>2. manifest' \in {y.was.manifest, y.want}  BY <1>0 DEF AtWork
<1>3. (thread[t].kind = "publish" => OutputsOf(thread[t]))'
  BY <1>0 DEF AtWork, OutputsOf
<1>4. y.pc = "keep" => manifest' = y.was.manifest /\ sidecar' = y.was.sidecar
  BY <1>0 DEF AtWork
<1>5. (thread[t].pc \in {"keep", "write"} => Untouched(thread[t]) /\ Ahead(thread[t]))'
  <2>1. x.pc \in {"keep", "write"} => Untouched(x) /\ Ahead(x)  BY DEF AtWork
  <2>2. Untouched(x) => Untouched(thread[t])'  BY <1>0 DEF Untouched
  <2>3. Ahead(x) => Ahead(thread[t])'  BY <1>0 DEF Ahead
  <2> QED  BY <1>0, <2>1, <2>2, <2>3
<1>6. (thread[t].pc = "write" /\ thread[t].kind = "publish" => AllKept(thread[t]))'
  BY <1>0 DEF AtWork, AllKept
<1>7. y.pc = "remove" =>
          /\ manifest' = y.want
          /\ \A a \in Entries(y.want) : sidecar'[a] = y.want[a]
  BY <1>0 DEF AtWork
<1>8. (thread[t].pc = "remove" /\ thread[t].kind # "publish"
          => Settled(manifest, output, Thread))'
  <2>1. Settled(manifest, output, Thread) => Settled(manifest, output, Thread)'
    BY <1>n DEF Settled
  <2> QED  BY <1>0, <2>1 DEF AtWork
<1>9. (thread[t].pc # "remove" \/ thread[t].kind = "publish" => WasAtRest(t, thread[t]))'
  <2>1. WasAtRest(t, x) => WasAtRest(t, thread[t])'
    <3> SUFFICES ASSUME WasAtRest(t, x) PROVE WasAtRest(t, thread[t])'  OBVIOUS
    <3>1. \A a \in Artifact : y.was.manifest[a] # "none" => y.was.sidecar[a] = y.was.manifest[a]
      BY <1>0 DEF WasAtRest
    <3>2. CASE x.kind = "publish"
      <4>1. Settled(thread[t].was.manifest, thread[t].was.output, Thread \ {t})'
        BY <1>0, <3>2 DEF WasAtRest, Settled
      <4> QED  BY <1>0, <3>1, <3>2, <4>1 DEF WasAtRest
    <3>3. CASE x.kind # "publish"
      <4>1. Settled(thread[t].was.manifest, output, Thread \ {t})'
        BY <1>0, <1>n, <3>3 DEF WasAtRest, Settled
      <4> QED  BY <1>0, <3>1, <3>3, <4>1 DEF WasAtRest
    <3> QED  BY <3>2, <3>3
  <2> QED  BY <1>0, <2>1 DEF AtWork
<1>10. (\/ thread[t].pc \in {"write", "undo"}
        \/ thread[t].pc = "remove" /\ thread[t].kind = "publish" /\ thread[t].garbage # {}
        => Restorable(thread[t]))'
  <2>1. Restorable(x) => Restorable(thread[t])'
    BY <1>0, <1>q DEF Restorable
  <2> QED  BY <1>0, <2>1 DEF AtWork
<1> QED  BY <1>1, <1>2, <1>3, <1>4, <1>5, <1>6, <1>7, <1>8, <1>9, <1>10 DEF AtWork

\* A thread at work has an operation.
LEMMA BusyHasOp ==
    ASSUME NcThreadsTyped, NEW t \in Thread, Busy(t)
    PROVE  thread[t] \in StoreOps /\ thread[t] # Idle /\ Proper(t, thread[t])
  BY StepHasOp DEF Busy, BusyPc

\* Steps outside the store: no thread at work changes, the manifest and the
\* sidecars stay, and outputs are lost at most.
LEMMA OutsideStep ==
    ASSUME NcTypes, NcOrder,
           ~damaged' => ~damaged,
           UNCHANGED <<manifest, sidecar>>,
           \A n \in Names : output'[n] \in {output[n], NoFile},
           \A t \in Thread : Busy(t)' => Busy(t),
           \A t \in Thread : Busy(t) =>
               SameOp(thread'[t], thread[t]) /\ thread'[t].pc = thread[t].pc,
           \A T \in SUBSET Thread : \A a \in Artifact : Attended(a, T) => Attended(a, T)'
    PROVE  NcOrder'
<1> SUFFICES ASSUME ~damaged'
             PROVE  /\ \A t, u \in Thread : Busy(t)' /\ Busy(u)' => t = u
                    /\ (\A t \in Thread : ~Busy(t)') => AtRest'
                    /\ \A t \in Thread : Busy(t)' => AtWork(t, thread[t])'
  BY DEF NcOrder
<1>0. /\ \A t, u \in Thread : Busy(t) /\ Busy(u) => t = u
      /\ (\A t \in Thread : ~Busy(t)) => AtRest
      /\ \A t \in Thread : Busy(t) => AtWork(t, thread[t])
  BY DEF NcOrder
<1>1. \A t \in Thread : Busy(t) => Busy(t)'
  BY DEF Busy
<1>2. ASSUME \A t \in Thread : ~Busy(t)' PROVE AtRest'
  <2>1. AtRest  BY <1>0, <1>1, <1>2
  <2>2. Readable'  BY <2>1 DEF AtRest, Readable
  <2>3. Settled(manifest, output, Thread)'
    <3>1. \A a \in Artifact : a.name \in Names /\ a # NoFile
      BY NoFileAssumption DEF Artifact
    <3> QED  BY <2>1, <3>1 DEF AtRest, Settled
  <2> QED  BY <2>2, <2>3 DEF AtRest
<1>3. ASSUME NEW t \in Thread, Busy(t)' PROVE AtWork(t, thread[t])'
  <2>1. Busy(t)  BY <1>3
  <2>2. AtWork(t, thread[t]) /\ thread[t] # Idle
    BY <1>0, <2>1, BusyHasOp DEF NcTypes
  <2>3. SameOp(thread'[t], thread[t]) /\ thread'[t].pc = thread[t].pc  BY <2>1
  <2> QED  BY <2>1, <2>2, <2>3, AtWorkKept
<1> QED  BY <1>0, <1>2, <1>3

\* The same for a step in which only one thread changes, and is not at work.
LEMMA OneThreadOutside ==
    ASSUME NcTypes, NcOrder, NEW t \in Thread,
           ~damaged' => ~damaged,
           UNCHANGED <<manifest, sidecar>>,
           \A n \in Names : output'[n] \in {output[n], NoFile},
           ~Busy(t), ~Busy(t)',
           \A u \in Thread \ {t} : thread'[u] = thread[u],
           missed \subseteq missed',
           \A a \in Artifact : a.src = toolpath[a.op] =>
               \/ a.src = toolpath'[a.op]
               \/ a.op \in missed'
               \/ Marks(t, a.op)',
           \A o \in Ops : Marks(t, o) => Marks(t, o)' \/ o \in missed',
           \A a \in Artifact : Publishes(t, a) =>
               Publishes(t, a)' \/ a.src = toolpath'[a.op] \/ Marks(t, a.op)'
    PROVE  NcOrder'
<1>1. \A u \in Thread : Busy(u)' => Busy(u)  BY DEF Busy
<1>2. \A u \in Thread : Busy(u) => SameOp(thread'[u], thread[u]) /\ thread'[u].pc = thread[u].pc
  BY DEF SameOp
<1>3. \A u \in Thread \ {t} : /\ \A o \in Ops : Marks(u, o) => Marks(u, o)'
                              /\ \A a \in Artifact : Publishes(u, a) => Publishes(u, a)'
  BY DEF Marks, Publishes
<1>4. \A u \in Thread : \A o \in Ops : Marks(u, o) => Marks(u, o)' \/ o \in missed'
  BY <1>3
<1>5. \A u \in Thread : \A a \in Artifact : Publishes(u, a) =>
          \/ Publishes(u, a)'
          \/ a.src = toolpath'[a.op]
          \/ a.op \in missed'
          \/ Marks(u, a.op)'
  BY <1>3
<1>6. \A T \in SUBSET Thread : \A a \in Artifact : Attended(a, T) => Attended(a, T)'
  BY <1>4, <1>5, AttendedKept
<1> QED  BY <1>1, <1>2, <1>6, OutsideStep

\* A request begins in an idle thread, and not yet on the files.
LEMMA BeginEffect ==
    ASSUME NcThreadsTyped, NEW t \in Thread, NEW kind, NEW op, NEW new, NEW policy,
           Begin(t, kind, op, new, policy)
    PROVE  /\ ~Busy(t) /\ ~Busy(t)'
           /\ \A u \in Thread \ {t} : thread'[u] = thread[u]
           /\ \A o \in Ops : ~Marks(t, o)
           /\ \A a \in Artifact : ~Publishes(t, a)
           /\ kind = "mark" => Marks(t, op)'
<1> DEFINE y == [pc |-> IF kind = "mark" THEN "registry" ELSE "load", kind |-> kind,
                 op |-> op, new |-> new, policy |-> policy, latest |-> TRUE,
                 want |-> NoFile, was |-> NoFile, todo |-> {}, done |-> {}, garbage |-> {}]
<1>1. thread[t] = Idle /\ thread' = [thread EXCEPT ![t] = y]  BY DEF Begin
<1>2. thread[t].pc = "idle"  BY <1>1 DEF Idle
<1>3. y.pc = (IF kind = "mark" THEN "registry" ELSE "load") /\ y.kind = kind /\ y.op = op
  OBVIOUS
<1> HIDE DEF y
<1>4. thread'[t] = y /\ \A u \in Thread \ {t} : thread'[u] = thread[u]
  BY <1>1 DEF NcThreadsTyped
<1>5. ~Busy(t) /\ ~Busy(t)'  BY <1>2, <1>3, <1>4 DEF Busy, BusyPc
<1>6. /\ \A o \in Ops : ~Marks(t, o)
      /\ \A a \in Artifact : ~Publishes(t, a)
  BY <1>2 DEF Marks, Publishes
<1>7. kind = "mark" => Marks(t, op)'
  BY <1>3, <1>4 DEF Marks
<1> QED  BY <1>4, <1>5, <1>6, <1>7

\* A request that begins a store operation and changes no toolpath.
LEMMA PlainRequest ==
    ASSUME NcTypes, NcOrder, NEW t \in Thread, NEW kind, NEW op, NEW new, NEW policy,
           Begin(t, kind, op, new, policy),
           UNCHANGED <<toolpath, files, damaged, missed>>
    PROVE  NcOrder'
<1>1. /\ ~Busy(t) /\ ~Busy(t)'
      /\ \A u \in Thread \ {t} : thread'[u] = thread[u]
      /\ \A o \in Ops : ~Marks(t, o)
      /\ \A a \in Artifact : ~Publishes(t, a)
  BY BeginEffect DEF NcTypes
<1>2. UNCHANGED <<manifest, sidecar, output>>  BY DEF files
<1> QED  BY <1>1, <1>2, OneThreadOutside

\* Steps of no thread.
LEMMA NoThreadStep ==
    ASSUME NcTypes, NcOrder, UNCHANGED <<toolpath, manifest, sidecar, thread, damaged, missed>>,
           \A n \in Names : output'[n] \in {output[n], NoFile}
    PROVE  NcOrder'
<1>1. \A u \in Thread : Busy(u)' => Busy(u)  BY DEF Busy
<1>2. \A u \in Thread : SameOp(thread'[u], thread[u]) /\ thread'[u].pc = thread[u].pc
  BY DEF SameOp
<1>3. \A T \in SUBSET Thread : \A a \in Artifact : Attended(a, T) => Attended(a, T)'
  BY DEF Attended, Marks, Publishes
<1> QED  BY <1>1, <1>2, <1>3, OutsideStep

\* Requests keep the order of the store.
LEMMA RequestKeepsOrder ==
    ASSUME NcTypes, NcOrder,
           \/ \E o \in Ops : Post(o) \/ Clear(o)
           \/ \E o \in Ops, n \in Names, p \in Policy : Export(o, n, p)
           \/ Edit \/ Save
           \/ \E n \in Names : Lose(n)
    PROVE  NcOrder'
<1>1. ASSUME NEW o \in Ops, Post(o) PROVE NcOrder'
  <2>1. UNCHANGED <<toolpath, manifest, sidecar, output, thread, damaged, missed>>
    BY <1>1 DEF Post, files, history
  <2> QED  BY <2>1, NoThreadStep
<1>2. ASSUME NEW o \in Ops, Clear(o) PROVE NcOrder'
  <2>1. Begin("ui", "clear", o, NoFile, "") /\ UNCHANGED <<toolpath, files, damaged, missed>>
    BY <1>2 DEF Clear, project
  <2> QED  BY <2>1, PlainRequest DEF Thread
<1>3. ASSUME NEW o \in Ops, NEW n \in Names, NEW p \in Policy, Export(o, n, p) PROVE NcOrder'
  <2> DEFINE new == [op |-> o, src |-> toolpath[o], name |-> n]
  <2>1. Begin("ui", "publish", o, new, p) /\ UNCHANGED <<toolpath, files, damaged, missed>>
    BY <1>3 DEF Export, project
  <2> HIDE DEF new
  <2> QED  BY <2>1, PlainRequest DEF Thread
<1>4. ASSUME Edit PROVE NcOrder'
  <2>1. PICK o \in Ops : Begin("ui", "reconcile", o, NoFile, "")  BY <1>4 DEF Edit
  <2>2. UNCHANGED <<toolpath, files, damaged, missed>>  BY <1>4 DEF Edit
  <2> QED  BY <2>1, <2>2, PlainRequest DEF Thread
<1>5. ASSUME Save PROVE NcOrder'
  <2>1. PICK o \in Ops : Begin("save", "flush", o, NoFile, "")  BY <1>5 DEF Save
  <2>2. UNCHANGED <<toolpath, files, damaged, missed>>  BY <1>5 DEF Save, project
  <2> QED  BY <2>1, <2>2, PlainRequest DEF Thread
<1>6. ASSUME NEW n \in Names, Lose(n) PROVE NcOrder'
  <2>1. UNCHANGED <<toolpath, manifest, sidecar, thread, damaged, missed>>
    BY <1>6 DEF Lose, project
  <2>2. \A m \in Names : output'[m] \in {output[m], NoFile}
    BY <1>6 DEF Lose, NcTypes, NcFilesTyped, Outputs
  <2> QED  BY <2>1, <2>2, NoThreadStep
<1> QED  BY <1>1, <1>2, <1>3, <1>4, <1>5, <1>6

\* A new toolpath leaves its operation marked.
LEMMA CalculateKeepsOrder ==
    ASSUME NcTypes, NcOrder, NEW o \in Ops, Calculate(o)
    PROVE  NcOrder'
<1>0. "worker" \in Thread  BY DEF Thread
<1>1. Begin("worker", "mark", o, NoFile, "")  BY DEF Calculate
<1>2. /\ ~Busy("worker") /\ ~Busy("worker")'
      /\ \A u \in Thread \ {"worker"} : thread'[u] = thread[u]
      /\ \A p \in Ops : ~Marks("worker", p)
      /\ \A a \in Artifact : ~Publishes("worker", a)
      /\ Marks("worker", o)'
  BY <1>0, <1>1, BeginEffect DEF NcTypes
<1>3. UNCHANGED <<manifest, sidecar, output, damaged, missed>>
  BY DEF Calculate, files
<1>4. toolpath' = [toolpath EXCEPT ![o] = fresh + 1]  BY DEF Calculate
<1>5. \A a \in Artifact : a.src = toolpath[a.op] =>
          a.src = toolpath'[a.op] \/ Marks("worker", a.op)'
  <2> SUFFICES ASSUME NEW a \in Artifact, a.src = toolpath[a.op]
               PROVE  a.src = toolpath'[a.op] \/ Marks("worker", a.op)'
    OBVIOUS
  <2>1. CASE a.op = o  BY <1>2, <2>1
  <2>2. CASE a.op # o
    <3>1. toolpath'[a.op] = toolpath[a.op]
      BY <1>4, <2>2 DEF NcTypes, NcScalarsTyped, Artifact
    <3> QED  BY <3>1
  <2> QED  BY <2>1, <2>2
<1> QED  BY <1>0, <1>2, <1>3, <1>5, OneThreadOutside

\* A restart finds the files at rest when nobody was writing; what lost its
\* toolpath or its thread is missed.
LEMMA RestartKeepsOrder ==
    ASSUME NcTypes, NcOrder, Restart
    PROVE  NcOrder'
<1> SUFFICES ASSUME ~damaged' PROVE NcOrder'  BY DEF NcOrder
<1>1. ~damaged /\ \A t \in Thread :
          ~(thread[t] # Idle /\ thread[t].pc \in {"write", "remove", "undo"})
  BY DEF Restart
<1>2. /\ \A t \in Thread : Busy(t) => AtWork(t, thread[t])
      /\ (\A t \in Thread : ~Busy(t)) => AtRest
  BY <1>1 DEF NcOrder
<1>3. UNCHANGED <<manifest, sidecar, output>>  BY DEF Restart, files
<1>4. /\ toolpath' = saved
      /\ missed' = missed \cup {o \in Ops : saved[o] # toolpath[o]}
                     \cup {o \in Ops : \E t \in Thread :
                             /\ thread[t] # Idle
                             /\ thread[t].kind \in {"mark", "publish"} /\ thread[t].op = o}
  BY DEF Restart
<1>5. \A t \in Thread : thread'[t] = Idle  BY DEF Restart
<1>6. \A t \in Thread : ~Busy(t)'
  BY <1>5 DEF Busy, BusyPc, Idle
<1>7. ASSUME NEW a \in Artifact, NEW T \in SUBSET Thread, Attended(a, T)
      PROVE  Attended(a, Thread)'
  <2>0. a.op \in Ops  BY DEF Artifact
  <2>1. CASE a.src = toolpath[a.op]
    BY <1>4, <2>0, <2>1 DEF Attended
  <2>2. CASE a.op \in missed
    BY <1>4, <2>2 DEF Attended
  <2>3. CASE \E t \in Thread : Marks(t, a.op)
    <3>1. PICK t \in Thread : Marks(t, a.op)  BY <2>3
    <3>2. thread[t] # Idle  BY <3>1 DEF Marks, Idle
    <3>3. a.op \in missed'  BY <1>4, <2>0, <3>1, <3>2 DEF Marks
    <3> QED  BY <3>3 DEF Attended
  <2>4. CASE \E t \in T : Publishes(t, a)
    <3>1. PICK t \in Thread : Publishes(t, a)  BY <2>4
    <3>2. thread[t] # Idle  BY <3>1 DEF Publishes, Idle
    <3>3. thread[t].op = a.op
      BY <3>1, <3>2 DEF Publishes, NcTypes, NcThreadsTyped, Proper
    <3>4. a.op \in missed'  BY <1>4, <2>0, <3>1, <3>2, <3>3 DEF Publishes
    <3> QED  BY <3>4 DEF Attended
  <2>5. \/ a.src = toolpath[a.op] \/ a.op \in missed
        \/ (\E t \in Thread : Marks(t, a.op)) \/ (\E t \in T : Publishes(t, a))
    BY <1>7 DEF Attended
  <2> QED  BY <2>1, <2>2, <2>3, <2>4, <2>5
<1>8. AtRest'
  <2>1. CASE \A t \in Thread : ~Busy(t)
    <3>1. AtRest  BY <1>2, <2>1
    <3> QED  BY <1>3, <1>7, <3>1 DEF AtRest, Readable, Settled
  <2>2. CASE \E t \in Thread : Busy(t)
    <3>1. PICK t \in Thread : Busy(t)  BY <2>2
    <3>2. thread[t].pc = "keep" /\ thread[t].kind = "publish"
      BY <1>1, <3>1, BusyHasOp DEF Busy, BusyPc, NcTypes, Proper
    <3>3. AtWork(t, thread[t])  BY <1>2, <3>1
    <3>4. /\ manifest = thread[t].was.manifest /\ sidecar = thread[t].was.sidecar
          /\ OutputsOf(thread[t]) /\ WasAtRest(t, thread[t])
      BY <3>2, <3>3 DEF AtWork
    <3>5. Readable'
      BY <1>3, <3>4 DEF Readable, WasAtRest
    <3>6. Settled(manifest, output, Thread)'
      <4>1. \A a \in Artifact : a.name \in Names /\ a # NoFile
        BY NoFileAssumption DEF Artifact
      <4>2. \A a \in Artifact : output[a.name] = a => thread[t].was.output[a.name] = a
        BY <3>2, <3>4, <4>1 DEF OutputsOf
      <4>3. Settled(thread[t].was.manifest, thread[t].was.output, Thread \ {t})
        BY <3>2, <3>4 DEF WasAtRest
      <4> QED  BY <1>3, <1>7, <3>4, <4>2, <4>3 DEF Settled
    <3> QED  BY <3>5, <3>6 DEF AtRest
  <2> QED  BY <2>1, <2>2
<1> QED  BY <1>6, <1>8 DEF NcOrder

\* An access that does not overlap another one.
LEMMA NoOverlap ==
    ASSUME NEW t \in Thread, Overlap(t), ~damaged'
    PROVE  ~damaged /\ \A u \in Thread \ {t} : ~Busy(u)
  BY DEF Overlap

\* Leaving the registry keeps the order of the store.
LEMMA MarkRegistryKeepsOrder ==
    ASSUME NcTypes, NcOrder, NEW t \in Thread, MarkRegistry(t)
    PROVE  NcOrder'
<1>1. /\ thread[t].pc = "registry"
      /\ UNCHANGED <<toolpath, manifest, sidecar, output, damaged, missed>>
  BY DEF MarkRegistry, project, files, history
<1>2. \A u \in Thread :
          /\ thread[u] = Idle => thread'[u] = Idle
          /\ thread[u] # Idle =>
                /\ SameOp(thread'[u], thread[u])
                /\ thread'[u].pc = IF u = t THEN "load" ELSE thread[u].pc
  BY MarkRegistryEffect DEF NcTypes
<1>3. \A u \in Thread : thread[u].pc # "idle" => thread[u] # Idle  BY DEF Idle
<1>4. \A u \in Thread : Busy(u)' => Busy(u)
  BY <1>1, <1>2, <1>3 DEF Busy, BusyPc, Idle
<1>5. \A u \in Thread : Busy(u) => SameOp(thread'[u], thread[u]) /\ thread'[u].pc = thread[u].pc
  BY <1>1, <1>2, <1>3 DEF Busy, BusyPc
<1>6. \A u \in Thread : \A o \in Ops : Marks(u, o) => Marks(u, o)'
  <2> SUFFICES ASSUME NEW u \in Thread, NEW o \in Ops, Marks(u, o) PROVE Marks(u, o)'  OBVIOUS
  <2>1. thread[u] # Idle  BY <1>3 DEF Marks
  <2> QED  BY <1>2, <2>1 DEF Marks, SameOp
<1>7. \A u \in Thread : \A a \in Artifact : Publishes(u, a) => Publishes(u, a)'
  <2> SUFFICES ASSUME NEW u \in Thread, NEW a \in Artifact, Publishes(u, a)
               PROVE  Publishes(u, a)'
    OBVIOUS
  <2>1. thread[u] # Idle /\ u # t  BY <1>1, <1>3 DEF Publishes
  <2> QED  BY <1>2, <2>1 DEF Publishes, SameOp
<1>8. \A T \in SUBSET Thread : \A a \in Artifact : Attended(a, T) => Attended(a, T)'
  BY <1>1, <1>6, <1>7, AttendedKept
<1> QED  BY <1>1, <1>4, <1>5, <1>8, OutsideStep

\* An operation that cannot begin leaves what it was to mark missed.
LEMMA LoadFailsKeepsOrder ==
    ASSUME NcTypes, NcOrder, NEW t \in Thread, LoadFails(t)
    PROVE  NcOrder'
<1>1. /\ thread[t].pc = "load" /\ thread' = [thread EXCEPT ![t] = Idle]
      /\ missed' = missed \cup Misses(thread[t])
      /\ UNCHANGED <<toolpath, manifest, sidecar, output, damaged>>
  BY DEF LoadFails, project, files
<1>2. thread'[t] = Idle /\ \A u \in Thread \ {t} : thread'[u] = thread[u]
  BY <1>1 DEF NcTypes, NcThreadsTyped
<1>3. ~Busy(t) /\ ~Busy(t)'  BY <1>1, <1>2 DEF Busy, BusyPc, Idle
<1>4. \A o \in Ops : Marks(t, o) => o \in missed'  BY <1>1 DEF Marks, Misses
<1>5. \A a \in Artifact : ~Publishes(t, a)  BY <1>1 DEF Publishes
<1> QED  BY <1>1, <1>2, <1>3, <1>4, <1>5, OneThreadOutside

\* An operation with nothing to write: an invalidation finds nothing current.
LEMMA LoadNothingKeepsOrder ==
    ASSUME NcTypes, NcOrder, NEW t \in Thread, Load(t),
           thread[t].kind # "publish", Candidate(thread[t]) = manifest,
           thread' = [thread EXCEPT ![t] = [thread[t] EXCEPT !.pc = "succeed"]]
    PROVE  NcOrder'
<1> SUFFICES ASSUME ~damaged' PROVE NcOrder'  BY DEF NcOrder
<1> DEFINE x == thread[t]
<1>1. /\ x.pc = "load" /\ Overlap(t)
      /\ UNCHANGED <<toolpath, manifest, sidecar, output, missed>>
  BY DEF Load, project, files
<1>2. x \in StoreOps /\ x # Idle  BY <1>1, StepHasOp DEF NcTypes
<1>3. /\ thread'[t].pc = "succeed" /\ SameOp(thread'[t], x)
      /\ \A u \in Thread \ {t} : thread'[u] = thread[u]
  BY <1>2, PcUpdate DEF NcTypes, NcThreadsTyped
<1>4. ~damaged /\ \A u \in Thread \ {t} : ~Busy(u)  BY <1>1, NoOverlap
<1>5. ~Busy(t) /\ ~Busy(t)'  BY <1>1, <1>3 DEF Busy, BusyPc
<1>6. AtRest /\ \A u \in Thread : ~Busy(u)'
  <2>1. \A u \in Thread : ~Busy(u)  BY <1>4, <1>5
  <2>2. \A u \in Thread \ {t} : ~Busy(u)'  BY <1>3, <1>4 DEF Busy
  <2> QED  BY <1>4, <1>5, <2>1, <2>2 DEF NcOrder
<1>7. ASSUME NEW a \in Artifact, manifest[a] = "current", Attended(a, Thread)
      PROVE  Attended(a, Thread)'
  <2>1. x.kind = "mark" => a.op # x.op
    <3> SUFFICES ASSUME x.kind = "mark", a.op = x.op PROVE FALSE  OBVIOUS
    <3>1. manifest = Staled(Of(x.op))  BY DEF Candidate
    <3> QED  BY <1>7, <3>1 DEF Staled, Of
  <2>2. \A u \in Thread : Marks(u, a.op) => Marks(u, a.op)'
    BY <1>3, <2>1 DEF Marks
  <2>3. \A u \in Thread : Publishes(u, a) => Publishes(u, a)'
    BY <1>1, <1>3 DEF Publishes
  <2> QED  BY <1>1, <1>7, <2>2, <2>3 DEF Attended
<1>8. AtRest'
  BY <1>1, <1>6, <1>7 DEF AtRest, Readable, Settled
<1> QED  BY <1>6, <1>8 DEF NcOrder

\* An export that is compared with its toolpath is current, or marked.
LEMMA RecheckKeepsOrder ==
    ASSUME NcTypes, NcOrder, NEW t \in Thread, Recheck(t)
    PROVE  NcOrder'
<1> DEFINE x == thread[t]
<1>1. /\ x.pc = "succeed" /\ x.kind = "publish"
      /\ UNCHANGED <<toolpath, manifest, sidecar, output, damaged, missed>>
  BY DEF Recheck, project, files, history
<1>2. x \in StoreOps /\ x # Idle /\ Proper(t, x)  BY <1>1, StepHasOp DEF NcTypes
<1>3. \A o \in Ops : ~Marks(t, o)  BY <1>1 DEF Marks
<1>4. CASE StillCurrent(x)
  <2>1. thread' = [thread EXCEPT ![t] = [x EXCEPT !.pc = "register"]]
    BY <1>4 DEF Recheck
  <2>2. /\ thread'[t].pc = "register"
        /\ \A u \in Thread \ {t} : thread'[u] = thread[u]
    BY <1>2, <2>1, PcUpdate DEF NcTypes, NcThreadsTyped
  <2>3. ~Busy(t) /\ ~Busy(t)'  BY <1>1, <2>2 DEF Busy, BusyPc
  <2>4. \A a \in Artifact : Publishes(t, a) => a.src = toolpath'[a.op]
    BY <1>1, <1>2, <1>4 DEF Publishes, StillCurrent, Proper
  <2> QED  BY <1>1, <1>3, <2>2, <2>3, <2>4, OneThreadOutside
<1>5. CASE ~StillCurrent(x)
  <2> DEFINE y == [x EXCEPT !.pc = "load", !.kind = "mark",
                            !.want = NoFile, !.was = NoFile, !.done = {}]
  <2>1. thread' = [thread EXCEPT ![t] = y]  BY <1>5 DEF Recheck
  <2>2. y.pc = "load" /\ y.kind = "mark" /\ y.op = x.op
    <3> HIDE DEF x
    <3> QED  BY <1>2 DEF StoreOps
  <2> HIDE DEF y
  <2>3. thread'[t] = y /\ \A u \in Thread \ {t} : thread'[u] = thread[u]
    BY <2>1 DEF NcTypes, NcThreadsTyped
  <2>4. ~Busy(t) /\ ~Busy(t)'  BY <1>1, <2>2, <2>3 DEF Busy, BusyPc
  <2>5. \A a \in Artifact : Publishes(t, a) => Marks(t, a.op)'
    BY <1>1, <1>2, <2>2, <2>3 DEF Publishes, Marks, Proper
  <2> QED  BY <1>1, <1>3, <2>3, <2>4, <2>5, OneThreadOutside
<1> QED  BY <1>4, <1>5

\* The end of an operation that has succeeded.
LEMMA FinishKeepsOrder ==
    ASSUME NcTypes, NcOrder, NEW t \in Thread, Register(t) \/ Finish(t)
    PROVE  NcOrder'
<1>1. /\ thread[t].pc = "register" \/ (thread[t].pc = "succeed" /\ thread[t].kind # "publish")
      /\ thread' = [thread EXCEPT ![t] = Idle]
      /\ UNCHANGED <<toolpath, manifest, sidecar, output, damaged, missed>>
  BY DEF Register, Finish, project, files, history
<1>2. thread'[t] = Idle /\ \A u \in Thread \ {t} : thread'[u] = thread[u]
  BY <1>1 DEF NcTypes, NcThreadsTyped
<1>3. ~Busy(t) /\ ~Busy(t)'  BY <1>1, <1>2 DEF Busy, BusyPc, Idle
<1>4. /\ \A o \in Ops : ~Marks(t, o)
      /\ \A a \in Artifact : ~Publishes(t, a)
  BY <1>1 DEF Marks, Publishes
<1> QED  BY <1>1, <1>2, <1>3, <1>4, OneThreadOutside

\* The candidate has no other current artifacts than the manifest it is made of.
LEMMA CandidateGrows ==
    ASSUME NcFilesTyped, NEW x \in StoreOps,
           x.kind = "publish" => x.new \in Artifact /\ x.new.op = x.op,
           NEW a \in Artifact, Candidate(x)[a] = "current"
    PROVE  \/ x.kind = "publish" /\ a = x.new
           \/ /\ manifest[a] = "current"
              /\ x.kind \in {"publish", "mark"} => a.op # x.op
              /\ x.kind = "publish" => a.name # x.new.name
<1>1. CASE x.kind = "publish"
  <2>1. WithEntry(x.new)[a] = "current"  BY <1>1 DEF Candidate
  <2>2. a = x.new \/ (a.name # x.new.name /\ Staled(Of(x.op))[a] = "current")
    BY <1>1, <2>1 DEF WithEntry
  <2> QED  BY <1>1, <2>2 DEF Staled, Of
<1>2. CASE x.kind = "mark"
  BY <1>2 DEF Candidate, Staled, Of
<1>3. CASE x.kind = "reconcile"
  BY <1>3 DEF Candidate, Staled
<1>4. CASE x.kind = "clear"
  BY <1>4 DEF Candidate
<1>5. CASE x.kind = "flush"
  BY <1>5 DEF Candidate, Inspected
<1> QED  BY <1>1, <1>2, <1>3, <1>4, <1>5 DEF StoreOps, Kind

\* The plan writes the candidate, and everything in which it differs from
\* files that agree.
LEMMA PlanWritesCandidate ==
    ASSUME NcFilesTyped, Readable, NEW x \in StoreOps, x.kind = "publish" => x.new \in Artifact
    PROVE  LET m == Candidate(x) IN
           /\ \A w \in Plan(x, m) :
                 \/ x.kind = "publish" /\ w = WriteOutput(x.new.name, x.new)
                 \/ \E a \in Entries(m) : w = WriteSidecar(a, m[a])
                 \/ w = WriteManifest(m)
           /\ \A a \in Entries(m) : sidecar[a] = m[a] \/ WriteSidecar(a, m[a]) \in Plan(x, m)
           /\ WriteManifest(m) \in Plan(x, m)
<1> DEFINE m == Candidate(x)
<1>1. x.kind = "publish" => x.new \in Entries(m)
  <2> SUFFICES ASSUME x.kind = "publish" PROVE x.new \in Entries(m)  OBVIOUS
  <2>1. m = WithEntry(x.new)  BY DEF Candidate
  <2>2. m[x.new] = "current"  BY <2>1 DEF WithEntry
  <2> QED  BY <2>2 DEF Entries
<1> HIDE DEF m
<1>2. \A w \in Plan(x, m) :
          \/ x.kind = "publish" /\ w = WriteOutput(x.new.name, x.new)
          \/ \E a \in Entries(m) : w = WriteSidecar(a, m[a])
          \/ w = WriteManifest(m)
  BY <1>1 DEF Plan
<1>3. WriteManifest(m) \in Plan(x, m)  BY DEF Plan
<1>4. ASSUME NEW a \in Entries(m)
      PROVE  sidecar[a] = m[a] \/ WriteSidecar(a, m[a]) \in Plan(x, m)
  <2>1. CASE x.kind = "publish" /\ m[a] = manifest[a]
    <3>1. a \in Artifact /\ m[a] # "none"  BY DEF Entries
    <3> QED  BY <2>1, <3>1 DEF Readable
  <2>2. CASE x.kind = "publish" /\ m[a] # manifest[a]
    BY <2>2 DEF Plan
  <2>3. CASE x.kind # "publish"
    BY <2>3 DEF Plan
  <2> QED  BY <2>1, <2>2, <2>3
<1> QED  BY <1>2, <1>3, <1>4 DEF m

\* What is removed is not in the candidate, and one sidecar at most after an
\* export.
LEMMA GarbageIsSuperfluous ==
    ASSUME NcFilesTyped, NEW x \in StoreOps, x.kind = "publish" => x.new \in Artifact
    PROVE  /\ \A w \in Garbage(x) :
                 \/ \E a \in Artifact : w = WriteSidecar(a, "none") /\ Candidate(x)[a] = "none"
                 \/ x.kind # "publish" /\ \E n \in Names : w = WriteOutput(n, NoFile)
           /\ x.kind = "publish" => \A v, w \in Garbage(x) : v = w
<1>1. CASE x.kind = "publish"
  <2> DEFINE B == {b \in Entries(manifest) \ {x.new} : b.name = x.new.name}
  <2>1. Garbage(x) = {WriteSidecar(a, "none") : a \in B}  BY <1>1 DEF Garbage
  <2>2. \A a \in B : a \in Artifact /\ Candidate(x)[a] = "none"
    BY <1>1 DEF Entries, Candidate, WithEntry
  <2>3. \A a, b \in B : a = b
    BY DEF Entries, NcFilesTyped, Manifests, NamedOnce
  <2> HIDE DEF B
  <2> QED  BY <1>1, <2>1, <2>2, <2>3
<1>2. CASE x.kind = "clear"
  <2>1. \A w \in Garbage(x) : \E a \in Entries(manifest) \cap Of(x.op) :
            w \in {WriteOutput(a.name, NoFile), WriteSidecar(a, "none")}
    BY <1>2 DEF Garbage
  <2>2. \A a \in Of(x.op) : a \in Artifact /\ a.name \in Names /\ Candidate(x)[a] = "none"
    BY <1>2 DEF Candidate, Of, Artifact
  <2> QED  BY <1>2, <2>1, <2>2
<1>3. CASE x.kind \notin {"publish", "clear"}
  BY <1>3 DEF Garbage
<1> QED  BY <1>1, <1>2, <1>3

\* A thread at work goes on: nobody else is concerned.
LEMMA WorkGoesOn ==
    ASSUME NcTypes, NcOrder, NEW t \in Thread, Busy(t),
           ~damaged' => ~damaged,
           \A u \in Thread \ {t} : thread'[u] = thread[u],
           Busy(t)',
           ~damaged' /\ AtWork(t, thread[t]) => AtWork(t, thread[t])'
    PROVE  NcOrder'
<1> SUFFICES ASSUME ~damaged' PROVE NcOrder'  BY DEF NcOrder
<1>1. AtWork(t, thread[t]) /\ \A u \in Thread \ {t} : ~Busy(u)  BY DEF NcOrder
<1>2. \A u \in Thread \ {t} : ~Busy(u)'  BY <1>1 DEF Busy
<1> QED  BY <1>1, <1>2 DEF NcOrder

\* A thread at work ends its work, and leaves the files at rest.
LEMMA WorkEnds ==
    ASSUME NcTypes, NcOrder, NEW t \in Thread, Busy(t),
           ~damaged' => ~damaged,
           \A u \in Thread \ {t} : thread'[u] = thread[u],
           ~Busy(t)',
           ~damaged' /\ AtWork(t, thread[t]) => AtRest'
    PROVE  NcOrder'
<1> SUFFICES ASSUME ~damaged' PROVE NcOrder'  BY DEF NcOrder
<1>1. AtWork(t, thread[t]) /\ \A u \in Thread \ {t} : ~Busy(u)  BY DEF NcOrder
<1>2. \A u \in Thread : ~Busy(u)'  BY <1>1 DEF Busy
<1> QED  BY <1>1, <1>2 DEF NcOrder

\* The work of a thread leaves artifacts attended, unless an invalidation has
\* verified what it wrote.
LEMMA WorkAttends ==
    ASSUME NEW t \in Thread, UNCHANGED <<toolpath, missed>>,
           \A u \in Thread \ {t} : thread'[u] = thread[u],
           thread'[t].kind = thread[t].kind, thread'[t].op = thread[t].op,
           thread'[t].new = thread[t].new,
           thread[t].pc \in BusyPc, thread[t].pc = "keep" => thread[t].kind = "publish",
           thread'[t].pc \in {"write", "remove", "undo"},
           thread'[t].pc = "remove" /\ thread[t].kind = "mark" => thread[t].pc = "remove"
    PROVE  \A T \in SUBSET Thread : \A a \in Artifact : Attended(a, T) => Attended(a, T)'
<1>1. \A u \in Thread \ {t} : /\ \A o \in Ops : Marks(u, o) => Marks(u, o)'
                              /\ \A a \in Artifact : Publishes(u, a) => Publishes(u, a)'
  BY DEF Marks, Publishes
<1>2. \A o \in Ops : Marks(t, o) => Marks(t, o)'
  BY DEF Marks, BusyPc
<1>3. \A a \in Artifact : Publishes(t, a) => Publishes(t, a)'
  BY DEF Publishes
<1>4. \A u \in Thread : /\ \A o \in Ops : Marks(u, o) => Marks(u, o)'
                        /\ \A a \in Artifact : Publishes(u, a) => Publishes(u, a)'
  BY <1>1, <1>2, <1>3
<1> QED  BY <1>4, AttendedKept

\* An operation that begins its work finds the files at rest.
LEMMA LoadWorkKeepsOrder ==
    ASSUME NcTypes, NcOrder, NEW t \in Thread, Load(t),
           thread' = [thread EXCEPT ![t] = Loaded(thread[t])]
    PROVE  NcOrder'
<1> SUFFICES ASSUME ~damaged' PROVE NcOrder'  BY DEF NcOrder
<1> DEFINE x == thread[t]
           m == Candidate(x)
           y == Loaded(x)
<1>1. /\ x.pc = "load" /\ Overlap(t) /\ Readable
      /\ UNCHANGED <<toolpath, manifest, sidecar, output, missed>>
  BY DEF Load, project, files
<1>2. x \in StoreOps /\ x # Idle /\ Proper(t, x)  BY <1>1, StepHasOp DEF NcTypes
<1>3. /\ thread'[t] = y
      /\ \A u \in Thread \ {t} : thread'[u] = thread[u]
  BY DEF NcTypes, NcThreadsTyped
<1>4. /\ y.pc = IF x.kind = "publish" THEN "keep" ELSE "write"
      /\ y.kind = x.kind /\ y.op = x.op /\ y.new = x.new
      /\ y.want = m
      /\ y.was.manifest = manifest /\ y.was.sidecar = sidecar /\ y.was.output = output
      /\ y.todo = Plan(x, m) /\ y.done = {} /\ y.garbage = Garbage(x)
  BY <1>1, <1>2, LoadedFields DEF NcTypes
<1>5. x.kind = "publish" => x.new \in Artifact /\ x.new.op = x.op  BY <1>2 DEF Proper
<1>f. NcFilesTyped  BY DEF NcTypes
<1> HIDE DEF y, m
<1>6. ~damaged /\ \A u \in Thread \ {t} : ~Busy(u)  BY <1>1, NoOverlap
<1>7. ~Busy(t) /\ Busy(t)'  BY <1>1, <1>3, <1>4 DEF Busy, BusyPc
<1>8. AtRest
  <2>1. \A u \in Thread : ~Busy(u)  BY <1>6, <1>7
  <2> QED  BY <1>6, <2>1 DEF NcOrder
<1>9. ASSUME NEW a \in Artifact, Attended(a, Thread)
      PROVE  Attended(a, Thread \ {t})'
  <2>1. \A u \in Thread : Marks(u, a.op) => Marks(u, a.op)'
    BY <1>1, <1>3, <1>4 DEF Marks
  <2>2. ~Publishes(t, a)  BY <1>1 DEF Publishes
  <2>3. \A u \in Thread \ {t} : Publishes(u, a) => Publishes(u, a)'
    BY <1>3 DEF Publishes
  <2> QED  BY <1>1, <1>9, <2>1, <2>2, <2>3 DEF Attended
<1>10. AtWork(t, thread[t])'
  <2>1. Planned(thread[t])'
    BY <1>1, <1>2, <1>3, <1>4, <1>5, <1>f, PlanWritesCandidate DEF Planned, m
  <2>2. Kept(thread[t])'  BY <1>3, <1>4 DEF Kept
  <2>3. Grown(thread[t])'
    BY <1>2, <1>3, <1>4, <1>5, <1>f, CandidateGrows DEF Grown, m
  <2>4. Superfluous(thread[t])'
    BY <1>2, <1>3, <1>4, <1>5, <1>f, GarbageIsSuperfluous DEF Superfluous, m
  <2>5. manifest' = y.was.manifest /\ sidecar' = y.was.sidecar /\ output' = y.was.output
    BY <1>1, <1>4
  <2>6. OutputsOf(thread[t])'  BY <1>3, <2>5 DEF OutputsOf
  <2>7. Untouched(thread[t])'  BY <1>3, <2>5 DEF Untouched
  <2>8. Ahead(thread[t])'
    <3>1. /\ \A a \in Entries(m) : sidecar[a] = m[a] \/ WriteSidecar(a, m[a]) \in Plan(x, m)
          /\ WriteManifest(m) \in Plan(x, m)
      BY <1>1, <1>2, <1>5, <1>f, PlanWritesCandidate DEF m
    <3> QED  BY <1>1, <1>3, <1>4, <3>1 DEF Ahead
  <2>9. WasAtRest(t, thread[t])'
    <3>1. \A a \in Artifact : y.was.manifest[a] # "none" => y.was.sidecar[a] = y.was.manifest[a]
      BY <1>1, <1>4 DEF Readable
    <3>2. Settled(manifest, output, Thread \ {t})'
      BY <1>1, <1>8, <1>9 DEF AtRest, Settled
    <3>3. Settled(thread[t].was.manifest, thread[t].was.output, Thread \ {t})'
      BY <1>1, <1>3, <1>4, <3>2 DEF Settled
    <3>4. Settled(thread[t].was.manifest, output, Thread \ {t})'
      BY <1>1, <1>3, <1>4, <3>2 DEF Settled
    <3> QED  BY <1>3, <3>1, <3>3, <3>4 DEF WasAtRest
  <2>10. Restorable(thread[t])'  BY <1>3, <2>5 DEF Restorable
  <2>11. y.pc \in {"keep", "write"} /\ (y.pc = "keep" <=> y.kind = "publish")  BY <1>4
  <2> QED  BY <1>3, <2>1, <2>2, <2>3, <2>4, <2>5, <2>6, <2>7, <2>8, <2>9, <2>10, <2>11
           DEF AtWork
<1>11. \A u \in Thread \ {t} : ~Busy(u)'  BY <1>3, <1>6 DEF Busy
<1> QED  BY <1>7, <1>10, <1>11 DEF NcOrder

\* Two records of one operation at work, whatever files they have left.
SameWork(y, x) ==
    y.kind = x.kind /\ y.op = x.op /\ y.new = x.new /\ y.want = x.want /\ y.was = x.was

\* A work step as it is seen from the work.
LEMMA WorkStepSeen ==
    ASSUME NcTypes, NEW t \in Thread, thread[t].pc \in BusyPc,
           NEW at \in {"write", "remove", "undo"}, NEW W \in SUBSET FileWrites,
           NEW D \in SUBSET FileWrites, NEW G \in SUBSET FileWrites,
           WorkStep(t, at, W, D, G)
    PROVE  /\ \A u \in Thread \ {t} : thread'[u] = thread[u]
           /\ thread'[t].pc = at /\ thread'[t].todo = W
           /\ thread'[t].done = D /\ thread'[t].garbage = G
           /\ SameWork(thread'[t], thread[t])
<1>1. at \in BusyPc \ {"keep"}  BY DEF BusyPc
<1> QED  BY <1>1, WorkStepEffect DEF NcTypes, SameWork

\* A thread at work that has less to write and to remove goes on with its plan.
LEMMA WorkKeepsPlan ==
    ASSUME NEW t \in Thread, AtWork(t, thread[t]),
           SameWork(thread'[t], thread[t]),
           thread'[t].todo \subseteq thread[t].todo,
           thread'[t].garbage \subseteq thread[t].garbage
    PROVE  (Planned(thread[t]) /\ Grown(thread[t]) /\ Superfluous(thread[t]))'
<1>1. Planned(thread[t])'  BY DEF AtWork, Planned, SameWork
<1>2. Grown(thread[t])'  BY DEF AtWork, Grown, SameWork
<1>3. Superfluous(thread[t])'  BY DEF AtWork, Superfluous, SameWork
<1> QED  BY <1>1, <1>2, <1>3

\* The files it found were at rest, and that stays so.
LEMMA WorkKeepsPast ==
    ASSUME NEW t \in Thread, WasAtRest(t, thread[t]),
           SameWork(thread'[t], thread[t]),
           thread[t].kind # "publish" => \A n \in Names : output'[n] \in {output[n], NoFile},
           \A T \in SUBSET Thread : \A a \in Artifact : Attended(a, T) => Attended(a, T)'
    PROVE  WasAtRest(t, thread[t])'
<1> DEFINE x == thread[t]
           y == thread'[t]
<1>n. \A a \in Artifact : a.name \in Names /\ a # NoFile
  BY NoFileAssumption DEF Artifact
<1>0. y.kind = x.kind /\ y.was = x.was  BY DEF SameWork
<1>1. \A a \in Artifact : y.was.manifest[a] # "none" => y.was.sidecar[a] = y.was.manifest[a]
  BY <1>0 DEF WasAtRest
<1>2. CASE x.kind = "publish"
  <2>1. Settled(thread[t].was.manifest, thread[t].was.output, Thread \ {t})'
    BY <1>0, <1>2 DEF WasAtRest, Settled
  <2> QED  BY <1>0, <1>1, <1>2, <2>1 DEF WasAtRest
<1>3. CASE x.kind # "publish"
  <2>1. Settled(thread[t].was.manifest, output, Thread \ {t})'
    BY <1>0, <1>n, <1>3 DEF WasAtRest, Settled
  <2> QED  BY <1>0, <1>1, <1>3, <2>1 DEF WasAtRest
<1> QED  BY <1>2, <1>3

\* An export that has kept what it is going to write has kept the old files.
LEMMA KeepKeepsOrder ==
    ASSUME NcTypes, NcOrder, NEW t \in Thread, Keep(t)
    PROVE  NcOrder'
<1> DEFINE x == thread[t]
           y == thread'[t]
<1>1. /\ x.pc = "keep" /\ KeptBy(x.todo) \subseteq FileWrites
      /\ WorkStep(t, "write", x.todo, KeptBy(x.todo), x.garbage)
  BY BusySteps DEF NcTypes
<1>2. UNCHANGED <<toolpath, manifest, sidecar, output, damaged, missed>>
  BY DEF Keep, project, files, history
<1>3. Busy(t) /\ x \in StoreOps /\ Proper(t, x) /\ x.pc \in BusyPc
  BY <1>1, StepHasOp DEF Busy, BusyPc, NcTypes
<1>4. /\ x.todo \subseteq FileWrites /\ x.garbage \subseteq FileWrites
      /\ x.kind = "publish"
  BY <1>1, <1>3 DEF StoreOps, Proper
<1>5. /\ \A u \in Thread \ {t} : thread'[u] = thread[u]
      /\ y.pc = "write" /\ y.todo = x.todo /\ y.done = KeptBy(x.todo) /\ y.garbage = x.garbage
      /\ SameWork(y, x)
  <2>1. KeptBy(x.todo) \in SUBSET FileWrites /\ x.todo \in SUBSET FileWrites
          /\ x.garbage \in SUBSET FileWrites /\ "write" \in {"write", "remove", "undo"}
    BY <1>1, <1>4
  <2> QED  BY <1>1, <1>3, <2>1, WorkStepSeen
<1>6. ASSUME AtWork(t, x) PROVE AtWork(t, thread[t])'
  <2>0. y.kind = x.kind /\ y.new = x.new /\ y.want = x.want /\ y.was = x.was
    BY <1>5 DEF SameWork
  <2>1. (Planned(thread[t]) /\ Grown(thread[t]) /\ Superfluous(thread[t]))'
    BY <1>5, <1>6, WorkKeepsPlan
  <2>2. manifest = x.was.manifest /\ sidecar = x.was.sidecar /\ OutputsOf(x) /\ Planned(x)
    BY <1>1, <1>4, <1>6 DEF AtWork
  <2>3. Kept(thread[t])'
    <3> SUFFICES ASSUME NEW v \in x.todo
                 PROVE  \/ Old(v).file = "output" /\ Old(v).key = x.new.name
                             /\ Old(v).val \in {x.was.output[Old(v).key], NoFile}
                        \/ \E a \in Artifact : Old(v) = WriteSidecar(a, x.was.sidecar[a])
                        \/ Old(v) = WriteManifest(x.was.manifest)
      BY <1>4, <1>5, <2>0 DEF Kept, KeptBy
    <3>1. CASE v = WriteOutput(x.new.name, x.new)
      <4>1. x.new.name \in Names  BY <1>3, <1>4 DEF Proper, Artifact
      <4>2. output[x.new.name] \in {x.was.output[x.new.name], NoFile}
        BY <1>1, <2>2, <4>1 DEF OutputsOf
      <4> QED  BY <3>1, <4>2 DEF Old, WriteOutput
    <3>2. CASE \E a \in Entries(x.want) : v = WriteSidecar(a, x.want[a])
      BY <2>2, <3>2 DEF Old, WriteSidecar, Entries
    <3>3. CASE v = WriteManifest(x.want)
      BY <2>2, <3>3 DEF Old, WriteManifest
    <3> QED  BY <2>2, <3>1, <3>2, <3>3 DEF Planned
  <2>4. OutputsOf(thread[t])'
    BY <1>1, <1>2, <1>4, <1>5, <2>0, <2>2 DEF OutputsOf
  <2>5. Untouched(thread[t])'
    BY <1>2, <2>0, <2>2 DEF Untouched
  <2>6. Ahead(thread[t])'
    BY <1>1, <1>2, <1>5, <1>6, <2>0 DEF AtWork, Ahead
  <2>7. AllKept(thread[t])'
    <3> SUFFICES ASSUME NEW w \in x.todo
                 PROVE  \E v \in KeptBy(x.todo) : v.file = w.file /\ v.key = w.key
      BY <1>5 DEF AllKept
    <3>1. Old(w) \in KeptBy(x.todo)  BY DEF KeptBy
    <3> QED  BY <1>4, <3>1, OldIsFileWrite DEF NcTypes
  <2>8. WasAtRest(t, thread[t])'
    <3>1. WasAtRest(t, x)  BY <1>1, <1>6 DEF AtWork
    <3>2. \A T \in SUBSET Thread : \A a \in Artifact : Attended(a, T) => Attended(a, T)'
      BY <1>1, <1>2, <1>3, <1>4, <1>5, <2>0, WorkAttends DEF SameWork
    <3> QED  BY <1>4, <1>5, <3>1, <3>2, WorkKeepsPast
  <2>9. Restorable(thread[t])'
    <3>1. x.new.name \in Names  BY <1>3, <1>4 DEF Proper, Artifact
    <3>2. output[x.new.name] \in {x.was.output[x.new.name], NoFile}
      BY <1>1, <2>2, <3>1 DEF OutputsOf
    <3> QED  BY <1>2, <2>0, <2>2, <3>2 DEF Restorable
  <2>10. manifest' \in {y.was.manifest, y.want}  BY <1>2, <2>0, <2>2
  <2> QED  BY <1>4, <1>5, <2>0, <2>1, <2>3, <2>4, <2>5, <2>6, <2>7, <2>8, <2>9, <2>10
           DEF AtWork
<1>7. Busy(t)'  BY <1>5 DEF Busy, BusyPc
<1> QED  BY <1>2, <1>3, <1>5, <1>6, <1>7, WorkGoesOn

\* What an operation that is not an export keeps is as it was before.
LEMMA UntouchedIsOld ==
    ASSUME NEW x, Planned(x), Untouched(x), x.kind # "publish", NEW w \in x.todo
    PROVE  \/ \E a \in Artifact : Old(w) = WriteSidecar(a, x.was.sidecar[a])
           \/ Old(w) = WriteManifest(x.was.manifest)
<1>1. CASE \E a \in Entries(x.want) : w = WriteSidecar(a, x.want[a])
  <2>1. PICK a \in Entries(x.want) : w = WriteSidecar(a, x.want[a])  BY <1>1
  <2>2. a \in Artifact  BY DEF Entries
  <2>3. w.file = "sidecar" /\ w.key = a  BY <2>1 DEF WriteSidecar
  <2>4. sidecar[a] = x.was.sidecar[a]  BY <2>2, <2>3 DEF Untouched
  <2> QED  BY <2>2, <2>3, <2>4 DEF Old
<1>2. CASE w = WriteManifest(x.want)
  <2>1. w.file = "manifest"  BY <1>2 DEF WriteManifest
  <2> QED  BY <2>1 DEF Old, Untouched
<1> QED  BY <1>1, <1>2 DEF Planned

\* An operation that gives up has kept what it has changed.
LEMMA GiveUpKeepsOrder ==
    ASSUME NcTypes, NcOrder, NEW t \in Thread, KeepFails(t) \/ PutFails(t)
    PROVE  NcOrder'
<1> DEFINE x == thread[t]
           y == thread'[t]
<1>1. /\ x.pc \in {"keep", "write"}
      /\ \E D \in SUBSET FileWrites :
            /\ D = x.done \/ (x.pc = "write" /\ \E w \in x.todo : D = WithOld(x, w))
            /\ WorkStep(t, "undo", x.todo, D, x.garbage)
  <2>1. CASE KeepFails(t)
    <3>1. x.pc = "keep" /\ WorkStep(t, "undo", x.todo, x.done, x.garbage)
      BY <2>1, BusySteps DEF NcTypes
    <3>2. x.done \in SUBSET FileWrites  BY <3>1, StepHasOp DEF NcTypes, StoreOps
    <3> QED  BY <3>1, <3>2
  <2>2. CASE PutFails(t)
    <3>1. /\ x.pc = "write"
          /\ \E w \in x.todo : /\ WithOld(x, w) \subseteq FileWrites
                               /\ WorkStep(t, "undo", x.todo, WithOld(x, w), x.garbage)
      BY <2>2, BusySteps DEF NcTypes
    <3> QED  BY <3>1
  <2> QED  BY <2>1, <2>2
<1>2. UNCHANGED <<toolpath, manifest, sidecar, output, damaged, missed>>
  BY DEF KeepFails, PutFails, project, files, history
<1>3. Busy(t) /\ x \in StoreOps /\ Proper(t, x) /\ x.pc \in BusyPc
  BY <1>1, StepHasOp DEF Busy, BusyPc, NcTypes
<1>4. x.todo \subseteq FileWrites /\ x.garbage \subseteq FileWrites  BY <1>3 DEF StoreOps
<1>w. PICK D \in SUBSET FileWrites :
          /\ D = x.done \/ (x.pc = "write" /\ \E w \in x.todo : D = WithOld(x, w))
          /\ WorkStep(t, "undo", x.todo, D, x.garbage)
  BY <1>1
<1>5. /\ \A u \in Thread \ {t} : thread'[u] = thread[u]
      /\ y.pc = "undo" /\ y.todo = x.todo /\ y.done = D /\ y.garbage = x.garbage
      /\ SameWork(y, x)
  <2>1. x.todo \in SUBSET FileWrites /\ x.garbage \in SUBSET FileWrites
          /\ "undo" \in {"write", "remove", "undo"}
    BY <1>4
  <2>2. WorkStep(t, "undo", x.todo, D, x.garbage)  BY <1>w
  <2>3. D \in SUBSET FileWrites  BY <1>w
  <2>4. x.pc \in BusyPc  BY <1>3
  <2> HIDE DEF x
  <2> QED  BY <2>1, <2>2, <2>3, <2>4, WorkStepSeen DEF x
<1>6. ASSUME AtWork(t, x) PROVE AtWork(t, thread[t])'
  <2>0. y.kind = x.kind /\ y.new = x.new /\ y.want = x.want /\ y.was = x.was
    BY <1>5 DEF SameWork
  <2>1. (Planned(thread[t]) /\ Grown(thread[t]) /\ Superfluous(thread[t]))'
    BY <1>5, <1>6, WorkKeepsPlan
  <2>2. Kept(x) /\ Untouched(x) /\ Planned(x)  BY <1>1, <1>6 DEF AtWork
  <2>3. x.done \subseteq D  BY <1>w DEF WithOld
  <2>4. Kept(thread[t])'
    <3>1. CASE D = x.done  BY <1>5, <2>0, <2>2, <3>1 DEF Kept
    <3>2. CASE x.kind # "publish" /\ \E w \in x.todo : D = x.done \cup {Old(w)}
      BY <1>5, <2>0, <2>2, <3>2, UntouchedIsOld DEF Kept
    <3> QED  BY <1>w, <3>1, <3>2 DEF WithOld
  <2>5. x.kind = "publish" => OutputsOf(thread[t])'
    BY <1>2, <1>5, <1>6, <2>0 DEF AtWork, OutputsOf
  <2>6. WasAtRest(t, thread[t])'
    <3>1. WasAtRest(t, x)  BY <1>1, <1>6 DEF AtWork
    <3>2. \A T \in SUBSET Thread : \A a \in Artifact : Attended(a, T) => Attended(a, T)'
      BY <1>1, <1>2, <1>3, <1>5, WorkAttends DEF SameWork, Proper
    <3> QED  BY <1>2, <1>5, <3>1, <3>2, WorkKeepsPast
  <2>7. Restorable(thread[t])'
    <3>1. CASE x.pc = "write"
      <4>1. Restorable(x)  BY <1>6, <3>1 DEF AtWork
      <4> QED  BY <1>2, <1>5, <2>0, <2>3, <4>1 DEF Restorable
    <3>2. CASE x.pc = "keep"
      <4>1. x.kind = "publish" /\ x.new.name \in Names  BY <1>3, <3>2 DEF Proper, Artifact
      <4>2. manifest = x.was.manifest /\ sidecar = x.was.sidecar /\ OutputsOf(x)
        BY <1>6, <3>2, <4>1 DEF AtWork
      <4>3. output[x.new.name] \in {x.was.output[x.new.name], NoFile}
        BY <3>2, <4>1, <4>2 DEF OutputsOf
      <4> QED  BY <1>2, <2>0, <4>2, <4>3 DEF Restorable
    <3> QED  BY <1>1, <3>1, <3>2
  <2>8. manifest' \in {y.was.manifest, y.want}  BY <1>2, <1>6, <2>0 DEF AtWork
  <2> QED  BY <1>5, <2>0, <2>1, <2>4, <2>5, <2>6, <2>7, <2>8 DEF AtWork
<1>7. Busy(t)'  BY <1>5 DEF Busy, BusyPc
<1> QED  BY <1>2, <1>3, <1>5, <1>6, <1>7, WorkGoesOn

\* What is replaced, by the kind of the file.
LEMMA PutEffect ==
    ASSUME NEW w, Put(w)
    PROVE  /\ \A n, v : w = WriteOutput(n, v) =>
                 output' = [output EXCEPT ![n] = v] /\ UNCHANGED <<sidecar, manifest>>
           /\ \A a, s : w = WriteSidecar(a, s) =>
                 sidecar' = [sidecar EXCEPT ![a] = s] /\ UNCHANGED <<output, manifest>>
           /\ \A m : w = WriteManifest(m) =>
                 manifest' = m /\ UNCHANGED <<output, sidecar>>
  BY DEF Put, WriteOutput, WriteSidecar, WriteManifest

\* Files are told apart by what they are called.
LEMMA WritesApart ==
    /\ \A n, v : WriteOutput(n, v).file = "output" /\ WriteOutput(n, v).key = n
                     /\ WriteOutput(n, v).val = v
    /\ \A a, s : WriteSidecar(a, s).file = "sidecar" /\ WriteSidecar(a, s).key = a
                     /\ WriteSidecar(a, s).val = s
    /\ \A m : WriteManifest(m).file = "manifest" /\ WriteManifest(m).val = m
  BY DEF WriteOutput, WriteSidecar, WriteManifest

\* A write that follows the plan brings the files nearer to it.
LEMMA WriteAdvances ==
    ASSUME NcFilesTyped, NEW x, Planned(x), Untouched(x), Ahead(x), NEW w \in x.todo, Put(w)
    PROVE  /\ \A a \in Artifact :
                 (\E v \in x.todo \ {w} : v.file = "sidecar" /\ v.key = a)
                     => sidecar'[a] = x.was.sidecar[a]
           /\ (\E v \in x.todo \ {w} : v.file = "manifest") => manifest' = x.was.manifest
           /\ \A a \in Entries(x.want) :
                 sidecar'[a] = x.want[a] \/ WriteSidecar(a, x.want[a]) \in x.todo \ {w}
           /\ manifest' = x.want \/ WriteManifest(x.want) \in x.todo \ {w}
           /\ manifest' \in {manifest, x.want}
<1>0. sidecar \in [Artifact -> ArtifactStatus]  BY DEF NcFilesTyped, Sidecars
<1>e. Entries(x.want) \subseteq Artifact  BY DEF Entries
<1>1. \A v \in x.todo :
          /\ v.file = "sidecar" => \E a \in Entries(x.want) : v = WriteSidecar(a, x.want[a])
          /\ v.file = "manifest" => v = WriteManifest(x.want)
  BY WritesApart DEF Planned
<1>2. CASE w = WriteOutput(x.new.name, x.new)
  <2>1. UNCHANGED <<sidecar, manifest>>  BY <1>2, PutEffect
  <2>2. \A a : WriteSidecar(a, x.want[a]) # w  BY <1>2, WritesApart
  <2>3. WriteManifest(x.want) # w  BY <1>2, WritesApart
  <2> QED  BY <2>1, <2>2, <2>3 DEF Untouched, Ahead
<1>3. CASE \E a \in Entries(x.want) : w = WriteSidecar(a, x.want[a])
  <2>1. PICK b \in Entries(x.want) : w = WriteSidecar(b, x.want[b])  BY <1>3
  <2>2. sidecar' = [sidecar EXCEPT ![b] = x.want[b]] /\ UNCHANGED <<output, manifest>>
    BY <2>1, PutEffect
  <2>3. \A a \in Artifact : a # b => sidecar'[a] = sidecar[a]  BY <1>0, <2>2
  <2>4. sidecar'[b] = x.want[b]  BY <1>0, <1>e, <2>2
  <2>5. WriteManifest(x.want) # w  BY <2>1, WritesApart
  <2>6. \A a \in Artifact : (\E v \in x.todo \ {w} : v.file = "sidecar" /\ v.key = a) => a # b
    BY <1>1, <2>1, WritesApart
  <2>7. \A a : a # b => WriteSidecar(a, x.want[a]) # w  BY <2>1, WritesApart
  <2>8. \A a \in Artifact :
            (\E v \in x.todo \ {w} : v.file = "sidecar" /\ v.key = a)
                => sidecar'[a] = x.was.sidecar[a]
    BY <2>3, <2>6 DEF Untouched
  <2>9. \A a \in Entries(x.want) :
            sidecar'[a] = x.want[a] \/ WriteSidecar(a, x.want[a]) \in x.todo \ {w}
    BY <1>e, <2>3, <2>4, <2>7 DEF Ahead
  <2>10. (\E v \in x.todo \ {w} : v.file = "manifest") => manifest' = x.was.manifest
    BY <2>2 DEF Untouched
  <2>11. manifest' = x.want \/ WriteManifest(x.want) \in x.todo \ {w}
    BY <2>2, <2>5 DEF Ahead
  <2> QED  BY <2>2, <2>8, <2>9, <2>10, <2>11
<1>4. CASE w = WriteManifest(x.want)
  <2>1. manifest' = x.want /\ UNCHANGED sidecar  BY <1>4, PutEffect
  <2>2. \A a : WriteSidecar(a, x.want[a]) # w  BY <1>4, WritesApart
  <2>3. ~\E v \in x.todo \ {w} : v.file = "manifest"  BY <1>1, <1>4
  <2> QED  BY <2>1, <2>2, <2>3 DEF Untouched, Ahead
<1> QED  BY <1>2, <1>3, <1>4 DEF Planned

\* What a planned write replaces has been kept.
LEMMA WriteIsKept ==
    ASSUME NcFilesTyped, NEW x \in StoreOps, Planned(x), Untouched(x), Kept(x), Restorable(x),
           x.kind = "publish" => AllKept(x) /\ x.new \in Artifact,
           NEW w \in x.todo, Put(w)
    PROVE  LET D == WithOld(x, w) IN
           /\ \A a \in Artifact :
                 sidecar'[a] = x.was.sidecar[a] \/ WriteSidecar(a, x.was.sidecar[a]) \in D
           /\ manifest' = x.was.manifest \/ WriteManifest(x.was.manifest) \in D
           /\ x.kind = "publish" =>
                 \/ output'[x.new.name] \in {x.was.output[x.new.name], NoFile}
                 \/ \E v \in Artifact \cup {NoFile} : WriteOutput(x.new.name, v) \in D
<1> DEFINE D == WithOld(x, w)
<1>0. sidecar \in [Artifact -> ArtifactStatus] /\ x.done \subseteq FileWrites
  BY DEF NcFilesTyped, Sidecars, StoreOps
<1>1. x.done \subseteq D  BY DEF WithOld
<1>2. x.kind # "publish" => Old(w) \in D  BY DEF WithOld
<1>3. x.kind = "publish" => \E v \in D : v \in x.done /\ v.file = w.file /\ v.key = w.key
  BY DEF AllKept, WithOld
<1> HIDE DEF D
<1>4. CASE x.kind = "publish" /\ w = WriteOutput(x.new.name, x.new)
  <2>1. UNCHANGED <<sidecar, manifest>>  BY <1>4, PutEffect
  <2>2. PICK v \in D : v \in x.done /\ v.file = "output" /\ v.key = x.new.name
    BY <1>3, <1>4, WritesApart
  <2>3. v = WriteOutput(x.new.name, v.val) /\ v.val \in Artifact \cup {NoFile}
    BY <1>0, <2>2 DEF FileWrites, WriteOutput
  <2> QED  BY <1>1, <2>1, <2>2, <2>3 DEF Restorable, D
<1>5. CASE \E a \in Entries(x.want) : w = WriteSidecar(a, x.want[a])
  <2>1. PICK b \in Entries(x.want) : w = WriteSidecar(b, x.want[b])  BY <1>5
  <2>2. b \in Artifact  BY DEF Entries
  <2>3. sidecar' = [sidecar EXCEPT ![b] = x.want[b]] /\ UNCHANGED <<output, manifest>>
    BY <2>1, PutEffect
  <2>4. \A a \in Artifact : a # b => sidecar'[a] = sidecar[a]  BY <1>0, <2>3
  <2>5. WriteSidecar(b, x.was.sidecar[b]) \in D
    <3>1. CASE x.kind = "publish"
      <4>1. PICK v \in D : v \in x.done /\ v.file = "sidecar" /\ v.key = b
        BY <1>3, <2>1, <3>1, WritesApart
      <4>2. \E a \in Artifact : v = WriteSidecar(a, x.was.sidecar[a])
        BY <4>1, WritesApart DEF Kept
      <4> QED  BY <4>1, <4>2, WritesApart
    <3>2. CASE x.kind # "publish"
      <4>1. sidecar[b] = x.was.sidecar[b]  BY <2>1, <2>2, WritesApart DEF Untouched
      <4>2. Old(w) = WriteSidecar(b, sidecar[b])  BY <2>1, WritesApart DEF Old
      <4> QED  BY <1>2, <3>2, <4>1, <4>2
    <3> QED  BY <3>1, <3>2
  <2> QED  BY <1>1, <2>3, <2>4, <2>5 DEF Restorable, D
<1>6. CASE w = WriteManifest(x.want)
  <2>1. UNCHANGED <<output, sidecar>>  BY <1>6, PutEffect
  <2>2. WriteManifest(x.was.manifest) \in D
    <3>1. CASE x.kind = "publish"
      <4>1. PICK v \in D : v \in x.done /\ v.file = "manifest"
        BY <1>3, <1>6, <3>1, WritesApart
      <4> QED  BY <4>1, WritesApart DEF Kept
    <3>2. CASE x.kind # "publish"
      <4>1. manifest = x.was.manifest  BY <1>6, WritesApart DEF Untouched
      <4>2. Old(w) = WriteManifest(manifest)  BY <1>6, WritesApart DEF Old
      <4> QED  BY <1>2, <3>2, <4>1, <4>2
    <3> QED  BY <3>1, <3>2
  <2> QED  BY <1>1, <2>1, <2>2 DEF Restorable, D
<1> QED  BY <1>4, <1>5, <1>6 DEF Planned, D

\* A write keeps the order of the store.
LEMMA WriteKeepsOrder ==
    ASSUME NcTypes, NcOrder, NEW t \in Thread, Write(t)
    PROVE  NcOrder'
<1> DEFINE x == thread[t]
           y == thread'[t]
<1>1. /\ x.pc = "write"
      /\ \E w \in x.todo :
            /\ Put(w) /\ WithOld(x, w) \subseteq FileWrites
            /\ WorkStep(t, "write", x.todo \ {w}, WithOld(x, w), x.garbage)
  BY BusySteps DEF NcTypes
<1>2. UNCHANGED <<toolpath, missed>> /\ (~damaged' => ~damaged)
  BY DEF Write, project, Overlap
<1>3. Busy(t) /\ x \in StoreOps /\ Proper(t, x) /\ x.pc \in BusyPc
  BY <1>1, StepHasOp DEF Busy, BusyPc, NcTypes
<1>w. PICK w \in x.todo :
          /\ Put(w) /\ WithOld(x, w) \subseteq FileWrites
          /\ WorkStep(t, "write", x.todo \ {w}, WithOld(x, w), x.garbage)
  BY <1>1
<1>5. /\ \A u \in Thread \ {t} : thread'[u] = thread[u]
      /\ y.pc = "write" /\ y.todo = x.todo \ {w} /\ y.done = WithOld(x, w)
      /\ y.garbage = x.garbage /\ SameWork(y, x)
  <2> DEFINE W == x.todo \ {w}
             D == WithOld(x, w)
             G == x.garbage
  <2>1. W \in SUBSET FileWrites /\ D \in SUBSET FileWrites /\ G \in SUBSET FileWrites
    BY <1>3, <1>w DEF StoreOps
  <2>2. WorkStep(t, "write", W, D, G)  BY <1>w
  <2>3. thread[t].pc \in BusyPc  BY <1>3
  <2> HIDE DEF W, D, G, x, y
  <2>4. /\ \A u \in Thread \ {t} : thread'[u] = thread[u]
        /\ thread'[t].pc = "write" /\ thread'[t].todo = W /\ thread'[t].done = D
        /\ thread'[t].garbage = G /\ SameWork(thread'[t], thread[t])
    BY <2>1, <2>2, <2>3, WorkStepSeen
  <2> QED  BY <2>4 DEF W, D, G, x, y
<1>p. Put(w)  BY <1>w
<1>f. NcFilesTyped  BY DEF NcTypes
<1>6. ASSUME AtWork(t, x) PROVE AtWork(t, thread[t])'
  <2>0. y.kind = x.kind /\ y.new = x.new /\ y.want = x.want /\ y.was = x.was
    BY <1>5 DEF SameWork
  <2>a. /\ Planned(x) /\ Kept(x) /\ Untouched(x) /\ Ahead(x) /\ Restorable(x) /\ WasAtRest(t, x)
        /\ manifest \in {x.was.manifest, x.want}
        /\ x.kind = "publish" => AllKept(x) /\ OutputsOf(x)
    BY <1>1, <1>6 DEF AtWork
  <2>b. x.kind = "publish" => x.new \in Artifact /\ x.new.name \in Names
    BY <1>3 DEF Proper, Artifact
  <2>1. (Planned(thread[t]) /\ Grown(thread[t]) /\ Superfluous(thread[t]))'
    BY <1>5, <1>6, WorkKeepsPlan
  <2>2. Kept(thread[t])'
    <3>1. CASE x.kind = "publish"  BY <1>5, <2>0, <2>a, <3>1 DEF Kept, WithOld
    <3>2. CASE x.kind # "publish"
      BY <1>5, <2>0, <2>a, <3>2, UntouchedIsOld DEF Kept, WithOld
    <3> QED  BY <3>1, <3>2
  <2>3. Untouched(thread[t])' /\ Ahead(thread[t])' /\ manifest' \in {y.was.manifest, y.want}
    BY <1>5, <1>f, <1>p, <2>0, <2>a, WriteAdvances DEF Untouched, Ahead
  <2>4. Restorable(thread[t])'
    BY <1>3, <1>5, <1>f, <1>p, <2>0, <2>a, <2>b, WriteIsKept DEF Restorable
  <2>5. x.kind # "publish" => output' = output
    BY <1>p, <2>a, PutEffect DEF Planned
  <2>6. x.kind = "publish" => OutputsOf(thread[t])'
    <3> SUFFICES ASSUME x.kind = "publish", NEW n \in Names
                 PROVE  \/ output'[n] \in {x.was.output[n], NoFile}
                        \/ n = x.new.name /\ output'[n] = x.new
      BY <1>5, <2>0 DEF OutputsOf
    <3>1. output[n] \in {x.was.output[n], NoFile} \/ (n = x.new.name /\ output[n] = x.new)
      BY <2>a DEF OutputsOf
    <3>2. output' = [output EXCEPT ![x.new.name] = x.new] \/ output' = output
      BY <1>p, <2>a, PutEffect DEF Planned
    <3> QED  BY <1>f, <2>b, <3>1, <3>2 DEF NcFilesTyped, Outputs
  <2>7. x.kind = "publish" => AllKept(thread[t])'
    BY <1>5, <2>a DEF AllKept, WithOld
  <2>8. WasAtRest(t, thread[t])'
    <3>1. \A T \in SUBSET Thread : \A a \in Artifact : Attended(a, T) => Attended(a, T)'
      BY <1>1, <1>2, <1>3, <1>5, WorkAttends DEF SameWork
    <3> QED  BY <1>5, <2>5, <2>a, <3>1, WorkKeepsPast
  <2> QED  BY <1>5, <2>0, <2>1, <2>2, <2>3, <2>4, <2>6, <2>7, <2>8 DEF AtWork
<1>7. Busy(t)'  BY <1>5 DEF Busy, BusyPc
<1> QED  BY <1>2, <1>3, <1>5, <1>6, <1>7, WorkGoesOn

\* A check of what was written lets an export go on to its cleanup, and finds
\* the files of the others at rest; when it fails they can be restored.
LEMMA VerifyKeepsOrder ==
    ASSUME NcTypes, NcOrder, NEW t \in Thread, Verify(t)
    PROVE  NcOrder'
<1> DEFINE x == thread[t]
           y == thread'[t]
<1>1. /\ x.pc = "write" /\ x.todo = {}
      /\ \E at \in {"remove", "undo"} : WorkStep(t, at, x.todo, x.done, x.garbage)
  BY BusySteps DEF NcTypes
<1>2. UNCHANGED <<toolpath, manifest, sidecar, output, damaged, missed>>
  BY DEF Verify, project, files, history
<1>3. Busy(t) /\ x \in StoreOps /\ Proper(t, x) /\ x.pc \in BusyPc
  BY <1>1, StepHasOp DEF Busy, BusyPc, NcTypes
<1>w. PICK at \in {"remove", "undo"} : WorkStep(t, at, x.todo, x.done, x.garbage)
  BY <1>1
<1>5. /\ \A u \in Thread \ {t} : thread'[u] = thread[u]
      /\ y.pc = at /\ y.todo = x.todo /\ y.done = x.done /\ y.garbage = x.garbage
      /\ SameWork(y, x)
  <2> DEFINE W == x.todo
             D == x.done
             G == x.garbage
  <2>1. W \in SUBSET FileWrites /\ D \in SUBSET FileWrites /\ G \in SUBSET FileWrites
    BY <1>3 DEF StoreOps
  <2>2. WorkStep(t, at, W, D, G)  BY <1>w
  <2>3. thread[t].pc \in BusyPc /\ at \in {"write", "remove", "undo"}  BY <1>3
  <2> HIDE DEF W, D, G, x, y
  <2>4. /\ \A u \in Thread \ {t} : thread'[u] = thread[u]
        /\ thread'[t].pc = at /\ thread'[t].todo = W /\ thread'[t].done = D
        /\ thread'[t].garbage = G /\ SameWork(thread'[t], thread[t])
    <3>1. CASE at = "remove"
      <4>1. WorkStep(t, "remove", W, D, G)  BY <2>2, <3>1
      <4> QED  BY <2>1, <2>3, <3>1, <4>1, WorkStepSeen
    <3>2. CASE at = "undo"
      <4>1. WorkStep(t, "undo", W, D, G)  BY <2>2, <3>2
      <4> QED  BY <2>1, <2>3, <3>2, <4>1, WorkStepSeen
    <3> QED  BY <3>1, <3>2
  <2> QED  BY <2>4 DEF W, D, G, x, y
<1>6. ASSUME AtWork(t, x) PROVE AtWork(t, thread[t])'
  <2>0. y.kind = x.kind /\ y.op = x.op /\ y.new = x.new /\ y.want = x.want /\ y.was = x.was
    BY <1>5 DEF SameWork
  <2>a. /\ Kept(x) /\ Grown(x) /\ Ahead(x) /\ Restorable(x) /\ WasAtRest(t, x)
        /\ manifest \in {x.was.manifest, x.want}
        /\ x.kind = "publish" => OutputsOf(x)
    BY <1>1, <1>6 DEF AtWork
  <2>1. (Planned(thread[t]) /\ Grown(thread[t]) /\ Superfluous(thread[t]))'
    BY <1>5, <1>6, WorkKeepsPlan
  <2>2. Kept(thread[t])'  BY <1>5, <2>0, <2>a DEF Kept
  <2>3. manifest' \in {y.was.manifest, y.want}  BY <1>2, <2>0, <2>a
  <2>4. x.kind = "publish" => OutputsOf(thread[t])'
    BY <1>1, <1>2, <1>5, <2>0, <2>a DEF OutputsOf
  <2>5. Restorable(thread[t])'  BY <1>2, <1>5, <2>0, <2>a DEF Restorable
  <2>6. manifest' = y.want /\ \A a \in Entries(y.want) : sidecar'[a] = y.want[a]
    BY <1>1, <1>2, <2>0, <2>a DEF Ahead
  <2>7. x.kind # "publish" => Settled(manifest, output, Thread)'
    <3> SUFFICES ASSUME x.kind # "publish", NEW a \in Artifact,
                        manifest[a] = "current", output[a.name] = a
                 PROVE  Attended(a, Thread)'
      BY <1>2 DEF Settled
    <3>1. x.was.manifest[a] = "current" /\ (x.kind = "mark" => a.op # x.op)
      BY <1>2, <2>0, <2>6, <2>a DEF Grown
    <3>2. Attended(a, Thread \ {t})  BY <2>a, <3>1 DEF WasAtRest, Settled
    <3>3. \A u \in Thread : Marks(u, a.op) => Marks(u, a.op)'
      <4>1. ~Marks(t, a.op)  BY <3>1 DEF Marks
      <4>2. \A u \in Thread \ {t} : Marks(u, a.op) => Marks(u, a.op)'  BY <1>5 DEF Marks
      <4> QED  BY <4>1, <4>2
    <3>4. \A u \in Thread \ {t} : Publishes(u, a) => Publishes(u, a)'
      BY <1>5 DEF Publishes
    <3> QED  BY <1>2, <3>2, <3>3, <3>4 DEF Attended
  <2>8. y.pc # "remove" \/ y.kind = "publish" => WasAtRest(t, thread[t])'
    <3> SUFFICES ASSUME y.pc # "remove" \/ y.kind = "publish" PROVE WasAtRest(t, thread[t])'
      OBVIOUS
    <3>1. \A T \in SUBSET Thread : \A a \in Artifact : Attended(a, T) => Attended(a, T)'
      BY <1>1, <1>2, <1>3, <1>5, <2>0, WorkAttends
    <3> QED  BY <1>2, <1>5, <2>a, <3>1, WorkKeepsPast
  <2>9. y.pc \in {"remove", "undo"}  BY <1>5
  <2> QED  BY <2>0, <2>1, <2>2, <2>3, <2>4, <2>5, <2>6, <2>7, <2>8, <2>9 DEF AtWork
<1>7. Busy(t)'  BY <1>5 DEF Busy, BusyPc
<1> QED  BY <1>2, <1>3, <1>5, <1>6, <1>7, WorkGoesOn

\* A thread that ends its work leaves an artifact attended that was attended
\* by the others, when an invalidation it gives up is known.
LEMMA EndAttends ==
    ASSUME NEW t \in Thread, \A u \in Thread \ {t} : thread'[u] = thread[u],
           UNCHANGED toolpath, missed \subseteq missed',
           \A o \in Ops : Marks(t, o) => o \in missed'
    PROVE  \A a \in Artifact : Attended(a, Thread \ {t}) => Attended(a, Thread)'
<1> SUFFICES ASSUME NEW a \in Artifact, Attended(a, Thread \ {t})
             PROVE  Attended(a, Thread)'
  OBVIOUS
<1>0. a.op \in Ops  BY DEF Artifact
<1>1. \A u \in Thread \ {t} : (Marks(u, a.op) => Marks(u, a.op)')
                                  /\ (Publishes(u, a) => Publishes(u, a)')
  BY DEF Marks, Publishes
<1> QED  BY <1>0, <1>1 DEF Attended

\* What is removed is in no entry.
LEMMA DeleteKeepsOrder ==
    ASSUME NcTypes, NcOrder, NEW t \in Thread, Delete(t)
    PROVE  NcOrder'
<1> DEFINE x == thread[t]
           y == thread'[t]
<1>1. /\ x.pc = "remove"
      /\ \E w \in x.garbage :
            Put(w) /\ WorkStep(t, "remove", x.todo, x.done, x.garbage \ {w})
  BY BusySteps DEF NcTypes
<1>2. UNCHANGED <<toolpath, missed>> /\ (~damaged' => ~damaged)
  BY DEF Delete, project, Overlap
<1>3. Busy(t) /\ x \in StoreOps /\ Proper(t, x) /\ x.pc \in BusyPc
  BY <1>1, StepHasOp DEF Busy, BusyPc, NcTypes
<1>w. PICK w \in x.garbage : Put(w) /\ WorkStep(t, "remove", x.todo, x.done, x.garbage \ {w})
  BY <1>1
<1>5. /\ \A u \in Thread \ {t} : thread'[u] = thread[u]
      /\ y.pc = "remove" /\ y.todo = x.todo /\ y.done = x.done /\ y.garbage = x.garbage \ {w}
      /\ SameWork(y, x)
  <2> DEFINE W == x.todo
             D == x.done
             G == x.garbage \ {w}
  <2>1. W \in SUBSET FileWrites /\ D \in SUBSET FileWrites /\ G \in SUBSET FileWrites
    BY <1>3 DEF StoreOps
  <2>2. WorkStep(t, "remove", W, D, G)  BY <1>w
  <2>3. thread[t].pc \in BusyPc  BY <1>3
  <2> HIDE DEF W, D, G, x, y
  <2>4. /\ \A u \in Thread \ {t} : thread'[u] = thread[u]
        /\ thread'[t].pc = "remove" /\ thread'[t].todo = W /\ thread'[t].done = D
        /\ thread'[t].garbage = G /\ SameWork(thread'[t], thread[t])
    BY <2>1, <2>2, <2>3, WorkStepSeen
  <2> QED  BY <2>4 DEF W, D, G, x, y
<1>p. Put(w)  BY <1>w
<1>6. ASSUME AtWork(t, x) PROVE AtWork(t, thread[t])'
  <2>0. y.kind = x.kind /\ y.op = x.op /\ y.new = x.new /\ y.want = x.want /\ y.was = x.was
    BY <1>5 DEF SameWork
  <2>a. /\ Kept(x) /\ Superfluous(x) /\ manifest = x.want
        /\ \A a \in Entries(x.want) : sidecar[a] = x.want[a]
        /\ IF x.kind = "publish" THEN OutputsOf(x) /\ WasAtRest(t, x)
           ELSE Settled(manifest, output, Thread)
    BY <1>1, <1>6 DEF AtWork
  <2>b. /\ sidecar \in [Artifact -> ArtifactStatus]
        /\ output \in [Names -> Artifact \cup {NoFile}]
    BY DEF NcTypes, NcFilesTyped, Sidecars, Outputs
  <2>1. (Planned(thread[t]) /\ Grown(thread[t]) /\ Superfluous(thread[t]))'
    BY <1>5, <1>6, WorkKeepsPlan
  <2>2. Kept(thread[t])'  BY <1>5, <2>0, <2>a DEF Kept
  <2>3. /\ manifest' = manifest
        /\ \A a \in Entries(x.want) : sidecar'[a] = sidecar[a]
        /\ \A n \in Names : output'[n] \in {output[n], NoFile}
        /\ x.kind = "publish" => output' = output
    <3>1. CASE \E a \in Artifact : w = WriteSidecar(a, "none") /\ x.want[a] = "none"
      <4>1. PICK a \in Artifact : w = WriteSidecar(a, "none") /\ x.want[a] = "none"  BY <3>1
      <4>2. sidecar' = [sidecar EXCEPT ![a] = "none"] /\ UNCHANGED <<output, manifest>>
        BY <1>p, <4>1, PutEffect
      <4>3. a \notin Entries(x.want)  BY <4>1 DEF Entries
      <4> QED  BY <2>b, <4>2, <4>3 DEF Entries
    <3>2. CASE x.kind # "publish" /\ \E n \in Names : w = WriteOutput(n, NoFile)
      <4>1. PICK n \in Names : w = WriteOutput(n, NoFile)  BY <3>2
      <4>2. output' = [output EXCEPT ![n] = NoFile] /\ UNCHANGED <<sidecar, manifest>>
        BY <1>p, <4>1, PutEffect
      <4> QED  BY <2>b, <3>2, <4>2
    <3> QED  BY <2>a, <3>1, <3>2 DEF Superfluous
  <2>4. manifest' = y.want /\ \A a \in Entries(y.want) : sidecar'[a] = y.want[a]
    BY <2>0, <2>3, <2>a
  <2>5. x.kind = "publish" => OutputsOf(thread[t])'
    BY <1>1, <1>5, <2>0, <2>3, <2>a DEF OutputsOf
  <2>6. \A T \in SUBSET Thread : \A a \in Artifact : Attended(a, T) => Attended(a, T)'
    BY <1>1, <1>2, <1>3, <1>5, <2>0, WorkAttends
  <2>7. x.kind # "publish" => Settled(manifest, output, Thread)'
    <3>1. \A a \in Artifact : a.name \in Names /\ a # NoFile
      BY NoFileAssumption DEF Artifact
    <3> QED  BY <2>3, <2>6, <2>a, <3>1 DEF Settled
  <2>8. x.kind = "publish" => WasAtRest(t, thread[t])'
    BY <1>5, <2>6, <2>a, WorkKeepsPast
  <2>9. x.kind = "publish" => y.garbage = {}
    BY <1>5, <2>a DEF Superfluous
  <2> QED  BY <1>5, <2>0, <2>1, <2>2, <2>4, <2>5, <2>7, <2>8, <2>9 DEF AtWork
<1>7. Busy(t)'  BY <1>5 DEF Busy, BusyPc
<1> QED  BY <1>2, <1>3, <1>5, <1>6, <1>7, WorkGoesOn

\* An export whose cleanup fails can be undone.
LEMMA CleanupFailsKeepsOrder ==
    ASSUME NcTypes, NcOrder, NEW t \in Thread, DeleteFails(t), thread[t].kind = "publish"
    PROVE  NcOrder'
<1> DEFINE x == thread[t]
           y == thread'[t]
<1>1. /\ x.pc = "remove" /\ x.garbage # {}
      /\ WorkStep(t, "undo", x.todo, x.done, x.garbage)
  BY BusySteps DEF NcTypes
<1>2. UNCHANGED <<toolpath, manifest, sidecar, output, damaged, missed>>
  BY DEF DeleteFails, project, files, history
<1>3. Busy(t) /\ x \in StoreOps /\ Proper(t, x) /\ x.pc \in BusyPc
  BY <1>1, StepHasOp DEF Busy, BusyPc, NcTypes
<1>5. /\ \A u \in Thread \ {t} : thread'[u] = thread[u]
      /\ y.pc = "undo" /\ y.todo = x.todo /\ y.done = x.done /\ y.garbage = x.garbage
      /\ SameWork(y, x)
  <2> DEFINE W == x.todo
             D == x.done
             G == x.garbage
  <2>1. W \in SUBSET FileWrites /\ D \in SUBSET FileWrites /\ G \in SUBSET FileWrites
    BY <1>3 DEF StoreOps
  <2>2. WorkStep(t, "undo", W, D, G)  BY <1>1
  <2>3. thread[t].pc \in BusyPc  BY <1>3
  <2> HIDE DEF W, D, G, x, y
  <2>4. /\ \A u \in Thread \ {t} : thread'[u] = thread[u]
        /\ thread'[t].pc = "undo" /\ thread'[t].todo = W /\ thread'[t].done = D
        /\ thread'[t].garbage = G /\ SameWork(thread'[t], thread[t])
    BY <2>1, <2>2, <2>3, WorkStepSeen
  <2> QED  BY <2>4 DEF W, D, G, x, y
<1>6. ASSUME AtWork(t, x) PROVE AtWork(t, thread[t])'
  <2>0. y.kind = x.kind /\ y.op = x.op /\ y.new = x.new /\ y.want = x.want /\ y.was = x.was
    BY <1>5 DEF SameWork
  <2>a. /\ Kept(x) /\ Restorable(x) /\ WasAtRest(t, x) /\ OutputsOf(x)
        /\ manifest \in {x.was.manifest, x.want}
    BY <1>1, <1>6 DEF AtWork
  <2>1. (Planned(thread[t]) /\ Grown(thread[t]) /\ Superfluous(thread[t]))'
    BY <1>5, <1>6, WorkKeepsPlan
  <2>2. Kept(thread[t])'  BY <1>5, <2>0, <2>a DEF Kept
  <2>3. manifest' \in {y.was.manifest, y.want}  BY <1>2, <2>0, <2>a
  <2>4. OutputsOf(thread[t])'  BY <1>1, <1>2, <1>5, <2>0, <2>a DEF OutputsOf
  <2>5. Restorable(thread[t])'  BY <1>2, <1>5, <2>0, <2>a DEF Restorable
  <2>6. WasAtRest(t, thread[t])'
    <3>1. \A T \in SUBSET Thread : \A a \in Artifact : Attended(a, T) => Attended(a, T)'
      BY <1>1, <1>2, <1>3, <1>5, <2>0, WorkAttends
    <3> QED  BY <1>5, <2>a, <3>1, WorkKeepsPast
  <2> QED  BY <1>5, <2>1, <2>2, <2>3, <2>4, <2>5, <2>6 DEF AtWork
<1>7. Busy(t)'  BY <1>5 DEF Busy, BusyPc
<1> QED  BY <1>2, <1>3, <1>5, <1>6, <1>7, WorkGoesOn

\* Work that has been verified and ends leaves the files at rest.
LEMMA RemovalEndsOrder ==
    ASSUME NcTypes, NcOrder, NEW t \in Thread,
           Deleted(t) \/ (DeleteFails(t) /\ thread[t].kind # "publish")
    PROVE  NcOrder'
<1> DEFINE x == thread[t]
           y == thread'[t]
<1>1. x.pc = "remove"  BY DEF Deleted, DeleteFails
<1>2. UNCHANGED <<toolpath, manifest, sidecar, output, damaged, missed>>
  BY DEF Deleted, DeleteFails, project, files, history
<1>3. Busy(t) /\ x \in StoreOps /\ Proper(t, x)
  BY <1>1, StepHasOp DEF Busy, BusyPc, NcTypes
<1>4. /\ \A u \in Thread \ {t} : thread'[u] = thread[u]
      /\ ~Busy(t)'
      /\ x.kind = "publish" => y.pc = "succeed" /\ y.kind = x.kind /\ y.new = x.new
  <2>1. CASE Deleted(t)
    <3>1. thread' = [thread EXCEPT ![t] = [x EXCEPT !.pc = "succeed"]]
      BY <2>1 DEF Deleted, Go
    <3>2. y = [x EXCEPT !.pc = "succeed"] /\ \A u \in Thread \ {t} : thread'[u] = thread[u]
      BY <3>1 DEF NcTypes, NcThreadsTyped
    <3>3. y.pc = "succeed" /\ SameOp(y, x)
      <4> HIDE DEF x, y
      <4> QED  BY <1>3, <3>2, PcUpdate
    <3> QED  BY <3>2, <3>3 DEF Busy, BusyPc, SameOp
  <2>2. CASE DeleteFails(t) /\ x.kind # "publish"
    <3>1. thread' = [thread EXCEPT ![t] = Idle]  BY <2>2 DEF DeleteFails
    <3>2. y = Idle /\ \A u \in Thread \ {t} : thread'[u] = thread[u]
      BY <3>1 DEF NcTypes, NcThreadsTyped
    <3> QED  BY <2>2, <3>2 DEF Busy, BusyPc, Idle
  <2> QED  BY <2>1, <2>2
<1>5. \A a \in Artifact : Attended(a, Thread \ {t}) => Attended(a, Thread)'
  <2>1. \A o \in Ops : ~Marks(t, o)  BY <1>1 DEF Marks
  <2> QED  BY <1>2, <1>4, <2>1, EndAttends
<1>6. ASSUME AtWork(t, x) PROVE AtRest'
  <2>1. /\ manifest = x.want
        /\ \A a \in Entries(x.want) : sidecar[a] = x.want[a]
        /\ Grown(x)
        /\ IF x.kind = "publish" THEN OutputsOf(x) /\ WasAtRest(t, x)
           ELSE Settled(manifest, output, Thread)
    BY <1>1, <1>6 DEF AtWork
  <2>2. Readable'  BY <1>2, <2>1 DEF Readable, Entries
  <2>3. ASSUME NEW a \in Artifact, manifest[a] = "current", output[a.name] = a
        PROVE  Attended(a, Thread)'
    <3>0. a.name \in Names /\ a # NoFile  BY NoFileAssumption DEF Artifact
    <3>1. CASE x.kind # "publish"
      <4>1. Attended(a, Thread)  BY <2>1, <2>3, <3>1 DEF Settled
      <4>2. ~Publishes(t, a)  BY <3>1 DEF Publishes
      <4>3. Attended(a, Thread \ {t})  BY <4>1, <4>2 DEF Attended
      <4> QED  BY <1>5, <4>3
    <3>2. CASE x.kind = "publish" /\ a = x.new
      <4>1. Publishes(t, a)'  BY <1>4, <3>2 DEF Publishes
      <4> QED  BY <4>1 DEF Attended
    <3>3. CASE x.kind = "publish" /\ a # x.new
      <4>1. x.was.manifest[a] = "current" /\ a.name # x.new.name
        BY <2>1, <2>3, <3>3 DEF Grown
      <4>2. x.was.output[a.name] = a
        BY <2>1, <2>3, <3>0, <3>3, <4>1 DEF OutputsOf
      <4>3. Attended(a, Thread \ {t})
        BY <2>1, <3>3, <4>1, <4>2 DEF WasAtRest, Settled
      <4> QED  BY <1>5, <4>3
    <3> QED  BY <3>1, <3>2, <3>3
  <2>4. Settled(manifest, output, Thread)'  BY <1>2, <2>3 DEF Settled
  <2> QED  BY <2>2, <2>4 DEF AtRest
<1> QED  BY <1>2, <1>3, <1>4, <1>6, WorkEnds

\* Restoring a file leaves the others to be restored.
LEMMA RestoreAdvances ==
    ASSUME NcFilesTyped, NEW x \in StoreOps, Kept(x), Restorable(x),
           x.kind = "publish" => x.new.name \in Names,
           NEW w \in x.done, Put(w)
    PROVE  /\ \A a \in Artifact :
                 sidecar'[a] = x.was.sidecar[a]
                     \/ WriteSidecar(a, x.was.sidecar[a]) \in x.done \ {w}
           /\ manifest' = x.was.manifest \/ WriteManifest(x.was.manifest) \in x.done \ {w}
           /\ x.kind = "publish" =>
                 \/ output'[x.new.name] \in {x.was.output[x.new.name], NoFile}
                 \/ \E v \in Artifact \cup {NoFile} : WriteOutput(x.new.name, v) \in x.done \ {w}
           /\ manifest' \in {manifest, x.was.manifest}
           /\ \A n \in Names :
                 output'[n] = output[n]
                     \/ (x.kind = "publish" /\ output'[n] \in {x.was.output[n], NoFile})
<1>0. /\ sidecar \in [Artifact -> ArtifactStatus]
      /\ output \in [Names -> Artifact \cup {NoFile}]
      /\ w \in FileWrites
  BY DEF NcFilesTyped, Sidecars, Outputs, StoreOps
<1>1. CASE /\ x.kind = "publish" /\ w.file = "output" /\ w.key = x.new.name
           /\ w.val \in {x.was.output[w.key], NoFile}
  <2>1. w = WriteOutput(x.new.name, w.val)  BY <1>0, <1>1 DEF FileWrites, WriteOutput
  <2>2. output' = [output EXCEPT ![x.new.name] = w.val] /\ UNCHANGED <<sidecar, manifest>>
    BY <2>1, PutEffect
  <2>3. output'[x.new.name] = w.val  BY <1>0, <1>1, <2>2
  <2>4. \A n \in Names : n # x.new.name => output'[n] = output[n]  BY <1>0, <2>2
  <2>5. \A a : WriteSidecar(a, x.was.sidecar[a]) # w  BY <1>1, WritesApart
  <2>6. WriteManifest(x.was.manifest) # w  BY <1>1, WritesApart
  <2> QED  BY <1>1, <2>2, <2>3, <2>4, <2>5, <2>6 DEF Restorable
<1>2. CASE \E a \in Artifact : w = WriteSidecar(a, x.was.sidecar[a])
  <2>1. PICK b \in Artifact : w = WriteSidecar(b, x.was.sidecar[b])  BY <1>2
  <2>2. sidecar' = [sidecar EXCEPT ![b] = x.was.sidecar[b]] /\ UNCHANGED <<output, manifest>>
    BY <2>1, PutEffect
  <2>3. sidecar'[b] = x.was.sidecar[b]  BY <1>0, <2>2
  <2>4. \A a \in Artifact : a # b => sidecar'[a] = sidecar[a]
                                       /\ WriteSidecar(a, x.was.sidecar[a]) # w
    BY <1>0, <2>1, <2>2, WritesApart
  <2>5. WriteManifest(x.was.manifest) # w /\ \A n, v : WriteOutput(n, v) # w
    BY <2>1, WritesApart
  <2> QED  BY <2>2, <2>3, <2>4, <2>5 DEF Restorable
<1>3. CASE w = WriteManifest(x.was.manifest)
  <2>1. manifest' = x.was.manifest /\ UNCHANGED <<output, sidecar>>  BY <1>3, PutEffect
  <2>2. /\ \A a : WriteSidecar(a, x.was.sidecar[a]) # w
        /\ \A n, v : WriteOutput(n, v) # w
    BY <1>3, WritesApart
  <2> QED  BY <2>1, <2>2 DEF Restorable
<1> QED  BY <1>1, <1>2, <1>3 DEF Kept

\* So does skipping a file that is what it was.
LEMMA SkipAdvances ==
    ASSUME NEW x \in StoreOps, Kept(x), Restorable(x), NEW w \in x.done, Old(w) = w
    PROVE  /\ \A a \in Artifact :
                 sidecar[a] = x.was.sidecar[a]
                     \/ WriteSidecar(a, x.was.sidecar[a]) \in x.done \ {w}
           /\ manifest = x.was.manifest \/ WriteManifest(x.was.manifest) \in x.done \ {w}
           /\ x.kind = "publish" =>
                 \/ output[x.new.name] \in {x.was.output[x.new.name], NoFile}
                 \/ \E v \in Artifact \cup {NoFile} : WriteOutput(x.new.name, v) \in x.done \ {w}
<1>1. ASSUME NEW a \in Artifact, w = WriteSidecar(a, x.was.sidecar[a])
      PROVE  sidecar[a] = x.was.sidecar[a]
  <2>1. Old(w) = WriteSidecar(a, sidecar[a])  BY <1>1, WritesApart DEF Old
  <2> QED  BY <1>1, <2>1, WritesApart
<1>2. ASSUME w = WriteManifest(x.was.manifest)
      PROVE  manifest = x.was.manifest
  <2>1. Old(w) = WriteManifest(manifest)  BY <1>2, WritesApart DEF Old
  <2> QED  BY <1>2, <2>1, WritesApart
<1>3. ASSUME x.kind = "publish", NEW v, w = WriteOutput(x.new.name, v)
      PROVE  output[x.new.name] \in {x.was.output[x.new.name], NoFile}
  <2>1. Old(w) = WriteOutput(x.new.name, output[x.new.name])  BY <1>3, WritesApart DEF Old
  <2>2. output[x.new.name] = w.val  BY <2>1, WritesApart
  <2>3. w.val \in {x.was.output[x.new.name], NoFile}
    BY <1>3, WritesApart DEF Kept
  <2> QED  BY <2>2, <2>3
<1>4. \A a \in Artifact :
          sidecar[a] = x.was.sidecar[a] \/ WriteSidecar(a, x.was.sidecar[a]) \in x.done \ {w}
  BY <1>1 DEF Restorable
<1>5. manifest = x.was.manifest \/ WriteManifest(x.was.manifest) \in x.done \ {w}
  BY <1>2 DEF Restorable
<1>6. x.kind = "publish" =>
          \/ output[x.new.name] \in {x.was.output[x.new.name], NoFile}
          \/ \E v \in Artifact \cup {NoFile} : WriteOutput(x.new.name, v) \in x.done \ {w}
  BY <1>3 DEF Restorable
<1> QED  BY <1>4, <1>5, <1>6

\* A rollback that goes on keeps the order of the store.
LEMMA UndoKeepsOrder ==
    ASSUME NcTypes, NcOrder, NEW t \in Thread, Undo(t) \/ UndoFails(t)
    PROVE  NcOrder'
<1> DEFINE x == thread[t]
           y == thread'[t]
<1>1. /\ x.pc = "undo"
      /\ \E w \in x.done :
            /\ \/ Put(w)
               \/ damaged' = (damaged \/ Old(w) # w) /\ UNCHANGED <<manifest, sidecar, output>>
            /\ WorkStep(t, "undo", x.todo, x.done \ {w}, x.garbage)
  <2>1. UndoFails(t) => UNCHANGED <<manifest, sidecar, output>>  BY DEF UndoFails, files
  <2> QED  BY <2>1, BusySteps DEF NcTypes
<1>2. UNCHANGED <<toolpath, missed>> /\ (~damaged' => ~damaged)
  BY DEF Undo, UndoFails, project, Overlap
<1>3. Busy(t) /\ x \in StoreOps /\ Proper(t, x) /\ x.pc \in BusyPc
  BY <1>1, StepHasOp DEF Busy, BusyPc, NcTypes
<1>w. PICK w \in x.done :
          /\ \/ Put(w)
             \/ damaged' = (damaged \/ Old(w) # w) /\ UNCHANGED <<manifest, sidecar, output>>
          /\ WorkStep(t, "undo", x.todo, x.done \ {w}, x.garbage)
  BY <1>1
<1>5. /\ \A u \in Thread \ {t} : thread'[u] = thread[u]
      /\ y.pc = "undo" /\ y.todo = x.todo /\ y.done = x.done \ {w} /\ y.garbage = x.garbage
      /\ SameWork(y, x)
  <2> DEFINE W == x.todo
             D == x.done \ {w}
             G == x.garbage
  <2>1. W \in SUBSET FileWrites /\ D \in SUBSET FileWrites /\ G \in SUBSET FileWrites
    BY <1>3 DEF StoreOps
  <2>2. WorkStep(t, "undo", W, D, G)  BY <1>w
  <2>3. thread[t].pc \in BusyPc  BY <1>3
  <2> HIDE DEF W, D, G, x, y
  <2>4. /\ \A u \in Thread \ {t} : thread'[u] = thread[u]
        /\ thread'[t].pc = "undo" /\ thread'[t].todo = W /\ thread'[t].done = D
        /\ thread'[t].garbage = G /\ SameWork(thread'[t], thread[t])
    BY <2>1, <2>2, <2>3, WorkStepSeen
  <2> QED  BY <2>4 DEF W, D, G, x, y
<1>p. ~damaged' => Put(w) \/ (Old(w) = w /\ UNCHANGED <<manifest, sidecar, output>>)
  BY <1>w
<1>f. NcFilesTyped  BY DEF NcTypes
<1>6. ASSUME ~damaged', AtWork(t, x) PROVE AtWork(t, thread[t])'
  <2>0. y.kind = x.kind /\ y.op = x.op /\ y.new = x.new /\ y.want = x.want /\ y.was = x.was
    BY <1>5 DEF SameWork
  <2>a. /\ Kept(x) /\ Restorable(x) /\ WasAtRest(t, x)
        /\ manifest \in {x.was.manifest, x.want}
        /\ x.kind = "publish" => OutputsOf(x)
    BY <1>1, <1>6 DEF AtWork
  <2>b. x.kind = "publish" => x.new.name \in Names  BY <1>3 DEF Proper, Artifact
  <2>1. (Planned(thread[t]) /\ Grown(thread[t]) /\ Superfluous(thread[t]))'
    BY <1>5, <1>6, WorkKeepsPlan
  <2>2. Kept(thread[t])'  BY <1>5, <2>0, <2>a DEF Kept
  <2>3. /\ \A a \in Artifact :
              sidecar'[a] = x.was.sidecar[a]
                  \/ WriteSidecar(a, x.was.sidecar[a]) \in x.done \ {w}
        /\ manifest' = x.was.manifest \/ WriteManifest(x.was.manifest) \in x.done \ {w}
        /\ x.kind = "publish" =>
              \/ output'[x.new.name] \in {x.was.output[x.new.name], NoFile}
              \/ \E v \in Artifact \cup {NoFile} : WriteOutput(x.new.name, v) \in x.done \ {w}
        /\ manifest' \in {manifest, x.was.manifest}
        /\ \A n \in Names :
              output'[n] = output[n]
                  \/ (x.kind = "publish" /\ output'[n] \in {x.was.output[n], NoFile})
    <3> HIDE DEF x, y
    <3>1. CASE Put(w)  BY <1>3, <1>f, <2>a, <2>b, <3>1, RestoreAdvances
    <3>2. CASE Old(w) = w /\ UNCHANGED <<manifest, sidecar, output>>
      BY <1>3, <2>a, <3>2, SkipAdvances
    <3> QED  BY <1>6, <1>p, <3>1, <3>2
  <2>4. Restorable(thread[t])'  BY <1>5, <2>0, <2>3 DEF Restorable
  <2>5. manifest' \in {y.was.manifest, y.want}  BY <2>0, <2>3, <2>a
  <2>6. x.kind = "publish" => OutputsOf(thread[t])'
    BY <1>1, <1>5, <2>0, <2>3, <2>a DEF OutputsOf
  <2>7. WasAtRest(t, thread[t])'
    <3>1. \A T \in SUBSET Thread : \A a \in Artifact : Attended(a, T) => Attended(a, T)'
      BY <1>1, <1>2, <1>3, <1>5, <2>0, WorkAttends
    <3>2. x.kind # "publish" => \A n \in Names : output'[n] \in {output[n], NoFile}
      BY <2>3
    <3> QED  BY <1>5, <2>a, <3>1, <3>2, WorkKeepsPast
  <2> QED  BY <1>5, <2>0, <2>1, <2>2, <2>4, <2>5, <2>6, <2>7 DEF AtWork
<1>7. Busy(t)'  BY <1>5 DEF Busy, BusyPc
<1> QED  BY <1>2, <1>3, <1>5, <1>6, <1>7, WorkGoesOn

\* A rollback that has restored all files leaves them as they were.
LEMMA UndoneIsAsItWas ==
    ASSUME NEW t \in Thread, AtWork(t, thread[t]),
           thread[t].pc = "undo", thread[t].done = {}
    PROVE  LET x == thread[t] IN
           /\ manifest = x.was.manifest
           /\ \A a \in Artifact : sidecar[a] = x.was.sidecar[a]
           /\ x.kind = "publish" => output[x.new.name] \in {x.was.output[x.new.name], NoFile}
<1>1. Restorable(thread[t])  BY DEF AtWork
<1> QED  BY <1>1 DEF Restorable

\* The end of a rollback leaves the files at rest.
LEMMA UndoneEndsOrder ==
    ASSUME NcTypes, NcOrder, NEW t \in Thread, Undone(t)
    PROVE  NcOrder'
<1> DEFINE x == thread[t]
<1>1. x.pc = "undo" /\ x.done = {}  BY DEF Undone
<1>2. /\ UNCHANGED <<toolpath, manifest, sidecar, output, damaged>>
      /\ missed' = missed \cup Misses(x)
  BY DEF Undone, project, files
<1>3. Busy(t) /\ x \in StoreOps /\ Proper(t, x)
  BY <1>1, StepHasOp DEF Busy, BusyPc, NcTypes
<1>4. \A u \in Thread \ {t} : thread'[u] = thread[u]
  BY DEF Undone, NcTypes, NcThreadsTyped
<1>5. ~Busy(t)'
  <2>1. thread'[t] = Idle  BY DEF Undone, NcTypes, NcThreadsTyped
  <2> QED  BY <2>1 DEF Busy, BusyPc, Idle
<1>6. \A a \in Artifact : Attended(a, Thread \ {t}) => Attended(a, Thread)'
  <2>1. \A o \in Ops : Marks(t, o) => o \in missed'  BY <1>2 DEF Marks, Misses
  <2> QED  BY <1>2, <1>4, <2>1, EndAttends
<1>7. ASSUME AtWork(t, x) PROVE AtRest'
  <2>1. /\ manifest = x.was.manifest
        /\ \A a \in Artifact : sidecar[a] = x.was.sidecar[a]
        /\ x.kind = "publish" => output[x.new.name] \in {x.was.output[x.new.name], NoFile}
    BY <1>1, <1>3, <1>7, UndoneIsAsItWas
  <2>2. WasAtRest(t, x) /\ (x.kind = "publish" => OutputsOf(x))  BY <1>1, <1>7 DEF AtWork
  <2>3. Readable'  BY <1>2, <2>1, <2>2 DEF Readable, WasAtRest
  <2>4. ASSUME NEW a \in Artifact, manifest[a] = "current", output[a.name] = a
        PROVE  Attended(a, Thread)'
    <3>1. CASE x.kind # "publish"
      BY <1>6, <2>1, <2>2, <2>4, <3>1 DEF WasAtRest, Settled
    <3>2. CASE x.kind = "publish"
      <4>1. a.name \in Names /\ a # NoFile  BY NoFileAssumption DEF Artifact
      <4>2. x.was.output[a.name] = a
        BY <2>1, <2>2, <2>4, <3>2, <4>1 DEF OutputsOf
      <4> QED  BY <1>6, <2>1, <2>2, <2>4, <3>2, <4>2 DEF WasAtRest, Settled
    <3> QED  BY <3>1, <3>2
  <2>5. Settled(manifest, output, Thread)'  BY <1>2, <2>4 DEF Settled
  <2> QED  BY <2>3, <2>5 DEF AtRest
<1> QED  BY <1>2, <1>3, <1>4, <1>5, <1>7, WorkEnds

\* Every step of a store operation keeps the order of the store.
LEMMA StoreStepKeepsOrder ==
    ASSUME NcTypes, NcOrder, NEW t \in Thread, StoreStep(t)
    PROVE  NcOrder'
<1>1. CASE Load(t)
  BY <1>1, LoadSteps, LoadNothingKeepsOrder, LoadWorkKeepsOrder
<1>2. CASE DeleteFails(t)
  BY <1>2, CleanupFailsKeepsOrder, RemovalEndsOrder
<1>3. CASE MarkRegistry(t) \/ LoadFails(t) \/ Recheck(t) \/ Register(t) \/ Finish(t)
  BY <1>3, MarkRegistryKeepsOrder, LoadFailsKeepsOrder, RecheckKeepsOrder, FinishKeepsOrder
<1>4. CASE Keep(t) \/ KeepFails(t) \/ Write(t) \/ PutFails(t) \/ Verify(t)
  BY <1>4, KeepKeepsOrder, GiveUpKeepsOrder, WriteKeepsOrder, VerifyKeepsOrder
<1>5. CASE Delete(t) \/ Deleted(t) \/ Undo(t) \/ UndoFails(t) \/ Undone(t)
  BY <1>5, DeleteKeepsOrder, RemovalEndsOrder, UndoKeepsOrder, UndoneEndsOrder
<1> QED  BY <1>1, <1>2, <1>3, <1>4, <1>5 DEF StoreStep

\* The empty files of the initial states are at rest.
LEMMA NcOrderInit == NcInit => NcOrder
<1> SUFFICES ASSUME NcInit PROVE NcOrder  OBVIOUS
<1>1. \A t \in Thread : ~Busy(t)  BY DEF NcInit, Busy, BusyPc, Idle
<1>2. AtRest  BY DEF NcInit, AtRest, Readable, Settled
<1> QED  BY <1>1, <1>2 DEF NcOrder

\* Types and order are inductive together.
LEMMA NcInvStep == NcInv /\ [NcNext]_ncVars => NcInv'
<1> SUFFICES ASSUME NcTypes, NcOrder, [NcNext]_ncVars PROVE NcTypes' /\ NcOrder'
  BY DEF NcInv
<1>1. NcTypes'  BY NcTypesStep
<1>2. CASE UNCHANGED ncVars
  <2>1. UNCHANGED <<toolpath, manifest, sidecar, output, thread, damaged, missed>>
    BY <1>2 DEF ncVars, project, files, history
  <2> QED  BY <1>1, <2>1, NoThreadStep
<1>3. CASE NcNext
  <2>1. \/ \E o \in Ops : Post(o) \/ Clear(o)
        \/ \E o \in Ops, n \in Names, p \in Policy : Export(o, n, p)
        \/ Edit \/ Save
        \/ \E n \in Names : Lose(n)
        \/ \E o \in Ops : Calculate(o)
        \/ Restart
        \/ \E t \in Thread : StoreStep(t)
    BY <1>3 DEF NcNext
  <2> QED  BY <1>1, <2>1, RequestKeepsOrder, CalculateKeepsOrder, RestartKeepsOrder,
              StoreStepKeepsOrder
<1> QED  BY <1>2, <1>3

\* The invariant holds in all reachable states.
THEOREM NcInvHolds == NcSpec => []NcInv
<1>1. NcInit => NcInv  BY NcTypesInit, NcOrderInit DEF NcInv
<1> QED  BY <1>1, NcInvStep, PTL DEF NcSpec

\* Between store operations the files are at rest.
LEMMA RestBetweenOperations ==
    ASSUME NcInv, AllIdle, ~damaged
    PROVE  /\ AtRest
           /\ \A t \in Thread : thread[t] = Idle
<1>1. \A t \in Thread : thread[t] = Idle  BY DEF AllIdle
<1>2. \A t \in Thread : ~Busy(t)  BY <1>1 DEF Busy, BusyPc, Idle
<1> QED  BY <1>1, <1>2 DEF NcInv, NcOrder

\* For any operations, file names and number of requests: when no store
\* operation is under way the manifest can be read, so that the project can be
\* saved, although writes, rollbacks and removals failed before; except after
\* one was cut short or not undone, or two threads were in the store at once.
THEOREM ManifestIsReadable == NcSpec => []ReadableUnlessDamaged
<1>1. NcInv => ReadableUnlessDamaged
  BY RestBetweenOperations DEF ReadableUnlessDamaged, AtRest
<1> QED  BY <1>1, NcInvHolds, PTL

\* For any operations, file names and number of requests: an output that is
\* shown as current was made from the toolpath that its operation has now.
THEOREM CurrentOutputIsOfToolpath == NcSpec => []CurrentIsMadeFromToolpath
<1>1. ASSUME NcInv PROVE CurrentIsMadeFromToolpath
  <2> SUFFICES ASSUME AllIdle, ~damaged, NEW a \in Artifact,
                      Inspected[a] = "current", a.op \notin missed
               PROVE  a.src = toolpath[a.op]
    BY DEF CurrentIsMadeFromToolpath
  <2>1. AtRest /\ \A t \in Thread : thread[t] = Idle  BY <1>1, RestBetweenOperations
  <2>2. manifest[a] = "current" /\ output[a.name] = a  BY DEF Inspected
  <2>3. Attended(a, Thread)  BY <2>1, <2>2 DEF AtRest, Settled
  <2>4. \A t \in Thread : ~Marks(t, a.op) /\ ~Publishes(t, a)
    BY <2>1 DEF Marks, Publishes, Idle
  <2> QED  BY <2>3, <2>4 DEF Attended
<1>2. NcInv => CurrentIsMadeFromToolpath  BY <1>1
<1> QED  BY <1>2, NcInvHolds, PTL

\* For any operations, file names and number of requests: an export that has
\* been rolled back leaves manifest, sidecars and output as they were.
THEOREM FailedExportLeavesNoTrace == NcSpec => []FailedExportIsUndone
<1>1. ASSUME NcInv PROVE FailedExportIsUndone
  <2> SUFFICES ASSUME NEW t \in Thread, thread[t] # Idle, thread[t].kind = "publish",
                      thread[t].pc = "undo", thread[t].done = {}, ~damaged
               PROVE  /\ manifest = thread[t].was.manifest /\ sidecar = thread[t].was.sidecar
                      /\ output[thread[t].new.name]
                            \in {thread[t].was.output[thread[t].new.name], NoFile}
    BY DEF FailedExportIsUndone
  <2>1. NcTypes /\ Busy(t)  BY <1>1 DEF NcInv, Busy, BusyPc
  <2>2. thread[t] \in StoreOps /\ Proper(t, thread[t])  BY <2>1, BusyHasOp DEF NcTypes
  <2>3. AtWork(t, thread[t])  BY <1>1, <2>1 DEF NcInv, NcOrder
  <2>4. /\ manifest = thread[t].was.manifest
        /\ \A a \in Artifact : sidecar[a] = thread[t].was.sidecar[a]
        /\ output[thread[t].new.name] \in {thread[t].was.output[thread[t].new.name], NoFile}
    BY <2>1, <2>2, <2>3, UndoneIsAsItWas
  <2>5. sidecar \in Sidecars /\ thread[t].was.sidecar \in Sidecars
    BY <2>1, <2>2 DEF NcTypes, NcFilesTyped, Proper, Snapshots, BusyPc
  <2>6. sidecar = thread[t].was.sidecar  BY <2>4, <2>5 DEF Sidecars
  <2> QED  BY <2>4, <2>6
<1>2. NcInv => FailedExportIsUndone  BY <1>1
<1> QED  BY <1>2, NcInvHolds, PTL

-----------------------------------------------------------------------------
(* The store as a ledger.                                                  *)

\* What an operation has made of the manifest is what its kind stands for; an
\* export that is past its last write has its file in place, or it got lost.
Meant(x) ==
    LET m == x.was.manifest IN
    /\ x.kind = "publish" => x.want = Atomic!Published(m, x.new)
    /\ x.kind = "clear" => x.want = Atomic!Cleared(m, x.op)
    /\ x.kind \in {"mark", "reconcile"} => Atomic!Outdates(x.want, m)
    /\ x.kind = "flush" => Atomic!Classifies(x.want, m, output)
    /\ x.kind = "publish" /\ x.pc = "remove" => output[x.new.name] \in {x.new, NoFile}

NcMeans == ~damaged => \A t \in Thread : Busy(t) => Meant(thread[t])

\* The candidates are what the kinds of operations stand for.
LEMMA CandidateIsMeant ==
    ASSUME NcFilesTyped, NEW x \in StoreOps, x.kind = "publish" => x.new \in Artifact
    PROVE  /\ x.kind = "publish" => Candidate(x) = Atomic!Published(manifest, x.new)
           /\ x.kind = "clear" => Candidate(x) = Atomic!Cleared(manifest, x.op)
           /\ x.kind \in {"mark", "reconcile"} => Atomic!Outdates(Candidate(x), manifest)
           /\ x.kind = "flush" => Atomic!Classifies(Candidate(x), manifest, output)
<1>1. ASSUME x.kind = "publish" PROVE Candidate(x) = Atomic!Published(manifest, x.new)
  BY <1>1 DEF Candidate, WithEntry, Staled, Of, Atomic!Published
<1>2. ASSUME x.kind = "clear" PROVE Candidate(x) = Atomic!Cleared(manifest, x.op)
  BY <1>2 DEF Candidate, Atomic!Cleared
<1>3. ASSUME NEW G PROVE Atomic!Outdates(Staled(G), manifest)
  BY DEF Staled, Atomic!Outdates
<1>4. ASSUME x.kind \in {"mark", "reconcile"} PROVE Atomic!Outdates(Candidate(x), manifest)
  BY <1>3, <1>4 DEF Candidate
<1>5. ASSUME x.kind = "flush" PROVE Atomic!Classifies(Candidate(x), manifest, output)
  BY <1>5 DEF Candidate, Inspected, Atomic!Classifies
<1> QED  BY <1>1, <1>2, <1>4, <1>5

\* A step in which threads at work go on, and no more than their plans.
LEMMA MeansKept ==
    ASSUME NcTypes, NcMeans, ~damaged' => ~damaged,
           \A u \in Thread : Busy(u)' =>
               /\ Busy(u) /\ SameWork(thread'[u], thread[u])
               /\ thread[u].kind = "flush" =>
                     \A n \in Names : output'[n] \in {output[n], NoFile}
               /\ thread[u].kind = "publish" /\ thread'[u].pc = "remove" =>
                     \/ output'[thread[u].new.name] = thread[u].new
                     \/ /\ thread[u].pc = "remove"
                        /\ \A n \in Names : output'[n] \in {output[n], NoFile}
    PROVE  NcMeans'
<1> SUFFICES ASSUME ~damaged', NEW u \in Thread, Busy(u)' PROVE Meant(thread[u])'
  BY DEF NcMeans
<1> DEFINE x == thread[u]
           y == thread'[u]
<1>1. Meant(x)  BY DEF NcMeans
<1>2. y.kind = x.kind /\ y.op = x.op /\ y.new = x.new /\ y.want = x.want /\ y.was = x.was
  BY DEF SameWork
<1>3. x.kind = "flush" => Atomic!Classifies(y.want, y.was.manifest, output')
  <2> SUFFICES ASSUME x.kind = "flush", NEW a \in Artifact, y.want[a] # y.was.manifest[a]
               PROVE  /\ y.was.manifest[a] # "none" /\ y.want[a] \in {"missing", "tampered"}
                      /\ output'[a.name] # a
    BY DEF Atomic!Classifies
  <2>1. /\ y.was.manifest[a] # "none" /\ y.want[a] \in {"missing", "tampered"}
        /\ output[a.name] # a
    BY <1>1, <1>2 DEF Meant, Atomic!Classifies
  <2>2. a.name \in Names /\ a # NoFile  BY NoFileAssumption DEF Artifact
  <2> QED  BY <2>1, <2>2
<1>4. x.kind = "publish" /\ y.pc = "remove" => output'[x.new.name] \in {x.new, NoFile}
  <2> SUFFICES ASSUME x.kind = "publish", y.pc = "remove"
               PROVE  output'[x.new.name] \in {x.new, NoFile}
    OBVIOUS
  <2>1. x.new.name \in Names
    BY BusyHasOp DEF NcTypes, Proper, Artifact
  <2> QED  BY <1>1, <2>1 DEF Meant
<1> QED  BY <1>1, <1>2, <1>3, <1>4 DEF Meant

\* A step of one thread that is not at work afterwards.
LEMMA MeansWithout ==
    ASSUME NcTypes, NcMeans, NEW t \in Thread, ~damaged' => ~damaged,
           output' = output, ~Busy(t)',
           \A u \in Thread \ {t} : thread'[u] = thread[u]
    PROVE  NcMeans'
<1>1. ASSUME NEW u \in Thread, Busy(u)'
      PROVE  /\ Busy(u) /\ thread'[u] = thread[u]
  BY <1>1 DEF Busy
<1> QED  BY <1>1, MeansKept DEF SameWork

\* A work step of a thread.
LEMMA WorkStepBusy ==
    ASSUME NcTypes, NEW t \in Thread, thread[t].pc \in BusyPc,
           NEW at \in {"write", "remove", "undo"}, NEW W \in SUBSET FileWrites,
           NEW D \in SUBSET FileWrites, NEW G \in SUBSET FileWrites,
           WorkStep(t, at, W, D, G)
    PROVE  /\ Busy(t) /\ Busy(t)'
           /\ \A u \in Thread \ {t} : thread'[u] = thread[u]
           /\ SameWork(thread'[t], thread[t]) /\ thread'[t].pc = at
<1>1. /\ \A u \in Thread \ {t} : thread'[u] = thread[u]
      /\ SameWork(thread'[t], thread[t]) /\ thread'[t].pc = at
  <2>1. at \in BusyPc \ {"keep"}  BY DEF BusyPc
  <2> QED  BY <2>1, WorkStepEffect DEF NcTypes, SameWork
<1> QED  BY <1>1 DEF Busy, BusyPc

\* The steps in which a thread remains at work.
StaysBusy(t) ==
    \/ Keep(t) \/ KeepFails(t) \/ Write(t) \/ PutFails(t) \/ Verify(t)
    \/ Delete(t) \/ (DeleteFails(t) /\ thread[t].kind = "publish")
    \/ Undo(t) \/ UndoFails(t)

\* They change where it is, and neither its operation nor the other threads.
LEMMA BusyStepSeen ==
    ASSUME NcTypes, NEW t \in Thread, StaysBusy(t)
    PROVE  /\ Busy(t) /\ Busy(t)'
           /\ \A u \in Thread \ {t} : thread'[u] = thread[u]
           /\ SameWork(thread'[t], thread[t])
           /\ thread'[t].pc = "remove" => Verify(t) \/ Delete(t)
<1> DEFINE x == thread[t]
<1>a. NcFilesTyped /\ NcThreadsTyped  BY DEF NcTypes
<1>b. thread[t].pc \in BusyPc /\ x \in StoreOps
  <2>1. thread[t].pc \in BusyPc
    BY DEF StaysBusy, BusyPc, Keep, KeepFails, Write, PutFails, Verify, Delete, DeleteFails, Undo, UndoFails
  <2> QED  BY <2>1, <1>a, StepHasOp DEF BusyPc
<1>c. /\ x.todo \in SUBSET FileWrites /\ x.done \in SUBSET FileWrites
      /\ x.garbage \in SUBSET FileWrites
  BY <1>b DEF StoreOps
<1>d. \A w : /\ x.todo \ {w} \in SUBSET FileWrites /\ x.done \ {w} \in SUBSET FileWrites
             /\ x.garbage \ {w} \in SUBSET FileWrites
  BY <1>c
<1>e. \A at \in {"write", "remove", "undo"} : \A W, D, G \in SUBSET FileWrites :
          WorkStep(t, at, W, D, G) =>
              /\ Busy(t) /\ Busy(t)'
              /\ \A u \in Thread \ {t} : thread'[u] = thread[u]
              /\ SameWork(thread'[t], thread[t]) /\ thread'[t].pc = at
  <2> HIDE DEF x
  <2> QED  BY <1>b, WorkStepBusy
<1>1. CASE Keep(t)
  <2>1. KeptBy(x.todo) \in SUBSET FileWrites /\ WorkStep(t, "write", x.todo, KeptBy(x.todo), x.garbage)
    BY <1>1, <1>a, BusySteps
  <2> HIDE DEF x
  <2> QED  BY <1>c, <1>e, <2>1
<1>2. CASE KeepFails(t) \/ (DeleteFails(t) /\ thread[t].kind = "publish")
  <2>1. WorkStep(t, "undo", x.todo, x.done, x.garbage)
    BY <1>2, <1>a, BusySteps
  <2> HIDE DEF x
  <2> QED  BY <1>c, <1>e, <2>1
<1>3. CASE Write(t)
  <2>1. PICK w \in x.todo : /\ WithOld(x, w) \in SUBSET FileWrites
                            /\ WorkStep(t, "write", x.todo \ {w}, WithOld(x, w), x.garbage)
    BY <1>3, <1>a, BusySteps
  <2> HIDE DEF x
  <2> QED  BY <1>c, <1>d, <1>e, <2>1
<1>4. CASE PutFails(t)
  <2>1. PICK w \in x.todo : /\ WithOld(x, w) \in SUBSET FileWrites
                            /\ WorkStep(t, "undo", x.todo, WithOld(x, w), x.garbage)
    BY <1>4, <1>a, BusySteps
  <2> HIDE DEF x
  <2> QED  BY <1>c, <1>e, <2>1
<1>5. CASE Verify(t)
  <2>1. PICK at \in {"remove", "undo"} : WorkStep(t, at, x.todo, x.done, x.garbage)
    BY <1>5, <1>a, BusySteps
  <2>2. at \in {"write", "remove", "undo"}  OBVIOUS
  <2> HIDE DEF x
  <2> QED  BY <1>5, <1>c, <1>e, <2>1, <2>2
<1>6. CASE Delete(t)
  <2>1. PICK w \in x.garbage : WorkStep(t, "remove", x.todo, x.done, x.garbage \ {w})
    BY <1>6, <1>a, BusySteps
  <2> HIDE DEF x
  <2>2. x.garbage \ {w} \in SUBSET FileWrites  BY <1>d
  <2>3. /\ Busy(t) /\ Busy(t)'
        /\ \A u \in Thread \ {t} : thread'[u] = thread[u]
        /\ SameWork(thread'[t], thread[t])
    BY <1>c, <1>e, <2>1, <2>2
  <2> QED  BY <1>6, <2>3
<1>7. CASE Undo(t) \/ UndoFails(t)
  <2>1. PICK w \in x.done : WorkStep(t, "undo", x.todo, x.done \ {w}, x.garbage)
    BY <1>7, <1>a, BusySteps
  <2> HIDE DEF x
  <2> QED  BY <1>c, <1>d, <1>e, <2>1
<1> QED  BY <1>1, <1>2, <1>3, <1>4, <1>5, <1>6, <1>7 DEF StaysBusy

\* Beside the file of an export, its work lets outputs be lost at most; only
\* an operation that may be undone writes the manifest.
LEMMA BusyStepFiles ==
    ASSUME NcInv, NEW t \in Thread, StaysBusy(t), ~damaged'
    PROVE  /\ ~damaged
           /\ \A n \in Names :
                 \/ output'[n] \in {output[n], NoFile}
                 \/ /\ thread[t].kind = "publish" /\ thread[t].pc \in {"write", "undo"}
                    /\ n = thread[t].new.name
           /\ Pending(t) \/ manifest' = manifest
           /\ Pending(t) \/ thread[t].pc = "remove"
<1> DEFINE x == thread[t]
<1>a. NcTypes /\ NcFilesTyped /\ NcThreadsTyped /\ NcOrder  BY DEF NcInv, NcTypes
<1>b. Busy(t)  BY <1>a, BusyStepSeen
<1>c. ~damaged
  BY DEF StaysBusy, Keep, KeepFails, Write, PutFails, Verify, Delete, DeleteFails, Undo,
         UndoFails, Overlap, history
<1>d. AtWork(t, x) /\ x \in StoreOps /\ Proper(t, x)
  BY <1>a, <1>b, <1>c, BusyHasOp DEF NcOrder
<1>e. output \in [Names -> Artifact \cup {NoFile}]  BY <1>a DEF NcFilesTyped, Outputs
<1>f. x.kind = "publish" => x.new.name \in Names  BY <1>d DEF Proper, Artifact
<1>g. Pending(t) \/ (x.pc = "remove" /\ x.kind # "publish")  BY <1>b DEF Pending
<1>1. CASE Keep(t) \/ KeepFails(t) \/ PutFails(t) \/ Verify(t) \/ DeleteFails(t) \/ UndoFails(t)
  <2>1. UNCHANGED <<manifest, output>>
    BY <1>1 DEF Keep, KeepFails, PutFails, Verify, DeleteFails, UndoFails, files
  <2> QED  BY <1>c, <1>g, <2>1
<1>2. CASE Write(t)
  <2>1. x.pc = "write" /\ \E w \in x.todo : Put(w)
    BY <1>2, <1>a, BusySteps
  <2>2. PICK w \in x.todo : Put(w)  BY <2>1
  <2>3. \/ x.kind = "publish" /\ w = WriteOutput(x.new.name, x.new)
        \/ \E a \in Artifact : w = WriteSidecar(a, x.want[a])
        \/ w = WriteManifest(x.want)
    BY <1>d DEF AtWork, Planned, Entries
  <2>4. output' = output \/ (x.kind = "publish" /\ output' = [output EXCEPT ![x.new.name] = x.new])
    BY <2>2, <2>3, PutEffect
  <2> QED  BY <1>c, <1>e, <1>f, <1>g, <2>1, <2>4
<1>3. CASE Undo(t)
  <2>1. x.pc = "undo" /\ \E w \in x.done : Put(w)
    BY <1>3, <1>a, BusySteps
  <2>2. PICK w \in x.done : Put(w)  BY <2>1
  <2>3. \/ x.kind = "publish" /\ w.file = "output" /\ w.key = x.new.name
        \/ \E a \in Artifact : w = WriteSidecar(a, x.was.sidecar[a])
        \/ w = WriteManifest(x.was.manifest)
    BY <1>d DEF AtWork, Kept
  <2>4. output' = output \/ (x.kind = "publish" /\ output' = [output EXCEPT ![x.new.name] = w.val])
    <3>1. w.file = "output" \/ output' = output  BY <2>2 DEF Put
    <3>2. w.file = "output" => output' = [output EXCEPT ![w.key] = w.val]  BY <2>2 DEF Put
    <3>3. w.file = "output" => x.kind = "publish" /\ w.key = x.new.name
      BY <2>3, WritesApart
    <3> QED  BY <3>1, <3>2, <3>3
  <2> QED  BY <1>c, <1>e, <1>f, <1>g, <2>1, <2>4
<1>4. CASE Delete(t)
  <2>1. x.pc = "remove" /\ \E w \in x.garbage : Put(w)
    BY <1>4, <1>a, BusySteps
  <2>2. PICK w \in x.garbage : Put(w)  BY <2>1
  <2>3. \/ \E a \in Artifact : w = WriteSidecar(a, "none")
        \/ \E n \in Names : w = WriteOutput(n, NoFile)
    BY <1>d DEF AtWork, Superfluous
  <2>4. manifest' = manifest /\ \A n \in Names : output'[n] \in {output[n], NoFile}
    <3>1. CASE \E a \in Artifact : w = WriteSidecar(a, "none")
      BY <2>2, <3>1, PutEffect
    <3>2. CASE \E n \in Names : w = WriteOutput(n, NoFile)
      <4>1. PICK n \in Names : w = WriteOutput(n, NoFile)  BY <3>2
      <4>2. output' = [output EXCEPT ![n] = NoFile] /\ manifest' = manifest
        BY <2>2, <4>1, PutEffect
      <4> QED  BY <1>e, <4>2
    <3> QED  BY <2>3, <3>1, <3>2
  <2> QED  BY <1>c, <2>1, <2>4
<1> QED  BY <1>1, <1>2, <1>3, <1>4 DEF StaysBusy

\* No thread at work is concerned, and outputs are lost at most.
Aside ==
    /\ \A u \in Thread :
          /\ Busy(u)' <=> Busy(u)
          /\ Busy(u) => SameWork(thread'[u], thread[u]) /\ thread'[u].pc = thread[u].pc
    /\ manifest' = manifest
    /\ ~damaged' => ~damaged
    /\ \A n \in Names : output'[n] \in {output[n], NoFile}

\* A step of one thread that is not at work stands aside.
LEMMA OneAside ==
    ASSUME NEW t \in Thread, ~Busy(t), ~Busy(t)',
           \A u \in Thread \ {t} : thread'[u] = thread[u],
           manifest' = manifest, output' = output, ~damaged' => ~damaged
    PROVE  Aside
<1>1. ASSUME NEW u \in Thread
      PROVE  /\ Busy(u)' <=> Busy(u)
             /\ Busy(u) => SameWork(thread'[u], thread[u]) /\ thread'[u].pc = thread[u].pc
  BY DEF Busy, SameWork
<1> QED  BY <1>1 DEF Aside

\* A request begins in a thread that is not at work.
LEMMA BeginAside ==
    ASSUME NcTypes, NEW t \in Thread, NEW kind, NEW op, NEW new, NEW policy,
           Begin(t, kind, op, new, policy), UNCHANGED <<files, damaged>>
    PROVE  Aside
<1>1. /\ ~Busy(t) /\ ~Busy(t)'
      /\ \A u \in Thread \ {t} : thread'[u] = thread[u]
  BY BeginEffect DEF NcTypes
<1> QED  BY <1>1, OneAside DEF files

\* The requests stand aside.
LEMMA RequestAside ==
    ASSUME NcTypes,
           \/ \E o \in Ops : Post(o) \/ Clear(o) \/ Calculate(o)
           \/ \E o \in Ops, n \in Names, p \in Policy : Export(o, n, p)
           \/ Edit \/ Save \/ UNCHANGED ncVars
           \/ \E n \in Names : Lose(n)
    PROVE  Aside
<1>1. ASSUME thread' = thread, manifest' = manifest, damaged' = damaged,
             \A n \in Names : output'[n] \in {output[n], NoFile}
      PROVE  Aside
  BY <1>1 DEF Aside, Busy, SameWork
<1>2. CASE \E o \in Ops : Post(o)
  BY <1>1, <1>2 DEF Post, files, history
<1>3. CASE UNCHANGED ncVars
  BY <1>1, <1>3 DEF ncVars, files, history
<1>4. CASE \E n \in Names : Lose(n)
  <2>1. PICK n \in Names : Lose(n)  BY <1>4
  <2>2. thread' = thread /\ manifest' = manifest /\ damaged' = damaged
    BY <2>1 DEF Lose
  <2>3. \A m \in Names : output'[m] \in {output[m], NoFile}
    BY <2>1 DEF Lose, NcTypes, NcFilesTyped, Outputs
  <2> QED  BY <1>1, <2>2, <2>3
<1>5. CASE \E o \in Ops : Clear(o)
  BY <1>5, BeginAside DEF Clear, Thread
<1>6. CASE \E o \in Ops : Calculate(o)
  BY <1>6, BeginAside DEF Calculate, Thread
<1>7. ASSUME NEW o \in Ops, NEW n \in Names, NEW p \in Policy, Export(o, n, p) PROVE Aside
  <2> DEFINE new == [op |-> o, src |-> toolpath[o], name |-> n]
  <2>1. Begin("ui", "publish", o, new, p) /\ UNCHANGED <<files, damaged>>
    BY <1>7 DEF Export
  <2> HIDE DEF new
  <2> QED  BY <2>1, BeginAside DEF Thread
<1>8. CASE Edit
  BY <1>8, BeginAside DEF Edit, Thread
<1>9. CASE Save
  BY <1>9, BeginAside DEF Save, Thread
<1> QED  BY <1>2, <1>3, <1>4, <1>5, <1>6, <1>7, <1>8, <1>9

\* So do the steps of a store operation before and after its work.
LEMMA StoreStepAside ==
    ASSUME NcTypes, NEW t \in Thread,
           \/ MarkRegistry(t) \/ LoadFails(t) \/ Recheck(t) \/ Register(t) \/ Finish(t)
           \/ Load(t) /\ thread' = [thread EXCEPT ![t] = [thread[t] EXCEPT !.pc = "succeed"]]
    PROVE  Aside
<1> DEFINE x == thread[t]
<1>1. CASE MarkRegistry(t)
  <2>1. UNCHANGED <<manifest, output, damaged>>  BY <1>1 DEF MarkRegistry, files, history
  <2>2. x.pc = "registry"  BY <1>1 DEF MarkRegistry
  <2>3. ASSUME NEW u \in Thread
        PROVE  /\ Busy(u)' <=> Busy(u)
               /\ Busy(u) => SameWork(thread'[u], thread[u]) /\ thread'[u].pc = thread[u].pc
    <3>1. CASE thread[u] = Idle
      <4>1. thread'[u] = Idle  BY <1>1, <3>1, MarkRegistryEffect DEF NcTypes
      <4> QED  BY <3>1, <4>1 DEF Busy, SameWork
    <3>2. CASE thread[u] # Idle
      <4>1. /\ SameOp(thread'[u], thread[u])
            /\ thread'[u].pc = IF u = t THEN "load" ELSE thread[u].pc
        BY <1>1, <3>2, MarkRegistryEffect DEF NcTypes
      <4> QED  BY <2>2, <4>1 DEF Busy, BusyPc, SameOp, SameWork
    <3> QED  BY <3>1, <3>2
  <2> QED  BY <2>1, <2>3 DEF Aside
<1>2. CASE LoadFails(t) \/ Register(t) \/ Finish(t)
  <2>1. /\ thread' = [thread EXCEPT ![t] = Idle]
        /\ UNCHANGED <<manifest, output, damaged>>
        /\ x.pc \in {"load", "register", "succeed"}
    BY <1>2 DEF LoadFails, Register, Finish, files, history
  <2>2. thread'[t] = Idle /\ \A u \in Thread \ {t} : thread'[u] = thread[u]
    BY <2>1 DEF NcTypes, NcThreadsTyped
  <2>3. ~Busy(t) /\ ~Busy(t)'  BY <2>1, <2>2 DEF Busy, BusyPc, Idle
  <2> QED  BY <2>1, <2>2, <2>3, OneAside
<1>3. CASE Recheck(t)
  <2>1. x.pc = "succeed" /\ UNCHANGED <<manifest, output, damaged>>
    BY <1>3 DEF Recheck, files, history
  <2>2. x \in StoreOps  BY <2>1, StepHasOp DEF NcTypes
  <2>3. /\ thread'[t].pc \in {"register", "load"}
        /\ \A u \in Thread \ {t} : thread'[u] = thread[u]
    <3>1. CASE StillCurrent(x)
      <4>1. thread' = [thread EXCEPT ![t] = [x EXCEPT !.pc = "register"]]
        BY <1>3, <3>1 DEF Recheck
      <4> QED  BY <2>2, <4>1, PcUpdate DEF NcTypes, NcThreadsTyped
    <3>2. CASE ~StillCurrent(x)
      <4> DEFINE y == [x EXCEPT !.pc = "load", !.kind = "mark",
                                !.want = NoFile, !.was = NoFile, !.done = {}]
      <4>1. thread' = [thread EXCEPT ![t] = y]  BY <1>3, <3>2 DEF Recheck
      <4>2. y.pc = "load"
        <5> HIDE DEF x
        <5> QED  BY <2>2 DEF StoreOps
      <4> HIDE DEF y
      <4> QED  BY <4>1, <4>2 DEF NcTypes, NcThreadsTyped
    <3> QED  BY <3>1, <3>2
  <2>4. ~Busy(t) /\ ~Busy(t)'  BY <2>1, <2>3 DEF Busy, BusyPc
  <2> QED  BY <2>1, <2>3, <2>4, OneAside
<1>4. CASE Load(t) /\ thread' = [thread EXCEPT ![t] = [x EXCEPT !.pc = "succeed"]]
  <2>1. x.pc = "load" /\ UNCHANGED <<manifest, output>> /\ (~damaged' => ~damaged)
    BY <1>4 DEF Load, Overlap, files
  <2>2. x \in StoreOps  BY <2>1, StepHasOp DEF NcTypes
  <2>3. /\ thread'[t].pc = "succeed"
        /\ \A u \in Thread \ {t} : thread'[u] = thread[u]
    BY <1>4, <2>2, PcUpdate DEF NcTypes, NcThreadsTyped
  <2>4. ~Busy(t) /\ ~Busy(t)'  BY <2>1, <2>3 DEF Busy, BusyPc
  <2> QED  BY <2>1, <2>3, <2>4, OneAside
<1> QED  BY <1>1, <1>2, <1>3, <1>4

\* The steps in which a thread leaves its work.
Leaves(t) == Undone(t) \/ Deleted(t) \/ (DeleteFails(t) /\ thread[t].kind # "publish")

\* They change no file.
LEMMA LeavesEffect ==
    ASSUME NcTypes, NEW t \in Thread, Leaves(t)
    PROVE  /\ Busy(t) /\ ~Busy(t)'
           /\ \A u \in Thread \ {t} : thread'[u] = thread[u]
           /\ UNCHANGED <<manifest, output, damaged>>
<1> DEFINE x == thread[t]
<1>1. x.pc \in {"undo", "remove"} /\ UNCHANGED <<manifest, output, damaged>>
  BY DEF Leaves, Undone, Deleted, DeleteFails, files, history
<1>2. x \in StoreOps  BY <1>1, StepHasOp DEF NcTypes
<1>3. thread'[t].pc \in {"idle", "succeed"} /\ \A u \in Thread \ {t} : thread'[u] = thread[u]
  <2>1. CASE thread' = [thread EXCEPT ![t] = Idle]
    BY <2>1 DEF NcTypes, NcThreadsTyped, Idle
  <2>2. CASE thread' = [thread EXCEPT ![t].pc = "succeed"]
    <3>1. thread' = [thread EXCEPT ![t] = [x EXCEPT !.pc = "succeed"]]  BY <2>2
    <3> QED  BY <1>2, <3>1, PcUpdate DEF NcTypes, NcThreadsTyped
  <2> QED  BY <2>1, <2>2 DEF Leaves, Undone, Deleted, DeleteFails, Go
<1> QED  BY <1>1, <1>3 DEF Busy, BusyPc

\* The steps by the way they concern the threads at work.
LEMMA StepsByWork ==
    ASSUME NcTypes, [NcNext]_ncVars
    PROVE  \/ Aside
           \/ Restart
           \/ \E t \in Thread :
                 \/ Load(t) /\ thread' = [thread EXCEPT ![t] = Loaded(thread[t])]
                 \/ StaysBusy(t)
                 \/ Leaves(t)
<1>1. \/ \/ \E o \in Ops : Post(o) \/ Clear(o) \/ Calculate(o)
         \/ \E o \in Ops, n \in Names, p \in Policy : Export(o, n, p)
         \/ Edit \/ Save \/ UNCHANGED ncVars
         \/ \E n \in Names : Lose(n)
      \/ Restart
      \/ \E t \in Thread : StoreStep(t)
  BY DEF NcNext
<1>2. ASSUME NEW t \in Thread, StoreStep(t)
      PROVE  \/ Aside
             \/ Load(t) /\ thread' = [thread EXCEPT ![t] = Loaded(thread[t])]
             \/ StaysBusy(t)
             \/ Leaves(t)
  BY <1>2, LoadSteps, StoreStepAside DEF StoreStep, StaysBusy, Leaves
<1> QED  BY <1>1, <1>2, RequestAside

\* What an operation that begins its work has in hand.
LEMMA LoadedEffect ==
    ASSUME NcInv, NEW t \in Thread, Load(t), ~damaged',
           thread' = [thread EXCEPT ![t] = Loaded(thread[t])]
    PROVE  LET x == thread[t]  y == thread'[t] IN
           /\ x \in StoreOps /\ Proper(t, x)
           /\ ~damaged /\ \A u \in Thread : ~Busy(u)
           /\ \A u \in Thread \ {t} : thread'[u] = thread[u]
           /\ UNCHANGED <<manifest, output>>
           /\ Busy(t)' /\ y.pc \in {"keep", "write"}
           /\ y.kind = x.kind /\ y.op = x.op /\ y.new = x.new
           /\ y.want = Candidate(x) /\ y.was.manifest = manifest /\ y.was.output = output
<1> DEFINE x == thread[t]
           y == Loaded(x)
<1>1. x.pc = "load" /\ Overlap(t) /\ UNCHANGED <<manifest, output>>  BY DEF Load, files
<1>2. x \in StoreOps /\ Proper(t, x)  BY <1>1, StepHasOp DEF NcInv, NcTypes
<1>3. thread'[t] = y /\ \A u \in Thread \ {t} : thread'[u] = thread[u]
  BY DEF NcInv, NcTypes, NcThreadsTyped
<1>4. /\ y.pc \in {"keep", "write"} /\ y.kind = x.kind /\ y.op = x.op /\ y.new = x.new
      /\ y.want = Candidate(x) /\ y.was.manifest = manifest /\ y.was.output = output
  BY <1>1, <1>2, LoadedFields DEF NcInv, NcTypes
<1> HIDE DEF y
<1>5. ~damaged /\ \A u \in Thread \ {t} : ~Busy(u)  BY <1>1, NoOverlap
<1>6. ~Busy(t) /\ Busy(t)'  BY <1>1, <1>3, <1>4 DEF Busy, BusyPc
<1> QED  BY <1>1, <1>2, <1>3, <1>4, <1>5, <1>6

\* Operations stay what they are meant to be.
LEMMA MeansStep == NcInv /\ NcMeans /\ [NcNext]_ncVars => NcMeans'
<1> SUFFICES ASSUME NcInv, NcMeans, [NcNext]_ncVars, ~damaged' PROVE NcMeans'
  BY DEF NcMeans
<1>0. NcTypes /\ NcOrder  BY DEF NcInv
<1>1. CASE Aside
  <2>1. ASSUME NEW u \in Thread, Busy(u)'
        PROVE  /\ Busy(u) /\ SameWork(thread'[u], thread[u])
               /\ thread'[u].pc = thread[u].pc
    BY <1>1, <2>1 DEF Aside
  <2> QED  BY <1>0, <1>1, <2>1, MeansKept DEF Aside
<1>2. CASE Restart
  <2>1. \A u \in Thread : thread'[u] = Idle  BY <1>2 DEF Restart
  <2>2. \A u \in Thread : ~Busy(u)'  BY <2>1 DEF Busy, BusyPc, Idle
  <2> QED  BY <2>2 DEF NcMeans
<1>3. ASSUME NEW t \in Thread, Load(t),
             thread' = [thread EXCEPT ![t] = Loaded(thread[t])]
      PROVE  NcMeans'
  <2> DEFINE x == thread[t]
             y == thread'[t]
  <2>1. /\ x \in StoreOps /\ Proper(t, x)
        /\ \A u \in Thread : ~Busy(u)
        /\ \A u \in Thread \ {t} : thread'[u] = thread[u]
        /\ UNCHANGED <<manifest, output>>
        /\ y.pc \in {"keep", "write"}
        /\ y.kind = x.kind /\ y.op = x.op /\ y.new = x.new
        /\ y.want = Candidate(x) /\ y.was.manifest = manifest
    BY <1>3, LoadedEffect
  <2>2. x.kind = "publish" => x.new \in Artifact  BY <2>1 DEF Proper
  <2>3. NcFilesTyped  BY <1>0 DEF NcTypes
  <2>4. /\ x.kind = "publish" => Candidate(x) = Atomic!Published(manifest, x.new)
        /\ x.kind = "clear" => Candidate(x) = Atomic!Cleared(manifest, x.op)
        /\ x.kind \in {"mark", "reconcile"} => Atomic!Outdates(Candidate(x), manifest)
        /\ x.kind = "flush" => Atomic!Classifies(Candidate(x), manifest, output)
    BY <2>1, <2>2, <2>3, CandidateIsMeant
  <2>5. Meant(thread[t])'  BY <2>1, <2>4 DEF Meant
  <2>6. \A u \in Thread \ {t} : ~Busy(u)'  BY <2>1 DEF Busy
  <2> QED  BY <2>5, <2>6 DEF NcMeans
<1>4. ASSUME NEW t \in Thread, StaysBusy(t) PROVE NcMeans'
  <2> DEFINE x == thread[t]
             y == thread'[t]
  <2>1. /\ Busy(t) /\ \A u \in Thread \ {t} : thread'[u] = thread[u]
        /\ SameWork(y, x)
        /\ y.pc = "remove" => Verify(t) \/ Delete(t)
    BY <1>0, <1>4, BusyStepSeen
  <2>2. /\ ~damaged
        /\ \A n \in Names :
              \/ output'[n] \in {output[n], NoFile}
              \/ x.kind = "publish" /\ x.pc \in {"write", "undo"}
    BY <1>4, BusyStepFiles
  <2>3. x.kind = "publish" /\ y.pc = "remove" =>
            \/ output'[x.new.name] = x.new
            \/ /\ x.pc = "remove"
               /\ \A n \in Names : output'[n] \in {output[n], NoFile}
    <3> SUFFICES ASSUME x.kind = "publish", y.pc = "remove"
                 PROVE  \/ output'[x.new.name] = x.new
                        \/ /\ x.pc = "remove"
                           /\ \A n \in Names : output'[n] \in {output[n], NoFile}
      OBVIOUS
    <3>0. x \in StoreOps /\ x.new \in Artifact
      BY <1>0, <2>1, BusyHasOp DEF NcTypes, Proper
    <3>1. CASE Verify(t)
      <4> DEFINE Fits == Readable /\ (x.kind = "publish" => Inspected[x.new] = "current")
      <4>1. output' = output /\ Go(t, IF Fits THEN "remove" ELSE "undo")
        BY <3>1 DEF Verify, files
      <4>2. Fits
        <5> SUFFICES ASSUME ~Fits PROVE FALSE  OBVIOUS
        <5>1. thread' = [thread EXCEPT ![t] = [x EXCEPT !.pc = "undo"]]
          BY <4>1 DEF Go
        <5>2. thread'[t].pc = "undo"
          BY <1>0, <3>0, <5>1, PcUpdate DEF NcTypes, NcThreadsTyped, BusyPc
        <5> QED  BY <5>2
      <4>3. output[x.new.name] = x.new  BY <3>0, <4>2 DEF Inspected
      <4> QED  BY <4>1, <4>3
    <3>2. CASE Delete(t)
      <4>1. x.pc = "remove"  BY <3>2 DEF Delete
      <4> QED  BY <2>2, <4>1
    <3> QED  BY <2>1, <3>1, <3>2
  <2>4. \A u \in Thread \ {t} : ~Busy(u)'
    <3>1. \A u \in Thread \ {t} : ~Busy(u)  BY <1>0, <2>1, <2>2 DEF NcOrder
    <3> QED  BY <2>1, <3>1 DEF Busy
  <2> QED  BY <1>0, <2>1, <2>2, <2>3, <2>4, MeansKept
<1>5. ASSUME NEW t \in Thread, Leaves(t) PROVE NcMeans'
  BY <1>0, <1>5, LeavesEffect, MeansWithout
<1> QED  BY <1>0, <1>1, <1>2, <1>3, <1>4, <1>5, StepsByWork

\* Operations are always what they are meant to be.
LEMMA MeansHold == NcSpec => [](NcInv /\ NcMeans)
<1>1. NcInit => NcMeans
  BY DEF NcInit, NcMeans, Busy, BusyPc, Idle
<1> QED  BY <1>1, NcInvHolds, MeansStep, PTL DEF NcSpec

\* What the ledger is, without a choice: one thread at most is pending.
LedgerIsClear ==
    /\ Ledger \in [Artifact -> ArtifactStatus] /\ Shelf \in Outputs
    /\ ~damaged =>
          /\ \A t \in Thread : Pending(t) => Ledger = thread[t].was.manifest
          /\ (\A t \in Thread : ~Pending(t)) => Ledger = manifest

\* The ledger and the shelf are what the pending operation, if any, found.
LEMMA LedgerSeen == NcInv => LedgerIsClear
<1> SUFFICES ASSUME NcInv PROVE LedgerIsClear  OBVIOUS
<1>0. NcTypes /\ NcOrder  BY DEF NcInv
<1>1. ASSUME NEW t \in Thread, Busy(t)
      PROVE  /\ thread[t].was.manifest \in [Artifact -> ArtifactStatus]
             /\ thread[t].was.output \in Outputs
             /\ thread[t].kind = "publish" => thread[t].new \in Artifact
  <2>1. Proper(t, thread[t])  BY <1>0, <1>1, BusyHasOp DEF NcTypes
  <2>2. thread[t].was \in Snapshots  BY <1>1, <2>1 DEF Proper, Busy
  <2> QED  BY <2>1, <2>2 DEF Proper, Snapshots, Manifests
<1>2. ASSUME ~damaged, NEW t \in Thread, Pending(t)
      PROVE  Ledger = thread[t].was.manifest
  <2>1. \A u \in Thread : Pending(u) => u = t
    BY <1>0, <1>2 DEF NcOrder, Pending
  <2>2. (CHOOSE u \in Thread : Pending(u)) = t  BY <1>2, <2>1
  <2> QED  BY <1>2, <2>2 DEF Ledger
<1>3. ASSUME ~damaged, \A t \in Thread : ~Pending(t) PROVE Ledger = manifest
  BY <1>3 DEF Ledger
<1>4. Ledger \in [Artifact -> ArtifactStatus]
  <2>1. CASE damaged  BY <2>1 DEF Ledger, ArtifactStatus
  <2>2. CASE ~damaged /\ \E t \in Thread : Pending(t)
    BY <1>1, <1>2, <2>2 DEF Pending
  <2>3. CASE ~damaged /\ \A t \in Thread : ~Pending(t)
    BY <1>0, <1>3, <2>3 DEF NcTypes, NcFilesTyped, Manifests
  <2> QED  BY <2>1, <2>2, <2>3
<1>5. Shelf \in Outputs
  <2>1. output \in Outputs  BY <1>0 DEF NcTypes, NcFilesTyped
  <2>2. CASE damaged  BY <2>2 DEF Shelf, Outputs
  <2>3. CASE ~damaged /\ Exporting
    <3> DEFINE x == thread["ui"]
    <3>1. x.was.output \in Outputs /\ x.new.name \in Names
      BY <1>1, <2>3 DEF Exporting, Thread, Artifact
    <3>2. Shelf = [output EXCEPT ![x.new.name] = x.was.output[x.new.name]]
      BY <2>3 DEF Shelf
    <3> HIDE DEF x
    <3> QED  BY <2>1, <3>1, <3>2 DEF Outputs
  <2>4. CASE ~damaged /\ ~Exporting  BY <2>1, <2>4 DEF Shelf
  <2> QED  BY <2>2, <2>3, <2>4
<1> QED  BY <1>2, <1>3, <1>4, <1>5 DEF LedgerIsClear

\* The same of the next state.
LEMMA LedgerSeenNext == NcInv' => LedgerIsClear'
  BY LedgerSeen, PTL

\* The shelf, by whether an export is at work.
LEMMA ShelfSeen ==
    ~damaged =>
        LET x == thread["ui"] IN
        /\ Exporting => Shelf = [output EXCEPT ![x.new.name] = x.was.output[x.new.name]]
        /\ ~Exporting => Shelf = output
  BY DEF Shelf

\* The same of the next state.
LEMMA ShelfSeenNext ==
    ~damaged' =>
        LET y == thread'["ui"] IN
        /\ Exporting' => Shelf' = [output' EXCEPT ![y.new.name] = y.was.output[y.new.name]]
        /\ ~Exporting' => Shelf' = output'
  BY DEF Shelf

\* An export at work has a file name.
LEMMA ExportNamed ==
    ASSUME NcTypes, Exporting
    PROVE  thread["ui"].new \in Artifact /\ thread["ui"].new.name \in Names
<1>1. "ui" \in Thread  BY DEF Thread
<1> QED  BY <1>1, BusyHasOp DEF Exporting, NcTypes, Proper, Artifact

\* A step in which the shelf loses files at most: an export goes on and writes
\* nothing but its own file, or none is at work.
LEMMA ShelfKept ==
    ASSUME NcInv, NcInv', ~damaged, ~damaged',
           LET x == thread["ui"]  y == thread'["ui"] IN
           \/ /\ Exporting /\ Exporting' /\ SameWork(y, x)
              /\ \A n \in Names : output'[n] \in {output[n], NoFile} \/ n = x.new.name
           \/ /\ ~Exporting /\ ~Exporting'
              /\ \A n \in Names : output'[n] \in {output[n], NoFile}
    PROVE  Atomic!ShelfIs(Shelf)
<1> DEFINE x == thread["ui"]
           y == thread'["ui"]
<1>1. Shelf' \in [Names -> Artifact \cup {NoFile}]
  BY LedgerSeenNext DEF LedgerIsClear, Outputs
<1>2. output \in [Names -> Artifact \cup {NoFile}] /\ output' \in [Names -> Artifact \cup {NoFile}]
  BY DEF NcInv, NcTypes, NcFilesTyped, Outputs
<1>3. CASE /\ Exporting /\ Exporting' /\ SameWork(y, x)
           /\ \A n \in Names : output'[n] \in {output[n], NoFile} \/ n = x.new.name
  <2>1. x.new.name \in Names  BY <1>3, ExportNamed DEF NcInv
  <2>2. /\ Shelf = [output EXCEPT ![x.new.name] = x.was.output[x.new.name]]
        /\ Shelf' = [output' EXCEPT ![x.new.name] = x.was.output[x.new.name]]
    BY <1>3, ShelfSeen, ShelfSeenNext DEF SameWork
  <2>3. \A n \in Names : Shelf'[n] \in {Shelf[n], NoFile}
    BY <1>2, <1>3, <2>1, <2>2
  <2> QED  BY <1>1, <2>3 DEF Atomic!ShelfIs
<1>4. CASE /\ ~Exporting /\ ~Exporting'
           /\ \A n \in Names : output'[n] \in {output[n], NoFile}
  BY <1>1, <1>4, ShelfSeen, ShelfSeenNext DEF Atomic!ShelfIs
<1> QED  BY <1>3, <1>4

\* A step that leaves the ledger as it is.
LEMMA LedgerKept ==
    ASSUME NcInv, NcInv', ~damaged, ~damaged', Ledger' = Ledger, Atomic!ShelfIs(Shelf)
    PROVE  Atomic!Next
<1>1. Ledger' \in [Artifact -> ArtifactStatus]  BY LedgerSeenNext DEF LedgerIsClear
<1>2. Atomic!Outdate  BY DEF Atomic!Outdate, Atomic!Outdates
<1>3. damaged' = damaged  BY DEF NcInv, NcTypes, NcScalarsTyped
<1> QED  BY <1>1, <1>2, <1>3 DEF Atomic!Next, Atomic!Status, ArtifactStatus

\* A step that changes the ledger.
LEMMA LedgerChanged ==
    ASSUME NcInv, NcInv', ~damaged, ~damaged',
           \/ \E new \in Artifact : Atomic!Publish(new)
           \/ \E o \in Ops : Atomic!Clear(o)
           \/ Atomic!Outdate
           \/ Atomic!Classify
    PROVE  Atomic!Next
<1>1. Ledger' \in [Artifact -> ArtifactStatus]  BY LedgerSeenNext DEF LedgerIsClear
<1>2. damaged' = damaged  BY DEF NcInv, NcTypes, NcScalarsTyped
<1> QED  BY <1>1, <1>2 DEF Atomic!Next, Atomic!Status, ArtifactStatus

\* Steps aside of the work leave the ledger alone.
LEMMA AsideIsQuiet ==
    ASSUME NcInv, NcInv', ~damaged, ~damaged', Aside
    PROVE  Atomic!Next
<1>1. \A u \in Thread : /\ Pending(u)' <=> Pending(u)
                        /\ Pending(u) => thread'[u].was = thread[u].was
  BY DEF Aside, Pending, SameWork
<1>2. Ledger' = Ledger
  <2>1. CASE \E t \in Thread : Pending(t)
    <3>1. PICK t \in Thread : Pending(t)  BY <2>1
    <3>2. Ledger = thread[t].was.manifest  BY <3>1, LedgerSeen DEF LedgerIsClear
    <3>3. Ledger' = thread'[t].was.manifest  BY <1>1, <3>1, LedgerSeenNext DEF LedgerIsClear
    <3> QED  BY <1>1, <3>1, <3>2, <3>3
  <2>2. CASE \A t \in Thread : ~Pending(t)
    <3>1. Ledger = manifest  BY <2>2, LedgerSeen DEF LedgerIsClear
    <3>2. Ledger' = manifest'  BY <1>1, <2>2, LedgerSeenNext DEF LedgerIsClear
    <3> QED  BY <3>1, <3>2 DEF Aside
  <2> QED  BY <2>1, <2>2
<1>3. Atomic!ShelfIs(Shelf)
  <2>1. "ui" \in Thread  BY DEF Thread
  <2>2. /\ Busy("ui")' <=> Busy("ui")
        /\ Busy("ui") => SameWork(thread'["ui"], thread["ui"])
    BY <2>1 DEF Aside
  <2>3. CASE Exporting
    <3>1. Exporting' /\ SameWork(thread'["ui"], thread["ui"])
      BY <2>2, <2>3 DEF Exporting, SameWork
    <3> QED  BY <2>3, <3>1, ShelfKept DEF Aside
  <2>4. CASE ~Exporting
    <3>1. ~Exporting'  BY <2>2, <2>4 DEF Exporting, SameWork
    <3> QED  BY <2>4, <3>1, ShelfKept DEF Aside
  <2> QED  BY <2>3, <2>4
<1> QED  BY <1>2, <1>3, LedgerKept

\* A work that ends, or is given up before its first write, with the manifest
\* that the ledger has; the file of an export is in place or lost.
LEMMA EndIsQuiet ==
    ASSUME NcInv, NcInv', ~damaged, ~damaged',
           UNCHANGED <<manifest, output>>,
           \A u \in Thread : ~Busy(u)',
           Ledger = manifest,
           Exporting => LET x == thread["ui"] IN
                        output[x.new.name] \in {x.was.output[x.new.name], NoFile}
    PROVE  Atomic!Next
<1>1. Ledger' = Ledger
  <2>1. \A u \in Thread : ~Pending(u)'  BY DEF Pending
  <2> QED  BY <2>1, LedgerSeenNext DEF LedgerIsClear
<1>2. Atomic!ShelfIs(Shelf)
  <2> DEFINE x == thread["ui"]
  <2>1. ~Exporting'  BY DEF Exporting, Thread
  <2>2. Shelf' = output  BY <2>1, ShelfSeenNext
  <2>3. CASE Exporting
    <3>1. Shelf = [output EXCEPT ![x.new.name] = x.was.output[x.new.name]]
      BY <2>3, ShelfSeen
    <3>2. x.new.name \in Names  BY <2>3, ExportNamed DEF NcInv
    <3>3. output \in [Names -> Artifact \cup {NoFile}]
      BY DEF NcInv, NcTypes, NcFilesTyped, Outputs
    <3>4. output[x.new.name] \in {x.was.output[x.new.name], NoFile}  BY <2>3
    <3>5. \A n \in Names : Shelf'[n] \in {Shelf[n], NoFile}
      <4> HIDE DEF x
      <4> QED  BY <2>2, <3>1, <3>2, <3>3, <3>4
    <3> QED  BY <2>2, <3>3, <3>5 DEF Atomic!ShelfIs
  <2>4. CASE ~Exporting  BY <2>1, <2>4, ShelfKept
  <2> QED  BY <2>3, <2>4
<1> QED  BY <1>1, <1>2, LedgerKept

\* A restart finds the ledger in the manifest.
LEMMA RestartIsQuiet ==
    ASSUME NcInv, NcInv', Restart, ~damaged'
    PROVE  ~damaged /\ Atomic!Next
<1>1. ~damaged /\ \A t \in Thread :
          ~(thread[t] # Idle /\ thread[t].pc \in {"write", "remove", "undo"})
  BY DEF Restart
<1>2. UNCHANGED <<manifest, output>>  BY DEF Restart, files
<1>3. \A u \in Thread : ~Busy(u)'
  <2>1. \A u \in Thread : thread'[u] = Idle  BY DEF Restart
  <2> QED  BY <2>1 DEF Busy, BusyPc, Idle
<1>4. ASSUME NEW t \in Thread, Busy(t)
      PROVE  /\ Pending(t) /\ manifest = thread[t].was.manifest
             /\ OutputsOf(thread[t]) /\ thread[t].pc = "keep"
             /\ thread[t].new.name \in Names
  <2>1. thread[t] # Idle /\ Proper(t, thread[t])  BY <1>4, BusyHasOp DEF NcInv, NcTypes
  <2>2. thread[t].pc = "keep" /\ thread[t].kind = "publish"
    BY <1>1, <1>4, <2>1 DEF Busy, BusyPc, Proper
  <2>3. AtWork(t, thread[t])  BY <1>1, <1>4 DEF NcInv, NcOrder
  <2> QED  BY <1>4, <2>1, <2>2, <2>3 DEF AtWork, Pending, Proper, Artifact
<1>5. Ledger = manifest
  <2>1. CASE \E t \in Thread : Busy(t)
    <3>1. PICK t \in Thread : Busy(t)  BY <2>1
    <3> QED  BY <1>1, <1>4, <3>1, LedgerSeen DEF LedgerIsClear
  <2>2. CASE \A t \in Thread : ~Busy(t)
    BY <1>1, <2>2, LedgerSeen DEF LedgerIsClear, Pending
  <2> QED  BY <2>1, <2>2
<1>6. ASSUME Exporting
      PROVE  LET x == thread["ui"] IN
             output[x.new.name] \in {x.was.output[x.new.name], NoFile}
  <2>1. Busy("ui") /\ "ui" \in Thread  BY <1>6 DEF Exporting, Thread
  <2> QED  BY <1>4, <2>1 DEF OutputsOf
<1> QED  BY <1>1, <1>2, <1>3, <1>5, <1>6, EndIsQuiet

\* An operation that begins its work has the ledger in hand.
LEMMA LoadIsQuiet ==
    ASSUME NcInv, NcInv', NEW t \in Thread, Load(t), ~damaged',
           thread' = [thread EXCEPT ![t] = Loaded(thread[t])]
    PROVE  ~damaged /\ Atomic!Next
<1> DEFINE x == thread[t]
           y == thread'[t]
<1>1. /\ ~damaged /\ \A u \in Thread : ~Busy(u)
      /\ \A u \in Thread \ {t} : thread'[u] = thread[u]
      /\ UNCHANGED <<manifest, output>>
      /\ Busy(t)' /\ y.pc \in {"keep", "write"}
      /\ y.was.manifest = manifest /\ y.was.output = output
  BY LoadedEffect
<1>2. Ledger' = Ledger
  <2>1. Ledger = manifest  BY <1>1, LedgerSeen DEF LedgerIsClear, Pending
  <2>2. Pending(t)'  BY <1>1 DEF Pending
  <2>3. Ledger' = y.was.manifest  BY <2>2, LedgerSeenNext DEF LedgerIsClear
  <2> QED  BY <1>1, <2>1, <2>3
<1>3. Atomic!ShelfIs(Shelf)
  <2>1. ~Exporting  BY <1>1 DEF Exporting, Thread
  <2>2. CASE ~Exporting'  BY <1>1, <2>1, <2>2, ShelfKept
  <2>3. CASE Exporting'
    <3>1. t = "ui"
      <4> SUFFICES ASSUME t # "ui" PROVE FALSE  OBVIOUS
      <4>1. thread'["ui"] = thread["ui"] /\ ~Busy("ui")  BY <1>1 DEF Thread
      <4> QED  BY <2>3, <4>1 DEF Exporting, Busy
    <3>2. output \in [Names -> Artifact \cup {NoFile}]
      BY DEF NcInv, NcTypes, NcFilesTyped, Outputs
    <3>3. Shelf' = [output EXCEPT ![y.new.name] = output[y.new.name]]
      BY <1>1, <2>3, <3>1, ShelfSeenNext
    <3>4. Shelf' = output  BY <3>2, <3>3
    <3> QED  BY <1>1, <2>1, <3>2, <3>4, ShelfSeen DEF Atomic!ShelfIs
  <2> QED  BY <2>2, <2>3
<1> QED  BY <1>1, <1>2, <1>3, LedgerKept

\* Cleaning up goes on until nothing is left.
LEMMA DeleteStays ==
    ASSUME NcTypes, NEW t \in Thread, Delete(t)
    PROVE  thread'[t].pc = "remove"
<1> DEFINE x == thread[t]
<1>1. PICK w \in x.garbage : WorkStep(t, "remove", x.todo, x.done, x.garbage \ {w})
  BY BusySteps DEF NcTypes
<1>2. x.pc = "remove"  BY DEF Delete
<1>3. x \in StoreOps  BY <1>2, StepHasOp DEF NcTypes
<1>4. /\ x.todo \in SUBSET FileWrites /\ x.done \in SUBSET FileWrites
      /\ x.garbage \ {w} \in SUBSET FileWrites
  BY <1>3 DEF StoreOps
<1>5. thread[t].pc \in BusyPc /\ "remove" \in {"write", "remove", "undo"}  BY <1>2 DEF BusyPc
<1> DEFINE W == x.todo
           D == x.done
           G == x.garbage \ {w}
<1>6. /\ WorkStep(t, "remove", W, D, G)
      /\ W \in SUBSET FileWrites /\ D \in SUBSET FileWrites /\ G \in SUBSET FileWrites
  BY <1>1, <1>4
<1> HIDE DEF W, D, G, x
<1> QED  BY <1>5, <1>6, WorkStepBusy

\* The work of an export, or of an operation that puts nothing on the shelf.
LEMMA WorkKeepsShelf ==
    ASSUME NcInv, NcInv', NEW t \in Thread, StaysBusy(t), ~damaged'
    PROVE  Atomic!ShelfIs(Shelf)
<1> DEFINE x == thread[t]
<1>0. NcTypes /\ NcOrder  BY DEF NcInv
<1>1. /\ Busy(t) /\ Busy(t)'
      /\ \A u \in Thread \ {t} : thread'[u] = thread[u]
      /\ SameWork(thread'[t], x)
  BY <1>0, BusyStepSeen
<1>2. /\ ~damaged
      /\ \A n \in Names :
            \/ output'[n] \in {output[n], NoFile}
            \/ x.kind = "publish" /\ n = x.new.name
  BY BusyStepFiles
<1>3. \A u \in Thread : Busy(u) => u = t  BY <1>0, <1>1, <1>2 DEF NcOrder
<1>4. \A u \in Thread : Busy(u)' => u = t  BY <1>1, <1>3 DEF Busy
<1>5. x.kind = "publish" => t = "ui"  BY <1>0, <1>1, BusyHasOp DEF NcTypes, Proper
<1>6. CASE x.kind = "publish"
  <2>1. Exporting /\ Exporting'  BY <1>1, <1>5, <1>6 DEF Exporting, SameWork
  <2>2. SameWork(thread'["ui"], thread["ui"])  BY <1>1, <1>5, <1>6
  <2>3. \A n \in Names : output'[n] \in {output[n], NoFile} \/ n = thread["ui"].new.name
    BY <1>2, <1>5, <1>6
  <2> QED  BY <1>2, <2>1, <2>2, <2>3, ShelfKept
<1>7. CASE x.kind # "publish"
  <2>1. "ui" \in Thread  BY DEF Thread
  <2>2. ~Exporting /\ ~Exporting'
    BY <1>1, <1>3, <1>4, <1>7, <2>1 DEF Exporting, SameWork
  <2> QED  BY <1>2, <1>7, <2>2, ShelfKept
<1> QED  BY <1>6, <1>7

\* The work changes the ledger when an operation other than an export has been
\* verified: entries become stale, are found missing or tampered with, or go.
LEMMA WorkIsLedgerStep ==
    ASSUME NcInv, NcInv', NcMeans, NEW t \in Thread, StaysBusy(t), ~damaged'
    PROVE  ~damaged /\ Atomic!Next
<1> DEFINE x == thread[t]
           y == thread'[t]
<1>0. NcTypes /\ NcOrder  BY DEF NcInv
<1>1. /\ Busy(t) /\ Busy(t)'
      /\ \A u \in Thread \ {t} : thread'[u] = thread[u]
      /\ SameWork(y, x) /\ (y.pc = "remove" => Verify(t) \/ Delete(t))
  BY <1>0, BusyStepSeen
<1>2. /\ ~damaged
      /\ Pending(t) \/ manifest' = manifest
      /\ Pending(t) \/ x.pc = "remove"
  BY BusyStepFiles
<1>3. Atomic!ShelfIs(Shelf)  BY WorkKeepsShelf
<1>4. \A u \in Thread \ {t} : ~Pending(u) /\ ~Pending(u)'
  <2>1. \A u \in Thread \ {t} : ~Busy(u)  BY <1>0, <1>1, <1>2 DEF NcOrder
  <2>2. \A u \in Thread \ {t} : ~Busy(u)'  BY <1>1, <2>1 DEF Busy
  <2> QED  BY <2>1, <2>2 DEF Pending
<1>5. CASE Pending(t) /\ Pending(t)'
  <2>1. Ledger = x.was.manifest  BY <1>2, <1>5, LedgerSeen DEF LedgerIsClear
  <2>2. Ledger' = y.was.manifest  BY <1>5, LedgerSeenNext DEF LedgerIsClear
  <2>3. Ledger' = Ledger  BY <1>1, <2>1, <2>2 DEF SameWork
  <2> QED  BY <1>2, <1>3, <2>3, LedgerKept
<1>6. CASE ~Pending(t)
  <2>1. x.pc = "remove" /\ x.kind # "publish"  BY <1>1, <1>2, <1>6 DEF Pending
  <2>2. Delete(t)
    BY <2>1 DEF StaysBusy, Keep, KeepFails, Write, PutFails, Verify, DeleteFails, Undo, UndoFails
  <2>3. ~Pending(t)'
    BY <1>0, <1>1, <2>1, <2>2, DeleteStays DEF Pending, SameWork
  <2>4. Ledger = manifest  BY <1>2, <1>4, <1>6, LedgerSeen DEF LedgerIsClear
  <2>5. Ledger' = manifest'  BY <1>4, <2>3, LedgerSeenNext DEF LedgerIsClear
  <2> QED  BY <1>2, <1>3, <1>6, <2>4, <2>5, LedgerKept
<1>7. CASE Pending(t) /\ ~Pending(t)'
  <2>1. y.pc = "remove" /\ y.kind # "publish"  BY <1>1, <1>7 DEF Pending
  <2>2. /\ x.kind = y.kind /\ x.op = y.op /\ x.want = y.want /\ x.was = y.was
    BY <1>1 DEF SameWork
  <2>3. Ledger = x.was.manifest  BY <1>2, <1>7, LedgerSeen DEF LedgerIsClear
  <2>4. Ledger' = manifest'  BY <1>4, <1>7, LedgerSeenNext DEF LedgerIsClear
  <2>5. AtWork(t, thread[t])'  BY <1>1 DEF NcInv, NcOrder
  <2>6. manifest' = y.want  BY <2>1, <2>5 DEF AtWork
  <2>7. Ledger' = x.want  BY <2>2, <2>4, <2>6
  <2>8. Meant(x)  BY <1>1, <1>2 DEF NcMeans
  <2>9. x \in StoreOps  BY <1>0, <1>1, BusyHasOp DEF NcTypes
  <2>10. CASE x.kind = "clear"
    <3>1. x.op \in Ops  BY <2>9 DEF StoreOps
    <3>2. Atomic!Clear(x.op)
      BY <1>3, <2>3, <2>7, <2>8, <2>10 DEF Meant, Atomic!Clear
    <3> QED  BY <1>2, <3>1, <3>2, LedgerChanged
  <2>11. CASE x.kind \in {"mark", "reconcile"}
    <3>1. Atomic!Outdates(Ledger', Ledger)  BY <2>3, <2>7, <2>8, <2>11 DEF Meant
    <3>2. Atomic!Outdate  BY <1>3, <3>1 DEF Atomic!Outdate
    <3> QED  BY <1>2, <3>2, LedgerChanged
  <2>12. CASE x.kind = "flush"
    <3>1. Atomic!Classifies(Ledger', Ledger, output)  BY <2>3, <2>7, <2>8, <2>12 DEF Meant
    <3>2. Shelf = output
      <4>1. \A u \in Thread : Busy(u) => u = t  BY <1>0, <1>1, <1>2 DEF NcOrder
      <4>2. ~Exporting  BY <2>12, <4>1 DEF Exporting, Thread
      <4> QED  BY <1>2, <4>2, ShelfSeen
    <3>3. Atomic!Classify  BY <1>3, <3>1, <3>2 DEF Atomic!Classify
    <3> QED  BY <1>2, <3>3, LedgerChanged
  <2> QED  BY <2>1, <2>2, <2>9, <2>10, <2>11, <2>12 DEF StoreOps, Kind
<1> QED  BY <1>5, <1>6, <1>7

\* The cleanup of an export ends: only now are the artifact in the ledger and
\* its file on the shelf.
LEMMA PublishIsLedgerStep ==
    ASSUME NcInv, NcInv', NcMeans, NEW t \in Thread, Deleted(t),
           thread[t].kind = "publish", ~damaged, ~damaged'
    PROVE  Atomic!Next
<1> DEFINE x == thread[t]
<1>0. NcTypes /\ NcOrder  BY DEF NcInv
<1>1. /\ Busy(t) /\ ~Busy(t)'
      /\ \A u \in Thread \ {t} : thread'[u] = thread[u]
      /\ UNCHANGED <<manifest, output>>
  BY <1>0, LeavesEffect DEF Leaves
<1>2. x.pc = "remove"  BY DEF Deleted
<1>3. AtWork(t, x) /\ Meant(x) /\ Proper(t, x)
  BY <1>0, <1>1, BusyHasOp DEF NcOrder, NcMeans, NcTypes
<1>4. t = "ui" /\ x.new \in Artifact /\ x.new.name \in Names
  BY <1>3 DEF Proper, Artifact
<1>5. \A u \in Thread : ~Busy(u)'
  <2>1. \A u \in Thread \ {t} : ~Busy(u)  BY <1>0, <1>1 DEF NcOrder
  <2> QED  BY <1>1, <2>1 DEF Busy
<1>6. Ledger = x.was.manifest
  BY <1>1, LedgerSeen DEF LedgerIsClear, Pending
<1>7. Ledger' = manifest  BY <1>1, <1>5, LedgerSeenNext DEF LedgerIsClear, Pending
<1>8. Ledger' = Atomic!Published(Ledger, x.new)
  BY <1>2, <1>3, <1>6, <1>7 DEF AtWork, Meant
<1>9. Atomic!ShelfIs([Shelf EXCEPT ![x.new.name] = x.new])
  <2>1. Exporting /\ ~Exporting'  BY <1>1, <1>4, <1>5 DEF Exporting
  <2>2. Shelf = [output EXCEPT ![x.new.name] = x.was.output[x.new.name]]
    BY <1>4, <2>1, ShelfSeen
  <2>3. Shelf' = output  BY <1>1, <2>1, ShelfSeenNext
  <2>4. output[x.new.name] \in {x.new, NoFile}  BY <1>2, <1>3 DEF Meant
  <2>5. output \in [Names -> Artifact \cup {NoFile}]
    BY <1>0 DEF NcTypes, NcFilesTyped, Outputs
  <2>6. \A n \in Names : Shelf'[n] \in {[Shelf EXCEPT ![x.new.name] = x.new][n], NoFile}
    <3> HIDE DEF x
    <3> QED  BY <1>4, <2>2, <2>3, <2>4, <2>5
  <2> QED  BY <2>3, <2>5, <2>6 DEF Atomic!ShelfIs
<1>10. Atomic!Publish(x.new)  BY <1>8, <1>9 DEF Atomic!Publish
<1> QED  BY <1>4, <1>10, LedgerChanged

\* The other ends of a work leave the ledger alone: it has been undone, or has
\* been in the ledger since it was verified.
LEMMA EndIsLedgerStep ==
    ASSUME NcInv, NcInv', NcMeans, NEW t \in Thread, Leaves(t), ~damaged'
    PROVE  ~damaged /\ Atomic!Next
<1> DEFINE x == thread[t]
<1>0. NcTypes /\ NcOrder  BY DEF NcInv
<1>1. /\ Busy(t) /\ ~Busy(t)'
      /\ \A u \in Thread \ {t} : thread'[u] = thread[u]
      /\ UNCHANGED <<manifest, output, damaged>>
  BY <1>0, LeavesEffect
<1>2. ~damaged  BY <1>1
<1>3. \A u \in Thread : Busy(u) => u = t  BY <1>0, <1>1, <1>2 DEF NcOrder
<1>4. \A u \in Thread : ~Busy(u)'
  <2>1. \A u \in Thread \ {t} : ~Busy(u)  BY <1>3
  <2> QED  BY <1>1, <2>1 DEF Busy
<1>5. "ui" \in Thread  BY DEF Thread
<1>6. CASE Undone(t)
  <2>1. x.pc = "undo" /\ x.done = {}  BY <1>6 DEF Undone
  <2>2. AtWork(t, x)  BY <1>0, <1>1, <1>2 DEF NcOrder
  <2>3. /\ manifest = x.was.manifest
        /\ x.kind = "publish" => output[x.new.name] \in {x.was.output[x.new.name], NoFile}
    BY <2>1, <2>2, UndoneIsAsItWas
  <2>4. Ledger = manifest
    BY <1>1, <1>2, <2>1, <2>3, LedgerSeen DEF LedgerIsClear, Pending
  <2>5. Exporting => t = "ui" /\ x.kind = "publish"  BY <1>3, <1>5 DEF Exporting
  <2> QED  BY <1>1, <1>2, <1>4, <2>3, <2>4, <2>5, EndIsQuiet
<1>7. CASE Deleted(t) /\ x.kind = "publish"
  BY <1>2, <1>7, PublishIsLedgerStep
<1>8. CASE (Deleted(t) \/ DeleteFails(t)) /\ x.kind # "publish"
  <2>1. x.pc = "remove"  BY <1>8 DEF Deleted, DeleteFails
  <2>2. \A u \in Thread : ~Pending(u)  BY <1>3, <1>8, <2>1 DEF Pending
  <2>3. Ledger = manifest  BY <1>2, <2>2, LedgerSeen DEF LedgerIsClear
  <2>4. ~Exporting  BY <1>3, <1>5, <1>8 DEF Exporting
  <2> QED  BY <1>1, <1>2, <1>4, <2>3, <2>4, EndIsQuiet
<1> QED  BY <1>6, <1>7, <1>8 DEF Leaves

\* Every step of the store is a step of the ledger or none.
LEMMA LedgerStep ==
    NcInv /\ NcInv' /\ NcMeans /\ [NcNext]_ncVars => [Atomic!Next]_(Atomic!vars)
<1> SUFFICES ASSUME NcInv, NcInv', NcMeans, [NcNext]_ncVars
             PROVE  [Atomic!Next]_(Atomic!vars)
  OBVIOUS
<1>0. NcTypes /\ damaged \in BOOLEAN /\ damaged' \in BOOLEAN
  BY DEF NcInv, NcTypes, NcScalarsTyped
<1>1. CASE damaged'
  <2>1. Ledger' = Atomic!NoEntries /\ Shelf' = Atomic!NoFiles
    BY <1>1 DEF Ledger, Shelf, Atomic!NoEntries, Atomic!NoFiles
  <2>2. CASE damaged
    <3>1. Ledger = Atomic!NoEntries /\ Shelf = Atomic!NoFiles
      BY <2>2 DEF Ledger, Shelf, Atomic!NoEntries, Atomic!NoFiles
    <3> QED  BY <1>0, <1>1, <2>1, <2>2, <3>1 DEF Atomic!vars
  <2>3. CASE ~damaged
    <3>1. Atomic!Void  BY <1>0, <1>1, <2>1 DEF Atomic!Void
    <3> QED  BY <2>3, <3>1 DEF Atomic!Next
  <2> QED  BY <2>2, <2>3
<1>2. CASE ~damaged'
  <2>1. CASE Aside
    <3>1. ~damaged  BY <1>2, <2>1 DEF Aside
    <3> QED  BY <1>2, <2>1, <3>1, AsideIsQuiet
  <2>2. CASE Restart  BY <1>2, <2>2, RestartIsQuiet
  <2>3. ASSUME NEW t \in Thread,
               \/ Load(t) /\ thread' = [thread EXCEPT ![t] = Loaded(thread[t])]
               \/ StaysBusy(t)
               \/ Leaves(t)
        PROVE  Atomic!Next
    BY <1>2, <2>3, LoadIsQuiet, WorkIsLedgerStep, EndIsLedgerStep
  <2> QED  BY <1>0, <2>1, <2>2, <2>3, StepsByWork
<1> QED  BY <1>1, <1>2

\* For any operations, file names and number of requests: as long as no
\* operation is cut short, fails to be undone or overlaps another, the files
\* that the store replaces one by one look like a ledger and a shelf that change
\* in single steps.  An export takes place as a whole or not at all.
THEOREM StoreImplementsLedger == NcSpec => ImplementsLedger
<1>1. NcInit => Atomic!Init
  <2> SUFFICES ASSUME NcInit PROVE Atomic!Init  OBVIOUS
  <2>1. damaged = FALSE /\ \A t \in Thread : ~Busy(t)
    BY DEF NcInit, Busy, BusyPc, Idle
  <2>2. Ledger = manifest /\ Shelf = output
    BY <2>1 DEF Ledger, Shelf, Pending, Exporting, Thread
  <2> QED  BY <2>1, <2>2 DEF NcInit, Atomic!Init, Atomic!NoEntries, Atomic!NoFiles
<1> QED  BY <1>1, MeansHold, LedgerStep, PTL DEF NcSpec, ImplementsLedger, Atomic!Spec
=============================================================================
