------------------------- MODULE GeometryApplyProofs -------------------------
(***************************************************************************)
(* Proofs about GeometryApply, for any number of edits of the project.     *)
(***************************************************************************)
EXTENDS GeometryApply, TLAPS

----------------------------------------------------------------------------
(* The inductive invariant.                                                *)

\* The steps of an open project, those of an apply and its rollback included.
InSession ==
    \/ pc \in {"idle", "rebind"} \cup ApplySteps \cup RollBack
    \/ pc \in StatusSteps /\ job \notin {"return", "complete"}

SessionFits == IF InSession THEN mem \in Content ELSE mem = Absent

\* Where the request is while its status changes, while it is applied and while
\* an opening recovers it.
RequestFits ==
    /\ pc \in ApplySteps \cup RollBack \cup {"undoAssets", "undoFiles"} => place = "staging"
    /\ pc = "rebind" => place = "applied"
    /\ pc = "load" => place # "staging"
    /\ pc \in StatusSteps =>
         place = IF job \in {"defer", "reject"} THEN "pending" ELSE "staging"
    /\ pc # "checksums" => sumsOk

\* First the backup, then the evidence, then the assets, then the project.
InOrder ==
    /\ pc \in {"prepare", "assets", "commit", "save", "persist"} => backup \in Content
    /\ pc \in {"assets", "commit", "save", "persist"} => evidence # "none"
    /\ pc \in {"commit", "save", "persist"} => assets
    /\ evidence # "none" => backup \in Content
    /\ assets \/ disk.ref => evidence # "none"

\* The project without the change in progress.
Kept == IF place = "staging" THEN Restored ELSE disk

Completing == pc \in StatusSteps /\ job \in {"finish", "complete"}

\* Where the project may refer to the geometry of a request in staging/.
Written ==
    \/ pc \in {"closed", "persist", "inspect", "undoAssets", "undoFiles"} \cup RollBack
    \/ Completing

ProjectFits ==
    /\ disk.edits >= acked /\ Kept.edits >= acked
    /\ place = "applied" => disk.ref /\ assets
    /\ place # "applied" => ~Kept.ref
    /\ place = "staging" => disk = Kept \/ (disk.ref /\ Written)
    /\ disk.ref /\ pc \notin {"restore", "undoFiles"} => assets
    /\ pc = "persist" \/ Completing => disk.ref

MemoryFits ==
    mem # Absent =>
        /\ mem.edits >= acked
        /\ pc # "rebind" => /\ mem.ref = Kept.ref
                            /\ ~dirty => mem = Kept

Regular == RequestFits /\ InOrder /\ ProjectFits /\ MemoryFits

\* As long as no saved work has been given up.
Inv == TypeOK /\ SessionFits /\ (excused = {} => Regular)

\* A content is its geometry reference and its edits, and no absent file is one.
LEMMA ContentType ==
    /\ \A c \in Content : c.ref \in BOOLEAN /\ c.edits \in 0 .. MaxEdits /\ c.edits \in Nat
    /\ \A e \in 0 .. MaxEdits, b \in BOOLEAN : [ref |-> b, edits |-> e] \in Content
    /\ Absent \notin Content /\ Empty \notin Content /\ Absent # Empty
BY MaxEditsAssumption, AbsentAssumption DEF Content

\* Contents with the same reference and edits are the same.
LEMMA SameEdits ==
    ASSUME NEW c \in Content, NEW d \in Content, c.ref = d.ref, c.edits = d.edits
    PROVE  c = d
BY DEF Content

\* What each change of status writes, where it moves the request and what follows.
LEMMA JobType ==
    ASSUME NEW j \in Job
    PROVE  /\ NewStatus[j] \in Status /\ Dest[j] \in Place
           /\ After[j] \in {"backup", "idle", "rebind", "load"}
           /\ After[j] = "load" <=> j \in {"return", "complete"}
BY DEF Job, NewStatus, Status, Dest, Place, After

----------------------------------------------------------------------------
(* Types, and whether there is a session.                                  *)

\* The steps of a change of status keep types and places.
LEMMA StatusTypes ==
    ASSUME TypeOK, SessionFits,
           PutMetadata \/ PutChecksums \/ MoveRequest \/ StatusChangeFails
    PROVE  TypeOK' /\ SessionFits'
<1>0. /\ NewStatus[job] \in Status /\ Dest[job] \in Place
      /\ After[job] \in {"backup", "idle", "rebind", "load"}
      /\ After[job] = "load" <=> job \in {"return", "complete"}
  BY JobType DEF TypeOK
<1> USE DEF StatusSteps, ApplySteps, RollBack, RecoverSteps
<1>1. CASE PutMetadata
  <2>1. UNCHANGED <<mem, job>> /\ pc = "metadata" /\ pc' = "checksums"
    BY <1>1 DEF PutMetadata, Step, session
  <2>2. SessionFits'
    BY <2>1 DEF SessionFits, InSession
  <2>3. status' \in Status /\ sumsOk' \in BOOLEAN
    BY <1>0, <1>1 DEF PutMetadata, TypeOK
  <2>4. UNCHANGED <<place, evidence, backup, assets, disk, mem, dirty, auto, job, acked, excused>>
    BY <1>1 DEF PutMetadata, project, session, history
  <2> QED BY <2>1, <2>2, <2>3, <2>4 DEF TypeOK
<1>2. CASE PutChecksums
  <2>1. UNCHANGED <<mem, job>> /\ pc = "checksums" /\ pc' \in {"move", After[job]}
    BY <1>2 DEF PutChecksums, Step, session
  <2>2. SessionFits'
    BY <1>0, <2>1 DEF SessionFits, InSession, TypeOK, Job
  <2>3. /\ sumsOk' = TRUE
        /\ UNCHANGED <<place, status, evidence, backup, assets, disk, mem, dirty, auto, job, acked,
                       excused>>
    BY <1>2 DEF PutChecksums, project, session, history
  <2> QED BY <1>0, <2>1, <2>2, <2>3 DEF TypeOK
<1>3. CASE MoveRequest
  <2>1. UNCHANGED <<mem, job>> /\ pc = "move" /\ pc' = After[job] /\ place' = Dest[job]
    BY <1>3 DEF MoveRequest, Step, session
  <2>2. SessionFits'
    BY <1>0, <2>1 DEF SessionFits, InSession, TypeOK, Job
  <2>3. UNCHANGED <<status, sumsOk, evidence, backup, assets, disk, mem, dirty, auto, job, acked,
                    excused>>
    BY <1>3 DEF MoveRequest, project, session, history
  <2> QED BY <1>0, <2>1, <2>2, <2>3 DEF TypeOK
<1>4. CASE StatusChangeFails
  <2>1. pc \in StatusSteps /\ job \in Job
    BY <1>4 DEF StatusChangeFails, TypeOK
  <2>2. \/ /\ job \notin {"return", "complete"} /\ pc' \in {"idle", "removeAssets"}
           /\ UNCHANGED <<mem, dirty, auto>>
        \/ pc' = "closed" /\ mem' = Absent /\ dirty' = FALSE /\ auto' = Absent
    BY <1>4 DEF StatusChangeFails, GiveUp, session
  <2>3. UNCHANGED <<place, status, sumsOk, evidence, backup, assets, disk, job, acked>>
    BY <1>4 DEF StatusChangeFails, request, project
  <2>4. SessionFits'
    BY <2>1, <2>2, <2>3 DEF SessionFits, InSession
  <2>5. excused' \subseteq Excuse
    BY <1>4 DEF StatusChangeFails, Torn, TypeOK, Excuse
  <2> QED BY <2>2, <2>3, <2>4, <2>5 DEF TypeOK
<1> QED BY <1>1, <1>2, <1>3, <1>4

\* The steps of apply_incoming_geometry keep them.
LEMMA ApplyTypes ==
    ASSUME TypeOK, SessionFits,
           \/ Defer \/ Reject \/ Claim
           \/ MakeBackupRoot \/ CopyBackup \/ Prepare \/ CommitAssets \/ Commit
           \/ SaveCandidate \/ Persist \/ Rebind \/ ApplyFails \/ RebindFails
    PROVE  TypeOK' /\ SessionFits'
<1> USE DEF StatusSteps, ApplySteps, RollBack, RecoverSteps, request, project, session, history,
            InSession, SessionFits
<1>1. CASE Defer \/ Reject
  <2>1. /\ pc = "idle" /\ pc' = "metadata" /\ job' \in {"defer", "reject"}
        /\ UNCHANGED <<request, evidence, backup, project, session, history>>
    BY <1>1 DEF Defer, Reject, Begin
  <2> QED BY <2>1 DEF TypeOK, Job
<1>2. CASE Claim
  <2>1. /\ pc = "idle" /\ pc' = "metadata" /\ job' = "claim" /\ place' = "staging"
        /\ excused' \subseteq excused \cup {"secondAttempt"}
        /\ UNCHANGED <<status, sumsOk, evidence, backup, project, session, acked>>
    BY <1>2 DEF Claim, Begin
  <2> QED BY <2>1 DEF TypeOK, Job, Place, Excuse
<1>3. CASE MakeBackupRoot
  BY <1>3 DEF MakeBackupRoot, Step, TypeOK
<1>4. CASE CopyBackup
  BY <1>4 DEF CopyBackup, Step, TypeOK
<1>5. CASE Prepare \/ Commit
  BY <1>5 DEF Prepare, Commit, WriteEvidence, Step, TypeOK
<1>6. CASE CommitAssets
  BY <1>6 DEF CommitAssets, Step, TypeOK
<1>7. CASE SaveCandidate
  <2>1. mem \in Content /\ [ref |-> TRUE, edits |-> mem.edits] \in Content
    BY <1>7, ContentType DEF SaveCandidate, Step
  <2> QED BY <1>7, <2>1 DEF SaveCandidate, Step, TypeOK
<1>8. CASE Persist
  BY <1>8 DEF Persist, Begin, TypeOK, Job
<1>9. CASE Rebind
  BY <1>9, ContentType DEF Rebind, Step, TypeOK
<1>10. CASE ApplyFails
  BY <1>10 DEF ApplyFails, TypeOK
<1>11. CASE RebindFails
  BY <1>11 DEF RebindFails, Step, TypeOK, Excuse
<1> QED BY <1>1, <1>2, <1>3, <1>4, <1>5, <1>6, <1>7, <1>8, <1>9, <1>10, <1>11

\* Its rollback and what the user does with the project keep them.
LEMMA ProjectTypes ==
    ASSUME TypeOK, SessionFits,
           \/ RemoveAssets \/ RestoreFiles \/ RollbackFails
           \/ Edit \/ SaveProject \/ Autosave \/ CloseProject \/ Crash
    PROVE  TypeOK' /\ SessionFits'
<1> USE DEF StatusSteps, ApplySteps, RollBack, RecoverSteps, request, project, session, history,
            InSession, SessionFits
<1>f. ASSUME FailClaim
      PROVE  /\ pc' \in {"metadata", "idle"} /\ job' \in {job, "fail"}
             /\ pc' = "metadata" => job' = "fail"
  BY <1>f DEF FailClaim, Begin
<1>1. CASE RemoveAssets
  BY <1>1 DEF RemoveAssets, Step, TypeOK
<1>2. CASE RestoreFiles
  <2>1. disk' \in Content
    BY <1>2 DEF RestoreFiles, Restored, TypeOK
  <2> QED BY <1>2, <1>f, <2>1 DEF RestoreFiles, TypeOK, Job
<1>3. CASE RollbackFails
  <2>1. excused' \subseteq Excuse
    BY <1>3 DEF RollbackFails, TypeOK, Excuse
  <2> QED BY <1>3, <1>f, <2>1 DEF RollbackFails, TypeOK, Job
<1>4. CASE Edit
  <2>1. mem \in Content /\ pc = "idle" /\ mem.edits < MaxEdits
    BY <1>4 DEF Edit
  <2>2. mem' = [mem EXCEPT !.edits = mem.edits + 1] /\ mem.edits + 1 \in 0 .. MaxEdits
    BY <1>4, <2>1, ContentType, MaxEditsAssumption DEF Edit
  <2>3. mem' \in Content
    BY <2>1, <2>2 DEF Content
  <2> QED BY <1>4, <2>3 DEF Edit, TypeOK
<1>5. CASE SaveProject
  <2>1. mem \in Content /\ mem.edits \in 0 .. MaxEdits
    BY <1>5, ContentType DEF SaveProject
  <2>2. excused' \subseteq Excuse
    BY <1>5 DEF SaveProject, Staged, TypeOK, Excuse
  <2> QED BY <1>5, <2>1, <2>2 DEF SaveProject, TypeOK
<1>6. CASE Autosave
  BY <1>6 DEF Autosave, TypeOK
<1>7. CASE CloseProject
  BY <1>7 DEF CloseProject, GiveUp, TypeOK
<1>8. CASE Crash
  <2>1. excused' \subseteq Excuse
    BY <1>8 DEF Crash, Torn, HalfRolledBack, TypeOK, Excuse
  <2>2. auto' \in Content \cup {Absent}
    BY <1>8 DEF Crash, TypeOK
  <2> QED BY <1>8, <2>1, <2>2 DEF Crash, TypeOK
<1> QED BY <1>1, <1>2, <1>3, <1>4, <1>5, <1>6, <1>7, <1>8

\* Opening the project, and the recovery in it, keep them.
LEMMA OpeningTypes ==
    ASSUME TypeOK, SessionFits,
           \/ OpenRefused \/ OpenProject \/ RecoverProject \/ Inspect \/ UndoAssets \/ UndoFiles
           \/ Load \/ OpenFails
    PROVE  TypeOK' /\ SessionFits'
<1> USE DEF StatusSteps, ApplySteps, RollBack, RecoverSteps, request, project, session, history,
            InSession, SessionFits
<1>1. CASE OpenRefused
  BY <1>1 DEF OpenRefused, vars, TypeOK
<1>2. CASE OpenProject
  BY <1>2 DEF OpenProject, Step, TypeOK
<1>3. CASE RecoverProject
  <2>1. auto \in Content /\ auto.edits \in 0 .. MaxEdits
    BY <1>3, ContentType DEF RecoverProject, TypeOK
  <2>2. excused' \subseteq Excuse
    BY <1>3 DEF RecoverProject, Staged, TypeOK, Excuse
  <2> QED BY <1>3, <2>1, <2>2 DEF RecoverProject, Step, TypeOK
<1>4. CASE Inspect
  <2>1. /\ pc = "inspect"
        /\ \/ pc' \in {"load", "undoAssets"} /\ job' = job
           \/ pc' = "metadata" /\ job' \in {"return", "complete"}
        /\ UNCHANGED <<request, evidence, backup, project, session, history>>
    BY <1>4 DEF Inspect, Begin
  <2> QED BY <2>1 DEF TypeOK, Job
<1>5. CASE UndoAssets
  BY <1>5 DEF UndoAssets, Step, TypeOK
<1>6. CASE UndoFiles
  BY <1>6 DEF UndoFiles, Begin, TypeOK, Job
<1>7. CASE Load
  BY <1>7 DEF Load, Step, TypeOK
<1>8. CASE OpenFails
  <2>1. excused' \subseteq Excuse
    BY <1>8 DEF OpenFails, HalfRolledBack, TypeOK, Excuse
  <2> QED BY <1>8, <2>1 DEF OpenFails, GiveUp, TypeOK
<1> QED BY <1>1, <1>2, <1>3, <1>4, <1>5, <1>6, <1>7, <1>8

----------------------------------------------------------------------------
(* The regular project.                                                    *)

\* A change of status keeps request, files and memory in agreement.
LEMMA StatusKeeps ==
    ASSUME TypeOK, SessionFits, Regular, excused' = {},
           PutMetadata \/ PutChecksums \/ MoveRequest \/ StatusChangeFails
    PROVE  Regular'
<1> USE DEF StatusSteps, ApplySteps, RollBack, RecoverSteps, request, project, session, history,
            InSession, SessionFits, RequestFits, InOrder, ProjectFits, MemoryFits, Regular, Kept,
            Restored, Completing, Written
<1>1. CASE PutMetadata
  BY <1>1 DEF PutMetadata, Step
<1>2. CASE PutChecksums
  BY <1>2 DEF PutChecksums, Step, Dest, After, TypeOK, Job
<1>3. CASE MoveRequest
  BY <1>3 DEF MoveRequest, Step, Dest, After, TypeOK, Job
<1>4. CASE StatusChangeFails
  BY <1>4 DEF StatusChangeFails, GiveUp, Torn, TypeOK, Job
<1> QED BY <1>1, <1>2, <1>3, <1>4

\* So do the steps of apply_incoming_geometry.
LEMMA ApplyKeeps ==
    ASSUME TypeOK, SessionFits, Regular, excused' = {},
           \/ Defer \/ Reject \/ Claim
           \/ MakeBackupRoot \/ CopyBackup \/ Prepare \/ CommitAssets \/ Commit
           \/ SaveCandidate \/ Persist \/ Rebind \/ ApplyFails \/ RebindFails
    PROVE  Regular'
<1> USE DEF StatusSteps, ApplySteps, RollBack, RecoverSteps, request, project, session, history,
            InSession, SessionFits, RequestFits, InOrder, ProjectFits, MemoryFits, Regular, Kept,
            Restored, Completing, Written
<1>1. CASE Defer \/ Reject
  BY <1>1 DEF Defer, Reject, Begin, Selectable, Readable
<1>2. CASE Claim
  BY <1>2, ContentType DEF Claim, Begin, Selectable, Readable, TypeOK
<1>3. CASE MakeBackupRoot
  BY <1>3, ContentType DEF MakeBackupRoot, Step
<1>4. CASE CopyBackup
  BY <1>4 DEF CopyBackup, Step, TypeOK
<1>5. CASE Prepare \/ Commit
  BY <1>5 DEF Prepare, Commit, WriteEvidence, Step
<1>6. CASE CommitAssets
  BY <1>6 DEF CommitAssets, Step
<1>7. CASE SaveCandidate
  <2>1. /\ pc = "save" /\ pc' = "persist" /\ disk'.ref = TRUE /\ disk'.edits = mem.edits
        /\ UNCHANGED <<place, status, sumsOk, evidence, backup, assets, mem, dirty, acked>>
    BY <1>7 DEF SaveCandidate, Step
  <2>2. /\ place = "staging" /\ backup \in Content /\ mem \in Content /\ mem # Absent
        /\ Kept = backup /\ Kept' = backup /\ assets
    BY <2>1, ContentType
  <2>3. RequestFits' /\ InOrder'
    BY <2>1, <2>2
  <2>4. ProjectFits'
    BY <2>1, <2>2
  <2>5. MemoryFits'
    BY <2>1, <2>2
  <2> QED BY <2>3, <2>4, <2>5
<1>8. CASE Persist
  BY <1>8 DEF Persist, Begin
<1>9. CASE Rebind
  BY <1>9, ContentType DEF Rebind, Step, TypeOK
<1>10. CASE ApplyFails
  BY <1>10 DEF ApplyFails
<1>11. CASE RebindFails
  BY <1>11 DEF RebindFails, Step
<1> QED BY <1>1, <1>2, <1>3, <1>4, <1>5, <1>6, <1>7, <1>8, <1>9, <1>10, <1>11

\* So do its rollback and what the user does with the project.
LEMMA ProjectKeeps ==
    ASSUME TypeOK, SessionFits, Regular, excused' = {},
           \/ RemoveAssets \/ RestoreFiles \/ RollbackFails
           \/ Edit \/ SaveProject \/ Autosave \/ CloseProject \/ Crash
    PROVE  Regular'
<1> USE DEF StatusSteps, ApplySteps, RollBack, RecoverSteps, request, project, session, history,
            InSession, SessionFits, RequestFits, InOrder, ProjectFits, MemoryFits, Regular, Kept,
            Restored, Completing, Written
<1>1. CASE RemoveAssets
  BY <1>1 DEF RemoveAssets, Step
<1>2. CASE RestoreFiles
  BY <1>2 DEF RestoreFiles, FailClaim, Begin
<1>3. CASE RollbackFails
  BY <1>3 DEF RollbackFails
<1>4. CASE Edit
  BY <1>4, ContentType DEF Edit, TypeOK, Content
<1>5. CASE SaveProject
  BY <1>5, ContentType DEF SaveProject, Staged
<1>6. CASE Autosave
  BY <1>6 DEF Autosave
<1>7. CASE CloseProject
  BY <1>7 DEF CloseProject, GiveUp
<1>8. CASE Crash
  BY <1>8 DEF Crash, Torn, HalfRolledBack
<1> QED BY <1>1, <1>2, <1>3, <1>4, <1>5, <1>6, <1>7, <1>8

\* So do opening the project and the recovery in it.
LEMMA OpeningKeeps ==
    ASSUME TypeOK, SessionFits, Regular, excused' = {},
           \/ OpenRefused \/ OpenProject \/ RecoverProject \/ Inspect \/ UndoAssets \/ UndoFiles
           \/ Load \/ OpenFails
    PROVE  Regular'
<1> USE DEF StatusSteps, ApplySteps, RollBack, RecoverSteps, request, project, session, history,
            InSession, SessionFits, RequestFits, InOrder, ProjectFits, MemoryFits, Regular, Kept,
            Restored, Completing, Written
<1>1. CASE OpenRefused
  BY <1>1 DEF OpenRefused, vars
<1>2. CASE OpenProject
  BY <1>2 DEF OpenProject, Step
<1>3. CASE RecoverProject
  BY <1>3, ContentType DEF RecoverProject, Staged, Step, TypeOK
<1>4. CASE Inspect
  BY <1>4 DEF Inspect, Begin, WasPersisted, Readable
<1>5. CASE UndoAssets
  BY <1>5 DEF UndoAssets, Step
<1>6. CASE UndoFiles
  BY <1>6 DEF UndoFiles, Begin
<1>7. CASE Load
  BY <1>7 DEF Load, Step
<1>8. CASE OpenFails
  BY <1>8 DEF OpenFails, GiveUp, HalfRolledBack
<1> QED BY <1>1, <1>2, <1>3, <1>4, <1>5, <1>6, <1>7, <1>8

----------------------------------------------------------------------------
(* The theorems.                                                           *)

\* The inductive invariant holds initially.
LEMMA InitInv ==
    ASSUME Init
    PROVE  Inv
<1>1. [ref |-> FALSE, edits |-> 0] \in Content
  BY MaxEditsAssumption DEF Content
<1>2. TypeOK
  <2>1. disk \in Content /\ mem \in Content /\ 0 \in 0 .. MaxEdits
    BY <1>1, MaxEditsAssumption DEF Init
  <2>2. /\ place = "pending" /\ status = "PENDING" /\ sumsOk = TRUE /\ evidence = "none"
        /\ backup = Absent /\ assets = FALSE /\ dirty = FALSE /\ auto = Absent /\ pc = "idle"
        /\ job = "claim" /\ acked = 0 /\ excused = {}
    BY DEF Init
  <2> QED BY <2>1, <2>2 DEF TypeOK, Place, Status, Job
<1>3. SessionFits
  BY <1>1 DEF Init, SessionFits, InSession
<1>4. Regular
  BY <1>1, ContentType
     DEF Init, Regular, RequestFits, InOrder, ProjectFits, MemoryFits, Kept, Completing, Written,
         ApplySteps, RollBack, StatusSteps
<1> QED BY <1>2, <1>3, <1>4 DEF Inv

\* What is given up once stays given up.
LEMMA ExcusesStay ==
    ASSUME Next
    PROVE  excused \subseteq excused'
BY DEF Next, PutMetadata, PutChecksums, MoveRequest, StatusChangeFails, Defer, Reject, Claim,
       MakeBackupRoot, CopyBackup, Prepare, CommitAssets, Commit, WriteEvidence, SaveCandidate,
       Persist, Rebind, ApplyFails, RebindFails, RemoveAssets, RestoreFiles, RollbackFails, Edit,
       SaveProject, Autosave, CloseProject, Crash, OpenRefused, OpenProject, RecoverProject,
       Inspect, UndoAssets, UndoFiles, Load, OpenFails, history, vars

\* Every step keeps it.
LEMMA InvStep ==
    ASSUME Inv, [Next]_vars
    PROVE  Inv'
<1>1. CASE Next
  <2>1. TypeOK' /\ SessionFits'
    BY <1>1, StatusTypes, ApplyTypes, ProjectTypes, OpeningTypes DEF Inv, Next
  <2>2. ASSUME excused' = {} PROVE Regular'
    <3>1. excused = {}
      BY <1>1, <2>2, ExcusesStay
    <3> QED BY <1>1, <2>2, <3>1, StatusKeeps, ApplyKeeps, ProjectKeeps, OpeningKeeps DEF Inv, Next
  <2> QED BY <2>1, <2>2 DEF Inv
<1>2. CASE UNCHANGED vars
  <2> USE <1>2 DEF vars, request, project, session, history
  <2>1. TypeOK' /\ SessionFits'
    BY DEF Inv, TypeOK, SessionFits, InSession
  <2>2. Regular => Regular'
    BY DEF Regular, RequestFits, InOrder, ProjectFits, MemoryFits, Kept, Restored, Completing,
           Written
  <2> QED BY <2>1, <2>2 DEF Inv
<1> QED BY <1>1, <1>2

\* Every reachable state satisfies the inductive invariant.
THEOREM ApplyInvariant == Spec => []Inv
<1> QED BY InitInv, InvStep, PTL DEF Spec

\* Every variable stays within its type.
THEOREM TypeCorrect == Spec => []TypeOK
<1>1. Inv => TypeOK
  BY DEF Inv
<1> QED BY <1>1, ApplyInvariant, PTL

\* Whatever fails and wherever the process dies, the edits that were reported
\* saved are on disk once no apply is in progress, outside the ways in which the
\* code gives saved work up.
THEOREM SavedEditsAreKept == Spec => []SavedEditsKeptOtherwise
<1>1. Inv => SavedEditsKeptOtherwise
  BY DEF Inv, Regular, ProjectFits, SavedEditsKeptOtherwise
<1> QED BY <1>1, ApplyInvariant, PTL

\* The directory that a request is in tells whether the project has its geometry,
\* and a session without unsaved changes has in memory what is on disk.
THEOREM InboxTellsTheTruth == Spec => []InboxMatchesProject
<1>1. Inv => InboxMatchesProject
  <2> SUFFICES ASSUME Inv, excused = {} PROVE InboxMatchesProject
    BY DEF InboxMatchesProject
  <2> USE DEF Inv, Regular
  <2>1. Settled => IF place = "applied" THEN disk.ref /\ assets ELSE ~disk.ref
    BY DEF Settled, ProjectFits, Kept
  <2>2. ASSUME pc = "idle", ~dirty PROVE mem = disk
    <3>1. mem \in Content /\ mem # Absent
      BY <2>2, ContentType DEF SessionFits, InSession
    <3>2. mem = Kept
      BY <2>2, <3>1 DEF MemoryFits
    <3>3. Kept = disk
      BY <2>2 DEF Kept, ProjectFits, Written, Completing, RollBack, StatusSteps
    <3> QED BY <3>2, <3>3
  <2> QED BY <2>1, <2>2 DEF InboxMatchesProject
<1> QED BY <1>1, ApplyInvariant, PTL

\* A crash leaves a project that opens, and an interrupted apply that can be
\* recovered, outside the two windows and the attempts that are excused.
THEOREM CrashIsRecoverable == Spec => []RecoverableAfterCrash
<1>1. Inv => RecoverableAfterCrash
  BY DEF Inv, Regular, RequestFits, InOrder, ProjectFits, RecoverableAfterCrash, Complete, Readable
<1> QED BY <1>1, ApplyInvariant, PTL
=============================================================================
