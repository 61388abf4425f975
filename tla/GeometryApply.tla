--------------------------- MODULE GeometryApply ---------------------------
(***************************************************************************)
(* One geometry request in the inbox of a CAM project, from "pending" to   *)
(* "applied", "failed" or "rejected", through crashes and reopenings:      *)
(* ProjectService.apply_incoming_geometry and its recovery, and the inbox  *)
(* of project/geometry_transfer.py.                                        *)
(*                                                                         *)
(* Applying is a transaction over the request directory, a backup made     *)
(* under a name derived from the request, two geometry assets and the      *)
(* project's manifest and database.  Every file operation is a step of its *)
(* own, except that the two assets go together, and so do manifest and     *)
(* database (see ProjectRecovery).  The project is abstracted to whether   *)
(* its manifest refers to the new geometry and to its last edit.           *)
(***************************************************************************)
EXTENDS Naturals

CONSTANTS
    MaxEdits,  \* bound on the number of edits of the project
    Absent,    \* no backup directory, no snapshot, nothing in memory
    Empty      \* a backup directory without the two copies

Content == [ref : BOOLEAN, edits : 0 .. MaxEdits]

ASSUME MaxEditsAssumption == MaxEdits \in Nat
ASSUME AbsentAssumption ==
    Absent \notin Content /\ Empty \notin Content /\ Absent # Empty

VARIABLES
    place,     \* the inbox directory that the request is in
    status,    \* the status in its request.json
    sumsOk,    \* checksums.json agrees with request.json
    evidence,  \* phase of the apply evidence in the request, or "none"
    backup,    \* backups/geometry-transfer-<request id>
    assets,    \* the new source and working geometry exist in the project
    disk,      \* the manifest and database of the project
    mem,       \* the ProjectSession, or Absent when the project is closed
    dirty,     \* its is_dirty flag
    auto,      \* the autosave that a reopening would offer, or Absent
    pc,        \* what the application is doing
    job,       \* which change of the request's status is in progress
    acked,     \* history: the edits that the user was told are saved
    excused    \* history: the ways in which saved work has been given up

request == <<place, status, sumsOk>>
project == <<assets, disk>>
session == <<mem, dirty, auto>>
history == <<acked, excused>>
vars    == <<request, evidence, backup, project, session, pc, job, history>>

Status == {"PENDING", "DEFERRED", "APPLYING", "APPLIED", "REJECTED", "FAILED"}
Place  == {"pending", "staging", "applied", "rejected", "failed"}
Job    == {"claim", "defer", "reject", "finish", "fail", "return", "complete"}
Excuse == {"lateFailure", "rollbackFailed", "secondAttempt", "staged", "oldSnapshot",
           "tornStatus", "halfRolledBack"}

StatusSteps  == {"metadata", "checksums", "move"}
ApplySteps   == {"backup", "copyBackup", "prepare", "assets", "commit", "save", "persist"}
RollBack     == {"removeAssets", "restore"}
RecoverSteps == {"inspect", "undoAssets", "undoFiles", "load"}

TypeOK ==
    /\ place \in Place
    /\ status \in Status
    /\ sumsOk \in BOOLEAN
    /\ evidence \in {"none", "PREPARED", "FILES_COMMITTED", "PERSISTED"}
    /\ backup \in Content \cup {Empty, Absent}
    /\ assets \in BOOLEAN
    /\ disk \in Content
    /\ mem \in Content \cup {Absent}
    /\ dirty \in BOOLEAN
    /\ auto \in Content \cup {Absent}
    /\ pc \in {"closed", "idle", "rebind"} \cup StatusSteps \cup ApplySteps
                                        \cup RollBack \cup RecoverSteps
    /\ job \in Job
    /\ acked \in 0 .. MaxEdits
    /\ excused \subseteq Excuse

\* A project is open and a sender has published one request.
Init ==
    /\ place = "pending" /\ status = "PENDING" /\ sumsOk = TRUE
    /\ evidence = "none"
    /\ backup = Absent
    /\ assets = FALSE
    /\ disk = [ref |-> FALSE, edits |-> 0]
    /\ mem = disk /\ dirty = FALSE /\ auto = Absent
    /\ pc = "idle"
    /\ job = "claim"
    /\ acked = 0
    /\ excused = {}

Step(from, to) == pc = from /\ pc' = to

----------------------------------------------------------------------------
(* _update_request_status and the move that follows it: request.json is    *)
(* replaced, then checksums.json, then the directory is renamed.           *)

NewStatus == [claim |-> "APPLYING", defer |-> "DEFERRED", reject |-> "REJECTED",
              finish |-> "APPLIED", fail |-> "FAILED", return |-> "PENDING",
              complete |-> "APPLIED"]
Dest  == [claim |-> "staging", defer |-> "pending", reject |-> "rejected",
          finish |-> "applied", fail |-> "failed", return |-> "pending",
          complete |-> "applied"]
After == [claim |-> "backup", defer |-> "idle", reject |-> "idle",
          finish |-> "rebind", fail |-> "idle", return |-> "load",
          complete |-> "load"]

Begin(j) == pc' = "metadata" /\ job' = j

\* Mutant: the name of the change is stored, not the status it leads to.
PutMetadataByJob ==
    /\ Step("metadata", "checksums")
    /\ status' = job
    /\ sumsOk' = FALSE
    /\ UNCHANGED <<place, evidence, backup, project, session, job, history>>

\* A request that is returned gets a message too: its metadata may change
\* although its status does not.
PutMetadata ==
    /\ Step("metadata", "checksums")
    /\ status' = NewStatus[job]
    /\ \/ sumsOk' = (sumsOk /\ status = NewStatus[job])
       \/ job = "return" /\ sumsOk' = FALSE
    /\ UNCHANGED <<place, evidence, backup, project, session, job, history>>

PutChecksums ==
    /\ Step("checksums", IF place = Dest[job] THEN After[job] ELSE "move")
    /\ sumsOk' = TRUE
    /\ UNCHANGED <<place, status, evidence, backup, project, session, job, history>>

MoveRequest ==
    /\ Step("move", After[job])
    /\ place' = Dest[job]
    /\ UNCHANGED <<status, sumsOk, evidence, backup, project, session, job, history>>

\* The project is not opened after all; the session lock is given back.
GiveUp == pc' = "closed" /\ mem' = Absent /\ dirty' = FALSE /\ auto' = Absent

\* The process or the call ends between request.json and checksums.json.
Torn == IF pc = "checksums" /\ ~sumsOk THEN {"tornStatus"} ELSE {}

\* One of the three operations raises.  A failing fail_claim is only logged.
StatusChangeFails ==
    /\ pc \in StatusSteps
    /\ \/ /\ job \in {"claim", "defer", "reject", "fail"}
          /\ pc' = "idle"
          /\ UNCHANGED session
       \/ /\ job = "finish"
          /\ pc' = "removeAssets"
          /\ UNCHANGED session
       \/ /\ job \in {"return", "complete"}
          /\ GiveUp
    /\ excused' = excused \cup Torn
    /\ UNCHANGED <<request, evidence, backup, project, job, acked>>

----------------------------------------------------------------------------
(* The user's choices for a request that the scan shows                    *)

\* validate_request_directory: metadata, payload and checksums agree.
Readable == sumsOk

Selectable == place = "pending" /\ Readable /\ status \in {"PENDING", "DEFERRED"}

Defer ==
    /\ pc = "idle" /\ Selectable
    /\ Begin("defer")
    /\ UNCHANGED <<request, evidence, backup, project, session, history>>

Reject ==
    /\ pc = "idle" /\ Selectable
    /\ Begin("reject")
    /\ UNCHANGED <<request, evidence, backup, project, session, history>>

\* claim(): the rename comes first, then the status.
Claim ==
    /\ pc = "idle" /\ Selectable
    /\ place' = "staging"
    /\ Begin("claim")
    /\ excused' = IF backup = Absent THEN excused ELSE excused \cup {"secondAttempt"}
    /\ UNCHANGED <<status, sumsOk, evidence, backup, project, session, acked>>

----------------------------------------------------------------------------
(* apply_incoming_geometry                                                 *)

\* Mutant: the two copies are left out.
MakeBackupRootOnly ==
    /\ Step("backup", "prepare")
    /\ ~assets
    /\ backup = Absent
    /\ backup' = Empty
    /\ UNCHANGED <<request, evidence, project, session, job, history>>

\* backup_root.mkdir(), which does not accept an existing directory.
MakeBackupRoot ==
    /\ Step("backup", "copyBackup")
    /\ ~assets
    /\ backup = Absent
    /\ backup' = Empty
    /\ UNCHANGED <<request, evidence, project, session, job, history>>

CopyBackup ==
    /\ Step("copyBackup", "prepare")
    /\ backup' = disk
    /\ UNCHANGED <<request, evidence, project, session, job, history>>

WriteEvidence(from, phase, to) ==
    /\ Step(from, to)
    /\ evidence' = phase
    /\ UNCHANGED <<request, backup, project, session, job, history>>

Prepare == WriteEvidence("prepare", "PREPARED", "assets")

CommitAssets ==
    /\ Step("assets", "commit")
    /\ assets' = TRUE
    /\ UNCHANGED <<request, evidence, backup, disk, session, job, history>>

Commit == WriteEvidence("commit", "FILES_COMMITTED", "save")

\* ProjectSaver.save of the candidate: the new reference together with
\* whatever else the session has not saved yet.
SaveCandidate ==
    /\ Step("save", "persist")
    /\ disk' = [ref |-> TRUE, edits |-> mem.edits]
    /\ UNCHANGED <<request, evidence, backup, assets, session, job, history>>

Persist ==
    /\ pc = "persist"
    /\ evidence' = "PERSISTED"
    /\ Begin("finish")
    /\ UNCHANGED <<request, backup, project, session, history>>

\* The session takes the persisted state over; dependents become stale.
Rebind ==
    /\ Step("rebind", "idle")
    /\ mem' = disk
    /\ dirty' = FALSE
    /\ acked' = disk.edits
    /\ UNCHANGED <<request, evidence, backup, project, auto, job, excused>>

\* Something raises: a check, a copy, a write, or mkdir on a backup_root
\* that an earlier attempt has left behind.
ApplyFails ==
    /\ pc \in ApplySteps
    /\ pc' = "removeAssets"
    /\ UNCHANGED <<request, evidence, backup, project, session, job, history>>

\* Something raises when the request is already in applied/: is_dirty stays
\* reset although the session's data is the one from before.
RebindFails ==
    /\ Step("rebind", "removeAssets")
    /\ dirty' = FALSE
    /\ excused' = excused \cup {"lateFailure"}
    /\ UNCHANGED <<request, evidence, backup, project, mem, auto, job, acked>>

----------------------------------------------------------------------------
(* _rollback_geometry_apply, then fail_claim if the request is still there *)

RemoveAssets ==
    /\ Step("removeAssets", "restore")
    /\ assets' = FALSE
    /\ UNCHANGED <<request, evidence, backup, disk, session, job, history>>

FailClaim == IF place = "staging" THEN Begin("fail")
                                  ELSE pc' = "idle" /\ UNCHANGED job

Restored == IF backup \in Content THEN backup ELSE disk

RestoreFiles ==
    /\ pc = "restore"
    /\ disk' = Restored
    /\ FailClaim
    /\ UNCHANGED <<request, evidence, backup, assets, session, history>>

RollbackFails ==
    /\ pc \in RollBack
    /\ FailClaim
    /\ excused' = excused \cup {"rollbackFailed"}
    /\ UNCHANGED <<request, evidence, backup, project, session, acked>>

----------------------------------------------------------------------------
(* The project around it                                                   *)

Edit ==
    /\ pc = "idle"
    /\ mem.edits < MaxEdits
    /\ mem' = [mem EXCEPT !.edits = @ + 1]
    /\ dirty' = TRUE
    /\ UNCHANGED <<request, evidence, backup, project, auto, pc, job, history>>

\* A request that is left in staging/ is rolled back by the next opening,
\* with a backup from before whatever has been written since.
Staged == IF place = "staging" THEN {"staged"} ELSE {}

SaveProject ==
    /\ pc = "idle"
    /\ disk' = mem
    /\ dirty' = FALSE
    /\ acked' = mem.edits
    /\ excused' = excused \cup Staged
    /\ UNCHANGED <<request, evidence, backup, assets, mem, auto, pc, job>>

Autosave ==
    /\ pc = "idle" /\ dirty
    /\ auto' = mem
    /\ UNCHANGED <<request, evidence, backup, project, mem, dirty, pc, job, history>>

CloseProject ==
    /\ pc = "idle"
    /\ GiveUp
    /\ UNCHANGED <<request, evidence, backup, project, job, history>>

\* A rollback has removed the assets of the manifest it has yet to replace.
HalfRolledBack ==
    IF pc \in {"restore", "undoFiles"} /\ disk.ref THEN {"halfRolledBack"} ELSE {}

\* The process dies: the files stay, and so does the autosave of a session
\* that had the project open.
Crash ==
    /\ pc # "closed"
    /\ pc' = "closed"
    /\ mem' = Absent
    /\ dirty' = FALSE
    /\ auto' = IF pc \in RecoverSteps \/ mem = Absent THEN Absent ELSE auto
    /\ excused' = excused \cup Torn \cup HalfRolledBack
    /\ UNCHANGED <<request, evidence, backup, project, job, acked>>

----------------------------------------------------------------------------
(* Opening: read_manifest insists on every referenced file, then the lock  *)
(* is taken, an accepted autosave is put in place, and an interrupted      *)
(* apply is recovered before the project is loaded.                        *)

Complete(content) == content.ref => assets

\* The manifest names a file that is not there: the project stays closed.
OpenRefused == pc = "closed" /\ ~Complete(disk) /\ UNCHANGED vars

OpenProject ==
    /\ Step("closed", "inspect")
    /\ Complete(disk)
    /\ auto' = Absent
    /\ UNCHANGED <<request, evidence, backup, project, mem, dirty, job, history>>

RecoverProject ==
    /\ Step("closed", "inspect")
    /\ Complete(disk)
    /\ auto # Absent
    /\ Complete(auto)
    /\ disk' = auto
    /\ auto' = Absent
    /\ acked' = auto.edits
    /\ excused' = excused \cup Staged
                    \cup (IF disk.ref # auto.ref THEN {"oldSnapshot"} ELSE {})
    /\ UNCHANGED <<request, evidence, backup, assets, mem, dirty, job>>

\* Mutant: the evidence alone decides.
PersistedByEvidence == evidence # "none"

WasPersisted == evidence = "PERSISTED" /\ disk.ref /\ assets

\* Mutant: evidence in pending/ is recovered too, not only in staging/.
InspectWholeInbox ==
    /\ pc = "inspect"
    /\ \/ /\ evidence = "none" \/ place \notin {"pending", "staging"}
          /\ pc' = "load" /\ UNCHANGED job
       \/ /\ place \in {"pending", "staging"} /\ Readable /\ evidence # "none"
          /\ pc' = "undoAssets" /\ UNCHANGED job
    /\ UNCHANGED <<request, evidence, backup, project, session, history>>

\* _recover_incomplete_geometry_transfers
Inspect ==
    /\ pc = "inspect"
    /\ \/ /\ place # "staging"
          /\ pc' = "load" /\ UNCHANGED job
       \/ /\ place = "staging" /\ Readable /\ evidence = "none"
          /\ Begin("return")
       \/ /\ place = "staging" /\ Readable /\ WasPersisted
          /\ Begin("complete")
       \/ /\ place = "staging" /\ Readable /\ evidence # "none" /\ ~WasPersisted
          /\ pc' = "undoAssets" /\ UNCHANGED job
    /\ UNCHANGED <<request, evidence, backup, project, session, history>>

UndoAssets ==
    /\ Step("undoAssets", "undoFiles")
    /\ assets' = FALSE
    /\ UNCHANGED <<request, evidence, backup, disk, session, job, history>>

UndoFiles ==
    /\ pc = "undoFiles"
    /\ backup \in Content
    /\ disk' = backup
    /\ Begin("return")
    /\ UNCHANGED <<request, evidence, backup, assets, session, history>>

Load ==
    /\ Step("load", "idle")
    /\ Complete(disk)
    /\ mem' = disk
    /\ dirty' = FALSE
    /\ UNCHANGED <<request, evidence, backup, project, auto, job, history>>

\* GeometryTransferRecoveryError and load errors: a request that does not
\* validate, evidence without its backup, a file that cannot be written.
OpenFails ==
    /\ pc \in RecoverSteps
    /\ GiveUp
    /\ excused' = excused \cup HalfRolledBack
    /\ UNCHANGED <<request, evidence, backup, project, job, acked>>

----------------------------------------------------------------------------
Next ==
    \/ PutMetadata \/ PutChecksums \/ MoveRequest \/ StatusChangeFails
    \/ Defer \/ Reject \/ Claim
    \/ MakeBackupRoot \/ CopyBackup \/ Prepare \/ CommitAssets \/ Commit
    \/ SaveCandidate \/ Persist \/ Rebind \/ ApplyFails \/ RebindFails
    \/ RemoveAssets \/ RestoreFiles \/ RollbackFails
    \/ Edit \/ SaveProject \/ Autosave \/ CloseProject \/ Crash
    \/ OpenRefused \/ OpenProject \/ RecoverProject \/ Inspect \/ UndoAssets \/ UndoFiles
    \/ Load \/ OpenFails

Spec == Init /\ [][Next]_vars

----------------------------------------------------------------------------
(* Properties                                                              *)

Settled == pc \in {"idle", "closed"} /\ place # "staging"

\* "Cap nhat that bai, mo hinh cu duoc giu nguyen" (service.py): a failed
\* apply restores the project as it was, not as an earlier attempt found it.
FailedApplyKeepsProject == [][RestoreFiles => disk'.edits >= acked]_vars

\* Saved work is kept, whatever fails or crashes, unless a request is tried
\* a second time (backup and evidence of the first attempt are still there),
\* the project is written while a request is left in staging/, or an apply
\* fails in a way the code gives up on.
SavedEditsKeptOtherwise == Settled /\ excused = {} => disk.edits >= acked

\* The inbox tells the truth: the project refers to the new geometry, and
\* has its files, exactly when the request is in applied/; and what is not
\* dirty in the open session is what is on disk, also after a failed apply.
InboxMatchesProject ==
    excused = {} =>
        /\ Settled => IF place = "applied" THEN disk.ref /\ assets ELSE ~disk.ref
        /\ pc = "idle" /\ ~dirty => mem = disk

\* "transaction chua persist duoc rollback" (HMS_DOCUMENT_AND_CAM_WORKSPACE
\* _8A4_2.md:211): a project whose application died can be opened again and
\* the interrupted apply rolled back.
\* Apart from two windows - request.json without its checksums.json, and a
\* rollback that has deleted what the manifest still names - a crash leaves
\* a project that opens and, if an apply was interrupted, a request that its
\* recovery can read; and nothing of the request is in the project before
\* a complete backup and the evidence naming it are there.
RecoverableAfterCrash ==
    pc = "closed" /\ excused = {} =>
        /\ Complete(disk)
        /\ place = "staging" =>
              /\ Readable
              /\ assets \/ disk.ref => evidence # "none"
              /\ evidence # "none" => backup \in Content
=============================================================================
