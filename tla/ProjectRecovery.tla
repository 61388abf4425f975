-------------------------- MODULE ProjectRecovery --------------------------
(***************************************************************************)
(* The main files of one project directory through save, autosave, crash,  *)
(* reopening and recovery: project/saver.py, autosave.py, recovery.py and  *)
(* the calls ProjectService makes around them.                             *)
(*                                                                         *)
(* A save and a recovery each write three files one after the other, and   *)
(* the process may die or a call may raise between any two writes.  SQLite *)
(* is in its default rollback-journal mode: a crash during a commit leaves *)
(* a half-written database and a journal with its old pages, which the     *)
(* next connection plays back into whatever file is called project.db.     *)
(* One session has the directory open at a time (see SessionLock).  What   *)
(* an edit is about does not matter here: a part of the project is the     *)
(* number of the last edit that touched it.                                *)
(***************************************************************************)
EXTENDS Naturals, FiniteSets

CONSTANTS
    MaxEdits,     \* bound on the number of edits
    MaxSessions,  \* bound on the number of times the project is opened
    Torn,         \* a database file with pages of two transactions
    None          \* no journal, no snapshot, nothing in memory

ASSUME BoundsAssumption == MaxEdits \in Nat /\ MaxSessions \in Nat

Part     == {"manifest", "config", "database"}
Version  == 0 .. MaxEdits
State    == [Part -> Version \cup {Torn}]
Snapshot == [session : 1 .. MaxSessions, parts : State]

ASSUME DistinctAssumption ==
    /\ Torn \notin Version /\ None \notin Version /\ None # Torn
    /\ None \notin State /\ None \notin Snapshot

VARIABLES
    disk,      \* the main manifest, CAM 3D config and database files
    journal,   \* project.db-journal: the database before the commit, or None
    lock,      \* the session named by session.lock, 0 when there is none
    session,   \* the latest session
    pc,        \* what that session is doing; "closed": it is gone
    mem,       \* the ProjectSession in memory, or None
    dirty,     \* its is_dirty flag
    edits,     \* number of edits so far
    latest,    \* the snapshot behind autosave/latest.json, or None
    backups,   \* the retained backups/recovery-<uuid> directories
    backup,    \* the one the recovery in progress made, or None
    origin,    \* history: the main files that the last recovery found
    acked,     \* history: what the last successful save or recovery reported
    pending,   \* history: autosaved work that nobody saved or gave up
    attempted, \* history: a recovery of that work failed or was cut short
    mispaired  \* history: a journal was played back into a foreign database

vars == <<disk, journal, lock, session, pc, mem, dirty, edits, latest,
          backups, backup, origin, acked, pending, attempted, mispaired>>

Saving     == {"saveConfig", "saveManifest", "commit", "committing"}
Recovering == {"backup", "putDatabase", "putConfig", "putManifest", "verify"}
Undoing    == {"undoDatabase", "undoConfig", "undoManifest"}

TypeOK ==
    /\ disk \in State
    /\ journal \in Version \cup {Torn, None}
    /\ lock \in 0 .. MaxSessions
    /\ session \in 0 .. MaxSessions
    /\ pc \in {"closed", "load", "idle"} \cup Saving \cup Recovering \cup Undoing
    /\ mem \in State \cup {None}
    /\ dirty \in BOOLEAN
    /\ edits \in Version
    /\ latest \in Snapshot \cup {None}
    /\ backups \subseteq State
    /\ backup \in State \cup {None}
    /\ origin \in State
    /\ acked \in State
    /\ pending \in BOOLEAN
    /\ attempted \in BOOLEAN
    /\ mispaired \in BOOLEAN

Init ==
    /\ disk = [p \in Part |-> 0]
    /\ journal = None
    /\ lock = 0
    /\ session = 0
    /\ pc = "closed"
    /\ mem = None
    /\ dirty = FALSE
    /\ edits = 0
    /\ latest = None
    /\ backups = {}
    /\ backup = None
    /\ origin = disk
    /\ acked = disk
    /\ pending = FALSE
    /\ attempted = FALSE
    /\ mispaired = FALSE

files   == <<disk, journal>>
history == <<origin, acked, pending, attempted, mispaired>>

----------------------------------------------------------------------------
(* SQLite opens project.db: a journal left by a crash is played back.  Its *)
(* own half-written file becomes the old database again, any other file a  *)
(* mixture.                                                                *)

Settled == IF journal = None   THEN disk["database"]
           ELSE IF disk["database"] = Torn THEN journal
           ELSE Torn

\* What the next reader of a part finds in the given files.
Found(state, part) ==
    IF part = "database" /\ state[part] = Torn /\ journal # None
      THEN journal ELSE state[part]

OpenDatabase ==
    /\ disk' = [disk EXCEPT !["database"] = Settled]
    /\ journal' = None
    /\ mispaired' = (mispaired \/ (journal # None /\ Settled = Torn))

----------------------------------------------------------------------------
(* RecoveryManager.assess: the snapshot is offered only when the stale     *)
(* lock names the session that made it.                                    *)

Candidate == lock # 0 /\ latest # None /\ latest.session = lock

\* Mutant: a stale lock keeps its session_id.
AcquireLockLeft ==
    /\ session < MaxSessions
    /\ session' = session + 1
    /\ lock' = IF lock = 0 THEN session + 1 ELSE lock

\* inspect, unlink and create of SessionLockManager.acquire.
AcquireLock ==
    /\ session < MaxSessions
    /\ session' = session + 1
    /\ lock' = session + 1

\* open_project.  With a candidate it stops at RecoveryRequiredError, unless
\* the user has chosen to discard the recovery.
OpenProject(discard) ==
    /\ pc = "closed"
    /\ Candidate => discard
    /\ AcquireLock
    /\ pending' = IF Candidate THEN FALSE ELSE pending
    /\ pc' = "load"
    /\ UNCHANGED <<files, mem, dirty, edits, latest, backups, backup, origin, acked,
                   attempted, mispaired>>

\* ProjectLoader.load and _complete_activation: reading the database is
\* what plays a journal back.
Load ==
    /\ pc = "load"
    /\ OpenDatabase
    /\ mem' = disk'
    /\ dirty' = FALSE
    /\ pc' = "idle"
    /\ backup' = None
    /\ UNCHANGED <<lock, session, edits, latest, backups, origin, acked, pending, attempted>>

\* The lock the session took is given back on the way out of a failure.
GiveUp ==
    /\ lock' = 0
    /\ pc' = "closed"
    /\ mem' = None
    /\ dirty' = FALSE
    /\ backup' = None

\* A file cannot be read, or the integrity check finds the mixture.
LoadFails ==
    /\ pc = "load"
    /\ \/ UNCHANGED <<files, mispaired>>
       \/ OpenDatabase
    /\ GiveUp
    /\ UNCHANGED <<session, edits, latest, backups, origin, acked, pending, attempted>>

----------------------------------------------------------------------------
(* A project that is open                                                  *)

Edit(part) ==
    /\ pc = "idle"
    /\ edits < MaxEdits
    /\ edits' = edits + 1
    /\ mem' = [mem EXCEPT ![part] = edits + 1]
    /\ dirty' = TRUE
    /\ UNCHANGED <<files, lock, session, pc, latest, backups, backup, history>>

\* Mutant: the snapshot does not say which session made it.
AutosaveAnonymous ==
    /\ pc = "idle"
    /\ dirty
    /\ latest' = mem
    /\ pending' = TRUE
    /\ attempted' = FALSE
    /\ UNCHANGED <<files, lock, session, pc, mem, dirty, edits, backups, backup,
                   origin, acked, mispaired>>

\* create_snapshot publishes a complete directory and then points
\* latest.json at it; until then, and when it fails, nothing is selected.
Autosave ==
    /\ pc = "idle"
    /\ dirty
    /\ latest' = [session |-> session, parts |-> mem]
    /\ pending' = TRUE
    /\ attempted' = FALSE
    /\ UNCHANGED <<files, lock, session, pc, mem, dirty, edits, backups, backup,
                   origin, acked, mispaired>>

CloseProject(discard) ==
    /\ pc = "idle"
    /\ dirty => discard
    /\ GiveUp
    /\ pending' = FALSE
    /\ UNCHANGED <<files, session, edits, latest, backups, origin, acked, attempted, mispaired>>

----------------------------------------------------------------------------
(* ProjectSaver.save: inside one SQLite transaction the CAM 3D config and  *)
(* then the manifest are replaced; the database commits last.              *)

SaveStep(from, to) == pc = from /\ pc' = to

BeginSave ==
    /\ SaveStep("idle", "saveConfig")
    /\ UNCHANGED <<files, lock, session, mem, dirty, edits, latest, backups, backup, history>>

PutFile(part, from, to) ==
    /\ SaveStep(from, to)
    /\ disk' = [disk EXCEPT ![part] = mem[part]]
    /\ UNCHANGED <<journal, lock, session, mem, dirty, edits, latest, backups,
                   backup, history>>

SaveConfig   == PutFile("config", "saveConfig", "saveManifest")
SaveManifest == PutFile("manifest", "saveManifest", "commit")

BeginCommit ==
    /\ SaveStep("commit", "committing")
    /\ journal' = disk["database"]
    /\ disk' = [disk EXCEPT !["database"] = Torn]
    /\ UNCHANGED <<lock, session, mem, dirty, edits, latest, backups, backup, history>>

\* The journal is deleted: that is the commit.  Then the session's
\* persisted_* fields and is_dirty are rebound.
EndCommit ==
    /\ SaveStep("committing", "idle")
    /\ disk' = [disk EXCEPT !["database"] = mem["database"]]
    /\ journal' = None
    /\ dirty' = FALSE
    /\ acked' = mem
    /\ pending' = FALSE
    /\ UNCHANGED <<lock, session, mem, edits, latest, backups, backup, origin,
                   attempted, mispaired>>

\* Any exception rolls the transaction back, not the two files.
SaveFails ==
    /\ pc \in Saving
    /\ pc' = "idle"
    /\ IF journal = None THEN UNCHANGED files
       ELSE /\ disk' = [disk EXCEPT !["database"] = journal]
            /\ journal' = None
    /\ UNCHANGED <<lock, session, mem, dirty, edits, latest, backups, backup, history>>

----------------------------------------------------------------------------
(* recover_project: the lock is taken over first, so that session.lock no  *)
(* longer names the session that made the snapshot.                        *)

RecoverProject ==
    /\ pc = "closed"
    /\ Candidate
    /\ AcquireLock
    /\ pc' = "backup"
    /\ UNCHANGED <<files, mem, dirty, edits, latest, backups, backup, history>>

\* Mutant: the backup goes with the process that made it.
CreateBackupTemporary ==
    /\ pc = "backup"
    /\ backup' = disk
    /\ origin' = [part \in Part |-> Found(disk, part)]
    /\ pc' = "putDatabase"
    /\ UNCHANGED <<files, lock, session, mem, dirty, edits, latest, backups, acked,
                   pending, attempted, mispaired>>

\* _create_backup copies the three files byte for byte, not the journal.
CreateBackup ==
    /\ pc = "backup"
    /\ backup' = disk
    /\ backups' = backups \cup {disk}
    /\ origin' = [part \in Part |-> Found(disk, part)]
    /\ pc' = "putDatabase"
    /\ UNCHANGED <<files, lock, session, mem, dirty, edits, latest, acked,
                   pending, attempted, mispaired>>

\* One os.replace of _replace_main_files: from the snapshot, or back.
Replace(source, part, from, to) ==
    /\ pc = from
    /\ disk' = [disk EXCEPT ![part] = source[part]]
    /\ pc' = to
    /\ UNCHANGED <<journal, lock, session, mem, dirty, edits, latest, backups,
                   backup, history>>

PutDatabase == Replace(latest.parts, "database", "putDatabase", "putConfig")
PutConfig   == Replace(latest.parts, "config", "putConfig", "putManifest")
PutManifest == Replace(latest.parts, "manifest", "putManifest", "verify")

\* validate_references and database.validate: the work is recovered.
Verify ==
    /\ pc = "verify"
    /\ OpenDatabase
    /\ pc' = "load"
    /\ acked' = latest.parts
    /\ pending' = FALSE
    /\ UNCHANGED <<lock, session, mem, dirty, edits, latest, backups, backup,
                   origin, attempted>>

\* The backup itself fails: nothing has been replaced yet.
BackupFails ==
    /\ pc = "backup"
    /\ GiveUp
    /\ attempted' = TRUE
    /\ UNCHANGED <<files, session, edits, latest, backups, origin, acked, pending, mispaired>>

\* A replacement or the validation fails, the latter perhaps because it has
\* just played a journal back: the files of the backup are put back.
RecoveryFails ==
    /\ pc \in Recovering \ {"backup"}
    /\ IF pc = "verify" THEN OpenDatabase ELSE UNCHANGED <<files, mispaired>>
    /\ pc' = "undoDatabase"
    /\ attempted' = TRUE
    /\ UNCHANGED <<lock, session, mem, dirty, edits, latest, backups, backup,
                   origin, acked, pending>>

UndoDatabase == Replace(backup, "database", "undoDatabase", "undoConfig")

\* Mutant: the recovered configuration file is not taken back.
UndoConfigNot == Replace(disk, "config", "undoConfig", "undoManifest")

UndoConfig   == Replace(backup, "config", "undoConfig", "undoManifest")

\* "Recovery failed; original files restored": recover_project gives the
\* lock back and the user is told that the original data is in place.
UndoManifest ==
    /\ pc = "undoManifest"
    /\ disk' = [disk EXCEPT !["manifest"] = backup["manifest"]]
    /\ GiveUp
    /\ UNCHANGED <<journal, session, edits, latest, backups, history>>

\* RecoveryRollbackError: the mixture stays, the backup is retained.
UndoFails ==
    /\ pc \in Undoing
    /\ GiveUp
    /\ UNCHANGED <<files, session, edits, latest, backups, history>>

----------------------------------------------------------------------------
\* The process dies.  Files, journal and session.lock stay as they are.
Crash ==
    /\ pc # "closed"
    /\ pc' = "closed"
    /\ mem' = None
    /\ dirty' = FALSE
    /\ backup' = None
    /\ attempted' = (attempted \/ pc \in Recovering \cup Undoing)
    /\ UNCHANGED <<files, lock, session, edits, latest, backups, origin, acked, pending,
                   mispaired>>

Next ==
    \/ \E discard \in BOOLEAN : OpenProject(discard) \/ CloseProject(discard)
    \/ Load \/ LoadFails
    \/ \E part \in Part : Edit(part)
    \/ Autosave
    \/ BeginSave \/ SaveConfig \/ SaveManifest \/ BeginCommit \/ EndCommit
    \/ SaveFails
    \/ RecoverProject \/ CreateBackup \/ PutDatabase \/ PutConfig \/ PutManifest
    \/ Verify \/ BackupFails \/ RecoveryFails
    \/ UndoDatabase \/ UndoConfig \/ UndoManifest \/ UndoFails
    \/ Crash

Spec == Init /\ [][Next]_vars

----------------------------------------------------------------------------
(* Properties                                                              *)

AtLeast(v, w) == v # Torn /\ w # Torn /\ v >= w

\* Whatever save() or recover() has reported as stored is never lost by the
\* crashes, failures and recoveries that follow: each part of it is in place
\* (or already replaced by a later edit), or in a retained recovery backup.
\* A journal played back into a foreign database is the one exception.
AckedWorkKept ==
    mispaired \/ \A part \in Part :
        \E state \in {disk} \cup backups :
            AtLeast(Found(state, part), acked[part])

\* "Mo phong dong cuong buc roi mo lai thay de nghi phuc hoi" (master plan
\* line 263): when a session with autosaved work is gone without a save, a
\* close or a decision, the next open offers the recovery - unless a first
\* attempt to recover that work failed or was cut short: the attempt has
\* taken the stale lock over.
FirstCrashIsOffered == (pc = "closed" /\ pending /\ ~attempted) => Candidate

\* A recovery puts exactly the snapshot in place, or it puts back exactly
\* what was there, unless a journal spoils either.
RecoveryIsExact ==
    [][~mispaired' =>
          /\ Verify => disk' = latest.parts
          /\ UndoManifest => \A part \in Part : Found(disk, part)' = origin[part]]_vars
=============================================================================
