# HMS CAD/CAM: a TLA+ model of its sessions, projects and files

HMS CAD/CAM is a desktop application (PySide6, OpenCASCADE, SQLite). What a
user makes with it lives in *project directories*: a manifest, a few JSON
files, a SQLite database, imported geometry, toolpath artifacts, NC files,
autosaves, backups and an inbox through which other applications hand over
changed geometry; or in *standalone documents*, zip containers with one model.
Several applications may reach the same directory, any of them may be killed at
any time, several threads of one application work on the same session, and
nearly every operation touches more than one file. This directory specifies
that part of the program in TLA+, model-checks it with TLC on small instances,
and proves with TLAPS, for instances of any size, the safety properties of eight
of its nine components.

Paths below are relative to the package `src/hms_cadcam/` of the repository
unless they start with `docs/` or `HMS_`.

## 1. Inventory

### Components that keep shared or persistent state

| Component | State | Operations | Talks to |
|---|---|---|---|
| Session lock, `project/session_lock.py` | `session.lock` (session id, host, pid), `_owned` per manager | `inspect`, `acquire`, `ensure_available`, `release` | the process table; called by every project operation |
| Project sessions, `project/service.py`, `creator.py` | `_current_project`, `_current_document`, read-only flag, project directories | open, open read-only, reopen, recover, new, save as, new CAM workspace, close, change to a document | session lock, loader, creator, saver |
| Save, autosave, recovery, `project/saver.py`, `autosave.py`, `recovery.py`, `cad_state_store.py` | manifest, CAM 3D config, `project.db` and its journal, `autosave/latest.json`, `backups/recovery-*` | save, snapshot, assess, recover, roll back | SQLite, session lock (the id of the crashed session selects the snapshot) |
| Geometry transfer, receiving side, `project/geometry_transfer.py`, `service.py` | request directories in `pending`, `staging`, `applied`, `rejected`, `failed`; `request.json`, `checksums.json`, evidence; `backups/geometry-transfer-*` | scan, defer, reject, claim, apply, roll back, recover on opening | saver, loader, recovery |
| Geometry transfer, sending side | the same inbox | inspect target, find equivalent, send | receiving side |
| CAD documents, `project/document_container.py`, `ui/project_controller.py`, `ui/cad_controller.py` | `.HMS` container, its extracted geometry, recovery files; path, dirty and read-only flag of the document | open (read, import, commit), save, save as, autosave, close; the questions about unsaved changes | project sessions, CAD importer, Qt event loop |
| CAM application service, `cam/application/service.py`, `cam/persistence/` | operations, setups, generations, toolpath metadata and artifact files, calculation cache; what of it is in `ProjectSession` | edit, calculate (2D under a lock, 3D outside it), commit result, save, reopen | saver, artifact store, post |
| Post processing and NC export, `cam/post/` | posted results in memory; NC output, sidecars and manifest in the project | post, export, mark stale, reconcile, remove, flush | CAM service, file system |
| Background simulation, `simulation/background.py` | job queue, cancelled generations, statuses, foreground counter, checkpoints on disk | schedule, cancel a project, begin and end foreground, worker loop | project sessions, calculations of the CAM service, resource probe |
| Post studio, `cam/post_studio/` | post definitions, the active one | validate, activate, roll back | file system |
| Storage, backup, profiles, `core/` | data root, migration journal, backups | back up, restore, migrate | file system |
| AI assist, `ai_assist/` | lifecycle of an optional model process | start, stop, supervise | subprocess |
| UI controllers, `ui/project_controller.py`, `ui/project_worker.py` | one running worker, one autosave, dialogs | start, finish, fail | all services |
| AI sync publisher, `tools/ai_sync/` (repository root `src/tools`) | published state files | publish | git |

Components without such state (the CAD kernel, the viewer, CAM strategies,
material state, lathe rules, schema conversions) compute with floating-point
geometry or convert data one call at a time. They have no protocol to check and
are not modelled.

### What is hard in it, and what would make it correct

* **Two applications, one directory.** The file system gives exclusive creation
  and unlink, nothing else; a lock whose process is gone may be replaced, and
  pids are reused. Correct means: at most one application can write a project
  (`OneWriter`), whoever can write holds the lock (`WriterHoldsLock`), and locks
  are neither stranded nor taken away (`LiveLockIsInUse`, `LockLostOnlyByOwnCall`).
* **Service calls that fail half way.** Opening takes the lock, loads, validates,
  activates, closes what was open; an exception between any two of these has to
  leave lock, memory and directory in agreement.
* **Three files, one save.** The database commits last, after two JSON files have
  been replaced; a crash in between leaves a mixture and, inside the commit, a
  SQLite journal. Correct means: what the user was told is saved is never gone
  (`AckedWorkKept`), a crash is followed by an offer to recover
  (`FirstCrashIsOffered`), a recovery is all or nothing (`RecoveryIsExact`).
* **A transaction over files and directories.** Applying received geometry
  changes assets, manifest, database, request status and directory, with a
  backup and a phase record for the recovery. Correct means: the inbox, the
  files and the open session tell the same story afterwards
  (`InboxMatchesProject`), no saved work is lost (`SavedEditsKeptOtherwise`), and
  recovery is possible from wherever the process died (`RecoverableAfterCrash`).
* **An inbox without a lock.** Several applications send to it, and sessions that
  only read the project handle requests too. Only a rename decides. Correct
  means: what waits is shown (`WaitingIsShown`), the same geometry is not offered
  twice (`EquivalentOnce`), and a decision a user was told of holds (`AnswersHold`).
* **A calculation on a moving target.** While a toolpath is calculated, posted or
  saved, the user goes on editing. Correct means: a result that counts as valid
  belongs to what it was computed for (`ResultMatchesOperation`), files that are
  referred to exist (`ReferencedArtifactsExist`), no edit disappears
  (`NoEditLost`), and NC code is that of the current toolpath (`PostedIsCurrent`,
  `CurrentIsMadeFromToolpath`).
* **Several files for one NC program**, in a store that three threads use
  without a lock: an export that fails is undone (`FailedExportIsUndone`), and
  the manifest stays readable (`ReadableUnlessDamaged`).
* **Modal dialogs are not atomic, and neither is an assignment.** While a question is on
  the screen, timers fire and results arrive; and the state of a document is read,
  copied and stored by several threads without a lock. Correct means: leaving a document
  takes no work along (`LeavingKeepsWork`), what is shown as saved is saved
  (`CleanIsSaved`), and its geometry is not removed under it (`ExtractedWhileNeeded`).
* **A spare-time thread.** One worker simulates material removal in spare time. Pool
  threads feed it with the results of their calculations and pause it while they
  calculate, the UI thread commits, and projects change under it; nothing locks what
  these share. Correct means: no scheduled result is forgotten (`IdleMeansPrepared`), a
  job stops with its project (`CancelledJobStops`), the counter that pauses the worker
  is exact (`ForegroundBalanced`), the foreground gets its way (`ForegroundYields`), and
  in the end the queue is empty (`QueueDrainsUnlessRefused`).

## 2. The modules

| Module | Models | EXTENDS / INSTANCE |
|---|---|---|
| `SessionLock` | `session_lock.py`: one lock file, every file operation a step | instantiates `ExclusiveSession` |
| `ExclusiveSession` | what the lock promises, as a specification of its own | |
| `WorkspaceSessions` | the lifecycle of `ProjectService` over several directories | |
| `ProjectRecovery` | save, autosave, crash and recovery of the main files | |
| `GeometryApply` | one geometry request from pending to a final directory, with the project files | |
| `TransferInbox` | several requests, senders and sessions, with the renames and status files | |
| `DocumentSession` | standalone documents: Save, autosave, questions, opening and import | |
| `CamSession` | edits, calculations, Save, reopening and post of the CAM data | |
| `NcExport` | the managed NC files and the threads that use the store | instantiates `ArtifactLedger` |
| `ArtifactLedger` | what the NC store promises, as a specification of its own | |
| `BackgroundSimulation` | precompute worker, calls and calculations on pool threads, opening and closing of projects | |
| `...Proofs` | theorems about the module of that name; `ProjectFilesProofs` about `SessionLock` and `NcExport`, the files of a project that several programs or threads replace without a lock of their own | each extends the modules it is about and `TLAPS` |
| `MC...` | instances for TLC | each extends the module of that name |

`SessionLock` has the refinement mapping: `Holder`, the session that owns the
project, is the variable of `Exclusive`, an instance of `ExclusiveSession`.

`NcExport` has another, to `Atomic`, an instance of `ArtifactLedger`, in which an
operation of the store is a single step. As long as an operation can still be undone,
`Ledger` is the manifest as the operation found it; an export also hides its output
from `Shelf` until then. An export takes effect when the last left-over file is removed
(`Deleted`), every other operation when `Verify` finds it complete. Once something is damaged the
promise is void.

The modules cut the system where its layers meet. `SessionLock` shows what
`acquire` and `release` do when they interleave; `WorkspaceSessions` takes each
of them as one step and interleaves the service calls; `ProjectRecovery` and
`GeometryApply` look at one application at a time (the lock is the reason they
may) and interleave file operations with crashes and failures. `TransferInbox`
takes what `GeometryApply` does to the project as one step that succeeds or
fails, and has several of everything instead. `CamSession`, `NcExport`,
`DocumentSession` and `BackgroundSimulation` look inside one application, at its
threads: `CamSession` makes a posted result, which `NcExport` takes as given;
`BackgroundSimulation` takes an accepted toolpath of `CamSession` as given.

Operators whose comment starts with "Mutant:" are deliberately wrong variants of
the definition that follows them. No specification uses them; each one, put in
the place of the definition, makes TLC find one of the properties violated.
They document which mistake in the code a property would notice.

### SessionLock

`lockFile` is the file: absent, or the session that created it and whether its
text is complete. `pc` and `seen` are the local state of a call, `owned` is the
union of the managers' `_owned` maps for this directory.

| Action | Code |
|---|---|
| `FindNoLock`, `ReadLock` | `inspect()`: existence, `read_text`, `from_dict` |
| `JudgeStale`, `JudgeHeld` | `process_is_alive` and the classification |
| `UnlinkStale` | `lock_path.unlink()` of `acquire()` |
| `CreateExclusive`, `WriteLock` | `open("x")`; `json.dump`, flush, fsync, `_owned` |
| `ReadOwnLock`, `RemoveOwnLock` | `release()` |
| `IOFails`, `WriteFails` | `OSError` in any of these |
| `Start`, `End` | a process begins, exits or is killed |

A foreign or unreadable lock classifies as UNKNOWN: `acquire` raises, nothing
changes, no action. Pids are reused: `PidOf` is any function, and `Start` only
insists that two live processes of a host have different pids. `usurped` is a
history variable: an unlink removed a lock it had not judged.

### WorkspaceSessions

`current` is `_current_project`/`_current_document`, `at` and `target` say where
a call is, `exists` which directories are there. Opening is `AcquireOpened` then
`Activate` or one of its failures; a create or save-as is `CheckTarget`,
`Publish` (which takes an old directory away), `AcquireCreated`, `Activate`. A new CAM
workspace is `CreateWorkspace`, which fails if the directory is there, then
`AcquireCreated` and `Activate`; when it cannot be activated its lock is
released (`Discard`) and the directory is removed (`Remove`,
`_rollback_new_cam_workspace`), and `made` remembers whether it still is what was
published. `bypassed` and `leaked` are history variables that name the
directories where a call went around the lock or a read-only reopen kept it.
`Operations` says which kinds of calls an instance has.

### ProjectRecovery

A part of the project is the number of the last edit that touched it. `Torn`
stands for a database file in the middle of a commit; the action that next opens
the file plays the journal back (`OpenDatabase`, SQLite's behaviour in the
default journal mode, modelled from how the code uses it). `BeginSave` ...
`EndCommit` follow `ProjectSaver.save`; `RecoverProject`, `CreateBackup`,
`PutDatabase`, `PutConfig`, `PutManifest`, `Verify` follow
`RecoveryManager.recover`, the three `Undo...` its rollback. History variables:
`acked` (what was last reported as stored), `origin` (what a recovery found),
`pending` (autosaved work without a decision), `attempted`, `mispaired`.

### GeometryApply

`place` and `status` are the request's directory and `request.json`; `sumsOk`
says whether `checksums.json` agrees with it. A change of status is three steps
(`PutMetadata`, `PutChecksums`, `MoveRequest`), as `_update_request_status` and
the rename after it are. `pc` walks through `apply_incoming_geometry`
(`MakeBackupRoot` ... `Rebind`), its `except` branch (`RemoveAssets`,
`RestoreFiles`, then `fail_claim`), or the recovery on opening (`Inspect`,
`UndoAssets`, `UndoFiles`, `Load`). Every step may raise and the process may die
before any step. `excused` is a history variable that collects the circumstances
under which the code gives saved work up; see `Excuse` and section 4.

### TransferInbox

| Actor | Actions | Code |
|---|---|---|
| sender | `Send`, `LookPending`, `LookStaging` | `send` up to and including `find_equivalent`, which looks into two directories one after the other |
| | `Create`, `Recheck`, `Publish` | the directory in `staging/`, the second look at the target, the rename to `pending/` |
| session | `Choose`, `Rename` | a call to defer, reject or claim; the rename of a claim, which arbitrates |
| | `PutMetadata`, `PutChecksums`, `Check`, `Move` | `_update_request_status` and the move to the final directory |
| | `Apply` | what `GeometryApply` has in detail: success or failure |
| project | `OpenProject`, `Recover`, `Recovered`, `Leave` | `_recover_incomplete_geometry_transfers`, and that one session at a time writes |
| all | `SendFails`, `CallFails` | an exception or the end of the process between any two steps |

A path that is not there any more makes a step impossible (`At`), and the call
then fails. History: `told` (decisions reported to a user), `torn` (changes of
status cut short or mixed with another's), `raced` (a sender missed a request
that was there).

### DocumentSession

| Actor | Actions | Code |
|---|---|---|
| user | `Edit` | `stage_cad_view_state`, whenever no dialog is open |
| | `Save`, `ChooseFile` | `save_project`, `save_project_as` |
| | `Ask`, `Cancel`, `AnswerDiscard`, `AnswerSave`, `Continue` | `_close_current_interactively`, `_prepare_workspace_replacement`, `_save_current_for_lifecycle` |
| | `StartUnasked` | `_open_recent`, `new_project_from_document` |
| | `MarkDirty` | the end of an edit: `mark_dirty` has read the state before |
| any thread | `SaveBegins`, `SaveStamp`, `SaveBuild`, `SaveReplace`, `SaveCounts`, `SaveFails`, `SaveRefused` | `HmsDocumentContainer.save` in its order: state, entries, `os.replace`, the generation of the container, and `previous_state` on an error |
| | `Renew` | the generation of the service, in `save_document` and `commit_document_open` |
| | `ReadState` | the reading half of `session.state = session.state.with_changes(...)`; the storing half is `Store`, in `MarkDirty`, `SaveStamp`, `SaveCounts`, `Renew`, `AutosaveRestore` |
| autosave thread | `RequestAutosave`, `AutosaveSkips`, `AutosaveBegins`, `AutosaveRestore` | `request_autosave`, `autosave_workspace`, `HmsDocumentContainer.autosave`: the same `save` to another file, then path and dirty flag put back |
| pool thread | `Read`, `ActivateProject`, `OperationFails` | `prepare_source`, `prepare_container`, `_complete_activation` |
| event loop | `ImportStarts`, `CommitOpen`, `ImportFails`, `ProjectBinds`, `Finished` | signals of the threads; they are delivered in modal dialogs too (`EventLoop`), the user's actions are not (`Free`) |

`content` is what the user sees of a document and `disk` what is in the files,
as numbers of edits; a document and its recovery file have one number. A thread
that is to change a document's state has the copy it has read in `read`, and stores a
changed copy of it whatever the state is by then. `agreed` (contents the user agreed to
discard) and `excused` (the six accidents of section 4) are history variables.

### CamSession

Contents are numbers, so that "computed for these parameters" is an equality.
`snapshot` is the snapshot of `CamApplicationService`, `bound` and `dirty` are
what `ProjectSession` has of it, `disk` the database, `files` the artifacts.

| Actor | Actions | Code |
|---|---|---|
| UI thread | `EditOperation`, `EditSetup` | the editing calls of `ProjectService`; a stored change is `ReadSnapshot`, `StoreSnapshot`, `SetDirty`, which are not under the service's lock |
| | `Start2D`, `Start3D` | a calculation is started on the operation and setup that are shown |
| | `Begin`, `BeginRefused`, `Commit`, `CommitRefused` | start and commit of a 3D calculation with their checks of token and fingerprint |
| calculation thread | `ComputeFromCache`, `ComputeSucceeds`, `ComputeFails` | a 2D calculation, under the lock: one step |
| | `Produce`, `ProduceLate`, `ProduceFails`, `GiveUp` | a 3D calculation outside the lock, which writes its file before it is committed |
| Save task | `SaveCapture` ... `SaveMark` | `ProjectSaver.save`: capture, transaction, artifacts, `mark_persisted`, orphan cleanup, flags |
| | `Reopen` | the project is loaded again |
| post thread | `PostCapture`, `PostBegin`, `PostRecheck`, `PostPublish` | `PostRuntimeService.post` with its check of the fingerprint before publication |

`last` (what the user entered last), `overlap` (something changed while a Save was
running) and `revived` (operations to which a Save gave an older result back while
they were calculated) are history variables.

### NcExport

An exported file is an output, a sidecar and an entry of the manifest. The three
threads (`ui`, `worker`, `save`) go through the same steps of `NCArtifactStore`:
`Load`, `Keep` (an export keeps all old contents before its first write, the other
operations each before they replace it), `Write` of each file of the `Plan`,
`Verify`, `Delete` of what is left over, and on an error `Undo` of what was kept;
any of them may fail (`LoadFails`, `KeepFails`, `PutFails`, `DeleteFails`,
`UndoFails`), and the application may end before any (`Restart`, which also loads
the saved project). A plan is a set of file contents to write; the loops of the
code over it are `Rank` (an export writes its own files first, and the manifest
comes last) and `KeptRank`, whose greatest element is undone first. `thread`
holds what a call has in hand: the manifest it wants, the files as it found them
(`was`, history), what is still to be written (`todo`), kept (`done`) and
removed (`garbage`).

What leads there: `Export` with its overwrite policy, `Clear`, `Edit`, `Calculate`,
`Save`. `Lose` is a file that somebody removes from outside. History: `damaged`
(the application ended between two writes, a file was not what it had been and
could not be restored, or two threads used the store at once) and `missed` (an
operation whose files could not be made stale).

### BackgroundSimulation

| Actor | Actions | Code |
|---|---|---|
| pool thread, a call | `BeginCall`, `Enter`, `EndCall` | `with _background_foreground(...)`, which is nothing when precompute is off (`bare`) |
| | `Register` | inside it, the CAM application stores the result of a 2D calculation (`compute_facing` and its siblings, `register_toolpath_artifact`) |
| | `ReadPolicy`, `ReadSession`, `ReadGeneration`, `Schedule` | after it, `_schedule_background_simulation`: three reads and the call of `schedule` |
| pool thread, a Parallel or Z-Level calculation | `StartTask`, `Claim`, `Check`, `Begin`, `Record` | `begin_parallel_calculation` and `_begin_background_calculation` |
| | `EndTask` | it failed or was abandoned, and keeps its claim |
| UI thread, the same calculation | `CommitTask`, `Test`, `Discard`, `Release` | `commit_parallel_calculation`, `commit_z_level_calculation` and `_end_background_calculation`; then it schedules as above |
| `Lead`: whoever opens and closes projects | `Open`, `CloseProject`, `Disable`, `Enable` | `_complete_activation`, `close_project`, `configure_background_simulation_precompute` |
| | `EndNext`, `Discard`, `Release`, `Cancel` | `_cancel_background_project`: the loop over a copy of the claims, then `cancel_project` |
| | `GiveUp`, `Switch`, `Load` | the old lock cannot be released; `_current_project` changes; `load()` or `clear()` of the CAM application begins the next generation |
| worker | `Rest`, `Take`, `Finish` | `_worker_loop` |
| | `Admit` | `_wait_for_resources` and the look at the cancellations after it |
| | `Capture`, `CaptureFails` | `load_inputs`, which reads the project that is open *then*, and the checkpoint |
| | `Cut`, `ChunkRaises`, `Publish`, `PublishFails` | `simulate_chunk`, checkpoint and cleanup |
| system | `Probe` | the readings of `ResourcePressure` change |

Every caller has a place in its call (`at`) and what it carries along (`call`): the
operation, and the project and generation as it has read them. Two calculations may run
at once, since the view forgets a running one when a project is bound again
(`ui/cam_ui.py:461`). `ui` says who has the UI thread: a commit, a close and a change of
the policy exclude each other, and nothing else. Loading the inputs (`CaptureFails`) may
fail at any time, as it does for an operation, tool or file that has gone meanwhile.

`jobs` is the ordered dictionary as a set of jobs with a `turn`: the worker takes
the least, and a key that is dropped and appended again gets a new one. `manifest`
is the checkpoint of every run as a number of chunks. Which files
a cleanup removes depends on ages and sizes: any choice that spares the active
run and respects `maximum_runs`. Statuses that mean "not finished" are one value,
`ongoing`, so a pause that only changes the status is no step; throttling is a
short pause and therefore none either. `owed` (operations scheduled
whose inputs have not been asked for since), `stranded` (generations replaced without a
cancellation, or scheduled for as they were being left) and `raced` (two callers have
passed the same test of a claim) are history variables.

## 3. The runs

All modules but one use `Init /\ [][Next]_vars` without fairness: no document
promises that anything eventually happens there, and the user, who drives every
action, may stop.

`BackgroundSimulation` assumes `WF_vars(Worker)` and nothing else. The worker is a
daemon thread with a loop of its own; it waits on a condition that every change
notifies, and while it is paused it polls. In any state at most one kind of
worker step is possible, so weak fairness of their disjunction is what the
scheduler of the operating system gives a thread. Which outcome a step has
(a checkpoint is written or fails) is not subject to fairness. User,
calculations and resource probe may stop for ever.

| Run | Question | Instance |
|---|---|---|
| `lock` | Until an unlink is contested: is an owner the session in the lock file, does only a lock disappear that is the remover's own or that it judged, and rightly, is it an `ExclusiveSession`? | three sessions on one host, two with one pid, a fourth on another host |
| `sessions` | Apart from the named bypasses: does a writer hold the lock, is a live lock in use, is it lost only by its holder's calls? | two applications, two directories, all calls |
| `recovery` | Is acknowledged work kept, the first recovery offered, every recovery exact? | three openings, three edits |
| `apply` | Do inbox, files and memory agree, can a crashed apply be recovered, is saved work kept? | one request, three edits |
| `inbox` | Is what waits shown, the same geometry offered once, and a decision final? | two senders, two sessions, two requests for one document, three calls |
| `document` | Is no unsaved work left behind, is a clean document saved, is extracted geometry there as long as it is needed? | one file, two documents, two edits, one Save, one autosave |
| `cam` | Do results belong to what they were computed for, do files exist, are edits kept between Saves, is posted code current? | one 2D and one 3D operation, four requests among two edits, two calculations, two Saves, a reopening and a post |
| `nc_export` | Is a failed export undone, the manifest readable, a current file made from the current toolpath, the store an `ArtifactLedger`? | two operations, two file names, one new toolpath, three requests |
| `background` | Is no result forgotten, does a job stop with its project, is the foreground counter exact, does the worker yield, and does the queue drain? | one directory and operation, one pool thread, two results, two openings or closings |
| `lock_one_writer` | finding 1 | as `lock` |
| `apply_failed` | finding 2 | two edits |
| `cam_edit_during_save` | finding 3 | as `cam` |

The passing runs hold, each with the exceptions that section 4 names; the other
three end with the counterexample of a finding.

Bounds, and why they are enough to be interesting.

* *Sessions of the lock*: a contested lock takes a dead session and two live
  ones; the fourth session brings the foreign host in.
* *Directories*: two, so that a call can release one while it takes the other.
* *Openings* (`MaxSessions`): one that works, one that recovers, one that looks
  at the result. *Edits* (`MaxEdits`): one before a backup, one after it, one
  unsaved; in `CamSession`, one of the operation and one of the setup, or two of
  either.
* *Senders, sessions, requests*: two of each are what a race takes; with three
  calls a request can be deferred, claimed and come back. `MCSymmetry` permutes
  each of these sets, `sessions` those of sessions and directories, `nc_export`
  operations and file names; the properties of these runs are symmetric safety
  properties.
* *Documents* (`MaxOpens`): the one that is left and the one that replaces it.
  Two edits: one that is saved and one made during the Save. One Save, in a question or
  outside, which can overlap with the autosave and with both edits; the proofs cover any
  number.
* *Requests* of `CamSession` and `NcExport` (`MaxUsed`): four and three. The
  interesting interleavings are of an edit, a calculation, a Save and a post, or of
  an export, a calculation and a Save; each request is many steps, and every
  write of each may fail.
* *Results* (`MaxCalculations`): two, so that a newer one overtakes an older.
  *Pool threads*: one, against whoever closes the project, is enough for a late
  schedule and for a race about a claim. *Chunks*: one. A job pauses before it, is
  interrupted in it and finds it again as a checkpoint. *Changes of project*
  (`MaxGeneration`): the first opening and one close or reopening after it. *Holders of
  the foreground* (`MaxForeground`): a claim that was left behind and a call. The three
  safety properties are proved for any sizes; types, `IdleMeansPrepared` and
  `CancelledJobStops` have also been checked with two directories and a change from one
  to the other, `ForegroundBalanced` with two pool threads and two operations, and
  liveness with two operations of which one cannot be simulated.

Crashes and failures are not bounded: they may happen at every step, as often as
the other bounds allow. A bound appears as a guard of the action that counts
(`Edit`, `Save`, `Request`, `Use`, `AcquireLock`, `Open`, `Calculated`, ...) and nowhere else.

Deadlock is checked for `GeometryApply`, whose application can always go on (an
incomplete project is refused again and again, which is a stutter), for
`TransferInbox`, in which a session can always leave and open the project again,
and for `BackgroundSimulation`, where it says little, since the
resource readings can always change; that the worker does not get stuck is what the liveness
properties say. The other instances stop when their supply of sessions, edits or
requests is used up, so their configurations switch the deadlock check off.

## 4. What the code does not keep

Three runs show a promise of the documents, or of the program's own messages and
comments, that the code breaks. The passing runs state the same promise without
the window in question, so that everything outside it remains checked.

1. **Contested unlink** (`OneWriter`, `project/session_lock.py:155`). Two
   applications judge the same stale lock; the slower one unlinks the new lock of
   the faster, and both own the project. `usurped` marks the window.
2. **A second attempt at a request** (`FailedApplyKeepsProject`,
   `project/service.py:818`). The backup directory of an interrupted attempt is
   still there, `mkdir` fails, and the `except` branch restores the backup of the
   *first* attempt over everything saved since. Excuse `secondAttempt`.
3. **An edit during a Save** (`NoEditLost`, `project/saver.py:121`). Nothing keeps
   the user from editing while the Save runs in its thread. Once the transaction
   has taken the session's snapshot, `is_dirty = False` and `mark_persisted` put
   the saved one in place: the edit is gone and the project counts as saved.
   `NoEditLostBetweenSaves` is the same property outside (`overlap`).

The rest are windows in which a property of section 1 fails. They are exceptions
of the passing runs, marked by a history variable; without the exception TLC
finds the counterexample.

*Project sessions* (`bypassed`, `leaked`):

* An open that fails late (`service.py:1014`): `_complete_activation` sets
  `_current_project` and then closes the previous document; if that raises, the
  lock is given back and the project stays writable.
* A directory opened read-only is *reopened* for writing without `acquire`
  (`service.py:987`); one opened for writing and reopened read-only keeps its lock.
* An overwriting create checks, publishes and locks in three steps (`service.py:3068`).
* A new CAM workspace that cannot be activated is removed after its lock has been
  released (`service.py:3199`): another session may have opened it.

*Recovery* (`attempted`, `mispaired`):

* A recovery is offered once (`service.py:1033`): the attempt replaces the stale
  lock whose session id selects the snapshot; when it fails or dies, nothing is
  offered again, although the master plan expects an offer (`HMS_..._PLAN.md:263`).
* The database is recovered without its journal (`recovery.py:415`): after a crash
  inside a commit the old journal is played back into the recovered database, and a
  rollback restores a half-written file without its journal.

*Geometry transfer* (the excuses of `GeometryApply`, `torn` and `raced` of
`TransferInbox`):

* `halfRolledBack`: a rollback unlinks the new files and then restores the manifest
  that names them (`service.py:2667`); a crash in between leaves a project that
  `read_manifest` refuses, so the backup is never used.
* `lateFailure` (an exception after the request is in `applied/`), `rollbackFailed`
  (the rollback itself raises), `staged` (the project is saved while a request whose
  `fail_claim` failed is left in `staging/`), `oldSnapshot` (an accepted autosave
  from the other side of an apply), `tornStatus` (a crash between `request.json` and
  `checksums.json`: the request no longer validates and the project no longer opens).
* A crash between the status REJECTED and the move (`geometry_transfer.py:1048`)
  leaves a request in `pending/` that no scan shows and no action can take.
* Two senders that look before either has published (`geometry_transfer.py:928`),
  or one that looks while the status of a request is being changed and does not
  validate, publish the same geometry twice.
* Two sessions that change the status of one request at once mix their files
  (`geometry_transfer.py:1543`). A session that reads the project may do so
  (`service.py:614`), and may even apply: `apply_incoming_geometry` does not call
  `_require_writable`, and the candidate that it saves is built without the
  read-only flag (`service.py:753`), so `ProjectSaver.save` does not refuse it.

*Documents* (`excused` of `DocumentSession`):

* `overlap`: `_save_current_for_lifecycle` looks the path up while an autosave that
  the timer started inside the question has put the recovery path there
  (`ui/project_controller.py:1070`). "Save" then writes the recovery file, and the
  document closes, in spite of "Return whether the window can close without losing
  project work" (`:195`).
* `edited`: what is edited after the consent and before `commit_document_open`
  (`service.py:505`) goes without a question. `unasked`: `_open_recent` (`:190`)
  and a project from the document ask nothing.
* `failed`: a Save that fails restores the whole previous state and forgets the dirty
  flag of an edit made meanwhile (`document_container.py:283`), where
  `docs/HMS_DOCUMENT_AND_CAM_WORKSPACE_8A4_2.md` promises that an error keeps it.
* `overwritten`: a file that is saved while it is being opened is not what the new
  document shows.
* `crossed`: `session.state = session.state.with_changes(...)` reads and stores in two
  steps, on the UI thread (`mark_dirty`, `workspace.py:187`), in a Save
  (`document_container.py:250`, `:297`; `service.py:551`), at the end of an autosave
  (`document_container.py:323`) and of an opening (`service.py:523`). What another thread
  stores in between is forgotten. An edit just after `os.replace` can leave a document
  that looks saved and is not, and an edit during an autosave can put the recovery path
  back.
* Beside the properties: an autosave does not put the read-only flag back, so a
  read-only document can be saved after one; recovery files are written and never
  offered; a Save, an Open or a New that meets an autosave is dropped in silence
  (`_start_operation`).

*CAM data and NC files* (`overlap`, `revived`, `damaged`, `missed`):

* A refused result is committed (`cam/application/service.py:1077`, `revived`). The
  commit of a 3D calculation compares status, token and generation and does not ask
  whether the result was accepted. A Save that captured the operation before the
  calculation began gives its older VALID state back during it (`mark_persisted`,
  `:302`); `publish_toolpath` refuses the new toolpath by returning that state, the
  next Save puts the COMPUTING state back that a thread had stored meanwhile, the
  commit matches, and the operation is VALID without an artifact, although "stale
  candidates never overwrite" (`cam/toolpath/validation.py:63`).
* A 3D calculation begun before a setup was changed may commit a VALID toolpath for
  the setup as it was; the post refuses it (`cam/post/lowering.py:145`).
* A Save cancels a running 3D calculation without saying so: `mark_persisted` sets
  the normalized snapshot, in which nothing is COMPUTING.
* The end of the application between a sidecar and the manifest makes the manifest
  unreadable for ever, and `ProjectSaver.save` (`saver.py:82`) fails with it
  (`export_store.py:602`).
* The store has no lock: of two threads that load, change and write the manifest,
  the last one wins (`export_store.py:353`).
* An invalidation that fails is swallowed (`export_service.py:234`), and reopening a
  project only inspects its files: NC code of an old toolpath stays current.

*Background simulation* (`Refused`, `stranded`, `raced`):

* `simulate_chunk` raises `MaterialRemovalError` when it is interrupted and also
  when it can never succeed (a drill or tap, a stock that is no box). The job starts
  the chunk again in either case (`background.py:723`): one drilling operation keeps
  the worker busy for ever. `QueueDrainsUnlessRefused` is about the other operations.
* A calculation that raises after its claim never releases it (`cam_ui.py:1866`), a
  claim taken just after the project was closed stays until the next one is closed.
* `stranded`: a job survives the closing of a directory that was reopened while it ran
  (`service.py:3012`). And `_schedule_background_simulation` reads project and generation
  on a pool thread (`service.py:3134`, `:3141`); when the project is closed before it
  calls `schedule`, that call takes the cancellation back (`background.py:558`): a running
  job of the closed project goes on, and the new one loads its inputs from whatever is
  open.
* `raced`: the claims are tested and changed without a lock (`service.py:3113-3129`). Two
  threads that both find none count an operation twice and release it once, and the worker
  is paused for good; two that both end one release it twice, and the worker runs beside
  another calculation.

## 5. What is proved

Eight `...Proofs` modules prove, for every value of the constants, what the runs
check on small instances: types, the safety invariants, the action properties and
both refinements. Each specification has an inductive invariant (`Inv`; `LockInv` and
`NcInv` in `ProjectFilesProofs`), a theorem `Spec => []` of it, and the properties
as consequences. The inductive invariants have also been checked with TLC on the
instances of section 3. `StaleVerdictHolds` is a part of `LockInv`
that is worth reading by itself; the runs check what it is for, `RemovalJustified`: the
lock that disappears is the one that was judged, or the remover's own.

| Module | Theorem | States |
|---|---|---|
| `ProjectFilesProofs` | `TypeCorrect`, `OwnersHoldTheLock`, `StaleVerdictsHold` | `TypeOK`, `OwnerHoldsLock`, `StaleVerdictHolds` |
| | `Exclusion` | `~usurped => OneWriter` |
| | `RemovalsJustified` (action) | `RemovalJustified` |
| | `LockImplementsExclusive` (refinement) | `ImplementsExclusive` |
| | `NcTypeCorrect`, `ManifestIsReadable`, `CurrentOutputIsOfToolpath`, `FailedExportLeavesNoTrace` | `NcTypeOK`, `ReadableUnlessDamaged`, `CurrentIsMadeFromToolpath`, `FailedExportIsUndone` |
| | `StoreImplementsLedger` (refinement) | `ImplementsLedger` |
| `WorkspaceSessionsProofs` | `TypeCorrect`, `WritersHoldTheLock`, `LiveLocksAreInUse` | `TypeOK`, `WriterHoldsLock`, `LiveLockIsInUse` |
| | `LocksLostByOwnCalls` (action) | `LockLostOnlyByOwnCall` |
| `ProjectRecoveryProofs` | `TypeCorrect`, `ReportedWorkIsKept`, `RecoveryIsOffered` | `TypeOK`, `AckedWorkKept`, `FirstCrashIsOffered` |
| | `RecoveriesAreExact` (action) | `RecoveryIsExact` |
| `GeometryApplyProofs` | `TypeCorrect`, `SavedEditsAreKept`, `InboxTellsTheTruth`, `CrashIsRecoverable` | `TypeOK`, `SavedEditsKeptOtherwise`, `InboxMatchesProject`, `RecoverableAfterCrash` |
| `TransferInboxProofs` | `TypeCorrect`, `AnswersAreFinal`, `RequestsStayInSight`, `NothingOfferedTwice` | `TypeOK`, `AnswersHold`, `WaitingIsShown`, `EquivalentOnce` |
| `DocumentSessionProofs` | `TypeCorrect`, `CleanDocumentsAreSaved`, `GeometryIsKept` | `TypeOK`, `CleanIsSaved`, `ExtractedWhileNeeded` |
| | `WorkIsKeptOnLeaving` (action) | `LeavingKeepsWork` |
| `CamSessionProofs` | `TypeCorrect`, `ResultsMatch`, `ArtifactsAreKept`, `EditsAreKept`, `PostsMatch` | `TypeOK`, `ResultMatchesOperation`, `ReferencedArtifactsExist`, `NoEditLostBetweenSaves`, `PostedIsCurrent` |
| `BackgroundSimulationProofs` | `TypeCorrect`, `ForegroundStaysBalanced`, `IdleIsPrepared` | `TypeOK`, `ForegroundBalanced`, `IdleMeansPrepared` |
| | `CancelledJobsStop` (action) | `CancelledJobStops` |

### Assumptions

Only what the modules assume of their constants, by name:

* bounds are natural numbers (`MaxEditsAssumption`, `MaxCallsAssumption`,
  `BoundsAssumption`); `Chunks` and `MaxRuns` are positive;
* markers such as `Absent`, `None`, `Nothing`, `Nobody`, `NoArt`, `NoFile` are different from
  what they are told apart from;
* `HostOf` and `PidOf` are functions on `Session`, and nothing else: pids may be reused;
* 2D and 3D operations are disjoint; operations and pool threads of `BackgroundSimulation`
  are finitely many, since its foreground counter is compared with the number of those
  that hold it; `Lead` is no pool thread.

Sessions, hosts, directories, requests, senders and files are arbitrary sets.

### Arguments

* **`SessionLock`**. That a session may unlink a stale lock without disturbing an
  owner depends on where every other session is. `LockInv` adds: only a running
  session is inside a call or owns the lock (`ActiveOnlyWhileRunning`); a session
  about to remove its lock owns it; a session named by the file, or read from it, has
  been started (`NamedSessionsStarted`), which turns "its pid is not alive" into "it
  has ended" in spite of reused pids; a verdict is about a session of the
  inspecting host; until a contested unlink, a session that is writing the file
  created it. For the refinement, an owner is then the only one, so that `Holder`
  changes with `WriteLock` and `RemoveOwnLock`, when nobody else holds it.
* **`WorkspaceSessions`**. A writer has its lock because the activation before had
  it (`ActivatorHoldsLock`), and whoever replaces the directory it writes is the one
  exception (`WriterHasLock`). That a lock is in use takes the other direction:
  the lock manager of a living session knows every lock that names it
  (`LockIsOwned`), or a close would strand one.
* **`ProjectRecovery`**. `Progress` says which files already have what a save, a
  recovery or a rollback has to write; `Clean` that a database is half-written only
  with its journal beside it; `AckedSafe` where acknowledged work is at each
  step: in a retained backup, in the journal next to a torn copy, or in the main
  files. The case that is easy to miss is a backup that contains a torn database:
  it is worth something only as long as the journal is still there.
* **`GeometryApply`**. `InOrder`: backup, then evidence, then assets, then the
  manifest. `Kept` is the project without the change in progress; `ProjectFits`
  and `MemoryFits` compare files and memory with it, so that a rollback from any
  step restores what was acknowledged.
* **`TransferInbox`**. A request that is not torn is `Orderly`: one session at a
  time changes it, and only what that one has not written yet is inconsistent.
  From there follow that it is shown, and that what a sender has seen when it looked
  into `pending/` and then into `staging/` is still true when it publishes
  (`SenderHasLooked`, `LiveOnce`).
* **`DocumentSession`**. In three layers. `General` holds whatever happens: what each
  thread may be doing, and to which document (one is prepared, then imported, then
  current). `Tidy`, until stores cross, Saves overlap, fail or overwrite: the state that
  a Save has stored first is true in the end, an autosave puts back a path that is no
  recovery file's; a thread that stores a copy of what it has read then stores a copy of
  what is there. `WorkFits`, until something excused happens:
  an operation that leaves a document runs only while that document has nothing to lose.
  The moment between an edit and its dirty flag belongs to the UI thread, which is why
  it can be excepted in `CleanIsSaved` and need not be in `LeavingKeepsWork`.
* **`CamSession`**. A snapshot travels: memory, session, database, and the hands of every
  thread that has read it and not yet stored it. `EveryCopyIsSound` says of all
  of them that a VALID operation has the artifact of its content and token; any of
  them may become the memory. `TokenIsIssued` and `ResultFits` say it of a
  calculation that has not committed. Edits, files and posts need that
  nothing changes during a Save (`QuietInv`, `Calm`), where every step of a Save has
  to be told what it still has to put in place. The proof of `TokenIsIssued` failed
  at first for a good reason: a Save can give an operation an old result
  back while it is calculated, and what comes of that is in section 4 (`revived`).
* **`NcExport`**. Until something is damaged at most one thread is between its look at
  the files and its last write or restore, since a second one would be an overlap
  (`NoOverlap`). `AtRest` says what holds when there is none: the manifest is
  readable, and each current entry that matches its output is `Attended`: made from
  the toolpath, missed, going to be made stale, or of an export that will still look
  at the toolpath. `AtWork` says how far a thread has come: what the files lack of the
  wanted manifest is still to be written (`Planned`, `Ahead`, `Untouched`), what they
  no longer are has been kept (`Kept`, `AllKept`, `Restorable`), and the wanted manifest
  has no current entry that was not there or is not the export's own (`Grown`). Either
  the last write or the last restore leads back to `AtRest`. Two failed attempts were
  findings about the model: overlapping guards of a CASE in `WithEntry` and `Inspected`
  left their value open, and `UndoFails` counted as damage where the file was as
  it should be. For the refinement, `NcMeans` adds what the manifest an operation wants
  has to do with the one it found: one more entry, one operation's entries less, current
  ones made stale, or what inspection says of the files (`Meant`). That at most one
  thread is between its look and its last write makes the thread that `Ledger` chooses
  the only one. A step then keeps a thread at work (`StaysBusy`, of which only `Verify`
  is seen), ends its work (`Leaves`, of which only `Deleted` is seen), or is one of
  somebody else (`Aside`).
* **`BackgroundSimulation`**. What is owed has a job in the queue, or with the worker
  before it asks for the inputs, and an idle coordinator has neither. A job that is
  queued or running is of the open project and generation, which is not being left, or of
  a stranded generation, and a running one may be cancelled (`InForce`); so a
  worker that wakes up between two changes of project starts no chunk of another. The
  counter is the cardinality of `Holds` (`FiniteSetTheorems`): claims, and callers between
  a test and what follows it. Until two of them pass one test, what each has found of its
  operation is still so when it acts (`OneByOne`), and each step adds to or takes from
  both sides.
A step lemma has one case per action; where an action disturbs several conjuncts
they are lemmas of their own. An action property follows from the invariant before
the step.

### What is only model-checked

Every invariant and every action property of the passing runs is proved. What is left:

* Liveness: `ForegroundYields` and `QueueDrainsUnlessRefused` of `BackgroundSimulation`.
* That every refinement step can be taken: an `ArtifactLedger` that never changes
  would also be one. The runs reach every action of `NcExport`.
* The violations of section 4 are counterexamples; there is nothing to prove.

## 6. What is not modelled

* Data: geometry, toolpaths, JSON layouts, messages. A part of a project is a
  number or a Boolean; two assets of one request move together, and so do
  manifest and database in `GeometryApply` (they are separate in `ProjectRecovery`).
* Durability of the disk itself: a completed `os.replace` survives the process.
  Power loss between write and fsync is outside the models.
* The archiving of the previous geometry by an apply, the restoration of
  `.replaced` directories, imports into a project, schema migration.
* In `DocumentSession`: a project as the thing that is left, the contents and
  validation of the container, exports to other formats. In `CamSession`: material
  state dependencies, rest machining, tool management, creation and deletion of
  operations. In `NcExport`: lowering and formatting of NC code, program
  assemblies, external copies, the copying of the store by save-as and recovery.
* In `DocumentSession`, the reads with which a Save or an autosave begins are one step.
* In `BackgroundSimulation`: `shutdown`, read-only projects (nothing is scheduled for
  them), two openings or closings at once, and two threads that create the coordinator
  at the same time (the model starts when precompute has been enabled, which creates
  it). A calculation need not end.
* The interactive simulation (`simulation/worker.py`, `job.py`, `cache.py`).
* The post studio: its deployment engine is reached from tests and tools only.
* Backup, restore and migration of the data root: one user-driven process at a time,
  whose journal is checked by content; a model would restate its checks.
* The components that `PROJECT.json` lists as not modelled, with the reason for each.

The repository has some 230 000 lines. By far most of them are the computation
of toolpaths, material removal and lathe rules with floating-point geometry, the
layout and texts of Qt widgets, and the tools that assemble review packages. They
have no state that outlives a call or that two actors share, and a definition
could only stand for them by claiming lines it does not translate. The models
cover the code that keeps and shares state instead, of which they cover most.

## 7. Plan

Done: the lock, the lifecycle of projects, save and recovery, both sides of the
geometry transfer, documents, the CAM session, NC export, background simulation.

Modules that are left, the most useful first: the interactive simulation and its
cache; `.replaced` directories and imports; deletion of operations and material
states in `CamSession`.

Liveness properties and `ENABLED` stay with TLC; so does anything computed by
induction over data.

## 8. Running it

    tlc -config MCSessionLock.cfg MCSessionLock
    tlc -config MCWorkspaceSessions.cfg MCWorkspaceSessions
    tlc -config MCProjectRecovery.cfg MCProjectRecovery
    tlc -config MCGeometryApply.cfg MCGeometryApply
    tlc -config MCTransferInbox.cfg MCTransferInbox
    tlc -config MCDocumentSession.cfg MCDocumentSession
    tlc -config MCCamSession.cfg MCCamSession
    tlc -config MCNcExport.cfg MCNcExport
    tlc -config MCBackgroundSimulation.cfg MCBackgroundSimulation

Each takes seconds to three minutes on two cores. The proofs take seconds to several
minutes each:

    tlapm ProjectFilesProofs.tla
    tlapm WorkspaceSessionsProofs.tla
    tlapm ProjectRecoveryProofs.tla
    tlapm GeometryApplyProofs.tla
    tlapm TransferInboxProofs.tla
    tlapm DocumentSessionProofs.tla
    tlapm CamSessionProofs.tla
    tlapm BackgroundSimulationProofs.tla

The other configurations end with the counterexample of a finding:

    tlc -config MCSessionLockOneWriter.cfg MCSessionLock
    tlc -config MCGeometryApplyFailedApply.cfg MCGeometryApply
    tlc -config MCCamSessionEditDuringSave.cfg MCCamSession
