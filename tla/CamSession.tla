----------------------------- MODULE CamSession -----------------------------
(***************************************************************************)
(* The CAM half of an open project: ProjectService and                     *)
(* CamApplicationService, with the threads that call them.                 *)
(*                                                                         *)
(*   - the UI thread edits operations and setups, starts calculations and  *)
(*     commits the results of the 3D ones;                                 *)
(*   - one pool thread at a time calculates a toolpath: a 2D operation     *)
(*     under the lock of CamApplicationService, a 3D one outside it;       *)
(*   - one pool thread saves or reopens the project; nothing keeps the     *)
(*     user from editing meanwhile;                                        *)
(*   - one thread posts a toolpath to NC code.                             *)
(*                                                                         *)
(* What holds the lock of CamApplicationService is one step.  What the     *)
(* service writes to the ProjectSession is not under that lock: reading    *)
(* the snapshot, storing it and setting is_dirty are steps of their own.   *)
(* The generation check of a call and the call are one step.  A project    *)
(* change abandons the running calculation, whose later calls are all      *)
(* refused (another generation, no longer COMPUTING).                      *)
(*                                                                         *)
(* Contents are numbers: every edit makes a new one, so equal numbers mean *)
(* equal parameters, geometry and tool references (of an operation) or     *)
(* equal WCS and stock (of the setup).                                     *)
(***************************************************************************)
EXTENDS Naturals

CONSTANTS
    Ops2D,     \* operations calculated under the lock
    Ops3D,     \* parallel and Z-level finishing operations
    MaxEdits,  \* bound on the number of edits
    MaxCalcs,  \* bound on the number of calculations
    MaxSaves,  \* bound on the number of saves
    MaxOpens,  \* bound on the number of times the project is reopened
    MaxPosts,  \* bound on the number of posts
    MaxUsed,   \* bound on all of these together
    NoArt      \* no artifact

Ops == Ops2D \cup Ops3D

Artifact == [op : Ops, rev : Nat, setup : Nat, gen : Nat \ {0}]

ASSUME OpsAssumption == Ops2D \cap Ops3D = {}
ASSUME BoundsAssumption ==
    {MaxEdits, MaxCalcs, MaxSaves, MaxOpens, MaxPosts, MaxUsed} \subseteq Nat
ASSUME NoArtAssumption == NoArt \notin Artifact

VARIABLES
    snapshot,  \* CamApplicationService._snapshot
    bound,     \* ProjectSession.cam_snapshot
    dirty,     \* ProjectSession.is_dirty
    disk,      \* the CAM tables of the project database
    files,     \* artifact files in the project
    cache,     \* final results in the calculation cache (2D only)
    results,   \* PostRuntimeService: the artifacts with a posted result
    call,      \* what the UI thread and the calculation do with the session
    task,      \* the calculation
    save,      \* the Save task
    post,      \* the post thread
    used,      \* counts what the user has asked for
    last,      \* history: the contents that the user entered last
    overlap,   \* history: something changed while a Save was running
    revived    \* history: operations that got an old result back from a Save
               \* while they were being calculated

memory  == <<snapshot, bound, dirty>>
stored  == <<disk, files, cache>>
threads == <<call, task, save, post>>
history == <<used, last, overlap, revived>>
vars    == <<memory, stored, results, threads, history>>

Status == {"MISSING", "DIRTY", "COMPUTING", "VALID", "FAILED"}

\* One operation; "setup" is the setup in the fingerprint of its input.
OpState == [rev : Nat, status : Status, gen : Nat, setup : Nat]

Snapshot == [setup : Nat, op : [Ops -> OpState], meta : [Ops -> Artifact \cup {NoArt}]]

Idle == [pc |-> "idle"]

\* A call of ProjectService that has changed the snapshot goes on to write
\* the session: it remembers the snapshot of before, and holds the one that
\* it was given or has read.
Caller  == {"ui", "calculation"}
Reading == [pc : {"read"}, accepted : BOOLEAN, before : Snapshot]
Writing == [pc : {"store", "flag"}, accepted : BOOLEAN, before : Snapshot, held : Snapshot]

\* What the calculation, the Save task and the post thread carry along.
Calculating ==
    [pc : {"compute"}, op : Ops]
    \cup [pc : {"geometry"}, op : Ops, shown : OpState, setup : Nat]
    \cup [pc : {"toolpath"}, op : Ops, begun : OpState]
    \cup [pc : {"done"}, op : Ops, art : Artifact \cup {NoArt}, result : OpState]

Saving ==
    [pc : {"captured", "swept"}] \cup [pc : {"committed", "rebound", "clean"}, copy : Snapshot]

Posting ==
    [pc : {"begin", "lower", "publish"}, op : Ops, latest : BOOLEAN,
     source : [op : OpState, art : Artifact, setup : Nat]]

Artifacts(s) == {s.meta[o] : o \in Ops} \ {NoArt}

-----------------------------------------------------------------------------
(* Operations.                                                             *)

MarkDirty(x) == [x EXCEPT !.status = "DIRTY"]

\* What the project database never holds is a calculation in progress.
Normalized(s) ==
    [s EXCEPT !.op = [o \in Ops |->
        IF s.op[o].status = "COMPUTING" THEN MarkDirty(s.op[o]) ELSE s.op[o]]]

\* On opening, an artifact without its file is forgotten.
Reconciled(s) ==
    LET lost(o) == s.meta[o] \notin files
        stale(o) == lost(o) /\ (s.meta[o] # NoArt \/ s.op[o].status = "VALID")
    IN  [s EXCEPT !.meta = [o \in Ops |-> IF lost(o) THEN NoArt ELSE s.meta[o]],
                  !.op   = [o \in Ops |-> IF stale(o) THEN MarkDirty(s.op[o])
                                                      ELSE s.op[o]]]

Init ==
    /\ snapshot = [setup |-> 0,
                   op    |-> [o \in Ops |-> [rev |-> 0, status |-> "MISSING",
                                             gen |-> 0, setup |-> 0]],
                   meta  |-> [o \in Ops |-> NoArt]]
    /\ bound = snapshot /\ disk = snapshot
    /\ dirty = FALSE
    /\ files = {} /\ cache = {}
    /\ results = {}
    /\ call = [t \in Caller |-> Idle] /\ task = Idle /\ save = Idle /\ post = Idle
    /\ used = [edits |-> 0, calcs |-> 0, saves |-> 0, opens |-> 0, posts |-> 0]
    /\ last = [setup |-> 0, rev |-> [o \in Ops |-> 0]]
    /\ overlap = FALSE /\ revived = {}

-----------------------------------------------------------------------------
(* Pieces shared by the actions.                                           *)

\* The user asks for one more of a kind, within the bounds.
Use(kind, max) ==
    /\ used[kind] < max
    /\ used.edits + used.calcs + used.saves + used.opens + used.posts < MaxUsed
    /\ used' = [used EXCEPT ![kind] = @ + 1]

\* History: a change of the memory while a Save is running.
Touch == overlap' = (overlap \/ save # Idle)

\* Mutant: the computation in progress may still publish.
StaleResults(os) ==
    /\ results' = {a \in results : a.op \notin os}
    /\ post' = post

\* PostRuntimeService.mark_stale and invalidate_all: no result is left and
\* the computation in progress is no longer the latest.
StalePost(os) ==
    /\ results' = {a \in results : a.op \notin os}
    /\ post' = IF post # Idle /\ post.op \in os THEN [post EXCEPT !.latest = FALSE]
                                                ELSE post

-----------------------------------------------------------------------------
(* Writing the session after a change.                                     *)

\* What is left to do for a thread that has changed the snapshot, or has
\* been refused to.
Follow(t, ok) ==
    call' = [call EXCEPT ![t] = [pc |-> "read", accepted |-> ok, before |-> snapshot]]

ReadSnapshot(t) ==
    /\ call[t].pc = "read"
    /\ call' = [call EXCEPT ![t] = [pc |-> "store", accepted |-> @.accepted,
                                   before |-> @.before, held |-> snapshot]]
    /\ UNCHANGED <<memory, stored, results, task, save, post, history>>

StoreSnapshot(t) ==
    /\ call[t].pc = "store"
    /\ bound' = call[t].held
    /\ call' = [call EXCEPT ![t].pc = "flag"]
    /\ Touch
    /\ UNCHANGED <<snapshot, dirty, stored, results, task, save, post, used, last, revived>>

\* Mutant: the snapshot is compared with what the session has by now.
SetDirtyLate(t) ==
    /\ call[t].pc = "flag"
    /\ dirty' = (dirty \/ (call[t].accepted /\ call[t].held # bound))
    /\ call' = [call EXCEPT ![t] = Idle]
    /\ Touch
    /\ UNCHANGED <<snapshot, bound, stored, results, task, save, post, used, last, revived>>

SetDirty(t) ==
    /\ call[t].pc = "flag"
    /\ dirty' = (dirty \/ (call[t].accepted /\ call[t].held # call[t].before))
    /\ call' = [call EXCEPT ![t] = Idle]
    /\ Touch
    /\ UNCHANGED <<snapshot, bound, stored, results, task, save, post, used, last, revived>>

-----------------------------------------------------------------------------
(* The UI thread: edits.                                                   *)

\* execute_cam_command: the command runs under the lock, and its result is
\* what the session gets.
Edit(s) ==
    /\ call["ui"] = Idle
    /\ Use("edits", MaxEdits)
    /\ snapshot' = s
    /\ call' = [call EXCEPT !["ui"] = [pc |-> "store", accepted |-> TRUE,
                                      before |-> snapshot, held |-> s]]
    /\ StalePost(Ops)
    /\ Touch
    /\ UNCHANGED <<bound, dirty, stored, task, save, revived>>

EditOperation(o) ==
    /\ Edit([snapshot EXCEPT !.op[o] = [MarkDirty(@) EXCEPT !.rev = used.edits + 1]])
    /\ last' = [last EXCEPT !.rev[o] = used.edits + 1]

\* replace_setup: another WCS or stock makes every operation stale, but is
\* no new revision of any.
EditSetup ==
    /\ Edit([snapshot EXCEPT !.setup = used.edits + 1,
                             !.op = [o \in Ops |-> MarkDirty(snapshot.op[o])]])
    /\ last' = [last EXCEPT !.setup = used.edits + 1]

-----------------------------------------------------------------------------
(* Calculations of 2D operations: compute_facing, compute_contour, ...     *)

NewCalculation ==
    /\ task = Idle /\ call["calculation"] = Idle
    /\ Use("calcs", MaxCalcs)

Start2D(o) ==
    /\ NewCalculation
    /\ task' = [pc |-> "compute", op |-> o]
    /\ UNCHANGED <<memory, stored, results, call, save, post, last, overlap, revived>>

\* The lock is held from the look at the operation to its new state.
Compute(x, art) ==
    /\ task.pc = "compute"
    /\ snapshot' = [snapshot EXCEPT !.op[task.op] = x,
                     !.meta[task.op] = IF art = NoArt THEN @ ELSE art]
    /\ files' = files \cup ({art} \ {NoArt})
    /\ Follow("calculation", TRUE)
    /\ task' = Idle
    /\ Touch
    /\ UNCHANGED <<bound, dirty, disk, save, used, last, revived>>

\* The state of operation o with artifact a as its result.
Published(o, a) ==
    [snapshot.op[o] EXCEPT !.status = "VALID", !.gen = a.gen, !.setup = a.setup]

\* Mutant: the key of the cache leaves out the parameters.
SameSetup(a, b) == a.op = b.op /\ a.setup = b.setup

SameInput(a, b) == a.op = b.op /\ a.rev = b.rev /\ a.setup = b.setup

\* Mutant: an artifact gets the number of the token before.
ResultOfBefore(o, gen) ==
    [op |-> o, rev |-> snapshot.op[o].rev, setup |-> snapshot.setup, gen |-> gen - 1]

ResultOf(o, gen) ==
    [op |-> o, rev |-> snapshot.op[o].rev, setup |-> snapshot.setup, gen |-> gen]

\* A final result for the same input is restored with its generation; what
\* was posted from the operation is not touched.
ComputeFromCache ==
    /\ task.pc = "compute"
    /\ \E a \in cache :
        /\ SameInput(a, ResultOf(task.op, 0))
        /\ Compute(Published(task.op, a), a)
    /\ UNCHANGED <<cache, results, post, revived>>

\* Also possible when the cache has the result, but cannot deliver it.
ComputeSucceeds ==
    /\ task.pc = "compute"
    /\ LET a == ResultOf(task.op, snapshot.op[task.op].gen + 1)
       IN  /\ Compute(Published(task.op, a), a)
           /\ cache' = {b \in cache : ~SameInput(a, b)} \cup {a}
    /\ StalePost({task.op})

\* Before or after the computation token was issued; an operation that was
\* VALID gets its old state back.
ComputeFails ==
    /\ task.pc = "compute"
    /\ LET x == snapshot.op[task.op]
       IN  \E begun \in {0, 1} :
            Compute(IF x.status = "VALID" THEN x
                    ELSE [x EXCEPT !.status = "FAILED", !.gen = @ + begun,
                          !.setup = IF begun = 1 THEN snapshot.setup ELSE @], NoArt)
    /\ UNCHANGED <<cache, results, post, revived>>

-----------------------------------------------------------------------------
(* Calculations of 3D operations: begin_parallel_calculation,              *)
(* begin_z_level_calculation and the commits.  The editor hands the        *)
(* operation and the setup that it shows to the pool thread.               *)

Start3D(o) ==
    /\ NewCalculation
    /\ call["ui"] = Idle
    /\ task' = [pc |-> "geometry", op |-> o, shown |-> snapshot.op[o],
                setup |-> snapshot.setup]
    /\ UNCHANGED <<memory, stored, results, call, save, post, last, overlap, revived>>

\* The shown operation with a computation token.
Computing(t) ==
    [t.shown EXCEPT !.status = "COMPUTING", !.gen = @ + 1, !.setup = t.setup]

\* What is compared is what the operation itself says: not its status, and
\* not the setup.
StillShown(t) == snapshot.op[t.op].rev = t.shown.rev

Begin ==
    /\ task.pc = "geometry"
    /\ task.shown.status \in {"MISSING", "DIRTY", "FAILED"}
    /\ StillShown(task)
    /\ snapshot' = [snapshot EXCEPT !.op[task.op] = Computing(task)]
    /\ Follow("calculation", TRUE)
    /\ task' = [pc |-> "toolpath", op |-> task.op, begun |-> Computing(task)]
    /\ StalePost({task.op})
    /\ Touch
    /\ UNCHANGED <<bound, dirty, stored, save, used, last, revived>>

Superseded(x) ==
    task' = [pc |-> "done", op |-> task.op, art |-> NoArt, result |-> x]

\* The refusal goes to the commit like a result.
BeginRefused ==
    /\ task.pc = "geometry"
    /\ task.shown.status \in {"MISSING", "DIRTY", "FAILED"}
    /\ ~StillShown(task)
    /\ Superseded(task.shown)
    /\ Follow("calculation", FALSE)
    /\ UNCHANGED <<memory, stored, results, save, post, history>>

\* The geometry cannot be prepared, the shown operation has a result, or an
\* exception ends the thread: nothing is committed, and a token that was
\* issued stays.
GiveUp ==
    /\ task.pc \in {"geometry", "toolpath"}
    /\ call["calculation"] = Idle
    /\ task' = Idle
    /\ UNCHANGED <<memory, stored, results, call, save, post, history>>

\* Only a result for the token that the operation has now gets a file; the
\* result itself waits for the UI thread.
Produce ==
    /\ task.pc = "toolpath" /\ call["calculation"] = Idle
    /\ LET x == task.begun
           a == [op |-> task.op, rev |-> x.rev, setup |-> x.setup, gen |-> x.gen]
       IN  /\ snapshot.op[task.op] = x
           /\ files' = files \cup {a}
           /\ task' = [pc |-> "done", op |-> task.op, art |-> a,
                       result |-> [x EXCEPT !.status = "VALID"]]
    /\ UNCHANGED <<memory, disk, cache, results, call, save, post, history>>

ProduceLate ==
    /\ task.pc = "toolpath" /\ call["calculation"] = Idle
    /\ snapshot.op[task.op] # task.begun
    /\ Superseded(snapshot.op[task.op])
    /\ UNCHANGED <<memory, stored, results, call, save, post, history>>

\* No toolpath, or an unsafe one.
ProduceFails ==
    /\ task.pc = "toolpath" /\ call["calculation"] = Idle
    /\ task' = [pc |-> "done", op |-> task.op, art |-> NoArt,
                result |-> [task.begun EXCEPT !.status = "FAILED"]]
    /\ UNCHANGED <<memory, stored, results, call, save, post, history>>

Matches(x, result) ==
    /\ x.rev = result.rev
    /\ x.status = "COMPUTING"
    /\ x.gen = result.gen
    /\ x.setup = result.setup

Commit ==
    /\ task.pc = "done" /\ call = [t \in Caller |-> Idle]
    /\ Matches(snapshot.op[task.op], task.result)
    /\ snapshot' = [snapshot EXCEPT !.op[task.op] = task.result,
                    !.meta[task.op] = IF task.art = NoArt THEN @ ELSE task.art]
    /\ Follow("ui", TRUE)
    /\ task' = Idle
    /\ StalePost({task.op})
    /\ Touch
    /\ UNCHANGED <<bound, dirty, stored, save, used, last, revived>>

CommitRefused ==
    /\ task.pc = "done" /\ call = [t \in Caller |-> Idle]
    /\ ~Matches(snapshot.op[task.op], task.result)
    /\ Follow("ui", FALSE)
    /\ task' = Idle
    /\ UNCHANGED <<memory, stored, results, save, post, history>>

-----------------------------------------------------------------------------
(* Saving and reopening: tasks of the project controller.                  *)

SaveCapture ==
    /\ save = Idle
    /\ Use("saves", MaxSaves)
    /\ bound' = snapshot
    /\ save' = [pc |-> "captured"]
    /\ overlap' = (overlap \/ \E t \in Caller : call[t] # Idle)
    /\ UNCHANGED <<snapshot, dirty, stored, results, call, task, post, last, revived>>

\* The transaction takes what the session has by now.
SaveCommit ==
    /\ save.pc = "captured"
    /\ disk' = Normalized(bound)
    /\ save' = [pc |-> "committed", copy |-> Normalized(bound)]
    /\ UNCHANGED <<memory, files, cache, results, call, task, post, history>>

SaveFails ==
    /\ save.pc = "captured"
    /\ save' = Idle
    /\ UNCHANGED <<memory, stored, results, call, task, post, history>>

\* Mutant: the session keeps the snapshot that was saved, not the copy on disk.
SaveRebindNot ==
    /\ save.pc = "committed"
    /\ save' = [save EXCEPT !.pc = "rebound"]
    /\ UNCHANGED <<memory, stored, results, call, task, post, history>>

SaveRebind ==
    /\ save.pc = "committed"
    /\ bound' = save.copy
    /\ save' = [save EXCEPT !.pc = "rebound"]
    /\ UNCHANGED <<snapshot, dirty, stored, results, call, task, post, history>>

SaveClean ==
    /\ save.pc = "rebound"
    /\ dirty' = FALSE
    /\ save' = [save EXCEPT !.pc = "clean"]
    /\ UNCHANGED <<snapshot, bound, stored, results, call, task, post, history>>

\* cleanup_orphans: what the saved snapshot does not mention is deleted.
SaveCleanup ==
    /\ save.pc = "clean"
    /\ files' = files \cap Artifacts(save.copy)
    /\ save' = [pc |-> "swept"]
    /\ UNCHANGED <<memory, disk, cache, results, call, task, post, history>>

\* mark_persisted: the memory is set to what the session has.  History: that
\* may be an older result of the operation that is being calculated.
SaveMark ==
    /\ save.pc = "swept"
    /\ snapshot' = bound
    /\ save' = Idle
    /\ revived' = revived \cup {o \in Ops : /\ task.pc = "toolpath" /\ task.op = o
                                           /\ bound.op[o].status = "VALID"}
    /\ UNCHANGED <<bound, dirty, stored, results, call, task, post, used, last, overlap>>

\* The project is opened again from disk; the user gives up what is not
\* saved.  Loading, reconciling and activating are one step.
Reopen ==
    /\ save = Idle /\ call["ui"] = Idle
    /\ Use("opens", MaxOpens)
    /\ LET s == Reconciled(disk)
       IN  /\ snapshot' = s /\ bound' = s
           /\ last' = [setup |-> s.setup, rev |-> [o \in Ops |-> s.op[o].rev]]
    /\ dirty' = FALSE
    /\ StalePost(Ops)
    /\ call' = [t \in Caller |-> Idle] /\ task' = Idle
    /\ UNCHANGED <<stored, save, overlap, revived>>

-----------------------------------------------------------------------------
(* Posting: capture_post_source and PostRuntimeService.post.  An operation *)
(* whose artifact has no file cannot be captured.                          *)

Source(o) == [op |-> snapshot.op[o], art |-> snapshot.meta[o], setup |-> snapshot.setup]

Fingerprint(src) == [rev |-> src.op.rev, art |-> src.art, setup |-> src.setup]

PostCapture(o) ==
    /\ post = Idle
    /\ Use("posts", MaxPosts)
    /\ snapshot.meta[o] \in files
    /\ post' = [pc |-> "begin", op |-> o, source |-> Source(o), latest |-> FALSE]
    /\ UNCHANGED <<memory, stored, results, call, task, save, last, overlap, revived>>

Made(a) == [rev |-> a.rev, art |-> a, setup |-> a.setup]

\* An earlier result for another input is forgotten.
PostBegin ==
    /\ post.pc = "begin"
    /\ results' = IF Fingerprint(post.source) = Made(post.source.art)
                  THEN results ELSE results \ {post.source.art}
    /\ post' = [post EXCEPT !.pc = "lower", !.latest = TRUE]
    /\ UNCHANGED <<memory, stored, call, task, save, history>>

\* validate_post_source refuses a source that does not fit together.
Postable(src) ==
    /\ src.op.status = "VALID"
    /\ src.art.rev = src.op.rev /\ src.art.gen = src.op.gen
    /\ src.art.setup = src.setup

\* The source is captured again and has to be the same.
PostRecheck ==
    /\ post.pc = "lower"
    /\ LET now == Source(post.op)
       IN  post' = IF /\ Postable(post.source)
                      /\ now.art \in files
                      /\ Fingerprint(now) = Fingerprint(post.source)
                   THEN [post EXCEPT !.pc = "publish"] ELSE Idle
    /\ UNCHANGED <<memory, stored, results, call, task, save, history>>

PostPublish ==
    /\ post.pc = "publish"
    /\ results' = results \cup (IF post.latest THEN {post.source.art} ELSE {})
    /\ post' = Idle
    /\ UNCHANGED <<memory, stored, call, task, save, history>>

-----------------------------------------------------------------------------

UserStep ==
    \/ \E o \in Ops : EditOperation(o)
    \/ EditSetup
    \/ \E o \in Ops2D : Start2D(o)
    \/ \E o \in Ops3D : Start3D(o)
    \/ SaveCapture
    \/ Reopen
    \/ \E o \in Ops : PostCapture(o)

SessionStep == \E t \in Caller : ReadSnapshot(t) \/ StoreSnapshot(t) \/ SetDirty(t)

CalculationStep ==
    \/ ComputeFromCache \/ ComputeSucceeds \/ ComputeFails
    \/ Begin \/ BeginRefused \/ GiveUp
    \/ Produce \/ ProduceLate \/ ProduceFails
    \/ Commit \/ CommitRefused

SaveStep ==
    \/ SaveCommit \/ SaveFails \/ SaveRebind \/ SaveClean \/ SaveCleanup \/ SaveMark

PostStep == PostBegin \/ PostRecheck \/ PostPublish

Next == UserStep \/ SessionStep \/ CalculationStep \/ SaveStep \/ PostStep

Spec == Init /\ [][Next]_vars

-----------------------------------------------------------------------------
(* Properties.                                                             *)

\* Every variable has its type.
TypeOK ==
    /\ snapshot \in Snapshot /\ bound \in Snapshot /\ disk \in Snapshot
    /\ dirty \in BOOLEAN
    /\ files \subseteq Artifact /\ cache \subseteq Artifact /\ results \subseteq Artifact
    /\ call \in [Caller -> {Idle} \cup Reading \cup Writing]
    /\ task \in {Idle} \cup Calculating
    /\ save \in {Idle} \cup Saving
    /\ post \in {Idle} \cup Posting
    /\ used \in [edits : 0 .. MaxEdits, calcs : 0 .. MaxCalcs,
                 saves : 0 .. MaxSaves, opens : 0 .. MaxOpens,
                 posts : 0 .. MaxPosts]
    /\ last \in [setup : Nat, rev : [Ops -> Nat]]
    /\ overlap \in BOOLEAN
    /\ revived \subseteq Ops

\* A VALID operation has the artifact for its content and its token.
ValidIsMatched(s, o) ==
    s.op[o].status = "VALID" =>
        /\ s.meta[o] # NoArt
        /\ s.meta[o].rev = s.op[o].rev
        /\ s.meta[o].gen = s.op[o].gen
        /\ s.meta[o].setup = s.op[o].setup

\* An operation that says VALID, in memory, in the session or on disk, has an
\* artifact that was computed for its content and its token, whatever edits,
\* saves and reopenings happened while it was computed (publish_toolpath,
\* commit_parallel_calculation).  Excepted is an operation to which a Save gave
\* an older result back while it was calculated: publish_toolpath refuses the
\* new result by returning the old one, which the commit takes for the new one
\* when another Save has meanwhile brought the computation token back.
ResultMatchesOperation ==
    \A s \in {snapshot, bound, disk}, o \in Ops \ revived : ValidIsMatched(s, o)

\* Nothing that the database or, between saves, the memory refers to is
\* deleted by cleanup_orphans, although 3D results get their file before
\* their metadata.  (Not when something changed during a Save.)
ReferencedArtifactsExist ==
    ~overlap =>
        /\ Artifacts(disk) \subseteq files
        /\ save = Idle => Artifacts(snapshot) \subseteq files

AtRest ==
    save = Idle /\ call = [t \in Caller |-> Idle]

\* The memory has the user's last edits, and a project that is not dirty has
\* them on disk: closing it loses nothing (close_project).
NoEditLost ==
    AtRest =>
        /\ snapshot.setup = last.setup
        /\ \A o \in Ops : snapshot.op[o].rev = last.rev[o]
        /\ dirty \/ snapshot = disk

\* The same, as long as nothing changes while a Save is running.
NoEditLostBetweenSaves == ~overlap => NoEditLost

\* NC code that can be looked up for the artifact of an operation was made
\* from the operation and the setup as they are now (PostRuntimeService.post).
PostedIsCurrent ==
    ~overlap =>
        \A a \in results :
            snapshot.meta[a.op] = a =>
                a.rev = snapshot.op[a.op].rev /\ a.setup = snapshot.setup
=============================================================================
