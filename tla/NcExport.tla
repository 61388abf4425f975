------------------------------ MODULE NcExport ------------------------------
(***************************************************************************)
(* The NC files that a project manages: NCExportService and                *)
(* NCArtifactStore.                                                        *)
(*                                                                         *)
(* An exported file is an output in nc/ with a sidecar in post/metadata/;  *)
(* post/manifest.json lists them all.  Output, sidecar and manifest are    *)
(* replaced one after the other, each of them atomically.  The store has   *)
(* no lock; it is used by                                                  *)
(*                                                                         *)
(*   - the UI thread: exports, removals, and edits of the CAM data, which  *)
(*     are followed by a comparison of the manifest with the toolpaths;    *)
(*   - the pool thread of a calculation, which makes files stale;          *)
(*   - the pool thread of a Save, which writes down what is missing or     *)
(*     has been tampered with.                                             *)
(*                                                                         *)
(* Toolpaths are numbers, a new one for every calculation.  What is in an  *)
(* output is known from the artifact it was written for.                   *)
(***************************************************************************)
EXTENDS Naturals

CONSTANTS
    Ops,           \* operations
    Names,         \* file names the user gives
    MaxToolpaths,  \* bound on the number of calculations
    MaxUsed,       \* bound on the number of requests
    NoFile         \* no such file

\* uuid5 of operation, toolpath, contents and file name.
Artifact == [op : Ops, src : 0 .. MaxToolpaths, name : Names]

ASSUME BoundsAssumption == {MaxToolpaths, MaxUsed} \subseteq Nat
ASSUME NoFileAssumption == NoFile \notin Artifact

VARIABLES
    toolpath,  \* the toolpath of each operation
    saved,     \* the same, in the project database
    posted,    \* operations with a result of the post
    results,   \* the runtime registry: the last export of an operation
    manifest,  \* the status of each artifact in post/manifest.json
    sidecar,   \* the status in its sidecar
    output,    \* what is in a file of nc/
    thread,    \* the store operation each thread is in
    fresh,     \* the newest toolpath
    used,      \* number of requests
    damaged,   \* history: writes were cut short, not undone or overlapped
    missed     \* history: operations whose files could not be made stale

project == <<toolpath, saved, posted>>
files   == <<manifest, sidecar, output>>
history == <<fresh, used, damaged, missed>>
ncVars  == <<project, results, files, thread, history>>

Thread == {"ui", "worker", "save"}
Kind   == {"publish", "mark", "reconcile", "clear", "flush"}
Policy == {"FAIL_IF_EXISTS", "REPLACE_IF_SAME_ARTIFACT", "REPLACE_EXPLICIT"}

\* NCArtifactStatus, or no entry.
ArtifactStatus == {"none", "current", "stale", "missing", "tampered"}

Idle == [pc |-> "idle"]
AllIdle == thread = [t \in Thread |-> Idle]

\* A thread that has looked at the files and still works on them.
BusyPc  == {"keep", "write", "remove", "undo"}
Busy(t) == thread[t].pc \in BusyPc

NcInit ==
    /\ toolpath = [o \in Ops |-> 0] /\ saved = toolpath
    /\ posted = {}
    /\ results = [o \in Ops |-> NoFile]
    /\ manifest = [a \in Artifact |-> "none"] /\ sidecar = manifest
    /\ output = [n \in Names |-> NoFile]
    /\ thread = [t \in Thread |-> Idle]
    /\ fresh = 0 /\ used = 0
    /\ damaged = FALSE /\ missed = {}

-----------------------------------------------------------------------------
(* The manifest.                                                           *)

\* load() refuses the whole manifest when one sidecar differs.
Readable == \A a \in Artifact : manifest[a] # "none" => sidecar[a] = manifest[a]

Entries(m) == {a \in Artifact : m[a] # "none"}

\* inspect(): the outputs are compared with the entries.
Inspected ==
    [a \in Artifact |->
        IF manifest[a] # "none" /\ output[a.name] # a
        THEN IF output[a.name] = NoFile THEN "missing" ELSE "tampered"
        ELSE manifest[a]]

\* The manifest when the given artifacts are stale.
Staled(gone) ==
    [a \in Artifact |-> IF manifest[a] = "current" /\ a \in gone THEN "stale" ELSE manifest[a]]

Of(o) == {a \in Artifact : a.op = o}

\* Mutant: an older entry keeps the file name.
WithEntryAdded(new) ==
    [a \in Artifact |->
        IF a = new THEN "current" ELSE Staled({b \in Of(new.op) : b.name # new.name})[a]]

\* The manifest with a newly exported artifact: no other entry keeps its
\* file name, no other entry of the operation stays current.
WithEntry(new) ==
    [a \in Artifact |->
        IF a.name = new.name THEN IF a = new THEN "current" ELSE "none"
        ELSE Staled(Of(new.op))[a]]

\* What the operation of a thread wants the manifest to be.
Candidate(x) ==
    CASE x.kind = "publish"   -> WithEntry(x.new)
      [] x.kind = "mark"      -> Staled(Of(x.op))
      [] x.kind = "reconcile" -> Staled({a \in Artifact : a.src # toolpath[a.op]})
      [] x.kind = "clear"     -> [a \in Artifact |-> IF a.op = x.op THEN "none" ELSE manifest[a]]
      [] x.kind = "flush"     -> Inspected

WriteOutput(n, a)  == [file |-> "output", key |-> n, val |-> a]
WriteSidecar(a, s) == [file |-> "sidecar", key |-> a, val |-> s]
WriteManifest(m)   == [file |-> "manifest", key |-> NoFile, val |-> m]

\* The files that are written.  publish() rewrites the sidecars that change,
\* the other operations all of them.
Plan(x, m) ==
    LET sides == IF x.kind = "publish"
                 THEN {x.new} \cup {a \in Entries(m) : m[a] # manifest[a]}
                 ELSE Entries(m)
    IN  {WriteSidecar(a, m[a]) : a \in sides} \cup {WriteManifest(m)}
            \cup (IF x.kind = "publish" THEN {WriteOutput(x.new.name, x.new)} ELSE {})

\* What is removed when the manifest has been written: the sidecar of the
\* entry that lost its file name, or the files of the operation.
Garbage(x) ==
    CASE x.kind = "publish" ->
            {WriteSidecar(a, "none") :
                a \in {b \in Entries(manifest) \ {x.new} : b.name = x.new.name}}
      [] x.kind = "clear"   ->
            UNION {{WriteOutput(a.name, NoFile), WriteSidecar(a, "none")} :
                a \in Entries(manifest) \cap Of(x.op)}
      [] OTHER              -> {}

\* The order of the writes: an export writes its own files first, and the
\* manifest comes last.
Rank(x, w) ==
    CASE w.file = "output"   -> 1
      [] w.file = "sidecar"  -> IF x.kind = "publish" /\ w.key = x.new THEN 2 ELSE 3
      [] w.file = "manifest" -> 4

\* The order in which the old files are kept: publish() takes the manifest
\* before the sidecars that become stale.
KeptRank(x, w) ==
    IF x.kind = "publish" /\ w.file = "sidecar" /\ w.key # x.new THEN 5 ELSE Rank(x, w)

\* _validate_managed_overwrite.
MayWrite(x) ==
    x.kind = "publish" =>
        \/ output[x.new.name] = NoFile
        \/ x.policy = "REPLACE_EXPLICIT"
        \/ x.policy = "REPLACE_IF_SAME_ARTIFACT" /\ manifest[x.new] # "none"

-----------------------------------------------------------------------------
(* Requests.                                                               *)

Request == used < MaxUsed /\ used' = used + 1

Begin(t, kind, op, new, policy) ==
    /\ thread[t] = Idle
    /\ thread' = [thread EXCEPT ![t] =
          [pc |-> IF kind = "mark" THEN "registry" ELSE "load", kind |-> kind,
           op |-> op, new |-> new, policy |-> policy, latest |-> TRUE,
           want |-> NoFile, was |-> NoFile, todo |-> {}, done |-> {}, garbage |-> {}]]

\* PostRuntimeService.post; see CamSession.
Post(o) ==
    /\ o \notin posted
    /\ posted' = posted \cup {o}
    /\ UNCHANGED <<toolpath, saved, results, files, thread, history>>

\* export() up to the check before the first write.
Export(o, n, policy) ==
    /\ Request
    /\ o \in posted
    /\ Begin("ui", "publish", o, [op |-> o, src |-> toolpath[o], name |-> n], policy)
    /\ UNCHANGED <<project, results, files, fresh, damaged, missed>>

\* clear_managed_artifact.
Clear(o) ==
    /\ Request
    /\ Begin("ui", "clear", o, NoFile, "")
    /\ UNCHANGED <<project, results, files, fresh, damaged, missed>>

\* execute_cam_command: no toolpath changes, but all results of the post are
\* dropped and the manifest is compared.
Edit ==
    /\ Request
    /\ posted' = {}
    /\ \E o \in Ops : Begin("ui", "reconcile", o, NoFile, "")
    /\ UNCHANGED <<toolpath, saved, results, files, fresh, damaged, missed>>

\* compute_facing and the like: a new toolpath.
Calculate(o) ==
    /\ Request
    /\ fresh < MaxToolpaths /\ fresh' = fresh + 1
    /\ toolpath' = [toolpath EXCEPT ![o] = fresh + 1]
    /\ posted' = posted \ {o}
    /\ Begin("worker", "mark", o, NoFile, "")
    /\ UNCHANGED <<saved, results, files, damaged, missed>>

\* ProjectSaver.save starts with flush().
Save ==
    /\ Request
    /\ \E o \in Ops : Begin("save", "flush", o, NoFile, "")
    /\ UNCHANGED <<project, results, files, fresh, damaged, missed>>

\* Somebody removes a file from nc/.
Lose(n) ==
    /\ Request
    /\ output[n] # NoFile
    /\ output' = [output EXCEPT ![n] = NoFile]
    /\ UNCHANGED <<project, results, manifest, sidecar, thread, fresh, damaged, missed>>

-----------------------------------------------------------------------------
(* Steps of a store operation.                                             *)

\* An operation that ends without having made the files stale.
Misses(x) == IF x.kind = "mark" THEN {x.op} ELSE {}

Go(t, pc) == thread' = [thread EXCEPT ![t].pc = pc]

\* History: another thread works on the files.
Overlap(t) == damaged' = (damaged \/ \E u \in Thread \ {t} : Busy(u))

\* NCExportService.mark_operation_stale: a running export of the operation
\* loses its token only when there is an earlier result.
MarkRegistry(t) ==
    LET o == thread[t].op IN
    /\ thread[t].pc = "registry"
    /\ results' = [results EXCEPT ![o] = NoFile]
    /\ thread' = [u \in Thread |->
          IF u = t THEN [thread[u] EXCEPT !.pc = "load"]
          ELSE IF u = "ui" /\ thread[u] # Idle /\ thread[u].op = o /\ results[o] # NoFile
               THEN [thread[u] EXCEPT !.latest = FALSE] ELSE thread[u]]
    /\ UNCHANGED <<project, files, history>>

Load(t) ==
    LET x == thread[t] IN
    /\ x.pc = "load"
    /\ Readable /\ MayWrite(x)
    /\ thread' = [thread EXCEPT ![t] =
          IF x.kind # "publish" /\ Candidate(x) = manifest THEN [x EXCEPT !.pc = "succeed"]
          ELSE [x EXCEPT !.pc = IF x.kind = "publish" THEN "keep" ELSE "write",
                         !.want = Candidate(x),
                         !.was = [manifest |-> manifest, sidecar |-> sidecar, output |-> output],
                         !.todo = Plan(x, Candidate(x)), !.garbage = Garbage(x)]]
    /\ Overlap(t)
    /\ UNCHANGED <<project, results, files, fresh, used, missed>>

\* Unreadable, refused by the overwrite policy, or an I/O error.
LoadFails(t) ==
    /\ thread[t].pc = "load"
    /\ missed' = missed \cup Misses(thread[t])
    /\ thread' = [thread EXCEPT ![t] = Idle]
    /\ UNCHANGED <<project, results, files, fresh, used, damaged>>

Old(w) ==
    CASE w.file = "output"   -> WriteOutput(w.key, output[w.key])
      [] w.file = "sidecar"  -> WriteSidecar(w.key, sidecar[w.key])
      [] w.file = "manifest" -> WriteManifest(manifest)

\* Mutant: the sidecars of the entries that become stale are not kept.
KeptByNewOnly(plan) == {Old(w) : w \in {v \in plan : v.file = "sidecar" => v.val = "current"}}

\* Mutant: the output is not kept.
KeptByMetadata(plan) == {Old(w) : w \in {v \in plan : v.file # "output"}}

KeptBy(plan) == {Old(w) : w \in plan}

\* publish() keeps the bytes of all files before it writes the first.
Keep(t) ==
    LET x == thread[t] IN
    /\ x.pc = "keep"
    /\ thread' = [thread EXCEPT ![t] = [x EXCEPT !.pc = "write", !.done = KeptBy(x.todo)]]
    /\ UNCHANGED <<project, results, files, history>>

\* A file that cannot be read; nothing has been written.
KeepFails(t) ==
    /\ thread[t].pc = "keep"
    /\ Go(t, "undo")
    /\ UNCHANGED <<project, results, files, history>>

\* One file is replaced or removed.
Put(w) ==
    /\ output' = IF w.file = "output" THEN [output EXCEPT ![w.key] = w.val] ELSE output
    /\ sidecar' = IF w.file = "sidecar" THEN [sidecar EXCEPT ![w.key] = w.val] ELSE sidecar
    /\ manifest' = IF w.file = "manifest" THEN w.val ELSE manifest

\* A file that is next to be written.
NextWrites(x) == {w \in x.todo : \A v \in x.todo : Rank(x, w) <= Rank(x, v)}

\* The old files when w is about to be written.
WithOld(x, w) == IF x.kind = "publish" THEN x.done ELSE x.done \cup {Old(w)}

Write(t) ==
    LET x == thread[t] IN
    /\ x.pc = "write"
    /\ \E w \in NextWrites(x) :
        /\ Put(w)
        /\ thread' = [thread EXCEPT ![t] = [x EXCEPT !.todo = @ \ {w}, !.done = WithOld(x, w)]]
        /\ Overlap(t)
        /\ UNCHANGED <<project, results, fresh, used, missed>>

PutFails(t) ==
    LET x == thread[t] IN
    /\ x.pc = "write"
    /\ \E w \in NextWrites(x) :
        /\ thread' = [thread EXCEPT ![t] = [x EXCEPT !.pc = "undo", !.done = WithOld(x, w)]]
        /\ UNCHANGED <<project, results, files, history>>

\* publish() inspects the new entry, the other operations load() again.
Verify(t) ==
    LET x == thread[t] IN
    /\ x.pc = "write" /\ x.todo = {}
    /\ Go(t, IF Readable /\ (x.kind = "publish" => Inspected[x.new] = "current")
             THEN "remove" ELSE "undo")
    /\ UNCHANGED <<project, results, files, history>>

\* The output of an entry is removed, then its sidecar, then the next entry.
Removable(x) ==
    {w \in x.garbage :
        IF w.file = "sidecar" THEN WriteOutput(w.key.name, NoFile) \notin x.garbage
        ELSE \A v \in x.garbage :
                v.file = "sidecar" => WriteOutput(v.key.name, NoFile) \in x.garbage}

Delete(t) ==
    LET x == thread[t] IN
    /\ x.pc = "remove"
    /\ \E w \in Removable(x) :
        /\ Put(w)
        /\ thread' = [thread EXCEPT ![t] = [x EXCEPT !.garbage = @ \ {w}]]
        /\ Overlap(t)
        /\ UNCHANGED <<project, results, fresh, used, missed>>

\* Mutant: the removal is undone, too.
DeleteFailsUndone(t) ==
    /\ thread[t].pc = "remove" /\ thread[t].garbage # {}
    /\ Go(t, "undo")
    /\ UNCHANGED <<project, results, files, history>>

\* A file that cannot be removed undoes the export, but not the removal.
DeleteFails(t) ==
    LET x == thread[t] IN
    /\ x.pc = "remove" /\ x.garbage # {}
    /\ thread' = [thread EXCEPT ![t] =
          IF x.kind = "publish" THEN [x EXCEPT !.pc = "undo"] ELSE Idle]
    /\ UNCHANGED <<project, results, files, history>>

\* The kept file that is next to be restored: the last one.
NextRestores(x) == {w \in x.done : \A v \in x.done : KeptRank(x, v) <= KeptRank(x, w)}

\* _rollback: in reverse order.
Undo(t) ==
    LET x == thread[t] IN
    /\ x.pc = "undo"
    /\ \E w \in NextRestores(x) :
        /\ Put(w)
        /\ thread' = [thread EXCEPT ![t] = [x EXCEPT !.done = @ \ {w}]]
        /\ Overlap(t)
        /\ UNCHANGED <<project, results, fresh, used, missed>>

\* A file that cannot be restored is skipped.
UndoFails(t) ==
    LET x == thread[t] IN
    /\ x.pc = "undo"
    /\ \E w \in NextRestores(x) :
        /\ thread' = [thread EXCEPT ![t] = [x EXCEPT !.done = @ \ {w}]]
        /\ damaged' = (damaged \/ Old(w) # w)
        /\ UNCHANGED <<project, results, files, fresh, used, missed>>

Undone(t) ==
    /\ thread[t].pc = "undo" /\ thread[t].done = {}
    /\ missed' = missed \cup Misses(thread[t])
    /\ thread' = [thread EXCEPT ![t] = Idle]
    /\ UNCHANGED <<project, results, files, fresh, used, damaged>>

Deleted(t) ==
    /\ thread[t].pc = "remove" /\ thread[t].garbage = {}
    /\ Go(t, "succeed")
    /\ UNCHANGED <<project, results, files, history>>

-----------------------------------------------------------------------------
(* After a store operation that has succeeded.                             *)

\* Mutant: only the token counts.
HasToken(x) == x.latest

\* _still_current: the token, the post result and the source.
StillCurrent(x) ==
    /\ x.latest
    /\ x.op \in posted
    /\ toolpath[x.op] = x.new.src

\* The check after the last write.
Recheck(t) ==
    LET x == thread[t] IN
    /\ x.pc = "succeed" /\ x.kind = "publish"
    /\ thread' = [thread EXCEPT ![t] =
          IF StillCurrent(x) THEN [x EXCEPT !.pc = "register"]
          ELSE [x EXCEPT !.pc = "load", !.kind = "mark",
                         !.want = NoFile, !.was = NoFile, !.done = {}]]
    /\ UNCHANGED <<project, results, files, history>>

\* _publish_runtime.
Register(t) ==
    LET x == thread[t] IN
    /\ x.pc = "register"
    /\ results' = IF x.latest THEN [results EXCEPT ![x.op] = x.new] ELSE results
    /\ thread' = [thread EXCEPT ![t] = Idle]
    /\ UNCHANGED <<project, files, history>>

Finish(t) ==
    LET x == thread[t] IN
    /\ x.pc = "succeed" /\ x.kind # "publish"
    /\ results' = CASE x.kind = "reconcile" -> [o \in Ops |-> NoFile]
                    [] x.kind = "clear"     -> [results EXCEPT ![x.op] = NoFile]
                    [] OTHER                -> results
    /\ saved' = IF x.kind = "flush" THEN toolpath ELSE saved
    /\ thread' = [thread EXCEPT ![t] = Idle]
    /\ UNCHANGED <<toolpath, posted, files, history>>

\* The application ends, or the project is closed without a save, and is
\* opened again: the files are inspected, not compared with the toolpaths.
Restart ==
    /\ Request
    /\ toolpath' = saved
    /\ posted' = {}
    /\ results' = [o \in Ops |-> NoFile]
    /\ thread' = [t \in Thread |-> Idle]
    /\ damaged' = (damaged \/ \E t \in Thread :
                      thread[t] # Idle /\ thread[t].pc \in {"write", "remove", "undo"})
    /\ missed' = missed \cup {o \in Ops : saved[o] # toolpath[o]}
                   \cup {o \in Ops : \E t \in Thread :
                           /\ thread[t] # Idle
                           /\ thread[t].kind \in {"mark", "publish"} /\ thread[t].op = o}
    /\ UNCHANGED <<saved, files, fresh>>

-----------------------------------------------------------------------------

StoreStep(t) ==
    \/ MarkRegistry(t)
    \/ Load(t) \/ LoadFails(t)
    \/ Keep(t) \/ KeepFails(t)
    \/ Write(t) \/ PutFails(t) \/ Verify(t)
    \/ Delete(t) \/ DeleteFails(t) \/ Deleted(t)
    \/ Undo(t) \/ UndoFails(t) \/ Undone(t)
    \/ Recheck(t) \/ Register(t) \/ Finish(t)

NcNext ==
    \/ \E o \in Ops : Post(o) \/ Clear(o) \/ Calculate(o)
    \/ \E o \in Ops, n \in Names, p \in Policy : Export(o, n, p)
    \/ Edit \/ Save \/ Restart
    \/ \E n \in Names : Lose(n)
    \/ \E t \in Thread : StoreStep(t)

NcSpec == NcInit /\ [][NcNext]_ncVars

-----------------------------------------------------------------------------
(* Properties.                                                             *)

\* Every variable has its type, and no file name has two current entries
\* (NCArtifactManifest).
NcTypeOK ==
    /\ toolpath \in [Ops -> 0 .. MaxToolpaths] /\ saved \in [Ops -> 0 .. MaxToolpaths]
    /\ posted \subseteq Ops /\ missed \subseteq Ops
    /\ results \in [Ops -> Artifact \cup {NoFile}]
    /\ manifest \in [Artifact -> ArtifactStatus] /\ sidecar \in [Artifact -> ArtifactStatus]
    /\ \A a, b \in Artifact :
          manifest[a] = "current" /\ manifest[b] = "current" /\ a.name = b.name => a = b
    /\ output \in [Names -> Artifact \cup {NoFile}]
    /\ \A t \in Thread : thread[t] # Idle =>
          /\ thread[t].kind \in Kind
          /\ thread[t].pc \in {"registry", "load", "keep", "write", "remove", "undo",
                               "succeed", "register"}
    /\ fresh \in 0 .. MaxToolpaths /\ used \in 0 .. MaxUsed
    /\ damaged \in BOOLEAN

\* Between two store operations the manifest can be read, whatever failed
\* (a project whose manifest cannot be read cannot be saved any more), unless
\* the application ended in the middle of one, a rollback failed or two
\* threads were in the store at once.
ReadableUnlessDamaged == AllIdle /\ ~damaged => Readable

\* An output that is current was made from the toolpath that its operation
\* has now, unless the attempt to make it stale failed or the toolpath came
\* back when the project was reopened.
CurrentIsMadeFromToolpath ==
    AllIdle /\ ~damaged /\ Readable =>
        \A a \in Artifact :
            Inspected[a] = "current" /\ a.op \notin missed => a.src = toolpath[a.op]

\* An export that fails leaves no trace ("toan transaction rollback ve bytes
\* cu khi buoc sau loi", CAM_POST_EXPORT_DATA_SERVER_7D2_2.md:35): once it is
\* rolled back, manifest, sidecars and output are what they were.
FailedExportIsUndone ==
    \A t \in Thread :
        LET x == thread[t] IN
        x # Idle /\ x.kind = "publish" /\ x.pc = "undo" /\ x.done = {} /\ ~damaged =>
            /\ manifest = x.was.manifest /\ sidecar = x.was.sidecar
            /\ output[x.new.name] \in {x.was.output[x.new.name], NoFile}

-----------------------------------------------------------------------------
(* What the store promises.                                                *)

\* A store operation that may still be undone.
Pending(t) == Busy(t) /\ (thread[t].kind = "publish" \/ thread[t].pc # "remove")

\* Until an operation can no longer be undone, the manifest counts as it was,
\* and so does the output of an export.
Ledger ==
    IF damaged THEN [a \in Artifact |-> "none"]
    ELSE IF \E t \in Thread : Pending(t)
         THEN thread[CHOOSE t \in Thread : Pending(t)].was.manifest
         ELSE manifest

Exporting == Busy("ui") /\ thread["ui"].kind = "publish"

Shelf ==
    IF damaged THEN [n \in Names |-> NoFile]
    ELSE IF Exporting
         THEN LET x == thread["ui"] IN [output EXCEPT ![x.new.name] = x.was.output[x.new.name]]
         ELSE output

Atomic == INSTANCE ArtifactLedger WITH ledger <- Ledger, shelf <- Shelf, void <- damaged

\* Many files replaced one after the other, each of which may fail, look like
\* one ledger and one shelf that change in single steps (the "Atomically" of
\* NCArtifactStore.publish): an export takes place as a whole or not at all, an
\* invalidation or inspection changes the statuses it is about and no other, a
\* cleared entry does not come back, and only an export puts a file into nc/.
ImplementsLedger == Atomic!Spec
=============================================================================
