------------------------- MODULE BackgroundSimulation -------------------------
(***************************************************************************)
(* Material removal computed ahead of time: the worker thread of           *)
(* BackgroundSimulationCoordinator (simulation/background.py), and those   *)
(* who feed, pause and cancel it through ProjectService: calculations and  *)
(* other calls on pool threads, the UI thread that commits a Parallel or   *)
(* Z-Level result, and the opening and closing of projects.                *)
(*                                                                         *)
(* Every critical section of the coordinator's Condition is one step, and  *)
(* so is every read or write of a field of ProjectService, which has no    *)
(* lock.  An artifact is the number of the calculation that produced it, a *)
(* run its project, operation and artifact; a checkpoint counts published  *)
(* chunks.  The queue is ordered by the turns of its jobs.  The model      *)
(* starts when precompute has been enabled, which creates the coordinator, *)
(* and before a project is open.  Projects are writable: nothing is        *)
(* scheduled for a read-only one.  shutdown() is left out.                 *)
(***************************************************************************)
EXTENDS Naturals, FiniteSets

CONSTANTS
    Root,             \* project directories
    Operation,        \* CAM operations; copies of a project share their ids
    Thread,           \* calls at a time of calculations, posts, exports, ...
    Lead,             \* whoever opens and closes projects, one at a time
    Refused,          \* operations simulate_chunk refuses: drills, taps, ...
    Chunks,           \* chunks of a complete run
    MaxRuns,          \* maximum_runs: inactive runs a cleanup may keep
    MaxCalculations,  \* bound: accepted calculations
    MaxGeneration,    \* bound: activations and closings of one process
    MaxForeground,    \* bound: _foreground
    None

ASSUME RefusedAssumption == Refused \subseteq Operation
ASSUME FiniteAssumption == IsFiniteSet(Operation) /\ IsFiniteSet(Thread)
ASSUME BoundsAssumption ==
    /\ Chunks \in Nat \ {0}
    /\ MaxRuns \in Nat \ {0}
    /\ MaxCalculations \in Nat
    /\ MaxGeneration \in Nat
    /\ MaxForeground \in Nat
ASSUME LeadAssumption == Lead \notin Thread
ASSUME NoneAssumption == None \notin Root \cup Operation \cup Thread \cup {Lead}

VARIABLES
    \* ProjectService and its CAM application
    project,       \* _current_project, by its directory, or None
    loaded,        \* the project whose snapshot the CAM application has, or None
    generation,    \* of the CAM application: one per load() or clear()
    enabled,       \* _background_simulation_enabled
    artifact,      \* per project and operation: its latest artifact, or 0
    calculations,  \* artifacts so far
    claims,        \* _background_calculation_claims
    \* those who call it
    at,            \* where each caller is
    call,          \* what it has with it
    ui,            \* who has the UI thread, or None
    lead, to,      \* what Lead is doing, and the project it opens
    ends,          \* the claims that its loop has still to end
    \* the coordinator and its worker
    foreground,    \* _foreground
    jobs,          \* _jobs, the OrderedDict of queued jobs
    turns,         \* jobs so far
    cancelled,     \* _cancelled_projects
    status,        \* _statuses
    idle,          \* _idle
    pc, job,       \* where the worker is, and with which job
    captured,      \* the artifact of the inputs the job has loaded, or 0
    next,          \* chunks of the job's run so far
    pressure,      \* the governor's probe reads 85 percent or more somewhere
    manifest,      \* on disk: chunks of the last checkpoint of every run
    \* history
    owed,          \* projects and operations scheduled whose inputs have not
                   \* been asked for since, nor has the project been cancelled
    stranded,      \* generations of projects that were replaced without a
                   \* cancellation, or scheduled for as they were replaced
    raced          \* two callers have passed one test of a claim at once

serviceVars == <<project, loaded, generation, enabled>>
camVars     == <<artifact, calculations>>
claimVars   == <<claims, foreground, raced>>
callVars    == <<at, call, ui>>
leadVars    == <<lead, to, ends>>
queueVars   == <<jobs, turns, cancelled, status, idle, owed, stranded>>
workerVars  == <<pc, job, captured, next, manifest>>
vars == <<serviceVars, camVars, claimVars, callVars, leadVars, queueVars,
          workerVars, pressure>>

Caller     == Thread \cup {Lead}
Generation == 0..MaxGeneration
Artifact   == 1..MaxCalculations
Job        == [root : Root, gen : Generation, op : Operation, turn : Nat]
Run        == Root \X Operation \X Artifact
\* What _set_status records; queued, running, paused and partial are one.
State      == {"none", "ongoing", "complete", "cancelled", "failed"}

Place == {"idle",                                                \* no call
          "enter", "leased", "bare",                             \* a "with" block
          "claim", "check", "begin", "record", "run",            \* a calculation
          "test", "discard", "release",                          \* its claim ends
          "policy", "session", "generation", "schedule",         \* scheduling
          "ends", "switch", "load"}                              \* Lead only

\* The operation, the project and generation read last, and the outcome.
Call == [op : Operation \cup {None}, root : Root \cup {None}, gen : Generation,
         result : {"open", "accepted", "refused"}]

NoCall == [op |-> None, root |-> None, gen |-> 0, result |-> "open"]

TypeOK ==
    /\ {project, loaded, to} \subseteq Root \cup {None}
    /\ generation \in Generation
    /\ {enabled, raced, idle, pressure} \subseteq BOOLEAN
    /\ artifact \in [Root \X Operation -> Artifact \cup {0}]
    /\ calculations \in 0..MaxCalculations
    /\ {claims, ends} \subseteq SUBSET Operation
    /\ at \in [Caller -> Place]
    /\ call \in [Caller -> Call]
    /\ ui \in Caller \cup {None}
    /\ lead \in {"none", "close", "open", "disable"}
    /\ foreground \in 0..MaxForeground
    /\ jobs \subseteq Job
    /\ turns \in Nat
    /\ cancelled \subseteq Root \X Generation
    /\ status \in [Operation -> State]
    /\ pc \in {"wait", "gate", "capture", "hold", "cut", "publish", "finish"}
    /\ job \in Job \cup {None}
    /\ captured \in Artifact \cup {0}
    /\ next \in 0..Chunks
    /\ manifest \in [Run -> 0..Chunks]
    /\ owed \subseteq Root \X Operation
    /\ stranded \subseteq Root \X Generation

Init ==
    /\ project = None /\ loaded = None /\ generation = 0 /\ enabled = TRUE
    /\ artifact = [k \in Root \X Operation |-> 0]
    /\ calculations = 0
    /\ claims = {} /\ foreground = 0 /\ raced = FALSE
    /\ at = [a \in Caller |-> "idle"]
    /\ call = [a \in Caller |-> NoCall]
    /\ ui = None
    /\ lead = "none" /\ to = None /\ ends = {}
    /\ jobs = {} /\ turns = 0 /\ cancelled = {} /\ idle = TRUE
    /\ status = [o \in Operation |-> "none"]
    /\ pc = "wait" /\ job = None /\ captured = 0 /\ next = 0
    /\ pressure = FALSE
    /\ manifest = [r \in Run |-> 0]
    /\ owed = {} /\ stranded = {}

----------------------------------------------------------------------------
(* The coordinator's own operations, each under its Condition.             *)

BeginForeground ==
    /\ foreground < MaxForeground
    /\ foreground' = foreground + 1

EndForeground == foreground' = IF foreground > 0 THEN foreground - 1 ELSE 0

Key(j)  == <<j.root, j.op>>
Pair(j) == <<j.root, j.gen>>

\* Mutant: a job of the same operation that is running is thought to be enough.
EnqueueUnlessRunning(j) ==
    /\ cancelled' = cancelled \ {Pair(j)}
    /\ jobs' = IF job # None /\ Key(job) = Key(j) THEN jobs ELSE jobs \cup {j}
    /\ status' = [status EXCEPT ![j.op] = "ongoing"]
    /\ idle' = FALSE
    /\ owed' = owed \cup {Key(j)}

\* schedule(): the latest job of an operation replaces the one queued before.
Enqueue(j) ==
    /\ cancelled' = cancelled \ {Pair(j)}
    /\ jobs' = {q \in jobs : Key(q) # Key(j)} \cup {j}
    /\ status' = [status EXCEPT ![j.op] = "ongoing"]
    /\ idle' = FALSE
    /\ owed' = owed \cup {Key(j)}

\* Mutant: the running job is not told.
CancelQueuedOnly(r) ==
    /\ cancelled' = cancelled
    /\ jobs' = {j \in jobs : j.root # r}
    /\ status' = [o \in Operation |->
                    IF \E j \in jobs : j.root = r /\ j.op = o
                    THEN "cancelled" ELSE status[o]]
    /\ owed' = {k \in owed : k[1] # r}
    /\ UNCHANGED <<turns, idle, stranded>>

\* cancel_project(): queued jobs of the directory go, whatever generation
\* they are of; the running job is told by its own root and generation only.
CancelQueued(r) ==
    /\ cancelled' = cancelled \cup {<<r, generation>>}
    /\ jobs' = {j \in jobs : j.root # r}
    /\ status' = [o \in Operation |->
                    IF \E j \in jobs : j.root = r /\ j.op = o
                    THEN "cancelled" ELSE status[o]]
    /\ owed' = {k \in owed : k[1] # r}
    /\ UNCHANGED <<turns, idle, stranded>>

----------------------------------------------------------------------------
(* Calls.  A 2D calculation runs on a pool thread and has the foreground   *)
(* while it computes, as have other calls such as a post or an export.     *)

GoTo(a, place) == at' = [at EXCEPT ![a] = place]

Stay(a, place) == GoTo(a, place) /\ UNCHANGED <<call, ui>>

\* The call is over, and so is its use of the UI thread.
Leave(a) ==
    /\ GoTo(a, "idle")
    /\ call' = [call EXCEPT ![a] = NoCall]
    /\ ui' = IF ui = a THEN None ELSE ui

\* _background_foreground(): no lease when precompute is off.
BeginCall(t, o) ==
    /\ at[t] = "idle"
    /\ o # None => project # None
    /\ GoTo(t, IF enabled THEN "enter" ELSE "bare")
    /\ call' = [call EXCEPT ![t].op = o]
    /\ UNCHANGED <<serviceVars, camVars, claimVars, ui, leadVars, queueVars,
                   workerVars, pressure>>

Enter(t) ==
    /\ at[t] = "enter"
    /\ BeginForeground
    /\ Stay(t, "leased")
    /\ UNCHANGED <<serviceVars, camVars, claims, raced, leadVars, queueVars,
                   workerVars, pressure>>

\* The CAM application replaces the artifact of the project it has loaded.
Calculated(o) ==
    /\ loaded # None /\ calculations < MaxCalculations
    /\ calculations' = calculations + 1
    /\ artifact' = [artifact EXCEPT ![<<loaded, o>>] = calculations + 1]

\* compute_facing() and the like: the CAM application has the new artifact
\* before the call gives its lease back and schedules.
Register(t) ==
    /\ at[t] \in {"leased", "bare"}
    /\ call[t].op # None /\ call[t].result = "open"
    /\ Calculated(call[t].op)
    /\ call' = [call EXCEPT ![t].result = "accepted"]
    /\ UNCHANGED <<serviceVars, claimVars, at, ui, leadVars, queueVars,
                   workerVars, pressure>>

\* With a result, or without: it failed, was cancelled, or is of another kind.
EndCall(t) ==
    /\ at[t] \in {"leased", "bare"}
    /\ IF at[t] = "leased" THEN EndForeground ELSE UNCHANGED foreground
    /\ IF call[t].result = "accepted" THEN Stay(t, "policy") ELSE Leave(t)
    /\ UNCHANGED <<serviceVars, camVars, claims, raced, leadVars, queueVars,
                   workerVars, pressure>>

----------------------------------------------------------------------------
(* _schedule_background_simulation(), by whoever has a result: nothing     *)
(* keeps project, generation and policy in place between its steps.        *)

ReadPolicy(t) ==
    /\ at[t] = "policy"
    /\ IF enabled THEN Stay(t, "session") ELSE Leave(t)
    /\ UNCHANGED <<serviceVars, camVars, claimVars, leadVars, queueVars,
                   workerVars, pressure>>

\* _require_current() raises when the project has been closed.
ReadSession(t) ==
    /\ at[t] = "session"
    /\ IF project = None THEN Leave(t)
       ELSE /\ GoTo(t, "generation")
            /\ call' = [call EXCEPT ![t].root = project]
            /\ UNCHANGED ui
    /\ UNCHANGED <<serviceVars, camVars, claimVars, leadVars, queueVars,
                   workerVars, pressure>>

ReadGeneration(t) ==
    /\ at[t] = "generation"
    /\ GoTo(t, "schedule")
    /\ call' = [call EXCEPT ![t].gen = generation]
    /\ UNCHANGED <<serviceVars, camVars, claimVars, ui, leadVars, queueVars,
                   workerVars, pressure>>

\* Lead has cancelled the old project, or had none to cancel, and has not yet
\* finished with the new one.
Leaving == lead \in {"close", "open"} /\ at[Lead] \in {"switch", "load"}

\* A job for another project or generation than the current one, or for one
\* that is being replaced, comes after the cancellation that was meant for it.
Schedule(t) ==
    /\ at[t] = "schedule"
    /\ LET j == [root |-> call[t].root, gen |-> call[t].gen, op |-> call[t].op,
                 turn |-> turns]
       IN  /\ Enqueue(j)
           /\ stranded' = IF Leaving \/ Pair(j) # <<project, generation>>
                          THEN stranded \cup {Pair(j)} ELSE stranded
    /\ turns' = turns + 1
    /\ Leave(t)
    /\ UNCHANGED <<serviceVars, camVars, claimVars, leadVars, workerVars, pressure>>

----------------------------------------------------------------------------
(* A Parallel or Z-Level calculation.  It runs on a pool thread and pauses *)
(* the worker by a claim, which it takes there; its result is committed on *)
(* the UI thread.                                                          *)

\* begin_parallel_calculation() finds the generation of its start current; a
\* calculation that does not ends without a trace.
StartTask(t, o) ==
    /\ at[t] = "idle" /\ project # None
    /\ GoTo(t, "claim")
    /\ call' = [call EXCEPT ![t].op = o, ![t].gen = generation]
    /\ UNCHANGED <<serviceVars, camVars, claimVars, ui, leadVars, queueVars,
                   workerVars, pressure>>

\* The CAM application lets the calculation go on, or refuses it as stale.
Answered(t) ==
    /\ UNCHANGED ui
    /\ \/ GoTo(t, "run") /\ UNCHANGED call
       \/ GoTo(t, "test") /\ call' = [call EXCEPT ![t].result = "refused"]

Claim(t) ==
    /\ at[t] = "claim"
    /\ IF enabled THEN Stay(t, "check") ELSE Answered(t)
    /\ UNCHANGED <<serviceVars, camVars, claimVars, leadVars, queueVars,
                   workerVars, pressure>>

\* Mutant: an operation that still has a claim gets another one.
CheckNothing(t) ==
    /\ at[t] = "check"
    /\ Stay(t, "begin")
    /\ UNCHANGED <<serviceVars, camVars, claimVars, leadVars, queueVars,
                   workerVars, pressure>>

\* Another caller has found the same of this operation and not yet acted on it.
Alongside(a, o, places) ==
    \E b \in Caller \ {a} : at[b] \in places /\ call[b].op = o

Check(t) ==
    /\ at[t] = "check"
    /\ IF call[t].op \in claims
       THEN Answered(t) /\ UNCHANGED raced
       ELSE /\ Stay(t, "begin")
            /\ raced' = (raced \/ Alongside(t, call[t].op, {"begin", "record"}))
    /\ UNCHANGED <<serviceVars, camVars, claims, foreground, leadVars, queueVars,
                   workerVars, pressure>>

Begin(t) ==
    /\ at[t] = "begin"
    /\ BeginForeground
    /\ Stay(t, "record")
    /\ UNCHANGED <<serviceVars, camVars, claims, raced, leadVars, queueVars,
                   workerVars, pressure>>

Record(t) ==
    /\ at[t] = "record"
    /\ claims' = claims \cup {call[t].op}
    /\ Answered(t)
    /\ UNCHANGED <<serviceVars, camVars, foreground, raced, leadVars, queueVars,
                   workerVars, pressure>>

\* commit_parallel_calculation(), from the completed signal: stale, refused
\* by the CAM application, or accepted.
CommitTask(t) ==
    /\ at[t] = "run" /\ ui = None /\ project # None
    /\ GoTo(t, "test")
    /\ ui' = t
    /\ \/ UNCHANGED <<call, camVars>>
       \/ /\ generation = call[t].gen /\ call[t].result = "open"
          /\ Calculated(call[t].op)
          /\ call' = [call EXCEPT ![t].result = "accepted"]
    /\ UNCHANGED <<serviceVars, claimVars, leadVars, queueVars, workerVars, pressure>>

\* The calculation raised something unforeseen, it was abandoned, or no
\* project is open any more: its claim, if it has one, stays.
EndTask(t) ==
    /\ at[t] = "run"
    /\ Leave(t)
    /\ UNCHANGED <<serviceVars, camVars, claimVars, leadVars, queueVars,
                   workerVars, pressure>>

\* _end_background_calculation(), by a calculation or by Lead's loop.
Return(a) ==
    IF a = Lead THEN Stay(a, "ends")
    ELSE IF call[a].result = "accepted" THEN Stay(a, "policy")
    ELSE IF ui = a THEN Leave(a) ELSE Stay(a, "run")

Test(t) ==
    /\ at[t] = "test"
    /\ IF call[t].op \in claims
       THEN /\ Stay(t, "discard")
            /\ raced' = (raced \/ Alongside(t, call[t].op, {"discard"}))
       ELSE Return(t) /\ UNCHANGED raced
    /\ UNCHANGED <<serviceVars, camVars, claims, foreground, leadVars, queueVars,
                   workerVars, pressure>>

Discard(a) ==
    /\ at[a] = "discard"
    /\ claims' = claims \ {call[a].op}
    /\ Stay(a, "release")
    /\ UNCHANGED <<serviceVars, camVars, foreground, raced, leadVars, queueVars,
                   workerVars, pressure>>

Release(a) ==
    /\ at[a] = "release"
    /\ EndForeground
    /\ Return(a)
    /\ UNCHANGED <<serviceVars, camVars, claims, raced, leadVars, queueVars,
                   workerVars, pressure>>

ThreadStep(t) ==
    \/ \E o \in Operation \cup {None} : BeginCall(t, o)
    \/ Enter(t) \/ Register(t) \/ EndCall(t)
    \/ ReadPolicy(t) \/ ReadSession(t) \/ ReadGeneration(t) \/ Schedule(t)
    \/ \E o \in Operation : StartTask(t, o)
    \/ Claim(t) \/ Check(t) \/ Begin(t) \/ Record(t)
    \/ CommitTask(t) \/ EndTask(t)
    \/ Test(t) \/ Discard(t) \/ Release(t)

----------------------------------------------------------------------------
(* Projects come and go.  Opening, creating and saving under a new name    *)
(* activate a project from a worker of their own; closing and the policy   *)
(* belong to the UI thread.                                                *)

\* _cancel_background_project() is due first: it ends the claims there are.
LeaveFirst == GoTo(Lead, "ends") /\ ends' = claims

\* _complete_activation(): only a change of directory cancels the old project;
\* reopening the same one just moves on to the next generation.
Open(r) ==
    /\ lead = "none" /\ generation < MaxGeneration
    /\ lead' = "open" /\ to' = r
    /\ IF project \notin {None, r} THEN LeaveFirst
       ELSE GoTo(Lead, "switch") /\ UNCHANGED ends
    /\ stranded' = IF project = r THEN stranded \cup {<<r, generation>>} ELSE stranded
    /\ UNCHANGED <<serviceVars, camVars, claimVars, call, ui, jobs, turns, cancelled,
                   status, idle, owed, workerVars, pressure>>

CloseProject ==
    /\ lead = "none" /\ generation < MaxGeneration
    /\ project # None /\ ui = None
    /\ lead' = "close" /\ ui' = Lead
    /\ LeaveFirst
    /\ UNCHANGED <<serviceVars, camVars, claimVars, call, to, queueVars, workerVars,
                   pressure>>

\* configure_background_simulation_precompute()
Disable ==
    /\ lead = "none" /\ enabled /\ ui = None
    /\ lead' = "disable" /\ ui' = Lead
    /\ IF project # None THEN LeaveFirst
       ELSE GoTo(Lead, "switch") /\ UNCHANGED ends
    /\ UNCHANGED <<serviceVars, camVars, claimVars, call, to, queueVars, workerVars,
                   pressure>>

Enable ==
    /\ ~enabled /\ ui = None
    /\ enabled' = TRUE
    /\ UNCHANGED <<project, loaded, generation, camVars, claimVars, callVars, leadVars,
                   queueVars, workerVars, pressure>>

EndNext(o) ==
    /\ at[Lead] = "ends" /\ o \in ends
    /\ ends' = ends \ {o}
    /\ IF o \in claims
       THEN /\ GoTo(Lead, "discard")
            /\ call' = [call EXCEPT ![Lead].op = o]
            /\ raced' = (raced \/ Alongside(Lead, o, {"discard"}))
       ELSE UNCHANGED <<at, call, raced>>
    /\ UNCHANGED <<serviceVars, camVars, claims, foreground, ui, lead, to, queueVars,
                   workerVars, pressure>>

Cancel ==
    /\ at[Lead] = "ends" /\ ends = {}
    /\ CancelQueued(project)
    /\ Stay(Lead, "switch")
    /\ UNCHANGED <<serviceVars, camVars, claimVars, leadVars, workerVars, pressure>>

\* The lock of the old project cannot be released, and it stays.
GiveUp ==
    /\ at[Lead] = "switch" /\ lead # "disable" /\ project \notin {None, to}
    /\ lead' = "none" /\ to' = None
    /\ Leave(Lead)
    /\ UNCHANGED <<serviceVars, camVars, claimVars, ends, queueVars, workerVars,
                   pressure>>

Switch ==
    /\ at[Lead] = "switch"
    /\ IF lead = "disable"
       THEN /\ enabled' = FALSE
            /\ lead' = "none"
            /\ Leave(Lead)
            /\ UNCHANGED project
       ELSE /\ project' = to
            /\ Stay(Lead, "load")
            /\ UNCHANGED <<enabled, lead>>
    /\ UNCHANGED <<loaded, generation, camVars, claimVars, to, ends, queueVars,
                   workerVars, pressure>>

\* load() or clear()
Load ==
    /\ at[Lead] = "load"
    /\ loaded' = to
    /\ generation' = generation + 1
    /\ lead' = "none" /\ to' = None
    /\ Leave(Lead)
    /\ UNCHANGED <<project, enabled, camVars, claimVars, ends, queueVars, workerVars,
                   pressure>>

Lifecycle ==
    \/ \E r \in Root : Open(r)
    \/ CloseProject \/ Disable \/ Enable
    \/ \E o \in Operation : EndNext(o)
    \/ Discard(Lead) \/ Release(Lead)
    \/ Cancel \/ GiveUp \/ Switch \/ Load

----------------------------------------------------------------------------
(* The worker thread.                                                      *)

Cancelled == Pair(job) \in cancelled

\* Mutant: the governor is asked about the pressure only.
SuspendedByPressure == pressure

Suspended == foreground > 0 \/ pressure

Current == <<job.root, job.op, captured>>

SetStatus(s) ==
    /\ status' = [status EXCEPT ![job.op] = s]
    /\ UNCHANGED <<jobs, turns, cancelled, idle, owed, stranded>>

Frame == UNCHANGED <<serviceVars, camVars, claimVars, callVars, leadVars, pressure>>

Rest ==
    /\ pc = "wait" /\ jobs = {} /\ ~idle
    /\ idle' = TRUE
    /\ UNCHANGED <<jobs, turns, cancelled, status, owed, stranded, workerVars>>
    /\ Frame

Take ==
    /\ pc = "wait"
    /\ \E first \in jobs :
        /\ \A j \in jobs : first.turn <= j.turn
        /\ job' = first
        /\ jobs' = jobs \ {first}
    /\ pc' = "gate"
    /\ UNCHANGED <<turns, cancelled, status, idle, owed, stranded, captured, next,
                   manifest>>
    /\ Frame

Stop ==
    /\ SetStatus("cancelled")
    /\ pc' = "finish"
    /\ UNCHANGED <<job, captured, next, manifest>>

\* _wait_for_resources(), before the inputs ("gate") and each chunk ("hold"),
\* and the look at the cancellations that follows it.
Admit ==
    /\ pc \in {"gate", "hold"}
    /\ IF Cancelled THEN Stop
       ELSE /\ ~Suspended
            /\ \/ pc = "gate" /\ UNCHANGED queueVars
               \/ SetStatus("ongoing")
            /\ pc' = IF pc = "gate" THEN "capture" ELSE "cut"
            /\ UNCHANGED <<job, captured, next, manifest>>
    /\ Frame

\* Mutant: off by one.
CompleteBeyond(n) == n > Chunks

Complete(n) == n = Chunks

\* capture_simulation_inputs() reads the project that is open and the snapshot
\* that is loaded now.
Inputs == IF None \in {project, loaded} THEN 0 ELSE artifact[<<loaded, job.op>>]

\* Whatever it finds, the inputs of the job's operation have been asked for.
SetStatusOfCapture(s) ==
    /\ status' = [status EXCEPT ![job.op] = s]
    /\ owed' = owed \ {Key(job)}
    /\ UNCHANGED <<jobs, turns, cancelled, idle, stranded>>

\* The inputs, and the checkpoint an earlier job has left for them.
Capture ==
    /\ pc = "capture" /\ Inputs # 0
    /\ captured' = Inputs
    /\ LET n == manifest[<<job.root, job.op, Inputs>>]
       IN  /\ next' = n
           /\ IF Complete(n)
              THEN pc' = "finish" /\ SetStatusOfCapture("complete")
              ELSE pc' = "hold" /\ SetStatusOfCapture(status[job.op])
    /\ UNCHANGED <<job, manifest>>
    /\ Frame

\* No project, no result, an operation edited or deleted since, a tool or a file
\* that is missing, or a checkpoint that cannot be read.
CaptureFails ==
    /\ pc = "capture"
    /\ SetStatusOfCapture("failed")
    /\ pc' = "finish"
    /\ UNCHANGED <<job, captured, next, manifest>>
    /\ Frame

Cut ==
    /\ pc = "cut" /\ job.op \notin Refused
    /\ pc' = "publish"
    /\ UNCHANGED <<queueVars, job, captured, next, manifest>>
    /\ Frame

\* MaterialRemovalError, of an interruption and of a refusal alike.
ChunkRaises ==
    /\ pc = "cut"
    /\ job.op \in Refused \/ Suspended \/ Cancelled
    /\ IF Cancelled THEN Stop
       ELSE pc' = "hold" /\ UNCHANGED <<queueVars, job, captured, next, manifest>>
    /\ Frame

\* The runs a cleanup finds once the checkpoint of this one is in place.
RunsOf(r) == {x \in Run : x[1] = r /\ (manifest[x] > 0 \/ x = Current)}

Inactive == RunsOf(job.root) \ {Current}

\* cleanup(): age and bytes may remove any run but the active one, the count
\* must.
CleanupMayRemove(gone) ==
    /\ gone \subseteq Inactive
    /\ Cardinality(Inactive \ gone) <= MaxRuns

Publish ==
    /\ pc = "publish"
    /\ next' = next + 1
    /\ \E gone \in SUBSET RunsOf(job.root) :
        /\ CleanupMayRemove(gone)
        /\ manifest' = [x \in Run |-> IF x \in gone THEN 0
                                      ELSE IF x = Current THEN next'
                                      ELSE manifest[x]]
    /\ IF Complete(next')
       THEN pc' = "finish" /\ SetStatus("complete")
       ELSE pc' = "hold" /\ SetStatus("ongoing")
    /\ UNCHANGED <<job, captured>>
    /\ Frame

\* Mutant: a checkpoint that cannot be written is tried again.
PublishRetries ==
    /\ pc = "publish"
    /\ pc' = "hold"
    /\ UNCHANGED <<queueVars, job, captured, next, manifest>>
    /\ Frame

\* An OSError, before the checkpoint is in place or during the cleanup.
PublishFails ==
    /\ pc = "publish"
    /\ \E n \in {next, next + 1} : manifest' = [manifest EXCEPT ![Current] = n]
    /\ SetStatus("failed")
    /\ pc' = "finish"
    /\ UNCHANGED <<job, captured, next>>
    /\ Frame

Finish ==
    /\ pc = "finish"
    /\ pc' = "wait" /\ job' = None /\ captured' = 0 /\ next' = 0
    /\ idle' = IF jobs = {} THEN TRUE ELSE idle
    /\ UNCHANGED <<jobs, turns, cancelled, status, owed, stranded, manifest>>
    /\ Frame

Worker ==
    \/ Rest \/ Take \/ Admit \/ Capture \/ CaptureFails
    \/ Cut \/ ChunkRaises \/ Publish \/ PublishFails \/ Finish

----------------------------------------------------------------------------
Probe ==
    /\ pressure' = ~pressure
    /\ UNCHANGED <<serviceVars, camVars, claimVars, callVars, leadVars, queueVars,
                   workerVars>>

Next == (\E t \in Thread : ThreadStep(t)) \/ Lifecycle \/ Worker \/ Probe

\* The worker is a thread of its own and polls: it is scheduled for ever.
\* Nobody else has to do anything.
Fairness == WF_vars(Worker)

Spec == Init /\ [][Next]_vars /\ Fairness
----------------------------------------------------------------------------
(* Properties.                                                             *)

\* What _foreground should count: the claims ProjectService remembers, the
\* calls inside a lease, and whoever has begun, but not recorded, or discarded,
\* but not released, a claim.
Inside == {a \in Caller : at[a] \in {"leased", "record", "release"}}

Holds == ({"claim"} \X claims) \cup ({"call"} \X Inside)

\* However calculations end, projects change and precompute is switched off and
\* on meanwhile, _foreground counts what holds it: a surplus would pause the
\* worker for ever, a deficit let it run beside a calculation.  The exception
\* is two callers that find at once that an operation has no claim and begin
\* one, or that it has one and end it: nothing locks the claims.
ForegroundBalanced == ~raced => foreground = Cardinality(Holds)

\* Whoever waits on _idle (wait_idle) finds nothing queued and nothing running,
\* and no operation shown as queued, running or paused.  A result accepted
\* while an older job of its operation is queued or running is not lost: the
\* coordinator is never idle before the inputs of the operation have been asked
\* for anew, or its project has been cancelled.
IdleMeansPrepared ==
    idle =>
        /\ jobs = {} /\ job = None
        /\ \A o \in Operation : status[o] # "ongoing"
        /\ owed = {}

\* Once its project has been closed or left (cancel_project), a job starts no
\* further chunk, whatever has been opened or scheduled since.  The exceptions
\* are jobs of a generation that reopening the same directory replaced, which
\* nothing ever cancels, and jobs of one that a calculation scheduled for when
\* it was already being left: schedule() takes its cancellation back.
CancelledJobStops ==
    [][ pc = "hold" /\ pc' = "cut" =>
            \/ Pair(job) = <<project, generation>>
            \/ Pair(job) \in stranded ]_vars

\* While somebody holds the foreground for good, the worker comes to rest: it
\* leaves the chunk in progress and starts no other.
ForegroundYields ==
    <>[](foreground > 0) => <>[](pc \in {"wait", "gate", "hold"})

Undisturbed == foreground = 0 /\ ~pressure

\* When calls, calculations and resource pressure leave it alone the worker
\* finishes all there is, unless it holds an operation simulate_chunk refuses.
QueueDrainsUnlessRefused ==
    <>[]Undisturbed =>
        []<>idle \/ <>[](job # None /\ job.op \in Refused)
=============================================================================
