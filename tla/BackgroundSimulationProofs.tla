---------------------- MODULE BackgroundSimulationProofs ----------------------
(***************************************************************************)
(* Proofs about BackgroundSimulation for every finite set of operations    *)
(* and of threads, any projects, and any number of chunks, calculations    *)
(* and activations.                                                        *)
(***************************************************************************)
EXTENDS BackgroundSimulation, FiniteSetTheorems, TLAPS

----------------------------------------------------------------------------
(* The inductive invariant.                                                *)

\* Where a caller has an operation, and where it has a project as well.
WithOperation == {"claim", "check", "begin", "record", "run", "test", "discard", "release",
                  "policy", "session", "generation", "schedule"}
WithProject == {"generation", "schedule"}

LeadPlace == {"idle", "ends", "discard", "release", "switch", "load"}

\* A caller at place p has with it the c that its next steps need.
Fits(a, p, c) ==
    /\ IF a = Lead THEN p \in LeadPlace ELSE p \notin {"ends", "switch", "load"}
    /\ p \in WithOperation \/ c.result = "accepted" => c.op \in Operation
    /\ p \in WithProject => c.root \in Root
    /\ p = "idle" => c = NoCall

CallsFit == \A a \in Caller : Fits(a, at[a], call[a])

\* Lead leaves a project that is there, and has a generation left for the next.
LeadFits ==
    /\ at[Lead] # "idle" => lead # "none"
    /\ at[Lead] = "load" => lead # "disable"
    /\ at[Lead] \in {"ends", "discard", "release"} => project \in Root
    /\ lead \in {"open", "close"} => generation < MaxGeneration

\* Until two callers have passed one test at once, what each has found of its
\* operation is still so when it acts on it, and nobody else is about to.
OneByOne ==
    ~raced => \A a \in Caller :
        /\ at[a] \in {"begin", "record"} =>
             call[a].op \notin claims /\ ~Alongside(a, call[a].op, {"begin", "record"})
        /\ at[a] = "discard" =>
             call[a].op \in claims /\ ~Alongside(a, call[a].op, {"discard"})

\* Where the worker is, and what it has with it.
WorkerFits ==
    /\ pc = "wait" => job = None
    /\ pc # "wait" => job \in Job
    /\ pc \in {"hold", "cut", "publish"} => captured # 0 /\ next < Chunks

\* A job is for the project that is open and stays so, or it was cancelled, or
\* it belongs to a generation that nothing cancels any more.
InForce(pair) ==
    \/ pair \in cancelled \cup stranded
    \/ pair = <<project, generation>> /\ ~Leaving

QueueIsLive == \A j \in jobs : Pair(j) \notin cancelled /\ InForce(Pair(j))

RunningIsLive == pc # "wait" => InForce(Pair(job))

Queued(k) == \E j \in jobs : Key(j) = k

\* The worker has a job for k, will not skip it, and has yet to ask for inputs.
BeingDone(k) ==
    /\ pc \in {"gate", "capture"}
    /\ Key(job) = k /\ ~Cancelled

OwedIsDue == \A k \in owed : Queued(k) \/ BeingDone(k)

\* An operation is shown as queued or running only if it is.
ShownIsThere ==
    \A o \in Operation :
        status[o] = "ongoing" =>
            \/ \E j \in jobs : j.op = o
            \/ pc \notin {"wait", "finish"} /\ job.op = o

IdleIsEmpty == idle => jobs = {} /\ pc = "wait"

Inv ==
    /\ TypeOK /\ CallsFit /\ LeadFits /\ OneByOne /\ ForegroundBalanced
    /\ WorkerFits /\ QueueIsLive /\ RunningIsLive /\ OwedIsDue /\ ShownIsThere
    /\ IdleIsEmpty

----------------------------------------------------------------------------
(* Types.                                                                  *)

ServiceTyped ==
    /\ {project, loaded} \subseteq Root \cup {None}
    /\ generation \in Generation
    /\ enabled \in BOOLEAN
    /\ artifact \in [Root \X Operation -> Artifact \cup {0}]
    /\ calculations \in 0..MaxCalculations

ClaimTyped ==
    /\ claims \subseteq Operation
    /\ foreground \in 0..MaxForeground
    /\ raced \in BOOLEAN

CallTyped ==
    /\ at \in [Caller -> Place]
    /\ call \in [Caller -> Call]
    /\ ui \in Caller \cup {None}

LeadTyped ==
    /\ to \in Root \cup {None}
    /\ lead \in {"none", "close", "open", "disable"}
    /\ ends \subseteq Operation

QueueTyped ==
    /\ jobs \subseteq Job
    /\ turns \in Nat
    /\ cancelled \subseteq Root \X Generation
    /\ status \in [Operation -> State]
    /\ idle \in BOOLEAN
    /\ owed \subseteq Root \X Operation
    /\ stranded \subseteq Root \X Generation

WorkerTyped ==
    /\ pc \in {"wait", "gate", "capture", "hold", "cut", "publish", "finish"}
    /\ job \in Job \cup {None}
    /\ captured \in Artifact \cup {0}
    /\ next \in 0..Chunks
    /\ manifest \in [Run -> 0..Chunks]

\* The type invariant is the conjunction of the parts the lemmas use.
LEMMA TypeParts ==
    TypeOK <=> /\ ServiceTyped /\ ClaimTyped /\ CallTyped /\ LeadTyped
               /\ QueueTyped /\ WorkerTyped /\ pressure \in BOOLEAN
BY DEF TypeOK, ServiceTyped, ClaimTyped, CallTyped, LeadTyped, QueueTyped, WorkerTyped

\* A part keeps its type with its variables.
LEMMA SameTypes ==
    ASSUME TypeOK
    PROVE  /\ UNCHANGED <<serviceVars, camVars>> => ServiceTyped'
           /\ UNCHANGED claimVars => ClaimTyped'
           /\ UNCHANGED callVars => CallTyped'
           /\ UNCHANGED leadVars => LeadTyped'
           /\ UNCHANGED queueVars => QueueTyped'
           /\ UNCHANGED workerVars => WorkerTyped'
<1> USE TypeParts
<1>1. UNCHANGED <<serviceVars, camVars>> => ServiceTyped'
  BY DEF ServiceTyped, serviceVars, camVars
<1>2. UNCHANGED claimVars => ClaimTyped'
  BY DEF ClaimTyped, claimVars
<1>3. UNCHANGED callVars => CallTyped'
  BY DEF CallTyped, callVars
<1>4. UNCHANGED leadVars => LeadTyped'
  BY DEF LeadTyped, leadVars
<1>5. UNCHANGED queueVars => QueueTyped'
  BY DEF QueueTyped, queueVars
<1>6. UNCHANGED workerVars => WorkerTyped'
  BY DEF WorkerTyped, workerVars
<1> QED BY <1>1, <1>2, <1>3, <1>4, <1>5, <1>6

\* The counter of the foreground stays within its bound.
LEMMA ForegroundType ==
    ASSUME TypeOK, BeginForeground \/ EndForeground
    PROVE  foreground' \in 0..MaxForeground
BY BoundsAssumption DEF TypeOK, BeginForeground, EndForeground

\* What a calculation leaves in the CAM application has its type.
LEMMA CalculatedType ==
    ASSUME TypeOK, NEW o \in Operation, Calculated(o), UNCHANGED serviceVars
    PROVE  ServiceTyped'
<1>1. /\ loaded \in Root /\ calculations' \in 0..MaxCalculations /\ calculations + 1 \in Artifact
  BY BoundsAssumption DEF Calculated, TypeOK, Artifact
<1>2. artifact' \in [Root \X Operation -> Artifact \cup {0}]
  BY <1>1 DEF Calculated, TypeOK
<1> QED BY <1>1, <1>2 DEF TypeOK, ServiceTyped, serviceVars

----------------------------------------------------------------------------
(* Callers.                                                                *)

\* A caller that moves on with what it needs keeps the calls in order.
LEMMA MoveFits ==
    ASSUME TypeOK, CallsFit, NEW a \in Caller, NEW p \in Place, NEW c \in Call,
           at' = [at EXCEPT ![a] = p], call' = [call EXCEPT ![a] = c],
           ui' \in Caller \cup {None}, Fits(a, p, c)
    PROVE  CallTyped' /\ CallsFit'
<1>1. CallTyped'
  BY DEF TypeOK, CallTyped
<1>2. ASSUME NEW b \in Caller PROVE Fits(b, at'[b], call'[b])
  <2>1. CASE b = a
    <3>1. at'[b] = p /\ call'[b] = c
      BY <2>1 DEF TypeOK
    <3> QED BY <2>1, <3>1
  <2>2. CASE b # a
    <3>1. at'[b] = at[b] /\ call'[b] = call[b]
      BY <2>2 DEF TypeOK
    <3> QED BY <3>1 DEF CallsFit
  <2> QED BY <2>1, <2>2
<1>3. CallsFit'
  BY <1>2 DEF CallsFit, Fits
<1> QED BY <1>1, <1>3

\* The same when it takes along what it has already.
LEMMA StayFits ==
    ASSUME TypeOK, CallsFit, NEW a \in Caller, NEW p \in Place, GoTo(a, p),
           UNCHANGED call, ui' \in Caller \cup {None}, Fits(a, p, call[a])
    PROVE  CallTyped' /\ CallsFit'
<1>1. call[a] \in Call /\ call' = [call EXCEPT ![a] = call[a]]
  BY DEF TypeOK
<1> QED BY <1>1, MoveFits DEF GoTo

\* A call that is over has nothing with it.
LEMMA LeaveFits ==
    ASSUME TypeOK, CallsFit, NEW a \in Caller, Leave(a)
    PROVE  CallTyped' /\ CallsFit'
<1>1. NoCall \in Call /\ "idle" \in Place
  BY BoundsAssumption DEF NoCall, Call, Generation, Place
<1>2. Fits(a, "idle", NoCall)
  BY DEF Fits, NoCall, WithOperation, WithProject, LeadPlace
<1>3. ui' \in Caller \cup {None}
  BY DEF Leave, TypeOK
<1> QED BY <1>1, <1>2, <1>3, MoveFits DEF Leave, GoTo

\* After a claim has been ended the caller goes where it belongs.
LEMMA ReturnFits ==
    ASSUME TypeOK, CallsFit, NEW a \in Caller, at[a] \in {"test", "release"}, Return(a)
    PROVE  CallTyped' /\ CallsFit'
<1>1. call[a].op \in Operation /\ ui \in Caller \cup {None}
  BY DEF CallsFit, Fits, WithOperation, TypeOK
<1>2. CASE Leave(a)
  BY <1>2, LeaveFits
<1>3. CASE a = Lead /\ Stay(a, "ends")
  <2>1. Fits(a, "ends", call[a]) /\ "ends" \in Place
    BY <1>1, <1>3 DEF Fits, LeadPlace, WithProject, Place
  <2> QED BY <1>1, <1>3, <2>1, StayFits DEF Stay
<1>4. ASSUME a # Lead, NEW p \in {"policy", "run"}, Stay(a, p)
      PROVE  CallTyped' /\ CallsFit'
  <2>1. Fits(a, p, call[a]) /\ p \in Place
    BY <1>1, <1>4 DEF Fits, WithProject, Place
  <2> QED BY <1>1, <1>4, <2>1, StayFits DEF Stay
<1> QED BY <1>2, <1>3, <1>4 DEF Return

\* Either answer of the CAM application leaves the calculation its operation.
LEMMA AnsweredFits ==
    ASSUME TypeOK, CallsFit, NEW t \in Thread, call[t].op \in Operation, Answered(t)
    PROVE  CallTyped' /\ CallsFit'
<1>1. t \in Caller /\ t # Lead /\ call[t] \in Call /\ ui' \in Caller \cup {None}
  BY LeadAssumption DEF Answered, TypeOK, Caller
<1>2. CASE GoTo(t, "run") /\ UNCHANGED call
  <2>1. Fits(t, "run", call[t]) /\ "run" \in Place
    BY <1>1 DEF Fits, WithProject, Place
  <2> QED BY <1>1, <1>2, <2>1, StayFits
<1>3. CASE GoTo(t, "test") /\ call' = [call EXCEPT ![t].result = "refused"]
  <2> DEFINE c == [call[t] EXCEPT !.result = "refused"]
  <2>1. c \in Call /\ c.op = call[t].op /\ call' = [call EXCEPT ![t] = c]
    BY <1>1, <1>3 DEF Call, TypeOK
  <2> HIDE DEF c
  <2>2. Fits(t, "test", c) /\ "test" \in Place
    BY <1>1, <2>1 DEF Fits, WithProject, Place
  <2> QED BY <1>1, <1>3, <2>1, <2>2, MoveFits DEF GoTo
<1> QED BY <1>2, <1>3 DEF Answered

\* Everything a thread does keeps the calls in order.
LEMMA ThreadFits ==
    ASSUME TypeOK, CallsFit, NEW t \in Thread, ThreadStep(t)
    PROVE  CallTyped' /\ CallsFit'
<1>1. t \in Caller /\ t # Lead /\ call[t] \in Call /\ ui \in Caller \cup {None}
  BY LeadAssumption DEF TypeOK, Caller
<1>2. at[t] \in WithOperation => call[t].op \in Operation
  BY <1>1 DEF CallsFit, Fits
<1>s. ASSUME NEW p \in Place \ {"idle", "ends", "switch", "load"}, Stay(t, p),
             p \in WithOperation \/ call[t].result = "accepted" => call[t].op \in Operation,
             p \in WithProject => call[t].root \in Root
      PROVE  CallTyped' /\ CallsFit'
  <2>1. Fits(t, p, call[t]) /\ ui' \in Caller \cup {None}
    BY <1>1, <1>s DEF Fits, Stay
  <2> QED BY <1>1, <1>s, <2>1, StayFits DEF Stay
<1>c. ASSUME NEW p \in Place \ {"idle", "ends", "switch", "load"}, NEW c \in Call, GoTo(t, p),
             call' = [call EXCEPT ![t] = c], ui' \in Caller \cup {None},
             p \in WithOperation \/ c.result = "accepted" => c.op \in Operation,
             p \in WithProject => c.root \in Root
      PROVE  CallTyped' /\ CallsFit'
  <2>1. Fits(t, p, c)
    BY <1>1, <1>c DEF Fits
  <2> QED BY <1>1, <1>c, <2>1, MoveFits DEF GoTo
<1>r. call[t].result = "accepted" => call[t].op \in Operation
  BY <1>1 DEF CallsFit, Fits
<1>3. ASSUME NEW o \in Operation \cup {None}, BeginCall(t, o) PROVE CallTyped' /\ CallsFit'
  <2> DEFINE c == [call[t] EXCEPT !.op = o]
  <2>1. at[t] = "idle" /\ call[t] = NoCall
    BY <1>1, <1>3 DEF BeginCall, CallsFit, Fits
  <2>2. c \in Call /\ c.result = "open" /\ call' = [call EXCEPT ![t] = c]
    BY <1>1, <1>3, <2>1 DEF Call, NoCall, BeginCall, TypeOK
  <2> HIDE DEF c
  <2>3. PICK p \in {"enter", "bare"} : GoTo(t, p)
    BY <1>3 DEF BeginCall
  <2>4. p \in Place \ {"idle", "ends", "switch", "load"} /\ p \notin WithOperation \cup WithProject
    BY DEF Place, WithOperation, WithProject
  <2>5. ui' \in Caller \cup {None}
    BY <1>1, <1>3 DEF BeginCall
  <2> QED BY <1>c, <2>2, <2>3, <2>4, <2>5
<1>4. CASE Enter(t)
  BY <1>s, <1>r, <1>4 DEF Enter, Place, WithOperation, WithProject
<1>5. CASE Register(t)
  <2> DEFINE c == [call[t] EXCEPT !.result = "accepted"]
  <2>1. call[t].op \in Operation
    BY <1>1, <1>5 DEF Register, Call
  <2>2. c \in Call /\ c.op = call[t].op /\ call' = [call EXCEPT ![t] = c]
    BY <1>1, <1>5 DEF Call, Register, TypeOK
  <2> HIDE DEF c
  <2>3. at[t] \in {"leased", "bare"} /\ at[t] \notin WithProject /\ GoTo(t, at[t])
    BY <1>1, <1>5 DEF Register, WithProject, GoTo, TypeOK
  <2>4. at[t] \in Place \ {"idle", "ends", "switch", "load"} /\ ui' \in Caller \cup {None}
    BY <1>1, <1>5, <2>3 DEF Register, Place
  <2> QED BY <1>c, <2>1, <2>2, <2>3, <2>4
<1>6. CASE EndCall(t)
  BY <1>1, <1>s, <1>r, <1>6, LeaveFits DEF EndCall, Place, WithOperation, WithProject
<1>7. CASE ReadPolicy(t)
  BY <1>1, <1>2, <1>s, <1>7, LeaveFits DEF ReadPolicy, Place, WithOperation, WithProject
<1>8. CASE ReadSession(t)
  <2>1. CASE project = None
    BY <1>1, <1>8, <2>1, LeaveFits DEF ReadSession
  <2>2. CASE project # None
    <3> DEFINE c == [call[t] EXCEPT !.root = project]
    <3>1. project \in Root /\ call[t].op \in Operation
      BY <1>2, <1>8, <2>2 DEF TypeOK, ReadSession, WithOperation
    <3>2. c \in Call /\ c.op = call[t].op /\ c.root = project /\ call' = [call EXCEPT ![t] = c]
      BY <1>1, <1>8, <2>2, <3>1 DEF Call, ReadSession, TypeOK
    <3> HIDE DEF c
    <3>3. GoTo(t, "generation") /\ ui' \in Caller \cup {None}
      BY <1>1, <1>8, <2>2 DEF ReadSession
    <3>4. "generation" \in Place \ {"idle", "ends", "switch", "load"}
      BY DEF Place
    <3> QED BY <1>c, <3>1, <3>2, <3>3, <3>4
  <2> QED BY <2>1, <2>2
<1>9. CASE ReadGeneration(t)
  <2> DEFINE c == [call[t] EXCEPT !.gen = generation]
  <2>1. call[t].op \in Operation /\ call[t].root \in Root
    BY <1>1, <1>2, <1>9 DEF ReadGeneration, WithOperation, WithProject, CallsFit, Fits
  <2>2. c \in Call /\ c.op = call[t].op /\ c.root = call[t].root
        /\ call' = [call EXCEPT ![t] = c]
    BY <1>1, <1>9 DEF Call, ReadGeneration, TypeOK
  <2> HIDE DEF c
  <2>3. "schedule" \in Place \ {"idle", "ends", "switch", "load"}
        /\ GoTo(t, "schedule") /\ ui' \in Caller \cup {None}
    BY <1>1, <1>9 DEF Place, ReadGeneration
  <2> QED BY <1>c, <2>1, <2>2, <2>3
<1>10. CASE Schedule(t) \/ EndTask(t)
  BY <1>1, <1>10, LeaveFits DEF Schedule, EndTask
<1>11. ASSUME NEW o \in Operation, StartTask(t, o) PROVE CallTyped' /\ CallsFit'
  <2> DEFINE c == [call[t] EXCEPT !.op = o, !.gen = generation]
  <2>1. c \in Call /\ c.op = o /\ call' = [call EXCEPT ![t] = c]
    BY <1>1, <1>11 DEF Call, StartTask, TypeOK
  <2> HIDE DEF c
  <2>2. "claim" \in Place \ {"idle", "ends", "switch", "load"} /\ "claim" \notin WithProject
        /\ GoTo(t, "claim") /\ ui' \in Caller \cup {None}
    BY <1>1, <1>11 DEF Place, WithProject, StartTask
  <2> QED BY <1>c, <2>1, <2>2
<1>12. CASE Claim(t) \/ Check(t)
  <2>1. call[t].op \in Operation
    BY <1>2, <1>12 DEF Claim, Check, WithOperation
  <2> QED BY <1>s, <1>12, <2>1, AnsweredFits DEF Claim, Check, Place, WithProject
<1>13. CASE Begin(t)
  BY <1>2, <1>s, <1>13 DEF Begin, Place, WithOperation, WithProject
<1>14. CASE Record(t)
  BY <1>2, <1>14, AnsweredFits DEF Record, WithOperation
<1>15. CASE CommitTask(t)
  <2>1. call[t].op \in Operation /\ GoTo(t, "test") /\ ui' \in Caller \cup {None}
    BY <1>1, <1>2, <1>15 DEF CommitTask, WithOperation
  <2>2. "test" \in Place \ {"idle", "ends", "switch", "load"} /\ "test" \notin WithProject
    BY DEF Place, WithProject
  <2>3. CASE UNCHANGED call
    <3>1. call' = [call EXCEPT ![t] = call[t]]
      BY <2>3 DEF TypeOK
    <3> QED BY <1>1, <1>c, <2>1, <2>2, <3>1
  <2>4. CASE call' = [call EXCEPT ![t].result = "accepted"]
    <3> DEFINE c == [call[t] EXCEPT !.result = "accepted"]
    <3>1. c \in Call /\ c.op = call[t].op /\ call' = [call EXCEPT ![t] = c]
      BY <1>1, <2>4 DEF Call, TypeOK
    <3> HIDE DEF c
    <3> QED BY <1>c, <2>1, <2>2, <3>1
  <2> QED BY <1>15, <2>3, <2>4 DEF CommitTask
<1>16. CASE Test(t)
  BY <1>1, <1>2, <1>s, <1>16, ReturnFits DEF Test, Place, WithOperation, WithProject
<1>17. CASE Discard(t)
  BY <1>2, <1>s, <1>17 DEF Discard, Place, WithOperation, WithProject
<1>18. CASE Release(t)
  BY <1>1, <1>18, ReturnFits DEF Release
<1> QED BY <1>3, <1>4, <1>5, <1>6, <1>7, <1>8, <1>9, <1>10, <1>11, <1>12, <1>13, <1>14, <1>15,
           <1>16, <1>17, <1>18 DEF ThreadStep

\* What a thread leaves alone: projects, Lead and the worker.
LEMMA ThreadFrame ==
    ASSUME TypeOK, NEW t \in Thread, ThreadStep(t)
    PROVE  /\ UNCHANGED <<serviceVars, leadVars, workerVars, pressure>>
           /\ at'[Lead] = at[Lead]
<1>1. Lead \in Caller /\ t # Lead
  BY LeadAssumption DEF Caller
<1>2. UNCHANGED <<serviceVars, leadVars, workerVars, pressure>>
  BY DEF ThreadStep, BeginCall, Enter, Register, EndCall, ReadPolicy, ReadSession, ReadGeneration,
         Schedule, StartTask, Claim, Check, Begin, Record, CommitTask, EndTask, Test, Discard,
         Release
<1>3. at' = at \/ \E p \in Place : at' = [at EXCEPT ![t] = p]
  <2> USE DEF GoTo, Stay, Leave, Return, Answered, Place
  <2>1. CASE \E o \in Operation \cup {None} : BeginCall(t, o)
    BY <2>1 DEF BeginCall
  <2>2. CASE Enter(t) \/ Register(t) \/ EndCall(t)
    BY <2>2 DEF Enter, Register, EndCall
  <2>3. CASE ReadPolicy(t) \/ ReadSession(t) \/ ReadGeneration(t) \/ Schedule(t)
    BY <2>3 DEF ReadPolicy, ReadSession, ReadGeneration, Schedule
  <2>4. CASE \E o \in Operation : StartTask(t, o)
    BY <2>4 DEF StartTask
  <2>5. CASE Claim(t) \/ Check(t) \/ Begin(t) \/ Record(t)
    BY <2>5 DEF Claim, Check, Begin, Record
  <2>6. CASE CommitTask(t) \/ EndTask(t)
    BY <2>6 DEF CommitTask, EndTask
  <2>7. CASE Test(t) \/ Discard(t) \/ Release(t)
    BY <1>1, <2>7 DEF Test, Discard, Release
  <2> QED BY <2>1, <2>2, <2>3, <2>4, <2>5, <2>6, <2>7 DEF ThreadStep
<1> QED BY <1>1, <1>2, <1>3 DEF TypeOK

\* The job that a thread schedules.
ThreadJob(t) ==
    [root |-> call[t].root, gen |-> call[t].gen, op |-> call[t].op, turn |-> turns]

\* It is a job of the operation, project and generation that the thread has read.
LEMMA ThreadJobType ==
    ASSUME TypeOK, CallsFit, NEW t \in Thread, Schedule(t)
    PROVE  /\ ThreadJob(t) \in Job /\ Enqueue(ThreadJob(t))
           /\ stranded' = IF Leaving \/ Pair(ThreadJob(t)) # <<project, generation>>
                          THEN stranded \cup {Pair(ThreadJob(t))} ELSE stranded
<1>1. t \in Caller /\ at[t] = "schedule" /\ call[t] \in Call
  BY DEF Schedule, TypeOK, Caller
<1>2. call[t].op \in Operation /\ call[t].root \in Root /\ call[t].gen \in Generation
  BY <1>1 DEF CallsFit, Fits, WithOperation, WithProject, Call
<1>3. ThreadJob(t) \in Job
  BY <1>2 DEF ThreadJob, Job, TypeOK
<1> QED BY <1>3 DEF Schedule, ThreadJob

\* Scheduling keeps the types of queue, statuses and debts.
LEMMA ScheduleType ==
    ASSUME TypeOK, CallsFit, NEW t \in Thread, Schedule(t)
    PROVE  QueueTyped'
<1> DEFINE j == ThreadJob(t)
<1>1. j \in Job /\ Enqueue(j) /\ stranded' \subseteq stranded \cup {Pair(j)}
  BY ThreadJobType
<1>2. turns' \in Nat
  BY DEF Schedule, TypeOK
<1> HIDE DEF j
<1>3. Key(j) \in Root \X Operation /\ Pair(j) \in Root \X Generation /\ j.op \in Operation
  BY <1>1 DEF Job, Key, Pair
<1>4. jobs' \subseteq Job /\ cancelled' \subseteq Root \X Generation /\ idle' \in BOOLEAN
  BY <1>1 DEF Enqueue, TypeOK
<1>5. status' \in [Operation -> State]
  BY <1>1, <1>3 DEF Enqueue, TypeOK, State
<1>6. owed' \subseteq Root \X Operation /\ stranded' \subseteq Root \X Generation
  BY <1>1, <1>3 DEF Enqueue, TypeOK
<1> QED BY <1>2, <1>4, <1>5, <1>6 DEF QueueTyped

\* A cancellation keeps them too.
LEMMA CancelType ==
    ASSUME TypeOK, NEW r \in Root, CancelQueued(r)
    PROVE  QueueTyped'
<1>1. jobs' \subseteq Job /\ cancelled' \subseteq Root \X Generation /\ owed' \subseteq Root \X Operation
  BY DEF CancelQueued, TypeOK
<1>2. status' \in [Operation -> State]
  BY DEF CancelQueued, TypeOK, State
<1>3. UNCHANGED <<turns, idle, stranded>>
  BY DEF CancelQueued
<1> QED BY <1>1, <1>2, <1>3 DEF QueueTyped, TypeOK

\* The steps of a thread keep every type, the calls in order and Lead where it is.
LEMMA ThreadTypes ==
    ASSUME TypeOK, CallsFit, LeadFits, NEW t \in Thread, ThreadStep(t)
    PROVE  TypeOK' /\ CallsFit' /\ LeadFits'
<1>1. t \in Caller /\ (at[t] \in WithOperation => call[t].op \in Operation)
  BY DEF CallsFit, Fits, Caller
<1>2. CallTyped' /\ CallsFit'
  BY ThreadFits
<1>3. LeadTyped' /\ WorkerTyped' /\ pressure' \in BOOLEAN
  BY ThreadFrame, SameTypes, TypeParts
<1>4. LeadFits'
  BY ThreadFrame DEF LeadFits, leadVars, serviceVars
<1>5. ServiceTyped'
  <2>1. CASE UNCHANGED camVars
    BY <2>1, ThreadFrame, SameTypes
  <2>2. CASE Register(t)
    <3>1. call[t].op \in Operation /\ Calculated(call[t].op)
      BY <1>1, <2>2 DEF Register, TypeOK, Call
    <3> QED BY <3>1, ThreadFrame, CalculatedType
  <2>3. CASE CommitTask(t)
    <3>1. call[t].op \in Operation
      BY <1>1, <2>3 DEF CommitTask, WithOperation
    <3> QED BY <2>1, <2>3, <3>1, ThreadFrame, CalculatedType DEF CommitTask
  <2> QED BY <2>1, <2>2, <2>3 DEF ThreadStep, BeginCall, Enter, EndCall, ReadPolicy, ReadSession,
             ReadGeneration, Schedule, StartTask, Claim, Check, Begin, Record, EndTask, Test,
             Discard, Release
<1>6. ClaimTyped'
  <2> USE DEF ClaimTyped
  <2>0. ClaimTyped
    BY TypeParts
  <2>1. CASE UNCHANGED claimVars
    BY <2>1, SameTypes
  <2>2. CASE Enter(t) \/ EndCall(t) \/ Begin(t) \/ Release(t)
    BY <2>0, <2>2, ForegroundType DEF Enter, EndCall, Begin, Release
  <2>3. CASE Record(t) \/ Discard(t)
    <3>1. call[t].op \in Operation
      BY <1>1, <2>3 DEF Record, Discard, WithOperation
    <3>2. UNCHANGED <<foreground, raced>> /\ claims' \subseteq Operation
      BY <2>0, <2>3, <3>1 DEF Record, Discard
    <3> QED BY <2>0, <3>2
  <2>4. CASE Check(t) \/ Test(t)
    BY <2>0, <2>4 DEF Check, Test, Alongside
  <2> QED BY <2>1, <2>2, <2>3, <2>4 DEF ThreadStep, BeginCall, Register, ReadPolicy, ReadSession,
             ReadGeneration, Schedule, StartTask, Claim, CommitTask, EndTask
<1>7. QueueTyped'
  <2>1. CASE UNCHANGED queueVars
    BY <2>1, SameTypes
  <2> QED BY <2>1, ScheduleType DEF ThreadStep, BeginCall, Enter, Register, EndCall, ReadPolicy,
             ReadSession, ReadGeneration, StartTask, Claim, Check, Begin, Record, CommitTask,
             EndTask, Test, Discard, Release
<1>8. TypeOK'
  BY <1>2, <1>3, <1>5, <1>6, <1>7
     DEF TypeOK, ServiceTyped, ClaimTyped, CallTyped, LeadTyped, QueueTyped, WorkerTyped
<1> QED BY <1>2, <1>4, <1>8

\* The steps of Lead keep every type, the calls in order, and Lead itself.
LEMMA LeadTypes ==
    ASSUME TypeOK, CallsFit, LeadFits, Lifecycle
    PROVE  TypeOK' /\ CallsFit' /\ LeadFits'
<1> USE TypeParts, SameTypes
<1>1. Lead \in Caller /\ call[Lead] \in Call /\ Lead # None
  BY NoneAssumption DEF TypeOK, Caller
<1>2. WorkerTyped' /\ pressure' \in BOOLEAN
  BY DEF Lifecycle, Open, CloseProject, Disable, Enable, EndNext, Discard, Release, Cancel, GiveUp,
         Switch, Load
<1>t. ASSUME ServiceTyped', ClaimTyped', CallTyped', LeadTyped', QueueTyped' PROVE TypeOK'
  BY <1>2, <1>t DEF TypeOK, ServiceTyped, ClaimTyped, CallTyped, LeadTyped, QueueTyped, WorkerTyped
<1>g. ASSUME NEW p \in {"ends", "switch", "load", "discard", "release"}, GoTo(Lead, p), UNCHANGED call,
             ui' \in Caller \cup {None},
             p \in {"discard", "release"} => call[Lead].op \in Operation
      PROVE  CallTyped' /\ CallsFit' /\ at'[Lead] = p
  <2>1. call[Lead].result = "accepted" => call[Lead].op \in Operation
    BY <1>1 DEF CallsFit, Fits
  <2>2. Fits(Lead, p, call[Lead]) /\ p \in Place
    BY <1>g, <2>1 DEF Fits, LeadPlace, WithOperation, WithProject, Place
  <2> QED BY <1>1, <1>g, <2>2, StayFits DEF GoTo, TypeOK
<1>l. ASSUME Leave(Lead) PROVE CallTyped' /\ CallsFit' /\ at'[Lead] = "idle"
  BY <1>1, <1>l, LeaveFits DEF Leave, GoTo, TypeOK
<1>f. ASSUME LeaveFirst PROVE GoTo(Lead, "ends") /\ ends' \subseteq Operation
  BY <1>f DEF LeaveFirst, ClaimTyped
<1>3. ASSUME NEW r \in Root, Open(r) PROVE TypeOK' /\ CallsFit' /\ LeadFits'
  <2>1. UNCHANGED <<serviceVars, camVars, claimVars, call, ui, jobs, turns, cancelled, status,
                    idle, owed>>
    BY <1>3 DEF Open
  <2>2. lead' = "open" /\ to' = r /\ generation < MaxGeneration
    BY <1>3 DEF Open
  <2>3. QueueTyped'
    <3>1. stranded' \subseteq stranded \cup {<<r, generation>>}
      BY <1>3 DEF Open
    <3> QED BY <2>1, <3>1 DEF QueueTyped, ServiceTyped
  <2>4. PICK p \in {"ends", "switch"} : GoTo(Lead, p) /\ ends' \subseteq Operation
                                        /\ (p = "ends" => project \notin {None, r})
    BY <1>3, <1>f DEF Open, LeadTyped
  <2>5. CallTyped' /\ CallsFit' /\ at'[Lead] = p
    BY <1>g, <2>1, <2>4 DEF CallTyped
  <2>6. LeadTyped' /\ LeadFits'
    BY <2>1, <2>2, <2>4, <2>5 DEF LeadTyped, LeadFits, ServiceTyped, serviceVars
  <2> QED BY <1>t, <2>1, <2>3, <2>5, <2>6
<1>4. CASE CloseProject
  <2>1. UNCHANGED <<serviceVars, camVars, claimVars, call, to, queueVars>>
    BY <1>4 DEF CloseProject
  <2>2. lead' = "close" /\ generation < MaxGeneration /\ project # None /\ ui' = Lead
    BY <1>4 DEF CloseProject
  <2>3. GoTo(Lead, "ends") /\ ends' \subseteq Operation
    BY <1>4, <1>f DEF CloseProject
  <2>5. CallTyped' /\ CallsFit' /\ at'[Lead] = "ends"
    BY <1>1, <1>g, <2>1, <2>2, <2>3
  <2>6. LeadTyped' /\ LeadFits'
    BY <2>1, <2>2, <2>3, <2>5 DEF LeadTyped, LeadFits, ServiceTyped, serviceVars
  <2> QED BY <1>t, <2>1, <2>5, <2>6
<1>5. CASE Disable
  <2>1. UNCHANGED <<serviceVars, camVars, claimVars, call, to, queueVars>>
    BY <1>5 DEF Disable
  <2>2. lead' = "disable" /\ ui' = Lead
    BY <1>5 DEF Disable
  <2>4. PICK p \in {"ends", "switch"} : GoTo(Lead, p) /\ ends' \subseteq Operation
                                        /\ (p = "ends" => project # None)
    BY <1>5, <1>f DEF Disable, LeadTyped
  <2>5. CallTyped' /\ CallsFit' /\ at'[Lead] = p
    BY <1>1, <1>g, <2>1, <2>2, <2>4
  <2>6. LeadTyped' /\ LeadFits'
    BY <2>1, <2>2, <2>4, <2>5 DEF LeadTyped, LeadFits, ServiceTyped, serviceVars
  <2> QED BY <1>t, <2>1, <2>5, <2>6
<1>6. CASE Enable
  <2>1. UNCHANGED <<project, generation>> /\ ServiceTyped'
    BY <1>6 DEF Enable, ServiceTyped, camVars
  <2>2. UNCHANGED <<claimVars, callVars, leadVars, queueVars>>
    BY <1>6 DEF Enable
  <2>3. CallsFit' /\ LeadFits'
    BY <2>1, <2>2 DEF CallsFit, Fits, LeadFits, callVars, leadVars
  <2> QED BY <1>t, <2>1, <2>2, <2>3
<1>7. ASSUME NEW o \in Operation, EndNext(o) PROVE TypeOK' /\ CallsFit' /\ LeadFits'
  <2>1. UNCHANGED <<serviceVars, camVars, ui, lead, to, queueVars>>
    BY <1>7 DEF EndNext
  <2>2. at[Lead] = "ends" /\ LeadTyped' /\ ClaimTyped'
    BY <1>7 DEF EndNext, LeadTyped, ClaimTyped, Alongside
  <2>3. CASE o \in claims
    <3> DEFINE c == [call[Lead] EXCEPT !.op = o]
    <3>1. c \in Call /\ c.op = o /\ call' = [call EXCEPT ![Lead] = c]
      BY <1>1, <1>7, <2>3 DEF EndNext, Call, CallTyped
    <3> HIDE DEF c
    <3>2. Fits(Lead, "discard", c) /\ "discard" \in Place /\ GoTo(Lead, "discard")
      BY <1>7, <2>3, <3>1 DEF EndNext, Fits, LeadPlace, WithProject, Place
    <3>3. ui' \in Caller \cup {None}
      BY <2>1 DEF CallTyped
    <3>4. CallTyped' /\ CallsFit' /\ at'[Lead] = "discard"
      BY <1>1, <3>1, <3>2, <3>3, MoveFits DEF GoTo, TypeOK
    <3>5. LeadFits'
      BY <2>1, <2>2, <3>4 DEF LeadFits, serviceVars
    <3> QED BY <1>t, <2>1, <2>2, <3>4, <3>5
  <2>4. CASE o \notin claims
    <3>1. UNCHANGED <<at, call>>
      BY <1>7, <2>4 DEF EndNext
    <3>2. CallTyped' /\ CallsFit' /\ LeadFits'
      BY <2>1, <3>1 DEF CallTyped, CallsFit, Fits, LeadFits, serviceVars
    <3> QED BY <1>t, <2>1, <2>2, <3>2
  <2> QED BY <2>3, <2>4
<1>8. CASE Discard(Lead)
  <2>1. at[Lead] = "discard" /\ call[Lead].op \in Operation /\ GoTo(Lead, "release")
        /\ UNCHANGED <<call, ui>>
    BY <1>1, <1>8 DEF Discard, Stay, CallsFit, Fits, WithOperation
  <2>2. CallTyped' /\ CallsFit' /\ at'[Lead] = "release"
    BY <1>g, <2>1 DEF CallTyped
  <2>3. ClaimTyped'
    BY <1>8 DEF Discard, ClaimTyped
  <2>4. UNCHANGED <<serviceVars, camVars, leadVars, queueVars>>
    BY <1>8 DEF Discard
  <2>5. LeadFits'
    BY <2>1, <2>2, <2>4 DEF LeadFits, leadVars, serviceVars
  <2> QED BY <1>t, <2>2, <2>3, <2>4, <2>5
<1>9. CASE Release(Lead)
  <2>1. at[Lead] = "release" /\ GoTo(Lead, "ends") /\ UNCHANGED <<call, ui>>
    BY <1>9 DEF Release, Return, Stay
  <2>2. CallTyped' /\ CallsFit' /\ at'[Lead] = "ends"
    BY <1>g, <2>1 DEF CallTyped
  <2>3. ClaimTyped'
    BY <1>9, ForegroundType DEF Release, ClaimTyped
  <2>4. UNCHANGED <<serviceVars, camVars, leadVars, queueVars>>
    BY <1>9 DEF Release
  <2>5. LeadFits'
    BY <2>1, <2>2, <2>4 DEF LeadFits, leadVars, serviceVars
  <2> QED BY <1>t, <2>2, <2>3, <2>4, <2>5
<1>10. CASE Cancel
  <2>1. at[Lead] = "ends" /\ GoTo(Lead, "switch") /\ UNCHANGED <<call, ui>>
    BY <1>10 DEF Cancel, Stay
  <2>2. CallTyped' /\ CallsFit' /\ at'[Lead] = "switch"
    BY <1>g, <2>1 DEF CallTyped
  <2>3. QueueTyped'
    BY <1>10, <2>1, CancelType DEF Cancel, LeadFits
  <2>4. UNCHANGED <<serviceVars, camVars, claimVars, leadVars>>
    BY <1>10 DEF Cancel
  <2>5. LeadFits'
    BY <2>1, <2>2, <2>4 DEF LeadFits, leadVars, serviceVars
  <2> QED BY <1>t, <2>2, <2>3, <2>4, <2>5
<1>11. CASE GiveUp
  <2>1. UNCHANGED <<serviceVars, camVars, claimVars, ends, queueVars>> /\ lead' = "none" /\ to' = None
    BY <1>11 DEF GiveUp
  <2>2. CallTyped' /\ CallsFit' /\ at'[Lead] = "idle"
    BY <1>11, <1>l DEF GiveUp
  <2>3. LeadTyped' /\ LeadFits'
    BY <2>1, <2>2 DEF LeadTyped, LeadFits
  <2> QED BY <1>t, <2>1, <2>2, <2>3
<1>12. CASE Switch
  <2>1. UNCHANGED <<loaded, generation, camVars, claimVars, to, ends, queueVars>> /\ at[Lead] = "switch"
    BY <1>12 DEF Switch
  <2>2. CASE lead = "disable"
    <3>1. enabled' = FALSE /\ lead' = "none" /\ UNCHANGED project
      BY <1>12, <2>2 DEF Switch
    <3>2. CallTyped' /\ CallsFit' /\ at'[Lead] = "idle"
      BY <1>12, <1>l, <2>2 DEF Switch
    <3>3. LeadTyped' /\ LeadFits' /\ ServiceTyped'
      BY <2>1, <3>1, <3>2 DEF LeadTyped, LeadFits, ServiceTyped, camVars
    <3> QED BY <1>t, <2>1, <3>2, <3>3
  <2>3. CASE lead # "disable"
    <3>1. project' = to /\ UNCHANGED <<enabled, lead>> /\ GoTo(Lead, "load") /\ UNCHANGED <<call, ui>>
      BY <1>12, <2>3 DEF Switch, Stay
    <3>2. CallTyped' /\ CallsFit' /\ at'[Lead] = "load"
      BY <1>g, <3>1 DEF CallTyped
    <3>3. LeadTyped' /\ LeadFits' /\ ServiceTyped'
      BY <2>1, <2>3, <3>1, <3>2 DEF LeadTyped, LeadFits, ServiceTyped, camVars
    <3> QED BY <1>t, <2>1, <3>2, <3>3
  <2> QED BY <2>2, <2>3
<1>13. CASE Load
  <2>1. UNCHANGED <<project, enabled, camVars, claimVars, ends, queueVars>>
        /\ loaded' = to /\ generation' = generation + 1 /\ lead' = "none" /\ to' = None
    BY <1>13 DEF Load
  <2>2. CallTyped' /\ CallsFit' /\ at'[Lead] = "idle"
    BY <1>13, <1>l DEF Load
  <2>3. generation < MaxGeneration
    BY <1>13 DEF Load, LeadFits, LeadTyped
  <2>4. generation' \in Generation
    BY <2>1, <2>3, BoundsAssumption DEF ServiceTyped, Generation
  <2>5. LeadTyped' /\ LeadFits' /\ ServiceTyped'
    BY <2>1, <2>2, <2>4 DEF LeadTyped, LeadFits, ServiceTyped, camVars
  <2> QED BY <1>t, <2>1, <2>2, <2>5
<1> QED BY <1>3, <1>4, <1>5, <1>6, <1>7, <1>8, <1>9, <1>10, <1>11, <1>12, <1>13 DEF Lifecycle

\* The inputs the worker finds.
LEMMA InputsType ==
    ASSUME TypeOK, WorkerFits, pc # "wait"
    PROVE  /\ job \in Job /\ job.op \in Operation /\ job.root \in Root
           /\ Key(job) \in Root \X Operation
           /\ Inputs \in Artifact \cup {0}
           /\ Inputs # 0 => <<job.root, job.op, Inputs>> \in Run
<1>1. job \in Job /\ job.op \in Operation /\ job.root \in Root
  BY DEF WorkerFits, Job
<1>2. Inputs \in Artifact \cup {0}
  BY <1>1 DEF Inputs, TypeOK
<1> QED BY <1>1, <1>2 DEF Run, Key

\* Showing another status keeps the types of the queue.
LEMMA ShowType ==
    ASSUME TypeOK, job.op \in Operation, NEW s \in State, SetStatus(s) \/ SetStatusOfCapture(s)
    PROVE  QueueTyped'
<1>1. status' = [status EXCEPT ![job.op] = s] /\ owed' \subseteq owed
  BY DEF SetStatus, SetStatusOfCapture
<1>2. UNCHANGED <<jobs, turns, cancelled, idle, stranded>>
  BY DEF SetStatus, SetStatusOfCapture
<1> QED BY <1>1, <1>2 DEF TypeOK, QueueTyped

\* The worker and the probe leave projects, callers and claims alone.
LEMMA WorkerFrame ==
    ASSUME Worker \/ Probe
    PROVE  UNCHANGED <<serviceVars, camVars, claimVars, callVars, leadVars, stranded>>
BY DEF Worker, Rest, Take, Admit, Capture, CaptureFails, Cut, ChunkRaises, Publish, PublishFails,
       Finish, Probe, Frame, Stop, SetStatus, SetStatusOfCapture, queueVars

\* The steps of the worker.
LEMMA WorkerTypes ==
    ASSUME TypeOK, CallsFit, LeadFits, WorkerFits, Worker \/ Probe
    PROVE  TypeOK' /\ CallsFit' /\ LeadFits'
<1> USE TypeParts, SameTypes
<1>c. CallsFit' /\ LeadFits'
  BY WorkerFrame DEF CallsFit, Fits, LeadFits, callVars, leadVars, serviceVars
<1>p. pressure' \in BOOLEAN
  BY DEF Worker, Rest, Take, Admit, Capture, CaptureFails, Cut, ChunkRaises, Publish, PublishFails,
         Finish, Probe, Frame
<1>t. ASSUME QueueTyped', WorkerTyped' PROVE TypeOK' /\ CallsFit' /\ LeadFits'
  <2>1. ServiceTyped' /\ ClaimTyped' /\ CallTyped' /\ LeadTyped'
    BY WorkerFrame
  <2> QED BY <1>c, <1>p, <1>t, <2>1
          DEF TypeOK, ServiceTyped, ClaimTyped, CallTyped, LeadTyped, QueueTyped, WorkerTyped
<1>w. ASSUME UNCHANGED <<job, captured, next, manifest>>,
             pc' \in {"wait", "gate", "capture", "hold", "cut", "publish", "finish"}
      PROVE  WorkerTyped'
  BY <1>w DEF WorkerTyped
<1>1. CASE Rest
  BY <1>1, <1>t DEF Rest, QueueTyped, WorkerTyped, workerVars
<1>2. CASE Take
  BY <1>2, <1>t DEF Take, QueueTyped, WorkerTyped
<1>3. CASE Admit
  <2>1. job.op \in Operation
    BY <1>3, InputsType DEF Admit
  <2> QED BY <1>3, <1>t, <1>w, <2>1, ShowType DEF Admit, Stop, State
<1>4. CASE Capture
  <2>1. /\ job.op \in Operation /\ Inputs \in Artifact \cup {0}
        /\ <<job.root, job.op, Inputs>> \in Run
    BY <1>4, InputsType DEF Capture
  <2>2. status[job.op] \in State /\ "complete" \in State
    BY <2>1 DEF QueueTyped, State
  <2>3. QueueTyped'
    BY <1>4, <2>1, <2>2, ShowType DEF Capture
  <2>4. WorkerTyped'
    BY <1>4, <2>1 DEF Capture, WorkerTyped
  <2> QED BY <1>4, <1>t, <2>3, <2>4
<1>5. CASE CaptureFails
  <2>1. job.op \in Operation
    BY <1>5, InputsType DEF CaptureFails
  <2> QED BY <1>5, <1>t, <1>w, <2>1, ShowType DEF CaptureFails, State
<1>6. CASE Cut
  BY <1>6, <1>t, <1>w DEF Cut
<1>7. CASE ChunkRaises
  <2>1. job.op \in Operation
    BY <1>7, InputsType DEF ChunkRaises
  <2> QED BY <1>7, <1>t, <1>w, <2>1, ShowType DEF ChunkRaises, Stop, State
<1>8. CASE Publish
  <2>1. job.op \in Operation
    BY <1>8, InputsType DEF Publish
  <2>2. next' = next + 1 /\ next' \in 0 .. Chunks
    BY <1>8, BoundsAssumption DEF Publish, WorkerFits, WorkerTyped
  <2>3. manifest' \in [Run -> 0 .. Chunks]
    BY <1>8, <2>2, BoundsAssumption DEF Publish, WorkerTyped
  <2>4. QueueTyped' /\ pc' \in {"finish", "hold"}
    BY <1>8, <2>1, ShowType DEF Publish, State
  <2>5. WorkerTyped'
    BY <1>8, <2>2, <2>3, <2>4 DEF Publish, WorkerTyped
  <2> QED BY <1>8, <1>t, <2>4, <2>5
<1>9. CASE PublishFails
  <2>1. job.op \in Operation
    BY <1>9, InputsType DEF PublishFails
  <2>2. next \in 0 .. Chunks /\ next + 1 \in 0 .. Chunks
    BY <1>9, BoundsAssumption DEF PublishFails, WorkerFits, WorkerTyped
  <2>3. manifest' \in [Run -> 0 .. Chunks]
    BY <1>9, <2>2 DEF PublishFails, WorkerTyped
  <2>4. QueueTyped' /\ pc' = "finish"
    BY <1>9, <2>1, ShowType DEF PublishFails, State
  <2>5. WorkerTyped'
    BY <1>9, <2>3, <2>4 DEF PublishFails, WorkerTyped
  <2> QED BY <1>9, <1>t, <2>4, <2>5
<1>10. CASE Finish
  <2>1. QueueTyped'
    BY <1>10 DEF Finish, QueueTyped
  <2>2. 0 \in 0 .. Chunks
    BY BoundsAssumption
  <2>3. WorkerTyped'
    BY <1>10, <2>2 DEF Finish, WorkerTyped
  <2> QED BY <1>10, <1>t, <2>1, <2>3
<1>11. CASE Probe
  <2>1. QueueTyped' /\ WorkerTyped'
    BY <1>11 DEF Probe
  <2> QED BY <1>t, <2>1
<1> QED BY <1>1, <1>2, <1>3, <1>4, <1>5, <1>6, <1>7, <1>8, <1>9, <1>10, <1>11 DEF Worker

\* No step leaves the types.
LEMMA TypeStep ==
    ASSUME TypeOK, CallsFit, LeadFits, WorkerFits, Next
    PROVE  TypeOK' /\ CallsFit' /\ LeadFits'
BY ThreadTypes, LeadTypes, WorkerTypes DEF Next

----------------------------------------------------------------------------
(* What holds the foreground.                                              *)

\* There are finitely many holders; one more or less changes their number by one.
LEMMA HoldsCount ==
    ASSUME claims \subseteq Operation
    PROVE  /\ IsFiniteSet(Holds) /\ Cardinality(Holds) \in Nat
           /\ \A x : x \notin Holds => Cardinality(Holds \cup {x}) = Cardinality(Holds) + 1
           /\ \A x \in Holds : Cardinality(Holds \ {x}) = Cardinality(Holds) - 1
<1>1. IsFiniteSet(claims) /\ IsFiniteSet(Inside)
  <2>1. IsFiniteSet(Caller)
    BY FiniteAssumption, FS_Singleton, FS_Union DEF Caller
  <2> QED BY <2>1, FiniteAssumption, FS_Subset DEF Inside
<1>2. IsFiniteSet({"claim"}) /\ IsFiniteSet({"call"})
  BY FS_Singleton
<1>3. IsFiniteSet({"claim"} \X claims) /\ IsFiniteSet({"call"} \X Inside)
  BY <1>1, <1>2, FS_Product
<1>5. IsFiniteSet(Holds)
  BY <1>3, FS_Union DEF Holds
<1>6. Cardinality(Holds) \in Nat
  BY <1>5, FS_CardinalityType
<1>7. \A x : x \notin Holds => Cardinality(Holds \cup {x}) = Cardinality(Holds) + 1
  BY <1>5, FS_AddElement
<1>8. \A x \in Holds : Cardinality(Holds \ {x}) = Cardinality(Holds) - 1
  BY <1>5, FS_RemoveElement
<1> QED BY <1>5, <1>6, <1>7, <1>8

\* What a caller has found of its operation stays so when others move.
LEMMA OneByOneMoves ==
    ASSUME TypeOK, OneByOne, NEW a \in Caller, NEW p, GoTo(a, p), raced => raced',
           \A b \in Caller \ {a} : call'[b] = call[b],
           \A b \in Caller \ {a} :
               /\ at[b] \in {"begin", "record"} => call[b].op \notin claims' \/ raced'
               /\ at[b] = "discard" => call[b].op \in claims' \/ raced',
           p \in {"begin", "record"} =>
               \/ raced'
               \/ /\ call'[a].op \notin claims'
                  /\ ~Alongside(a, call'[a].op, {"begin", "record"}),
           p = "discard" =>
               \/ raced'
               \/ (call'[a].op \in claims' /\ ~Alongside(a, call'[a].op, {"discard"}))
    PROVE  OneByOne'
<1> SUFFICES ASSUME ~raced', NEW b \in Caller
             PROVE  /\ at'[b] \in {"begin", "record"} =>
                         /\ call'[b].op \notin claims'
                         /\ \A c \in Caller \ {b} :
                              ~(at'[c] \in {"begin", "record"} /\ call'[c].op = call'[b].op)
                    /\ at'[b] = "discard" =>
                         /\ call'[b].op \in claims'
                         /\ \A c \in Caller \ {b} :
                              ~(at'[c] = "discard" /\ call'[c].op = call'[b].op)
  BY DEF OneByOne, Alongside
<1>1. at'[a] = p /\ \A c \in Caller \ {a} : at'[c] = at[c] /\ call'[c] = call[c]
  BY DEF GoTo, TypeOK
<1>2. /\ p \in {"begin", "record"} => \A c \in Caller \ {a} :
             ~(at[c] \in {"begin", "record"} /\ call[c].op = call'[a].op)
      /\ p = "discard" => \A c \in Caller \ {a} :
             ~(at[c] = "discard" /\ call[c].op = call'[a].op)
  BY DEF Alongside
<1>3. CASE b = a
  BY <1>1, <1>2, <1>3
<1>4. CASE b # a
  <2>1. /\ at[b] \in {"begin", "record"} => \A c \in Caller \ {b} :
               ~(at[c] \in {"begin", "record"} /\ call[c].op = call[b].op)
        /\ at[b] = "discard" => \A c \in Caller \ {b} :
               ~(at[c] = "discard" /\ call[c].op = call[b].op)
    BY DEF OneByOne, Alongside
  <2> QED BY <1>1, <1>2, <1>4, <2>1
<1> QED BY <1>3, <1>4

\* Nobody finds what another has found and not yet acted on.
LEMMA OneByOneStep ==
    ASSUME TypeOK, CallsFit, LeadFits, OneByOne, Next
    PROVE  OneByOne'
<1>n. ASSUME NEW a \in Caller, NEW p, GoTo(a, p), p \notin {"begin", "record", "discard"},
             UNCHANGED claims, raced => raced', \A b \in Caller \ {a} : call'[b] = call[b]
      PROVE  OneByOne'
  <2>1. \A b \in Caller \ {a} :
            /\ at[b] \in {"begin", "record"} => call[b].op \notin claims' \/ raced'
            /\ at[b] = "discard" => call[b].op \in claims' \/ raced'
    BY <1>n DEF OneByOne
  <2> QED BY <1>n, <2>1, OneByOneMoves
<1>u. ASSUME UNCHANGED <<at, call, claims, raced>> PROVE OneByOne'
  BY <1>u DEF OneByOne, Alongside
<1>1. CASE Worker \/ Probe
  BY <1>1, <1>u, WorkerFrame DEF callVars, claimVars
<1>d. ASSUME NEW a \in Caller, Discard(a) PROVE OneByOne'
  <2>1. \A b \in Caller \ {a} :
            /\ at[b] \in {"begin", "record"} => call[b].op \notin claims' \/ raced'
            /\ at[b] = "discard" => call[b].op \in claims' \/ raced'
    BY <1>d DEF Discard, OneByOne, Alongside
  <2> QED BY <1>d, <2>1, OneByOneMoves DEF Discard, Stay
<1>2. ASSUME NEW t \in Thread, ThreadStep(t) PROVE OneByOne'
  <2>0. t \in Caller
    BY DEF Caller
  <2>c. ASSUME NEW c, call' = [call EXCEPT ![t] = c]
        PROVE  \A b \in Caller \ {t} : call'[b] = call[b]
    BY <2>c DEF TypeOK
  <2>1. ASSUME NEW o \in Operation \cup {None}, BeginCall(t, o) PROVE OneByOne'
    <3>1. PICK p \in {"enter", "bare"} : GoTo(t, p)
      BY <2>1 DEF BeginCall
    <3> QED BY <1>n, <2>0, <2>1, <3>1 DEF BeginCall, TypeOK, claimVars
  <2>2. CASE Enter(t)
    BY <1>n, <2>0, <2>2 DEF Enter, Stay
  <2>3. CASE Register(t)
    <3>1. GoTo(t, at[t]) /\ at[t] \in {"leased", "bare"}
      BY <2>0, <2>3 DEF Register, GoTo, TypeOK
    <3> QED BY <1>n, <2>0, <2>3, <3>1 DEF Register, TypeOK, claimVars
  <2>4. CASE EndCall(t) \/ ReadPolicy(t) \/ ReadSession(t) \/ ReadGeneration(t) \/ Schedule(t)
    <3>1. PICK p \in {"policy", "session", "idle", "generation", "schedule"} : GoTo(t, p)
      BY <2>4 DEF EndCall, ReadPolicy, ReadSession, ReadGeneration, Schedule, Stay, Leave
    <3>2. UNCHANGED <<claims, raced>> /\ \A b \in Caller \ {t} : call'[b] = call[b]
      BY <2>4 DEF EndCall, ReadPolicy, ReadSession, ReadGeneration, Schedule, Stay, Leave, TypeOK,
                  claimVars
    <3> QED BY <1>n, <2>0, <3>1, <3>2
  <2>5. ASSUME NEW o \in Operation, StartTask(t, o) PROVE OneByOne'
    BY <1>n, <2>0, <2>5 DEF StartTask, TypeOK, claimVars
  <2>a. ASSUME Answered(t), UNCHANGED claims, raced => raced' PROVE OneByOne'
    <3>1. PICK p \in {"run", "test"} : GoTo(t, p)
      BY <2>a DEF Answered
    <3>2. \A b \in Caller \ {t} : call'[b] = call[b]
      BY <2>a DEF Answered, TypeOK
    <3> QED BY <1>n, <2>0, <2>a, <3>1, <3>2
  <2>6. CASE Claim(t)
    BY <1>n, <2>0, <2>a, <2>6 DEF Claim, Stay, claimVars
  <2>7. CASE Check(t)
    <3>1. CASE call[t].op \in claims
      BY <2>a, <2>7, <3>1 DEF Check
    <3>2. CASE call[t].op \notin claims
      <4>1. \A b \in Caller \ {t} :
              /\ at[b] \in {"begin", "record"} => call[b].op \notin claims' \/ raced'
              /\ at[b] = "discard" => call[b].op \in claims' \/ raced'
        BY <2>7, <3>2 DEF Check, OneByOne
      <4> QED BY <2>0, <2>7, <3>2, <4>1, OneByOneMoves DEF Check, Stay
    <3> QED BY <3>1, <3>2
  <2>8. CASE Begin(t)
    <3>1. \A b \in Caller \ {t} :
              /\ at[b] \in {"begin", "record"} => call[b].op \notin claims' \/ raced'
              /\ at[b] = "discard" => call[b].op \in claims' \/ raced'
      BY <2>8 DEF Begin, OneByOne
    <3>2. \/ raced'
          \/ /\ call'[t].op \notin claims'
             /\ ~Alongside(t, call'[t].op, {"begin", "record"})
      BY <2>0, <2>8 DEF Begin, Stay, OneByOne, Alongside
    <3> QED BY <2>0, <2>8, <3>1, <3>2, OneByOneMoves DEF Begin, Stay
  <2>9. CASE Record(t)
    <3>1. PICK p \in {"run", "test"} : GoTo(t, p)
      BY <2>9 DEF Record, Answered
    <3>2. \A b \in Caller \ {t} : call'[b] = call[b]
      BY <2>9 DEF Record, Answered, TypeOK
    <3>3. \A b \in Caller \ {t} :
              /\ at[b] \in {"begin", "record"} => call[b].op \notin claims' \/ raced'
              /\ at[b] = "discard" => call[b].op \in claims' \/ raced'
      BY <2>0, <2>9 DEF Record, OneByOne, Alongside
    <3> QED BY <2>0, <2>9, <3>1, <3>2, <3>3, OneByOneMoves DEF Record
  <2>10. CASE CommitTask(t) \/ EndTask(t)
    <3>1. PICK p \in {"test", "idle"} : GoTo(t, p)
      BY <2>10 DEF CommitTask, EndTask, Leave
    <3>2. UNCHANGED <<claims, raced>> /\ \A b \in Caller \ {t} : call'[b] = call[b]
      BY <2>10 DEF CommitTask, EndTask, Leave, TypeOK, claimVars
    <3> QED BY <1>n, <2>0, <3>1, <3>2
  <2>r. ASSUME Return(t), UNCHANGED claims, raced => raced' PROVE OneByOne'
    <3>1. PICK p \in {"ends", "policy", "idle", "run"} : GoTo(t, p)
      BY <2>r DEF Return, Stay, Leave
    <3>2. \A b \in Caller \ {t} : call'[b] = call[b]
      BY <2>r DEF Return, Stay, Leave, TypeOK
    <3> QED BY <1>n, <2>0, <2>r, <3>1, <3>2
  <2>11. CASE Test(t)
    <3>1. CASE call[t].op \notin claims
      BY <2>r, <2>11, <3>1 DEF Test
    <3>2. CASE call[t].op \in claims
      <4>1. \A b \in Caller \ {t} :
              /\ at[b] \in {"begin", "record"} => call[b].op \notin claims' \/ raced'
              /\ at[b] = "discard" => call[b].op \in claims' \/ raced'
        BY <2>11, <3>2 DEF Test, OneByOne
      <4> QED BY <2>0, <2>11, <3>2, <4>1, OneByOneMoves DEF Test, Stay
    <3> QED BY <3>1, <3>2
  <2>12. CASE Release(t)
    BY <2>r, <2>12 DEF Release
  <2> QED BY <1>2, <1>d, <2>0, <2>1, <2>2, <2>3, <2>4, <2>5, <2>6, <2>7, <2>8, <2>9, <2>10, <2>11,
             <2>12 DEF ThreadStep
<1>3. ASSUME Lifecycle PROVE OneByOne'
  <2>0. Lead \in Caller
    BY DEF Caller
  <2>1. CASE Enable
    BY <1>u, <2>1 DEF Enable, callVars, claimVars
  <2>2. ASSUME NEW r \in Root, Open(r) PROVE OneByOne'
    <3>1. PICK p \in {"ends", "switch"} : GoTo(Lead, p)
      BY <2>2 DEF Open, LeaveFirst
    <3> QED BY <1>n, <2>0, <2>2, <3>1 DEF Open, claimVars
  <2>3. CASE CloseProject \/ Disable
    <3>1. PICK p \in {"ends", "switch"} : GoTo(Lead, p)
      BY <2>3 DEF CloseProject, Disable, LeaveFirst
    <3> QED BY <1>n, <2>0, <2>3, <3>1 DEF CloseProject, Disable, claimVars
  <2>4. ASSUME NEW o \in Operation, EndNext(o) PROVE OneByOne'
    <3>1. CASE o \notin claims
      BY <1>u, <2>4, <3>1 DEF EndNext
    <3>2. CASE o \in claims
      <4>1. /\ GoTo(Lead, "discard") /\ call' = [call EXCEPT ![Lead].op = o] /\ UNCHANGED claims
            /\ raced' = (raced \/ Alongside(Lead, o, {"discard"}))
        BY <2>4, <3>2 DEF EndNext
      <4>2. call'[Lead].op = o /\ \A b \in Caller \ {Lead} : call'[b] = call[b]
        BY <2>0, <4>1 DEF TypeOK, Call
      <4>3. \A b \in Caller \ {Lead} :
              /\ at[b] \in {"begin", "record"} => call[b].op \notin claims' \/ raced'
              /\ at[b] = "discard" => call[b].op \in claims' \/ raced'
        BY <4>1 DEF OneByOne
      <4>4. raced' \/ (call'[Lead].op \in claims' /\ ~Alongside(Lead, call'[Lead].op, {"discard"}))
        <5>1. ~raced' => ~Alongside(Lead, o, {"discard"})
          BY <4>1
        <5>2. ~raced' => ~Alongside(Lead, call'[Lead].op, {"discard"})
          BY <4>2, <5>1 DEF Alongside
        <5> QED BY <3>2, <4>1, <4>2, <5>2
      <4> QED BY <2>0, <4>1, <4>2, <4>3, <4>4, OneByOneMoves
    <3> QED BY <3>1, <3>2
  <2>5. CASE Discard(Lead)
    BY <1>d, <2>0, <2>5
  <2>6. CASE Release(Lead) \/ Cancel \/ GiveUp \/ Switch \/ Load
    <3>1. PICK p \in {"ends", "switch", "idle", "load"} : GoTo(Lead, p)
      BY <2>6 DEF Release, Return, Cancel, GiveUp, Switch, Load, Stay, Leave
    <3>2. UNCHANGED <<claims, raced>> /\ \A b \in Caller \ {Lead} : call'[b] = call[b]
      BY <2>6 DEF Release, Return, Cancel, GiveUp, Switch, Load, Stay, Leave, TypeOK, claimVars
    <3> QED BY <1>n, <2>0, <3>1, <3>2
  <2> QED BY <1>3, <2>1, <2>2, <2>3, <2>4, <2>5, <2>6 DEF Lifecycle
<1> QED BY <1>1, <1>2, <1>3 DEF Next

\* Where a caller holds the foreground by itself.
Holding == {"leased", "record", "release"}

\* A caller that moves enters or leaves the set of those inside.
LEMMA InsideMoves ==
    ASSUME TypeOK, NEW a \in Caller, NEW p, GoTo(a, p)
    PROVE  /\ p \in Holding => Inside' = Inside \cup {a}
           /\ p \notin Holding => Inside' = Inside \ {a}
           /\ a \in Inside <=> at[a] \in Holding
BY DEF GoTo, Inside, Holding, TypeOK

\* The counter follows the holders, one more, one less, or one for another.
LEMMA BalanceMoves ==
    ASSUME TypeOK, ForegroundBalanced, raced => raced', NEW a
    PROVE  /\ UNCHANGED <<claims, foreground>> /\ Inside' = Inside => ForegroundBalanced'
           /\ /\ UNCHANGED claims /\ BeginForeground
              /\ a \notin Inside /\ Inside' = Inside \cup {a}
              => ForegroundBalanced'
           /\ /\ UNCHANGED claims /\ EndForeground
              /\ a \in Inside /\ Inside' = Inside \ {a}
              => ForegroundBalanced'
           /\ \A o \in Operation \ claims :
                /\ UNCHANGED foreground /\ claims' = claims \cup {o}
                /\ a \in Inside /\ Inside' = Inside \ {a}
                => ForegroundBalanced'
           /\ \A o \in claims :
                /\ UNCHANGED foreground /\ claims' = claims \ {o}
                /\ a \notin Inside /\ Inside' = Inside \cup {a}
                => ForegroundBalanced'
<1>0. claims \subseteq Operation /\ foreground \in Nat
  BY BoundsAssumption DEF TypeOK
<1> DEFINE n == Cardinality(Holds)
<1>n. /\ n \in Nat
      /\ \A x : x \notin Holds => Cardinality(Holds \cup {x}) = n + 1
      /\ \A x \in Holds : Cardinality(Holds \ {x}) = n - 1
  BY <1>0, HoldsCount
<1> HIDE DEF n
<1>c. \A x : <<"call", x>> \in Holds <=> x \in Inside
  BY DEF Holds
<1>d. \A x : <<"claim", x>> \in Holds <=> x \in claims
  BY DEF Holds
<1>b. ~raced' => foreground = n
  BY DEF ForegroundBalanced, n
<1>1. ASSUME UNCHANGED <<claims, foreground>>, Inside' = Inside PROVE ForegroundBalanced'
  <2>1. Holds' = Holds
    BY <1>1 DEF Holds
  <2> QED BY <1>1, <2>1 DEF ForegroundBalanced
<1>2. ASSUME UNCHANGED claims, BeginForeground, a \notin Inside, Inside' = Inside \cup {a}
      PROVE  ForegroundBalanced'
  <2>1. Holds' = Holds \cup {<<"call", a>>}
    BY <1>2 DEF Holds
  <2>2. Cardinality(Holds') = n + 1
    BY <1>2, <1>c, <1>n, <2>1
  <2> QED BY <1>2, <1>b, <2>2 DEF ForegroundBalanced, BeginForeground
<1>3. ASSUME UNCHANGED claims, EndForeground, a \in Inside, Inside' = Inside \ {a}
      PROVE  ForegroundBalanced'
  <2>1. Holds' = Holds \ {<<"call", a>>}
    BY <1>3 DEF Holds
  <2>2. Cardinality(Holds') = n - 1
    BY <1>3, <1>c, <1>n, <2>1
  <2>3. n # 0
    <3>1. Cardinality(Holds') \in Nat
      <4>1. claims' \subseteq Operation
        BY <1>0, <1>3
      <4>2. IsFiniteSet(Holds')
        BY <1>0, <2>1, HoldsCount, FS_Subset
      <4> QED BY <4>2, FS_CardinalityType
    <3> QED BY <1>n, <2>2, <3>1
  <2> QED BY <1>3, <1>b, <1>n, <2>2, <2>3 DEF ForegroundBalanced, EndForeground
<1>4. ASSUME NEW o \in Operation \ claims, UNCHANGED foreground, claims' = claims \cup {o},
             a \in Inside, Inside' = Inside \ {a}
      PROVE  ForegroundBalanced'
  <2> DEFINE rest == Holds \ {<<"call", a>>}
  <2>1. Cardinality(rest) = n - 1 /\ IsFiniteSet(rest)
    BY <1>0, <1>4, <1>c, <1>n, HoldsCount, FS_Subset
  <2>2. <<"claim", o>> \notin rest /\ Holds' = rest \cup {<<"claim", o>>}
    BY <1>4 DEF Holds
  <2> HIDE DEF rest
  <2>3. Cardinality(Holds') = n
    BY <1>n, <2>1, <2>2, FS_AddElement
  <2> QED BY <1>4, <1>b, <2>3 DEF ForegroundBalanced
<1>5. ASSUME NEW o \in claims, UNCHANGED foreground, claims' = claims \ {o},
             a \notin Inside, Inside' = Inside \cup {a}
      PROVE  ForegroundBalanced'
  <2> DEFINE rest == Holds \ {<<"claim", o>>}
  <2>1. Cardinality(rest) = n - 1 /\ IsFiniteSet(rest)
    BY <1>0, <1>5, <1>d, <1>n, HoldsCount, FS_Subset
  <2>2. <<"call", a>> \notin rest /\ Holds' = rest \cup {<<"call", a>>}
    BY <1>5 DEF Holds
  <2> HIDE DEF rest
  <2>3. Cardinality(Holds') = n
    BY <1>n, <2>1, <2>2, FS_AddElement
  <2> QED BY <1>5, <1>b, <2>3 DEF ForegroundBalanced
<1> QED BY <1>1, <1>2, <1>3, <1>4, <1>5

\* Ending a claim: the discard passes it to the caller, the release gives it back.
LEMMA EndBalanced ==
    ASSUME TypeOK, CallsFit, OneByOne, ForegroundBalanced, NEW a \in Caller,
           Discard(a) \/ Release(a)
    PROVE  ForegroundBalanced'
<1>1. CASE Discard(a)
  <2>1. a \notin Inside /\ Inside' = Inside \cup {a}
    BY <1>1, InsideMoves DEF Discard, Stay, Holding
  <2>2. CASE call[a].op \in claims
    BY <1>1, <2>1, <2>2, BalanceMoves DEF Discard
  <2>3. CASE call[a].op \notin claims
    BY <1>1, <2>3 DEF Discard, OneByOne, ForegroundBalanced
  <2> QED BY <2>2, <2>3
<1>2. CASE Release(a)
  <2>1. PICK p \in {"ends", "policy", "idle", "run"} : GoTo(a, p)
    BY <1>2 DEF Release, Return, Stay, Leave
  <2>2. a \in Inside /\ Inside' = Inside \ {a}
    BY <1>2, <2>1, InsideMoves DEF Release, Holding
  <2> QED BY <1>2, <2>2, BalanceMoves DEF Release
<1> QED BY <1>1, <1>2

\* Only leases and claims change what holds the foreground, and the counter
\* with it.
LEMMA BalancedStep ==
    ASSUME TypeOK, CallsFit, LeadFits, OneByOne, ForegroundBalanced, Next
    PROVE  ForegroundBalanced'
<1>m. ASSUME NEW a \in Caller, NEW p, GoTo(a, p), at[a] \notin Holding, p \notin Holding,
             UNCHANGED <<claims, foreground>>, raced => raced'
      PROVE  ForegroundBalanced'
  <2>1. Inside' = Inside
    BY <1>m, InsideMoves
  <2> QED BY <1>m, <2>1, BalanceMoves
<1>u. ASSUME UNCHANGED <<at, claimVars>> PROVE ForegroundBalanced'
  <2>1. Inside' = Inside
    BY <1>u DEF Inside
  <2> QED BY <1>u, <2>1, BalanceMoves DEF claimVars
<1>1. CASE Worker \/ Probe
  BY <1>1, <1>u, WorkerFrame DEF callVars
<1>2. ASSUME NEW t \in Thread, ThreadStep(t) PROVE ForegroundBalanced'
  <2>1. t \in Caller
    BY DEF Caller
  <2>2. CASE Discard(t) \/ Release(t)
    BY <2>1, <2>2, EndBalanced
  <2>3. CASE Enter(t) \/ Begin(t)
    <3>1. t \notin Inside /\ Inside' = Inside \cup {t}
      BY <2>1, <2>3, InsideMoves DEF Enter, Begin, Stay, Holding
    <3> QED BY <2>3, <3>1, BalanceMoves DEF Enter, Begin
  <2>4. CASE EndCall(t)
    <3>1. PICK p \in {"policy", "idle"} : GoTo(t, p)
      BY <2>4 DEF EndCall, Stay, Leave
    <3>2. Inside' = Inside \ {t} /\ (t \in Inside <=> at[t] = "leased") /\ UNCHANGED <<claims, raced>>
      BY <2>1, <2>4, <3>1, InsideMoves DEF EndCall, Holding
    <3>3. CASE at[t] = "leased"
      BY <2>4, <3>2, <3>3, BalanceMoves DEF EndCall
    <3>4. CASE at[t] = "bare"
      BY <2>4, <3>2, <3>4, BalanceMoves DEF EndCall
    <3> QED BY <2>4, <3>3, <3>4 DEF EndCall
  <2>5. CASE Record(t)
    <3>1. PICK p \in {"run", "test"} : GoTo(t, p)
      BY <2>5 DEF Record, Answered
    <3>2. t \in Inside /\ Inside' = Inside \ {t}
      BY <2>1, <2>5, <3>1, InsideMoves DEF Record, Holding
    <3>3. call[t].op \in Operation
      BY <2>1, <2>5 DEF Record, CallsFit, Fits, WithOperation
    <3>4. CASE call[t].op \in claims
      BY <2>1, <2>5, <3>4 DEF Record, OneByOne, ForegroundBalanced
    <3>5. CASE call[t].op \notin claims
      BY <2>5, <3>2, <3>3, <3>5, BalanceMoves DEF Record
    <3> QED BY <3>4, <3>5
  <2>6. ASSUME NEW o \in Operation \cup {None}, BeginCall(t, o) PROVE ForegroundBalanced'
    <3>1. PICK p \in {"enter", "bare"} : GoTo(t, p)
      BY <2>6 DEF BeginCall
    <3> QED BY <1>m, <2>1, <2>6, <3>1 DEF BeginCall, Holding, claimVars
  <2>7. CASE Register(t)
    BY <1>u, <2>7 DEF Register
  <2>8. CASE ReadPolicy(t) \/ ReadSession(t) \/ ReadGeneration(t) \/ Schedule(t)
    <3>1. PICK p \in {"session", "idle", "generation", "schedule"} : GoTo(t, p)
      BY <2>8 DEF ReadPolicy, ReadSession, ReadGeneration, Schedule, Stay, Leave
    <3> QED BY <1>m, <2>1, <2>8, <3>1 DEF ReadPolicy, ReadSession, ReadGeneration, Schedule, Holding,
                 claimVars
  <2>9. ASSUME NEW o \in Operation, StartTask(t, o) PROVE ForegroundBalanced'
    BY <1>m, <2>1, <2>9 DEF StartTask, Holding, claimVars
  <2>10. CASE Claim(t) \/ Check(t)
    <3>1. PICK p \in {"check", "run", "test", "begin"} : GoTo(t, p)
      BY <2>10 DEF Claim, Check, Stay, Answered
    <3>2. UNCHANGED <<claims, foreground>> /\ (raced => raced')
      BY <2>10 DEF Claim, Check, claimVars
    <3> QED BY <1>m, <2>1, <2>10, <3>1, <3>2 DEF Claim, Check, Holding
  <2>11. CASE CommitTask(t) \/ EndTask(t)
    <3>1. PICK p \in {"test", "idle"} : GoTo(t, p)
      BY <2>11 DEF CommitTask, EndTask, Leave
    <3> QED BY <1>m, <2>1, <2>11, <3>1 DEF CommitTask, EndTask, Holding, claimVars
  <2>12. CASE Test(t)
    <3>1. PICK p \in {"discard", "ends", "policy", "idle", "run"} : GoTo(t, p)
      BY <2>12 DEF Test, Return, Stay, Leave
    <3>2. UNCHANGED <<claims, foreground>> /\ (raced => raced')
      BY <2>12 DEF Test
    <3> QED BY <1>m, <2>1, <2>12, <3>1, <3>2 DEF Test, Holding
  <2> QED BY <1>2, <2>2, <2>3, <2>4, <2>5, <2>6, <2>7, <2>8, <2>9, <2>10, <2>11, <2>12 DEF ThreadStep
<1>3. ASSUME Lifecycle PROVE ForegroundBalanced'
  <2>1. Lead \in Caller
    BY DEF Caller
  <2>2. CASE Discard(Lead) \/ Release(Lead)
    BY <2>1, <2>2, EndBalanced
  <2>3. ASSUME NEW r \in Root, Open(r) PROVE ForegroundBalanced'
    <3>1. PICK p \in {"ends", "switch"} : GoTo(Lead, p)
      BY <2>3 DEF Open, LeaveFirst
    <3>2. at[Lead] \notin Holding
      BY <2>1, <2>3 DEF Open, LeadFits, Holding, CallsFit, Fits, LeadPlace
    <3> QED BY <1>m, <2>1, <2>3, <3>1, <3>2 DEF Open, Holding, claimVars
  <2>4. CASE CloseProject \/ Disable
    <3>1. PICK p \in {"ends", "switch"} : GoTo(Lead, p)
      BY <2>4 DEF CloseProject, Disable, LeaveFirst
    <3>2. at[Lead] \notin Holding
      BY <2>1, <2>4 DEF CloseProject, Disable, LeadFits, Holding
    <3> QED BY <1>m, <2>1, <2>4, <3>1, <3>2 DEF CloseProject, Disable, Holding, claimVars
  <2>5. CASE Enable
    BY <1>u, <2>5 DEF Enable, callVars
  <2>6. ASSUME NEW o \in Operation, EndNext(o) PROVE ForegroundBalanced'
    <3>1. CASE o \in claims
      BY <1>m, <2>1, <2>6, <3>1 DEF EndNext, Holding
    <3>2. CASE o \notin claims
      BY <1>u, <2>6, <3>2 DEF EndNext, claimVars
    <3> QED BY <3>1, <3>2
  <2>7. CASE Cancel \/ GiveUp \/ Switch \/ Load
    <3>1. PICK p \in {"switch", "idle", "load"} : GoTo(Lead, p)
      BY <2>7 DEF Cancel, GiveUp, Switch, Load, Stay, Leave
    <3> QED BY <1>m, <2>1, <2>7, <3>1 DEF Cancel, GiveUp, Switch, Load, Holding, claimVars
  <2> QED BY <1>3, <2>2, <2>3, <2>4, <2>5, <2>6, <2>7 DEF Lifecycle
<1> QED BY <1>1, <1>2, <1>3 DEF Next

----------------------------------------------------------------------------
(* What those who feed the worker do to it.                                *)

\* Nothing.
Elsewhere ==
    /\ UNCHANGED <<queueVars, project, generation>>
    /\ Leaving' => Leaving

\* They schedule a job, for the project that is open or for a stranded pair.
Scheduled ==
    /\ UNCHANGED <<project, generation, lead>> /\ at'[Lead] = at[Lead]
    /\ \E j \in Job :
        /\ Enqueue(j)
        /\ stranded \subseteq stranded'
        /\ Leaving \/ Pair(j) # <<project, generation>> => Pair(j) \in stranded'

\* They cancel the project that is open.
Left ==
    /\ project \in Root /\ CancelQueued(project)
    /\ UNCHANGED <<project, generation>>

\* They move on from a project that has been cancelled, that is stranded, or
\* that was not there.
Moved ==
    /\ UNCHANGED <<jobs, cancelled, status, idle, owed>>
    /\ stranded \subseteq stranded'
    /\ Leaving \/ project = None \/ <<project, generation>> \in stranded'

\* A thread schedules at most.
LEMMA ThreadEffect ==
    ASSUME TypeOK, CallsFit, NEW t \in Thread, ThreadStep(t)
    PROVE  UNCHANGED workerVars /\ (Elsewhere \/ Scheduled)
<1>1. UNCHANGED <<workerVars, project, generation, lead>> /\ at'[Lead] = at[Lead]
  BY ThreadFrame DEF serviceVars, leadVars
<1>2. CASE UNCHANGED queueVars
  BY <1>1, <1>2 DEF Elsewhere, Leaving
<1>3. CASE Schedule(t)
  <2>1. /\ ThreadJob(t) \in Job /\ Enqueue(ThreadJob(t)) /\ stranded \subseteq stranded'
        /\ Leaving \/ Pair(ThreadJob(t)) # <<project, generation>>
           => Pair(ThreadJob(t)) \in stranded'
    BY <1>3, ThreadJobType
  <2> QED BY <1>1, <2>1 DEF Scheduled
<1> QED BY <1>1, <1>2, <1>3
        DEF ThreadStep, BeginCall, Enter, Register, EndCall, ReadPolicy, ReadSession,
            ReadGeneration, StartTask, Claim, Check, Begin, Record, CommitTask, EndTask, Test,
            Discard, Release

\* Lead cancels, moves on, or neither.
LEMMA LeadEffect ==
    ASSUME TypeOK, CallsFit, LeadFits, Lifecycle
    PROVE  UNCHANGED workerVars /\ (Elsewhere \/ Left \/ Moved)
<1>0. Lead \in Caller
  BY DEF Caller
<1>1. UNCHANGED workerVars
  BY DEF Lifecycle, Open, CloseProject, Disable, Enable, EndNext, Discard, Release, Cancel, GiveUp,
         Switch, Load
<1>g. ASSUME NEW p, GoTo(Lead, p) PROVE at'[Lead] = p
  BY <1>0, <1>g DEF GoTo, TypeOK
<1>2. ASSUME NEW r \in Root, Open(r) PROVE Elsewhere \/ Moved
  <2>1. UNCHANGED <<project, generation, jobs, turns, cancelled, status, idle, owed>>
        /\ stranded' = IF project = r THEN stranded \cup {<<r, generation>>} ELSE stranded
    BY <1>2 DEF Open, serviceVars
  <2>2. CASE project \notin {None, r}
    <3>1. at'[Lead] = "ends"
      BY <1>2, <1>g, <2>2 DEF Open, LeaveFirst
    <3> QED BY <2>1, <2>2, <3>1 DEF Elsewhere, Leaving, queueVars
  <2>3. CASE project \in {None, r}
    BY <2>1, <2>3 DEF Moved
  <2> QED BY <2>2, <2>3
<1>3. CASE CloseProject \/ Disable
  <2>1. lead' = "disable" \/ at'[Lead] = "ends"
    BY <1>3, <1>g DEF CloseProject, Disable, LeaveFirst
  <2> QED BY <1>3, <2>1 DEF CloseProject, Disable, Elsewhere, Leaving, serviceVars
<1>4. CASE Enable
  BY <1>4 DEF Enable, Elsewhere, Leaving, callVars, leadVars
<1>5. CASE (\E o \in Operation : EndNext(o)) \/ Discard(Lead) \/ Release(Lead)
  <2>1. UNCHANGED <<queueVars, project, generation>>
    BY <1>5 DEF EndNext, Discard, Release, serviceVars
  <2>2. at'[Lead] = at[Lead] \/ at'[Lead] \in {"discard", "release", "ends"}
    BY <1>5, <1>g DEF EndNext, Discard, Release, Return, Stay
  <2>3. at[Lead] \notin {"switch", "load"}
    BY <1>5 DEF EndNext, Discard, Release
  <2>4. ~Leaving'
    BY <2>2, <2>3 DEF Leaving
  <2> QED BY <1>1, <2>1, <2>4 DEF Elsewhere
<1>6. CASE Cancel
  BY <1>6 DEF Cancel, LeadFits, Left, serviceVars
<1>7. CASE GiveUp
  BY <1>7 DEF GiveUp, Elsewhere, Leaving, serviceVars
<1>8. CASE Switch
  <2>1. CASE lead = "disable"
    BY <1>8, <2>1 DEF Switch, Elsewhere, Leaving
  <2>2. CASE lead # "disable"
    <3>1. Leaving
      BY <1>8, <2>2 DEF Switch, LeadFits, Leaving, TypeOK
    <3> QED BY <1>8, <3>1 DEF Switch, Moved, queueVars
  <2> QED BY <2>1, <2>2
<1>9. CASE Load
  <2>1. Leaving
    BY <1>9 DEF Load, LeadFits, Leaving, TypeOK
  <2> QED BY <1>9, <2>1 DEF Load, Moved, queueVars
<1> QED BY <1>1, <1>2, <1>3, <1>4, <1>5, <1>6, <1>7, <1>8, <1>9 DEF Lifecycle

\* Whatever is not a step of the worker leaves it where it is.
LEMMA OtherEffect ==
    ASSUME TypeOK, CallsFit, LeadFits, Next, ~Worker
    PROVE  UNCHANGED workerVars /\ (Elsewhere \/ Scheduled \/ Left \/ Moved)
<1>1. CASE Probe
  BY <1>1 DEF Probe, Elsewhere, Leaving, serviceVars, callVars, leadVars
<1> QED BY <1>1, ThreadEffect, LeadEffect DEF Next

----------------------------------------------------------------------------
(* The other parts of the invariant.                                       *)

\* Wherever the worker is, the job it has there is a job of that kind.
LEMMA WorkerStep ==
    ASSUME TypeOK, CallsFit, LeadFits, WorkerFits, Next
    PROVE  WorkerFits'
<1> USE DEF WorkerFits
<1>1. CASE ~Worker
  BY <1>1, OtherEffect DEF workerVars
<1>2. CASE Rest
  BY <1>2 DEF Rest, workerVars
<1>3. CASE Take
  BY <1>3 DEF Take, TypeOK
<1>4. CASE Admit
  BY <1>4 DEF Admit, Stop
<1>5. CASE Capture
  <2>1. /\ Inputs \in Artifact \cup {0} /\ <<job.root, job.op, Inputs>> \in Run
    BY <1>5, InputsType DEF Capture
  <2>2. manifest[<<job.root, job.op, Inputs>>] \in 0 .. Chunks
    BY <2>1 DEF TypeOK
  <2> QED BY <1>5, <2>2, BoundsAssumption DEF Capture, Complete
<1>6. CASE CaptureFails \/ PublishFails
  BY <1>6 DEF CaptureFails, PublishFails
<1>7. CASE Cut \/ ChunkRaises
  BY <1>7 DEF Cut, ChunkRaises, Stop
<1>8. CASE Publish
  <2>1. /\ next' = next + 1 /\ UNCHANGED <<job, captured>> /\ captured # 0 /\ next < Chunks
        /\ IF Complete(next') THEN pc' = "finish" ELSE pc' = "hold"
    BY <1>8 DEF Publish
  <2>2. next \in 0 .. Chunks
    BY DEF TypeOK
  <2> QED BY <1>8, <2>1, <2>2, BoundsAssumption DEF Complete, Publish
<1>9. CASE Finish
  BY <1>9 DEF Finish
<1> QED BY <1>1, <1>2, <1>3, <1>4, <1>5, <1>6, <1>7, <1>8, <1>9 DEF Worker

\* Jobs, queued or running, of projects that were left are cancelled.
LEMMA LiveStep ==
    ASSUME TypeOK, CallsFit, LeadFits, WorkerFits, QueueIsLive, RunningIsLive, Next
    PROVE  QueueIsLive' /\ RunningIsLive'
<1> USE DEF QueueIsLive, RunningIsLive, InForce
<1>0. \A j \in Job : Pair(j)[1] \in Root /\ Pair(j)[1] # None /\ Pair(j)[1] = j.root
  BY NoneAssumption DEF Job, Pair
<1>1. CASE ~Worker
  <2>1. UNCHANGED <<pc, job>> /\ (Elsewhere \/ Scheduled \/ Left \/ Moved)
    BY <1>1, OtherEffect DEF workerVars
  <2>j. jobs \subseteq Job /\ (pc # "wait" => job \in Job)
    BY DEF TypeOK, WorkerFits
  <2>2. CASE Elsewhere
    BY <2>1, <2>2 DEF Elsewhere, Pair, queueVars
  <2>3. CASE Scheduled
    <3>1. PICK j \in Job :
            /\ Enqueue(j)
            /\ stranded \subseteq stranded'
            /\ Leaving \/ Pair(j) # <<project, generation>> => Pair(j) \in stranded'
      BY <2>3 DEF Scheduled
    <3>2. /\ cancelled' = cancelled \ {Pair(j)}
          /\ jobs' \subseteq jobs \cup {j}
          /\ UNCHANGED <<project, generation>> /\ Leaving' = Leaving
      BY <2>3, <3>1 DEF Enqueue, Scheduled, Leaving
    <3>3. InForce(Pair(j))'
      BY <3>1, <3>2 DEF Pair
    <3>4. \A x : InForce(x) => InForce(x)'
      BY <3>1, <3>2, <3>3 DEF Pair
    <3>5. QueueIsLive'
      BY <3>2, <3>3, <3>4 DEF Pair
    <3>6. RunningIsLive'
      BY <2>1, <3>4 DEF Pair
    <3> QED BY <3>5, <3>6
  <2>4. CASE Left
    <3>1. /\ cancelled' = cancelled \cup {<<project, generation>>}
          /\ jobs' = {j \in jobs : j.root # project} /\ stranded' = stranded
          /\ UNCHANGED <<project, generation>>
      BY <2>4 DEF Left, CancelQueued
    <3>2. \A x : InForce(x) => InForce(x)'
      BY <3>1
    <3>3. QueueIsLive'
      <4>1. \A j \in jobs' : j \in jobs /\ Pair(j) # <<project, generation>>
        BY <1>0, <2>j, <3>1 DEF Pair
      <4> QED BY <3>1, <3>2, <4>1 DEF Pair
    <3>4. RunningIsLive'
      BY <2>1, <3>2 DEF Pair
    <3> QED BY <3>3, <3>4
  <2>5. CASE Moved
    <3>1. /\ UNCHANGED <<cancelled, jobs>> /\ stranded \subseteq stranded'
          /\ Leaving \/ project = None \/ <<project, generation>> \in stranded'
      BY <2>5 DEF Moved
    <3>2. \A j \in Job : InForce(Pair(j)) => InForce(Pair(j))'
      BY <1>0, <3>1 DEF Pair
    <3> QED BY <2>1, <2>j, <3>1, <3>2 DEF Pair
  <2> QED BY <2>1, <2>2, <2>3, <2>4, <2>5
<1>2. CASE Worker
  <2>1. UNCHANGED <<project, generation, stranded, lead, at>>
    BY <1>2, WorkerFrame DEF serviceVars, leadVars, callVars
  <2>2. \A x : cancelled' = cancelled /\ InForce(x) => InForce(x)'
    BY <2>1 DEF Leaving
  <2>3. CASE Take
    BY <2>2, <2>3 DEF Take, Pair
  <2>4. CASE ~Take
    <3>1. UNCHANGED <<jobs, cancelled>>
      BY <1>2, <2>4 DEF Worker, Rest, Admit, Capture, CaptureFails, Cut, ChunkRaises, Publish,
                PublishFails, Finish, Stop, SetStatus, SetStatusOfCapture, queueVars
    <3>2. pc' = "wait" \/ (pc # "wait" /\ job' = job)
      BY <1>2, <2>4 DEF Worker, Rest, Admit, Capture, CaptureFails, Cut, ChunkRaises, Publish,
                PublishFails, Finish, Stop, workerVars
    <3> QED BY <2>2, <3>1, <3>2 DEF Pair
  <2> QED BY <2>3, <2>4
<1> QED BY <1>1, <1>2

\* An operation whose inputs are due stays queued, or with the worker.
LEMMA OwedStep ==
    ASSUME TypeOK, CallsFit, LeadFits, WorkerFits, QueueIsLive, OwedIsDue, Next
    PROVE  OwedIsDue'
<1>1. CASE ~Worker
  <2>1. /\ UNCHANGED <<pc, job>>
        /\ Elsewhere \/ Scheduled \/ Left \/ Moved
    BY <1>1, OtherEffect DEF workerVars
  <2>2. CASE Elsewhere \/ Moved
    <3>1. UNCHANGED <<owed, jobs, cancelled>>
      BY <2>2 DEF Elsewhere, Moved, queueVars
    <3>2. \A k : Queued(k) => Queued(k)'
      BY <3>1 DEF Queued, Key
    <3>3. \A k : BeingDone(k) => BeingDone(k)'
      BY <2>1, <3>1 DEF BeingDone, Cancelled, Key, Pair
    <3> QED BY <3>1, <3>2, <3>3 DEF OwedIsDue
  <2>3. CASE Scheduled
    <3>1. PICK j \in Job : Enqueue(j)
      BY <2>3 DEF Scheduled
    <3>2. /\ jobs' = {q \in jobs : Key(q) # Key(j)} \cup {j}
          /\ owed' = owed \cup {Key(j)}
          /\ cancelled' \subseteq cancelled
      BY <3>1 DEF Enqueue
    <3>3. Queued(Key(j))'
      BY <3>2 DEF Queued, Key
    <3>4. \A k : k # Key(j) /\ Queued(k) => Queued(k)'
      BY <3>2 DEF Queued, Key
    <3>5. \A k : BeingDone(k) => BeingDone(k)'
      BY <2>1, <3>2 DEF BeingDone, Cancelled, Key, Pair
    <3> QED BY <3>2, <3>3, <3>4, <3>5 DEF OwedIsDue
  <2>4. CASE Left
    <3>1. /\ owed' = {k \in owed : k[1] # project}
          /\ jobs' = {j \in jobs : j.root # project}
          /\ cancelled' = cancelled \cup {<<project, generation>>}
      BY <2>4 DEF Left, CancelQueued
    <3>2. \A k : k[1] # project /\ Queued(k) => Queued(k)'
      BY <3>1 DEF Queued, Key
    <3>3. \A k : k[1] # project /\ BeingDone(k) => BeingDone(k)'
      BY <2>1, <3>1 DEF BeingDone, Cancelled, Key, Pair
    <3> QED BY <3>1, <3>2, <3>3 DEF OwedIsDue
  <2> QED BY <2>1, <2>2, <2>3, <2>4
<1>2. CASE Worker
  <2> SUFFICES ASSUME NEW k \in owed' PROVE Queued(k)' \/ BeingDone(k)'
    BY DEF OwedIsDue
  <2>1. CASE Rest
    BY <2>1 DEF Rest, OwedIsDue, Queued, BeingDone
  <2>2. CASE Take
    <3>1. PICK first \in jobs : job' = first /\ jobs' = jobs \ {first}
      BY <2>2 DEF Take
    <3>2. pc = "wait" /\ pc' = "gate" /\ UNCHANGED <<owed, cancelled>>
      BY <2>2 DEF Take
    <3>3. PICK q \in jobs : Key(q) = k
      BY <3>2 DEF OwedIsDue, Queued, BeingDone
    <3>4. CASE q = first
      BY <3>1, <3>2, <3>3, <3>4 DEF BeingDone, Cancelled, Key, Pair, QueueIsLive
    <3>5. CASE q # first
      BY <3>1, <3>3, <3>5 DEF Queued, Key
    <3> QED BY <3>4, <3>5
  <2>3. CASE Admit
    <3>1. UNCHANGED <<owed, jobs, cancelled, job>>
      BY <2>3 DEF Admit, Stop, SetStatus, queueVars
    <3>2. ~Cancelled /\ pc = "gate" => pc' = "capture"
      BY <2>3 DEF Admit
    <3>3. BeingDone(k) => BeingDone(k)'
      BY <2>3, <3>1, <3>2 DEF Admit, BeingDone, Cancelled, Key, Pair
    <3>4. Queued(k) => Queued(k)'
      BY <3>1 DEF Queued, Key
    <3> QED BY <3>1, <3>3, <3>4 DEF OwedIsDue
  <2>4. CASE Capture \/ CaptureFails
    <3>1. owed' = owed \ {Key(job)} /\ jobs' = jobs
      BY <2>4 DEF Capture, CaptureFails, SetStatusOfCapture
    <3>2. Queued(k)
      BY <3>1 DEF OwedIsDue, BeingDone
    <3> QED BY <3>1, <3>2 DEF Queued, Key
  <2>5. CASE Cut \/ ChunkRaises \/ Publish \/ PublishFails \/ Finish
    <3>1. UNCHANGED <<owed, jobs>> /\ pc \notin {"gate", "capture"}
      BY <2>5 DEF Cut, ChunkRaises, Publish, PublishFails, Finish, Stop, SetStatus, queueVars
    <3>2. Queued(k)
      BY <3>1 DEF OwedIsDue, BeingDone
    <3> QED BY <3>1, <3>2 DEF Queued, Key
  <2> QED BY <1>2, <2>1, <2>2, <2>3, <2>4, <2>5 DEF Worker
<1> QED BY <1>1, <1>2

\* The status of an operation follows its jobs.
LEMMA ShownStep ==
    ASSUME TypeOK, CallsFit, LeadFits, WorkerFits, ShownIsThere, Next
    PROVE  ShownIsThere'
<1> USE DEF ShownIsThere
<1>1. CASE ~Worker
  <2>1. UNCHANGED <<pc, job>> /\ (Elsewhere \/ Scheduled \/ Left \/ Moved)
    BY <1>1, OtherEffect DEF workerVars
  <2>2. CASE Elsewhere \/ Moved
    BY <2>1, <2>2 DEF Elsewhere, Moved, queueVars
  <2>3. CASE Scheduled
    <3>1. PICK j \in Job : Enqueue(j)
      BY <2>3 DEF Scheduled
    <3>2. /\ jobs' = {q \in jobs : Key(q) # Key(j)} \cup {j}
          /\ status' = [status EXCEPT ![j.op] = "ongoing"]
      BY <3>1 DEF Enqueue
    <3>3. \A o \in Operation : o # j.op => status'[o] = status[o]
      BY <3>2 DEF TypeOK
    <3>4. \A q \in jobs : q.op # j.op => q \in jobs'
      BY <3>2 DEF Key
    <3> QED BY <2>1, <3>2, <3>3, <3>4
  <2>4. CASE Left
    <3>1. /\ jobs' = {j \in jobs : j.root # project}
          /\ status' = [o \in Operation |->
                          IF \E j \in jobs : j.root = project /\ j.op = o
                          THEN "cancelled" ELSE status[o]]
      BY <2>4 DEF Left, CancelQueued
    <3> QED BY <2>1, <3>1
  <2> QED BY <2>1, <2>2, <2>3, <2>4
<1>s. ASSUME NEW s \in State, s # "ongoing", jobs' = jobs, job' = job, pc # "wait",
             status' = [status EXCEPT ![job.op] = s]
      PROVE  ShownIsThere'
  <2>1. job.op \in Operation
    BY <1>s, InputsType
  <2>2. \A o \in Operation : status'[o] = "ongoing" => o # job.op /\ status[o] = "ongoing"
    BY <1>s, <2>1 DEF TypeOK
  <2> QED BY <1>s, <2>2
<1>o. ASSUME pc' \notin {"wait", "finish"}, pc # "wait", job' = job, jobs' = jobs,
             NEW s \in State, status' = [status EXCEPT ![job.op] = s]
      PROVE  ShownIsThere'
  <2>1. \A o \in Operation : o # job.op => status'[o] = status[o]
    BY <1>o DEF TypeOK
  <2> QED BY <1>o, <2>1
<1>u. ASSUME UNCHANGED <<jobs, status, job>>, pc \in {"wait", "finish"} \/ pc' \notin {"wait", "finish"}
      PROVE  ShownIsThere'
  BY <1>u
<1>2. CASE Rest
  BY <1>u, <1>2 DEF Rest, workerVars
<1>3. CASE Take
  <2>1. PICK first \in jobs : job' = first /\ jobs' = jobs \ {first}
    BY <1>3 DEF Take
  <2>2. pc = "wait" /\ pc' = "gate" /\ status' = status
    BY <1>3 DEF Take
  <2> QED BY <2>1, <2>2
<1>4. CASE Admit
  <2>1. CASE Cancelled
    BY <1>s, <1>4, <2>1 DEF Admit, Stop, SetStatus, State
  <2>2. CASE ~Cancelled
    <3>1. pc' \in {"capture", "cut"} /\ pc # "wait" /\ job' = job
          /\ (SetStatus("ongoing") \/ UNCHANGED queueVars)
      BY <1>4, <2>2 DEF Admit
    <3> QED BY <1>u, <1>o, <3>1 DEF SetStatus, State, queueVars
  <2> QED BY <2>1, <2>2
<1>5. CASE Capture
  <2> DEFINE n == manifest[<<job.root, job.op, Inputs>>]
  <2>1. /\ pc # "wait" /\ job' = job
        /\ IF Complete(n) THEN pc' = "finish" /\ SetStatusOfCapture("complete")
           ELSE pc' = "hold" /\ SetStatusOfCapture(status[job.op])
    BY <1>5 DEF Capture
  <2>s. status[job.op] \in State
    BY <2>1, InputsType DEF TypeOK
  <2> HIDE DEF n
  <2>2. CASE Complete(n)
    BY <1>s, <2>1, <2>2 DEF SetStatusOfCapture, State
  <2>3. CASE ~Complete(n)
    BY <1>o, <2>1, <2>s, <2>3 DEF SetStatusOfCapture
  <2> QED BY <2>2, <2>3
<1>6. CASE CaptureFails \/ PublishFails
  <2>1. pc # "wait" /\ job' = job /\ (SetStatus("failed") \/ SetStatusOfCapture("failed"))
    BY <1>6 DEF CaptureFails, PublishFails
  <2> QED BY <1>s, <2>1 DEF SetStatus, SetStatusOfCapture, State
<1>7. CASE Cut
  BY <1>u, <1>7 DEF Cut, queueVars
<1>8. CASE ChunkRaises
  <2>1. CASE Cancelled
    BY <1>s, <1>8, <2>1 DEF ChunkRaises, Stop, SetStatus, State
  <2>2. CASE ~Cancelled
    BY <1>u, <1>8, <2>2 DEF ChunkRaises, queueVars
  <2> QED BY <2>1, <2>2
<1>9. CASE Publish
  <2>1. CASE Complete(next')
    BY <1>s, <1>9, <2>1 DEF Publish, SetStatus, State
  <2>2. CASE ~Complete(next')
    BY <1>o, <1>9, <2>2 DEF Publish, SetStatus, State
  <2> QED BY <2>1, <2>2
<1>10. CASE Finish
  BY <1>10 DEF Finish
<1> QED BY <1>1, <1>2, <1>3, <1>4, <1>5, <1>6, <1>7, <1>8, <1>9, <1>10 DEF Worker

\* _idle is set only when nothing is queued and nothing is running.
LEMMA IdleStep ==
    ASSUME TypeOK, CallsFit, LeadFits, IdleIsEmpty, Next
    PROVE  IdleIsEmpty'
<1> USE DEF IdleIsEmpty
<1>1. CASE ~Worker
  <2>1. pc' = pc /\ (Elsewhere \/ Scheduled \/ Left \/ Moved)
    BY <1>1, OtherEffect DEF workerVars
  <2> QED BY <2>1 DEF Elsewhere, Scheduled, Enqueue, Left, CancelQueued, Moved, queueVars
<1>2. CASE Rest \/ Take
  BY <1>2 DEF Rest, Take, workerVars
<1>3. CASE Finish
  BY <1>3 DEF Finish
<1>4. CASE Worker /\ ~Rest /\ ~Take /\ ~Finish
  <2>1. pc # "wait" /\ idle' = idle
    BY <1>4 DEF Worker, Admit, Capture, CaptureFails, Cut, ChunkRaises, Publish, PublishFails,
                Stop, SetStatus, SetStatusOfCapture, queueVars
  <2>2. ~idle
    BY <2>1
  <2> QED BY <2>1, <2>2
<1> QED BY <1>1, <1>2, <1>3, <1>4

----------------------------------------------------------------------------
(* The theorems.                                                           *)

\* The inductive invariant holds initially.
LEMMA InitInv ==
    ASSUME Init
    PROVE  Inv
<1>1. NoCall \in Call /\ "idle" \in Place
  BY BoundsAssumption DEF NoCall, Call, Generation, Place
<1>2. 0 \in 0 .. Chunks /\ 0 \in 0 .. MaxCalculations /\ 0 \in Generation /\ 0 \in 0 .. MaxForeground
  BY BoundsAssumption DEF Generation
<1>3. TypeOK
  BY <1>1, <1>2 DEF Init, TypeOK, State
<1>4. ForegroundBalanced
  <2>1. Holds = {}
    BY DEF Init, Holds, Inside
  <2> QED BY <2>1, FS_EmptySet DEF Init, ForegroundBalanced
<1>5. CallsFit
  BY DEF Init, CallsFit, Fits, NoCall, WithOperation, WithProject, LeadPlace
<1>6. LeadFits /\ OneByOne
  BY DEF Init, LeadFits, OneByOne, Caller
<1>7. WorkerFits /\ QueueIsLive /\ RunningIsLive /\ OwedIsDue /\ IdleIsEmpty
  BY DEF Init, WorkerFits, QueueIsLive, RunningIsLive, OwedIsDue, IdleIsEmpty
<1>8. ShownIsThere
  BY DEF Init, ShownIsThere
<1> QED BY <1>3, <1>4, <1>5, <1>6, <1>7, <1>8 DEF Inv

\* It depends on the variables alone.
LEMMA StutterInv ==
    ASSUME Inv, UNCHANGED vars
    PROVE  Inv'
<1>1. UNCHANGED <<serviceVars, camVars, claimVars, callVars, leadVars, queueVars, workerVars,
                  pressure>>
  BY DEF vars
<1>2. TypeOK'
  BY <1>1, SameTypes, TypeParts
     DEF Inv, TypeOK, ServiceTyped, ClaimTyped, CallTyped, LeadTyped, QueueTyped, WorkerTyped
<1>3. CallsFit' /\ LeadFits' /\ WorkerFits'
  BY <1>1 DEF Inv, CallsFit, Fits, LeadFits, WorkerFits, callVars, leadVars, serviceVars, workerVars
<1>o. OneByOne'
  BY <1>1 DEF Inv, OneByOne, Alongside, callVars, claimVars
<1>4. ForegroundBalanced'
  <2>1. Holds' = Holds
    BY <1>1 DEF Holds, Inside, claimVars, callVars
  <2> QED BY <1>1, <2>1 DEF Inv, ForegroundBalanced, claimVars
<1>5. QueueIsLive' /\ RunningIsLive'
  BY <1>1 DEF Inv, QueueIsLive, RunningIsLive, InForce, Leaving, Pair, serviceVars, callVars,
              leadVars, queueVars, workerVars
<1>6. OwedIsDue' /\ ShownIsThere' /\ IdleIsEmpty'
  BY <1>1 DEF Inv, OwedIsDue, Queued, BeingDone, Cancelled, Key, Pair, ShownIsThere, IdleIsEmpty,
              queueVars, workerVars
<1> QED BY <1>2, <1>3, <1>o, <1>4, <1>5, <1>6 DEF Inv

\* Every step keeps the inductive invariant.
LEMMA InvStep ==
    ASSUME Inv, [Next]_vars
    PROVE  Inv'
<1>1. CASE Next
  <2>1. TypeOK' /\ CallsFit' /\ LeadFits'
    BY <1>1, TypeStep DEF Inv
  <2>2. OneByOne' /\ ForegroundBalanced' /\ WorkerFits'
    BY <1>1, OneByOneStep, BalancedStep, WorkerStep DEF Inv
  <2>3. QueueIsLive' /\ RunningIsLive'
    BY <1>1, LiveStep DEF Inv
  <2>4. OwedIsDue' /\ ShownIsThere' /\ IdleIsEmpty'
    BY <1>1, OwedStep, ShownStep, IdleStep DEF Inv
  <2> QED BY <2>1, <2>2, <2>3, <2>4 DEF Inv
<1>2. CASE UNCHANGED vars
  BY <1>2, StutterInv
<1> QED BY <1>1, <1>2

\* Every reachable state satisfies the inductive invariant: the counter, queue,
\* statuses and worker of the coordinator agree with the project service and
\* its callers, whatever those do between two unlocked steps of each other.
THEOREM SimulationInvariant == Spec => []Inv
<1> QED BY InitInv, InvStep, PTL DEF Spec

\* Every variable stays within its type.
THEOREM TypeCorrect == Spec => []TypeOK
<1>1. Inv => TypeOK
  BY DEF Inv
<1> QED BY <1>1, SimulationInvariant, PTL

\* Until two callers begin, or end, one claim at once, _foreground is the number
\* of claims that ProjectService remembers, of calls inside a lease, and of
\* claims whose begin or end is half done.
THEOREM ForegroundStaysBalanced == Spec => []ForegroundBalanced
<1>1. Inv => ForegroundBalanced
  BY DEF Inv
<1> QED BY <1>1, SimulationInvariant, PTL

\* When the coordinator says that it is idle, no job is left, none is shown as
\* going on, and the inputs of every operation scheduled have been asked for
\* since, or its project has been cancelled.
THEOREM IdleIsPrepared == Spec => []IdleMeansPrepared
<1>1. Inv => IdleMeansPrepared
  <2> SUFFICES ASSUME Inv, idle PROVE IdleMeansPrepared
    BY DEF IdleMeansPrepared
  <2>1. jobs = {} /\ pc = "wait" /\ job = None
    BY DEF Inv, IdleIsEmpty, WorkerFits
  <2>2. \A o \in Operation : status[o] # "ongoing"
    BY <2>1 DEF Inv, ShownIsThere
  <2>3. owed = {}
    BY <2>1 DEF Inv, OwedIsDue, Queued, BeingDone
  <2> QED BY <2>1, <2>2, <2>3 DEF IdleMeansPrepared
<1> QED BY <1>1, SimulationInvariant, PTL

\* The worker starts a chunk only for a job of the project and generation that
\* are open, unless these were replaced without a cancellation, or scheduled
\* for while they were being left.
THEOREM CancelledJobsStop == Spec => CancelledJobStops
<1>1. Inv /\ [Next]_vars =>
        [ pc = "hold" /\ pc' = "cut" =>
            \/ Pair(job) = <<project, generation>>
            \/ Pair(job) \in stranded ]_vars
  <2> SUFFICES ASSUME Inv, Next, pc = "hold", pc' = "cut"
               PROVE  \/ Pair(job) = <<project, generation>>
                      \/ Pair(job) \in stranded
    OBVIOUS
  <2>1. Worker
    BY OtherEffect DEF Inv, workerVars
  <2>2. Admit
    BY <2>1 DEF Worker, Rest, Take, Capture, CaptureFails, Cut, ChunkRaises, Publish, PublishFails,
                Finish, workerVars
  <2>3. ~Cancelled
    BY <2>2 DEF Admit, Stop
  <2> QED BY <2>3 DEF Inv, RunningIsLive, InForce, Cancelled
<1> QED BY <1>1, SimulationInvariant, PTL DEF Spec, CancelledJobStops
=============================================================================
