-------------------------- MODULE CamSessionProofs --------------------------
(***************************************************************************)
(* Proofs about CamSession for every set of operations and any number of   *)
(* edits, calculations, saves, reopenings and posts.                       *)
(***************************************************************************)
EXTENDS CamSession, TLAPS

----------------------------------------------------------------------------
(* The records that the threads carry along, by where they are.            *)

Calls == [Caller -> {Idle} \cup Reading \cup Writing]

\* What a calculation has with it at each of its steps.
LEMMA TaskRecords ==
    ASSUME TypeOK
    PROVE  /\ task.pc = "idle" <=> task = Idle
           /\ task.pc # "idle" => task.op \in Ops
           /\ task.pc = "geometry" => task.shown \in OpState /\ task.setup \in Nat
           /\ task.pc = "toolpath" => task.begun \in OpState
           /\ task.pc = "done" => task.art \in Artifact \cup {NoArt} /\ task.result \in OpState
BY DEF TypeOK, Calculating, Idle

\* What a Save has with it at each of its steps.
LEMMA SaveRecords ==
    ASSUME TypeOK
    PROVE  /\ save.pc = "idle" <=> save = Idle
           /\ save.pc \in {"idle", "captured", "committed", "rebound", "clean", "swept"}
           /\ save.pc \in {"committed", "rebound", "clean"} => save.copy \in Snapshot
BY DEF TypeOK, Saving, Idle

\* What a post has captured.
LEMMA PostRecords ==
    ASSUME TypeOK
    PROVE  /\ post.pc = "idle" <=> post = Idle
           /\ post # Idle => post \in Posting
           /\ post # Idle => /\ post.op \in Ops /\ post.latest \in BOOLEAN
                             /\ post.source.op \in OpState /\ post.source.art \in Artifact
                             /\ post.source.setup \in Nat
BY DEF TypeOK, Posting, Idle

\* What a call has read and not yet stored.
LEMMA CallRecords ==
    ASSUME TypeOK, NEW t \in Caller
    PROVE  /\ call[t].pc = "idle" <=> call[t] = Idle
           /\ call[t].pc \in {"idle", "read", "store", "flag"}
           /\ call[t].pc # "idle" => call[t].accepted \in BOOLEAN /\ call[t].before \in Snapshot
           /\ call[t].pc \in {"store", "flag"} => call[t].held \in Snapshot
BY DEF TypeOK, Reading, Writing, Idle

(* A snapshot in which one operation and its artifact are replaced.        *)
LEMMA PutOperation ==
    ASSUME NEW s \in Snapshot, NEW o \in Ops, NEW x \in OpState, NEW m \in Artifact \cup {NoArt},
           NEW r, r = [s EXCEPT !.op[o] = x, !.meta[o] = m]
    PROVE  /\ r \in Snapshot
           /\ r.setup = s.setup
           /\ r.op = [s.op EXCEPT ![o] = x]
           /\ r.meta = [s.meta EXCEPT ![o] = m]
BY DEF Snapshot

\* Replacing the state of one operation gives a snapshot that differs there only.
LEMMA PutState ==
    ASSUME NEW s \in Snapshot, NEW o \in Ops, NEW x \in OpState,
           NEW r, r = [s EXCEPT !.op[o] = x]
    PROVE  /\ r \in Snapshot
           /\ r.setup = s.setup
           /\ r.op = [s.op EXCEPT ![o] = x]
           /\ r.meta = s.meta
BY DEF Snapshot

\* An operation marked as DIRTY keeps its content.
LEMMA MarkDirtyType ==
    ASSUME NEW x \in OpState
    PROVE  /\ MarkDirty(x) \in OpState
           /\ MarkDirty(x).status = "DIRTY"
           /\ MarkDirty(x).rev = x.rev
BY DEF MarkDirty, OpState, Status

\* What is saved differs from the memory in calculations in progress only.
LEMMA NormalizedType ==
    ASSUME NEW s \in Snapshot
    PROVE  /\ Normalized(s) \in Snapshot
           /\ Normalized(s).setup = s.setup
           /\ Normalized(s).meta = s.meta
           /\ \A o \in Ops :
                 Normalized(s).op[o] = IF s.op[o].status = "COMPUTING" THEN MarkDirty(s.op[o])
                                       ELSE s.op[o]
BY DEF Normalized, MarkDirty, Snapshot, OpState, Status

\* What is opened differs from the database only where a file is missing.
LEMMA ReconciledType ==
    ASSUME NEW s \in Snapshot
    PROVE  /\ Reconciled(s) \in Snapshot
           /\ Reconciled(s).setup = s.setup
           /\ \A o \in Ops :
                 LET lost == s.meta[o] \notin files
                     stale == lost /\ (s.meta[o] # NoArt \/ s.op[o].status = "VALID")
                 IN  /\ Reconciled(s).meta[o] = IF lost THEN NoArt ELSE s.meta[o]
                     /\ Reconciled(s).op[o] = IF stale THEN MarkDirty(s.op[o]) ELSE s.op[o]
BY DEF Reconciled, MarkDirty, Snapshot, OpState, Status

----------------------------------------------------------------------------
(* The pieces that the actions share.                                      *)

\* Within the bounds a request is counted once.
LEMMA UseType ==
    ASSUME TypeOK, NEW kind, NEW max,
           <<kind, max>> \in {<<"edits", MaxEdits>>, <<"calcs", MaxCalcs>>, <<"saves", MaxSaves>>,
                              <<"opens", MaxOpens>>, <<"posts", MaxPosts>>},
           Use(kind, max)
    PROVE  /\ used' = [used EXCEPT ![kind] = used[kind] + 1]
           /\ used' \in [edits : 0 .. MaxEdits, calcs : 0 .. MaxCalcs, saves : 0 .. MaxSaves,
                         opens : 0 .. MaxOpens, posts : 0 .. MaxPosts]
BY BoundsAssumption DEF TypeOK, Use

\* Making a posted result stale keeps the types of the post.
LEMMA StalePostType ==
    ASSUME TypeOK, NEW os, StalePost(os)
    PROVE  results' \subseteq Artifact /\ post' \in {Idle} \cup Posting
BY PostRecords DEF TypeOK, StalePost, Posting

\* The following steps of a call keep its type.
LEMMA FollowType ==
    ASSUME TypeOK, NEW t \in Caller, NEW ok \in BOOLEAN, Follow(t, ok)
    PROVE  call' \in Calls
BY DEF TypeOK, Calls, Follow, Reading

----------------------------------------------------------------------------
(* The inductive invariant.                                                *)

\* An artifact belongs to its operation, and a VALID operation has its own,
\* but for the operations ex.
SoundBut(s, ex) ==
    /\ \A o \in Ops : s.meta[o] # NoArt => s.meta[o].op = o
    /\ \A o \in Ops \ ex : ValidIsMatched(s, o)

\* So it is wherever a snapshot is kept: each of them may become the memory.
EveryCopyIsSound ==
    /\ SoundBut(snapshot, revived)
    /\ SoundBut(bound, revived)
    /\ SoundBut(disk, revived)
    /\ \A t \in Caller : call[t].pc \in {"store", "flag"} => SoundBut(call[t].held, revived)
    /\ save.pc \in {"committed", "rebound", "clean"} => SoundBut(save.copy, revived)

\* The calculation writes the session only after it has changed the memory.
CalculationWaits ==
    task.pc \in {"compute", "geometry"} => call["calculation"] = Idle

\* While an operation is calculated outside the lock it has no result, unless
\* a Save gives it an old one.
TokenIsIssued ==
    task.pc = "toolpath" =>
        /\ task.begun.gen # 0
        /\ task.op \in revived \/ snapshot.op[task.op].status # "VALID"

\* What the calculation has to commit fits together.
ResultFits ==
    task.pc = "done" =>
        /\ task.art # NoArt => task.art.op = task.op
        /\ (task.op \notin revived /\ task.result.status = "VALID") =>
               /\ task.art # NoArt
               /\ task.art.rev = task.result.rev
               /\ task.art.gen = task.result.gen
               /\ task.art.setup = task.result.setup

SourceFits == post # Idle => post.source.art.op = post.op

ResultsInv ==
    EveryCopyIsSound /\ CalculationWaits /\ TokenIsIssued /\ ResultFits /\ SourceFits

\* A thread that has changed the memory and has not yet set is_dirty.
WillDirty(t) ==
    /\ call[t].pc # "idle" /\ call[t].accepted
    /\ call[t].pc = "read" => snapshot # call[t].before
    /\ call[t].pc \in {"store", "flag"} => call[t].held # call[t].before

\* Where a Save is; calls that were refused may wait to write the session.
SaveIsAlone ==
    /\ save.pc = "captured" => bound = snapshot
    /\ save.pc \in {"committed", "rebound", "clean", "swept"} => disk = Normalized(snapshot)
    /\ save.pc \in {"committed", "rebound", "clean"} => save.copy = disk
    /\ save.pc \in {"rebound", "clean", "swept"} => bound = disk
    /\ save # Idle => \A t \in Caller : call[t].pc \in {"read", "store"} => ~call[t].accepted
    /\ save # Idle => \A t \in Caller : call[t].pc # "flag"

\* A file is missing only for a result that can no longer be committed.
FilesAreThere ==
    /\ Artifacts(snapshot) \subseteq files
    /\ Artifacts(disk) \subseteq files
    /\ (task.pc = "done" /\ task.art # NoArt /\ task.art \notin files) =>
           save.pc = "swept" \/ snapshot.op[task.op].status # "COMPUTING"

ChangesAreMarked ==
    save.pc \in {"idle", "captured"} =>
        dirty \/ snapshot = disk \/ \E t \in Caller : WillDirty(t)

MemoryIsCurrent ==
    /\ snapshot.setup = last.setup
    /\ \A o \in Ops : snapshot.op[o].rev = last.rev[o]

Current(a) == a.rev = snapshot.op[a.op].rev /\ a.setup = snapshot.setup

PostsAreCurrent ==
    /\ \A a \in results : Current(a)
    /\ (post.pc = "publish" /\ post.latest) => Current(post.source.art)

Calm ==
    /\ revived = {}
    /\ SaveIsAlone /\ FilesAreThere /\ ChangesAreMarked
    /\ MemoryIsCurrent /\ PostsAreCurrent

\* What holds as long as nothing has changed while a Save was running.
QuietInv == ~overlap => Calm

Inv == TypeOK /\ ResultsInv /\ QuietInv

\* The inductive invariant holds initially.
LEMMA InitInv == Init => Inv
<1> SUFFICES ASSUME Init PROVE Inv
  OBVIOUS
<1> USE DEF Init
<1>1. snapshot \in Snapshot
  BY DEF Snapshot, OpState, Status
<1>2. call \in Calls
  BY DEF Calls
<1>3. used \in [edits : 0 .. MaxEdits, calcs : 0 .. MaxCalcs, saves : 0 .. MaxSaves,
                 opens : 0 .. MaxOpens, posts : 0 .. MaxPosts]
  BY BoundsAssumption
<1>4. last \in [setup : Nat, rev : [Ops -> Nat]]
  OBVIOUS
<1>5. TypeOK
  BY <1>1, <1>2, <1>3, <1>4 DEF TypeOK, Calls
<1>6. SoundBut(snapshot, {})
  BY DEF SoundBut, ValidIsMatched
<1>7. ResultsInv
  BY <1>6 DEF ResultsInv, EveryCopyIsSound, CalculationWaits, TokenIsIssued, ResultFits,
              SourceFits, Idle
<1>8. QuietInv
  BY DEF QuietInv, Calm, SaveIsAlone, FilesAreThere, ChangesAreMarked, MemoryIsCurrent,
         PostsAreCurrent, Artifacts, Idle
<1> QED BY <1>5, <1>7, <1>8 DEF Inv

----------------------------------------------------------------------------
(* Types.                                                                  *)

\* Types of what a calculation of a 2D operation puts in place.
LEMMA ComputeType ==
    ASSUME TypeOK, NEW x \in OpState, NEW art \in Artifact \cup {NoArt}, Compute(x, art)
    PROVE  /\ snapshot' \in Snapshot
           /\ files' \subseteq Artifact
           /\ call' \in Calls
           /\ task' = Idle
           /\ overlap' \in BOOLEAN
           /\ UNCHANGED <<bound, dirty, disk, save, used, last, revived>>
<1>1. task.op \in Ops
  BY TaskRecords DEF Compute, Idle
<1> DEFINE m == IF art = NoArt THEN snapshot.meta[task.op] ELSE art
<1>2. snapshot' = [snapshot EXCEPT !.op[task.op] = x, !.meta[task.op] = m]
  BY DEF Compute
<1>3. m \in Artifact \cup {NoArt} /\ snapshot \in Snapshot
  BY <1>1 DEF TypeOK, Snapshot
<1>4. snapshot' \in Snapshot
  BY <1>1, <1>2, <1>3, PutOperation
<1>5. files' \subseteq Artifact
  BY DEF TypeOK, Compute
<1>6. call' \in Calls
  BY FollowType DEF Compute, Caller
<1> QED BY <1>4, <1>5, <1>6 DEF Compute, Touch, TypeOK

\* An edit or the start of a calculation keeps the types.
LEMMA TypeUser == ASSUME TypeOK, UserStep PROVE TypeOK'
<1> USE DEF Calls
<1>1. ASSUME NEW o \in Ops, EditOperation(o) PROVE TypeOK'
  <2> DEFINE x == [MarkDirty(snapshot.op[o]) EXCEPT !.rev = used.edits + 1]
  <2> DEFINE s == [snapshot EXCEPT !.op[o] = x]
  <2>0. used.edits + 1 \in Nat
    BY DEF TypeOK
  <2>m. MarkDirty(snapshot.op[o]) \in OpState
    BY MarkDirtyType DEF TypeOK, Snapshot
  <2>1. x \in OpState
    BY <2>0, <2>m DEF OpState
  <2>2. s \in Snapshot
    BY <2>1, PutState DEF TypeOK
  <2>3. Edit(s)
    BY <1>1 DEF EditOperation
  <2>4. call' \in Calls
    BY <2>2, <2>3 DEF Edit, TypeOK, Writing, Caller
  <2>5. last' \in [setup : Nat, rev : [Ops -> Nat]]
    BY <1>1, <2>0 DEF EditOperation, TypeOK
  <2> HIDE DEF s, x
  <2>6. results' \subseteq Artifact /\ post' \in {Idle} \cup Posting
    BY <2>3, StalePostType DEF Edit
  <2>7. used' \in [edits : 0 .. MaxEdits, calcs : 0 .. MaxCalcs, saves : 0 .. MaxSaves,
                   opens : 0 .. MaxOpens, posts : 0 .. MaxPosts]
    BY <2>3, UseType DEF Edit
  <2>8. snapshot' = s /\ overlap' \in BOOLEAN /\ UNCHANGED <<bound, dirty, stored, task, save, revived>>
    BY <2>3 DEF Edit, Touch, TypeOK
  <2> QED BY <2>2, <2>4, <2>5, <2>6, <2>7, <2>8 DEF TypeOK, stored
<1>2. ASSUME EditSetup PROVE TypeOK'
  <2> DEFINE s == [snapshot EXCEPT !.setup = used.edits + 1,
                                   !.op = [o \in Ops |-> MarkDirty(snapshot.op[o])]]
  <2>1. used.edits + 1 \in Nat
    BY DEF TypeOK
  <2>2. s \in Snapshot
    BY <2>1, MarkDirtyType DEF TypeOK, Snapshot
  <2>3. Edit(s)
    BY <1>2 DEF EditSetup
  <2>4. call' \in Calls
    BY <2>2, <2>3 DEF Edit, TypeOK, Writing, Caller
  <2>5. last' \in [setup : Nat, rev : [Ops -> Nat]]
    BY <1>2, <2>1 DEF EditSetup, TypeOK
  <2> HIDE DEF s
  <2>6. results' \subseteq Artifact /\ post' \in {Idle} \cup Posting
    BY <2>3, StalePostType DEF Edit
  <2>7. used' \in [edits : 0 .. MaxEdits, calcs : 0 .. MaxCalcs, saves : 0 .. MaxSaves,
                   opens : 0 .. MaxOpens, posts : 0 .. MaxPosts]
    BY <2>3, UseType DEF Edit
  <2>8. snapshot' = s /\ overlap' \in BOOLEAN /\ UNCHANGED <<bound, dirty, stored, task, save, revived>>
    BY <2>3 DEF Edit, Touch, TypeOK
  <2> QED BY <2>2, <2>4, <2>5, <2>6, <2>7, <2>8 DEF TypeOK, stored
<1>3. ASSUME NEW o \in Ops2D, Start2D(o) PROVE TypeOK'
  <2>1. task' \in Calculating
    BY <1>3 DEF Start2D, Calculating, Ops
  <2>2. used' \in [edits : 0 .. MaxEdits, calcs : 0 .. MaxCalcs, saves : 0 .. MaxSaves,
                   opens : 0 .. MaxOpens, posts : 0 .. MaxPosts]
    BY <1>3, UseType DEF Start2D, NewCalculation
  <2> QED BY <1>3, <2>1, <2>2 DEF Start2D, TypeOK, memory, stored
<1>4. ASSUME NEW o \in Ops3D, Start3D(o) PROVE TypeOK'
  <2>1. task' \in Calculating
    BY <1>4 DEF Start3D, Calculating, Ops, TypeOK, Snapshot
  <2>2. used' \in [edits : 0 .. MaxEdits, calcs : 0 .. MaxCalcs, saves : 0 .. MaxSaves,
                   opens : 0 .. MaxOpens, posts : 0 .. MaxPosts]
    BY <1>4, UseType DEF Start3D, NewCalculation
  <2> QED BY <1>4, <2>1, <2>2 DEF Start3D, TypeOK, memory, stored
<1>5. ASSUME SaveCapture PROVE TypeOK'
  <2>1. used' \in [edits : 0 .. MaxEdits, calcs : 0 .. MaxCalcs, saves : 0 .. MaxSaves,
                   opens : 0 .. MaxOpens, posts : 0 .. MaxPosts]
    BY <1>5, UseType DEF SaveCapture
  <2>2. overlap' \in BOOLEAN
    BY <1>5 DEF SaveCapture, TypeOK
  <2> QED BY <1>5, <2>1, <2>2 DEF SaveCapture, TypeOK, stored, Saving
<1>6. ASSUME Reopen PROVE TypeOK'
  <2>1. used' \in [edits : 0 .. MaxEdits, calcs : 0 .. MaxCalcs, saves : 0 .. MaxSaves,
                   opens : 0 .. MaxOpens, posts : 0 .. MaxPosts]
    BY <1>6, UseType DEF Reopen
  <2>2. results' \subseteq Artifact /\ post' \in {Idle} \cup Posting
    BY <1>6, StalePostType DEF Reopen
  <2>3. Reconciled(disk) \in Snapshot
    BY ReconciledType DEF TypeOK
  <2>4. last' \in [setup : Nat, rev : [Ops -> Nat]]
    BY <1>6, <2>3 DEF Reopen, Snapshot, OpState
  <2> QED BY <1>6, <2>1, <2>2, <2>3, <2>4 DEF Reopen, TypeOK, stored
<1>7. ASSUME NEW o \in Ops, PostCapture(o) PROVE TypeOK'
  <2>1. used' \in [edits : 0 .. MaxEdits, calcs : 0 .. MaxCalcs, saves : 0 .. MaxSaves,
                   opens : 0 .. MaxOpens, posts : 0 .. MaxPosts]
    BY <1>7, UseType DEF PostCapture
  <2>2. Source(o) \in [op : OpState, art : Artifact, setup : Nat]
    BY <1>7 DEF PostCapture, Source, TypeOK, Snapshot
  <2>3. post' \in Posting
    BY <1>7, <2>2 DEF PostCapture, Posting
  <2> QED BY <1>7, <2>1, <2>3 DEF PostCapture, TypeOK, memory, stored
<1> QED BY <1>1, <1>2, <1>3, <1>4, <1>5, <1>6, <1>7 DEF UserStep

\* A call that stores what it has read keeps the types.
LEMMA TypeSession == ASSUME TypeOK, SessionStep PROVE TypeOK'
<1>1. ASSUME NEW t \in Caller, ReadSnapshot(t) PROVE TypeOK'
  <2>1. call[t].accepted \in BOOLEAN /\ call[t].before \in Snapshot
    BY <1>1, CallRecords DEF ReadSnapshot
  <2>2. call' \in Calls
    BY <1>1, <2>1 DEF ReadSnapshot, TypeOK, Calls, Writing
  <2> QED BY <1>1, <2>2 DEF ReadSnapshot, TypeOK, memory, stored, history, Calls
<1>2. ASSUME NEW t \in Caller, StoreSnapshot(t) PROVE TypeOK'
  <2>1. call[t] \in Writing
    BY <1>2 DEF StoreSnapshot, TypeOK, Idle, Reading
  <2>2. [call[t] EXCEPT !.pc = "flag"] \in Writing /\ call[t].held \in Snapshot
    BY <2>1 DEF Writing
  <2>3. call' \in Calls
    BY <1>2, <2>2 DEF StoreSnapshot, TypeOK, Calls
  <2> QED BY <1>2, <2>2, <2>3 DEF StoreSnapshot, TypeOK, Touch, stored, Calls
<1>3. ASSUME NEW t \in Caller, SetDirty(t) PROVE TypeOK'
  <2>1. call[t].accepted \in BOOLEAN
    BY <1>3, CallRecords DEF SetDirty
  <2> QED BY <1>3, <2>1 DEF SetDirty, TypeOK, Touch, stored
<1> QED BY <1>1, <1>2, <1>3 DEF SessionStep

\* The token of a calculation is a state of the operation that was shown.
LEMMA ComputingToken ==
    ASSUME NEW t, t.shown \in OpState, t.setup \in Nat
    PROVE  /\ Computing(t) \in OpState
           /\ Computing(t).rev = t.shown.rev
           /\ Computing(t).status = "COMPUTING"
           /\ Computing(t).gen # 0
<1>1. t.shown.gen + 1 \in Nat \ {0}
  BY DEF OpState
<1>2. Computing(t) = [t.shown EXCEPT !.status = "COMPUTING", !.gen = t.shown.gen + 1,
                                     !.setup = t.setup]
  BY DEF Computing
<1> QED BY <1>1, <1>2 DEF OpState, Status

\* A published state has the content, generation and setup of its artifact.
LEMMA CacheOrResultType ==
    ASSUME TypeOK, NEW o \in Ops, NEW a \in Artifact
    PROVE  /\ Published(o, a) \in OpState
           /\ Published(o, a).rev = snapshot.op[o].rev
           /\ Published(o, a).gen = a.gen
           /\ Published(o, a).setup = a.setup
<1>1. snapshot.op[o] \in OpState
  BY DEF TypeOK, Snapshot
<1>2. Published(o, a) = [snapshot.op[o] EXCEPT !.status = "VALID", !.gen = a.gen, !.setup = a.setup]
  BY DEF Published
<1>3. a.gen \in Nat /\ a.setup \in Nat
  BY DEF Artifact
<1> QED BY <1>1, <1>2, <1>3 DEF OpState, Status

\* A failed calculation leaves a state of the operation and no artifact.
LEMMA FailureType ==
    ASSUME TypeOK, ComputeFails
    PROVE  \E x \in OpState :
               /\ Compute(x, NoArt)
               /\ x.status = "VALID" => x = snapshot.op[task.op]
               /\ x.rev = snapshot.op[task.op].rev
<1> DEFINE y == snapshot.op[task.op]
           Failed(begun) == [y EXCEPT !.status = "FAILED", !.gen = y.gen + begun,
                             !.setup = IF begun = 1 THEN snapshot.setup ELSE y.setup]
<1>1. task.op \in Ops
  BY TaskRecords DEF ComputeFails, Idle
<1>2. y \in OpState /\ snapshot.setup \in Nat
  BY <1>1 DEF TypeOK, Snapshot
<1>3. PICK begun \in {0, 1} : Compute(IF y.status = "VALID" THEN y ELSE Failed(begun), NoArt)
  BY DEF ComputeFails
<1>4. y.gen + begun \in Nat /\ (IF begun = 1 THEN snapshot.setup ELSE y.setup) \in Nat
  BY <1>2 DEF OpState
<1>5. Failed(begun) \in OpState /\ Failed(begun).status = "FAILED" /\ Failed(begun).rev = y.rev
  BY <1>2, <1>4 DEF OpState, Status
<1> HIDE DEF Failed
<1> QED BY <1>2, <1>3, <1>5

\* The steps of a calculation keep the types.
LEMMA TypeCalculation ==
    ASSUME TypeOK, ResultsInv, CalculationStep
    PROVE  TypeOK'
<1>1. ASSUME ComputeFromCache PROVE TypeOK'
  <2>1. task.op \in Ops
    BY <1>1, TaskRecords DEF ComputeFromCache, Idle
  <2>2. PICK a \in cache : Compute(Published(task.op, a), a)
    BY <1>1 DEF ComputeFromCache
  <2>3. a \in Artifact
    BY DEF TypeOK
  <2>4. Published(task.op, a) \in OpState
    BY <2>1, <2>3, CacheOrResultType
  <2> QED BY <1>1, <2>2, <2>3, <2>4, ComputeType DEF ComputeFromCache, TypeOK, Calls
<1>2. ASSUME ComputeSucceeds PROVE TypeOK'
  <2> DEFINE a == ResultOf(task.op, snapshot.op[task.op].gen + 1)
  <2>1. task.op \in Ops
    BY <1>2, TaskRecords DEF ComputeSucceeds, Idle
  <2>2. a \in Artifact
    BY <2>1 DEF TypeOK, Snapshot, OpState, ResultOf, Artifact
  <2>3. Compute(Published(task.op, a), a) /\ cache' = {b \in cache : ~SameInput(a, b)} \cup {a}
    BY <1>2 DEF ComputeSucceeds
  <2> HIDE DEF a
  <2>4. Published(task.op, a) \in OpState
    BY <2>1, <2>2, CacheOrResultType
  <2>5. cache' \subseteq Artifact
    BY <2>2, <2>3 DEF TypeOK
  <2>6. results' \subseteq Artifact /\ post' \in {Idle} \cup Posting
    BY <1>2, StalePostType DEF ComputeSucceeds
  <2> QED BY <2>2, <2>3, <2>4, <2>5, <2>6, ComputeType DEF TypeOK, Calls
<1>3. ASSUME ComputeFails PROVE TypeOK'
  <2>3. PICK x \in OpState : Compute(x, NoArt)
    BY <1>3, FailureType
  <2> QED BY <1>3, <2>3, ComputeType DEF ComputeFails, TypeOK, Calls
<1>4. ASSUME Begin PROVE TypeOK'
  <2>1. task.op \in Ops /\ task.shown \in OpState /\ task.setup \in Nat
    BY <1>4, TaskRecords DEF Begin, Idle
  <2>2. Computing(task) \in OpState
    BY <2>1, ComputingToken
  <2>3. snapshot' \in Snapshot
    BY <1>4, <2>1, <2>2, PutState DEF Begin, TypeOK
  <2>4. call' \in Calls
    BY <1>4, FollowType DEF Begin, Caller
  <2>5. task' \in Calculating
    BY <1>4, <2>1, <2>2 DEF Begin, Calculating
  <2>6. results' \subseteq Artifact /\ post' \in {Idle} \cup Posting
    BY <1>4, StalePostType DEF Begin
  <2> QED BY <1>4, <2>3, <2>4, <2>5, <2>6 DEF Begin, Touch, TypeOK, Calls, stored
<1>5. ASSUME BeginRefused PROVE TypeOK'
  <2>1. call' \in Calls
    BY <1>5, FollowType DEF BeginRefused, Caller
  <2>2. task' \in Calculating
    BY <1>5, TaskRecords DEF BeginRefused, Superseded, Calculating, Idle
  <2> QED BY <1>5, <2>1, <2>2 DEF BeginRefused, TypeOK, Calls, memory, stored, history
<1>6. ASSUME GiveUp PROVE TypeOK'
  BY <1>6 DEF GiveUp, TypeOK, memory, stored, history
<1>7. ASSUME Produce PROVE TypeOK'
  <2> DEFINE x == task.begun
             a == [op |-> task.op, rev |-> x.rev, setup |-> x.setup, gen |-> x.gen]
  <2>1. task.op \in Ops /\ x \in OpState /\ x.gen # 0
    BY <1>7, TaskRecords DEF Produce, Idle, ResultsInv, TokenIsIssued
  <2>2. a \in Artifact
    BY <2>1 DEF OpState, Artifact
  <2>3. [x EXCEPT !.status = "VALID"] \in OpState
    BY <2>1 DEF OpState, Status
  <2>4. /\ files' = files \cup {a}
        /\ task' = [pc |-> "done", op |-> task.op, art |-> a,
                    result |-> [x EXCEPT !.status = "VALID"]]
        /\ UNCHANGED <<memory, disk, cache, results, call, save, post, history>>
    BY <1>7 DEF Produce
  <2> HIDE DEF a, x
  <2>5. task' \in Calculating
    BY <2>1, <2>2, <2>3, <2>4 DEF Calculating
  <2> QED BY <2>2, <2>4, <2>5 DEF TypeOK, memory, history
<1>8. ASSUME ProduceLate PROVE TypeOK'
  <2>1. task.op \in Ops
    BY <1>8, TaskRecords DEF ProduceLate, Idle
  <2>2. task' \in Calculating
    BY <1>8, <2>1 DEF ProduceLate, Superseded, Calculating, TypeOK, Snapshot
  <2> QED BY <1>8, <2>2 DEF ProduceLate, TypeOK, memory, stored, history
<1>9. ASSUME ProduceFails PROVE TypeOK'
  <2>1. task.op \in Ops /\ task.begun \in OpState
    BY <1>9, TaskRecords DEF ProduceFails, Idle
  <2>2. [task.begun EXCEPT !.status = "FAILED"] \in OpState
    BY <2>1 DEF OpState, Status
  <2>3. task' \in Calculating
    BY <1>9, <2>1, <2>2 DEF ProduceFails, Calculating
  <2> QED BY <1>9, <2>3 DEF ProduceFails, TypeOK, memory, stored, history
<1>10. ASSUME Commit PROVE TypeOK'
  <2>1. task.op \in Ops /\ task.art \in Artifact \cup {NoArt} /\ task.result \in OpState
    BY <1>10, TaskRecords DEF Commit, Idle
  <2> DEFINE m == IF task.art = NoArt THEN snapshot.meta[task.op] ELSE task.art
  <2>2. m \in Artifact \cup {NoArt}
    BY <2>1 DEF TypeOK, Snapshot
  <2>3. snapshot' = [snapshot EXCEPT !.op[task.op] = task.result, !.meta[task.op] = m]
    BY <1>10 DEF Commit
  <2>4. snapshot' \in Snapshot
    BY <2>1, <2>2, <2>3, PutOperation DEF TypeOK
  <2>5. call' \in Calls
    BY <1>10, FollowType DEF Commit, Caller
  <2>6. results' \subseteq Artifact /\ post' \in {Idle} \cup Posting
    BY <1>10, StalePostType DEF Commit
  <2> QED BY <1>10, <2>4, <2>5, <2>6 DEF Commit, Touch, TypeOK, Calls, stored
<1>11. ASSUME CommitRefused PROVE TypeOK'
  <2>1. call' \in Calls
    BY <1>11, FollowType DEF CommitRefused, Caller
  <2> QED BY <1>11, <2>1 DEF CommitRefused, TypeOK, Calls, memory, stored, history
<1> QED BY <1>1, <1>2, <1>3, <1>4, <1>5, <1>6, <1>7, <1>8, <1>9, <1>10, <1>11
        DEF CalculationStep

\* The steps of a Save and of a reopening keep the types.
LEMMA TypeSave == ASSUME TypeOK, SaveStep PROVE TypeOK'
<1>1. ASSUME SaveCommit PROVE TypeOK'
  <2>1. Normalized(bound) \in Snapshot
    BY NormalizedType DEF TypeOK
  <2> QED BY <1>1, <2>1 DEF SaveCommit, TypeOK, Saving, memory, history
<1>2. ASSUME SaveFails PROVE TypeOK'
  BY <1>2 DEF SaveFails, TypeOK, memory, stored, history
<1>3. ASSUME SaveRebind PROVE TypeOK'
  <2>1. save \in [pc : {"committed"}, copy : Snapshot]
    BY <1>3 DEF SaveRebind, TypeOK, Saving, Idle
  <2> QED BY <1>3, <2>1 DEF SaveRebind, TypeOK, Saving, stored, history
<1>4. ASSUME SaveClean PROVE TypeOK'
  <2>1. save \in [pc : {"rebound"}, copy : Snapshot]
    BY <1>4 DEF SaveClean, TypeOK, Saving, Idle
  <2> QED BY <1>4, <2>1 DEF SaveClean, TypeOK, Saving, stored, history
<1>5. ASSUME SaveCleanup PROVE TypeOK'
  BY <1>5 DEF SaveCleanup, TypeOK, Saving, memory, history
<1>6. ASSUME SaveMark PROVE TypeOK'
  BY <1>6 DEF SaveMark, TypeOK, stored
<1> QED BY <1>1, <1>2, <1>3, <1>4, <1>5, <1>6 DEF SaveStep

\* The steps of a post keep the types.
LEMMA TypePost == ASSUME TypeOK, PostStep PROVE TypeOK'
<1>1. ASSUME PostBegin PROVE TypeOK'
  <2>1. post \in Posting
    BY <1>1 DEF PostBegin, TypeOK, Idle
  <2>2. post' \in Posting
    BY <1>1, <2>1 DEF PostBegin, Posting
  <2> QED BY <1>1, <2>2 DEF PostBegin, TypeOK, memory, stored, history
<1>2. ASSUME PostRecheck PROVE TypeOK'
  <2>1. post \in Posting
    BY <1>2 DEF PostRecheck, TypeOK, Idle
  <2>2. [post EXCEPT !.pc = "publish"] \in Posting
    BY <2>1 DEF Posting
  <2> QED BY <1>2, <2>2 DEF PostRecheck, TypeOK, memory, stored, history
<1>3. ASSUME PostPublish PROVE TypeOK'
  <2>1. post.source.art \in Artifact
    BY <1>3 DEF PostPublish, TypeOK, Posting, Idle
  <2> QED BY <1>3, <2>1 DEF PostPublish, TypeOK, memory, stored, history
<1> QED BY <1>1, <1>2, <1>3 DEF PostStep

\* Every step keeps the types.
LEMMA TypeStep == TypeOK /\ ResultsInv /\ [Next]_vars => TypeOK'
<1> SUFFICES ASSUME TypeOK, ResultsInv, [Next]_vars PROVE TypeOK'
  OBVIOUS
<1>1. CASE UNCHANGED vars
  BY <1>1 DEF TypeOK, vars, memory, stored, threads, history
<1> QED BY <1>1, TypeUser, TypeSession, TypeCalculation, TypeSave, TypePost DEF Next

----------------------------------------------------------------------------
(* Every snapshot that is kept is sound.                                   *)

\* A sound snapshot stays sound when more operations are excepted.
LEMMA MoreExceptions ==
    ASSUME NEW s, NEW ex, NEW more, SoundBut(s, ex), ex \subseteq more
    PROVE  SoundBut(s, more)
BY DEF SoundBut

\* What a Save writes is as sound as what it has captured.
LEMMA NormalizedIsSound ==
    ASSUME NEW s \in Snapshot, NEW ex, SoundBut(s, ex)
    PROVE  SoundBut(Normalized(s), ex)
BY NormalizedType, MarkDirtyType DEF SoundBut, ValidIsMatched, Snapshot

\* What is opened is as sound as what the database has.
LEMMA ReconciledIsSound ==
    ASSUME NEW s \in Snapshot, NEW ex, SoundBut(s, ex)
    PROVE  SoundBut(Reconciled(s), ex)
BY ReconciledType, MarkDirtyType DEF SoundBut, ValidIsMatched, Snapshot

\* Replacing the state of an operation, and perhaps its artifact.
LEMMA PutIsSound ==
    ASSUME NEW s \in Snapshot, NEW o \in Ops, NEW x \in OpState, NEW m \in Artifact \cup {NoArt},
           NEW ex, SoundBut(s, ex),
           NEW r, r.op = [s.op EXCEPT ![o] = x], r.meta = [s.meta EXCEPT ![o] = m],
           m # NoArt => m.op = o,
           (o \notin ex /\ x.status = "VALID") =>
               m # NoArt /\ m.rev = x.rev /\ m.gen = x.gen /\ m.setup = x.setup
    PROVE  SoundBut(r, ex)
BY DEF SoundBut, ValidIsMatched, Snapshot

\* A thread that has changed the memory will read it again.
LEMMA FollowIsSound ==
    ASSUME TypeOK, EveryCopyIsSound, NEW t \in Caller, NEW ok, Follow(t, ok),
           SoundBut(snapshot', revived), UNCHANGED <<bound, disk, save, revived>>
    PROVE  EveryCopyIsSound'
BY DEF TypeOK, EveryCopyIsSound, Follow

\* A calculation that stores a state keeps every copy sound when a VALID state is
\* either the one that was there or the one of the artifact stored with it.
LEMMA SoundCompute ==
    ASSUME TypeOK, EveryCopyIsSound, NEW x \in OpState, NEW art \in Artifact \cup {NoArt},
           Compute(x, art), art # NoArt => art.op = task.op,
           x.status = "VALID" =>
               \/ x = snapshot.op[task.op] /\ art = NoArt
               \/ art # NoArt /\ art.rev = x.rev /\ art.gen = x.gen /\ art.setup = x.setup
    PROVE  EveryCopyIsSound'
<1> DEFINE m == IF art = NoArt THEN snapshot.meta[task.op] ELSE art
<1>1. task.op \in Ops
  BY TaskRecords DEF Compute, Idle
<1>2. snapshot' = [snapshot EXCEPT !.op[task.op] = x, !.meta[task.op] = m]
  BY DEF Compute
<1>3. m \in Artifact \cup {NoArt} /\ snapshot \in Snapshot
  BY <1>1 DEF TypeOK, Snapshot
<1> HIDE DEF m
<1>4. /\ snapshot'.op = [snapshot.op EXCEPT ![task.op] = x]
      /\ snapshot'.meta = [snapshot.meta EXCEPT ![task.op] = m]
  BY <1>1, <1>2, <1>3 DEF Snapshot
<1>5. m # NoArt => m.op = task.op
  BY <1>1 DEF m, EveryCopyIsSound, SoundBut
<1>6. (task.op \notin revived /\ x.status = "VALID") =>
          m # NoArt /\ m.rev = x.rev /\ m.gen = x.gen /\ m.setup = x.setup
  BY <1>1 DEF m, EveryCopyIsSound, SoundBut, ValidIsMatched
<1>7. SoundBut(snapshot', revived)
  BY <1>1, <1>3, <1>4, <1>5, <1>6, PutIsSound DEF EveryCopyIsSound
<1> QED BY <1>7, FollowIsSound DEF Compute, Caller

\* Edits and starts of calculations keep every copy of the snapshot sound.
LEMMA SoundUser == ASSUME TypeOK, EveryCopyIsSound, UserStep PROVE EveryCopyIsSound'
<1>1. ASSUME NEW s, SoundBut(s, revived), Edit(s) PROVE EveryCopyIsSound'
  BY <1>1 DEF Edit, EveryCopyIsSound, TypeOK, stored, Caller
<1>2. ASSUME NEW o \in Ops, EditOperation(o) PROVE EveryCopyIsSound'
  <2> DEFINE x == [MarkDirty(snapshot.op[o]) EXCEPT !.rev = used.edits + 1]
             s == [snapshot EXCEPT !.op[o] = x]
  <2>1. MarkDirty(snapshot.op[o]) \in OpState /\ MarkDirty(snapshot.op[o]).status = "DIRTY"
    BY MarkDirtyType DEF TypeOK, Snapshot
  <2>2. x \in OpState /\ x.status = "DIRTY"
    BY <2>1 DEF TypeOK, OpState
  <2>3. s.op = [snapshot.op EXCEPT ![o] = x] /\ s.meta = snapshot.meta
    BY <2>2, PutState DEF TypeOK
  <2>4. Edit(s)
    BY <1>2 DEF EditOperation
  <2> HIDE DEF s, x
  <2>5. SoundBut(s, revived)
    BY <2>2, <2>3 DEF EveryCopyIsSound, SoundBut, ValidIsMatched, TypeOK, Snapshot
  <2> QED BY <1>1, <2>4, <2>5
<1>3. ASSUME EditSetup PROVE EveryCopyIsSound'
  <2> DEFINE s == [snapshot EXCEPT !.setup = used.edits + 1,
                                   !.op = [o \in Ops |-> MarkDirty(snapshot.op[o])]]
  <2>1. s.op = [o \in Ops |-> MarkDirty(snapshot.op[o])] /\ s.meta = snapshot.meta
    BY DEF TypeOK, Snapshot
  <2>2. Edit(s)
    BY <1>3 DEF EditSetup
  <2> HIDE DEF s
  <2>3. SoundBut(s, revived)
    BY <2>1, MarkDirtyType DEF EveryCopyIsSound, SoundBut, ValidIsMatched, TypeOK, Snapshot
  <2> QED BY <1>1, <2>2, <2>3
<1>4. ASSUME NEW o \in Ops2D, Start2D(o) PROVE EveryCopyIsSound'
  BY <1>4 DEF Start2D, EveryCopyIsSound, memory, stored
<1>5. ASSUME NEW o \in Ops3D, Start3D(o) PROVE EveryCopyIsSound'
  BY <1>5 DEF Start3D, EveryCopyIsSound, memory, stored
<1>6. ASSUME SaveCapture PROVE EveryCopyIsSound'
  BY <1>6 DEF SaveCapture, EveryCopyIsSound, stored
<1>7. ASSUME Reopen PROVE EveryCopyIsSound'
  <2>1. SoundBut(Reconciled(disk), revived)
    BY ReconciledIsSound DEF EveryCopyIsSound, TypeOK
  <2> QED BY <1>7, <2>1 DEF Reopen, EveryCopyIsSound, stored, Idle
<1>8. ASSUME NEW o \in Ops, PostCapture(o) PROVE EveryCopyIsSound'
  BY <1>8 DEF PostCapture, EveryCopyIsSound, memory, stored
<1> QED BY <1>2, <1>3, <1>4, <1>5, <1>6, <1>7, <1>8 DEF UserStep

\* A call that hands a snapshot to the session keeps every copy sound.
LEMMA SoundSession == ASSUME TypeOK, EveryCopyIsSound, SessionStep PROVE EveryCopyIsSound'
<1>1. ASSUME NEW t \in Caller, ReadSnapshot(t) PROVE EveryCopyIsSound'
  BY <1>1 DEF ReadSnapshot, EveryCopyIsSound, TypeOK, memory, stored, history
<1>2. ASSUME NEW t \in Caller, StoreSnapshot(t) PROVE EveryCopyIsSound'
  <2>1. SoundBut(bound', revived)
    BY <1>2 DEF StoreSnapshot, EveryCopyIsSound
  <2>2. \A u \in Caller : call'[u].pc \in {"store", "flag"} =>
            call[u].pc \in {"store", "flag"} /\ call'[u].held = call[u].held
    <3>1. call[t] \in Writing
      BY <1>2 DEF StoreSnapshot, TypeOK, Idle, Reading
    <3>2. [call[t] EXCEPT !.pc = "flag"].held = call[t].held
      BY <3>1 DEF Writing
    <3> QED BY <1>2, <3>2 DEF StoreSnapshot, TypeOK
  <2> QED BY <1>2, <2>1, <2>2 DEF StoreSnapshot, EveryCopyIsSound, stored
<1>3. ASSUME NEW t \in Caller, SetDirty(t) PROVE EveryCopyIsSound'
  BY <1>3 DEF SetDirty, EveryCopyIsSound, TypeOK, stored, Idle
<1> QED BY <1>1, <1>2, <1>3 DEF SessionStep

\* Every step of a calculation keeps every copy of the snapshot sound.
LEMMA SoundCalculation ==
    ASSUME TypeOK, ResultsInv, CalculationStep
    PROVE  EveryCopyIsSound'
<1> USE DEF ResultsInv
<1>1. ASSUME ComputeFromCache PROVE EveryCopyIsSound'
  <2>1. PICK a \in cache : /\ SameInput(a, ResultOf(task.op, 0))
                           /\ Compute(Published(task.op, a), a)
    BY <1>1 DEF ComputeFromCache
  <2>2. task.op \in Ops /\ a \in Artifact
    BY <1>1, TaskRecords DEF ComputeFromCache, Idle, TypeOK
  <2>3. a.op = task.op /\ a.rev = snapshot.op[task.op].rev
    BY <2>1 DEF SameInput, ResultOf
  <2> QED BY <2>1, <2>2, <2>3, CacheOrResultType, SoundCompute, NoArtAssumption
<1>2. ASSUME ComputeSucceeds PROVE EveryCopyIsSound'
  <2> DEFINE a == ResultOf(task.op, snapshot.op[task.op].gen + 1)
  <2>1. task.op \in Ops
    BY <1>2, TaskRecords DEF ComputeSucceeds, Idle
  <2>2. a \in Artifact /\ a.op = task.op /\ a.rev = snapshot.op[task.op].rev
    BY <2>1 DEF TypeOK, Snapshot, OpState, ResultOf, Artifact
  <2>3. Compute(Published(task.op, a), a)
    BY <1>2 DEF ComputeSucceeds
  <2> HIDE DEF a
  <2> QED BY <2>1, <2>2, <2>3, CacheOrResultType, SoundCompute, NoArtAssumption
<1>3. ASSUME ComputeFails PROVE EveryCopyIsSound'
  <2>1. task.op \in Ops
    BY <1>3, TaskRecords DEF ComputeFails, Idle
  <2>2. PICK x \in OpState : /\ Compute(x, NoArt)
                             /\ x.status = "VALID" => x = snapshot.op[task.op]
    BY <1>3, <2>1, FailureType
  <2> QED BY <2>1, <2>2, SoundCompute
<1>4. ASSUME Begin PROVE EveryCopyIsSound'
  <2>1. task.op \in Ops /\ Computing(task) \in OpState /\ Computing(task).status = "COMPUTING"
    BY <1>4, TaskRecords, ComputingToken DEF Begin, Idle
  <2>2. snapshot'.op = [snapshot.op EXCEPT ![task.op] = Computing(task)]
        /\ snapshot'.meta = snapshot.meta
    BY <1>4, <2>1, PutState DEF Begin, TypeOK
  <2>3. SoundBut(snapshot', revived)
    BY <2>1, <2>2 DEF EveryCopyIsSound, SoundBut, ValidIsMatched, TypeOK, Snapshot
  <2> QED BY <1>4, <2>3, FollowIsSound DEF Begin, Caller, stored
<1>5. ASSUME BeginRefused PROVE EveryCopyIsSound'
  BY <1>5, FollowIsSound DEF BeginRefused, Caller, memory, stored, history, EveryCopyIsSound
<1>6. CASE GiveUp \/ Produce \/ ProduceLate \/ ProduceFails
  BY <1>6 DEF GiveUp, Produce, ProduceLate, ProduceFails, EveryCopyIsSound, memory, stored, history
<1>7. ASSUME Commit PROVE EveryCopyIsSound'
  <2>1. task.op \in Ops /\ task.art \in Artifact \cup {NoArt} /\ task.result \in OpState
    BY <1>7, TaskRecords DEF Commit, Idle
  <2> DEFINE m == IF task.art = NoArt THEN snapshot.meta[task.op] ELSE task.art
  <2>2. m \in Artifact \cup {NoArt}
    BY <2>1 DEF TypeOK, Snapshot
  <2>3. snapshot' = [snapshot EXCEPT !.op[task.op] = task.result, !.meta[task.op] = m]
    BY <1>7 DEF Commit
  <2> HIDE DEF m
  <2>4. /\ snapshot'.op = [snapshot.op EXCEPT ![task.op] = task.result]
        /\ snapshot'.meta = [snapshot.meta EXCEPT ![task.op] = m]
    BY <2>1, <2>2, <2>3 DEF TypeOK, Snapshot
  <2>5. m # NoArt => m.op = task.op
    BY <1>7, <2>1 DEF m, Commit, ResultFits, EveryCopyIsSound, SoundBut
  <2>6. (task.op \notin revived /\ task.result.status = "VALID") =>
            /\ m # NoArt
            /\ m.rev = task.result.rev /\ m.gen = task.result.gen /\ m.setup = task.result.setup
    BY <1>7 DEF m, Commit, ResultFits
  <2>7. SoundBut(snapshot', revived)
    <3>1. snapshot \in Snapshot /\ SoundBut(snapshot, revived)
      BY DEF EveryCopyIsSound, TypeOK
    <3> QED BY <2>1, <2>2, <2>4, <2>5, <2>6, <3>1, PutIsSound
  <2> QED BY <1>7, <2>7, FollowIsSound DEF Commit, Caller, stored
<1>8. ASSUME CommitRefused PROVE EveryCopyIsSound'
  BY <1>8, FollowIsSound DEF CommitRefused, Caller, memory, stored, history, EveryCopyIsSound
<1> QED BY <1>1, <1>2, <1>3, <1>4, <1>5, <1>6, <1>7, <1>8 DEF CalculationStep

\* Every step of a Save and a reopening keep every copy of the snapshot sound.
LEMMA SoundSave == ASSUME TypeOK, EveryCopyIsSound, SaveStep PROVE EveryCopyIsSound'
<1>1. ASSUME SaveCommit PROVE EveryCopyIsSound'
  <2>1. SoundBut(Normalized(bound), revived)
    BY NormalizedIsSound DEF EveryCopyIsSound, TypeOK
  <2> QED BY <1>1, <2>1 DEF SaveCommit, EveryCopyIsSound, memory, history
<1>2. ASSUME SaveFails PROVE EveryCopyIsSound'
  BY <1>2 DEF SaveFails, EveryCopyIsSound, memory, stored, history, Idle
<1>3. ASSUME SaveRebind \/ SaveClean PROVE EveryCopyIsSound'
  <2>1. save \in [pc : {"committed", "rebound"}, copy : Snapshot]
    BY <1>3 DEF SaveRebind, SaveClean, TypeOK, Saving, Idle
  <2>2. save'.copy = save.copy
    BY <1>3, <2>1 DEF SaveRebind, SaveClean
  <2> QED BY <1>3, <2>1, <2>2 DEF SaveRebind, SaveClean, EveryCopyIsSound, stored, history
<1>4. ASSUME SaveCleanup PROVE EveryCopyIsSound'
  BY <1>4 DEF SaveCleanup, EveryCopyIsSound, memory, history
<1>5. ASSUME SaveMark PROVE EveryCopyIsSound'
  <2>1. revived \subseteq revived' /\ save' = Idle
    BY <1>5 DEF SaveMark
  <2>2. /\ SoundBut(bound, revived') /\ SoundBut(disk, revived')
        /\ \A t \in Caller : call[t].pc \in {"store", "flag"} => SoundBut(call[t].held, revived')
    BY <2>1, MoreExceptions DEF EveryCopyIsSound
  <2> QED BY <1>5, <2>1, <2>2 DEF SaveMark, EveryCopyIsSound, stored, Idle
<1> QED BY <1>1, <1>2, <1>3, <1>4, <1>5 DEF SaveStep

\* A post changes no copy of the snapshot.
LEMMA SoundPost == ASSUME EveryCopyIsSound, PostStep PROVE EveryCopyIsSound'
BY DEF PostStep, PostBegin, PostRecheck, PostPublish, EveryCopyIsSound, memory, stored, history

----------------------------------------------------------------------------
(* The calculation and the session.                                        *)

\* Where the steps of a 3D calculation lead.
LEMMA LaterPlaces ==
    /\ Begin => task'.pc = "toolpath"
    /\ BeginRefused \/ Produce \/ ProduceLate \/ ProduceFails => task'.pc = "done"
<1>1. Begin => task'.pc = "toolpath"
  BY DEF Begin
<1>0. ASSUME NEW x, Superseded(x) PROVE task'.pc = "done"
  BY <1>0 DEF Superseded
<1>2. BeginRefused \/ ProduceLate => task'.pc = "done"
  BY <1>0 DEF BeginRefused, ProduceLate
<1>3. Produce => task'.pc = "done"
  BY DEF Produce
<1>4. ProduceFails => task'.pc = "done"
  BY DEF ProduceFails
<1> QED BY <1>1, <1>2, <1>3, <1>4

\* The calculation writes the session only after it has changed the memory.
LEMMA WaitsStep ==
    ASSUME TypeOK, CalculationWaits, Next
    PROVE  CalculationWaits'
<1> USE DEF CalculationWaits, Caller
<1>1. ASSUME NEW s, Edit(s) PROVE CalculationWaits'
  BY <1>1 DEF Edit, TypeOK
<1>2. CASE UserStep
  <2>1. ASSUME NEW o \in Ops2D, Start2D(o) PROVE CalculationWaits'
    BY <2>1 DEF Start2D, NewCalculation
  <2>2. ASSUME NEW o \in Ops3D, Start3D(o) PROVE CalculationWaits'
    BY <2>2 DEF Start3D, NewCalculation
  <2>3. CASE SaveCapture
    BY <2>3 DEF SaveCapture
  <2>4. CASE Reopen
    BY <2>4 DEF Reopen
  <2>5. ASSUME NEW o \in Ops, PostCapture(o) PROVE CalculationWaits'
    BY <2>5 DEF PostCapture
  <2> QED BY <1>1, <1>2, <2>1, <2>2, <2>3, <2>4, <2>5 DEF UserStep, EditOperation, EditSetup
<1>3. ASSUME NEW t \in Caller, ReadSnapshot(t) \/ StoreSnapshot(t) \/ SetDirty(t)
      PROVE  CalculationWaits'
  <2>1. task' = task /\ call[t] # Idle
    BY <1>3 DEF ReadSnapshot, StoreSnapshot, SetDirty, Idle
  <2>2. t # "calculation" => call'["calculation"] = call["calculation"]
    BY <1>3 DEF ReadSnapshot, StoreSnapshot, SetDirty, TypeOK
  <2> QED BY <2>1, <2>2
<1>4. ASSUME NEW x, NEW art, Compute(x, art) PROVE CalculationWaits'
  BY <1>4 DEF Compute, Idle
<1>5. CASE CalculationStep
  <2>1. CASE ComputeFromCache \/ ComputeSucceeds \/ ComputeFails
    BY <1>4, <2>1 DEF ComputeFromCache, ComputeSucceeds, ComputeFails
  <2>2. CASE Begin \/ BeginRefused \/ Produce \/ ProduceLate \/ ProduceFails
    BY <2>2, LaterPlaces
  <2>3. CASE GiveUp \/ Commit \/ CommitRefused
    <3>1. task' = Idle
      BY <2>3 DEF GiveUp, Commit, CommitRefused
    <3> QED BY <3>1 DEF Idle
  <2> QED BY <1>5, <2>1, <2>2, <2>3 DEF CalculationStep
<1>6. CASE SaveStep \/ PostStep
  BY <1>6 DEF SaveStep, SaveCommit, SaveFails, SaveRebind, SaveClean, SaveCleanup, SaveMark,
              PostStep, PostBegin, PostRecheck, PostPublish
<1> QED BY <1>2, <1>3, <1>5, <1>6 DEF Next, SessionStep

\* An operation calculated outside the lock gets no result but an older one from a Save.
LEMMA TokenStep ==
    ASSUME TypeOK, TokenIsIssued, Next
    PROVE  TokenIsIssued'
<1> USE DEF TokenIsIssued
<1>0. ASSUME UNCHANGED <<task, snapshot, revived>> PROVE TokenIsIssued'
  BY <1>0
<1>1. CASE UserStep
  <2>1. ASSUME NEW o \in Ops, EditOperation(o) PROVE TokenIsIssued'
    <3> DEFINE x == [MarkDirty(snapshot.op[o]) EXCEPT !.rev = used.edits + 1]
    <3>1. MarkDirty(snapshot.op[o]) \in OpState /\ MarkDirty(snapshot.op[o]).status = "DIRTY"
      BY MarkDirtyType DEF TypeOK, Snapshot
    <3>2. x \in OpState /\ x.status = "DIRTY"
      BY <3>1 DEF TypeOK, OpState
    <3>3. snapshot' = [snapshot EXCEPT !.op[o] = x] /\ UNCHANGED <<task, revived>>
      BY <2>1 DEF EditOperation, Edit
    <3> HIDE DEF x
    <3>4. snapshot'.op = [snapshot.op EXCEPT ![o] = x]
      BY <3>2, <3>3, PutState DEF TypeOK
    <3> QED BY <3>2, <3>3, <3>4, TaskRecords DEF TypeOK, Snapshot
  <2>2. CASE EditSetup
    <3>1. snapshot'.op = [o \in Ops |-> MarkDirty(snapshot.op[o])] /\ UNCHANGED <<task, revived>>
      BY <2>2 DEF EditSetup, Edit, TypeOK, Snapshot
    <3>2. \A o \in Ops : MarkDirty(snapshot.op[o]).status = "DIRTY"
      BY MarkDirtyType DEF TypeOK, Snapshot
    <3> QED BY <3>1, <3>2, TaskRecords
  <2>3. ASSUME NEW o \in Ops2D, Start2D(o) PROVE TokenIsIssued'
    BY <2>3 DEF Start2D
  <2>4. ASSUME NEW o \in Ops3D, Start3D(o) PROVE TokenIsIssued'
    BY <2>4 DEF Start3D
  <2>5. CASE Reopen
    BY <2>5 DEF Reopen, Idle
  <2>6. ASSUME SaveCapture \/ \E o \in Ops : PostCapture(o) PROVE TokenIsIssued'
    BY <1>0, <2>6 DEF SaveCapture, PostCapture, memory
  <2> QED BY <1>1, <2>1, <2>2, <2>3, <2>4, <2>5, <2>6 DEF UserStep
<1>2. CASE SessionStep
  BY <1>0, <1>2 DEF SessionStep, ReadSnapshot, StoreSnapshot, SetDirty, memory, history
<1>3. CASE CalculationStep
  <2>1. ASSUME NEW x, NEW art, Compute(x, art) PROVE TokenIsIssued'
    BY <2>1 DEF Compute, Idle
  <2>2. CASE ComputeFromCache \/ ComputeSucceeds \/ ComputeFails
    BY <2>1, <2>2 DEF ComputeFromCache, ComputeSucceeds, ComputeFails
  <2>3. CASE Begin
    <3>1. task.op \in Ops /\ Computing(task) \in OpState /\ Computing(task).status = "COMPUTING"
          /\ Computing(task).gen # 0
      BY <2>3, TaskRecords, ComputingToken DEF Begin, Idle
    <3>2. snapshot'.op = [snapshot.op EXCEPT ![task.op] = Computing(task)]
      BY <2>3, <3>1, PutState DEF Begin, TypeOK
    <3>3. task'.op = task.op /\ task'.begun = Computing(task)
      BY <2>3 DEF Begin
    <3> QED BY <3>1, <3>2, <3>3 DEF TypeOK, Snapshot
  <2>4. CASE BeginRefused \/ Produce \/ ProduceLate \/ ProduceFails
    BY <2>4, LaterPlaces
  <2>5. CASE GiveUp \/ Commit \/ CommitRefused
    <3>1. task' = Idle
      BY <2>5 DEF GiveUp, Commit, CommitRefused
    <3> QED BY <3>1 DEF Idle
  <2> QED BY <1>3, <2>2, <2>3, <2>4, <2>5 DEF CalculationStep
<1>4. CASE SaveMark
  BY <1>4, TaskRecords DEF SaveMark
<1>5. CASE SaveStep /\ ~SaveMark
  BY <1>0, <1>5 DEF SaveStep, SaveCommit, SaveFails, SaveRebind, SaveClean, SaveCleanup, memory,
                    history
<1>6. CASE PostStep
  BY <1>0, <1>6 DEF PostStep, PostBegin, PostRecheck, PostPublish, memory, history
<1> QED BY <1>1, <1>2, <1>3, <1>4, <1>5, <1>6 DEF Next, SaveStep

\* The artifact of a finished calculation is the one its result names.
LEMMA FitsStep ==
    ASSUME TypeOK, TokenIsIssued, ResultFits, Next
    PROVE  ResultFits'
<1> USE DEF ResultFits
<1>0. ASSUME UNCHANGED task, revived \subseteq revived' PROVE ResultFits'
  BY <1>0
<1>1. CASE UserStep
  <2>1. ASSUME NEW o \in Ops2D, Start2D(o) PROVE ResultFits'
    BY <2>1 DEF Start2D
  <2>2. ASSUME NEW o \in Ops3D, Start3D(o) PROVE ResultFits'
    BY <2>2 DEF Start3D
  <2>3. CASE Reopen
    BY <2>3 DEF Reopen, Idle
  <2>4. ASSUME NEW s, Edit(s) PROVE ResultFits'
    BY <1>0, <2>4 DEF Edit
  <2>5. CASE SaveCapture
    BY <1>0, <2>5 DEF SaveCapture
  <2>6. ASSUME NEW o \in Ops, PostCapture(o) PROVE ResultFits'
    BY <1>0, <2>6 DEF PostCapture
  <2> QED BY <1>1, <2>1, <2>2, <2>3, <2>4, <2>5, <2>6 DEF UserStep, EditOperation, EditSetup
<1>2. CASE SessionStep
  BY <1>0, <1>2 DEF SessionStep, ReadSnapshot, StoreSnapshot, SetDirty, history
<1>3. CASE CalculationStep
  <2>1. ASSUME NEW x, NEW art, Compute(x, art) PROVE ResultFits'
    BY <2>1 DEF Compute, Idle
  <2>2. CASE ComputeFromCache \/ ComputeSucceeds \/ ComputeFails
    BY <2>1, <2>2 DEF ComputeFromCache, ComputeSucceeds, ComputeFails
  <2>3. CASE Begin
    BY <2>3 DEF Begin
  <2>4. CASE BeginRefused
    BY <2>4, TaskRecords DEF BeginRefused, Superseded
  <2>5. CASE Produce
    <3>1. task.begun \in OpState
      BY <2>5, TaskRecords DEF Produce
    <3> DEFINE a == [op |-> task.op, rev |-> task.begun.rev, setup |-> task.begun.setup,
                     gen |-> task.begun.gen]
               x == [task.begun EXCEPT !.status = "VALID"]
    <3>2. x.rev = task.begun.rev /\ x.gen = task.begun.gen /\ x.setup = task.begun.setup
      BY <3>1 DEF OpState
    <3>3. a \in Artifact
      BY <2>5, <3>1, TaskRecords DEF Produce, TokenIsIssued, OpState, Artifact
    <3>4. a # NoArt
      BY <3>3, NoArtAssumption
    <3>5. task' = [pc |-> "done", op |-> task.op, art |-> a, result |-> x]
      BY <2>5 DEF Produce
    <3> QED BY <3>2, <3>4, <3>5
  <2>6. CASE ProduceLate
    BY <2>6 DEF ProduceLate, Superseded, TokenIsIssued, history
  <2>7. CASE ProduceFails
    <3>1. task.begun \in OpState
      BY <2>7, TaskRecords DEF ProduceFails
    <3>2. [task.begun EXCEPT !.status = "FAILED"].status = "FAILED"
      BY <3>1 DEF OpState
    <3> QED BY <2>7, <3>2 DEF ProduceFails
  <2>8. CASE GiveUp \/ Commit \/ CommitRefused
    <3>1. task' = Idle
      BY <2>8 DEF GiveUp, Commit, CommitRefused
    <3> QED BY <3>1 DEF Idle
  <2> QED BY <1>3, <2>2, <2>3, <2>4, <2>5, <2>6, <2>7, <2>8 DEF CalculationStep
<1>4. CASE SaveStep
  BY <1>0, <1>4 DEF SaveStep, SaveCommit, SaveFails, SaveRebind, SaveClean, SaveCleanup, SaveMark,
                    history
<1>5. CASE PostStep
  BY <1>0, <1>5 DEF PostStep, PostBegin, PostRecheck, PostPublish, history
<1> QED BY <1>1, <1>2, <1>3, <1>4, <1>5 DEF Next

\* What the post thread has captured stays what it is.
LEMMA SourceStays ==
    ASSUME TypeOK, NEW os, StalePost(os)
    PROVE  /\ post' = Idle <=> post = Idle
           /\ post # Idle => /\ post'.op = post.op /\ post'.source = post.source
                             /\ post'.pc = post.pc
                             /\ post'.latest => post.latest /\ post.op \notin os
<1>1. CASE post = Idle
  BY <1>1 DEF StalePost
<1>2. CASE post # Idle
  <2>1. post \in Posting
    BY <1>2, PostRecords
  <2>2. [post EXCEPT !.latest = FALSE] \in Posting
    BY <2>1 DEF Posting
  <2> QED BY <1>2, <2>1, <2>2 DEF StalePost, Posting, Idle
<1> QED BY <1>1, <1>2

\* What a post has captured is an artifact of its operation.
LEMMA SourceStep ==
    ASSUME TypeOK, EveryCopyIsSound, SourceFits, Next
    PROVE  SourceFits'
<1> USE DEF SourceFits
<1>0. ASSUME post' = post PROVE SourceFits'
  BY <1>0
<1>1. ASSUME NEW os, StalePost(os) PROVE SourceFits'
  BY <1>1, SourceStays
<1>2. ASSUME NEW o \in Ops, PostCapture(o) PROVE SourceFits'
  <2>1. snapshot.meta[o] # NoArt
    BY <1>2, NoArtAssumption DEF PostCapture, TypeOK
  <2>2. snapshot.meta[o].op = o
    BY <2>1 DEF EveryCopyIsSound, SoundBut
  <2> QED BY <1>2, <2>2 DEF PostCapture, Source
<1>3. CASE PostStep
  <2>1. ASSUME PostBegin \/ PostRecheck, post' # Idle
        PROVE  post'.op = post.op /\ post'.source = post.source /\ post # Idle
    BY <2>1, PostRecords DEF PostBegin, PostRecheck, Posting, Idle
  <2> QED BY <1>3, <2>1 DEF PostStep, PostPublish
<1>4. ASSUME NEW s, Edit(s) PROVE SourceFits'
  BY <1>1, <1>4 DEF Edit
<1>5. CASE UserStep
  BY <1>0, <1>1, <1>2, <1>4, <1>5
     DEF UserStep, EditOperation, EditSetup, Start2D, Start3D, SaveCapture, Reopen
<1>6. CASE CalculationStep
  BY <1>0, <1>1, <1>6
     DEF CalculationStep, ComputeFromCache, ComputeSucceeds, ComputeFails, Begin, BeginRefused,
         GiveUp, Produce, ProduceLate, ProduceFails, Commit, CommitRefused
<1>7. CASE SessionStep \/ SaveStep
  BY <1>0, <1>7 DEF SessionStep, ReadSnapshot, StoreSnapshot, SetDirty,
                    SaveStep, SaveCommit, SaveFails, SaveRebind, SaveClean, SaveCleanup, SaveMark
<1> QED BY <1>3, <1>5, <1>6, <1>7 DEF Next

\* Every step keeps what is said of results.
LEMMA ResultsStep == TypeOK /\ ResultsInv /\ [Next]_vars => ResultsInv'
<1> SUFFICES ASSUME TypeOK, ResultsInv, [Next]_vars PROVE ResultsInv'
  OBVIOUS
<1>1. CASE UNCHANGED vars
  BY <1>1 DEF ResultsInv, EveryCopyIsSound, CalculationWaits, TokenIsIssued, ResultFits,
              SourceFits, vars, memory, stored, threads, history
<1>2. CASE Next
  <2>1. EveryCopyIsSound'
    BY <1>2, SoundUser, SoundSession, SoundCalculation, SoundSave, SoundPost DEF Next, ResultsInv
  <2> QED BY <1>2, <2>1, WaitsStep, TokenStep, FitsStep, SourceStep DEF ResultsInv
<1> QED BY <1>1, <1>2

----------------------------------------------------------------------------
(* What the actions do to the memory.                                      *)

\* An edit leaves the artifacts alone, makes what it changes DIRTY, and the memory
\* that had the last edits has this one too.
LEMMA EditEffect ==
    ASSUME TypeOK, EditSetup \/ \E o \in Ops : EditOperation(o)
    PROVE  \E s \in Snapshot :
               /\ Edit(s)
               /\ s.meta = snapshot.meta
               /\ \A o \in Ops : s.op[o].status = "DIRTY" \/ s.op[o] = snapshot.op[o]
               /\ MemoryIsCurrent => MemoryIsCurrent'
<1>1. ASSUME NEW o \in Ops, EditOperation(o)
      PROVE  \E s \in Snapshot :
               /\ Edit(s)
               /\ s.meta = snapshot.meta
               /\ \A p \in Ops : s.op[p].status = "DIRTY" \/ s.op[p] = snapshot.op[p]
               /\ MemoryIsCurrent => MemoryIsCurrent'
  <2> DEFINE n == used.edits + 1
             x == [MarkDirty(snapshot.op[o]) EXCEPT !.rev = n]
             s == [snapshot EXCEPT !.op[o] = x]
  <2>1. MarkDirty(snapshot.op[o]) \in OpState /\ MarkDirty(snapshot.op[o]).status = "DIRTY"
    BY MarkDirtyType DEF TypeOK, Snapshot
  <2>2. x \in OpState /\ x.status = "DIRTY" /\ x.rev = n
    BY <2>1 DEF TypeOK, OpState
  <2>4. Edit(s) /\ last' = [last EXCEPT !.rev[o] = n]
    BY <1>1 DEF EditOperation
  <2> HIDE DEF n, x
  <2>3. /\ s \in Snapshot /\ s.setup = snapshot.setup
        /\ s.op = [snapshot.op EXCEPT ![o] = x] /\ s.meta = snapshot.meta
    BY <2>2 DEF TypeOK, Snapshot
  <2> HIDE DEF s
  <2>5. snapshot' = s
    BY <2>4 DEF Edit
  <2>6. MemoryIsCurrent => MemoryIsCurrent'
    BY <2>2, <2>3, <2>4, <2>5 DEF MemoryIsCurrent, TypeOK, Snapshot
  <2>7. \A p \in Ops : s.op[p].status = "DIRTY" \/ s.op[p] = snapshot.op[p]
    BY <2>2, <2>3 DEF TypeOK, Snapshot
  <2> QED BY <2>3, <2>4, <2>6, <2>7
<1>2. ASSUME EditSetup
      PROVE  \E s \in Snapshot :
               /\ Edit(s)
               /\ s.meta = snapshot.meta
               /\ \A p \in Ops : s.op[p].status = "DIRTY" \/ s.op[p] = snapshot.op[p]
               /\ MemoryIsCurrent => MemoryIsCurrent'
  <2> DEFINE n == used.edits + 1
             s == [snapshot EXCEPT !.setup = n, !.op = [o \in Ops |-> MarkDirty(snapshot.op[o])]]
  <2>1. n \in Nat
    BY DEF TypeOK
  <2>2. /\ s.setup = n /\ s.meta = snapshot.meta
        /\ s.op = [o \in Ops |-> MarkDirty(snapshot.op[o])]
    BY DEF TypeOK, Snapshot
  <2>3. s \in Snapshot
    BY <2>1, MarkDirtyType DEF TypeOK, Snapshot
  <2>4. Edit(s) /\ last' = [last EXCEPT !.setup = n]
    BY <1>2 DEF EditSetup
  <2> HIDE DEF n, s
  <2>5. snapshot' = s
    BY <2>4 DEF Edit
  <2>6. \A o \in Ops : s.op[o].status = "DIRTY" /\ s.op[o].rev = snapshot.op[o].rev
    BY <2>2, MarkDirtyType DEF TypeOK, Snapshot
  <2>7. MemoryIsCurrent => MemoryIsCurrent'
    BY <2>2, <2>4, <2>5, <2>6 DEF MemoryIsCurrent, TypeOK
  <2> QED BY <2>2, <2>3, <2>4, <2>6, <2>7
<1> QED BY <1>1, <1>2

Computes == ComputeFromCache \/ ComputeSucceeds \/ ComputeFails

\* A calculation under the lock keeps the revisions.
LEMMA ComputeEffect ==
    ASSUME TypeOK, Computes
    PROVE  \E x \in OpState, art \in Artifact \cup {NoArt} :
               /\ Compute(x, art)
               /\ x.rev = snapshot.op[task.op].rev
<1>1. CASE ComputeFromCache
  <2>1. PICK a \in cache : Compute(Published(task.op, a), a)
    BY <1>1 DEF ComputeFromCache
  <2>2. task.op \in Ops /\ a \in Artifact
    BY <1>1, TaskRecords DEF ComputeFromCache, Idle, TypeOK
  <2> QED BY <2>1, <2>2, CacheOrResultType
<1>2. CASE ComputeSucceeds
  <2> DEFINE a == ResultOf(task.op, snapshot.op[task.op].gen + 1)
  <2>1. task.op \in Ops
    BY <1>2, TaskRecords DEF ComputeSucceeds, Idle
  <2>2. a \in Artifact
    BY <2>1 DEF TypeOK, Snapshot, OpState, ResultOf, Artifact
  <2>3. Compute(Published(task.op, a), a)
    BY <1>2 DEF ComputeSucceeds
  <2> HIDE DEF a
  <2> QED BY <2>1, <2>2, <2>3, CacheOrResultType
<1>3. CASE ComputeFails
  BY <1>3, FailureType
<1> QED BY <1>1, <1>2, <1>3 DEF Computes

\* The memory after a calculation under the lock.
LEMMA ComputedMemory ==
    ASSUME TypeOK, NEW x \in OpState, NEW art \in Artifact \cup {NoArt}, Compute(x, art)
    PROVE  /\ task.op \in Ops
           /\ snapshot'.setup = snapshot.setup
           /\ snapshot'.op = [snapshot.op EXCEPT ![task.op] = x]
           /\ snapshot'.meta = [snapshot.meta EXCEPT ![task.op] =
                                  IF art = NoArt THEN snapshot.meta[task.op] ELSE art]
<1>1. task.op \in Ops
  BY TaskRecords DEF Compute, Idle
<1> DEFINE m == IF art = NoArt THEN snapshot.meta[task.op] ELSE art
<1>2. snapshot' = [snapshot EXCEPT !.op[task.op] = x, !.meta[task.op] = m]
  BY DEF Compute
<1> HIDE DEF m
<1>3. /\ snapshot'.setup = snapshot.setup
      /\ snapshot'.op = [snapshot.op EXCEPT ![task.op] = x]
      /\ snapshot'.meta = [snapshot.meta EXCEPT ![task.op] = m]
  BY <1>1, <1>2 DEF TypeOK, Snapshot
<1> QED BY <1>1, <1>3 DEF m

\* The memory after the commit of a calculation outside the lock.
LEMMA CommittedMemory ==
    ASSUME TypeOK, Commit, NEW m,
           m = (IF task.art = NoArt THEN snapshot.meta[task.op] ELSE task.art)
    PROVE  /\ task.op \in Ops /\ task.art \in Artifact \cup {NoArt} /\ task.result \in OpState
           /\ task.result.rev = snapshot.op[task.op].rev
           /\ snapshot.op[task.op].status = "COMPUTING"
           /\ snapshot'.setup = snapshot.setup
           /\ snapshot'.op = [snapshot.op EXCEPT ![task.op] = task.result]
           /\ snapshot'.meta = [snapshot.meta EXCEPT ![task.op] = m]
<1>1. task.op \in Ops /\ task.art \in Artifact \cup {NoArt} /\ task.result \in OpState
  BY TaskRecords DEF Commit, Idle
<1>2. snapshot' = [snapshot EXCEPT !.op[task.op] = task.result, !.meta[task.op] = m]
  BY DEF Commit
<1>3. /\ snapshot'.setup = snapshot.setup
      /\ snapshot'.op = [snapshot.op EXCEPT ![task.op] = task.result]
      /\ snapshot'.meta = [snapshot.meta EXCEPT ![task.op] = m]
  BY <1>1, <1>2 DEF TypeOK, Snapshot
<1> QED BY <1>1, <1>3 DEF Commit, Matches

\* The memory after the computation token was issued.
LEMMA BegunMemory ==
    ASSUME TypeOK, Begin
    PROVE  /\ task.op \in Ops
           /\ Computing(task) \in OpState
           /\ Computing(task).rev = snapshot.op[task.op].rev
           /\ snapshot'.setup = snapshot.setup
           /\ snapshot'.op = [snapshot.op EXCEPT ![task.op] = Computing(task)]
           /\ snapshot'.meta = snapshot.meta
<1>1. /\ task.op \in Ops /\ Computing(task) \in OpState
      /\ Computing(task).rev = task.shown.rev
  BY TaskRecords, ComputingToken DEF Begin, Idle
<1>2. task.shown.rev = snapshot.op[task.op].rev
  BY DEF Begin, StillShown
<1> QED BY <1>1, <1>2, PutState DEF Begin, TypeOK

\* Snapshots with equal setup, states and artifacts are equal.
LEMMA SameSnapshot ==
    ASSUME NEW s \in Snapshot, NEW r \in Snapshot, s.setup = r.setup,
           \A o \in Ops : s.op[o] = r.op[o] /\ s.meta[o] = r.meta[o]
    PROVE  s = r
<1>1. s.op = r.op
  BY DEF Snapshot
<1>2. s.meta = r.meta
  BY DEF Snapshot
<1> QED BY <1>1, <1>2 DEF Snapshot

----------------------------------------------------------------------------
(* As long as nothing changes while a Save is running.                     *)

\* Who changes the memory, the session or is_dirty has no Save beside it.
LEMMA NoSaveBeside ==
    ASSUME ~overlap', Touch
    PROVE  save = Idle
BY DEF Touch

\* A change during a Save is not forgotten.
LEMMA OverlapStays == TypeOK /\ [Next]_vars /\ ~overlap' => ~overlap
<1> SUFFICES ASSUME TypeOK, [Next]_vars, overlap PROVE overlap'
  BY DEF TypeOK
<1>0. ASSUME Touch \/ UNCHANGED overlap PROVE overlap'
  BY <1>0 DEF Touch
<1>1. CASE UserStep
  <2>1. CASE \E o \in Ops : EditOperation(o)
    BY <1>0, <2>1 DEF EditOperation, Edit
  <2>2. CASE SaveCapture
    BY <2>2 DEF SaveCapture
  <2>3. CASE EditSetup \/ Reopen
    BY <1>0, <2>3 DEF EditSetup, Edit, Reopen
  <2>4. CASE (\E o \in Ops2D : Start2D(o)) \/ (\E o \in Ops3D : Start3D(o))
             \/ \E o \in Ops : PostCapture(o)
    BY <1>0, <2>4 DEF Start2D, Start3D, PostCapture
  <2> QED BY <1>1, <2>1, <2>2, <2>3, <2>4 DEF UserStep
<1>2. CASE SessionStep
  BY <1>0, <1>2 DEF SessionStep, ReadSnapshot, StoreSnapshot, SetDirty, history
<1>3. CASE CalculationStep
  BY <1>0, <1>3
     DEF CalculationStep, ComputeFromCache, ComputeSucceeds, ComputeFails, Compute, Begin,
         BeginRefused, GiveUp, Produce, ProduceLate, ProduceFails, Commit, CommitRefused, history
<1>4. CASE SaveStep \/ PostStep \/ UNCHANGED vars
  BY <1>0, <1>4 DEF SaveStep, SaveCommit, SaveFails, SaveRebind, SaveClean, SaveCleanup, SaveMark,
                    PostStep, PostBegin, PostRecheck, PostPublish, vars, history
<1> QED BY <1>1, <1>2, <1>3, <1>4 DEF Next

\* No operation gets an old result back.
LEMMA RevivedStep ==
    ASSUME TypeOK, ResultsInv, Calm, Next
    PROVE  revived' = {}
<1>1. CASE SaveMark
  <2>1. bound = Normalized(snapshot)
    BY <1>1 DEF SaveMark, Calm, SaveIsAlone
  <2>2. \A o \in Ops : bound.op[o].status = "VALID" => snapshot.op[o].status = "VALID"
    BY <2>1, NormalizedType, MarkDirtyType DEF TypeOK, Snapshot
  <2>3. task.pc = "toolpath" => snapshot.op[task.op].status # "VALID"
    BY DEF ResultsInv, TokenIsIssued, Calm
  <2> QED BY <1>1, <2>2, <2>3 DEF SaveMark, Calm
<1>2. CASE ~SaveMark
  <2>1. CASE UserStep
    BY <2>1 DEF Calm, UserStep, EditOperation, EditSetup, Edit, Start2D, Start3D, SaveCapture,
                Reopen, PostCapture
  <2>2. CASE SessionStep
    BY <2>2 DEF Calm, SessionStep, ReadSnapshot, StoreSnapshot, SetDirty, history
  <2>3. CASE CalculationStep
    <3>1. Computes => revived' = revived
      BY DEF Computes, ComputeFromCache, ComputeSucceeds, ComputeFails, Compute
    <3>2. Begin \/ Commit => revived' = revived
      BY DEF Begin, Commit
    <3>3. BeginRefused \/ GiveUp \/ CommitRefused => revived' = revived
      BY DEF BeginRefused, GiveUp, CommitRefused, history
    <3>4. Produce \/ ProduceLate \/ ProduceFails => revived' = revived
      BY DEF Produce, ProduceLate, ProduceFails, history
    <3> QED BY <2>3, <3>1, <3>2, <3>3, <3>4 DEF CalculationStep, Computes, Calm
  <2>4. CASE SaveStep \/ PostStep
    BY <1>2, <2>4 DEF Calm, SaveStep, SaveCommit, SaveFails, SaveRebind, SaveClean, SaveCleanup,
                      PostStep, PostBegin, PostRecheck, PostPublish, history
  <2> QED BY <2>1, <2>2, <2>3, <2>4 DEF Next
<1> QED BY <1>1, <1>2

\* Between captured and marked the memory, the session and the disk agree.
LEMMA AloneStep ==
    ASSUME TypeOK, SaveIsAlone, ~overlap', Next
    PROVE  SaveIsAlone'
<1>0. ASSUME save' = Idle PROVE SaveIsAlone'
  BY <1>0 DEF SaveIsAlone, Idle
<1>1. ASSUME UNCHANGED <<snapshot, bound, disk, save>>,
             \A t \in Caller : \/ call'[t] = call[t]
                               \/ call'[t].pc \in {"read", "store"} /\ ~call'[t].accepted
                               \/ save = Idle
      PROVE  SaveIsAlone'
  <2>1. CASE save = Idle
    BY <1>0, <1>1, <2>1
  <2>2. CASE save # Idle
    BY <1>1, <2>2 DEF SaveIsAlone
  <2> QED BY <2>1, <2>2
<1>2. ASSUME Touch, save' = save PROVE SaveIsAlone'
  BY <1>0, <1>2, NoSaveBeside
<1>3. CASE UserStep
  <2>1. CASE EditSetup \/ \E o \in Ops : EditOperation(o)
    BY <1>2, <2>1 DEF EditSetup, EditOperation, Edit
  <2>2. CASE SaveCapture
    <3>0. \A t \in Caller : call[t] = Idle
      BY <2>2, Zenon DEF SaveCapture
    <3>1. \A t \in Caller : call[t].pc = "idle"
      BY <3>0 DEF Idle
    <3>2. save'.pc = "captured" /\ bound' = snapshot' /\ call' = call
      BY <2>2 DEF SaveCapture
    <3> QED BY <3>1, <3>2 DEF SaveIsAlone
  <2>3. CASE Reopen
    BY <1>0, <2>3 DEF Reopen
  <2>4. CASE (\E o \in Ops2D : Start2D(o)) \/ (\E o \in Ops3D : Start3D(o))
             \/ \E o \in Ops : PostCapture(o)
    BY <1>1, <2>4 DEF Start2D, Start3D, PostCapture, memory, stored
  <2> QED BY <1>3, <2>1, <2>2, <2>3, <2>4 DEF UserStep
<1>4. CASE SessionStep
  <2>1. ASSUME NEW t \in Caller, ReadSnapshot(t) PROVE SaveIsAlone'
    <3>1. UNCHANGED <<snapshot, bound, disk, save>>
      BY <2>1 DEF ReadSnapshot, memory, stored
    <3>2. \A u \in Caller : u # t => call'[u] = call[u]
      BY <2>1 DEF ReadSnapshot, TypeOK
    <3>3. call'[t].pc = "store" /\ call'[t].accepted = call[t].accepted
      BY <2>1 DEF ReadSnapshot, TypeOK
    <3>4. save = Idle \/ ~call[t].accepted
      BY <2>1 DEF ReadSnapshot, SaveIsAlone
    <3> QED BY <1>1, <3>1, <3>2, <3>3, <3>4
  <2>2. ASSUME NEW t \in Caller, StoreSnapshot(t) \/ SetDirty(t) PROVE SaveIsAlone'
    BY <1>2, <2>2 DEF StoreSnapshot, SetDirty
  <2> QED BY <1>4, <2>1, <2>2 DEF SessionStep
<1>5. ASSUME NEW t \in Caller, Follow(t, FALSE), UNCHANGED <<snapshot, bound, disk, save>>
      PROVE  SaveIsAlone'
  <2>1. call'[t].pc = "read" /\ ~call'[t].accepted
    BY <1>5 DEF Follow, TypeOK
  <2>2. \A u \in Caller : u # t => call'[u] = call[u]
    BY <1>5 DEF Follow, TypeOK
  <2> QED BY <1>1, <1>5, <2>1, <2>2
<1>6. CASE CalculationStep
  <2>1. CASE Computes \/ Begin \/ Commit
    BY <1>2, <2>1 DEF Computes, ComputeFromCache, ComputeSucceeds, ComputeFails, Compute, Begin,
                      Commit
  <2>2. CASE BeginRefused \/ CommitRefused
    BY <1>5, <2>2 DEF BeginRefused, CommitRefused, Caller, memory, stored
  <2>3. CASE GiveUp \/ Produce \/ ProduceLate \/ ProduceFails
    BY <1>1, <2>3 DEF GiveUp, Produce, ProduceLate, ProduceFails, memory, stored
  <2> QED BY <1>6, <2>1, <2>2, <2>3 DEF CalculationStep, Computes
<1>7. CASE SaveStep
  <2>1. CASE SaveFails \/ SaveMark
    BY <1>0, <2>1 DEF SaveFails, SaveMark
  <2>2. CASE SaveCommit
    <3>1. save # Idle /\ bound = snapshot
      BY <2>2 DEF SaveCommit, SaveIsAlone, Idle
    <3>2. /\ save'.pc = "committed" /\ save'.copy = disk' /\ disk' = Normalized(snapshot)
          /\ UNCHANGED <<snapshot, call>>
      BY <2>2, <3>1 DEF SaveCommit, memory
    <3> QED BY <3>1, <3>2 DEF SaveIsAlone
  <2>3. CASE SaveRebind \/ SaveClean
    <3>1. save \in [pc : {"committed", "rebound"}, copy : Snapshot]
      BY <2>3 DEF SaveRebind, SaveClean, TypeOK, Saving, Idle
    <3>2. /\ save'.copy = save.copy /\ save'.pc \in {"rebound", "clean"} /\ bound' = save.copy
          /\ UNCHANGED <<snapshot, disk, call>>
      BY <2>3, <3>1 DEF SaveRebind, SaveClean, stored, SaveIsAlone
    <3>3. save # Idle /\ save.copy = disk /\ disk = Normalized(snapshot)
      BY <3>1 DEF SaveIsAlone, Idle
    <3> QED BY <3>2, <3>3 DEF SaveIsAlone
  <2>4. CASE SaveCleanup
    <3>1. save.pc = "clean" /\ save'.pc = "swept" /\ UNCHANGED <<snapshot, bound, disk, call>>
      BY <2>4 DEF SaveCleanup, memory
    <3>2. save # Idle
      BY <3>1 DEF Idle
    <3> QED BY <3>1, <3>2 DEF SaveIsAlone
  <2> QED BY <1>7, <2>1, <2>2, <2>3, <2>4 DEF SaveStep
<1>8. CASE PostStep
  BY <1>1, <1>8 DEF PostStep, PostBegin, PostRecheck, PostPublish, memory, stored
<1> QED BY <1>3, <1>4, <1>6, <1>7, <1>8 DEF Next

\* The artifacts of a snapshot depend on its metadata only.
LEMMA SameArtifacts ==
    ASSUME NEW s, NEW r, s.meta = r.meta
    PROVE  Artifacts(s) = Artifacts(r)
BY DEF Artifacts

\* Replacing the artifact of an operation by one that has its file.
LEMMA PutArtifact ==
    ASSUME NEW s \in Snapshot, NEW o \in Ops, NEW m, NEW r, NEW fs,
           r.meta = [s.meta EXCEPT ![o] = m], Artifacts(s) \subseteq fs,
           m = s.meta[o] \/ m = NoArt \/ m \in fs
    PROVE  Artifacts(r) \subseteq fs
BY DEF Artifacts, Snapshot

\* Nothing that the memory or the disk refers to loses its file.
LEMMA FilesStep ==
    ASSUME TypeOK, SaveIsAlone, FilesAreThere, ~overlap', Next
    PROVE  FilesAreThere'
<1> USE DEF FilesAreThere
<1>0. ASSUME UNCHANGED <<snapshot, disk, files>>,
             \/ UNCHANGED <<task, save>>
             \/ task'.pc # "done" \/ task'.art = NoArt
      PROVE  FilesAreThere'
  <2>1. Artifacts(snapshot') \subseteq files' /\ Artifacts(disk') \subseteq files'
    BY <1>0 DEF Artifacts
  <2> QED BY <1>0, <2>1
<1>1. CASE UserStep
  <2>1. ASSUME EditSetup \/ \E o \in Ops : EditOperation(o) PROVE FilesAreThere'
    <3>1. PICK s \in Snapshot :
               /\ Edit(s)
               /\ s.meta = snapshot.meta
               /\ \A o \in Ops : s.op[o].status = "DIRTY" \/ s.op[o] = snapshot.op[o]
      BY <2>1, EditEffect
    <3>2. snapshot' = s /\ UNCHANGED <<disk, files, task, save>>
      BY <3>1 DEF Edit, stored
    <3>3. Artifacts(snapshot') \subseteq files'
      BY <3>1, <3>2, SameArtifacts
    <3>4. Artifacts(disk') \subseteq files'
      BY <3>2 DEF Artifacts
    <3>5. task.pc = "done" => task.op \in Ops
      BY TaskRecords
    <3> QED BY <3>1, <3>2, <3>3, <3>4, <3>5
  <2>2. ASSUME NEW o \in Ops2D, Start2D(o) PROVE FilesAreThere'
    BY <1>0, <2>2 DEF Start2D, memory, stored
  <2>3. ASSUME NEW o \in Ops3D, Start3D(o) PROVE FilesAreThere'
    BY <1>0, <2>3 DEF Start3D, memory, stored
  <2>4. CASE SaveCapture
    <3>1. save.pc # "swept" /\ UNCHANGED <<snapshot, disk, files, task>>
      BY <2>4 DEF SaveCapture, stored, Idle
    <3>2. Artifacts(snapshot') \subseteq files' /\ Artifacts(disk') \subseteq files'
      BY <3>1 DEF Artifacts
    <3> QED BY <3>1, <3>2
  <2>5. CASE Reopen
    <3>1. snapshot' = Reconciled(disk) /\ UNCHANGED <<disk, files>> /\ task'.pc = "idle"
      BY <2>5 DEF Reopen, stored, Idle
    <3>2. Artifacts(Reconciled(disk)) \subseteq files
      BY ReconciledType DEF Artifacts, TypeOK
    <3>3. Artifacts(disk') \subseteq files'
      BY <3>1 DEF Artifacts
    <3> QED BY <3>1, <3>2, <3>3 DEF Artifacts
  <2>6. ASSUME NEW o \in Ops, PostCapture(o) PROVE FilesAreThere'
    BY <1>0, <2>6 DEF PostCapture, memory, stored
  <2> QED BY <1>1, <2>1, <2>2, <2>3, <2>4, <2>5, <2>6 DEF UserStep
<1>2. CASE SessionStep
  BY <1>0, <1>2 DEF SessionStep, ReadSnapshot, StoreSnapshot, SetDirty, memory, stored
<1>3. ASSUME Computes PROVE FilesAreThere'
  <2>1. PICK x \in OpState, art \in Artifact \cup {NoArt} : Compute(x, art)
    BY <1>3, ComputeEffect
  <2> DEFINE m == IF art = NoArt THEN snapshot.meta[task.op] ELSE art
  <2>m. m = IF art = NoArt THEN snapshot.meta[task.op] ELSE art
    OBVIOUS
  <2> HIDE DEF m
  <2>2. task.op \in Ops /\ snapshot'.meta = [snapshot.meta EXCEPT ![task.op] = m]
    BY <2>1, <2>m, ComputedMemory
  <2>3. files' = files \cup ({art} \ {NoArt}) /\ disk' = disk /\ task'.pc = "idle"
    BY <2>1 DEF Compute, Idle
  <2>4. m = snapshot.meta[task.op] \/ m \in files'
    BY <2>3, <2>m
  <2>5. Artifacts(snapshot) \subseteq files'
    BY <2>3
  <2>6. Artifacts(snapshot') \subseteq files'
    <3>1. snapshot \in Snapshot
      BY DEF TypeOK
    <3> QED BY <2>2, <2>4, <2>5, <3>1, PutArtifact
  <2>7. Artifacts(disk') \subseteq files'
    BY <2>3 DEF Artifacts
  <2> QED BY <2>3, <2>6, <2>7
<1>4. CASE Begin
  <2>1. snapshot'.meta = snapshot.meta /\ UNCHANGED <<disk, files>> /\ task'.pc = "toolpath"
    BY <1>4, BegunMemory DEF Begin, stored
  <2>2. Artifacts(snapshot') \subseteq files'
    BY <2>1, SameArtifacts
  <2>3. Artifacts(disk') \subseteq files'
    BY <2>1 DEF Artifacts
  <2> QED BY <2>1, <2>2, <2>3
<1>5. CASE BeginRefused
  <2>1. task'.art = NoArt
    BY <1>5 DEF BeginRefused, Superseded
  <2> QED BY <1>0, <1>5, <2>1 DEF BeginRefused, memory, stored
<1>6. CASE GiveUp \/ CommitRefused
  <2>1. task' = Idle
    BY <1>6 DEF GiveUp, CommitRefused
  <2>2. task'.pc # "done"
    BY <2>1 DEF Idle
  <2> QED BY <1>0, <1>6, <2>2 DEF GiveUp, CommitRefused, memory, stored
<1>7. CASE Produce
  <2> DEFINE a == [op |-> task.op, rev |-> task.begun.rev, setup |-> task.begun.setup,
                   gen |-> task.begun.gen]
  <2>1. files' = files \cup {a} /\ task'.art = a /\ UNCHANGED <<snapshot, disk>>
    BY <1>7 DEF Produce, memory
  <2>2. Artifacts(snapshot') \subseteq files' /\ Artifacts(disk') \subseteq files'
    BY <2>1 DEF Artifacts
  <2> QED BY <2>1, <2>2
<1>8. CASE ProduceLate
  <2>1. task'.art = NoArt
    BY <1>8 DEF ProduceLate, Superseded
  <2> QED BY <1>0, <1>8, <2>1 DEF ProduceLate, memory, stored
<1>9. CASE ProduceFails
  <2>1. task'.art = NoArt
    BY <1>9 DEF ProduceFails
  <2> QED BY <1>0, <1>9, <2>1 DEF ProduceFails, memory, stored
<1>10. CASE Commit
  <2> DEFINE m == IF task.art = NoArt THEN snapshot.meta[task.op] ELSE task.art
  <2>1. /\ task.op \in Ops /\ snapshot.op[task.op].status = "COMPUTING"
        /\ snapshot'.meta = [snapshot.meta EXCEPT ![task.op] = m]
    BY <1>10, CommittedMemory
  <2>2. save.pc = "idle"
    BY <1>10, NoSaveBeside DEF Commit, Idle
  <2>3. task.art = NoArt \/ task.art \in files
    BY <1>10, <2>1, <2>2 DEF Commit
  <2>4. m = snapshot.meta[task.op] \/ m \in files
    BY <2>3
  <2> HIDE DEF m
  <2>5. UNCHANGED <<disk, files>> /\ task'.pc = "idle"
    BY <1>10 DEF Commit, stored, Idle
  <2>6. Artifacts(snapshot') \subseteq files
    <3>1. snapshot \in Snapshot /\ Artifacts(snapshot) \subseteq files
      BY DEF TypeOK
    <3> QED BY <2>1, <2>4, <3>1, PutArtifact
  <2>7. Artifacts(disk') \subseteq files'
    BY <2>5 DEF Artifacts
  <2> QED BY <2>5, <2>6, <2>7
<1>11. CASE SaveCommit
  <2>1. /\ disk' = Normalized(snapshot) /\ UNCHANGED <<snapshot, files, task>>
        /\ save.pc # "swept"
    BY <1>11 DEF SaveCommit, SaveIsAlone, memory
  <2>2. disk'.meta = snapshot.meta
    BY <2>1, NormalizedType DEF TypeOK
  <2>3. Artifacts(disk') = Artifacts(snapshot)
    BY <2>2, SameArtifacts
  <2>4. Artifacts(snapshot') = Artifacts(snapshot)
    BY <2>1
  <2> QED BY <2>1, <2>3, <2>4
<1>12. CASE SaveFails \/ SaveRebind \/ SaveClean
  <2>1. UNCHANGED <<snapshot, disk, files, task>> /\ save.pc # "swept"
    BY <1>12 DEF SaveFails, SaveRebind, SaveClean, memory, stored
  <2>2. Artifacts(snapshot') \subseteq files' /\ Artifacts(disk') \subseteq files'
    BY <2>1 DEF Artifacts
  <2> QED BY <2>1, <2>2
<1>13. CASE SaveCleanup
  <2>1. /\ files' = files \cap Artifacts(save.copy) /\ save'.pc = "swept"
        /\ UNCHANGED <<snapshot, disk>>
        /\ save.copy = disk /\ disk = Normalized(snapshot)
    BY <1>13 DEF SaveCleanup, SaveIsAlone, memory
  <2>2. disk.meta = snapshot.meta
    BY <2>1, NormalizedType DEF TypeOK
  <2>3. Artifacts(disk) = Artifacts(snapshot)
    BY <2>2, SameArtifacts
  <2>4. Artifacts(disk') = Artifacts(disk) /\ Artifacts(snapshot') = Artifacts(snapshot)
    BY <2>1
  <2> QED BY <2>1, <2>3, <2>4
<1>14. CASE SaveMark
  <2>1. snapshot' = Normalized(snapshot) /\ disk = Normalized(snapshot)
        /\ UNCHANGED <<disk, files, task>>
    BY <1>14 DEF SaveMark, SaveIsAlone, stored
  <2>2. Artifacts(snapshot') \subseteq files' /\ Artifacts(disk') \subseteq files'
    BY <2>1 DEF Artifacts
  <2>3. \A o \in Ops : snapshot'.op[o].status # "COMPUTING"
    BY <2>1, NormalizedType, MarkDirtyType DEF TypeOK, Snapshot
  <2>4. task.pc = "done" => task.op \in Ops
    BY TaskRecords
  <2> QED BY <2>1, <2>2, <2>3, <2>4
<1>15. CASE PostStep
  BY <1>0, <1>15 DEF PostStep, PostBegin, PostRecheck, PostPublish, memory, stored
<1> QED BY <1>1, <1>2, <1>3, <1>4, <1>5, <1>6, <1>7, <1>8, <1>9, <1>10, <1>11, <1>12, <1>13,
           <1>14, <1>15 DEF Next, CalculationStep, SaveStep, Computes

\* A thread that changes the memory will mark it, if it was marked so far.
LEMMA ChangeIsMarked ==
    ASSUME TypeOK, ChangesAreMarked, NEW t \in Caller, call[t] = Idle, save = Idle,
           call'[t].pc \in {"read", "store"}, call'[t].accepted, call'[t].before = snapshot,
           call'[t].pc = "store" => call'[t].held = snapshot',
           \A u \in Caller \ {t} : call'[u] = call[u],
           UNCHANGED <<dirty, disk, save>>
    PROVE  ChangesAreMarked'
<1>1. CASE snapshot' # snapshot
  <2>1. WillDirty(t)'
    BY <1>1 DEF WillDirty
  <2> QED BY <2>1 DEF ChangesAreMarked
<1>2. CASE snapshot' = snapshot
  <2>1. \A u \in Caller : WillDirty(u) => WillDirty(u)'
    BY <1>2 DEF WillDirty, Idle
  <2> QED BY <1>2, <2>1 DEF ChangesAreMarked, Idle
<1> QED BY <1>1, <1>2

\* A difference between memory and database is marked as a change.
LEMMA MarkedStep ==
    ASSUME TypeOK, ResultsInv, Calm, ~overlap', Next
    PROVE  ChangesAreMarked'
<1> USE DEF Calm
<1>0. ASSUME UNCHANGED <<snapshot, dirty, disk>>, save' = save \/ save = Idle,
             \A t \in Caller : WillDirty(t) => WillDirty(t)'
      PROVE  ChangesAreMarked'
  BY <1>0 DEF ChangesAreMarked, Idle
<1>a. ASSUME UNCHANGED <<snapshot, call>> PROVE \A t \in Caller : WillDirty(t) => WillDirty(t)'
  BY <1>a DEF WillDirty
<1>1. CASE UserStep
  <2>1. ASSUME EditSetup \/ \E o \in Ops : EditOperation(o) PROVE ChangesAreMarked'
    <3>1. PICK s \in Snapshot : Edit(s)
      BY <2>1, EditEffect
    <3>2. save = Idle
      BY <3>1, NoSaveBeside DEF Edit
    <3>3. /\ call["ui"] = Idle /\ snapshot' = s
          /\ call'["ui"] = [pc |-> "store", accepted |-> TRUE, before |-> snapshot, held |-> s]
          /\ \A u \in Caller \ {"ui"} : call'[u] = call[u]
          /\ UNCHANGED <<dirty, disk, save>>
      BY <3>1 DEF Edit, TypeOK, Caller, stored
    <3> QED BY <3>2, <3>3, ChangeIsMarked DEF Caller
  <2>2. CASE (\E o \in Ops2D : Start2D(o)) \/ (\E o \in Ops3D : Start3D(o))
             \/ (\E o \in Ops : PostCapture(o)) \/ SaveCapture
    BY <1>0, <1>a, <2>2 DEF Start2D, Start3D, PostCapture, SaveCapture, memory, stored
  <2>3. CASE Reopen
    <3>1. snapshot' = Reconciled(disk) /\ disk' = disk
      BY <2>3 DEF Reopen, stored
    <3>2. \A o \in Ops : disk.meta[o] = NoArt \/ disk.meta[o] \in files
      BY DEF FilesAreThere, Artifacts
    <3>3. \A o \in Ops : disk.op[o].status = "VALID" => disk.meta[o] # NoArt
      BY DEF ResultsInv, EveryCopyIsSound, SoundBut, ValidIsMatched
    <3>4. \A o \in Ops : /\ Reconciled(disk).meta[o] = disk.meta[o]
                         /\ Reconciled(disk).op[o] = disk.op[o]
      <4> TAKE o \in Ops
      <4>1. CASE disk.meta[o] \in files
        BY <4>1, ReconciledType DEF TypeOK
      <4>2. CASE disk.meta[o] \notin files
        BY <3>2, <3>3, <4>2, ReconciledType DEF TypeOK
      <4> QED BY <4>1, <4>2
    <3>5. Reconciled(disk) = disk
      BY <3>4, ReconciledType, SameSnapshot DEF TypeOK
    <3> QED BY <3>1, <3>5 DEF ChangesAreMarked
  <2> QED BY <1>1, <2>1, <2>2, <2>3 DEF UserStep
<1>2. ASSUME NEW t \in Caller, ReadSnapshot(t) PROVE ChangesAreMarked'
  <2>1. \A u \in Caller \ {t} : call'[u] = call[u]
    BY <1>2 DEF ReadSnapshot, TypeOK
  <2>2. call'[t] = [pc |-> "store", accepted |-> call[t].accepted,
                    before |-> call[t].before, held |-> snapshot]
    BY <1>2 DEF ReadSnapshot, TypeOK
  <2>3. call[t].pc = "read" /\ UNCHANGED <<snapshot, dirty, disk, save>>
    BY <1>2 DEF ReadSnapshot, memory, stored
  <2>4. WillDirty(t) => WillDirty(t)'
    BY <2>2, <2>3 DEF WillDirty
  <2>5. \A u \in Caller \ {t} : WillDirty(u) => WillDirty(u)'
    BY <2>1, <2>3 DEF WillDirty
  <2> QED BY <1>0, <2>3, <2>4, <2>5
<1>3. ASSUME NEW t \in Caller, StoreSnapshot(t) PROVE ChangesAreMarked'
  <2>1. \A u \in Caller \ {t} : call'[u] = call[u]
    BY <1>3 DEF StoreSnapshot, TypeOK
  <2>2. call[t] \in Writing
    BY <1>3 DEF StoreSnapshot, TypeOK, Reading, Idle
  <2>3. call'[t] = [call[t] EXCEPT !.pc = "flag"]
    BY <1>3 DEF StoreSnapshot, TypeOK
  <2>4. /\ call'[t].pc = "flag" /\ call'[t].accepted = call[t].accepted
        /\ call'[t].before = call[t].before /\ call'[t].held = call[t].held
    BY <2>2, <2>3 DEF Writing
  <2>5. call[t].pc = "store" /\ UNCHANGED <<snapshot, dirty, disk, save>>
    BY <1>3 DEF StoreSnapshot, stored
  <2>6. WillDirty(t) => WillDirty(t)'
    BY <2>4, <2>5 DEF WillDirty
  <2>7. \A u \in Caller \ {t} : WillDirty(u) => WillDirty(u)'
    BY <2>1, <2>5 DEF WillDirty
  <2> QED BY <1>0, <2>5, <2>6, <2>7
<1>4. ASSUME NEW t \in Caller, SetDirty(t) PROVE ChangesAreMarked'
  <2>1. \A u \in Caller \ {t} : call'[u] = call[u]
    BY <1>4 DEF SetDirty, TypeOK
  <2>2. /\ call[t].pc = "flag"
        /\ dirty' = (dirty \/ (call[t].accepted /\ call[t].held # call[t].before))
        /\ UNCHANGED <<snapshot, disk, save>>
    BY <1>4 DEF SetDirty, stored
  <2>3. \A u \in Caller \ {t} : WillDirty(u) => WillDirty(u)'
    BY <2>1, <2>2 DEF WillDirty
  <2>4. dirty \/ WillDirty(t) => dirty'
    BY <2>2 DEF WillDirty
  <2> QED BY <2>2, <2>3, <2>4 DEF ChangesAreMarked
<1>5. ASSUME NEW t \in Caller, Follow(t, TRUE), call[t] = Idle, save = Idle,
             UNCHANGED <<dirty, disk, save>>
      PROVE  ChangesAreMarked'
  <2>1. /\ call'[t] = [pc |-> "read", accepted |-> TRUE, before |-> snapshot]
        /\ \A u \in Caller \ {t} : call'[u] = call[u]
    BY <1>5 DEF Follow, TypeOK
  <2> QED BY <1>5, <2>1, ChangeIsMarked
<1>6. ASSUME NEW t \in Caller, Follow(t, FALSE), call[t] = Idle, UNCHANGED <<memory, disk, save>>
      PROVE  ChangesAreMarked'
  <2>1. \A u \in Caller \ {t} : call'[u] = call[u]
    BY <1>6 DEF Follow, TypeOK
  <2>2. \A u \in Caller : WillDirty(u) => WillDirty(u)'
    BY <1>6, <2>1 DEF WillDirty, memory, Idle
  <2> QED BY <1>0, <1>6, <2>2 DEF memory
<1>7. CASE Computes
  <2>1. PICK x \in OpState, art \in Artifact \cup {NoArt} : Compute(x, art)
    BY <1>7, ComputeEffect
  <2>2. call["calculation"] = Idle
    BY <2>1 DEF Compute, ResultsInv, CalculationWaits
  <2>3. save = Idle
    BY <2>1, NoSaveBeside DEF Compute
  <2> QED BY <1>5, <2>1, <2>2, <2>3 DEF Compute, Caller
<1>8. CASE Begin
  <2>1. call["calculation"] = Idle
    BY <1>8 DEF Begin, ResultsInv, CalculationWaits
  <2>2. save = Idle
    BY <1>8, NoSaveBeside DEF Begin
  <2> QED BY <1>5, <1>8, <2>1, <2>2 DEF Begin, Caller, stored
<1>9. CASE Commit
  <2>1. save = Idle
    BY <1>9, NoSaveBeside DEF Commit
  <2>2. call["ui"] = Idle
    BY <1>9 DEF Commit, Caller
  <2> QED BY <1>5, <1>9, <2>1, <2>2 DEF Commit, Caller, stored
<1>10. CASE BeginRefused
  <2>1. call["calculation"] = Idle
    BY <1>10 DEF BeginRefused, ResultsInv, CalculationWaits
  <2> QED BY <1>6, <1>10, <2>1 DEF BeginRefused, Caller, stored
<1>11. CASE CommitRefused
  <2>1. call["ui"] = Idle
    BY <1>11 DEF CommitRefused, Caller
  <2> QED BY <1>6, <1>11, <2>1 DEF CommitRefused, Caller, stored
<1>12. CASE GiveUp \/ Produce \/ ProduceLate \/ ProduceFails \/ PostStep
  <2>1. UNCHANGED <<memory, disk, call, save>>
    BY <1>12 DEF GiveUp, Produce, ProduceLate, ProduceFails, stored,
                 PostStep, PostBegin, PostRecheck, PostPublish
  <2> QED BY <1>0, <1>a, <2>1 DEF memory
<1>13. CASE SaveFails
  <2>1. UNCHANGED <<snapshot, dirty, disk, call>> /\ save.pc = "captured"
    BY <1>13 DEF SaveFails, memory, stored
  <2> QED BY <1>a, <2>1 DEF ChangesAreMarked
<1>14. CASE SaveMark
  <2>1. snapshot' = bound /\ bound = disk /\ disk' = disk
    BY <1>14 DEF SaveMark, SaveIsAlone, stored
  <2> QED BY <2>1 DEF ChangesAreMarked
<1>15. CASE SaveCommit \/ SaveCleanup
  <2>1. save'.pc \in {"committed", "swept"}
    BY <1>15 DEF SaveCommit, SaveCleanup
  <2> QED BY <2>1 DEF ChangesAreMarked
<1>16. CASE SaveRebind \/ SaveClean
  <2>1. save \in [pc : {"committed", "rebound"}, copy : Snapshot]
    BY <1>16 DEF SaveRebind, SaveClean, TypeOK, Saving, Idle
  <2>2. save'.pc \in {"rebound", "clean"}
    BY <1>16, <2>1 DEF SaveRebind, SaveClean
  <2> QED BY <2>2 DEF ChangesAreMarked
<1> QED BY <1>1, <1>2, <1>3, <1>4, <1>7, <1>8, <1>9, <1>10, <1>11, <1>12, <1>13, <1>14, <1>15,
           <1>16 DEF Next, SessionStep, CalculationStep, SaveStep, Computes

\* Only an edit and a reopening change a revision or the setup.
LEMMA RevisionsStay ==
    ASSUME TypeOK, Calm, Next, ~EditSetup, ~\E o \in Ops : EditOperation(o), ~Reopen
    PROVE  /\ snapshot'.setup = snapshot.setup
           /\ \A o \in Ops : snapshot'.op[o].rev = snapshot.op[o].rev
           /\ last' = last
<1>0. ASSUME UNCHANGED <<snapshot, last>>
      PROVE  /\ snapshot'.setup = snapshot.setup
             /\ \A o \in Ops : snapshot'.op[o].rev = snapshot.op[o].rev
             /\ last' = last
  BY <1>0
<1>1. ASSUME NEW o \in Ops, NEW x \in OpState, x.rev = snapshot.op[o].rev, last' = last,
             snapshot'.setup = snapshot.setup, snapshot'.op = [snapshot.op EXCEPT ![o] = x]
      PROVE  /\ snapshot'.setup = snapshot.setup
             /\ \A p \in Ops : snapshot'.op[p].rev = snapshot.op[p].rev
             /\ last' = last
  BY <1>1 DEF TypeOK, Snapshot
<1>2. CASE Computes
  <2>1. PICK x \in OpState, art \in Artifact \cup {NoArt} :
               Compute(x, art) /\ x.rev = snapshot.op[task.op].rev
    BY <1>2, ComputeEffect
  <2>2. /\ task.op \in Ops /\ snapshot'.setup = snapshot.setup
        /\ snapshot'.op = [snapshot.op EXCEPT ![task.op] = x]
    BY <2>1, ComputedMemory
  <2>3. last' = last
    BY <2>1 DEF Compute
  <2> QED BY <1>1, <2>1, <2>2, <2>3
<1>3. CASE Begin
  <2>1. last' = last
    BY <1>3 DEF Begin
  <2> QED BY <1>1, <1>3, <2>1, BegunMemory
<1>4. CASE Commit
  <2>1. last' = last
    BY <1>4 DEF Commit
  <2>2. /\ task.op \in Ops /\ task.result \in OpState
        /\ task.result.rev = snapshot.op[task.op].rev
        /\ snapshot'.setup = snapshot.setup
        /\ snapshot'.op = [snapshot.op EXCEPT ![task.op] = task.result]
    BY <1>4, CommittedMemory
  <2> QED BY <1>1, <2>1, <2>2
<1>5. CASE SaveMark
  <2>1. snapshot' = Normalized(snapshot) /\ last' = last
    BY <1>5 DEF SaveMark, Calm, SaveIsAlone
  <2> QED BY <2>1, NormalizedType, MarkDirtyType DEF TypeOK, Snapshot
<1>6. CASE UserStep
  BY <1>0, <1>6 DEF UserStep, Start2D, Start3D, SaveCapture, PostCapture, memory
<1>7. CASE SessionStep
  BY <1>0, <1>7 DEF SessionStep, ReadSnapshot, StoreSnapshot, SetDirty, memory, history
<1>8. CASE BeginRefused \/ GiveUp \/ CommitRefused
  <2>1. UNCHANGED <<memory, history>>
    BY <1>8 DEF BeginRefused, GiveUp, CommitRefused
  <2> QED BY <1>0, <2>1 DEF memory, history
<1>9. CASE Produce \/ ProduceLate \/ ProduceFails
  <2>1. UNCHANGED <<memory, history>>
    BY <1>9 DEF Produce, ProduceLate, ProduceFails
  <2> QED BY <1>0, <2>1 DEF memory, history
<1>10. CASE SaveCommit \/ SaveFails \/ SaveRebind \/ SaveClean \/ SaveCleanup
  BY <1>0, <1>10 DEF SaveCommit, SaveFails, SaveRebind, SaveClean, SaveCleanup, memory, history
<1>11. CASE PostStep
  BY <1>0, <1>11 DEF PostStep, PostBegin, PostRecheck, PostPublish, memory, history
<1> QED BY <1>2, <1>3, <1>4, <1>5, <1>6, <1>7, <1>8, <1>9, <1>10, <1>11
        DEF Next, CalculationStep, SaveStep, Computes

\* The memory has the last edits.
LEMMA MemoryStep ==
    ASSUME TypeOK, Calm, Next
    PROVE  MemoryIsCurrent'
<1>1. CASE EditSetup \/ \E o \in Ops : EditOperation(o)
  BY <1>1, EditEffect DEF Calm
<1>2. CASE Reopen
  <2>1. /\ snapshot' = Reconciled(disk)
        /\ last' = [setup |-> Reconciled(disk).setup,
                    rev |-> [o \in Ops |-> Reconciled(disk).op[o].rev]]
    BY <1>2 DEF Reopen
  <2> QED BY <2>1 DEF MemoryIsCurrent
<1>3. CASE ~EditSetup /\ ~(\E o \in Ops : EditOperation(o)) /\ ~Reopen
  BY <1>3, RevisionsStay DEF Calm, MemoryIsCurrent
<1> QED BY <1>1, <1>2, <1>3

\* What was posted is for the memory as it is.
LEMMA PostsStep ==
    ASSUME TypeOK, ResultsInv, Calm, Next
    PROVE  PostsAreCurrent'
<1>1. ASSUME StalePost(Ops) PROVE PostsAreCurrent'
  <2>1. results' = {}
    BY <1>1 DEF StalePost, TypeOK, Artifact
  <2>2. ~(post'.pc = "publish" /\ post'.latest)
    BY <1>1, SourceStays, PostRecords DEF Idle
  <2> QED BY <2>1, <2>2 DEF PostsAreCurrent
<1>2. CASE (EditSetup \/ \E o \in Ops : EditOperation(o)) \/ Reopen
  BY <1>1, <1>2 DEF EditSetup, EditOperation, Edit, Reopen
<1>3. CASE ~EditSetup /\ ~(\E o \in Ops : EditOperation(o)) /\ ~Reopen
  <2>1. \A a \in Artifact : Current(a) => Current(a)'
    BY <1>3, RevisionsStay DEF Current, Artifact
  <2>2. ASSUME results' \subseteq results,
               \/ post' = post
               \/ post'.pc # "publish"
               \/ post' # Idle /\ post # Idle /\ post'.source = post.source /\ post'.pc = post.pc
                  /\ (post'.latest => post.latest)
        PROVE  PostsAreCurrent'
    <3>1. \A a \in results' : Current(a)'
      BY <2>1, <2>2 DEF Calm, PostsAreCurrent, TypeOK
    <3>2. post.pc = "publish" => post.source.art \in Artifact
      BY PostRecords DEF Idle
    <3>3. ((post.pc = "publish" /\ post.latest) => Current(post.source.art))'
      <4> SUFFICES ASSUME post'.pc = "publish", post'.latest PROVE Current(post.source.art)'
        OBVIOUS
      <4>1. post.pc = "publish" /\ post.latest /\ post'.source = post.source
        BY <2>2
      <4>2. Current(post.source.art) /\ post.source.art \in Artifact
        BY <3>2, <4>1 DEF Calm, PostsAreCurrent
      <4>3. /\ snapshot'.setup = snapshot.setup
            /\ \A o \in Ops : snapshot'.op[o].rev = snapshot.op[o].rev
        BY <1>3, RevisionsStay
      <4> QED BY <4>1, <4>2, <4>3 DEF Current, Artifact
    <3> QED BY <3>1, <3>3 DEF PostsAreCurrent
  <2>3. ASSUME NEW os, StalePost(os) PROVE PostsAreCurrent'
    <3>1. results' \subseteq results
      BY <2>3 DEF StalePost
    <3>2. CASE post = Idle
      BY <2>2, <2>3, <3>1, <3>2 DEF StalePost
    <3>3. CASE post # Idle
      BY <2>2, <2>3, <3>1, <3>3, SourceStays
    <3> QED BY <3>2, <3>3
  <2>4. ASSUME UNCHANGED <<results, post>> PROVE PostsAreCurrent'
    BY <2>2, <2>4
  <2>5. CASE UserStep
    <3>1. ASSUME NEW o \in Ops, PostCapture(o) PROVE PostsAreCurrent'
      BY <2>2, <3>1 DEF PostCapture
    <3> QED BY <1>3, <2>4, <2>5, <3>1 DEF UserStep, Start2D, Start3D, SaveCapture
  <2>6. CASE SessionStep \/ SaveStep
    BY <2>4, <2>6 DEF SessionStep, ReadSnapshot, StoreSnapshot, SetDirty, SaveStep, SaveCommit,
                      SaveFails, SaveRebind, SaveClean, SaveCleanup, SaveMark
  <2>7. CASE CalculationStep
    <3>1. CASE ComputeSucceeds \/ Begin \/ Commit
      BY <2>3, <3>1 DEF ComputeSucceeds, Begin, Commit
    <3>2. CASE ComputeFromCache \/ ComputeFails \/ BeginRefused \/ GiveUp \/ CommitRefused
      BY <2>4, <3>2 DEF ComputeFromCache, ComputeFails, BeginRefused, GiveUp, CommitRefused
    <3>3. CASE Produce \/ ProduceLate \/ ProduceFails
      BY <2>4, <3>3 DEF Produce, ProduceLate, ProduceFails
    <3> QED BY <2>7, <3>1, <3>2, <3>3 DEF CalculationStep
  <2>8. CASE PostBegin
    <3>1. post \in Posting
      BY <2>8 DEF PostBegin, TypeOK, Idle
    <3>2. post'.pc = "lower"
      BY <2>8, <3>1 DEF PostBegin, Posting
    <3> QED BY <2>2, <2>8, <3>2 DEF PostBegin
  <2>9. CASE PostRecheck
    <3>1. CASE post' = Idle
      BY <2>2, <2>9, <3>1 DEF PostRecheck, Idle
    <3>2. CASE post' # Idle
      <4>1. /\ post' = [post EXCEPT !.pc = "publish"]
            /\ Postable(post.source) /\ Fingerprint(Source(post.op)) = Fingerprint(post.source)
            /\ UNCHANGED <<memory, results>>
        BY <2>9, <3>2 DEF PostRecheck
      <4>2. post \in Posting
        BY <2>9 DEF PostRecheck, TypeOK, Idle
      <4>3. post'.source = post.source /\ post.source.art.op = post.op /\ post.op \in Ops
        BY <4>1, <4>2 DEF Posting, Idle, ResultsInv, SourceFits
      <4>4. /\ post.source.art.rev = snapshot.op[post.op].rev
            /\ post.source.art.setup = snapshot.setup
        BY <4>1 DEF Postable, Fingerprint, Source
      <4>5. Current(post.source.art)
        BY <4>3, <4>4 DEF Current
      <4> QED BY <4>1, <4>3, <4>5 DEF PostsAreCurrent, Current, memory, Calm
    <3> QED BY <3>1, <3>2
  <2>10. CASE PostPublish
    <3>1. /\ results' = results \cup (IF post.latest THEN {post.source.art} ELSE {})
          /\ post'.pc = "idle" /\ post.pc = "publish"
          /\ snapshot' = snapshot
      BY <2>10 DEF PostPublish, Idle, memory
    <3>2. \A a \in results' : Current(a)
      BY <3>1 DEF Calm, PostsAreCurrent
    <3> QED BY <3>1, <3>2 DEF PostsAreCurrent, Current
  <2> QED BY <2>5, <2>6, <2>7, <2>8, <2>9, <2>10 DEF Next, PostStep
<1> QED BY <1>2, <1>3

\* Without changes during a Save, every step keeps memory, session, disk and files in agreement.
LEMMA CalmStep == TypeOK /\ ResultsInv /\ QuietInv /\ [Next]_vars => QuietInv'
<1> SUFFICES ASSUME TypeOK, ResultsInv, QuietInv, [Next]_vars, ~overlap' PROVE Calm'
  BY DEF QuietInv
<1>1. Calm
  BY OverlapStays DEF QuietInv
<1>2. CASE UNCHANGED vars
  BY <1>1, <1>2 DEF Calm, SaveIsAlone, FilesAreThere, ChangesAreMarked, MemoryIsCurrent,
                    PostsAreCurrent, Current, WillDirty, Artifacts, vars, memory, stored, threads,
                    history
<1>3. CASE Next
  BY <1>1, <1>3, RevivedStep, AloneStep, FilesStep, MarkedStep, MemoryStep, PostsStep DEF Calm
<1> QED BY <1>2, <1>3

----------------------------------------------------------------------------
(* The theorems.                                                           *)

\* Every step keeps the inductive invariant.
LEMMA InvStep == Inv /\ [Next]_vars => Inv'
BY TypeStep, ResultsStep, CalmStep DEF Inv

\* The inductive invariant holds in every behaviour.
THEOREM CamInvariant == Spec => []Inv
<1> QED BY InitInv, InvStep, PTL DEF Spec

\* Every variable keeps its type, however often the user edits, calculates,
\* saves, reopens and posts.
THEOREM TypeCorrect == Spec => []TypeOK
<1>1. Inv => TypeOK
  BY DEF Inv
<1> QED BY <1>1, CamInvariant, PTL

\* A VALID operation, in memory, in the session or on disk, has an artifact that
\* was computed for its content and its token, but for an operation to which a
\* Save gave an older result back while it was calculated (publish_toolpath,
\* commit_parallel_calculation, mark_persisted).
THEOREM ResultsMatch == Spec => []ResultMatchesOperation
<1>1. Inv => ResultMatchesOperation
  BY DEF Inv, ResultsInv, EveryCopyIsSound, SoundBut, ResultMatchesOperation
<1> QED BY <1>1, CamInvariant, PTL

\* As long as nothing changes while a Save is running, cleanup_orphans deletes no
\* file that the database or, between saves, the memory refers to.
THEOREM ArtifactsAreKept == Spec => []ReferencedArtifactsExist
<1>1. Inv => ReferencedArtifactsExist
  BY DEF Inv, QuietInv, Calm, FilesAreThere, ReferencedArtifactsExist
<1> QED BY <1>1, CamInvariant, PTL

\* As long as nothing changes while a Save is running, the memory has the last
\* edits and a project at rest that is not dirty has them on disk
\* (execute_cam_command, ProjectService.save, close_project).
THEOREM EditsAreKept == Spec => []NoEditLostBetweenSaves
<1>1. Inv => NoEditLostBetweenSaves
  <2> SUFFICES ASSUME Inv, ~overlap, AtRest
               PROVE  /\ snapshot.setup = last.setup
                      /\ \A o \in Ops : snapshot.op[o].rev = last.rev[o]
                      /\ dirty \/ snapshot = disk
    BY DEF NoEditLostBetweenSaves, NoEditLost
  <2>1. Calm
    BY DEF Inv, QuietInv
  <2>2. \A t \in Caller : ~WillDirty(t)
    BY DEF AtRest, WillDirty, Idle
  <2>3. dirty \/ snapshot = disk
    BY <2>1, <2>2 DEF Calm, ChangesAreMarked, AtRest, Idle
  <2> QED BY <2>1, <2>3 DEF Calm, MemoryIsCurrent
<1> QED BY <1>1, CamInvariant, PTL

\* As long as nothing changes while a Save is running, NC code that can be looked
\* up for the artifact of an operation was made from the operation and the setup
\* as they are now (PostRuntimeService.post).
THEOREM PostsMatch == Spec => []PostedIsCurrent
<1>1. Inv => PostedIsCurrent
  BY DEF Inv, QuietInv, Calm, PostsAreCurrent, Current, PostedIsCurrent
<1> QED BY <1>1, CamInvariant, PTL
=============================================================================
