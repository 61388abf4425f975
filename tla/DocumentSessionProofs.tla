------------------------ MODULE DocumentSessionProofs ------------------------
(***************************************************************************)
(* Proofs about DocumentSession, for any files and any number of           *)
(* documents, edits, Saves and autosaves.                                  *)
(***************************************************************************)
EXTENDS DocumentSession, TLAPS

----------------------------------------------------------------------------
(* The inductive invariant, first what holds whatever has happened.        *)

\* Where a thread has a document.
WithDoc == {"ask", "start", "prepared", "edit", "editing", "stamp", "build", "replace",
            "count", "counting", "renew", "renewing", "restore", "restoring"}

\* Where a thread is, and what it then has with it.
ThreadFits ==
    /\ thread["ui"].pc \in {"idle", "ask", "where", "edit", "editing"} \cup SavePc
    /\ thread["event"].pc \in {"idle", "renew", "renewing"}
    /\ thread["task"].pc \in {"idle", "finished", "read", "prepared", "activate", "activated"}
                               \cup (SavePc \ {"saved"})
    /\ thread["autosave"].pc \in {"idle", "start", "finished"} \cup AutosavePc
    /\ \A t \in Thread :
         /\ thread[t].pc = "idle" => thread[t] = Idle
         /\ thread[t].pc \in {"stamp", "build", "replace"} => thread[t].to # None
         /\ thread[t].pc = "stamp" => thread[t].read = thread[t].was
         /\ thread[t].pc \in WithDoc => thread[t].doc # None
    /\ thread["ui"].pc \in {"ask"} \cup SavePc => thread["ui"].for # "stay"
    /\ thread["task"].pc \in {"read", "mark"} => thread["task"].to \in File \cup {None}

\* A dialog or a Save on the UI thread keeps operations away, and an operation
\* keeps the autosave away.  Results are delivered when the UI thread waits.
OneAtATime ==
    /\ thread["ui"].pc \notin {"idle", "edit", "editing"} => thread["task"].pc = "idle"
    /\ thread["task"].pc # "idle" => thread["autosave"].pc = "idle"
    /\ thread["event"].pc # "idle" => thread["ui"].pc \in {"idle", "ask", "where"}

Prepared(d) == thread["task"].pc = "prepared" /\ thread["task"].doc = d

\* A document is prepared, then imported, then current: one of them at a time,
\* and it is saved only when it is, or has been, current.
DocsFit ==
    /\ \A d \in Doc : d \in {current, importing} \/ Prepared(d) \/ Saving(d) =>
                        d <= used.opens
    /\ current # None => current # importing
    /\ \A d \in Doc : Prepared(d) => d \notin {current, importing}
    /\ \A d \in Doc : Saving(d) => d # importing /\ ~Prepared(d)
    /\ thread["ui"].pc \in {"stamp", "build", "replace"} => thread["ui"].doc = current

GeometryFits ==
    /\ \A d \in Doc :
         /\ d > used.opens => geometry[d] = "none"
         /\ d \in {current, importing} \/ Prepared(d) => geometry[d] # "removed"
    /\ ExtractedWhileNeeded

----------------------------------------------------------------------------
(* What holds as long as saves did not cross, overlap, overwrite or fail.  *)

\* A Save and the autosave's are not in progress together.
SavesApart ==
    ~(/\ thread["ui"].pc \in {"stamp", "build", "replace"}
      /\ thread["autosave"].pc \in AutosavePc)

NamedOrDirty(s) == s.path \in File \cup {None} /\ (s.path = None => s.dirty)

\* The Save x of a document: the state says already what will be true.  An edit
\* that has not come to its end yet will say that it is not.
SaveFitsAt(x) ==
    /\ x.pc = "mark" => x.to \in File \cup {None}
    /\ x.pc \in {"stamp", "build", "replace"} =>
         /\ x.to \in File
         /\ NamedOrDirty(x.was)
         /\ x.was.dirty \/ state[x.doc].dirty \/ Editing(x.doc)
              \/ disk[x.was.path] = content[x.doc]
    /\ x.pc \in {"build", "replace"} => state[x.doc].path = x.to
    /\ x.pc = "replace" => state[x.doc].dirty \/ Editing(x.doc) \/ x.took = content[x.doc]

SaveFits == SaveFitsAt(thread["ui"]) /\ SaveFitsAt(thread["task"])

AutosaveFits ==
    thread["autosave"].pc \in AutosavePc =>
        /\ thread["autosave"].was.dirty
        /\ thread["autosave"].was.path \in File \cup {None}
        /\ thread["autosave"].to \in Doc

InUse(d) == d \in {current, importing} \/ Prepared(d)

\* A document that nobody saves or edits is dirty or as it is in its file.
StateFits ==
    \A d \in Doc :
        InUse(d) /\ ~Saving(d) =>
            /\ NamedOrDirty(state[d])
            /\ state[d].dirty \/ Editing(d) \/ disk[state[d].path] = content[d]

Tidy == SavesApart /\ SaveFits /\ AutosaveFits /\ StateFits

----------------------------------------------------------------------------
(* What holds as long as no work has been lost in one of the known ways.   *)

\* Nothing has been done yet to a document that is being opened.
Untouched(d) ==
    \/ content[d] = 0
    \/ ~state[d].dirty /\ state[d].path \in File /\ disk[state[d].path] = content[d]

Safe(d) == d # None => ~Lost(d)

WorkFits ==
    /\ \A d \in Doc : d = importing \/ Prepared(d) => Untouched(d)
    /\ Opening => Safe(current) /\ thread["ui"].pc \notin {"edit", "editing"}
    /\ thread["ui"].pc = "ask" => current = thread["ui"].doc \/ Safe(current)
    /\ thread["ui"].pc \in {"count", "counting", "renew", "renewing", "saved"} => Safe(current)
    /\ thread["ui"].pc \in {"build", "replace"} => ~state[thread["ui"].doc].dirty
    /\ thread["task"].pc \in {"build", "replace"} /\ importing # None =>
         ~state[thread["task"].doc].dirty

General == ThreadFits /\ OneAtATime /\ DocsFit /\ GeometryFits

Calm == excused \cap {"crossed", "overlap", "overwritten", "failed"} = {}

Inv ==
    /\ TypeOK /\ General
    /\ Calm => Tidy
    /\ excused = {} => WorkFits

----------------------------------------------------------------------------
(* Types.                                                                  *)

\* Files, recovery files and nothing are different.
LEMMA PlaceFacts ==
    /\ None \notin Place /\ None \notin Doc /\ None \notin File
    /\ File \subseteq Place /\ Doc \subseteq Place /\ File \cap Doc = {}
    /\ \A p \in File : p \notin Nat
BY FileAssumption, BoundsAssumption DEF Place, Doc

\* An idle thread is at work on nothing.
LEMMA IdleType == Idle \in Work /\ Idle.pc = "idle" /\ Idle.doc = None
BY PlaceFacts, BoundsAssumption DEF Idle, Work, Steps, Purpose, NoState, State, Content

\* A thread that goes on leaves the others where they are.
LEMMA ThreadChange ==
    ASSUME thread \in [Thread -> Work], NEW t \in Thread, NEW x \in Work,
           thread' = [thread EXCEPT ![t] = x]
    PROVE  /\ thread' \in [Thread -> Work] /\ thread'[t] = x
           /\ \A u \in Thread : u # t => thread'[u] = thread[u]
OBVIOUS

\* So it does when it only moves to its next step.
LEMMA GoType ==
    ASSUME thread \in [Thread -> Work], NEW t \in Thread, NEW pc \in Steps, Go(t, pc)
    PROVE  /\ thread' \in [Thread -> Work] /\ thread'[t] = [thread[t] EXCEPT !.pc = pc]
           /\ \A u \in Thread : u # t => thread'[u] = thread[u]
<1>1. thread' = [thread EXCEPT ![t] = [thread[t] EXCEPT !.pc = pc]]
  BY DEF Go
<1>2. [thread[t] EXCEPT !.pc = pc] \in Work
  BY DEF Work
<1> QED BY <1>1, <1>2, ThreadChange

\* Within the bounds a document, an edit, a Save or an autosave is counted once.
LEMMA UseType ==
    ASSUME used \in [opens : 0 .. MaxOpens, edits : 0 .. MaxEdits, saves : 0 .. MaxSaves,
                     autos : 0 .. MaxAutos]
    PROVE  /\ used.edits < MaxEdits /\ Use("edits") =>
                /\ used' \in [opens : 0 .. MaxOpens, edits : 0 .. MaxEdits, saves : 0 .. MaxSaves,
                              autos : 0 .. MaxAutos]
                /\ used'.opens = used.opens /\ used.edits + 1 \in Content
           /\ used.saves < MaxSaves /\ Use("saves") =>
                /\ used' \in [opens : 0 .. MaxOpens, edits : 0 .. MaxEdits, saves : 0 .. MaxSaves,
                              autos : 0 .. MaxAutos]
                /\ used'.opens = used.opens
           /\ used.autos < MaxAutos /\ Use("autos") =>
                /\ used' \in [opens : 0 .. MaxOpens, edits : 0 .. MaxEdits, saves : 0 .. MaxSaves,
                              autos : 0 .. MaxAutos]
                /\ used'.opens = used.opens
           /\ used.opens < MaxOpens /\ Use("opens") =>
                /\ used' \in [opens : 0 .. MaxOpens, edits : 0 .. MaxEdits, saves : 0 .. MaxSaves,
                              autos : 0 .. MaxAutos]
                /\ used'.opens = used.opens + 1 /\ NextDoc \in Doc
BY BoundsAssumption DEF Use, NextDoc, Content, Doc

\* An excuse is recorded exactly when its condition holds, and is never taken back.
LEMMA ExcuseType ==
    ASSUME excused \subseteq Excuses, NEW why \in Excuses, NEW cond, Excuse(why, cond)
    PROVE  excused' \subseteq Excuses /\ excused \subseteq excused' /\ (cond => why \in excused')
           /\ (why \notin excused' => ~cond)
BY DEF Excuse

\* Releasing documents removes their extracted geometry and no other.
LEMMA ReleasedType ==
    ASSUME geometry \in [Doc -> {"none", "source", "extracted", "removed"}], NEW ds
    PROVE  /\ Released(ds) \in [Doc -> {"none", "source", "extracted", "removed"}]
           /\ \A d \in Doc : d \notin ds => Released(ds)[d] = geometry[d]
           /\ \A d \in Doc : /\ Released(ds)[d] = "none" <=> geometry[d] = "none"
                             /\ d \in ds => Released(ds)[d] # "extracted"
                             /\ Released(ds)[d] = "extracted" => geometry[d] = "extracted"
BY DEF Released

\* _start_operation starts the task, or drops it because a thread is busy.
LEMMA StartType ==
    ASSUME TypeOK, NEW what \in {"mark", "read", "activate"}, NEW to \in File \cup {None},
           Start(what, to)
    PROVE  /\ thread' \in [Thread -> Work]
           /\ thread'["ui"] = Idle /\ thread'["autosave"] = thread["autosave"]
           /\ thread'["event"] = thread["event"]
           /\ \/ (Busy \/ Autosaving) /\ thread'["task"] = thread["task"]
              \/ /\ ~Busy /\ ~Autosaving
                 /\ thread'["task"].pc = what /\ thread'["task"].to = to
                 /\ thread'["task"].doc = None
<1>1. [Idle EXCEPT !.pc = what, !.to = to] \in Work
  <2>1. [Idle EXCEPT !.pc = what] \in Work
    BY IdleType DEF Work, Steps
  <2> QED BY <2>1, PlaceFacts DEF Work, Place, Idle
<1>2. [Idle EXCEPT !.pc = what, !.to = to].pc = what /\ [Idle EXCEPT !.pc = what, !.to = to].to = to
      /\ [Idle EXCEPT !.pc = what, !.to = to].doc = None
  BY DEF Idle
<1> DEFINE x == [Idle EXCEPT !.pc = what, !.to = to]
<1>3. thread' = [thread EXCEPT !["ui"] = Idle,
                               !["task"] = IF Busy \/ Autosaving THEN thread["task"] ELSE x]
  BY DEF Start
<1> HIDE DEF x
<1>4. x \in Work /\ x.pc = what /\ x.to = to /\ x.doc = None
  BY <1>1, <1>2 DEF x
<1> QED BY <1>3, <1>4, IdleType DEF TypeOK, Thread

\* After the questions the document is closed, or the operation that leaves it starts.
LEMMA ProceedEffect ==
    ASSUME NEW for \in Purpose \ {"stay"}, Proceed(for)
    PROVE  \/ CloseNow
           \/ /\ UNCHANGED <<geometry, current, importing>>
              /\ Start("activate", None) \/ \E to \in File \cup {None} : Start("read", to)
<1>1. CASE for = "close"
  BY <1>1 DEF Proceed
<1>2. CASE for = "project"
  BY <1>2 DEF Proceed
<1>3. CASE for = "source"
  BY <1>3 DEF Proceed
<1>4. CASE for \in File /\ for \notin {"close", "project", "source"}
  BY <1>4 DEF Proceed
<1> QED BY <1>1, <1>2, <1>3, <1>4 DEF Purpose

\* close() ends the dialog and leaves no document, and the other threads as they are.
LEMMA CloseType ==
    ASSUME TypeOK, CloseNow
    PROVE  /\ thread' \in [Thread -> Work] /\ thread'["ui"] = Idle
           /\ thread'["task"] = thread["task"] /\ thread'["autosave"] = thread["autosave"]
           /\ thread'["event"] = thread["event"]
           /\ current' = None /\ importing' = None /\ geometry' = Released({current, importing})
BY IdleType DEF CloseNow, TypeOK, Thread

\* A Save, or an autosave, begins with the state of its document.
LEMMA BeginType ==
    ASSUME TypeOK, NEW t \in Thread, NEW d \in Doc, NEW to \in Place, BeginSave(t, d, to)
    PROVE  /\ thread' \in [Thread -> Work]
           /\ \A u \in Thread : u # t => thread'[u] = thread[u]
           /\ thread'[t].pc = "stamp" /\ thread'[t].doc = d /\ thread'[t].to = to
           /\ thread'[t].was = state[d] /\ thread'[t].read = state[d]
           /\ thread'[t].for = thread[t].for
<1> DEFINE x == [thread[t] EXCEPT !.pc = "stamp", !.doc = d, !.to = to, !.was = state[d],
                                  !.read = state[d]]
<1>1. /\ x \in Work /\ x.pc = "stamp" /\ x.doc = d /\ x.to = to /\ x.was = state[d]
      /\ x.read = state[d] /\ x.for = thread[t].for
  <2>1. thread[t] \in Work /\ state[d] \in State
    BY DEF TypeOK
  <2> QED BY <2>1 DEF Work, Steps
<1>2. thread' = [thread EXCEPT ![t] = x]
  BY DEF BeginSave
<1> HIDE DEF x
<1> QED BY <1>1, <1>2, ThreadChange DEF TypeOK

\* A thread that reads the state of its document goes on to store a copy.
LEMMA ReadType ==
    ASSUME TypeOK, NEW t \in Thread, ReadState(t), thread[t].doc \in Doc
    PROVE  /\ thread' \in [Thread -> Work]
           /\ \A u \in Thread : u # t => thread'[u] = thread[u]
           /\ thread[t].pc = "edit" => thread'[t].pc = "editing"
           /\ thread[t].pc = "count" => thread'[t].pc = "counting"
           /\ thread[t].pc = "renew" => thread'[t].pc = "renewing"
           /\ thread[t].pc = "restore" => thread'[t].pc = "restoring"
           /\ thread'[t].doc = thread[t].doc /\ thread'[t].to = thread[t].to
           /\ thread'[t].was = thread[t].was /\ thread'[t].for = thread[t].for
           /\ thread'[t].read = state[thread[t].doc]
<1> DEFINE pc == Reading[thread[t].pc]
<1> DEFINE x == [thread[t] EXCEPT !.pc = pc, !.read = state[thread[t].doc]]
<1>1. /\ thread[t].pc \in {"edit", "count", "renew", "restore"}
      /\ thread' = [thread EXCEPT ![t] = x]
  BY DEF ReadState
<1>2. /\ pc \in Steps
      /\ thread[t].pc = "edit" => pc = "editing"
      /\ thread[t].pc = "count" => pc = "counting"
      /\ thread[t].pc = "renew" => pc = "renewing"
      /\ thread[t].pc = "restore" => pc = "restoring"
  BY <1>1 DEF Reading, Steps
<1> HIDE DEF pc
<1>3. thread[t] \in Work /\ state[thread[t].doc] \in State
  BY DEF TypeOK
<1>4. x \in Work
  BY <1>2, <1>3 DEF Work
<1>5. /\ x.pc = pc /\ x.doc = thread[t].doc /\ x.to = thread[t].to /\ x.was = thread[t].was
      /\ x.for = thread[t].for /\ x.read = state[thread[t].doc]
  BY <1>3 DEF Work
<1>6. /\ thread' \in [Thread -> Work] /\ thread'[t] = x
      /\ \A u \in Thread : u # t => thread'[u] = thread[u]
  <2> HIDE DEF x
  <2> QED BY <1>1, <1>4, ThreadChange DEF TypeOK
<1> QED BY <1>2, <1>5, <1>6 DEF pc

\* A store changes the state of one document.  If it is not excused, it is a change
\* of the state as it is.
LEMMA StoreType ==
    ASSUME TypeOK, NEW t \in Thread, thread[t].doc \in Doc, NEW new \in State, Store(t, new)
    PROVE  /\ state' \in [Doc -> State] /\ excused' \subseteq Excuses
           /\ state'[thread[t].doc] = new
           /\ \A d \in Doc : d # thread[t].doc => state'[d] = state[d]
           /\ Calm' => state[thread[t].doc] = thread[t].read
           /\ UNCHANGED <<content, geometry, current, disk, importing, used, agreed>>
BY DEF Store, Excuse, Excuses, TypeOK, Calm

Used == [opens : 0 .. MaxOpens, edits : 0 .. MaxEdits, saves : 0 .. MaxSaves, autos : 0 .. MaxAutos]

\* The parts of TypeOK.
DocsTyped ==
    /\ state \in [Doc -> State]
    /\ content \in [Doc -> Content]
    /\ geometry \in [Doc -> {"none", "source", "extracted", "removed"}]
    /\ current \in Doc \cup {None} /\ importing \in Doc \cup {None}
    /\ disk \in [Place -> Content]

RestTyped ==
    /\ thread \in [Thread -> Work]
    /\ used \in Used
    /\ agreed \subseteq Content /\ excused \subseteq Excuses

\* The type invariant is the conjunction of the parts the lemmas use.
LEMMA TypeParts ==
    /\ TypeOK <=> DocsTyped /\ RestTyped
    /\ TypeOK' <=> DocsTyped' /\ RestTyped'
BY DEF TypeOK, DocsTyped, RestTyped, Used

\* What follows the questions keeps the types.
LEMMA ProceedTypes ==
    ASSUME TypeOK, NEW for \in Purpose \ {"stay"}, Proceed(for)
    PROVE  /\ thread' \in [Thread -> Work]
           /\ geometry' \in [Doc -> {"none", "source", "extracted", "removed"}]
           /\ current' \in {current, None} /\ importing' \in {importing, None}
<1>1. CASE CloseNow
  BY <1>1, CloseType, ReleasedType DEF TypeOK
<1>2. CASE /\ UNCHANGED <<geometry, current, importing>>
           /\ Start("activate", None) \/ \E to \in File \cup {None} : Start("read", to)
  BY <1>2, StartType DEF TypeOK
<1> QED BY <1>1, <1>2, ProceedEffect

\* What the user does keeps the types.
LEMMA UserTypes ==
    ASSUME TypeOK, ThreadFits, UserStep
    PROVE  TypeOK'
<1>t. DocsTyped /\ RestTyped
  BY TypeParts
<1> USE DEF docs, history
<1>w. \A t \in Thread : thread[t] \in Work
  BY <1>t DEF RestTyped
<1>1. CASE Edit
  <2>1. current \in Doc /\ used' \in Used /\ used.edits + 1 \in Content
    BY <1>1, <1>t, UseType DEF Edit, DocsTyped, RestTyped, Used
  <2>2. content' \in [Doc -> Content]
    BY <1>1, <1>t, <2>1 DEF Edit, DocsTyped
  <2>3. excused' \subseteq Excuses
    BY <1>1, <1>t, ExcuseType DEF Edit, RestTyped, Excuses
  <2>4. [Idle EXCEPT !.pc = "edit", !.doc = current] \in Work
    BY <2>1, IdleType DEF Work, Steps
  <2>5. thread' \in [Thread -> Work]
    BY <1>1, <1>t, <2>4 DEF Edit, RestTyped
  <2> QED BY <1>1, <1>t, <2>1, <2>2, <2>3, <2>5, TypeParts DEF Edit, DocsTyped, RestTyped
<1>2. CASE Save
  <2>1. used' \in Used
    BY <1>2, <1>t, UseType DEF Save, RestTyped, Used
  <2>2. CASE Start("mark", None)
    BY <1>2, <1>t, <2>1, <2>2, StartType, TypeParts DEF Save, DocsTyped, RestTyped
  <2>3. CASE thread' = [thread EXCEPT !["ui"] = [Idle EXCEPT !.pc = "where", !.for = "stay"]]
    <3>1. [Idle EXCEPT !.pc = "where", !.for = "stay"] \in Work
      BY IdleType DEF Work, Steps, Purpose
    <3>2. thread' \in [Thread -> Work]
      BY <1>t, <2>3, <3>1 DEF RestTyped
    <3> QED BY <1>2, <1>t, <2>1, <3>2, TypeParts DEF Save, DocsTyped, RestTyped
  <2> QED BY <1>2, <2>2, <2>3 DEF Save
<1>3. CASE StartUnasked
  <2>1. Proceed("project") /\ "project" \in Purpose \ {"stay"}
    BY <1>3 DEF StartUnasked, Purpose
  <2>2. excused' \subseteq Excuses
    BY <1>3, <1>t, ExcuseType DEF StartUnasked, RestTyped, Excuses
  <2> QED BY <1>3, <1>t, <2>1, <2>2, ProceedTypes, TypeParts DEF StartUnasked, DocsTyped, RestTyped
<1>4. ASSUME NEW for \in Purpose \ {"stay"}, Ask(for) PROVE TypeOK'
  <2>1. CASE current # None /\ state[current].dirty
    <3>1. [Idle EXCEPT !.pc = "ask", !.for = for, !.doc = current] \in Work
      BY <1>t, <2>1, IdleType DEF Work, Steps, DocsTyped
    <3>2. thread' = [thread EXCEPT !["ui"] = [Idle EXCEPT !.pc = "ask", !.for = for, !.doc = current]]
      BY <1>4, <2>1 DEF Ask
    <3>3. thread' \in [Thread -> Work]
      BY <1>t, <3>1, <3>2 DEF RestTyped
    <3> QED BY <1>4, <1>t, <2>1, <3>3, TypeParts DEF Ask, DocsTyped, RestTyped
  <2>2. CASE Proceed(for)
    BY <1>4, <1>t, <2>2, ProceedTypes, TypeParts DEF Ask, DocsTyped, RestTyped
  <2> QED BY <1>4, <2>1, <2>2 DEF Ask
<1>5. CASE Cancel
  BY <1>5, <1>t, IdleType, TypeParts DEF Cancel, DocsTyped, RestTyped
<1>6. CASE AnswerDiscard
  <2>1. /\ thread["ui"].for \in Purpose \ {"stay"} /\ Proceed(thread["ui"].for)
        /\ thread["ui"].doc \in Doc
    BY <1>6, <1>w DEF AnswerDiscard, ThreadFits, WithDoc, Work, Thread
  <2>2. agreed' \subseteq Content
    BY <1>6, <1>t, <2>1 DEF AnswerDiscard, DocsTyped, RestTyped
  <2> QED BY <1>6, <1>t, <2>1, <2>2, ProceedTypes, TypeParts DEF AnswerDiscard, DocsTyped, RestTyped
<1>7. CASE AnswerSave
  <2> DEFINE to == IF current = None THEN None ELSE state[current].path
  <2>1. to \in Place \cup {None} /\ used' \in Used
    BY <1>7, <1>t, UseType DEF AnswerSave, DocsTyped, RestTyped, Used, State
  <2>2. thread' = [thread EXCEPT !["ui"].to = to, !["ui"].pc = IF to = None THEN "where" ELSE "mark"]
    BY <1>7 DEF AnswerSave
  <2> HIDE DEF to
  <2>3. [thread["ui"] EXCEPT !.to = to] \in Work
    BY <1>w, <2>1 DEF Work, Thread
  <2>4. [thread["ui"] EXCEPT !.to = to, !.pc = IF to = None THEN "where" ELSE "mark"] \in Work
    BY <2>3 DEF Work, Steps
  <2>5. thread' \in [Thread -> Work]
    BY <1>t, <2>2, <2>4 DEF RestTyped
  <2>6. excused' \subseteq Excuses
    BY <1>7, <1>t, ExcuseType DEF AnswerSave, RestTyped, Excuses
  <2> QED BY <1>7, <1>t, <2>1, <2>5, <2>6, TypeParts DEF AnswerSave, DocsTyped, RestTyped
<1>8. ASSUME NEW f \in File, ChooseFile(f) PROVE TypeOK'
  <2>1. CASE Start("mark", f)
    BY <1>8, <1>t, <2>1, StartType, TypeParts DEF ChooseFile, DocsTyped, RestTyped
  <2>2. CASE thread' = [thread EXCEPT !["ui"].pc = "mark", !["ui"].to = f]
    <3>1. [thread["ui"] EXCEPT !.pc = "mark"] \in Work
      BY <1>w DEF Work, Steps, Thread
    <3>2. [thread["ui"] EXCEPT !.pc = "mark", !.to = f] \in Work
      BY <3>1, PlaceFacts DEF Work
    <3>3. thread' \in [Thread -> Work]
      BY <1>t, <2>2, <3>2 DEF RestTyped
    <3> QED BY <1>8, <1>t, <3>3, TypeParts DEF ChooseFile, DocsTyped, RestTyped
  <2> QED BY <1>8, <2>1, <2>2 DEF ChooseFile
<1> QED BY <1>1, <1>2, <1>3, <1>4, <1>5, <1>6, <1>7, <1>8 DEF UserStep

\* The steps of the threads keep the types.
LEMMA ThreadTypes ==
    ASSUME TypeOK, ThreadFits, ThreadStep
    PROVE  TypeOK'
<1>t. DocsTyped /\ RestTyped
  BY TypeParts
<1> USE DEF docs, history
<1>w. \A t \in Thread : thread[t] \in Work
  BY <1>t DEF RestTyped
<1>p. {"ui", "event", "task", "autosave"} = Thread
  BY DEF Thread
<1>d. \A t \in Thread : thread[t].pc \in WithDoc => thread[t].doc \in Doc
  BY <1>w DEF ThreadFits, Work
\* A store, and the step to which it leads.
<1>s. ASSUME NEW t \in Thread, thread[t].pc \in WithDoc, NEW new \in State, Store(t, new),
             thread' \in [Thread -> Work]
      PROVE  TypeOK'
  <2>1. thread[t].doc \in Doc
    BY <1>d, <1>s
  <2>2. /\ state' \in [Doc -> State] /\ excused' \subseteq Excuses
        /\ UNCHANGED <<content, geometry, current, disk, importing, used, agreed>>
    BY <1>s, <2>1, StoreType
  <2> QED BY <1>s, <1>t, <2>2, TypeParts DEF DocsTyped, RestTyped
<1>g. ASSUME NEW t \in Thread, NEW pc \in Steps, Go(t, pc) PROVE thread' \in [Thread -> Work]
  BY <1>g, <1>t, GoType DEF RestTyped
<1>i. ASSUME NEW t \in Thread, thread' = [thread EXCEPT ![t] = Idle]
      PROVE  thread' \in [Thread -> Work]
  BY <1>i, <1>t, IdleType DEF RestTyped
<1>1. ASSUME NEW t \in {"ui", "task"}, SaveBegins(t) PROVE TypeOK'
  <2> DEFINE to == IF thread[t].to = None THEN state[current].path ELSE thread[t].to
  <2>1. current \in Doc /\ to \in Place
    BY <1>1, <1>t, <1>w, <1>p DEF SaveBegins, DocsTyped, State, Work
  <2>2. BeginSave(t, current, to)
    BY <1>1 DEF SaveBegins
  <2> HIDE DEF to
  <2>3. thread' \in [Thread -> Work]
    BY <1>p, <2>1, <2>2, BeginType
  <2>4. excused' \subseteq Excuses
    BY <1>1, <1>t, ExcuseType DEF SaveBegins, RestTyped, Excuses
  <2> QED BY <1>1, <1>t, <2>3, <2>4, TypeParts DEF SaveBegins, DocsTyped, RestTyped
<1>2. ASSUME NEW t \in {"ui", "task"}, SaveRefused(t) PROVE TypeOK'
  <2>1. "finished" \in Steps /\ t \in Thread
    BY <1>p DEF Steps
  <2>2. thread' \in [Thread -> Work]
    BY <1>2, <1>i, <1>g, <2>1 DEF SaveRefused
  <2> QED BY <1>2, <1>t, <2>2, TypeParts DEF SaveRefused, DocsTyped, RestTyped
<1>3. ASSUME NEW t \in Thread, SaveStamp(t) PROVE TypeOK'
  <2>1. thread[t].to \in Place /\ thread[t].pc \in WithDoc /\ "build" \in Steps
    BY <1>3, <1>w DEF SaveStamp, ThreadFits, Work, WithDoc, Steps
  <2>2. [path |-> thread[t].to, dirty |-> FALSE, readOnly |-> FALSE] \in State
    BY <2>1 DEF State
  <2> QED BY <1>3, <1>s, <1>g, <2>1, <2>2 DEF SaveStamp
<1>4. ASSUME NEW t \in Thread, SaveBuild(t) PROVE TypeOK'
  <2>1. thread[t].doc \in Doc /\ content[thread[t].doc] \in Content
    BY <1>4, <1>t, <1>d DEF SaveBuild, WithDoc, DocsTyped
  <2>2. [thread[t] EXCEPT !.pc = "replace"] \in Work
    BY <1>w DEF Work, Steps
  <2>3. [thread[t] EXCEPT !.pc = "replace", !.took = content[thread[t].doc]] \in Work
    BY <2>1, <2>2 DEF Work
  <2>4. thread' \in [Thread -> Work]
    BY <1>4, <1>t, <2>3 DEF SaveBuild, RestTyped
  <2> QED BY <1>4, <1>t, <2>4, TypeParts DEF SaveBuild, DocsTyped, RestTyped
<1>5. ASSUME NEW t \in Thread, SaveReplace(t) PROVE TypeOK'
  <2>1. thread[t].to \in Place /\ thread[t].took \in Content /\ "count" \in Steps
    BY <1>5, <1>w DEF SaveReplace, ThreadFits, Work, Steps
  <2>2. thread' \in [Thread -> Work] /\ disk' \in [Place -> Content]
    BY <1>5, <1>t, <1>g, <2>1 DEF SaveReplace, DocsTyped
  <2>3. excused' \subseteq Excuses
    BY <1>5, <1>t, ExcuseType DEF SaveReplace, RestTyped, Excuses
  <2> QED BY <1>5, <1>t, <2>2, <2>3, TypeParts DEF SaveReplace, DocsTyped, RestTyped
<1>6. ASSUME NEW t \in Thread, SaveFails(t) PROVE TypeOK'
  <2>1. thread[t].doc \in Doc /\ thread[t].was \in State
    BY <1>6, <1>d, <1>w DEF SaveFails, WithDoc, Work
  <2>2. state' \in [Doc -> State]
    BY <1>6, <1>t, <2>1 DEF SaveFails, DocsTyped
  <2>3. {"restore", "finished"} \subseteq Steps
    BY DEF Steps
  <2>4. thread' \in [Thread -> Work]
    BY <1>6, <1>i, <1>g, <2>3 DEF SaveFails
  <2>5. excused' \subseteq Excuses
    BY <1>6, <1>t, ExcuseType DEF SaveFails, RestTyped, Excuses
  <2> QED BY <1>6, <1>t, <2>2, <2>4, <2>5, TypeParts DEF SaveFails, DocsTyped, RestTyped
<1>7. ASSUME NEW t \in Thread, SaveCounts(t) PROVE TypeOK'
  <2>1. /\ thread[t].read \in State /\ thread[t].pc \in WithDoc
        /\ {"restore", "renew"} \subseteq Steps
    BY <1>7, <1>w DEF SaveCounts, Work, WithDoc, Steps
  <2>2. Go(t, "restore") \/ Go(t, "renew")
    BY <1>7 DEF SaveCounts
  <2> QED BY <1>7, <1>s, <1>g, <2>1, <2>2 DEF SaveCounts
<1>8. ASSUME NEW t \in Thread, Renew(t) PROVE TypeOK'
  <2>1. /\ thread[t].read \in State /\ thread[t].pc \in WithDoc
        /\ {"saved", "finished"} \subseteq Steps
    BY <1>8, <1>w DEF Renew, Work, WithDoc, Steps
  <2>2. thread' = [thread EXCEPT ![t] = Idle] \/ Go(t, "saved") \/ Go(t, "finished")
    BY <1>8 DEF Renew
  <2>3. thread' \in [Thread -> Work]
    BY <1>i, <1>g, <2>1, <2>2
  <2> QED BY <1>8, <1>s, <2>1, <2>3 DEF Renew
<1>13. ASSUME NEW t \in Thread, ReadState(t) PROVE TypeOK'
  <2>1. thread[t].doc \in Doc
    BY <1>13, <1>d DEF ReadState, WithDoc
  <2>2. thread' \in [Thread -> Work]
    BY <1>13, <2>1, ReadType
  <2> QED BY <1>13, <1>t, <2>2, TypeParts DEF ReadState, DocsTyped, RestTyped
<1>14. CASE MarkDirty
  <2>1. thread["ui"].read \in State /\ thread["ui"].pc \in WithDoc /\ "ui" \in Thread
    BY <1>14, <1>w, <1>p DEF MarkDirty, Work, WithDoc
  <2>2. [thread["ui"].read EXCEPT !.dirty = TRUE] \in State
    BY <2>1 DEF State
  <2> QED BY <1>14, <1>s, <1>i, <2>1, <2>2 DEF MarkDirty
<1>15. CASE AutosaveSkips
  <2>1. "finished" \in Steps /\ "autosave" \in Thread
    BY <1>p DEF Steps
  <2>2. thread' \in [Thread -> Work]
    BY <1>15, <1>g, <2>1 DEF AutosaveSkips
  <2> QED BY <1>15, <1>t, <2>2, TypeParts DEF AutosaveSkips, DocsTyped, RestTyped
<1>16. CASE AutosaveBegins
  <2>1. current \in Doc /\ current \in Place
    BY <1>16, <1>t DEF AutosaveBegins, DocsTyped, Place
  <2>2. thread' \in [Thread -> Work]
    BY <1>16, <1>p, <2>1, BeginType DEF AutosaveBegins
  <2>3. excused' \subseteq Excuses
    BY <1>16, <1>t, ExcuseType DEF AutosaveBegins, RestTyped, Excuses
  <2> QED BY <1>16, <1>t, <2>2, <2>3, TypeParts DEF AutosaveBegins, DocsTyped, RestTyped
<1>17. CASE AutosaveRestore
  <2> DEFINE x == thread["autosave"]
  <2>1. /\ x.read \in State /\ x.was \in State /\ x.pc \in WithDoc /\ "autosave" \in Thread
        /\ "finished" \in Steps
    BY <1>17, <1>w, <1>p DEF AutosaveRestore, Work, WithDoc, Steps
  <2>2. [x.read EXCEPT !.path = x.was.path, !.dirty = x.was.dirty] \in State
    BY <2>1 DEF State
  <2> QED BY <1>17, <1>s, <1>g, <2>1, <2>2 DEF AutosaveRestore
<1>9. CASE Read
  <2> DEFINE from == thread["task"].to
  <2>1. NextDoc \in Doc /\ used' \in Used
    BY <1>9, <1>t, UseType DEF Read, RestTyped, Used
  <2>2. from \in Place \cup {None}
    BY <1>9, <1>w, <1>p DEF Work
  <2>3. PICK ro \in BOOLEAN :
          state' = [state EXCEPT ![NextDoc] =
                       [path |-> from, dirty |-> from = None, readOnly |-> ro]]
    BY <1>9 DEF Read
  <2>4. [path |-> from, dirty |-> from = None, readOnly |-> ro] \in State
    BY <2>2, <2>3 DEF State
  <2>5. state' \in [Doc -> State]
    BY <1>t, <2>1, <2>3, <2>4 DEF DocsTyped
  <2>6. (IF from = None THEN 0 ELSE disk[from]) \in Content
    BY <1>t, <2>2, BoundsAssumption DEF DocsTyped, Content
  <2>7. content' = [content EXCEPT ![NextDoc] = IF from = None THEN 0 ELSE disk[from]]
    BY <1>9 DEF Read
  <2>8. content' \in [Doc -> Content]
    BY <1>t, <2>1, <2>6, <2>7 DEF DocsTyped
  <2>9. geometry' \in [Doc -> {"none", "source", "extracted", "removed"}]
    BY <1>9, <1>t, <2>1 DEF Read, DocsTyped
  <2>10. [thread["task"] EXCEPT !.pc = "prepared"] \in Work
    BY <1>w, <1>p DEF Work, Steps
  <2>11. [thread["task"] EXCEPT !.pc = "prepared", !.doc = NextDoc] \in Work
    BY <2>1, <2>10 DEF Work
  <2>12. thread' \in [Thread -> Work]
    BY <1>9, <1>t, <2>11 DEF Read, RestTyped
  <2> QED BY <1>9, <1>t, <2>1, <2>5, <2>8, <2>9, <2>12, TypeParts DEF Read, DocsTyped, RestTyped
<1>10. CASE ActivateProject
  <2>1. "activated" \in Steps /\ "task" \in Thread
    BY <1>p DEF Steps
  <2>2. thread' \in [Thread -> Work]
    BY <1>10, <1>g, <2>1 DEF ActivateProject
  <2> QED BY <1>10, <1>t, <2>2, ReleasedType, TypeParts DEF ActivateProject, DocsTyped, RestTyped
<1>11. CASE OperationFails
  <2>1. "finished" \in Steps /\ "task" \in Thread
    BY <1>p DEF Steps
  <2>2. thread' \in [Thread -> Work]
    BY <1>11, <1>g, <2>1 DEF OperationFails
  <2> QED BY <1>11, <1>t, <2>2, TypeParts DEF OperationFails, DocsTyped, RestTyped
<1>12. CASE Continue
  <2>1. thread["ui"].for \in Purpose \ {"stay"} /\ Proceed(thread["ui"].for)
    BY <1>12, <1>w, <1>p DEF Continue, ThreadFits, SavePc, Work
  <2> QED BY <1>12, <1>t, <2>1, ProceedTypes, TypeParts DEF Continue, DocsTyped, RestTyped
<1> QED BY <1>1, <1>2, <1>3, <1>4, <1>5, <1>6, <1>7, <1>8, <1>9, <1>10, <1>11, <1>12, <1>13,
           <1>14, <1>15, <1>16, <1>17
        DEF ThreadStep

\* The signals that the event loop delivers keep the types.
LEMMA EventTypes ==
    ASSUME TypeOK, ThreadFits, Event
    PROVE  TypeOK'
<1>t. DocsTyped /\ RestTyped
  BY TypeParts
<1> USE DEF docs, history
<1>w. \A t \in Thread : thread[t] \in Work
  BY <1>t DEF RestTyped
<1>1. CASE RequestAutosave
  <2>1. current \in Doc /\ used' \in Used
    BY <1>1, <1>t, UseType DEF RequestAutosave, DocsTyped, RestTyped, Used
  <2>2. [Idle EXCEPT !.pc = "start"] \in Work
    BY IdleType DEF Work, Steps
  <2>3. [Idle EXCEPT !.pc = "start", !.doc = current] \in Work
    BY <2>1, <2>2 DEF Work
  <2>4. thread' \in [Thread -> Work]
    BY <1>1, <1>t, <2>3 DEF RequestAutosave, RestTyped
  <2> QED BY <1>1, <1>t, <2>1, <2>4, TypeParts DEF RequestAutosave, DocsTyped, RestTyped
<1>2. CASE ImportStarts
  <2>1. thread["task"].doc \in Doc
    BY <1>2, <1>w DEF ImportStarts, ThreadFits, WithDoc, Work, Thread
  <2> QED BY <1>2, <1>t, <2>1, IdleType, ReleasedType, TypeParts
          DEF ImportStarts, DocsTyped, RestTyped
<1>3. CASE ProjectBinds
  BY <1>3, <1>t, IdleType, ReleasedType, TypeParts DEF ProjectBinds, DocsTyped, RestTyped
<1>4. CASE CommitOpen
  <2>1. importing \in Doc
    BY <1>4, <1>t DEF CommitOpen, DocsTyped
  <2>2. [Idle EXCEPT !.pc = "renew", !.doc = importing] \in Work
    BY <2>1, IdleType DEF Work, Steps
  <2>3. thread' \in [Thread -> Work]
    BY <1>4, <1>t, <2>2 DEF CommitOpen, RestTyped
  <2> QED BY <1>4, <1>t, <2>1, <2>3, ReleasedType, TypeParts DEF CommitOpen, DocsTyped, RestTyped
<1>5. CASE ImportFails
  BY <1>5, <1>t, ReleasedType, TypeParts DEF ImportFails, DocsTyped, RestTyped
<1>6. ASSUME NEW t \in {"task", "autosave"}, Finished(t) PROVE TypeOK'
  BY <1>6, <1>t, IdleType, TypeParts DEF Finished, DocsTyped, RestTyped
<1> QED BY <1>1, <1>2, <1>3, <1>4, <1>5, <1>6 DEF Event

----------------------------------------------------------------------------
(* Steps that leave the documents alone.                                   *)

\* What every step does to the parts of the invariant.  A document that is left
\* takes no work with it.
Leaving == \A d \in Doc : current = d /\ current' # d => ~Lost(d)'

Keeps ==
    /\ General'
    /\ Tidy /\ Calm' => Tidy'
    /\ Tidy /\ WorkFits /\ excused' = {} => WorkFits' /\ Leaving

\* The thread goes on in the same edit, or the same autosave.
Onward(t) ==
    /\ \/ {thread[t].pc, thread'[t].pc} \subseteq {"edit", "editing"}
       \/ {thread[t].pc, thread'[t].pc} \subseteq {"count", "counting", "restore", "restoring"}
    /\ thread'[t].doc = thread[t].doc /\ thread'[t].to = thread[t].to
    /\ thread'[t].was = thread[t].was

\* Where the invariant speaks of a thread's document.
Engaged(t) == Ahead(t) \cup {"prepared", "edit", "editing"}

\* No save, edit or prepared document comes or goes.
Still ==
    /\ UNCHANGED <<geometry, current, importing>> /\ used'.opens = used.opens
    /\ \A t \in Thread :
         \/ thread'[t] = thread[t]
         \/ thread[t].pc \notin Engaged(t) /\ thread'[t].pc \notin Engaged(t)
         \/ Onward(t)

Harmless == Still /\ UNCHANGED <<docs, disk>> /\ agreed \subseteq agreed'

\* In such a step nobody comes to or leaves the steps that hold a document.
LEMMA StillSame ==
    ASSUME Still, NEW t \in Thread
    PROVE  /\ thread'[t].pc \in Ahead(t) <=> thread[t].pc \in Ahead(t)
           /\ thread'[t].pc = "prepared" <=> thread[t].pc = "prepared"
           /\ thread'[t].pc \in {"edit", "editing"} <=> thread[t].pc \in {"edit", "editing"}
           /\ thread[t].pc \in Engaged(t) =>
                /\ thread'[t].doc = thread[t].doc /\ thread'[t].to = thread[t].to
                /\ thread'[t].was = thread[t].was
           /\ thread[t].pc \in {"stamp", "build", "replace", "prepared"}
                \/ thread'[t].pc \in {"stamp", "build", "replace", "prepared"} =>
                  thread'[t] = thread[t]
BY DEF Still, Engaged, Ahead, AutosavePc, Onward

\* The documents are in the same hands after it.
LEMMA StillHands ==
    ASSUME Still
    PROVE  \A d \in Doc : /\ (Saving(d)' <=> Saving(d)) /\ (Prepared(d)' <=> Prepared(d))
                          /\ Editing(d)' <=> Editing(d)
<1>0. {"ui", "event", "task", "autosave"} = Thread
  BY DEF Thread
<1>1. \A t \in Thread : thread[t].pc \in Ahead(t) => thread[t].pc \in Engaged(t)
  BY DEF Engaged
<1>2. \A d \in Doc : Saving(d)' <=> Saving(d)
  BY <1>1, StillSame DEF Saving, Ahead
<1>3. \A d \in Doc : Prepared(d)' <=> Prepared(d)
  BY <1>0, StillSame DEF Prepared, Engaged
<1>4. \A d \in Doc : Editing(d)' <=> Editing(d)
  BY <1>0, StillSame DEF Editing, Engaged
<1> QED BY <1>2, <1>3, <1>4

\* What holds whatever has happened goes on to hold.
LEMMA StillKeeps ==
    ASSUME General, Still, ThreadFits', OneAtATime'
    PROVE  General'
<1>0. {"ui", "event", "task", "autosave"} = Thread
  BY DEF Thread
<1>1. /\ UNCHANGED <<geometry, current, importing>> /\ used'.opens = used.opens
  BY DEF Still
<1>2. DocsFit'
  <2>1. thread'["ui"].pc \in {"stamp", "build", "replace"} => thread'["ui"].doc = current'
    BY StillSame, <1>0, <1>1 DEF General, DocsFit
  <2> QED BY <1>1, StillHands, <2>1 DEF General, DocsFit
<1>3. GeometryFits'
  <2>1. ExtractedWhileNeeded'
    BY <1>0, <1>1, StillSame DEF General, GeometryFits, ExtractedWhileNeeded
  <2> QED BY <1>1, StillHands, <2>1 DEF General, GeometryFits
<1> QED BY <1>2, <1>3 DEF General

\* After os.replace of a Save on the UI thread.
SafePc == {"count", "counting", "renew", "renewing", "saved"}

\* A harmless step keeps the rest but for what it says of the user's dialog.
LEMMA HarmlessKeeps ==
    ASSUME General, Harmless
    PROVE  /\ Tidy /\ (\A t \in {"ui", "task"} :
                          thread'[t].pc = "mark" => thread'[t].to \in File \cup {None}) => Tidy'
           /\ WorkFits
              /\ (Opening' => Safe(current)' /\ thread'["ui"].pc \notin {"edit", "editing"})
              /\ (thread'["ui"].pc = "ask" => current' = thread'["ui"].doc \/ Safe(current)')
              /\ (thread'["ui"].pc \in SafePc => Safe(current)')
              => WorkFits'
           /\ \A d \in Doc : Safe(d) => Safe(d)'
           /\ Leaving
<1>0. {"ui", "event", "task", "autosave"} = Thread
  BY DEF Thread
<1>1. /\ UNCHANGED <<state, content, geometry, current, importing, disk>>
      /\ used'.opens = used.opens /\ agreed \subseteq agreed'
  BY DEF Harmless, Still, docs
<1>s. Still
  BY DEF Harmless
<1>2. \A d \in Doc : /\ (Saving(d)' <=> Saving(d)) /\ (Prepared(d)' <=> Prepared(d))
                     /\ Editing(d)' <=> Editing(d)
  BY <1>s, StillHands
<1>6. ASSUME Tidy, \A t \in {"ui", "task"} :
                      thread'[t].pc = "mark" => thread'[t].to \in File \cup {None}
      PROVE  Tidy'
  <2>1. SavesApart' /\ AutosaveFits'
    <3>1. /\ thread'["autosave"].pc \in AutosavePc <=> thread["autosave"].pc \in AutosavePc
          /\ thread["autosave"].pc \in AutosavePc =>
               /\ thread'["autosave"].to = thread["autosave"].to
               /\ thread'["autosave"].was = thread["autosave"].was
      BY <1>0, <1>s, StillSame DEF Ahead, Engaged
    <3>2. thread'["ui"].pc \in {"stamp", "build", "replace"} =>
            thread["ui"].pc \in {"stamp", "build", "replace"}
      BY <1>0, <1>s, StillSame
    <3> QED BY <1>6, <3>1, <3>2 DEF Tidy, SavesApart, AutosaveFits
  <2>2. StateFits'
    BY <1>1, <1>2, <1>6 DEF Tidy, StateFits, InUse, NamedOrDirty
  <2>3. SaveFits'
    <3>1. ASSUME NEW t \in {"ui", "task"}, SaveFitsAt(thread[t]) PROVE SaveFitsAt(thread[t])'
      <4>1. CASE thread'[t].pc \in {"stamp", "build", "replace"}
        <5>1. thread'[t] = thread[t]
          BY <1>0, <1>s, <4>1, StillSame
        <5>2. Editing(thread[t].doc)' <=> Editing(thread[t].doc)
          BY <1>0, <1>s, <5>1, StillSame DEF Editing, Engaged
        <5> QED BY <1>1, <3>1, <5>1, <5>2 DEF SaveFitsAt, NamedOrDirty
      <4>2. CASE thread'[t].pc \notin {"stamp", "build", "replace"}
        BY <1>6, <4>2 DEF SaveFitsAt
      <4> QED BY <4>1, <4>2
    <3> QED BY <1>6, <3>1 DEF Tidy, SaveFits
  <2> QED BY <2>1, <2>2, <2>3 DEF Tidy
<1>7. \A d \in Doc : Safe(d) => Safe(d)'
  BY <1>1 DEF Safe, Lost
<1>8. ASSUME WorkFits,
             Opening' => Safe(current)' /\ thread'["ui"].pc \notin {"edit", "editing"},
             thread'["ui"].pc = "ask" => current' = thread'["ui"].doc \/ Safe(current)',
             thread'["ui"].pc \in SafePc => Safe(current)'
      PROVE  WorkFits'
  <2>1. \A d \in Doc : d = importing' \/ Prepared(d)' => Untouched(d)'
    BY <1>1, <1>2, <1>8 DEF WorkFits, Untouched
  <2>2. /\ thread'["ui"].pc \in {"build", "replace"} => ~state'[thread'["ui"].doc].dirty
        /\ thread'["task"].pc \in {"build", "replace"} /\ importing' # None =>
             ~state'[thread'["task"].doc].dirty
    BY <1>0, <1>1, <1>8, <1>s, StillSame DEF WorkFits
  <2> QED BY <1>8, <2>1, <2>2 DEF WorkFits, SafePc
<1>9. Leaving
  BY <1>1 DEF Leaving
<1> QED BY <1>6, <1>7, <1>8, <1>9

\* What keeps every document safe keeps the current one safe, also when there is none.
LEMMA SafeNone ==
    ASSUME TypeOK, \A d \in Doc : Safe(d) => Safe(d)', UNCHANGED current, Safe(current)
    PROVE  Safe(current)'
BY DEF TypeOK, Safe

\* Starting a task keeps the invariant if the task is a Save or there is no work to lose.
LEMMA StartKeeps ==
    ASSUME TypeOK, General, NEW what \in {"mark", "read", "activate"},
           NEW to \in File \cup {None}, Start(what, to),
           thread["ui"].pc \in {"idle", "ask", "where", "saved"},
           UNCHANGED <<docs, current, importing, disk>>, used'.opens = used.opens,
           agreed \subseteq agreed',
           Tidy /\ WorkFits /\ excused' = {} => what = "mark" \/ Safe(current)'
    PROVE  Keeps
<1>0. {"ui", "event", "task", "autosave"} = Thread
  BY DEF Thread
<1>1. /\ thread'["ui"] = Idle /\ thread'["autosave"] = thread["autosave"]
      /\ thread'["event"] = thread["event"]
      /\ \/ thread'["task"] = thread["task"]
         \/ /\ ~Busy /\ ~Autosaving
            /\ thread'["task"].pc = what /\ thread'["task"].to = to
            /\ thread'["task"].doc = None
  BY StartType
<1>2. thread'["ui"].pc = "idle"
  BY <1>1, IdleType
<1>3. ~Busy => thread["task"].pc = "idle"
  BY IdleType DEF Busy
<1>4. ~Autosaving => thread["autosave"].pc = "idle"
  BY IdleType DEF Autosaving
<1>5. ThreadFits'
  BY <1>0, <1>1, <1>2 DEF General, ThreadFits, SavePc, WithDoc
<1>6. OneAtATime'
  BY <1>1, <1>2, <1>4 DEF General, OneAtATime
<1>7. Harmless
  <2>1. \A t \in Thread :
          \/ thread'[t] = thread[t]
          \/ thread[t].pc \notin Engaged(t) /\ thread'[t].pc \notin Engaged(t)
    BY <1>0, <1>1, <1>2, <1>3 DEF Engaged, Ahead
  <2> QED BY <2>1 DEF Harmless, Still, docs
<1>8. Tidy => Tidy'
  BY <1>2, <1>5, <1>7, HarmlessKeeps DEF ThreadFits
<1>9. ASSUME Tidy, WorkFits, excused' = {} PROVE WorkFits'
  <2>1. ASSUME Opening' PROVE Safe(current)'
    <3>1. CASE thread'["task"] = thread["task"]
      <4>1. Opening
        BY <1>7, <2>1, <3>1 DEF Opening, Harmless, Still
      <4>2. Safe(current)
        BY <1>9, <4>1 DEF WorkFits
      <4> QED BY <1>7, <4>2, HarmlessKeeps, SafeNone
    <3>2. CASE thread'["task"].pc = what /\ what # "mark"
      BY <1>9, <3>2
    <3>3. CASE thread'["task"].pc = what /\ what = "mark"
      <4>1. Opening
        BY <1>7, <2>1, <3>3 DEF Opening, Harmless, Still
      <4>2. Safe(current)
        BY <1>9, <4>1 DEF WorkFits
      <4> QED BY <1>7, <4>2, HarmlessKeeps, SafeNone
    <3> QED BY <1>1, <3>1, <3>2, <3>3
  <2> QED BY <1>2, <1>7, <1>9, <2>1, HarmlessKeeps DEF SafePc
<1>10. Leaving /\ DocsFit' /\ GeometryFits'
  BY <1>5, <1>6, <1>7, HarmlessKeeps, StillKeeps DEF Harmless, General
<1> QED BY <1>5, <1>6, <1>8, <1>9, <1>10 DEF Keeps, General

\* A step of the user's dialogs keeps it.
LEMMA DialogStepKeeps ==
    ASSUME TypeOK, General, UNCHANGED <<docs, current, importing, disk>>,
           used'.opens = used.opens, agreed \subseteq agreed',
           \A t \in {"event", "task", "autosave"} : thread'[t] = thread[t],
           thread["ui"].pc \in {"idle", "ask", "where"},
           thread["task"].pc = "idle" \/ thread'["ui"] = Idle,
           \/ thread'["ui"] = Idle
           \/ thread'["ui"].pc = "where"
           \/ thread'["ui"].pc = "ask" /\ thread'["ui"].doc = current /\ current # None
           \/ thread'["ui"].pc = "mark" /\ thread["event"].pc = "idle",
           thread'["ui"].pc \in {"ask", "mark"} => thread'["ui"].for # "stay",
           Tidy /\ Calm' /\ thread'["ui"].pc = "mark" => thread'["ui"].to \in File \cup {None}
    PROVE  Keeps
<1>0. {"ui", "event", "task", "autosave"} = Thread
  BY DEF Thread
<1>1. thread'["ui"].pc \in {"idle", "ask", "where", "mark"}
  BY IdleType
<1>2. Harmless
  <2>1. thread["ui"].pc \notin Engaged("ui") /\ thread'["ui"].pc \notin Engaged("ui")
    BY <1>1 DEF Engaged, Ahead
  <2> QED BY <1>0, <2>1 DEF Harmless, Still, docs
<1>3. ThreadFits'
  BY <1>0, <1>1, IdleType DEF General, ThreadFits, SavePc, WithDoc
<1>4. OneAtATime'
  BY <1>0, <1>1, IdleType DEF General, OneAtATime
<1>5. ASSUME Tidy, Calm' PROVE Tidy'
  <2>1. \A t \in {"ui", "task"} : thread'[t].pc = "mark" => thread'[t].to \in File \cup {None}
    BY <1>3, <1>5 DEF ThreadFits
  <2> QED BY <1>2, <1>5, <2>1, HarmlessKeeps
<1>6. ASSUME Tidy, WorkFits PROVE WorkFits'
  <2>1. Opening' => Opening
    BY DEF Opening
  <2>2. Opening' => Safe(current)'
    BY <1>2, <1>6, <2>1, HarmlessKeeps, SafeNone DEF WorkFits
  <2> QED BY <1>1, <1>2, <1>6, <2>2, HarmlessKeeps, IdleType DEF SafePc
<1>7. Leaving /\ General'
  BY <1>2, <1>3, <1>4, HarmlessKeeps, StillKeeps DEF Harmless
<1> QED BY <1>5, <1>6, <1>7 DEF Keeps

\* A question that has been answered: the document that is left is in a file, or
\* the user has given it up.
LEMMA ProceedKeeps ==
    ASSUME TypeOK, General, NEW for \in Purpose \ {"stay"}, Proceed(for),
           thread["ui"].pc \in {"idle", "ask", "where", "saved"}, thread["task"].pc = "idle",
           UNCHANGED <<state, content, disk>>, used'.opens = used.opens,
           agreed \subseteq agreed',
           Tidy /\ WorkFits /\ excused' = {} => \A d \in Doc : current = d => ~Lost(d)'
    PROVE  Keeps
<1>0. {"ui", "event", "task", "autosave"} = Thread
  BY DEF Thread
<1>1. ASSUME UNCHANGED <<geometry, current, importing>>,
             NEW what \in {"read", "activate"}, NEW to \in File \cup {None}, Start(what, to)
      PROVE  Keeps
  <2>1. Tidy /\ WorkFits /\ excused' = {} => Safe(current)'
    BY <1>1 DEF TypeOK, Safe
  <2> QED BY <1>1, <2>1, StartKeeps DEF docs
<1>2. CASE CloseNow
  <2>1. /\ thread'["ui"] = Idle /\ thread'["task"] = thread["task"]
        /\ thread'["autosave"] = thread["autosave"] /\ thread'["event"] = thread["event"]
        /\ current' = None /\ importing' = None /\ geometry' = Released({current, importing})
    BY <1>2, CloseType
  <2>2. /\ thread'["ui"].pc = "idle" /\ thread'["ui"].doc = None
        /\ \A d \in Doc : ~Prepared(d) /\ ~Prepared(d)' /\ d # current' /\ d # importing'
    BY <2>1, IdleType, PlaceFacts DEF Prepared
  <2>3. ThreadFits' /\ OneAtATime'
    BY <1>0, <2>1, <2>2 DEF General, ThreadFits, OneAtATime, SavePc, WithDoc
  <2>4. \A d \in Doc : Saving(d)' => Saving(d)
    BY <1>0, <2>1, <2>2 DEF Saving, Ahead
  <2>5. DocsFit'
    BY <2>1, <2>2, <2>4 DEF General, DocsFit
  <2>6. GeometryFits'
    <3>1. \A d \in Doc : geometry'[d] = "extracted" => FALSE
      BY <2>1, <2>2, ReleasedType DEF TypeOK, General, GeometryFits, ExtractedWhileNeeded, Prepared
    <3>2. \A d \in Doc : geometry'[d] = "none" <=> geometry[d] = "none"
      BY <2>1, ReleasedType DEF TypeOK
    <3> QED BY <2>2, <3>1, <3>2 DEF General, GeometryFits, ExtractedWhileNeeded
  <2>7. Tidy => Tidy'
    BY <1>0, <2>1, <2>2 DEF Tidy, SavesApart, SaveFits, SaveFitsAt, AutosaveFits, StateFits, InUse
  <2>8. ASSUME Tidy, WorkFits, excused' = {} PROVE WorkFits' /\ Leaving
    <3>1. WorkFits'
      BY <2>1, <2>2, <2>8 DEF WorkFits, Safe, Opening
    <3>2. Leaving
      BY <2>8 DEF Leaving
    <3> QED BY <3>1, <3>2
  <2> QED BY <2>3, <2>5, <2>6, <2>7, <2>8 DEF Keeps, General
<1> QED BY <1>1, <1>2, ProceedEffect

----------------------------------------------------------------------------
(* What the user does.                                                     *)

\* A current document that is not marked as edited has no work to lose.
LEMMA CleanIsSafe ==
    ASSUME TypeOK, StateFits, NEW d \in Doc, current = d, ~state[d].dirty, ~Saving(d),
           ~Editing(d)
    PROVE  ~Lost(d)
BY DEF StateFits, InUse, NamedOrDirty, Lost

\* When an operation may start, no thread has a document.
LEMMA NobodySaves ==
    ASSUME MayStart
    PROVE  /\ thread["ui"].pc = "idle" /\ thread["task"].pc = "idle"
           /\ thread["autosave"].pc = "idle" /\ thread["event"].pc = "idle"
           /\ \A d \in Doc : ~Saving(d) /\ ~Prepared(d) /\ ~Editing(d)
<1>1. /\ thread["ui"] = Idle /\ thread["task"] = Idle /\ thread["autosave"] = Idle
      /\ thread["event"] = Idle
  BY DEF MayStart, Free, EventLoop, Busy, Autosaving
<1>2. \A t \in Thread : thread[t].pc = "idle"
  BY <1>1, IdleType DEF Thread
<1> QED BY <1>1, <1>2, IdleType DEF Saving, Ahead, AutosavePc, Prepared, Editing

\* The new content of stage_cad_view_state keeps the invariant.
LEMMA EditKeeps ==
    ASSUME TypeOK, TypeOK', General, Edit
    PROVE  Keeps
<1>0. {"ui", "event", "task", "autosave"} = Thread
  BY DEF Thread
<1>1. /\ current \in Doc /\ thread["ui"].pc = "idle" /\ thread["event"].pc = "idle"
      /\ UNCHANGED <<state, geometry, current, disk, importing, agreed>>
      /\ used'.opens = used.opens
      /\ content' = [content EXCEPT ![current] = used.edits + 1]
      /\ Excuse("edited", Opening)
  BY IdleType, UseType DEF Edit, Free, EventLoop, TypeOK
<1>2. /\ thread'["ui"].pc = "edit" /\ thread'["ui"].doc = current
      /\ \A t \in {"event", "task", "autosave"} : thread'[t] = thread[t]
  BY <1>0 DEF Edit, TypeOK, Idle
<1>3. \A d \in Doc \ {current} : content'[d] = content[d]
  BY <1>1 DEF TypeOK
<1>4. \A d \in Doc : /\ (Saving(d)' <=> Saving(d)) /\ (Prepared(d)' <=> Prepared(d))
                     /\ ~Editing(d) /\ (Editing(d)' <=> d = current)
  BY <1>0, <1>1, <1>2 DEF Saving, Ahead, Prepared, Editing
<1>5. ThreadFits' /\ OneAtATime'
  BY <1>0, <1>1, <1>2, PlaceFacts DEF General, ThreadFits, OneAtATime, SavePc
<1>6. General'
  <2>1. DocsFit'
    BY <1>1, <1>2, <1>4 DEF General, DocsFit
  <2>2. GeometryFits'
    BY <1>0, <1>1, <1>2, <1>4 DEF General, GeometryFits, ExtractedWhileNeeded
  <2> QED BY <1>5, <2>1, <2>2 DEF General
<1>7. ASSUME Tidy PROVE Tidy'
  <2>1. SavesApart' /\ AutosaveFits'
    BY <1>0, <1>2, <1>7 DEF Tidy, SavesApart, AutosaveFits
  <2>2. SaveFits'
    <3>1. SaveFitsAt(thread["ui"])'
      BY <1>2 DEF SaveFitsAt
    <3>2. thread["task"].pc \in {"stamp", "build", "replace"} => thread["task"].doc \in Doc
      BY <1>0 DEF General, ThreadFits, WithDoc, TypeOK, Work
    <3>3. SaveFitsAt(thread["task"])'
      <4>1. thread["task"].doc = current => Editing(thread["task"].doc)'
        BY <1>2 DEF Editing
      <4>2. ~Editing(thread["task"].doc)
        BY <1>1 DEF Editing
      <4> QED BY <1>1, <1>2, <1>3, <1>7, <3>2, <4>1, <4>2
              DEF Tidy, SaveFits, SaveFitsAt, NamedOrDirty
    <3> QED BY <3>1, <3>3 DEF SaveFits
  <2>3. StateFits'
    BY <1>1, <1>3, <1>4, <1>7 DEF Tidy, StateFits, NamedOrDirty, InUse
  <2> QED BY <2>1, <2>2, <2>3 DEF Tidy
<1>8. ASSUME WorkFits, excused' = {} PROVE WorkFits' /\ Leaving
  <2>1. ~Opening /\ ~Opening'
    BY <1>0, <1>1, <1>2, <1>8, ExcuseType DEF Excuse, Opening
  <2>2. importing = None /\ thread["task"].pc # "prepared"
    BY <2>1 DEF Opening
  <2>3. WorkFits'
    BY <1>0, <1>1, <1>2, <2>1, <2>2, PlaceFacts DEF WorkFits, Prepared
  <2> QED BY <1>1, <2>3 DEF Leaving
<1> QED BY <1>6, <1>7, <1>8 DEF Keeps

\* save_project keeps it.
LEMMA SaveKeeps ==
    ASSUME TypeOK, TypeOK', General, Save
    PROVE  Keeps
<1>1. /\ UNCHANGED <<docs, current, disk, importing, history>> /\ used'.opens = used.opens
      /\ MayStart
  BY UseType DEF Save, MayStart, TypeOK
<1>2. CASE Start("mark", None)
  BY <1>1, <1>2, NobodySaves, StartKeeps DEF history
<1>3. CASE thread' = [thread EXCEPT !["ui"] = [Idle EXCEPT !.pc = "where", !.for = "stay"]]
  <2>1. /\ thread'["ui"].pc = "where"
        /\ \A t \in {"event", "task", "autosave"} : thread'[t] = thread[t]
    BY <1>3 DEF TypeOK, Thread, Idle
  <2> QED BY <1>1, <2>1, NobodySaves, DialogStepKeeps DEF history
<1> QED BY <1>2, <1>3 DEF Save

\* The question about unsaved changes keeps it.
LEMMA AskKeeps ==
    ASSUME TypeOK, TypeOK', General, NEW for \in Purpose \ {"stay"}, Ask(for)
    PROVE  Keeps
<1>1. /\ MayStart /\ UNCHANGED <<state, content, disk, used, history>>
  BY DEF Ask
<1>2. CASE current # None /\ state[current].dirty
  <2> DEFINE x == [Idle EXCEPT !.pc = "ask", !.for = for, !.doc = current]
  <2>1. thread' = [thread EXCEPT !["ui"] = x] /\ UNCHANGED <<geometry, current, importing>>
    BY <1>2 DEF Ask
  <2>2. x.pc = "ask" /\ x.for = for /\ x.doc = current
    BY DEF Idle
  <2> HIDE DEF x
  <2>3. /\ thread'["ui"].pc = "ask" /\ thread'["ui"].for # "stay" /\ thread'["ui"].doc = current
        /\ \A t \in {"event", "task", "autosave"} : thread'[t] = thread[t]
    BY <2>1, <2>2 DEF TypeOK, Thread
  <2> QED BY <1>1, <1>2, <2>1, <2>3, NobodySaves, DialogStepKeeps DEF history, docs
<1>3. CASE Proceed(for) /\ ~(current # None /\ state[current].dirty)
  <2>1. ASSUME Tidy, NEW d \in Doc, current = d PROVE ~Lost(d)'
    <3>1. ~Lost(d)
      BY <1>1, <1>3, <2>1, NobodySaves, CleanIsSafe, PlaceFacts DEF Tidy
    <3> QED BY <1>1, <3>1 DEF Lost, history
  <2> QED BY <1>1, <1>3, <2>1, NobodySaves, ProceedKeeps DEF history
<1> QED BY <1>2, <1>3 DEF Ask

\* What starts without a question keeps it: it is excused.
LEMMA StartUnaskedKeeps ==
    ASSUME TypeOK, TypeOK', General, StartUnasked
    PROVE  Keeps
<1>1. /\ MayStart /\ UNCHANGED <<state, content, disk, used, agreed>> /\ Proceed("project")
      /\ Excuse("unasked", current # None /\ state[current].dirty)
  BY DEF StartUnasked
<1>2. ASSUME Tidy, excused' = {}, NEW d \in Doc, current = d PROVE ~Lost(d)'
  <2>1. ~state[d].dirty
    BY <1>1, <1>2, PlaceFacts DEF Excuse
  <2>2. ~Lost(d)
    BY <1>1, <1>2, <2>1, NobodySaves, CleanIsSafe DEF Tidy
  <2> QED BY <1>1, <2>2 DEF Lost
<1>3. "project" \in Purpose \ {"stay"}
  BY DEF Purpose
<1> QED BY <1>1, <1>2, <1>3, NobodySaves, ProceedKeeps

\* The answers to the questions keep it.
LEMMA DialogKeeps ==
    ASSUME TypeOK, TypeOK', General,
           Cancel \/ AnswerDiscard \/ AnswerSave \/ \E f \in File : ChooseFile(f)
    PROVE  Keeps
<1>0. {"ui", "event", "task", "autosave"} = Thread
  BY DEF Thread
<1>1. /\ thread["ui"].pc \in {"ask", "where"} /\ thread["task"].pc = "idle"
      /\ thread["event"].pc = "idle"
  BY IdleType DEF Cancel, AnswerDiscard, AnswerSave, ChooseFile, EventLoop, General, OneAtATime
<1>2. CASE Cancel
  <2>1. /\ thread'["ui"] = Idle /\ \A t \in {"event", "task", "autosave"} : thread'[t] = thread[t]
    BY <1>2 DEF Cancel, TypeOK, Thread
  <2> QED BY <1>1, <1>2, <2>1, IdleType, DialogStepKeeps DEF Cancel, history
<1>3. CASE AnswerDiscard
  <2>1. /\ thread["ui"].pc = "ask" /\ agreed' = agreed \cup {content[thread["ui"].doc]}
        /\ Proceed(thread["ui"].for) /\ UNCHANGED <<state, content, disk, used, excused>>
        /\ thread["ui"].for \in Purpose \ {"stay"}
    BY <1>3 DEF AnswerDiscard, General, ThreadFits, TypeOK, Work, Thread
  <2>2. ASSUME WorkFits, NEW d \in Doc, current = d PROVE ~Lost(d)'
    <3>1. CASE d = thread["ui"].doc
      BY <2>1, <3>1 DEF Lost
    <3>2. CASE Safe(d)
      BY <2>1, <3>2, PlaceFacts DEF Lost, Safe
    <3> QED BY <2>1, <2>2, <3>1, <3>2 DEF WorkFits
  <2> QED BY <1>1, <2>1, <2>2, ProceedKeeps
<1>4. CASE AnswerSave
  <2> DEFINE to == IF current = None THEN None ELSE state[current].path
  <2>1. /\ thread["ui"].pc = "ask" /\ current \in Doc
        /\ thread' = [thread EXCEPT !["ui"].to = to,
                                    !["ui"].pc = IF to = None THEN "where" ELSE "mark"]
        /\ Excuse("overlap", thread["autosave"].pc \in AutosavePc)
        /\ UNCHANGED <<docs, current, disk, importing, agreed>> /\ used'.opens = used.opens
    BY <1>4, UseType DEF AnswerSave, TypeOK
  <2>2. to = state[current].path
    BY <2>1, PlaceFacts
  <2> HIDE DEF to
  <2>3. /\ \A t \in {"event", "task", "autosave"} : thread'[t] = thread[t]
        /\ thread'["ui"].pc \in {"where", "mark"} /\ thread'["ui"].for = thread["ui"].for
        /\ thread'["ui"].to = to
    BY <2>1 DEF TypeOK, Thread, Work
  <2>4. ASSUME Tidy, Calm' PROVE to \in File \cup {None}
    <3>1. thread["autosave"].pc \notin AutosavePc
      BY <2>1, <2>4, ExcuseType DEF Calm, Excuse
    <3>2. ~Saving(current)
      BY <1>0, <1>1, <3>1 DEF Saving, Ahead
    <3> QED BY <2>1, <2>2, <2>4, <3>2 DEF Tidy, StateFits, InUse, NamedOrDirty
  <2>5. thread["ui"].for # "stay"
    BY <2>1 DEF General, ThreadFits
  <2> QED BY <1>1, <2>1, <2>3, <2>4, <2>5, DialogStepKeeps
<1>5. ASSUME NEW f \in File, ChooseFile(f) PROVE Keeps
  <2>1. /\ thread["ui"].pc = "where"
        /\ UNCHANGED <<docs, current, disk, importing, used, history>>
    BY <1>5 DEF ChooseFile
  <2>2. CASE Start("mark", f)
    BY <2>1, <2>2, StartKeeps DEF history
  <2>3. CASE thread["ui"].for # "stay" /\ thread' = [thread EXCEPT !["ui"].pc = "mark", !["ui"].to = f]
    <3>1. /\ \A t \in {"event", "task", "autosave"} : thread'[t] = thread[t]
          /\ thread'["ui"].pc = "mark" /\ thread'["ui"].for = thread["ui"].for
          /\ thread'["ui"].to = f
      BY <2>3 DEF TypeOK, Thread, Work
    <3> QED BY <1>1, <2>1, <2>3, <3>1, DialogStepKeeps DEF history
  <2> QED BY <1>5, <2>2, <2>3 DEF ChooseFile
<1> QED BY <1>2, <1>3, <1>4, <1>5

\* Everything the user does keeps it.
LEMMA UserKeeps ==
    ASSUME TypeOK, TypeOK', General, UserStep
    PROVE  Keeps
BY EditKeeps, SaveKeeps, AskKeeps, StartUnaskedKeeps, DialogKeeps DEF UserStep

----------------------------------------------------------------------------
(* Saves.                                                                  *)

\* A thread in a Save has a document, a place and the state to fall back on.
LEMMA SavingDoc ==
    ASSUME TypeOK, ThreadFits, NEW t \in Thread, thread[t].pc \in Ahead(t)
    PROVE  /\ thread[t].doc \in Doc /\ thread[t].was \in State
           /\ thread[t].pc \in {"stamp", "build", "replace"} => thread[t].to \in Place
           /\ Saving(thread[t].doc)
<1>1. thread[t].pc \in WithDoc
  BY DEF Ahead, AutosavePc, WithDoc
<1> QED BY <1>1 DEF TypeOK, ThreadFits, Work, Saving

\* While one thread saves, the operations of the pool thread and the autosave are
\* not both there.
LEMMA OtherThreads ==
    ASSUME General, NEW t \in Thread \ {"event"}, thread[t].pc \notin {"idle", "edit", "editing"}
    PROVE  /\ t # "task" => thread["task"].pc = "idle"
           /\ t = "task" =>
                thread["ui"].pc \in {"idle", "edit", "editing"} /\ thread["autosave"].pc = "idle"
BY DEF General, OneAtATime, Thread

\* The other threads stay where they are.
Alone(t) == \A u \in Thread : u # t => thread'[u] = thread[u]

\* What holds whatever has happened goes on to hold when one thread goes on with, or
\* comes to the end of, its Save or edit.
LEMMA AloneKeeps ==
    ASSUME General, NEW t \in Thread, Alone(t), ThreadFits', OneAtATime',
           UNCHANGED <<geometry, current, importing>>, used'.opens = used.opens,
           thread[t].pc # "prepared", thread'[t].pc # "prepared",
           thread'[t].pc \in Ahead(t) =>
             thread[t].pc \in Ahead(t) /\ thread'[t].doc = thread[t].doc
    PROVE  /\ General'
           /\ \A d \in Doc : Saving(d)' => Saving(d)
           /\ \A d \in Doc : Prepared(d)' <=> Prepared(d)
<1>0. {"ui", "event", "task", "autosave"} = Thread
  BY DEF Thread
<1>1. \A d \in Doc : Saving(d)' => Saving(d)
  BY DEF Saving, Ahead, Alone
<1>2. \A d \in Doc : Prepared(d)' <=> Prepared(d)
  BY <1>0 DEF Prepared, Alone
<1>3. thread'["ui"].pc \in {"stamp", "build", "replace"} => thread'["ui"].doc = current
  BY <1>0 DEF General, DocsFit, Alone, Ahead
<1>4. DocsFit'
  BY <1>1, <1>2, <1>3 DEF General, DocsFit
<1>5. GeometryFits'
  <2>1. \A d \in Doc : thread["task"].pc = "prepared" /\ thread["task"].doc = d
                         => thread'["task"].pc = "prepared" /\ thread'["task"].doc = d
    BY <1>2 DEF Prepared
  <2> QED BY <1>2, <2>1 DEF General, GeometryFits, ExtractedWhileNeeded
<1> QED BY <1>1, <1>2, <1>4, <1>5 DEF General

\* The start of a Save keeps the invariant.
LEMMA SaveBeginsKeeps ==
    ASSUME TypeOK, TypeOK', General, NEW t \in {"ui", "task"}, SaveBegins(t)
    PROVE  Keeps
<1> DEFINE to == IF thread[t].to = None THEN state[current].path ELSE thread[t].to
<1>0. {"ui", "event", "task", "autosave"} = Thread
  BY DEF Thread
<1>1. /\ thread[t].pc = "mark" /\ current \in Doc /\ to \in Place /\ BeginSave(t, current, to)
      /\ Excuse("overlap", t = "ui" /\ thread["autosave"].pc \in AutosavePc)
      /\ UNCHANGED <<state, content, geometry, current, disk, importing, used, agreed>>
  BY <1>0 DEF SaveBegins, TypeOK, State, Work, docs
<1>t. to = thread[t].to \/ (thread[t].to = None /\ to = state[current].path)
  OBVIOUS
<1> HIDE DEF to
<1>2. /\ \A u \in Thread : u # t => thread'[u] = thread[u]
      /\ thread'[t].pc = "stamp" /\ thread'[t].doc = current /\ thread'[t].to = to
      /\ thread'[t].was = state[current] /\ thread'[t].read = state[current]
      /\ thread'[t].for = thread[t].for
  BY <1>0, <1>1, BeginType
<1>3. /\ t = "ui" => thread["task"].pc = "idle"
      /\ t = "task" => thread["ui"].pc \in {"idle", "edit", "editing"}
                        /\ thread["autosave"].pc = "idle"
  BY <1>0, <1>1, OtherThreads
<1>4. \A d \in Doc : (Prepared(d)' <=> Prepared(d)) /\ (Editing(d)' <=> Editing(d))
  BY <1>0, <1>1, <1>2 DEF Prepared, Editing
<1>5. \A d \in Doc : /\ Saving(d)' => Saving(d) \/ d = current
                     /\ Saving(d) => Saving(d)'
  BY <1>0, <1>1, <1>2 DEF Saving, Ahead
<1>5a. Saving(current)'
  BY <1>0, <1>1, <1>2 DEF Saving, Ahead
<1>6. ThreadFits' /\ OneAtATime'
  <2>1. current # None /\ to # None
    BY <1>1, PlaceFacts
  <2> QED BY <1>0, <1>1, <1>2, <1>3, <2>1
          DEF General, ThreadFits, OneAtATime, SavePc
<1>7. DocsFit'
  <2>1. current # importing /\ ~Prepared(current)
    BY <1>1, PlaceFacts DEF General, DocsFit
  <2>2. \A d \in Doc : d \in {current, importing} \/ Prepared(d)' \/ Saving(d)' => d <= used.opens
    BY <1>1, <1>4, <1>5 DEF General, DocsFit
  <2>3. \A d \in Doc : Saving(d)' => d # importing /\ ~Prepared(d)'
    BY <1>4, <1>5, <2>1 DEF General, DocsFit
  <2>4. thread'["ui"].pc \in {"stamp", "build", "replace"} => thread'["ui"].doc = current
    BY <1>0, <1>2, <1>3
  <2> QED BY <1>1, <1>4, <2>2, <2>3, <2>4 DEF General, DocsFit
<1>8. GeometryFits'
  BY <1>1, <1>4 DEF General, GeometryFits, ExtractedWhileNeeded, Prepared
<1>9. ASSUME Tidy, Calm' PROVE Tidy'
  <2>1. thread["autosave"].pc \notin AutosavePc
    BY <1>1, <1>3, <1>9, ExcuseType DEF Calm, Excuse, AutosavePc
  <2>2. ~Saving(current)
    <3>1. \A u \in Thread : thread[u].pc \notin Ahead(u)
      BY <1>0, <1>1, <1>3, <2>1 DEF Ahead, General, ThreadFits
    <3> QED BY <3>1 DEF Saving
  <2>3. /\ NamedOrDirty(state[current])
        /\ state[current].dirty \/ Editing(current) \/ disk[state[current].path] = content[current]
    BY <1>1, <1>9, <2>2 DEF Tidy, StateFits, InUse
  <2>4. to \in File
    BY <1>1, <1>t, <1>9, <2>3, PlaceFacts DEF Tidy, SaveFits, SaveFitsAt, NamedOrDirty
  <2>5. thread'["autosave"] = thread["autosave"]
    BY <1>0, <1>2
  <2>6. SavesApart' /\ AutosaveFits'
    BY <2>1, <2>5 DEF SavesApart, AutosaveFits
  <2>7. SaveFitsAt(thread[t])'
    BY <1>1, <1>2, <1>4, <2>3, <2>4 DEF SaveFitsAt, NamedOrDirty
  <2>8. ASSUME NEW u \in {"ui", "task"}, u # t PROVE SaveFitsAt(thread[u])'
    BY <1>0, <1>2, <1>3, <2>8 DEF SaveFitsAt
  <2>9. StateFits'
    BY <1>1, <1>4, <1>5, <1>9 DEF Tidy, StateFits, InUse, NamedOrDirty
  <2> QED BY <2>6, <2>7, <2>8, <2>9 DEF Tidy, SaveFits
<1>10. ASSUME WorkFits PROVE WorkFits'
  <2>2. \A d \in Doc : d = importing' \/ Prepared(d)' => Untouched(d)'
    BY <1>1, <1>4, <1>10 DEF WorkFits, Untouched
  <2>3. Opening' => Opening
    BY <1>0, <1>1, <1>2 DEF Opening
  <2>4. Safe(current) => Safe(current)'
    BY <1>1 DEF Safe, Lost
  <2> QED BY <1>0, <1>1, <1>2, <1>3, <1>10, <2>2, <2>3, <2>4 DEF WorkFits
<1>11. Leaving
  BY <1>1 DEF Leaving
<1> QED BY <1>6, <1>7, <1>8, <1>9, <1>10, <1>11 DEF Keeps, General

\* The store that says saved keeps it.
LEMMA StampKeeps ==
    ASSUME TypeOK, TypeOK', General, NEW t \in Thread \ {"event"}, SaveStamp(t)
    PROVE  Keeps
<1> DEFINE x == thread[t]
<1> DEFINE new == [path |-> thread[t].to, dirty |-> FALSE, readOnly |-> FALSE]
<1>0. {"ui", "event", "task", "autosave"} = Thread
  BY DEF Thread
<1>1. thread[t].pc = "stamp" /\ Store(t, new) /\ Go(t, "build")
  BY DEF SaveStamp
<1>2. /\ x.doc \in Doc /\ x.to \in Place /\ Saving(x.doc) /\ x.was \in State /\ x.read = x.was
  BY <1>1, SavingDoc DEF General, Ahead, AutosavePc, ThreadFits
<1>3. /\ new \in State /\ new.path = x.to /\ ~new.dirty
  BY <1>2 DEF State
<1> HIDE DEF new
<1>4. /\ state'[x.doc] = new
      /\ \A d \in Doc : d # x.doc => state'[d] = state[d]
      /\ Calm' => state[x.doc] = x.was
      /\ UNCHANGED <<content, geometry, current, disk, importing, used, agreed>>
  BY <1>1, <1>2, <1>3, StoreType
<1>5. /\ \A u \in Thread : u # t => thread'[u] = thread[u]
      /\ thread'[t] = [x EXCEPT !.pc = "build"]
  BY <1>1, GoType DEF TypeOK, Steps
<1>6. /\ thread'[t].pc = "build" /\ thread'[t].doc = x.doc /\ thread'[t].to = x.to
      /\ thread'[t].was = x.was /\ thread'[t].for = x.for
  BY <1>5 DEF TypeOK, Work
<1>7. /\ t # "task" => thread["task"].pc = "idle"
      /\ t = "task" =>
           thread["ui"].pc \in {"idle", "edit", "editing"} /\ thread["autosave"].pc = "idle"
  BY <1>1, OtherThreads
<1>q. x.pc = "stamp" /\ x = thread[t]
  BY <1>1
<1> HIDE DEF x
<1>8. ThreadFits' /\ OneAtATime'
  <2>0. /\ x.doc # None /\ x.to # None
        /\ t = "ui" => x.for # "stay"
    BY <1>q DEF General, ThreadFits, SavePc, WithDoc
  <2>1. ThreadFits'
    <3>1. \A u \in Thread : u # t => thread'[u] = thread[u]
      BY <1>5
    <3>2. /\ thread'[t].pc = "build" /\ thread'[t].doc # None /\ thread'[t].to # None
          /\ t = "ui" => thread'[t].for # "stay"
      BY <1>6, <2>0
    <3>3. thread[t].pc = "stamp" /\ t \in {"ui", "task", "autosave"}
      BY <1>0, <1>q
    <3> QED BY <1>0, <3>1, <3>2, <3>3 DEF General, ThreadFits, SavePc, AutosavePc
  <2>2. OneAtATime'
    BY <1>0, <1>5, <1>6, <1>q DEF General, OneAtATime
  <2> QED BY <2>1, <2>2
<1>9. Alone(t)
  BY <1>5 DEF Alone
<1>10. /\ General'
       /\ \A d \in Doc : Saving(d)' => Saving(d)
       /\ \A d \in Doc : Prepared(d)' <=> Prepared(d)
  BY <1>4, <1>6, <1>8, <1>9, <1>q, AloneKeeps DEF Ahead, AutosavePc
<1>11. \A d \in Doc : (Saving(d) => Saving(d)') /\ (Editing(d)' <=> Editing(d))
  <2>1. \A u \in Thread : /\ thread'[u].doc = thread[u].doc
                          /\ thread[u].pc \in Ahead(u) => thread'[u].pc \in Ahead(u)
                          /\ thread'[u].pc \in {"edit", "editing"} <=>
                               thread[u].pc \in {"edit", "editing"}
    BY <1>5, <1>6, <1>q DEF Ahead, AutosavePc
  <2> QED BY <1>0, <2>1 DEF Saving, Editing, Ahead
<1>12. ASSUME Tidy, Calm' PROVE Tidy'
  <2>1. SavesApart' /\ AutosaveFits'
    BY <1>0, <1>5, <1>6, <1>12, <1>q DEF Tidy, SavesApart, AutosaveFits, AutosavePc
  <2>2. ASSUME t \in {"ui", "task"} PROVE SaveFitsAt(thread[t])'
    <3>1. /\ x.to \in File /\ NamedOrDirty(x.was)
          /\ x.was.dirty \/ Editing(x.doc) \/ disk[x.was.path] = content[x.doc]
      BY <1>4, <1>12, <1>q, <2>2 DEF Tidy, SaveFits, SaveFitsAt
    <3> QED BY <1>2, <1>3, <1>4, <1>6, <1>11, <3>1 DEF SaveFitsAt, NamedOrDirty
  <2>3. ASSUME NEW u \in {"ui", "task"}, u # t PROVE SaveFitsAt(thread[u])'
    <3>1. thread'[u] = thread[u] /\ thread[u].pc \notin {"stamp", "build", "replace"}
      BY <1>0, <1>5, <1>7, <1>12, <1>q, <2>3 DEF Tidy, SavesApart, AutosavePc
    <3> QED BY <1>12, <2>3, <3>1 DEF Tidy, SaveFits, SaveFitsAt
  <2>4. StateFits'
    <3>1. \A d \in Doc : ~Saving(d)' => state'[d] = state[d]
      BY <1>2, <1>4, <1>11
    <3> QED BY <1>4, <1>10, <1>11, <1>12, <3>1 DEF Tidy, StateFits, InUse, NamedOrDirty
  <2> QED BY <2>1, <2>2, <2>3, <2>4 DEF Tidy, SaveFits
<1>13. ASSUME WorkFits PROVE WorkFits'
  <2>1. \A d \in Doc : d = importing \/ Prepared(d) => state'[d] = state[d]
    BY <1>2, <1>4 DEF General, DocsFit
  <2>2. \A d \in Doc : d = importing' \/ Prepared(d)' => Untouched(d)'
    BY <1>4, <1>10, <1>13, <2>1 DEF WorkFits, Untouched
  <2>3. Opening' => Opening
    BY <1>0, <1>4, <1>5, <1>6 DEF Opening
  <2>4. Safe(current) => Safe(current)'
    BY <1>4 DEF Safe, Lost
  <2>5. ASSUME NEW u \in {"ui", "task"}, thread'[u].pc \in {"build", "replace"},
               u # t => ~state[thread[u].doc].dirty
        PROVE  ~state'[thread'[u].doc].dirty
    <3>1. thread[u].pc \in WithDoc /\ thread[u].doc \in Doc
      BY <1>0, <1>5, <1>q, <2>5 DEF WithDoc, General, ThreadFits, TypeOK, Work
    <3>2. CASE u = t
      BY <1>3, <1>4, <1>6, <3>2
    <3>3. CASE u # t
      <4>1. thread'[u] = thread[u]
        BY <1>0, <1>5, <3>3
      <4> QED BY <1>3, <1>4, <2>5, <3>1, <3>3, <4>1
    <3> QED BY <3>2, <3>3
  <2>6. /\ thread'["ui"].pc \in {"build", "replace"} => ~state'[thread'["ui"].doc].dirty
        /\ thread'["task"].pc \in {"build", "replace"} /\ importing' # None =>
             ~state'[thread'["task"].doc].dirty
    BY <1>0, <1>4, <1>5, <1>13, <2>5 DEF WorkFits
  <2> QED BY <1>0, <1>4, <1>5, <1>6, <1>q, <1>13, <2>2, <2>3, <2>4, <2>6 DEF WorkFits
<1>14. Leaving
  BY <1>4 DEF Leaving
<1> QED BY <1>10, <1>12, <1>13, <1>14 DEF Keeps

\* Reading the contents for a Save keeps it.
LEMMA SaveBuildKeeps ==
    ASSUME TypeOK, TypeOK', General, NEW t \in Thread \ {"event"}, SaveBuild(t)
    PROVE  Keeps
<1>0. {"ui", "event", "task", "autosave"} = Thread
  BY DEF Thread
<1>1. /\ thread[t].pc = "build"
      /\ thread' = [thread EXCEPT ![t].pc = "replace", ![t].took = content[thread[t].doc]]
      /\ UNCHANGED <<state, content, geometry, current, disk, importing, used, agreed, excused>>
  BY DEF SaveBuild, docs, history
<1>2. /\ \A u \in Thread : u # t => thread'[u] = thread[u]
      /\ thread'[t].pc = "replace" /\ thread'[t].took = content[thread[t].doc]
      /\ thread'[t].doc = thread[t].doc /\ thread'[t].to = thread[t].to
      /\ thread'[t].was = thread[t].was /\ thread'[t].for = thread[t].for
  BY <1>1 DEF TypeOK, Work
<1>p. thread[t].pc = "build" /\ t \in {"ui", "task", "autosave"}
  BY <1>0, <1>1
<1>4. ThreadFits' /\ OneAtATime'
  <2>1. /\ thread[t].doc # None /\ thread[t].to # None
        /\ t = "ui" => thread[t].for # "stay"
    BY <1>p DEF General, ThreadFits, SavePc, WithDoc
  <2>2. ThreadFits'
    BY <1>0, <1>2, <1>p, <2>1 DEF General, ThreadFits, SavePc, AutosavePc
  <2>3. OneAtATime'
    BY <1>0, <1>2, <1>p DEF General, OneAtATime
  <2> QED BY <2>2, <2>3
<1>5. /\ General'
      /\ \A d \in Doc : Saving(d)' => Saving(d)
      /\ \A d \in Doc : Prepared(d)' <=> Prepared(d)
  BY <1>1, <1>2, <1>4, <1>p, AloneKeeps DEF Ahead, AutosavePc, Alone
<1>6. \A d \in Doc : (Saving(d) => Saving(d)') /\ (Editing(d)' <=> Editing(d))
  <2>1. \A u \in Thread : /\ thread'[u].doc = thread[u].doc
                          /\ thread[u].pc \in Ahead(u) => thread'[u].pc \in Ahead(u)
                          /\ thread'[u].pc \in {"edit", "editing"} <=>
                               thread[u].pc \in {"edit", "editing"}
    BY <1>2, <1>p DEF Ahead, AutosavePc
  <2> QED BY <1>0, <2>1 DEF Saving, Editing, Ahead
<1>7. ASSUME Tidy PROVE Tidy'
  <2>1. SavesApart' /\ AutosaveFits'
    BY <1>0, <1>1, <1>2, <1>7 DEF Tidy, SavesApart, AutosaveFits, AutosavePc
  <2>2. ASSUME t \in {"ui", "task"} PROVE SaveFitsAt(thread[t])'
    <3>1. SaveFitsAt(thread[t]) /\ thread[t].doc \in Doc
      BY <1>7, <1>p, <2>2, SavingDoc DEF Tidy, SaveFits, General, Ahead
    <3> QED BY <1>1, <1>2, <1>6, <3>1 DEF SaveFitsAt, NamedOrDirty
  <2>3. ASSUME NEW u \in {"ui", "task"}, u # t PROVE SaveFitsAt(thread[u])'
    <3>1. thread'[u] = thread[u]
      BY <1>0, <1>2, <2>3
    <3>2. SaveFitsAt(thread[u])
      BY <1>7, <2>3 DEF Tidy, SaveFits
    <3>3. thread[u].pc \in {"stamp", "build", "replace"} => thread[u].doc \in Doc
      BY <1>0, SavingDoc DEF General, Ahead
    <3> QED BY <1>1, <1>6, <3>1, <3>2, <3>3 DEF SaveFitsAt, NamedOrDirty
  <2>4. StateFits'
    BY <1>1, <1>5, <1>6, <1>7 DEF Tidy, StateFits, InUse, NamedOrDirty
  <2> QED BY <2>1, <2>2, <2>3, <2>4 DEF Tidy, SaveFits
<1>8. ASSUME WorkFits PROVE WorkFits'
  <2>1. \A d \in Doc : d = importing' \/ Prepared(d)' => Untouched(d)'
    BY <1>1, <1>5, <1>8 DEF WorkFits, Untouched
  <2>2. Opening' => Opening
    BY <1>0, <1>1, <1>2 DEF Opening
  <2>3. Safe(current) => Safe(current)'
    BY <1>1 DEF Safe, Lost
  <2> QED BY <1>0, <1>1, <1>2, <1>p, <1>8, <2>1, <2>2, <2>3 DEF WorkFits
<1>9. Leaving
  BY <1>1 DEF Leaving
<1> QED BY <1>5, <1>7, <1>8, <1>9 DEF Keeps

\* os.replace keeps it.
LEMMA SaveReplaceKeeps ==
    ASSUME TypeOK, TypeOK', General, NEW t \in Thread \ {"event"}, SaveReplace(t)
    PROVE  Keeps
<1> DEFINE x == thread[t]
<1> DEFINE Over == \E d \in Doc \ {current} :
                     state[d].path = x.to /\ d \in {importing, thread["task"].doc}
<1>0. {"ui", "event", "task", "autosave"} = Thread
  BY DEF Thread
<1>1. /\ x.pc = "replace" /\ disk' = [disk EXCEPT ![x.to] = x.took]
      /\ Excuse("overwritten", Over) /\ Go(t, "count")
      /\ UNCHANGED <<state, content, geometry, current, importing, used, agreed>>
  BY DEF SaveReplace, docs
<1>2. /\ thread'[t] = [x EXCEPT !.pc = "count"]
      /\ \A u \in Thread : u # t => thread'[u] = thread[u]
  BY <1>0, <1>1, GoType DEF TypeOK, Steps
<1>3. /\ thread'[t].doc = x.doc /\ thread'[t].to = x.to /\ thread'[t].was = x.was
      /\ thread'[t].for = x.for /\ thread'[t].pc = "count"
  BY <1>2 DEF TypeOK, Work
<1>p. thread[t].pc = "replace" /\ t \in {"ui", "task", "autosave"}
  BY <1>0, <1>1
<1>5. /\ t # "task" => thread["task"].pc = "idle"
      /\ t = "task" => thread["ui"].pc \in {"idle", "edit", "editing"}
                        /\ thread["autosave"].pc = "idle"
  BY <1>p, OtherThreads
<1>6. x.doc \in Doc /\ x.to \in Place /\ Saving(x.doc)
  BY <1>p, SavingDoc DEF General, Ahead, AutosavePc
<1>7. disk'[x.to] = x.took /\ \A p \in Place : p # x.to => disk'[p] = disk[p]
  BY <1>1, <1>6 DEF TypeOK
<1> HIDE DEF x, Over
<1>9. ThreadFits' /\ OneAtATime'
  <2>1. /\ thread[t].doc # None /\ thread[t].to # None
        /\ t = "ui" => thread[t].for # "stay"
    BY <1>p DEF General, ThreadFits, SavePc, WithDoc
  <2>2. thread'[t].doc # None /\ thread'[t].to # None
        /\ (t = "ui" => thread'[t].for # "stay")
    BY <1>3, <2>1 DEF x
  <2>3. ThreadFits'
    <3>1. \A u \in Thread : u # t => thread'[u] = thread[u]
      BY <1>2
    <3>2. thread'[t].pc = "count"
      BY <1>3
    <3> QED BY <1>0, <1>p, <2>2, <3>1, <3>2 DEF General, ThreadFits, SavePc, AutosavePc
  <2>4. OneAtATime'
    BY <1>0, <1>2, <1>3, <1>5, <1>p DEF General, OneAtATime
  <2> QED BY <2>3, <2>4
<1>8. /\ General'
      /\ \A d \in Doc : Saving(d)' => Saving(d)
      /\ \A d \in Doc : Prepared(d)' <=> Prepared(d)
  <2>1. Alone(t) /\ thread'[t].doc = thread[t].doc
    BY <1>2, <1>3 DEF Alone, x
  <2> QED BY <1>1, <1>3, <1>9, <1>p, <2>1, AloneKeeps DEF Ahead, AutosavePc
<1>10. \A d \in Doc : Editing(d)' <=> Editing(d)
  BY <1>0, <1>2, <1>3, <1>p DEF Editing
<1>12. ASSUME Tidy, Calm', t # "autosave"
       PROVE  /\ x.doc = current /\ x.to \in File /\ state[x.doc].path = x.to /\ ~Over
              /\ state[x.doc].dirty \/ Editing(x.doc) \/ x.took = content[x.doc]
  <2>1. ~Over
    BY <1>1, <1>12 DEF Calm, Excuse
  <2>2. /\ x.to \in File /\ state[x.doc].path = x.to
        /\ state[x.doc].dirty \/ Editing(x.doc) \/ x.took = content[x.doc]
    BY <1>0, <1>p, <1>12 DEF Tidy, SaveFits, SaveFitsAt, x
  <2>3. x.doc = current
    <3>1. CASE t = "ui"
      BY <1>p, <3>1 DEF General, DocsFit, x
    <3>2. CASE t = "task"
      BY <1>6, <2>1, <2>2, <3>2 DEF Over, x
    <3> QED BY <1>p, <1>12, <3>1, <3>2
  <2> QED BY <2>1, <2>2, <2>3
<1>13. ASSUME Tidy, t = "autosave"
       PROVE  \A p \in File : disk'[p] = disk[p]
  <2>1. x.to \in Doc
    BY <1>p, <1>13 DEF Tidy, AutosaveFits, AutosavePc, x
  <2> QED BY <1>7, <2>1, PlaceFacts
<1>14. \A d \in Doc : d = importing \/ Prepared(d) => d # current /\ ~Saving(d)
  BY PlaceFacts DEF General, DocsFit
\* The documents that are being opened are read from other files.
<1>15. ASSUME Tidy, Calm', NEW d \in Doc, d = importing \/ Prepared(d), state[d].path \in File
       PROVE  disk'[state[d].path] = disk[state[d].path]
  <2>1. CASE t = "autosave"
    BY <1>13, <1>15, <2>1
  <2>2. CASE t # "autosave"
    <3>1. state[d].path # x.to
      BY <1>12, <1>14, <1>15, <2>2 DEF Over, Prepared
    <3> QED BY <1>7, <1>15, <3>1, PlaceFacts
  <2> QED BY <2>1, <2>2
<1>16. ASSUME Tidy, Calm' PROVE Tidy'
  <2>1. SavesApart' /\ AutosaveFits'
    BY <1>0, <1>2, <1>3, <1>p, <1>16 DEF Tidy, SavesApart, AutosaveFits, AutosavePc, x
  <2>2. ASSUME NEW u \in {"ui", "task"} PROVE SaveFitsAt(thread[u])'
    <3>1. CASE u = t
      BY <1>3, <3>1 DEF SaveFitsAt
    <3>2. CASE u # t
      <4>1. thread'[u] = thread[u] /\ thread[u].pc \notin {"stamp", "build", "replace"}
        BY <1>0, <1>2, <1>5, <1>p, <1>16, <3>2 DEF Tidy, SavesApart, AutosavePc
      <4> QED BY <1>16, <4>1 DEF Tidy, SaveFits, SaveFitsAt
    <3> QED BY <3>1, <3>2
  <2>3. StateFits'
    <3> SUFFICES ASSUME NEW d \in Doc, InUse(d), ~Saving(d)'
                 PROVE  /\ NamedOrDirty(state[d])
                        /\ state[d].dirty \/ Editing(d) \/ disk'[state[d].path] = content[d]
      BY <1>1, <1>8, <1>10 DEF StateFits, InUse, NamedOrDirty
    <3>1. CASE d = importing \/ Prepared(d)
      <4>1. /\ NamedOrDirty(state[d])
            /\ state[d].dirty \/ Editing(d) \/ disk[state[d].path] = content[d]
        BY <1>14, <1>16, <3>1 DEF Tidy, StateFits, InUse
      <4> QED BY <1>15, <1>16, <3>1, <4>1 DEF NamedOrDirty
    <3>2. CASE d = current /\ d = x.doc /\ t # "autosave"
      <4>1. /\ x.to \in File /\ state[d].path = x.to
            /\ state[d].dirty \/ Editing(d) \/ x.took = content[d]
        BY <1>12, <1>16, <3>2
      <4>2. NamedOrDirty(state[d])
        BY <4>1, PlaceFacts DEF NamedOrDirty
      <4> QED BY <1>7, <4>1, <4>2
    <3>3. CASE d = current /\ t = "autosave"
      <4>1. ~Saving(d)
        <5>1. \A u \in Thread : /\ thread'[u].doc = thread[u].doc
                                /\ thread[u].pc \in Ahead(u) => thread'[u].pc \in Ahead(u)
          BY <1>2, <1>3, <3>3 DEF Ahead, AutosavePc, x
        <5> QED BY <5>1 DEF Saving, Ahead
      <4>2. /\ NamedOrDirty(state[d])
            /\ state[d].dirty \/ Editing(d) \/ disk[state[d].path] = content[d]
        BY <1>16, <4>1 DEF Tidy, StateFits
      <4> QED BY <1>13, <1>16, <3>3, <4>2 DEF NamedOrDirty
    <3> QED BY <1>12, <1>16, <3>1, <3>2, <3>3 DEF InUse
  <2> QED BY <2>1, <2>2, <2>3 DEF Tidy, SaveFits
<1>17. ASSUME Tidy, WorkFits, excused' = {} PROVE WorkFits'
  <2>0. Calm'
    BY <1>17 DEF Calm
  <2>1. \A d \in Doc : d = importing' \/ Prepared(d)' => Untouched(d)'
    BY <1>1, <1>8, <1>15, <1>17, <2>0 DEF WorkFits, Untouched
  <2>2. ASSUME t = "autosave" PROVE Safe(current) => Safe(current)'
    BY <1>1, <1>13, <1>17, <2>2 DEF Safe, Lost
  <2>3. ASSUME t # "autosave", ~state[x.doc].dirty, ~Editing(x.doc) PROVE Safe(current)'
    BY <1>1, <1>7, <1>12, <1>17, <2>0, <2>3 DEF Safe, Lost
  <2>4. Opening' => Opening
    BY <1>0, <1>1, <1>2, <1>3, <1>p DEF Opening
  <2>5. CASE t = "autosave"
    BY <1>0, <1>1, <1>2, <1>5, <1>17, <2>1, <2>2, <2>4, <2>5 DEF WorkFits
  <2>6. CASE t = "ui"
    <3>1. ~Editing(x.doc)
      BY <1>p, <2>6 DEF Editing
    <3>2. Safe(current)'
      BY <1>p, <1>17, <2>3, <2>6, <3>1 DEF WorkFits, x
    <3>3. thread'["ui"].pc = "count" /\ thread'["task"].pc = "idle"
      BY <1>0, <1>2, <1>3, <1>5, <2>6
    <3> QED BY <2>1, <3>2, <3>3 DEF WorkFits
  <2>7. CASE t = "task"
    <3>1. Opening' => importing # None
      BY <1>1, <1>3, <2>7 DEF Opening
    <3>2. Opening' => Safe(current)' /\ thread["ui"].pc \notin {"edit", "editing"}
      <4>1. ASSUME Opening' PROVE Safe(current)' /\ thread["ui"].pc \notin {"edit", "editing"}
        <5>1. importing # None /\ thread["ui"].pc \notin {"edit", "editing"}
          BY <1>17, <2>4, <3>1, <4>1 DEF WorkFits
        <5>2. ~state[x.doc].dirty /\ ~Editing(x.doc)
          BY <1>p, <1>17, <2>7, <5>1 DEF WorkFits, Editing, x
        <5> QED BY <2>3, <2>7, <5>1, <5>2
      <4> QED BY <4>1
    <3>3. thread'["ui"] = thread["ui"] /\ thread'["task"].pc = "count"
          /\ thread["ui"].pc \in {"idle", "edit", "editing"}
      BY <1>0, <1>2, <1>3, <1>5, <2>7
    <3> QED BY <2>1, <3>2, <3>3 DEF WorkFits
  <2> QED BY <1>p, <2>5, <2>6, <2>7
<1>18. Leaving
  BY <1>1 DEF Leaving
<1> QED BY <1>8, <1>16, <1>17, <1>18 DEF Keeps

----------------------------------------------------------------------------
(* The steps after a Save, and the autosave.                               *)

\* Nothing begins: no question, no operation on another document.
LEMMA QuietKeeps ==
    ASSUME TypeOK, General, Harmless, ThreadFits', OneAtATime',
           \/ thread'["ui"] = thread["ui"]
           \/ thread'["ui"].pc = "idle"
           \/ {thread["ui"].pc, thread'["ui"].pc} \subseteq SafePc
           \/ {thread["ui"].pc, thread'["ui"].pc} \subseteq {"edit", "editing"},
           Opening' => Opening,
           \A t \in {"ui", "task"} : thread'[t] = thread[t] \/ thread'[t].pc # "mark"
    PROVE  Keeps
<1>1. UNCHANGED <<current, importing>>
  BY DEF Harmless, docs, Still
<1>2. Tidy => Tidy'
  BY HarmlessKeeps, <1>1 DEF Tidy, SaveFits, SaveFitsAt
<1>3. ASSUME Tidy, WorkFits PROVE WorkFits'
  <2>1. Safe(current) => Safe(current)'
    BY <1>1, HarmlessKeeps, SafeNone
  <2>2. Opening' => Safe(current)' /\ thread'["ui"].pc \notin {"edit", "editing"}
    BY <1>3, <2>1 DEF WorkFits, SafePc
  <2>3. thread'["ui"].pc = "ask" => current' = thread'["ui"].doc \/ Safe(current)'
    BY <1>1, <1>3, <2>1 DEF WorkFits, SafePc
  <2>4. thread'["ui"].pc \in SafePc => Safe(current)'
    BY <1>3, <2>1 DEF WorkFits, SafePc
  <2> QED BY <1>3, <2>2, <2>3, <2>4, HarmlessKeeps
<1>4. General'
  BY StillKeeps DEF Harmless
<1> QED BY <1>2, <1>3, <1>4, HarmlessKeeps DEF Keeps

\* A Save that is refused (no file name, read-only, no folder) keeps it.
LEMMA SaveRefusedKeeps ==
    ASSUME TypeOK, TypeOK', General, NEW t \in {"ui", "task"}, SaveRefused(t)
    PROVE  Keeps
<1>0. {"ui", "event", "task", "autosave"} = Thread
  BY DEF Thread
<1>1. thread[t].pc = "mark" /\ UNCHANGED <<docs, current, disk, importing, used, history>>
  BY DEF SaveRefused
<1>2. /\ \A u \in Thread : u # t => thread'[u] = thread[u]
      /\ t = "ui" => thread'[t].pc = "idle" /\ thread'[t] = Idle
      /\ t = "task" => thread'[t].pc = "finished"
  BY <1>0, IdleType, GoType DEF SaveRefused, TypeOK, Work, Steps
<1>3. Harmless
  BY <1>0, <1>1, <1>2 DEF Harmless, Still, Engaged, Ahead, history, docs
<1>4. ThreadFits' /\ OneAtATime'
  BY <1>0, <1>1, <1>2 DEF General, ThreadFits, OneAtATime, SavePc, WithDoc
<1>5. Opening' => Opening
  BY <1>0, <1>1, <1>2 DEF Opening
<1> QED BY <1>0, <1>2, <1>3, <1>4, <1>5, QuietKeeps

\* The steps that only end or drop something keep it.
LEMMA SmallStepKeeps ==
    ASSUME TypeOK, TypeOK', General,
           \/ AutosaveSkips \/ OperationFails \/ RequestAutosave
           \/ \E t \in {"task", "autosave"} : Finished(t)
    PROVE  Keeps
<1>0. {"ui", "event", "task", "autosave"} = Thread
  BY DEF Thread
<1>1. CASE AutosaveSkips
  <2>1. /\ thread["autosave"].pc = "start" /\ thread'["autosave"].pc = "finished"
        /\ \A u \in {"ui", "event", "task"} : thread'[u] = thread[u]
        /\ UNCHANGED <<docs, current, disk, importing, used, history>>
    BY <1>0, <1>1, GoType DEF AutosaveSkips, TypeOK, Work, Steps
  <2>2. Harmless
    BY <1>0, <2>1 DEF Harmless, Still, Engaged, Ahead, AutosavePc, history, docs
  <2>3. ThreadFits' /\ OneAtATime'
    BY <1>0, <2>1 DEF General, ThreadFits, OneAtATime, WithDoc
  <2>4. Opening' => Opening
    BY <2>1 DEF Opening
  <2> QED BY <2>1, <2>2, <2>3, <2>4, QuietKeeps
<1>2. CASE OperationFails
  <2>1. /\ thread["task"].pc \in {"read", "activate"} /\ thread'["task"].pc = "finished"
        /\ \A u \in {"ui", "event", "autosave"} : thread'[u] = thread[u]
        /\ UNCHANGED <<docs, current, disk, importing, used, history>>
    BY <1>0, <1>2, GoType DEF OperationFails, TypeOK, Work, Steps
  <2>2. Harmless
    BY <1>0, <2>1 DEF Harmless, Still, Engaged, Ahead, history, docs
  <2>3. ThreadFits' /\ OneAtATime'
    BY <1>0, <2>1 DEF General, ThreadFits, OneAtATime, WithDoc
  <2>4. Opening' => Opening
    BY <2>1 DEF Opening
  <2> QED BY <2>1, <2>2, <2>3, <2>4, QuietKeeps
<1>3. CASE RequestAutosave
  <2>1. /\ ~Busy /\ ~Autosaving /\ current \in Doc
        /\ thread' = [thread EXCEPT !["autosave"] = [Idle EXCEPT !.pc = "start", !.doc = current]]
        /\ UNCHANGED <<docs, current, disk, importing, history>> /\ used'.opens = used.opens
    BY <1>3, UseType DEF RequestAutosave, TypeOK
  <2>2. /\ thread'["autosave"].pc = "start" /\ thread'["autosave"].doc = current
        /\ \A u \in {"ui", "event", "task"} : thread'[u] = thread[u]
    BY <2>1 DEF TypeOK, Thread, Idle
  <2>3. thread["task"].pc = "idle" /\ thread["autosave"].pc = "idle" /\ current # None
    BY <2>1, IdleType, PlaceFacts DEF Busy, Autosaving
  <2>4. Harmless
    BY <1>0, <2>1, <2>2, <2>3 DEF Harmless, Still, Engaged, Ahead, AutosavePc, history, docs
  <2>5. ThreadFits' /\ OneAtATime'
    BY <1>0, <2>2, <2>3 DEF General, ThreadFits, OneAtATime, WithDoc
  <2>6. Opening' => Opening
    BY <2>1, <2>2 DEF Opening
  <2> QED BY <2>2, <2>4, <2>5, <2>6, QuietKeeps
<1>4. ASSUME NEW t \in {"task", "autosave"}, Finished(t) PROVE Keeps
  <2>1. /\ thread[t].pc = "finished" /\ thread'[t] = Idle /\ thread'[t].pc = "idle"
        /\ \A u \in Thread : u # t => thread'[u] = thread[u]
        /\ UNCHANGED <<docs, current, disk, importing, used, history>>
    BY <1>0, <1>4, IdleType DEF Finished, TypeOK
  <2>2. Harmless
    BY <1>0, <2>1 DEF Harmless, Still, Engaged, Ahead, AutosavePc, history, docs
  <2>3. ThreadFits' /\ OneAtATime'
    BY <1>0, <2>1 DEF General, ThreadFits, OneAtATime, WithDoc
  <2>4. Opening' => Opening
    BY <1>0, <2>1 DEF Opening
  <2> QED BY <1>0, <2>1, <2>2, <2>3, <2>4, QuietKeeps
<1> QED BY <1>1, <1>2, <1>3, <1>4

\* What follows the Save in a question keeps it.
LEMMA ContinueKeeps ==
    ASSUME TypeOK, TypeOK', General, Continue
    PROVE  Keeps
<1>1. /\ thread["ui"].pc = "saved" /\ Proceed(thread["ui"].for)
      /\ UNCHANGED <<state, content, disk, used, history>>
  BY DEF Continue
<1>2. thread["ui"].for \in Purpose \ {"stay"} /\ thread["task"].pc = "idle"
  BY <1>1 DEF General, ThreadFits, OneAtATime, SavePc, TypeOK, Work, Thread
<1>3. ASSUME WorkFits, NEW d \in Doc, current = d PROVE ~Lost(d)'
  BY <1>1, <1>3, PlaceFacts DEF WorkFits, Safe, Lost, history
<1> QED BY <1>1, <1>2, <1>3, ProceedKeeps DEF history

\* A Save that fails and restores the state keeps it.
LEMMA SaveFailsKeeps ==
    ASSUME TypeOK, TypeOK', General, NEW t \in Thread \ {"event"}, SaveFails(t)
    PROVE  Keeps
<1> DEFINE x == thread[t]
<1>0. {"ui", "event", "task", "autosave"} = Thread
  BY DEF Thread
<1>1. /\ x.pc \in {"build", "replace"} /\ state' = [state EXCEPT ![x.doc] = x.was]
      /\ Excuse("failed", state[x.doc].dirty /\ ~x.was.dirty)
      /\ UNCHANGED <<content, geometry, current, disk, importing, used, agreed>>
  BY DEF SaveFails
<1>p. thread[t].pc \in {"build", "replace"} /\ t \in {"ui", "task", "autosave"}
  BY <1>0, <1>1
<1>2. /\ \A u \in Thread : u # t => thread'[u] = thread[u]
      /\ t = "ui" => thread'[t] = Idle
      /\ t = "task" => thread'[t] = [x EXCEPT !.pc = "finished"]
      /\ t = "autosave" => thread'[t] = [x EXCEPT !.pc = "restore"]
  <2>1. CASE t = "ui"
    <3>1. thread' = [thread EXCEPT !["ui"] = Idle]
      BY <2>1 DEF SaveFails
    <3> QED BY <1>0, <2>1, <3>1 DEF TypeOK
  <2>2. CASE t = "task"
    BY <1>0, <2>2, GoType DEF SaveFails, TypeOK, Steps
  <2>3. CASE t = "autosave"
    BY <1>0, <2>3, GoType DEF SaveFails, TypeOK, Steps
  <2> QED BY <1>p, <2>1, <2>2, <2>3
<1>3. /\ t = "ui" => thread'[t].pc = "idle"
      /\ t = "task" => thread'[t].pc = "finished"
      /\ t = "autosave" => /\ thread'[t].pc = "restore" /\ thread'[t].doc = x.doc
                           /\ thread'[t].to = x.to /\ thread'[t].was = x.was
  BY <1>2, IdleType DEF TypeOK, Work
<1>5. /\ t # "task" => thread["task"].pc = "idle"
      /\ t = "task" => thread["ui"].pc \in {"idle", "edit", "editing"}
                        /\ thread["autosave"].pc = "idle"
  BY <1>p, OtherThreads
<1>6. x.doc \in Doc /\ x.to \in Place /\ x.was \in State /\ Saving(x.doc)
  BY <1>p, SavingDoc DEF General, Ahead, AutosavePc
<1>7. state'[x.doc] = x.was /\ \A d \in Doc : d # x.doc => state'[d] = state[d]
  BY <1>1, <1>6 DEF TypeOK
<1>q. x = thread[t]
  OBVIOUS
<1> HIDE DEF x
<1>11. ThreadFits' /\ OneAtATime'
  <2>1. x.doc # None /\ x.to # None
    BY <1>6, PlaceFacts
  <2>2. \A u \in Thread : u # t => thread'[u] = thread[u]
    BY <1>2
  <2>3. ThreadFits'
    BY <1>0, <1>2, <1>3, <1>p, <2>1, <2>2 DEF General, ThreadFits, SavePc, AutosavePc, WithDoc
  <2>4. OneAtATime'
    BY <1>0, <1>3, <1>5, <1>p, <2>2 DEF General, OneAtATime
  <2> QED BY <2>3, <2>4
<1>8. /\ General'
      /\ \A d \in Doc : Saving(d)' => Saving(d)
      /\ \A d \in Doc : Prepared(d)' <=> Prepared(d)
  BY <1>1, <1>2, <1>3, <1>11, <1>p, <1>q, AloneKeeps DEF Ahead, AutosavePc, Alone
<1>9. \A d \in Doc : Editing(d)' <=> Editing(d)
  BY <1>0, <1>2, <1>3, <1>p DEF Editing
<1>10. \A d \in Doc : Saving(d) /\ ~Saving(d)' => d = x.doc /\ t # "autosave"
  <2>1. \A u \in Thread : u # t \/ t = "autosave" =>
          /\ thread'[u].doc = thread[u].doc
          /\ thread[u].pc \in Ahead(u) => thread'[u].pc \in Ahead(u)
    BY <1>2, <1>3, <1>q DEF Ahead, AutosavePc
  <2> QED BY <2>1, <1>q DEF Saving, Ahead
<1>14. ASSUME Tidy
       PROVE  \A u \in {"ui", "task"} : thread'[u].pc \notin {"stamp", "build", "replace"}
  BY <1>0, <1>2, <1>3, <1>5, <1>p, <1>14 DEF Tidy, SavesApart, AutosavePc
<1>15. ASSUME Tidy, Calm' PROVE Tidy'
  <2>1. SavesApart' /\ AutosaveFits'
    BY <1>0, <1>2, <1>3, <1>p, <1>q, <1>14, <1>15 DEF Tidy, SavesApart, AutosaveFits, AutosavePc
  <2>2. \A u \in {"ui", "task"} : thread'[u].pc = "mark" => thread'[u].to \in File \cup {None}
    BY <1>0, <1>2, <1>3, <1>15 DEF Tidy, SaveFits, SaveFitsAt
  <2>3. SaveFits'
    BY <1>14, <1>15, <2>2 DEF SaveFits, SaveFitsAt
  <2>4. state[x.doc].dirty => x.was.dirty
    BY <1>1, <1>15 DEF Calm, Excuse
  <2>5. ASSUME t # "autosave"
        PROVE  /\ NamedOrDirty(x.was)
               /\ x.was.dirty \/ Editing(x.doc) \/ disk[x.was.path] = content[x.doc]
    <3>1. SaveFitsAt(x)
      BY <1>p, <1>q, <1>15, <2>5 DEF Tidy, SaveFits
    <3> QED BY <1>p, <1>q, <2>4, <3>1 DEF SaveFitsAt
  <2>6. StateFits'
    <3> SUFFICES ASSUME NEW d \in Doc, InUse(d), ~Saving(d)'
                 PROVE  /\ NamedOrDirty(state'[d])
                        /\ state'[d].dirty \/ Editing(d) \/ disk[state'[d].path] = content[d]
      BY <1>1, <1>8, <1>9 DEF StateFits, InUse, NamedOrDirty
    <3>1. CASE Saving(d)
      BY <1>7, <1>10, <2>5, <3>1
    <3>2. CASE ~Saving(d)
      <4>1. state'[d] = state[d]
        BY <1>6, <1>7, <3>2
      <4> QED BY <1>15, <3>2, <4>1 DEF Tidy, StateFits
    <3> QED BY <3>1, <3>2
  <2> QED BY <2>1, <2>3, <2>6 DEF Tidy
<1>16. ASSUME Tidy, WorkFits PROVE WorkFits'
  <2>1. \A d \in Doc : d = importing \/ Prepared(d) => state'[d] = state[d]
    BY <1>6, <1>7 DEF General, DocsFit
  <2>2. \A d \in Doc : d = importing' \/ Prepared(d)' => Untouched(d)'
    BY <1>1, <1>8, <1>16, <2>1 DEF WorkFits, Untouched
  <2>3. Opening' => Opening
    BY <1>0, <1>1, <1>2, <1>3 DEF Opening
  <2>4. Safe(current) => Safe(current)'
    BY <1>1 DEF Safe, Lost
  <2> QED BY <1>0, <1>1, <1>2, <1>3, <1>14, <1>16, <2>2, <2>3, <2>4 DEF WorkFits
<1>17. Leaving
  BY <1>1 DEF Leaving
<1> QED BY <1>8, <1>15, <1>16, <1>17 DEF Keeps

\* The start of an autosave keeps it.
LEMMA AutosaveBeginsKeeps ==
    ASSUME TypeOK, TypeOK', General, AutosaveBegins
    PROVE  Keeps
<1>0. {"ui", "event", "task", "autosave"} = Thread
  BY DEF Thread
<1>1. /\ thread["autosave"].pc = "start" /\ current \in Doc /\ current \in Place
      /\ BeginSave("autosave", current, current) /\ state[current].dirty
      /\ Excuse("overlap", thread["ui"].pc \in SavePc)
      /\ UNCHANGED <<state, content, geometry, current, disk, importing, used, agreed>>
  BY DEF AutosaveBegins, TypeOK, Place, docs
<1>2. /\ \A u \in {"ui", "event", "task"} : thread'[u] = thread[u]
      /\ thread'["autosave"].pc = "stamp" /\ thread'["autosave"].doc = current
      /\ thread'["autosave"].to = current /\ thread'["autosave"].was = state[current]
      /\ thread'["autosave"].read = state[current]
  BY <1>0, <1>1, BeginType
<1>3. thread["task"].pc = "idle" /\ current # None
  BY <1>1, PlaceFacts DEF General, OneAtATime
<1>4. \A d \in Doc : (Prepared(d)' <=> Prepared(d)) /\ (Editing(d)' <=> Editing(d))
  BY <1>2 DEF Prepared, Editing
<1>5. \A d \in Doc : Saving(d)' <=> Saving(d) \/ d = current
  BY <1>0, <1>1, <1>2 DEF Saving, Ahead, AutosavePc
<1>6. ThreadFits' /\ OneAtATime'
  BY <1>0, <1>1, <1>2, <1>3 DEF General, ThreadFits, OneAtATime, AutosavePc
<1>7. DocsFit'
  BY <1>1, <1>2, <1>3, <1>4, <1>5 DEF General, DocsFit
<1>8. GeometryFits'
  BY <1>1, <1>2, <1>4 DEF General, GeometryFits, ExtractedWhileNeeded
<1>9. ASSUME Calm' PROVE thread["ui"].pc \notin SavePc
  BY <1>1, <1>9 DEF Calm, Excuse
<1>10. ASSUME Tidy, Calm' PROVE Tidy'
  <2>1. ~Saving(current)
    <3>1. \A t \in Thread : thread[t].pc \notin Ahead(t)
      BY <1>0, <1>1, <1>3, <1>9, <1>10 DEF General, ThreadFits, SavePc, AutosavePc, Ahead
    <3> QED BY <3>1 DEF Saving
  <2>2. NamedOrDirty(state[current])
    BY <1>1, <1>10, <2>1 DEF Tidy, StateFits, InUse
  <2>3. AutosaveFits'
    BY <1>1, <1>2, <2>2 DEF AutosaveFits, NamedOrDirty
  <2>4. SavesApart' /\ SaveFits'
    BY <1>2, <1>3, <1>9, <1>10 DEF SavesApart, SaveFits, SaveFitsAt, SavePc
  <2>5. StateFits'
    BY <1>1, <1>2, <1>4, <1>5, <1>10 DEF Tidy, StateFits, InUse, NamedOrDirty
  <2> QED BY <2>3, <2>4, <2>5 DEF Tidy
<1>11. ASSUME WorkFits PROVE WorkFits'
  <2>2. \A d \in Doc : d = importing' \/ Prepared(d)' => Untouched(d)'
    BY <1>1, <1>4, <1>11 DEF WorkFits, Untouched
  <2>3. Opening' => Opening
    BY <1>1, <1>2 DEF Opening
  <2>4. Safe(current) => Safe(current)'
    BY <1>1 DEF Safe, Lost
  <2> QED BY <1>1, <1>2, <1>3, <1>11, <2>2, <2>3, <2>4 DEF WorkFits
<1>12. Leaving
  BY <1>1 DEF Leaving
<1> QED BY <1>6, <1>7, <1>8, <1>10, <1>11, <1>12 DEF Keeps, General

\* The end of an autosave, which puts path and flag back, keeps it.
LEMMA AutosaveRestoreKeeps ==
    ASSUME TypeOK, TypeOK', General, AutosaveRestore
    PROVE  Keeps
<1> DEFINE x == thread["autosave"]
<1> DEFINE new == [x.read EXCEPT !.path = x.was.path, !.dirty = x.was.dirty]
<1>0. {"ui", "event", "task", "autosave"} = Thread
  BY DEF Thread
<1>1. thread["autosave"].pc = "restoring" /\ Go("autosave", "finished") /\ Store("autosave", new)
  BY DEF AutosaveRestore
<1>2. /\ \A u \in {"ui", "event", "task"} : thread'[u] = thread[u]
      /\ thread'["autosave"].pc = "finished"
  BY <1>0, <1>1, GoType DEF TypeOK, Work, Steps
<1>3. thread["task"].pc = "idle"
  BY <1>1 DEF General, OneAtATime
<1>4. x.doc \in Doc /\ x.was \in State /\ x.read \in State /\ Saving(x.doc)
  <2>1. x.pc \in AutosavePc
    BY <1>1 DEF AutosavePc
  <2> QED BY <1>0, <2>1, SavingDoc DEF General, Ahead, TypeOK, Work
<1>5. new \in State /\ new.path = x.was.path /\ new.dirty = x.was.dirty
  BY <1>4 DEF State
<1> HIDE DEF new
<1>6. /\ state'[x.doc].path = x.was.path /\ state'[x.doc].dirty = x.was.dirty
      /\ \A d \in Doc : d # x.doc => state'[d] = state[d]
      /\ UNCHANGED <<content, geometry, current, disk, importing, used, agreed>>
  BY <1>0, <1>1, <1>4, <1>5, StoreType
<1>q. x = thread["autosave"]
  OBVIOUS
<1> HIDE DEF x
<1>7. ThreadFits' /\ OneAtATime'
  BY <1>0, <1>1, <1>2, <1>3 DEF General, ThreadFits, OneAtATime, WithDoc
<1>8. /\ General'
      /\ \A d \in Doc : Saving(d)' => Saving(d)
      /\ \A d \in Doc : Prepared(d)' <=> Prepared(d)
  BY <1>0, <1>1, <1>2, <1>6, <1>7, AloneKeeps DEF Ahead, AutosavePc, Alone
<1>9. \A d \in Doc : (Saving(d) => Saving(d)' \/ d = x.doc) /\ (Editing(d)' <=> Editing(d))
  BY <1>0, <1>1, <1>2, <1>q DEF Saving, Editing, Ahead
<1>10. ASSUME Tidy PROVE Tidy' /\ thread["ui"].pc \notin {"stamp", "build", "replace"}
  <2>1. thread["ui"].pc \notin {"stamp", "build", "replace"}
    BY <1>1, <1>10 DEF Tidy, SavesApart, AutosavePc
  <2>2. x.was.dirty /\ x.was.path \in File \cup {None}
    BY <1>1, <1>10, <1>q DEF Tidy, AutosaveFits, AutosavePc
  <2>3. SavesApart' /\ AutosaveFits'
    BY <1>2 DEF SavesApart, AutosaveFits, AutosavePc
  <2>4. SaveFits'
    BY <1>2, <1>3, <1>10, <2>1 DEF Tidy, SaveFits, SaveFitsAt
  <2>5. StateFits'
    <3> SUFFICES ASSUME NEW d \in Doc, InUse(d), ~Saving(d)'
                 PROVE  /\ NamedOrDirty(state'[d])
                        /\ state'[d].dirty \/ Editing(d) \/ disk[state'[d].path] = content[d]
      BY <1>6, <1>8, <1>9 DEF StateFits, InUse, NamedOrDirty
    <3>1. CASE d = x.doc
      BY <1>6, <2>2, <3>1 DEF NamedOrDirty
    <3>2. CASE d # x.doc
      <4>1. state'[d] = state[d] /\ ~Saving(d)
        BY <1>6, <1>9, <3>2
      <4> QED BY <1>10, <4>1 DEF Tidy, StateFits
    <3> QED BY <3>1, <3>2
  <2> QED BY <2>1, <2>3, <2>4, <2>5 DEF Tidy
<1>11. ASSUME Tidy, WorkFits PROVE WorkFits'
  <2>1. \A d \in Doc : d = importing \/ Prepared(d) => state'[d] = state[d]
    BY <1>4, <1>6 DEF General, DocsFit
  <2>2. \A d \in Doc : d = importing' \/ Prepared(d)' => Untouched(d)'
    BY <1>6, <1>8, <1>11, <2>1 DEF WorkFits, Untouched
  <2>3. Opening' => Opening
    BY <1>2, <1>6 DEF Opening
  <2>4. Safe(current) => Safe(current)'
    BY <1>6 DEF Safe, Lost
  <2> QED BY <1>1, <1>2, <1>3, <1>6, <1>10, <1>11, <2>2, <2>3, <2>4 DEF WorkFits
<1>12. Leaving
  BY <1>6 DEF Leaving
<1> QED BY <1>8, <1>10, <1>11, <1>12 DEF Keeps

----------------------------------------------------------------------------
(* The reads and stores of with_changes.                                   *)

\* Reading a state that will be stored keeps it.
LEMMA ReadStateKeeps ==
    ASSUME TypeOK, TypeOK', General, NEW t \in Thread, ReadState(t)
    PROVE  Keeps
<1>0. {"ui", "event", "task", "autosave"} = Thread
  BY DEF Thread
<1>1. /\ thread[t].pc \in {"edit", "count", "renew", "restore"}
      /\ UNCHANGED <<docs, current, disk, importing, used, history>>
  BY DEF ReadState
<1>2. thread[t].doc \in Doc
  BY <1>1 DEF General, ThreadFits, WithDoc, TypeOK, Work
<1>3. /\ \A u \in Thread : u # t => thread'[u] = thread[u]
      /\ thread[t].pc = "edit" => thread'[t].pc = "editing"
      /\ thread[t].pc = "count" => thread'[t].pc = "counting"
      /\ thread[t].pc = "renew" => thread'[t].pc = "renewing"
      /\ thread[t].pc = "restore" => thread'[t].pc = "restoring"
      /\ thread'[t].doc = thread[t].doc /\ thread'[t].to = thread[t].to
      /\ thread'[t].was = thread[t].was /\ thread'[t].for = thread[t].for
  BY <1>2, ReadType
<1>4. /\ t = "ui" => thread[t].pc \in {"edit", "count", "renew"}
      /\ t = "event" => thread[t].pc = "renew"
      /\ t = "task" => thread[t].pc \in {"count", "renew"}
      /\ t = "autosave" => thread[t].pc \in {"count", "restore"}
  BY <1>1 DEF General, ThreadFits, SavePc, AutosavePc
<1>5. Harmless
  <2>1. \/ thread[t].pc \notin Engaged(t) /\ thread'[t].pc \notin Engaged(t)
        \/ Onward(t)
    BY <1>0, <1>1, <1>3, <1>4 DEF Engaged, Ahead, Onward
  <2> QED BY <1>1, <1>3, <2>1 DEF Harmless, Still, docs, history
<1>6. ThreadFits'
  <2>1. /\ thread'[t].doc # None
        /\ t = "ui" /\ thread'[t].pc \in SavePc => thread'[t].for # "stay"
    BY <1>1, <1>3, <1>4 DEF General, ThreadFits, WithDoc, SavePc
  <2> QED BY <1>0, <1>1, <1>3, <1>4, <2>1 DEF General, ThreadFits, SavePc, AutosavePc
<1>7. OneAtATime'
  BY <1>0, <1>1, <1>3, <1>4 DEF General, OneAtATime
<1>8. Opening' => Opening
  BY <1>0, <1>1, <1>3, <1>4 DEF Opening
<1>9. \/ thread'["ui"] = thread["ui"]
      \/ {thread["ui"].pc, thread'["ui"].pc} \subseteq SafePc
      \/ {thread["ui"].pc, thread'["ui"].pc} \subseteq {"edit", "editing"}
  <2>1. CASE t = "ui"
    BY <1>3, <1>4, <2>1 DEF SafePc
  <2>2. CASE t # "ui"
    BY <1>0, <1>3, <2>2
  <2> QED BY <2>1, <2>2
<1>10. \A u \in {"ui", "task"} : thread'[u] = thread[u] \/ thread'[u].pc # "mark"
  BY <1>0, <1>1, <1>3
<1> QED BY <1>5, <1>6, <1>7, <1>8, <1>9, <1>10, QuietKeeps

\* The state that was read is stored with the new generation.
LEMMA StoreBackKeeps ==
    ASSUME TypeOK, TypeOK', General, NEW t \in Thread, Alone(t),
           thread[t].pc \in {"counting", "renewing"}, Store(t, thread[t].read),
           ThreadFits', OneAtATime',
           \/ t = "autosave" /\ Onward(t)
           \/ t # "autosave" /\ thread'[t].pc \in {"idle", "renew", "saved", "finished"}
    PROVE  Keeps
<1>0. {"ui", "event", "task", "autosave"} = Thread
  BY DEF Thread
<1>1. thread[t].doc \in Doc /\ thread[t].read \in State
  BY DEF General, ThreadFits, WithDoc, TypeOK, Work
<1>2. /\ state'[thread[t].doc] = thread[t].read
      /\ \A d \in Doc : d # thread[t].doc => state'[d] = state[d]
      /\ Calm' => state[thread[t].doc] = thread[t].read
      /\ UNCHANGED <<content, geometry, current, disk, importing, used, agreed>>
  BY <1>1, StoreType
<1>3. Still
  <2>1. \A u \in Thread : u # t => thread'[u] = thread[u]
    BY DEF Alone
  <2>2. \/ thread[t].pc \notin Engaged(t) /\ thread'[t].pc \notin Engaged(t)
        \/ Onward(t)
    BY DEF Engaged, Ahead
  <2> QED BY <1>2, <2>1, <2>2 DEF Still
<1>4. General'
  BY <1>3, StillKeeps
<1>5. ASSUME Calm' PROVE Keeps
  <2>1. state' = state
    BY <1>2, <1>5 DEF TypeOK
  <2>2. Harmless
    BY <1>2, <1>3, <2>1 DEF Harmless, docs
  <2>3. Opening' => Opening
    BY <1>0, <1>2 DEF Opening, Alone, Onward
  <2>4. \/ thread'["ui"] = thread["ui"] \/ thread'["ui"].pc = "idle"
        \/ {thread["ui"].pc, thread'["ui"].pc} \subseteq SafePc
    <3>1. CASE t = "ui"
      BY <3>1 DEF SafePc, ThreadFits, SavePc
    <3>2. CASE t # "ui"
      BY <1>0, <3>2 DEF Alone
    <3> QED BY <3>1, <3>2
  <2>5. \A u \in {"ui", "task"} : thread'[u] = thread[u] \/ thread'[u].pc # "mark"
    BY <1>0 DEF Alone, Onward
  <2> QED BY <2>2, <2>3, <2>4, <2>5, QuietKeeps
<1>6. excused' = {} => Calm'
  BY DEF Calm
<1> QED BY <1>4, <1>5, <1>6 DEF Keeps

\* The state of a saved document gets the generation of the container.
LEMMA SaveCountsKeeps ==
    ASSUME TypeOK, TypeOK', General, NEW t \in Thread \ {"event"}, SaveCounts(t)
    PROVE  Keeps
<1>0. {"ui", "event", "task", "autosave"} = Thread
  BY DEF Thread
<1>1. /\ thread[t].pc = "counting" /\ Store(t, thread[t].read) /\ t \in {"ui", "task", "autosave"}
      /\ Go(t, IF t = "autosave" THEN "restore" ELSE "renew")
  BY <1>0 DEF SaveCounts
<1>2. /\ \A u \in Thread : u # t => thread'[u] = thread[u]
      /\ t = "autosave" => thread'[t] = [thread[t] EXCEPT !.pc = "restore"]
      /\ t # "autosave" => thread'[t] = [thread[t] EXCEPT !.pc = "renew"]
  BY <1>1, GoType DEF TypeOK, Steps
<1>3. /\ t = "autosave" => thread'[t].pc = "restore"
      /\ t # "autosave" => thread'[t].pc = "renew"
      /\ thread'[t].doc = thread[t].doc /\ thread'[t].to = thread[t].to
      /\ thread'[t].was = thread[t].was /\ thread'[t].for = thread[t].for
  BY <1>2 DEF TypeOK, Work
<1>4. ThreadFits' /\ OneAtATime'
  <2>1. /\ thread'[t].doc # None
        /\ t = "ui" => thread'[t].for # "stay"
    BY <1>1, <1>3 DEF General, ThreadFits, WithDoc, SavePc
  <2>2. \A u \in Thread : u # t => thread'[u] = thread[u]
    BY <1>2
  <2>3. ThreadFits'
    BY <1>0, <1>1, <1>3, <2>1, <2>2 DEF General, ThreadFits, SavePc, AutosavePc
  <2>4. OneAtATime'
    BY <1>0, <1>1, <1>3, <2>2 DEF General, OneAtATime
  <2> QED BY <2>3, <2>4
<1> QED BY <1>1, <1>2, <1>3, <1>4, StoreBackKeeps DEF Alone, Onward

\* The state of a saved or opened document gets the generation of the service.
LEMMA RenewKeeps ==
    ASSUME TypeOK, TypeOK', General, NEW t \in Thread, Renew(t)
    PROVE  Keeps
<1>0. {"ui", "event", "task", "autosave"} = Thread
  BY DEF Thread
<1>1. thread[t].pc = "renewing" /\ Store(t, thread[t].read) /\ t \in {"ui", "event", "task"}
  <2>1. thread["autosave"].pc # "renewing"
    BY DEF General, ThreadFits, AutosavePc
  <2> QED BY <1>0, <2>1 DEF Renew
<1>2. /\ \A u \in Thread : u # t => thread'[u] = thread[u]
      /\ t = "event" => thread'[t] = Idle
      /\ t = "ui" => thread'[t] = [thread[t] EXCEPT !.pc = "saved"]
      /\ t = "task" => thread'[t] = [thread[t] EXCEPT !.pc = "finished"]
  <2>1. CASE t = "event"
    <3>1. thread' = [thread EXCEPT !["event"] = Idle]
      BY <2>1 DEF Renew
    <3> QED BY <1>0, <2>1, <3>1 DEF TypeOK
  <2>2. CASE t = "ui"
    BY <1>0, <2>2, GoType DEF Renew, TypeOK, Steps
  <2>3. CASE t = "task"
    BY <1>0, <2>3, GoType DEF Renew, TypeOK, Steps
  <2> QED BY <1>1, <2>1, <2>2, <2>3
<1>3. /\ t = "event" => thread'[t] = Idle /\ thread'[t].pc = "idle"
      /\ t = "ui" => thread'[t].pc = "saved" /\ thread'[t].for = thread[t].for
      /\ t = "task" => thread'[t].pc = "finished"
  BY <1>2, IdleType DEF TypeOK, Work
<1>4. ThreadFits' /\ OneAtATime'
  <2>1. t = "ui" => thread'[t].for # "stay"
    BY <1>1, <1>3 DEF General, ThreadFits, SavePc
  <2>2. \A u \in Thread : u # t => thread'[u] = thread[u]
    BY <1>2
  <2>3. ThreadFits'
    BY <1>0, <1>1, <1>3, <2>1, <2>2 DEF General, ThreadFits, SavePc, AutosavePc, WithDoc
  <2>4. OneAtATime'
    BY <1>0, <1>1, <1>3, <2>2 DEF General, OneAtATime
  <2> QED BY <2>3, <2>4
<1> QED BY <1>0, <1>1, <1>2, <1>3, <1>4, StoreBackKeeps DEF Alone

\* The store that marks a document as edited keeps it.
LEMMA MarkDirtyKeeps ==
    ASSUME TypeOK, TypeOK', General, MarkDirty
    PROVE  Keeps
<1> DEFINE d == thread["ui"].doc
<1> DEFINE new == [thread["ui"].read EXCEPT !.dirty = TRUE]
<1>0. {"ui", "event", "task", "autosave"} = Thread
  BY DEF Thread
<1>1. /\ thread["ui"].pc = "editing" /\ Store("ui", new)
      /\ thread' = [thread EXCEPT !["ui"] = Idle]
  BY DEF MarkDirty
<1>2. /\ \A u \in {"event", "task", "autosave"} : thread'[u] = thread[u]
      /\ thread'["ui"] = Idle /\ thread'["ui"].pc = "idle"
  BY <1>0, <1>1, IdleType DEF TypeOK
<1>3. d \in Doc /\ thread["ui"].read \in State
  BY <1>0, <1>1 DEF General, ThreadFits, WithDoc, TypeOK, Work
<1>4. new \in State /\ new.dirty /\ new.path = thread["ui"].read.path
  BY <1>3 DEF State
<1> HIDE DEF new
<1>5. /\ state'[d] = new
      /\ \A e \in Doc : e # d => state'[e] = state[e]
      /\ Calm' => state[d] = thread["ui"].read
      /\ UNCHANGED <<content, geometry, current, disk, importing, used, agreed>>
  BY <1>0, <1>1, <1>3, <1>4, StoreType
<1>6. ThreadFits' /\ OneAtATime'
  BY <1>0, <1>1, <1>2 DEF General, ThreadFits, OneAtATime, SavePc, WithDoc
<1>7. /\ General'
      /\ \A e \in Doc : Saving(e)' => Saving(e)
      /\ \A e \in Doc : Prepared(e)' <=> Prepared(e)
  <2>1. Alone("ui")
    BY <1>0, <1>2 DEF Alone
  <2> QED BY <1>0, <1>1, <1>2, <1>5, <1>6, <2>1, AloneKeeps DEF Ahead
<1>8. \A e \in Doc : /\ Saving(e) => Saving(e)'
                     /\ Editing(e) => e = d
  <2>1. \A u \in Thread : thread[u].pc \in Ahead(u) => thread'[u] = thread[u]
    BY <1>0, <1>1, <1>2 DEF Ahead
  <2> QED BY <2>1 DEF Saving, Editing, Ahead
<1>9. ASSUME Tidy, Calm' PROVE Tidy'
  <2>1. state'[d].dirty /\ state'[d].path = state[d].path
    BY <1>4, <1>5, <1>9
  <2>2. SavesApart' /\ AutosaveFits'
    BY <1>2, <1>9 DEF Tidy, SavesApart, AutosaveFits
  <2>3. SaveFitsAt(thread["ui"])'
    BY <1>2 DEF SaveFitsAt
  <2>4. SaveFitsAt(thread["task"])'
    <3>1. thread["task"].pc \in {"stamp", "build", "replace"} => thread["task"].doc \in Doc
      BY <1>0, SavingDoc DEF General, Ahead
    <3> DEFINE e == thread["task"].doc
    <3>2. SaveFitsAt(thread["task"]) /\ thread'["task"] = thread["task"]
      BY <1>2, <1>9 DEF Tidy, SaveFits
    <3>3. e \in Doc => /\ state'[e].path = state[e].path
                       /\ state[e].dirty \/ Editing(e) => state'[e].dirty
      BY <1>5, <1>8, <2>1
    <3> QED BY <1>5, <3>1, <3>2, <3>3 DEF SaveFitsAt, NamedOrDirty
  <2>5. StateFits'
    <3> SUFFICES ASSUME NEW e \in Doc, InUse(e), ~Saving(e)
                 PROVE  /\ NamedOrDirty(state'[e])
                        /\ state'[e].dirty \/ disk[state'[e].path] = content[e]
      BY <1>5, <1>7, <1>8 DEF StateFits, InUse, NamedOrDirty
    <3>1. /\ NamedOrDirty(state[e])
          /\ state[e].dirty \/ Editing(e) \/ disk[state[e].path] = content[e]
      BY <1>9 DEF Tidy, StateFits
    <3> QED BY <1>5, <1>8, <2>1, <3>1 DEF NamedOrDirty
  <2> QED BY <2>2, <2>3, <2>4, <2>5 DEF Tidy, SaveFits
<1>10. ASSUME WorkFits PROVE WorkFits'
  <2>1. ~Opening
    BY <1>1, <1>10 DEF WorkFits
  <2>2. importing = None /\ \A e \in Doc : ~Prepared(e)
    BY <2>1 DEF Opening, Prepared
  <2>3. ~Opening'
    BY <1>2, <1>5, <2>1 DEF Opening
  <2> QED BY <1>2, <1>5, <1>7, <2>2, <2>3, PlaceFacts DEF WorkFits
<1>11. Leaving
  BY <1>5 DEF Leaving
<1> QED BY <1>7, <1>9, <1>10, <1>11 DEF Keeps

----------------------------------------------------------------------------
(* Documents that are opened.                                              *)

\* prepare_source and prepare_container keep it.
LEMMA ReadKeeps ==
    ASSUME TypeOK, TypeOK', General, Read
    PROVE  Keeps
<1> DEFINE from == thread["task"].to
<1>0. {"ui", "event", "task", "autosave"} = Thread
  BY DEF Thread
<1>1. /\ thread["task"].pc = "read" /\ used.opens < MaxOpens /\ Use("opens")
      /\ content' = [content EXCEPT ![NextDoc] = IF from = None THEN 0 ELSE disk[from]]
      /\ geometry' = [geometry EXCEPT ![NextDoc] = IF from = None THEN "source" ELSE "extracted"]
      /\ thread' = [thread EXCEPT !["task"].pc = "prepared", !["task"].doc = NextDoc]
      /\ UNCHANGED <<current, disk, importing, agreed, excused>>
  BY DEF Read, history
<1>2. PICK ro \in BOOLEAN :
        state' = [state EXCEPT ![NextDoc] = [path |-> from, dirty |-> from = None, readOnly |-> ro]]
  BY DEF Read
<1>3. /\ NextDoc \in Doc /\ NextDoc # None /\ used'.opens = used.opens + 1
      /\ NextDoc = used.opens + 1 /\ used.opens \in Nat
  BY <1>1, UseType, PlaceFacts, BoundsAssumption DEF TypeOK, NextDoc
<1>4. from \in File \cup {None}
  BY <1>1 DEF General, ThreadFits
<1>5. thread["ui"].pc \in {"idle", "edit", "editing"} /\ thread["autosave"].pc = "idle"
  BY <1>1 DEF General, OneAtATime
<1>6. /\ \A u \in {"ui", "event", "autosave"} : thread'[u] = thread[u]
      /\ thread'["task"].pc = "prepared" /\ thread'["task"].doc = NextDoc
  BY <1>0, <1>1 DEF TypeOK, Work
<1>7. /\ state'[NextDoc].path = from /\ state'[NextDoc].dirty = (from = None)
      /\ content'[NextDoc] = IF from = None THEN 0 ELSE disk[from]
      /\ geometry'[NextDoc] \in {"source", "extracted"}
      /\ \A d \in Doc : d # NextDoc => /\ state'[d] = state[d] /\ content'[d] = content[d]
                                       /\ geometry'[d] = geometry[d]
  BY <1>1, <1>2, <1>3 DEF TypeOK
<1> HIDE DEF from
<1>8. \A d \in Doc : d \in {current, importing} => d # NextDoc
  BY <1>3 DEF General, DocsFit
<1>9. \A d \in Doc : /\ ~Saving(d) /\ ~Saving(d)' /\ ~Prepared(d)
                     /\ Prepared(d)' <=> d = NextDoc
  <2>1. \A u \in Thread : thread[u].pc \notin Ahead(u) /\ thread'[u].pc \notin Ahead(u)
    <3>1. thread["event"].pc \in {"idle", "renew", "renewing"}
      BY DEF General, ThreadFits
    <3>2. \A u \in Thread : thread[u].pc \notin Ahead(u)
      BY <1>0, <1>1, <1>5, <3>1 DEF Ahead, AutosavePc
    <3>3. \A u \in Thread : thread'[u] = thread[u] \/ (u = "task" /\ thread'[u].pc = "prepared")
      BY <1>0, <1>6
    <3> QED BY <3>2, <3>3 DEF Ahead
  <2> QED BY <1>1, <1>6, <2>1 DEF Saving, Prepared, Ahead
<1>9a. \A d \in Doc : Editing(d)' <=> Editing(d)
  BY <1>6 DEF Editing
<1>10. ThreadFits' /\ OneAtATime'
  BY <1>0, <1>3, <1>5, <1>6 DEF General, ThreadFits, OneAtATime
<1>11. DocsFit'
  <2>1. \A d \in Doc : d \in {current, importing} \/ d = NextDoc => d <= used'.opens
    BY <1>3 DEF General, DocsFit, Doc
  <2> QED BY <1>1, <1>5, <1>6, <1>8, <1>9, <2>1 DEF General, DocsFit
<1>12. GeometryFits'
  <2>1. \A d \in Doc : d > used'.opens => geometry'[d] = "none"
    BY <1>3, <1>7 DEF General, GeometryFits, Doc
  <2>2. \A d \in Doc : d \in {current, importing} \/ d = NextDoc => geometry'[d] # "removed"
    BY <1>7, <1>8 DEF General, GeometryFits
  <2>3. \A d \in Doc : geometry'[d] = "extracted" => d \in {current, importing} \/ d = NextDoc
    BY <1>1, <1>7 DEF General, GeometryFits, ExtractedWhileNeeded
  <2> QED BY <1>1, <1>6, <1>9, <2>1, <2>2, <2>3 DEF GeometryFits, ExtractedWhileNeeded
<1>13. ASSUME Tidy PROVE Tidy'
  <2>1. SavesApart' /\ AutosaveFits' /\ SaveFits'
    BY <1>5, <1>6 DEF SavesApart, AutosaveFits, AutosavePc, SaveFits, SaveFitsAt
  <2>2. ASSUME NEW d \in Doc, d \in {current, importing} \/ d = NextDoc
        PROVE  /\ NamedOrDirty(state'[d])
               /\ state'[d].dirty \/ Editing(d) \/ disk[state'[d].path] = content'[d]
    <3>1. CASE d = NextDoc
      BY <1>4, <1>7, <3>1 DEF NamedOrDirty
    <3>2. CASE d # NextDoc
      BY <1>7, <1>9, <1>13, <2>2, <3>2 DEF Tidy, StateFits, InUse
    <3> QED BY <3>1, <3>2
  <2>3. StateFits'
    BY <1>1, <1>9, <1>9a, <2>2 DEF StateFits, InUse, NamedOrDirty
  <2> QED BY <2>1, <2>3 DEF Tidy
<1>14. ASSUME WorkFits PROVE WorkFits'
  <2>1. ASSUME NEW d \in Doc, d = importing \/ d = NextDoc PROVE Untouched(d)'
    <3>1. CASE d = NextDoc
      BY <1>1, <1>4, <1>7, <3>1 DEF Untouched
    <3>2. CASE d # NextDoc
      BY <1>1, <1>7, <1>14, <2>1, <3>2 DEF WorkFits, Untouched
    <3> QED BY <3>1, <3>2
  <2>2. Safe(current) /\ thread["ui"].pc \notin {"edit", "editing"}
    BY <1>1, <1>14 DEF WorkFits, Opening
  <2>3. Safe(current)'
    BY <1>1, <1>7, <1>8, <2>2 DEF TypeOK, Safe, Lost
  <2> QED BY <1>1, <1>5, <1>6, <1>9, <2>1, <2>2, <2>3 DEF WorkFits
<1>15. Leaving
  BY <1>1 DEF Leaving
<1> QED BY <1>10, <1>11, <1>12, <1>13, <1>14, <1>15 DEF Keeps, General

\* One document is released, and another one may take its place.
LEMMA ReleaseKeeps ==
    ASSUME TypeOK, General, ThreadFits', OneAtATime',
           NEW old \in {current, importing}, geometry' = Released({old}),
           UNCHANGED <<state, content, disk, used, agreed, excused>>,
           thread'["ui"] = thread["ui"], thread'["autosave"] = thread["autosave"],
           \A t \in {"event", "task"} :
             \/ thread'[t] = thread[t]
             \/ /\ thread[t].pc \notin {"stamp", "build", "replace"}
                /\ thread'[t].pc \notin {"mark", "stamp", "build", "replace"},
           \A d \in Doc : InUse(d)' <=> InUse(d) /\ d # old,
           current' # None => current' # importing',
           \A d \in Doc : Prepared(d)' => Prepared(d) /\ d \notin {current', importing'},
           importing' # None => importing' = importing \/ Prepared(importing'),
           thread'["ui"].pc \in {"stamp", "build", "replace"} => thread'["ui"].doc = current'
    PROVE  General' /\ (Tidy => Tidy')
<1>0. {"ui", "event", "task", "autosave"} = Thread
  BY DEF Thread
<1>1. \A d \in Doc : (Saving(d)' <=> Saving(d)) /\ (Editing(d)' <=> Editing(d))
  <2>1. \A t \in Thread : \/ thread'[t] = thread[t]
                          \/ thread[t].pc \notin Ahead(t) /\ thread'[t].pc \notin Ahead(t)
    BY <1>0 DEF Ahead
  <2> QED BY <2>1 DEF Saving, Editing, Ahead
<1>2. DocsFit'
  <2>1. \A d \in Doc : InUse(d)' \/ Saving(d)' => d <= used.opens
    BY <1>1 DEF General, DocsFit, InUse
  <2>2. \A d \in Doc : Saving(d)' => d # importing' /\ ~Prepared(d)'
    BY <1>1, PlaceFacts DEF General, DocsFit
  <2> QED BY <2>1, <2>2 DEF DocsFit, InUse
<1>3. /\ \A d \in Doc : d # old => geometry'[d] = geometry[d]
      /\ \A d \in Doc : /\ geometry'[d] = "none" <=> geometry[d] = "none"
                        /\ d = old => geometry'[d] # "extracted"
  BY ReleasedType DEF TypeOK
<1>4. GeometryFits'
  <2>1. \A d \in Doc : InUse(d)' => geometry'[d] # "removed"
    BY <1>3 DEF General, GeometryFits, InUse
  <2>2. \A d \in Doc : geometry'[d] = "extracted" => InUse(d)'
    BY <1>3 DEF General, GeometryFits, ExtractedWhileNeeded, InUse, Prepared
  <2>3. \A d \in Doc : d > used'.opens => geometry'[d] = "none"
    BY <1>3 DEF General, GeometryFits
  <2> QED BY <2>1, <2>2, <2>3 DEF GeometryFits, ExtractedWhileNeeded, InUse, Prepared
<1>5. ASSUME Tidy PROVE Tidy'
  <2>1. SavesApart' /\ AutosaveFits'
    BY <1>5 DEF Tidy, SavesApart, AutosaveFits
  <2>2. ASSUME NEW t \in {"ui", "task"} PROVE SaveFitsAt(thread[t])'
    <3>1. CASE thread'[t] = thread[t]
      <4>1. thread[t].pc \in {"stamp", "build", "replace"} => thread[t].doc \in Doc
        BY <1>0, SavingDoc DEF General, Ahead
      <4>2. SaveFitsAt(thread[t])
        BY <1>5 DEF Tidy, SaveFits
      <4> QED BY <1>1, <3>1, <4>1, <4>2 DEF SaveFitsAt, NamedOrDirty
    <3>2. CASE thread'[t].pc \notin {"mark", "stamp", "build", "replace"}
      BY <3>2 DEF SaveFitsAt
    <3> QED BY <3>1, <3>2
  <2>3. StateFits'
    BY <1>1, <1>5 DEF Tidy, StateFits, NamedOrDirty
  <2> QED BY <2>1, <2>2, <2>3 DEF Tidy, SaveFits
<1> QED BY <1>2, <1>4, <1>5 DEF General

\* _complete_activation of a project keeps it.
LEMMA ActivateProjectKeeps ==
    ASSUME TypeOK, TypeOK', General, ActivateProject
    PROVE  Keeps
<1>0. {"ui", "event", "task", "autosave"} = Thread
  BY DEF Thread
<1>1. /\ thread["task"].pc = "activate" /\ current' = None /\ geometry' = Released({current})
      /\ UNCHANGED <<state, content, disk, importing, used, agreed, excused>>
  BY DEF ActivateProject, history
<1>2. /\ \A u \in {"ui", "event", "autosave"} : thread'[u] = thread[u]
      /\ thread'["task"].pc = "activated"
  BY <1>0, GoType DEF ActivateProject, TypeOK, Work, Steps
<1>3. thread["ui"].pc \in {"idle", "edit", "editing"} /\ thread["autosave"].pc = "idle"
  BY <1>1 DEF General, OneAtATime
<1>4. ThreadFits' /\ OneAtATime'
  BY <1>0, <1>2, <1>3 DEF General, ThreadFits, OneAtATime, WithDoc
<1>5. \A d \in Doc : ~Prepared(d) /\ ~Prepared(d)'
  BY <1>1, <1>2 DEF Prepared
<1>6. \A d \in Doc : InUse(d)' <=> InUse(d) /\ d # current
  BY <1>1, <1>5, PlaceFacts DEF InUse, General, DocsFit
<1>7. General' /\ (Tidy => Tidy')
  BY <1>1, <1>2, <1>3, <1>4, <1>5, <1>6, ReleaseKeeps
<1>8. ASSUME WorkFits PROVE WorkFits' /\ Leaving
  <2>1. Safe(current) /\ thread["ui"].pc \notin {"edit", "editing"}
    BY <1>1, <1>8 DEF WorkFits, Opening
  <2>2. Leaving
    BY <1>1, <2>1, PlaceFacts DEF Leaving, Safe, Lost
  <2>3. \A d \in Doc : d = importing' \/ Prepared(d)' => Untouched(d)'
    BY <1>1, <1>5, <1>8 DEF WorkFits, Untouched
  <2>4. WorkFits'
    BY <1>1, <1>2, <1>3, <2>1, <2>3 DEF WorkFits, Safe
  <2> QED BY <2>2, <2>4
<1> QED BY <1>7, <1>8 DEF Keeps

\* The start of an import keeps it.
LEMMA ImportStartsKeeps ==
    ASSUME TypeOK, TypeOK', General, ImportStarts
    PROVE  Keeps
<1>0. {"ui", "event", "task", "autosave"} = Thread
  BY DEF Thread
<1>1. /\ thread["task"].pc = "prepared" /\ importing' = thread["task"].doc
      /\ geometry' = Released({importing}) /\ EventLoop
      /\ UNCHANGED <<state, content, current, disk, used, agreed, excused>>
  BY DEF ImportStarts, history
<1>2. /\ \A u \in {"ui", "event", "autosave"} : thread'[u] = thread[u]
      /\ thread'["task"] = Idle /\ thread'["task"].pc = "idle"
  BY <1>0, IdleType DEF ImportStarts, TypeOK
<1>3. thread["ui"].pc = "idle" /\ thread["autosave"].pc = "idle"
  BY <1>1 DEF General, OneAtATime, EventLoop
<1>4. ThreadFits' /\ OneAtATime'
  BY <1>0, <1>2, <1>3 DEF General, ThreadFits, OneAtATime, WithDoc
<1>5. \A d \in Doc : (Prepared(d) <=> d = importing') /\ ~Prepared(d)'
  BY <1>1, <1>2 DEF Prepared
<1>6. importing' \in Doc /\ importing' \notin {current, importing}
  <2>1. importing' \in Doc
    BY <1>0, <1>1 DEF General, ThreadFits, WithDoc, TypeOK, Work
  <2> QED BY <1>5, <2>1 DEF General, DocsFit
<1>7. \A d \in Doc : InUse(d)' <=> InUse(d) /\ d # importing
  BY <1>1, <1>5, <1>6, PlaceFacts DEF InUse, General, DocsFit
<1>8. General' /\ (Tidy => Tidy')
  <2>1. importing' # None => importing' = importing \/ Prepared(importing')
    BY <1>5, <1>6
  <2>2. current' # None => current' # importing'
    BY <1>1, <1>6
  <2>3. \A t \in {"event", "task"} :
          \/ thread'[t] = thread[t]
          \/ /\ thread[t].pc \notin {"stamp", "build", "replace"}
             /\ thread'[t].pc \notin {"mark", "stamp", "build", "replace"}
    BY <1>1, <1>2
  <2>4. UNCHANGED <<state, content, disk, used, agreed, excused>>
    BY <1>1
  <2>5. \A d \in Doc : Prepared(d)' => Prepared(d) /\ d \notin {current', importing'}
    BY <1>5
  <2>6. thread'["ui"].pc \notin {"stamp", "build", "replace"}
    BY <1>2, <1>3
  <2>7. geometry' = Released({importing})
    BY <1>1
  <2> QED BY <1>2, <1>4, <1>7, <2>1, <2>2, <2>3, <2>4, <2>5, <2>6, <2>7, ReleaseKeeps
<1>9. ASSUME WorkFits PROVE WorkFits'
  <2>1. Safe(current)
    BY <1>1, <1>9 DEF WorkFits, Opening
  <2>2. Safe(current)'
    BY <1>1, <2>1 DEF Safe, Lost
  <2>3. \A d \in Doc : d = importing' \/ Prepared(d)' => Untouched(d)'
    BY <1>1, <1>5, <1>9 DEF WorkFits, Untouched
  <2> QED BY <1>1, <1>2, <1>3, <2>2, <2>3 DEF WorkFits
<1>10. Leaving
  BY <1>1 DEF Leaving
<1> QED BY <1>8, <1>9, <1>10 DEF Keeps

\* Binding the project that was activated keeps it.
LEMMA ProjectBindsKeeps ==
    ASSUME TypeOK, TypeOK', General, ProjectBinds
    PROVE  Keeps
<1>0. {"ui", "event", "task", "autosave"} = Thread
  BY DEF Thread
<1>1. /\ thread["task"].pc = "activated" /\ importing' = None /\ geometry' = Released({importing})
      /\ UNCHANGED <<state, content, current, disk, used, agreed, excused>> /\ EventLoop
  BY DEF ProjectBinds, history
<1>2. /\ \A u \in {"ui", "event", "autosave"} : thread'[u] = thread[u]
      /\ thread'["task"] = Idle /\ thread'["task"].pc = "idle"
  BY <1>0, IdleType DEF ProjectBinds, TypeOK
<1>3. thread["ui"].pc = "idle" /\ thread["autosave"].pc = "idle"
  BY <1>1 DEF General, OneAtATime, EventLoop
<1>4. ThreadFits' /\ OneAtATime'
  BY <1>0, <1>2, <1>3 DEF General, ThreadFits, OneAtATime, WithDoc
<1>5. \A d \in Doc : ~Prepared(d) /\ ~Prepared(d)'
  BY <1>1, <1>2 DEF Prepared
<1>6. \A d \in Doc : InUse(d)' <=> InUse(d) /\ d # importing
  BY <1>1, <1>5, PlaceFacts DEF InUse, General, DocsFit
<1>7. General' /\ (Tidy => Tidy')
  BY <1>1, <1>2, <1>3, <1>4, <1>5, <1>6, ReleaseKeeps
<1>8. ASSUME WorkFits PROVE WorkFits'
  BY <1>1, <1>2, <1>3, <1>5, PlaceFacts DEF WorkFits, Opening
<1>9. Leaving
  BY <1>1 DEF Leaving
<1> QED BY <1>7, <1>8, <1>9 DEF Keeps

\* commit_document_open, which replaces the document, keeps it.
LEMMA CommitOpenKeeps ==
    ASSUME TypeOK, TypeOK', General, CommitOpen
    PROVE  Keeps
<1>0. {"ui", "event", "task", "autosave"} = Thread
  BY DEF Thread
<1>1. /\ thread["ui"].pc \in {"idle", "ask", "where"} /\ importing \in Doc
      /\ thread["event"] = Idle /\ thread["event"].pc = "idle"
      /\ current' = importing /\ importing' = None /\ geometry' = Released({current})
      /\ thread' = [thread EXCEPT !["event"] = [Idle EXCEPT !.pc = "renew", !.doc = importing]]
      /\ UNCHANGED <<state, content, disk, used, agreed, excused>>
  BY IdleType DEF CommitOpen, EventLoop, history, TypeOK
<1>2. /\ \A u \in {"ui", "task", "autosave"} : thread'[u] = thread[u]
      /\ thread'["event"].pc = "renew" /\ thread'["event"].doc = importing
  BY <1>0, <1>1 DEF TypeOK, Idle
<1>3. ThreadFits' /\ OneAtATime'
  BY <1>0, <1>1, <1>2, PlaceFacts DEF General, ThreadFits, OneAtATime
<1>4. \A d \in Doc : Prepared(d)' <=> Prepared(d)
  BY <1>2 DEF Prepared
<1>5. \A d \in Doc : InUse(d)' <=> InUse(d) /\ d # current
  BY <1>1, <1>4, PlaceFacts DEF InUse, General, DocsFit
<1>6. General' /\ (Tidy => Tidy')
  <2>1. current' # None => current' # importing'
    BY <1>1
  <2>2. \A d \in Doc : Prepared(d)' => Prepared(d) /\ d \notin {current', importing'}
    BY <1>1, <1>4, PlaceFacts DEF General, DocsFit
  <2>3. thread'["ui"].pc \notin {"stamp", "build", "replace"} /\ importing' = None
    BY <1>1, <1>2
  <2>4. UNCHANGED <<state, content, disk, used, agreed, excused>>
    BY <1>1
  <2>5. geometry' = Released({current})
    BY <1>1
  <2>6. \A t \in {"event", "task"} :
          \/ thread'[t] = thread[t]
          \/ /\ thread[t].pc \notin {"stamp", "build", "replace"}
             /\ thread'[t].pc \notin {"mark", "stamp", "build", "replace"}
    BY <1>1, <1>2
  <2> QED BY <1>2, <1>3, <1>5, <2>1, <2>2, <2>3, <2>4, <2>5, <2>6, ReleaseKeeps
<1>7. ASSUME WorkFits PROVE WorkFits' /\ Leaving
  <2>1. Safe(current) /\ Untouched(importing)
    BY <1>1, <1>7, PlaceFacts DEF WorkFits, Opening
  <2>2. Leaving
    BY <1>1, <2>1, PlaceFacts DEF Leaving, Safe, Lost
  <2>3. Safe(current)'
    BY <1>1, <2>1 DEF Untouched, Safe, Lost
  <2>4. \A d \in Doc : d = importing' \/ Prepared(d)' => Untouched(d)'
    BY <1>1, <1>4, <1>7, PlaceFacts DEF WorkFits, Untouched
  <2>5. WorkFits'
    BY <1>1, <1>2, <2>3, <2>4 DEF WorkFits
  <2> QED BY <2>2, <2>5
<1> QED BY <1>6, <1>7 DEF Keeps

\* An import that fails, or is of no use any more, keeps it.
LEMMA ImportFailsKeeps ==
    ASSUME TypeOK, TypeOK', General, ImportFails
    PROVE  Keeps
<1>1. /\ thread["ui"].pc \in {"idle", "ask", "where"} /\ importing \in Doc
      /\ importing' = None /\ geometry' = Released({importing})
      /\ UNCHANGED <<state, content, current, disk, thread, used, agreed, excused>>
  BY DEF ImportFails, EventLoop, history, TypeOK
<1>2. ThreadFits' /\ OneAtATime'
  BY <1>1 DEF General, ThreadFits, OneAtATime
<1>3. \A d \in Doc : Prepared(d)' <=> Prepared(d)
  BY <1>1 DEF Prepared
<1>4. \A d \in Doc : InUse(d)' <=> InUse(d) /\ d # importing
  BY <1>1, <1>3, PlaceFacts DEF InUse, General, DocsFit
<1>5. General' /\ (Tidy => Tidy')
  <2>1. current' # None => current' # importing'
    BY <1>1
  <2>2. \A d \in Doc : Prepared(d)' => Prepared(d) /\ d \notin {current', importing'}
    BY <1>1, <1>3, PlaceFacts DEF General, DocsFit
  <2>3. thread'["ui"].pc \notin {"stamp", "build", "replace"} /\ importing' = None
    BY <1>1
  <2>4. UNCHANGED <<state, content, disk, used, agreed, excused>>
    BY <1>1
  <2>5. UNCHANGED thread /\ geometry' = Released({importing})
    BY <1>1
  <2> QED BY <1>2, <1>4, <2>1, <2>2, <2>3, <2>4, <2>5, ReleaseKeeps
<1>6. ASSUME WorkFits PROVE WorkFits'
  <2>1. Safe(current) => Safe(current)'
    BY <1>1 DEF Safe, Lost
  <2>2. Opening' => Opening
    BY <1>1 DEF Opening
  <2>3. \A d \in Doc : d = importing' \/ Prepared(d)' => Untouched(d)'
    BY <1>1, <1>3, <1>6, PlaceFacts DEF WorkFits, Untouched
  <2> QED BY <1>1, <1>6, <2>1, <2>2, <2>3 DEF WorkFits
<1>7. Leaving
  BY <1>1 DEF Leaving
<1> QED BY <1>5, <1>6, <1>7 DEF Keeps

----------------------------------------------------------------------------
(* All steps together.                                                     *)

\* Every action keeps the types and the invariant.
LEMMA StepKeeps ==
    ASSUME TypeOK, General, Next
    PROVE  TypeOK' /\ Keeps
<1>1. TypeOK'
  BY UserTypes, ThreadTypes, EventTypes DEF Next, General
<1>2. CASE UserStep
  BY <1>1, <1>2, UserKeeps
<1>3. CASE ThreadStep
  <2>1. ASSUME NEW t \in {"ui", "task"}, SaveBegins(t) \/ SaveRefused(t) PROVE Keeps
    BY <1>1, <2>1, SaveBeginsKeeps, SaveRefusedKeeps
  <2>2. ASSUME NEW t \in Thread \ {"event"},
               \/ SaveStamp(t) \/ SaveBuild(t) \/ SaveReplace(t)
               \/ SaveFails(t) \/ SaveCounts(t)
        PROVE  Keeps
    BY <1>1, <2>2, StampKeeps, SaveBuildKeeps, SaveReplaceKeeps, SaveFailsKeeps, SaveCountsKeeps
  <2>3. ASSUME NEW t \in Thread, ReadState(t) \/ Renew(t) PROVE Keeps
    BY <1>1, <2>3, ReadStateKeeps, RenewKeeps
  <2> QED BY <1>1, <1>3, <2>1, <2>2, <2>3, MarkDirtyKeeps, SmallStepKeeps, AutosaveBeginsKeeps,
             AutosaveRestoreKeeps, ReadKeeps, ActivateProjectKeeps, ContinueKeeps
          DEF ThreadStep
<1>4. CASE Event
  BY <1>1, <1>4, SmallStepKeeps, ImportStartsKeeps, ProjectBindsKeeps, CommitOpenKeeps,
     ImportFailsKeeps
     DEF Event
<1> QED BY <1>1, <1>2, <1>3, <1>4 DEF Next

\* What has happened is not forgotten.
LEMMA ExcusesStay ==
    ASSUME Next
    PROVE  excused \subseteq excused'
<1> USE DEF history, Excuse
<1>1. CASE UserStep
  BY <1>1 DEF UserStep, Edit, Save, StartUnasked, Ask, Cancel, AnswerDiscard, AnswerSave, ChooseFile
<1>2. CASE ThreadStep
  BY <1>2 DEF ThreadStep, Store, MarkDirty, SaveBegins, SaveRefused, SaveStamp, SaveBuild, SaveReplace,
              SaveFails, SaveCounts, ReadState, Renew, AutosaveSkips, AutosaveBegins,
              AutosaveRestore, Read, ActivateProject, OperationFails, Continue
<1>3. CASE Event
  BY <1>3 DEF Event, RequestAutosave, ImportStarts, ProjectBinds, CommitOpen, ImportFails, Finished
<1> QED BY <1>1, <1>2, <1>3 DEF Next

\* The inductive invariant holds initially.
LEMMA InitInv == Init => Inv
<1> SUFFICES ASSUME Init PROVE Inv
  OBVIOUS
<1>0. {"ui", "event", "task", "autosave"} = Thread
  BY DEF Thread
<1>1. \A t \in Thread : thread[t] = Idle /\ thread[t].pc = "idle" /\ thread[t].doc = None
  BY IdleType DEF Init
<1>2. \A d \in Doc : /\ ~Prepared(d) /\ ~Saving(d) /\ ~Editing(d)
                     /\ geometry[d] = "none" /\ d > used.opens
  <2>1. \A t \in Thread : thread[t].pc \notin Ahead(t)
    BY <1>1 DEF Ahead, AutosavePc
  <2>2. \A d \in Doc : ~Prepared(d) /\ ~Editing(d)
    BY <1>0, <1>1 DEF Prepared, Editing
  <2>3. \A d \in Doc : ~Saving(d)
    BY <2>1 DEF Saving
  <2> QED BY <2>2, <2>3, BoundsAssumption DEF Init, Doc
<1>3. current = None /\ importing = None
  BY DEF Init
<1>4. TypeOK
  BY IdleType, PlaceFacts, BoundsAssumption DEF Init, TypeOK, State, NoState, Content, Excuses
<1>5. ThreadFits /\ OneAtATime
  BY <1>0, <1>1 DEF ThreadFits, OneAtATime, SavePc, WithDoc
<1>6. DocsFit /\ GeometryFits
  BY <1>0, <1>1, <1>2, <1>3, PlaceFacts DEF DocsFit, GeometryFits, ExtractedWhileNeeded
<1>7. Tidy
  BY <1>0, <1>1, <1>2, <1>3, PlaceFacts
     DEF Tidy, SavesApart, SaveFits, SaveFitsAt, AutosaveFits, AutosavePc, StateFits, InUse
<1>8. WorkFits
  BY <1>0, <1>1, <1>2, <1>3, PlaceFacts DEF WorkFits, Safe, Opening
<1> QED BY <1>4, <1>5, <1>6, <1>7, <1>8 DEF Inv, General

\* Every step keeps it.
LEMMA StepInv == Inv /\ [Next]_vars => Inv'
<1> SUFFICES ASSUME Inv, [Next]_vars PROVE Inv'
  OBVIOUS
<1>1. CASE Next
  <2>1. TypeOK' /\ Keeps /\ excused \subseteq excused'
    BY <1>1, StepKeeps, ExcusesStay DEF Inv
  <2>2. Calm' => Calm
    BY <2>1 DEF Calm
  <2>3. excused' = {} => excused = {} /\ Calm
    BY <2>1 DEF Calm
  <2> QED BY <2>1, <2>2, <2>3 DEF Inv, Keeps
<1>2. CASE UNCHANGED vars
  BY <1>2
     DEF vars, docs, history, Inv, TypeOK, General, Calm, Tidy, WorkFits, ThreadFits, OneAtATime,
         DocsFit, GeometryFits, ExtractedWhileNeeded, Prepared, Saving, Ahead, Editing, SavesApart,
         SaveFits, SaveFitsAt, AutosaveFits, StateFits, NamedOrDirty, InUse, Untouched, Safe, Lost,
         Opening
<1> QED BY <1>1, <1>2

\* The inductive invariant: what each thread may be doing, and which documents it
\* may be doing it to; that a Save marks the state first and tells the truth in the
\* end, as long as no two threads' reads and stores of the state have crossed; and
\* that only documents without work of their own are replaced unasked.
THEOREM DocumentInvariant == Spec => []Inv
BY InitInv, StepInv, PTL DEF Spec

\* Every variable keeps its type: no step uses a document that is not there.
THEOREM TypeCorrect == Spec => []TypeOK
<1>1. Inv => TypeOK
  BY DEF Inv
<1> QED BY <1>1, DocumentInvariant, PTL

\* A document that is not marked as edited is in its file as the user sees it, and
\* the path of the recovery file never stays in its state
\* (HmsDocumentContainer.save and autosave, mark_dirty), as long as no thread stored
\* a copy of a state that another had changed since, no Save and autosave
\* overlapped, none failed after an edit, and no file was saved while it was opened.
THEOREM CleanDocumentsAreSaved == Spec => []CleanIsSaved
<1>1. Inv => CleanIsSaved
  <2> SUFFICES ASSUME Inv, NEW d \in Doc, current = d, ~Saving(d), Calm
               PROVE  /\ state[d].path \notin Doc
                      /\ state[d].dirty \/ Editing(d) \/ disk[state[d].path] = content[d]
    BY DEF CleanIsSaved, Calm
  <2>1. /\ NamedOrDirty(state[d])
        /\ state[d].dirty \/ Editing(d) \/ disk[state[d].path] = content[d]
    BY DEF Inv, Tidy, StateFits, InUse
  <2> QED BY <2>1, PlaceFacts DEF NamedOrDirty
<1> QED BY <1>1, DocumentInvariant, PTL

\* The extracted geometry of a document is there as long as it is current, prepared
\* or imported, and no longer (discard_document_open, close), whatever happens.
THEOREM GeometryIsKept == Spec => []ExtractedWhileNeeded
<1>1. Inv => ExtractedWhileNeeded
  BY DEF Inv, General, GeometryFits
<1> QED BY <1>1, DocumentInvariant, PTL

\* A document that is closed or replaced takes no unsaved work with it
\* (close_workspace, commit_document_open), unless one of the six excepted things
\* has happened.
THEOREM WorkIsKeptOnLeaving == Spec => LeavingKeepsWork
<1>1. Inv /\ [Next]_vars =>
        [excused' = {} => \A d \in Doc : current = d /\ current' # d => ~Lost(d)']_vars
  <2> SUFFICES ASSUME Inv, Next, excused' = {}
               PROVE  \A d \in Doc : current = d /\ current' # d => ~Lost(d)'
    OBVIOUS
  <2>1. Keeps /\ excused = {}
    BY StepKeeps, ExcusesStay DEF Inv
  <2>2. Tidy /\ WorkFits
    BY <2>1 DEF Inv, Calm
  <2> QED BY <2>1, <2>2 DEF Keeps, Leaving
<1> QED BY <1>1, DocumentInvariant, PTL DEF Spec, LeavingKeepsWork
=============================================================================
