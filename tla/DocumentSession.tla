--------------------------- MODULE DocumentSession ---------------------------
(***************************************************************************)
(* Standalone CAD documents: HmsDocumentContainer, the part of             *)
(* ProjectService that holds the current document, and the controllers     *)
(* that open, save, autosave and close it.                                 *)
(*                                                                         *)
(*   - the UI thread asks questions in modal dialogs.  While a dialog is   *)
(*     open the user cannot edit, but its event loop goes on: the autosave *)
(*     timer fires, and the results of other threads are delivered;        *)
(*   - a pool thread runs one operation of the project controller at a     *)
(*     time (Save, Save As, reading a document, opening a project);        *)
(*   - another one runs the autosave: a Save to a recovery file, after     *)
(*     which path and dirty flag are put back;                             *)
(*   - the importer reads the geometry of a document that was opened; the  *)
(*     document becomes the current one when that has succeeded.           *)
(*                                                                         *)
(* No lock protects the state of a document.  "session.state =             *)
(* session.state.with_changes(...)" reads it in one step and stores a      *)
(* changed copy in another, whatever has been stored in between.  The      *)
(* reads with which a Save or an autosave begins are one step.             *)
(*                                                                         *)
(* Documents are numbered in the order in which they are opened, and the   *)
(* recovery file of a session has the number of its document.  Contents    *)
(* are numbers: 0 is what was opened, every edit makes a new one.          *)
(***************************************************************************)
EXTENDS Naturals

CONSTANTS
    File,      \* the user's .HMS files
    MaxOpens,  \* bound on the number of documents opened
    MaxEdits,  \* bound on the number of edits
    MaxSaves,  \* bound on the number of Saves, in either thread
    MaxAutos,  \* bound on the number of autosaves
    None       \* no file, no document

Doc     == 1 .. MaxOpens
Place   == File \cup Doc
Content == 0 .. MaxEdits

ASSUME BoundsAssumption == {MaxOpens, MaxEdits, MaxSaves, MaxAutos} \subseteq Nat
ASSUME FileAssumption == File \cap Nat = {} /\ None \notin File \cup Nat

VARIABLES
    state,      \* WorkspaceState of each document: path, dirty, readOnly
    content,    \* what the user sees of each document
    geometry,   \* where the geometry of a document is
    current,    \* ProjectService._current_document
    disk,       \* what is in the files
    thread,     \* what each thread is doing
    importing,  \* the document whose geometry is imported
    used,       \* counts documents, edits, Saves and autosaves
    agreed,     \* history: contents that the user agreed to discard
    excused     \* history: what has happened that loses work

docs    == <<state, content, geometry>>
history == <<agreed, excused>>
vars    == <<docs, current, disk, thread, importing, used, history>>

\* "event" is the UI thread in the handler of a result, which may be delivered
\* while a dialog is open.
Thread == {"ui", "event", "task", "autosave"}

State == [path : Place \cup {None}, dirty : BOOLEAN, readOnly : BOOLEAN]

\* What a question, or an operation, is asked for.
Purpose == {"close", "source", "project", "stay"} \cup File

NoState == [path |-> None, dirty |-> FALSE, readOnly |-> FALSE]

\* "was" is the state before a Save, "took" the content that is written, "read"
\* the state of which a changed copy will be stored.
Idle == [pc |-> "idle", for |-> "stay", doc |-> None, to |-> None,
         was |-> NoState, took |-> 0, read |-> NoState]

\* Where a thread is about to read the state, and then to store it.
Reading == [edit |-> "editing", count |-> "counting", renew |-> "renewing", restore |-> "restoring"]

\* Where a thread may be.
Steps == {"idle", "ask", "where", "edit", "editing",
          "mark", "stamp", "build", "replace", "count", "counting", "renew", "renewing", "saved",
          "start", "restore", "restoring",
          "read", "prepared", "activate", "activated", "finished"}

\* What a thread may be doing.
Work ==
    [pc   : Steps,
     for  : Purpose, doc : Doc \cup {None}, to : Place \cup {None},
     was  : State, took : Content, read : State]

Init ==
    /\ state = [d \in Doc |-> NoState]
    /\ content = [d \in Doc |-> 0]
    /\ geometry = [d \in Doc |-> "none"]
    /\ current = None
    /\ disk = [p \in Place |-> 0]
    /\ thread = [t \in Thread |-> Idle]
    /\ importing = None
    /\ used = [opens |-> 0, edits |-> 0, saves |-> 0, autos |-> 0]
    /\ agreed = {} /\ excused = {}

-----------------------------------------------------------------------------

Busy       == thread["task"] # Idle
Autosaving == thread["autosave"] # Idle

\* The user may act; signals and timers are delivered also during dialogs.
EventLoop == thread["ui"].pc \in {"idle", "ask", "where"} /\ thread["event"] = Idle
Free      == thread["ui"] = Idle /\ EventLoop

Go(t, pc) == thread' = [thread EXCEPT ![t].pc = pc]
Use(kind) == used' = [used EXCEPT ![kind] = @ + 1]

Excuse(why, cond) == excused' = IF cond THEN excused \cup {why} ELSE excused

\* HmsDocumentContainer.close: only extracted geometry is removed.
Released(ds) ==
    [d \in Doc |-> IF d \in ds /\ geometry[d] = "extracted" THEN "removed" ELSE geometry[d]]

\* A document is being opened, and the user has been asked about the
\* current one.
Opening == thread["task"].pc \in {"read", "prepared", "activate"} \/ importing # None

-----------------------------------------------------------------------------
(* WorkspaceState.with_changes, of the state of a document.                *)

ReadState(t) ==
    /\ thread[t].pc \in {"edit", "count", "renew", "restore"}
    /\ thread' = [thread EXCEPT ![t].pc = Reading[@], ![t].read = state[thread[t].doc]]
    /\ UNCHANGED <<docs, current, disk, importing, used, history>>

\* What another thread has stored since the state was read is lost.
Store(t, new) ==
    /\ state' = [state EXCEPT ![thread[t].doc] = new]
    /\ Excuse("crossed", state[thread[t].doc] # thread[t].read)
    /\ UNCHANGED <<content, geometry, current, disk, importing, used, agreed>>

-----------------------------------------------------------------------------
(* The view of the current document: stage_cad_view_state.                 *)

Edit ==
    /\ Free
    /\ current # None
    /\ used.edits < MaxEdits /\ Use("edits")
    /\ content' = [content EXCEPT ![current] = used.edits + 1]
    /\ thread' = [thread EXCEPT !["ui"] = [Idle EXCEPT !.pc = "edit", !.doc = current]]
    /\ Excuse("edited", Opening)
    /\ UNCHANGED <<state, geometry, current, disk, importing, agreed>>

\* mark_dirty, when it has read the state.
MarkDirty ==
    /\ thread["ui"].pc = "editing"
    /\ Store("ui", [thread["ui"].read EXCEPT !.dirty = TRUE])
    /\ thread' = [thread EXCEPT !["ui"] = Idle]

-----------------------------------------------------------------------------
(* HmsDocumentContainer.save, in any of the threads.                       *)

SavePc == {"mark", "stamp", "build", "replace", "count", "counting", "renew", "renewing", "saved"}

\* From the first read of the state to the last store.
AutosavePc == {"stamp", "build", "replace", "count", "counting", "restore", "restoring"}

BeginSave(t, d, to) ==
    thread' = [thread EXCEPT ![t] = [@ EXCEPT !.pc = "stamp", !.doc = d, !.to = to,
                                              !.was = state[d], !.read = state[d]]]

\* Save has no target, and is refused for a document that is read-only; the
\* Save that a question leads to has one.
SaveBegins(t) ==
    LET x  == thread[t]
        to == IF x.to = None THEN state[current].path ELSE x.to
    IN
    /\ x.pc = "mark"
    /\ current # None /\ to # None
    /\ x.to = None => ~state[current].readOnly
    /\ BeginSave(t, current, to)
    /\ Excuse("overlap", t = "ui" /\ thread["autosave"].pc \in AutosavePc)
    /\ UNCHANGED <<docs, current, disk, importing, used, agreed>>

\* The state says saved before anything is.
SaveStamp(t) ==
    /\ thread[t].pc = "stamp"
    /\ Store(t, [path |-> thread[t].to, dirty |-> FALSE, readOnly |-> FALSE])
    /\ Go(t, "build")

\* The entries are built from the session as it is now.
SaveBuild(t) ==
    /\ thread[t].pc = "build"
    /\ geometry[thread[t].doc] # "removed"
    /\ thread' = [thread EXCEPT ![t].pc = "replace", ![t].took = content[thread[t].doc]]
    /\ UNCHANGED <<docs, current, disk, importing, used, history>>

SaveReplace(t) ==
    /\ thread[t].pc = "replace"
    /\ disk' = [disk EXCEPT ![thread[t].to] = thread[t].took]
    /\ Excuse("overwritten", \E d \in Doc \ {current} :
                 /\ state[d].path = thread[t].to
                 /\ d \in {importing, thread["task"].doc})
    /\ Go(t, "count")
    /\ UNCHANGED <<docs, current, importing, used, agreed>>

\* The state gets the generation of the container, and in save_document and
\* commit_document_open that of the service.
SaveCounts(t) ==
    /\ thread[t].pc = "counting"
    /\ Store(t, thread[t].read)
    /\ Go(t, IF t = "autosave" THEN "restore" ELSE "renew")

Renew(t) ==
    /\ thread[t].pc = "renewing"
    /\ Store(t, thread[t].read)
    /\ IF t = "event" THEN thread' = [thread EXCEPT ![t] = Idle]
       ELSE Go(t, IF t = "ui" THEN "saved" ELSE "finished")

\* previous_state is put back.
SaveFails(t) ==
    LET x == thread[t] IN
    /\ x.pc \in {"build", "replace"}
    /\ state' = [state EXCEPT ![x.doc] = x.was]
    /\ Excuse("failed", state[x.doc].dirty /\ ~x.was.dirty)
    /\ IF t = "ui" THEN thread' = [thread EXCEPT ![t] = Idle]
       ELSE Go(t, IF t = "autosave" THEN "restore" ELSE "finished")
    /\ UNCHANGED <<content, geometry, current, disk, importing, used, agreed>>

\* No document, no file name, read-only, or the folder is missing.
SaveRefused(t) ==
    /\ thread[t].pc = "mark"
    /\ IF t = "ui" THEN thread' = [thread EXCEPT ![t] = Idle] ELSE Go(t, "finished")
    /\ UNCHANGED <<docs, current, disk, importing, used, history>>

-----------------------------------------------------------------------------
(* Autosave.                                                               *)

\* request_autosave: the timer.
RequestAutosave ==
    /\ EventLoop
    /\ current # None /\ state[current].dirty
    /\ ~Busy /\ ~Autosaving
    /\ used.autos < MaxAutos /\ Use("autos")
    /\ thread' = [thread EXCEPT !["autosave"] = [Idle EXCEPT !.pc = "start", !.doc = current]]
    /\ UNCHANGED <<docs, current, disk, importing, history>>

\* document_id: a document that was read from a file has the one in the file,
\* which the copies of that file have too.
FromFile(d) == geometry[d] \in {"extracted", "removed"}
MayBeSame(d, e) == d = e \/ (FromFile(d) /\ FromFile(e))

\* The document is another one by now, or is saved.
AutosaveSkips ==
    /\ thread["autosave"].pc = "start"
    /\ thread["autosave"].doc = current => ~state[current].dirty
    /\ Go("autosave", "finished")
    /\ UNCHANGED <<docs, current, disk, importing, used, history>>

AutosaveBegins ==
    /\ thread["autosave"].pc = "start"
    /\ current # None /\ MayBeSame(thread["autosave"].doc, current)
    /\ state[current].dirty
    /\ BeginSave("autosave", current, current)
    /\ Excuse("overlap", thread["ui"].pc \in SavePc)
    /\ UNCHANGED <<docs, current, disk, importing, used, agreed>>

\* Mutant: only the dirty flag is put back.
RestoreDirty ==
    /\ thread["autosave"].pc = "restoring"
    /\ Store("autosave", [thread["autosave"].read EXCEPT !.dirty = thread["autosave"].was.dirty])
    /\ Go("autosave", "finished")

\* Path and dirty flag are put back, the read-only flag is not.
AutosaveRestore ==
    LET x == thread["autosave"] IN
    /\ x.pc = "restoring"
    /\ Store("autosave", [x.read EXCEPT !.path = x.was.path, !.dirty = x.was.dirty])
    /\ Go("autosave", "finished")

-----------------------------------------------------------------------------
(* ProjectUiController: what the user asks for.                            *)

\* close_workspace; the running import is abandoned.
CloseNow ==
    /\ geometry' = Released({current, importing})
    /\ current' = None /\ importing' = None
    /\ thread' = [thread EXCEPT !["ui"] = Idle]

\* _start_operation: nothing happens when another one, or an autosave, is
\* running.
Start(what, to) ==
    thread' = [thread EXCEPT !["ui"] = Idle,
        !["task"] = IF Busy \/ Autosaving THEN @ ELSE [Idle EXCEPT !.pc = what, !.to = to]]

Proceed(for) ==
    CASE for = "close"   -> CloseNow
      [] for = "project" -> Start("activate", None) /\ UNCHANGED <<geometry, current, importing>>
      [] for = "source"  -> Start("read", None) /\ UNCHANGED <<geometry, current, importing>>
      [] OTHER           -> Start("read", for) /\ UNCHANGED <<geometry, current, importing>>

\* Mutant: Close does not look at a running autosave.
MayStartNow == Free /\ ~Busy

MayStart == Free /\ ~Busy /\ ~Autosaving

\* Close, Open, New: the user is asked when the current document is dirty.
Ask(for) ==
    /\ MayStart
    /\ for = "close" => current # None
    /\ IF current # None /\ state[current].dirty
         THEN /\ thread' = [thread EXCEPT !["ui"] = [Idle EXCEPT !.pc = "ask", !.for = for,
                                                                !.doc = current]]
              /\ UNCHANGED <<geometry, current, importing>>
         ELSE Proceed(for)
    /\ UNCHANGED <<state, content, disk, used, history>>

\* A recent project, or a project from the document: nobody is asked.
StartUnasked ==
    /\ MayStart
    /\ Proceed("project")
    /\ Excuse("unasked", current # None /\ state[current].dirty)
    /\ UNCHANGED <<state, content, disk, used, agreed>>

\* Escape, or Cancel.
Cancel ==
    /\ EventLoop /\ thread["ui"].pc \in {"ask", "where"}
    /\ thread' = [thread EXCEPT !["ui"] = Idle]
    /\ UNCHANGED <<docs, current, disk, importing, used, history>>

AnswerDiscard ==
    /\ EventLoop /\ thread["ui"].pc = "ask"
    /\ agreed' = agreed \cup {content[thread["ui"].doc]}
    /\ Proceed(thread["ui"].for)
    /\ UNCHANGED <<state, content, disk, used, excused>>

\* _save_current_for_lifecycle: the path is looked up when the answer is
\* given, also while an autosave has put another one there.
AnswerSave ==
    LET to == IF current = None THEN None ELSE state[current].path IN
    /\ EventLoop /\ thread["ui"].pc = "ask"
    /\ current # None
    /\ used.saves < MaxSaves /\ Use("saves")
    /\ thread' = [thread EXCEPT !["ui"].to = to, !["ui"].pc = IF to = None THEN "where" ELSE "mark"]
    /\ Excuse("overlap", thread["autosave"].pc \in AutosavePc)
    /\ UNCHANGED <<docs, current, disk, importing, agreed>>

\* Save, and Save As, which asks for a file.
Save ==
    /\ Free /\ ~Busy /\ ~Autosaving
    /\ current # None
    /\ used.saves < MaxSaves /\ Use("saves")
    /\ \/ /\ state[current].path # None
          /\ Start("mark", None)
       \/ thread' = [thread EXCEPT !["ui"] = [Idle EXCEPT !.pc = "where", !.for = "stay"]]
    /\ UNCHANGED <<docs, current, disk, importing, history>>

ChooseFile(f) ==
    /\ EventLoop /\ thread["ui"].pc = "where"
    /\ IF thread["ui"].for = "stay" THEN Start("mark", f)
       ELSE thread' = [thread EXCEPT !["ui"].pc = "mark", !["ui"].to = f]
    /\ UNCHANGED <<docs, current, disk, importing, used, history>>

\* The UI thread goes on after the Save that a question has led to.
Continue ==
    /\ thread["ui"].pc = "saved"
    /\ Proceed(thread["ui"].for)
    /\ UNCHANGED <<state, content, disk, used, history>>

-----------------------------------------------------------------------------
(* The other operations of the pool thread.                                *)

NextDoc == used.opens + 1

\* prepare_container and prepare_source: a document from a file is clean,
\* one that was imported has no file.
Read ==
    LET from == thread["task"].to IN
    /\ thread["task"].pc = "read"
    /\ used.opens < MaxOpens /\ Use("opens")
    /\ \E ro \in BOOLEAN :
          /\ from = None => ~ro
          /\ state' = [state EXCEPT ![NextDoc] =
                [path |-> from, dirty |-> from = None, readOnly |-> ro]]
    /\ content' = [content EXCEPT ![NextDoc] = IF from = None THEN 0 ELSE disk[from]]
    /\ geometry' = [geometry EXCEPT ![NextDoc] = IF from = None THEN "source" ELSE "extracted"]
    /\ thread' = [thread EXCEPT !["task"].pc = "prepared", !["task"].doc = NextDoc]
    /\ UNCHANGED <<current, disk, importing, history>>

\* _activate: the project becomes current, and the document is closed.
ActivateProject ==
    /\ thread["task"].pc = "activate"
    /\ current' = None
    /\ geometry' = Released({current})
    /\ Go("task", "activated")
    /\ UNCHANGED <<state, content, disk, importing, used, history>>

\* The document or project cannot be read.
OperationFails ==
    /\ thread["task"].pc \in {"read", "activate"}
    /\ Go("task", "finished")
    /\ UNCHANGED <<docs, current, disk, importing, used, history>>

-----------------------------------------------------------------------------
(* Results that are delivered to the UI thread.                            *)

\* Mutant: the import is known by the file it reads.
ImportStartsByFile ==
    /\ EventLoop
    /\ thread["task"].pc = "prepared"
    /\ importing' = thread["task"].to
    /\ geometry' = Released({importing})
    /\ thread' = [thread EXCEPT !["task"] = Idle]
    /\ UNCHANGED <<state, content, current, disk, used, history>>

\* The import of the prepared document starts; one that is running is
\* abandoned.
ImportStarts ==
    /\ EventLoop
    /\ thread["task"].pc = "prepared"
    /\ importing' = thread["task"].doc
    /\ geometry' = Released({importing})
    /\ thread' = [thread EXCEPT !["task"] = Idle]
    /\ UNCHANGED <<state, content, current, disk, used, history>>

\* A project binds the importer to its own geometry.
ProjectBinds ==
    /\ EventLoop
    /\ thread["task"].pc = "activated"
    /\ importing' = None
    /\ geometry' = Released({importing})
    /\ thread' = [thread EXCEPT !["task"] = Idle]
    /\ UNCHANGED <<state, content, current, disk, used, history>>

Finished(t) ==
    /\ EventLoop
    /\ thread[t].pc = "finished"
    /\ thread' = [thread EXCEPT ![t] = Idle]
    /\ UNCHANGED <<docs, current, disk, importing, used, history>>

\* Mutant: the document that is left keeps its extracted geometry.
CommitOpenOnly ==
    /\ EventLoop
    /\ importing # None
    /\ current' = importing /\ importing' = None
    /\ thread' = [thread EXCEPT !["event"] = [Idle EXCEPT !.pc = "renew", !.doc = importing]]
    /\ UNCHANGED <<docs, disk, used, history>>

\* commit_document_open.  The document is the current one before its state gets
\* the new generation.
CommitOpen ==
    /\ EventLoop
    /\ importing # None
    /\ current' = importing /\ importing' = None
    /\ geometry' = Released({current})
    /\ thread' = [thread EXCEPT !["event"] = [Idle EXCEPT !.pc = "renew", !.doc = importing]]
    /\ UNCHANGED <<state, content, disk, used, history>>

\* It fails or is cancelled: discard_document_open.
ImportFails ==
    /\ EventLoop
    /\ importing # None
    /\ importing' = None
    /\ geometry' = Released({importing})
    /\ UNCHANGED <<state, content, current, disk, thread, used, history>>

-----------------------------------------------------------------------------

UserStep ==
    \/ Edit \/ Save \/ StartUnasked
    \/ \E for \in Purpose \ {"stay"} : Ask(for)
    \/ Cancel \/ AnswerDiscard \/ AnswerSave
    \/ \E f \in File : ChooseFile(f)

ThreadStep ==
    \/ MarkDirty
    \/ \E t \in {"ui", "task"} : SaveBegins(t) \/ SaveRefused(t)
    \/ \E t \in Thread \ {"event"} :
          SaveStamp(t) \/ SaveBuild(t) \/ SaveReplace(t) \/ SaveFails(t) \/ SaveCounts(t)
    \/ \E t \in Thread : ReadState(t) \/ Renew(t)
    \/ AutosaveSkips \/ AutosaveBegins \/ AutosaveRestore
    \/ Read \/ ActivateProject \/ OperationFails
    \/ Continue

Event ==
    \/ RequestAutosave
    \/ ImportStarts \/ ProjectBinds \/ CommitOpen \/ ImportFails
    \/ \E t \in {"task", "autosave"} : Finished(t)

Next == UserStep \/ ThreadStep \/ Event

Spec == Init /\ [][Next]_vars

-----------------------------------------------------------------------------
(* Properties.                                                             *)

Excuses == {"crossed", "edited", "overlap", "overwritten", "failed", "unasked"}

\* Every variable has its type.
TypeOK ==
    /\ state \in [Doc -> State]
    /\ content \in [Doc -> Content]
    /\ geometry \in [Doc -> {"none", "source", "extracted", "removed"}]
    /\ {current, importing} \subseteq Doc \cup {None}
    /\ disk \in [Place -> Content]
    /\ thread \in [Thread -> Work]
    /\ used \in [opens : 0 .. MaxOpens, edits : 0 .. MaxEdits, saves : 0 .. MaxSaves,
                 autos : 0 .. MaxAutos]
    /\ agreed \subseteq Content /\ excused \subseteq Excuses

\* Work that somebody did, and that is in none of the user's files and was
\* not given up.
Lost(d) ==
    /\ content[d] # 0 /\ content[d] \notin agreed
    /\ \A f \in File : disk[f] # content[d]

\* A document that is closed or replaced takes no work with it that the user
\* has not saved or agreed to discard, whatever the autosave and the importer
\* do meanwhile (close_workspace, commit_document_open).  Excepted are: a
\* recent project opened over a document; edits made while another document
\* is being opened; an answer "Save" during an autosave, which goes to the
\* recovery file; a Save that fails after an edit, which forgets that edit;
\* a file that is saved while it is being opened; and a state that another
\* thread has stored between the read and the store of a copy of it, which
\* forgets what that thread has stored.
LeavingKeepsWork ==
    [][ excused' = {} => \A d \in Doc : current = d /\ current' # d => ~Lost(d)' ]_vars

\* While a document is saved its state says what is not yet true, and during
\* an autosave what never will be.
Ahead(t) == IF t = "autosave" THEN AutosavePc ELSE {"stamp", "build", "replace"}

Saving(d)  == \E t \in Thread : thread[t].doc = d /\ thread[t].pc \in Ahead(t)
Editing(d) == thread["ui"].doc = d /\ thread["ui"].pc \in {"edit", "editing"}

\* A document that is not marked as edited is in its file as the user sees
\* it, and an autosave is not visible in its state: the path is never that
\* of the recovery file (HmsDocumentContainer.save and autosave, mark_dirty).
\* Excepted is what four of the accidents above leave.
CleanIsSaved ==
    \A d \in Doc :
        current = d /\ ~Saving(d)
          /\ excused \cap {"crossed", "overlap", "overwritten", "failed"} = {} =>
            /\ state[d].path \notin Doc
            /\ state[d].dirty \/ Editing(d) \/ disk[state[d].path] = content[d]

\* The extracted geometry of a document is there as long as it is current,
\* prepared or imported, and no longer (discard_document_open, close).
ExtractedWhileNeeded ==
    \A d \in Doc :
        geometry[d] # "none" =>
            /\ d \in {current, importing} => geometry[d] # "removed"
            /\ geometry[d] = "extracted" =>
                  \/ d \in {current, importing}
                  \/ thread["task"].pc = "prepared" /\ thread["task"].doc = d
=============================================================================
