--------------------------- MODULE TransferInbox ---------------------------
(***************************************************************************)
(* The inbox of a CAM project, with several requests, senders and open     *)
(* sessions: GeometryTransferInbox in project/geometry_transfer.py.        *)
(*                                                                         *)
(* A request is a directory.  Its sender builds it in staging/ and renames *)
(* it to pending/; sessions that have the project open defer, reject or    *)
(* claim it.  Nothing but the renames arbitrates between them: the writing *)
(* session holds the project lock, but sessions that read do not, and      *)
(* ProjectService lets them handle requests too.                           *)
(*                                                                         *)
(* What applying does to the project is in GeometryApply; here it succeeds *)
(* or fails.  A name is its own path: a step on request.json finds no file *)
(* when the directory has been renamed.                                    *)
(***************************************************************************)
EXTENDS Naturals

CONSTANTS
    Sender,   \* applications that send documents
    Session,  \* applications that read the project or have it open
    Request,  \* request ids
    MaxCalls, \* bound on the number of calls that handle a request
    Doc,      \* documents with a geometry; the same Doc makes requests equivalent
    Nothing   \* no request, no document

ASSUME MaxCallsAssumption == MaxCalls \in Nat
ASSUME NothingAssumption == Nothing \notin Request \cup Doc

VARIABLES
    place,   \* the directory of inbox and name that each request is in
    status,  \* in request.json
    sums,    \* the status that checksums.json is about
    doc,     \* what is sent
    send,    \* where the call of each sender is
    writer,  \* the session that has the project open for writing, or Nothing
    opened,  \* it has recovered interrupted requests, and the project is open
    call,    \* where the call of each session is
    calls,   \* number of calls that have handled a request
    told,    \* history: the decisions on a request that a user was told of
    torn,    \* history: requests of which a change was cut short or mixed up
    raced    \* history: documents of which a sender missed a request

inbox   == <<place, status, sums, doc>>
lock    == <<writer, opened>>
history == <<calls, told, torn, raced>>
vars    == <<inbox, send, lock, call, history>>

\* "new" is before the directory exists, "tmp" staging/*.tmp, "applying"
\* staging/*.applying.
Place == {"new", "tmp", "pending", "applying", "applied", "rejected", "failed", "removed"}

\* "RETURNED" is PENDING with the message of a recovery.
Status == {"PENDING", "RETURNED", "DEFERRED", "APPLYING", "APPLIED", "REJECTED", "FAILED"}
Job    == {"defer", "reject", "claim", "finish", "fail", "return", "complete"}

Idle == [pc |-> "idle", req |-> Nothing, job |-> "claim"]

SendState ==
    [pc  : {"idle", "look", "lookStaging", "create", "recheck", "publish"},
     doc : Doc \cup {Nothing}, req : Request \cup {Nothing}]

CallState ==
    [pc  : {"idle", "rename", "metadata", "checksums", "check", "move", "apply"},
     req : Request \cup {Nothing}, job : Job]

TypeOK ==
    /\ place \in [Request -> Place]
    /\ status \in [Request -> Status \cup {"none"}] /\ sums \in [Request -> Status \cup {"none"}]
    /\ doc \in [Request -> Doc \cup {Nothing}]
    /\ send \in [Sender -> SendState]
    /\ writer \in Session \cup {Nothing} /\ opened \in BOOLEAN
    /\ call \in [Session -> CallState]
    /\ told \in [Request -> SUBSET Place]
    /\ calls \in 0 .. MaxCalls
    /\ torn \subseteq Request /\ raced \subseteq Doc

Init ==
    /\ place = [r \in Request |-> "new"]
    /\ status = [r \in Request |-> "none"] /\ sums = status
    /\ doc = [r \in Request |-> Nothing]
    /\ send = [s \in Sender |-> [pc |-> "idle", doc |-> Nothing, req |-> Nothing]]
    /\ writer = Nothing /\ opened = FALSE
    /\ call = [h \in Session |-> Idle]
    /\ told = [r \in Request |-> {}] /\ calls = 0 /\ torn = {} /\ raced = {}

\* validate_request_directory.
Valid(r) == status[r] # "none" /\ sums[r] = status[r]

Waiting == {"PENDING", "RETURNED", "DEFERRED"}

\* scan().
Shown(r) == place[r] = "pending" /\ Valid(r) /\ status[r] \in Waiting

-----------------------------------------------------------------------------
(* send()                                                                  *)

\* inspect_target: no request is being applied.
TargetIsValid == \A r \in Request : place[r] # "applying"

GoSend(s, from, to) ==
    /\ send[s].pc = from
    /\ send' = [send EXCEPT ![s].pc = to]

EndSend(s) == send' = [send EXCEPT ![s] = [pc |-> "idle", doc |-> Nothing, req |-> Nothing]]

\* Request bounds the number of sends.
Send(s, d) ==
    /\ send[s].pc = "idle"
    /\ \E r \in Request : place[r] = "new"
    /\ TargetIsValid
    /\ send' = [send EXCEPT ![s] = [pc |-> "look", doc |-> d, req |-> Nothing]]
    /\ UNCHANGED <<inbox, lock, call, history>>

Equivalent(s) == {r \in Request : doc[r] = send[s].doc}

\* History: an equivalent request is there, but is just being changed.
Overlooks(s, dir) ==
    raced' = IF \E r \in Equivalent(s) : place[r] = dir /\ ~Valid(r)
               THEN raced \cup {send[s].doc} ELSE raced

Look(s, from, to, dir, found) ==
    /\ send[s].pc = from
    /\ IF found THEN EndSend(s) ELSE GoSend(s, from, to)
    /\ Overlooks(s, dir)
    /\ UNCHANGED <<inbox, lock, call, calls, told, torn>>

\* Mutant: a deferred request is not looked at.
LookPendingNew(s) ==
    Look(s, "look", "lookStaging", "pending",
         \E r \in Equivalent(s) : Shown(r) /\ status[r] # "DEFERRED")

\* find_equivalent: scan(), then the requests that are being applied.
LookPending(s) ==
    Look(s, "look", "lookStaging", "pending", \E r \in Equivalent(s) : Shown(r))

LookStaging(s) ==
    Look(s, "lookStaging", "create", "applying",
         \E r \in Equivalent(s) : place[r] = "applying" /\ Valid(r))

\* staging.mkdir(), the copy of the geometry, request.json, checksums.json:
\* nobody looks at the directory before it is renamed.
Create(s, r) ==
    /\ send[s].pc = "create"
    /\ place[r] = "new"
    /\ place' = [place EXCEPT ![r] = "tmp"]
    /\ status' = [status EXCEPT ![r] = "PENDING"]
    /\ sums' = [sums EXCEPT ![r] = "PENDING"]
    /\ doc' = [doc EXCEPT ![r] = send[s].doc]
    /\ send' = [send EXCEPT ![s].pc = "recheck", ![s].req = r]
    /\ UNCHANGED <<lock, call, history>>

\* The second inspect_target.
Recheck(s) ==
    /\ GoSend(s, "recheck", "publish")
    /\ Valid(send[s].req) /\ TargetIsValid
    /\ UNCHANGED <<inbox, lock, call, history>>

\* os.replace(staging, pending).  History: other senders of the document
\* have looked already.
Publish(s) ==
    /\ send[s].pc = "publish"
    /\ place' = [place EXCEPT ![send[s].req] = "pending"]
    /\ raced' = IF \E t \in Sender \ {s} : send[t].doc = send[s].doc /\ send[t].pc # "look"
                  THEN raced \cup {send[s].doc} ELSE raced
    /\ EndSend(s)
    /\ UNCHANGED <<status, sums, doc, lock, call, calls, told, torn>>

\* Something raises, or the source changes meanwhile: the directory is
\* removed.  It stays when the application dies.
SendFails(s) ==
    /\ send[s].pc # "idle"
    /\ \/ /\ send[s].req # Nothing
          /\ place' = [place EXCEPT ![send[s].req] = "removed"]
       \/ UNCHANGED place
    /\ EndSend(s)
    /\ UNCHANGED <<status, sums, doc, lock, call, history>>

-----------------------------------------------------------------------------
(* _update_request_status and the renames of the sessions                  *)

NewStatus == [claim |-> "APPLYING", defer |-> "DEFERRED", reject |-> "REJECTED",
              finish |-> "APPLIED", fail |-> "FAILED", return |-> "RETURNED",
              complete |-> "APPLIED"]

\* The path that the call has, and where the request goes in the end.
Path == [claim |-> "applying", defer |-> "pending", reject |-> "pending",
         finish |-> "applying", fail |-> "applying", return |-> "applying",
         complete |-> "applying"]

\* Mutant: reject() leaves the request where it is.
DestMarked == [claim |-> "applying", defer |-> "pending", reject |-> "pending",
               finish |-> "applied", fail |-> "failed", return |-> "pending",
               complete |-> "applied"]

Dest == [claim |-> "applying", defer |-> "pending", reject |-> "rejected",
         finish |-> "applied", fail |-> "failed", return |-> "pending",
         complete |-> "applied"]

Go(h, pc) == call' = [call EXCEPT ![h].pc = pc]

Begin(h, r, job) ==
    call' = [call EXCEPT ![h] = [pc |-> IF job = "claim" THEN "rename" ELSE "metadata",
                                 req |-> r, job |-> job]]

\* The directory still has the name that the call knows.
At(h, pc) == call[h].pc = pc /\ place[call[h].req] = Path[call[h].job]

Changing == {"checksums", "check", "move"}

\* History: another session is in the middle of changing the request.
Mixes(h) ==
    torn' = IF \E g \in Session \ {h} : call[g].req = call[h].req /\ call[g].pc \in Changing
              THEN torn \cup {call[h].req} ELSE torn

\* Mutant: the name of the change is stored, not the status it leads to.
PutMetadataByJob(h) ==
    /\ At(h, "metadata")
    /\ status' = [status EXCEPT ![call[h].req] = call[h].job]
    /\ Mixes(h)
    /\ Go(h, "checksums")
    /\ UNCHANGED <<place, sums, doc, send, lock, calls, told, raced>>

PutMetadata(h) ==
    /\ At(h, "metadata")
    /\ status' = [status EXCEPT ![call[h].req] = NewStatus[call[h].job]]
    /\ Mixes(h)
    /\ Go(h, "checksums")
    /\ UNCHANGED <<place, sums, doc, send, lock, calls, told, raced>>

PutChecksums(h) ==
    /\ At(h, "checksums")
    /\ sums' = [sums EXCEPT ![call[h].req] = NewStatus[call[h].job]]
    /\ Go(h, "check")
    /\ UNCHANGED <<place, status, doc, send, lock, history>>

\* The directory is validated again, whatever its status is by now.
Check(h) ==
    /\ At(h, "check") /\ Valid(call[h].req)
    /\ call' = [call EXCEPT ![h] =
          CASE call[h].job = "claim" -> [@ EXCEPT !.pc = "apply"]
            [] call[h].job = "defer" -> Idle
            [] OTHER                 -> [@ EXCEPT !.pc = "move"]]
    /\ UNCHANGED <<inbox, send, lock, history>>

\* Mutant: it is no error when the directory is gone.
MoveIfThere(h) ==
    LET r == call[h].req  job == call[h].job IN
    /\ call[h].pc = "move"
    /\ place' = IF place[r] = Path[job] THEN [place EXCEPT ![r] = Dest[job]] ELSE place
    /\ told' = [told EXCEPT ![r] = @ \cup ({Dest[job]} \ {"pending"})]
    /\ call' = [call EXCEPT ![h] = Idle]
    /\ UNCHANGED <<status, sums, doc, send, lock, calls, torn, raced>>

Move(h) ==
    LET r == call[h].req  job == call[h].job IN
    /\ At(h, "move")
    /\ place' = [place EXCEPT ![r] = Dest[job]]
    /\ told' = [told EXCEPT ![r] = @ \cup ({Dest[job]} \ {"pending"})]
    /\ raced' = raced \cup {d \in Doc : job = "return" /\ d = doc[r]
                              /\ \E s \in Sender : send[s].doc = d /\ send[s].pc = "lookStaging"}
    /\ call' = [call EXCEPT ![h] = Idle]
    /\ UNCHANGED <<status, sums, doc, send, lock, calls, torn>>

\* History: a change has begun and is not carried through.
CutShort(h) == IF call[h].pc \in Changing THEN torn \cup {call[h].req} ELSE torn

\* I/O errors and directories that are not there any more.  A finish that
\* fails is followed by fail_claim, if the directory is there; a recovery
\* that fails leaves the project closed.
CallFails(h) ==
    LET r == call[h].req  job == call[h].job IN
    /\ call[h].pc \in {"rename", "metadata"} \cup Changing
    /\ torn' = CutShort(h)
    /\ CASE job = "finish" /\ place[r] = "applying" -> Begin(h, r, "fail") /\ UNCHANGED lock
         [] job \in {"return", "complete"} -> /\ call' = [call EXCEPT ![h] = Idle]
                                              /\ writer' = Nothing /\ opened' = FALSE
         [] OTHER -> call' = [call EXCEPT ![h] = Idle] /\ UNCHANGED lock
    /\ UNCHANGED <<inbox, send, calls, told, raced>>

-----------------------------------------------------------------------------
(* What sessions do with requests                                          *)

\* The session reads the project, or has it open for writing.
Ready(h) == call[h].pc = "idle" /\ (h = writer => opened)

\* defer(), reject() and claim() validate the directory first.
Choose(h, r, job) ==
    /\ Ready(h)
    /\ Shown(r)
    /\ calls < MaxCalls /\ calls' = calls + 1
    /\ Begin(h, r, job)
    /\ UNCHANGED <<inbox, send, lock, told, torn, raced>>

\* claim(): one of several sessions gets the directory.
Rename(h) ==
    LET r == call[h].req IN
    /\ call[h].pc = "rename"
    /\ place[r] = "pending"
    /\ place' = [place EXCEPT ![r] = "applying"]
    /\ Mixes(h)
    /\ Go(h, "metadata")
    /\ UNCHANGED <<status, sums, doc, send, lock, calls, told, raced>>

\* apply_incoming_geometry after the claim: see GeometryApply.
Apply(h) ==
    /\ call[h].pc = "apply"
    /\ \/ Begin(h, call[h].req, "finish")
       \/ /\ place[call[h].req] = "applying"
          /\ Begin(h, call[h].req, "fail")
       \/ /\ place[call[h].req] # "applying"
          /\ call' = [call EXCEPT ![h] = Idle]
    /\ UNCHANGED <<inbox, send, lock, history>>

-----------------------------------------------------------------------------
(* Opening and closing                                                     *)

\* The project lock is taken; see WorkspaceSessions.
OpenProject(h) ==
    /\ writer = Nothing /\ call[h].pc = "idle"
    /\ writer' = h /\ opened' = FALSE
    /\ UNCHANGED <<inbox, send, call, history>>

\* _recover_incomplete_geometry_transfers: what is being applied was left by
\* a session that ended, or so it is assumed.
Recover(h, r) ==
    /\ writer = h /\ ~opened /\ call[h].pc = "idle"
    /\ place[r] = "applying" /\ Valid(r)
    /\ \E job \in {"return", "complete"} : Begin(h, r, job)
    /\ UNCHANGED <<inbox, send, lock, history>>

Recovered(h) ==
    /\ writer = h /\ ~opened /\ call[h].pc = "idle"
    /\ \A r \in Request : place[r] # "applying"
    /\ opened' = TRUE
    /\ UNCHANGED <<inbox, send, writer, call, history>>

\* The project is closed, the recovery fails or the application dies.
Leave(h) ==
    /\ writer = h \/ call[h].pc # "idle"
    /\ writer' = (IF writer = h THEN Nothing ELSE writer)
    /\ opened' = (opened /\ writer # h)
    /\ call' = [call EXCEPT ![h] = Idle]
    /\ torn' = CutShort(h)
    /\ UNCHANGED <<inbox, send, calls, told, raced>>

Next ==
    \/ \E s \in Sender :
          \/ \E d \in Doc : Send(s, d)
          \/ \E r \in Request : Create(s, r)
          \/ LookPending(s) \/ LookStaging(s)
          \/ Recheck(s) \/ Publish(s) \/ SendFails(s)
    \/ \E h \in Session :
          \/ \E r \in Request : \/ \E job \in {"defer", "reject", "claim"} : Choose(h, r, job)
                                \/ Recover(h, r)
          \/ Rename(h) \/ PutMetadata(h) \/ PutChecksums(h) \/ Check(h) \/ Move(h)
          \/ CallFails(h) \/ Apply(h)
          \/ OpenProject(h) \/ Recovered(h) \/ Leave(h)

Spec == Init /\ [][Next]_vars

-----------------------------------------------------------------------------
(* Properties                                                              *)

Open(r) == Valid(r) /\ (Shown(r) \/ place[r] = "applying")

Handled(r) == \E h \in Session : call[h].req = r

\* A request that has been sent stays in the users' sight until it is
\* decided on: between two calls it is shown, or a recovery can read it.
\* Excepted are changes of its status that are cut short between two of
\* their files, or that two sessions make at once.
WaitingIsShown ==
    \A r \in Request \ torn : ~Handled(r) =>
        /\ place[r] = "pending" => Shown(r)
        /\ place[r] = "applying" => Valid(r)

\* The same geometry is not offered twice: unless two senders look at the
\* same time, or one looks at a request that is just being changed, no two
\* equivalent requests wait or are being applied.
EquivalentOnce ==
    \A q, r \in Request \ torn :
        doc[q] = doc[r] /\ doc[q] \notin raced /\ Open(q) /\ Open(r) => q = r

\* However many sessions handle a request, the rename lets one of them
\* decide: what a user was told about it is where it is, for ever.
AnswersHold == \A r \in Request : told[r] \subseteq {place[r]}
=============================================================================
