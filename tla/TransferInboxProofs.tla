------------------------ MODULE TransferInboxProofs ------------------------
(***************************************************************************)
(* Proofs about TransferInbox for every number of senders, sessions,       *)
(* requests and documents.                                                 *)
(***************************************************************************)
EXTENDS TransferInbox, TLAPS

(* A sender has its request to itself until it publishes it.               *)

Sends(s) == send[s].pc \in {"recheck", "publish"}

SenderHasRequest ==
    \A s \in Sender :
        /\ send[s].pc # "idle" => send[s].doc \in Doc
        /\ Sends(s) <=> send[s].req # Nothing
        /\ Sends(s) => /\ place[send[s].req] = "tmp"
                       /\ doc[send[s].req] = send[s].doc
        /\ \A t \in Sender \ {s} : Sends(s) => send[t].req # send[s].req

RequestIsMade ==
    \A r \in Request :
        /\ place[r] # "new" => doc[r] \in Doc
        /\ place[r] = "tmp" => status[r] = "PENDING" /\ sums[r] = "PENDING"

(* What the job of a call may be.                                          *)
CallHasJob ==
    \A h \in Session :
        /\ call[h].pc # "idle" => call[h].req \in Request
        /\ call[h].pc = "rename" => call[h].job = "claim"
        /\ call[h].pc = "move" => call[h].job \notin {"claim", "defer"}

(* Whatever a user is told is final.                                       *)
AnswerIsFinal ==
    \A r \in Request : told[r] \subseteq {place[r]} \cap {"applied", "rejected", "failed"}

(* Unless it is torn, one session at a time changes a request, and what it *)
(* has not written yet is all that is inconsistent.                        *)

Changes(h, r) == call[h].req = r /\ call[h].pc \in Changing

ChangeIsAlone(r) == \A g, h \in Session : Changes(g, r) /\ Changes(h, r) => g = h

ChangeIsWritten(r) ==
    \A h \in Session : Changes(h, r) =>
        /\ place[r] = Path[call[h].job]
        /\ status[r] = NewStatus[call[h].job]
        /\ call[h].pc \in {"check", "move"} => sums[r] = NewStatus[call[h].job]

RestIsReadable(r) ==
    (\A h \in Session : ~Changes(h, r)) =>
        /\ place[r] = "pending" => Shown(r)
        /\ place[r] = "applying" => Valid(r)

Orderly(r) == ChangeIsAlone(r) /\ ChangeIsWritten(r) /\ RestIsReadable(r)

(* A request that waits, is being claimed or applied; a sender of the same *)
(* document that has looked knows that there is none.                      *)

Live(r) == place[r] = "applying" \/ (place[r] = "pending" /\ status[r] # "REJECTED")

LiveOnce ==
    \A q, r \in Request \ torn :
        doc[q] = doc[r] /\ doc[q] \notin raced /\ Live(q) /\ Live(r) => q = r

Looked(s, r) ==
    /\ send[s].pc = "lookStaging" => place[r] # "pending"
    /\ send[s].pc \notin {"create", "recheck", "publish"}

SenderHasLooked ==
    \A s \in Sender, r \in Request \ torn :
        doc[r] = send[s].doc /\ doc[r] \notin raced /\ Live(r) => Looked(s, r)

Inv ==
    /\ TypeOK
    /\ SenderHasRequest
    /\ RequestIsMade
    /\ CallHasJob
    /\ AnswerIsFinal
    /\ \A r \in Request \ torn : Orderly(r)
    /\ LiveOnce
    /\ SenderHasLooked

----------------------------------------------------------------------------
(* The jobs that a call may have.                                          *)

\* What each job does to a request: status, place to start from and to end in.
LEMMA Jobs ==
    \A job \in Job :
        /\ NewStatus[job] \in Status
        /\ Path[job] \in {"pending", "applying"}
        /\ Path[job] = "pending" <=> job \in {"defer", "reject"}
        /\ Path[job] = "pending" /\ NewStatus[job] # "REJECTED" => NewStatus[job] \in Waiting
        /\ job \notin {"claim", "defer"} =>
              Dest[job] = "pending" \/ Dest[job] \in {"applied", "rejected", "failed"}
        /\ Dest[job] = "pending" /\ job # "defer" => NewStatus[job] = "RETURNED" /\ job = "return"
        /\ Dest[job] \in Place
BY DEF Job, NewStatus, Path, Dest, Status, Waiting, Place

\* The types hold initially.
LEMMA TypeInit == Init => TypeOK
<1> SUFFICES ASSUME Init PROVE TypeOK
  OBVIOUS
<1>1. /\ send \in [Sender -> SendState]
      /\ call \in [Session -> CallState]
  BY DEF Init, Idle, Job, SendState, CallState
<1>2. place \in [Request -> Place] /\ calls \in 0 .. MaxCalls
  BY MaxCallsAssumption DEF Init, Place
<1>3. status \in [Request -> Status \cup {"none"}] /\ sums \in [Request -> Status \cup {"none"}]
  BY DEF Init
<1>4. /\ doc \in [Request -> Doc \cup {Nothing}] /\ told \in [Request -> SUBSET Place]
      /\ writer \in Session \cup {Nothing} /\ opened \in BOOLEAN
      /\ torn \subseteq Request /\ raced \subseteq Doc
  BY DEF Init
<1> QED
  BY <1>1, <1>2, <1>3, <1>4 DEF TypeOK

\* Every step keeps the types.
LEMMA TypeStep == TypeOK /\ SenderHasRequest /\ CallHasJob /\ [Next]_vars => TypeOK'
<1> SUFFICES ASSUME TypeOK, SenderHasRequest, CallHasJob, [Next]_vars PROVE TypeOK'
  OBVIOUS
<1> USE DEF TypeOK, SendState, CallState
<1>1. ASSUME NEW s \in Sender, NEW d \in Doc, Send(s, d) PROVE TypeOK'
  BY <1>1 DEF Send, inbox, lock, history
<1>2. ASSUME NEW s \in Sender, LookPending(s) \/ LookStaging(s) PROVE TypeOK'
  <2>1. send' \in [Sender -> SendState]
    BY <1>2 DEF LookPending, LookStaging, Look, EndSend, GoSend
  <2>2. raced' \subseteq Doc
    BY <1>2 DEF LookPending, LookStaging, Look, Overlooks, SenderHasRequest
  <2> QED
    BY <1>2, <2>1, <2>2 DEF LookPending, LookStaging, Look, inbox, lock
<1>3. ASSUME NEW s \in Sender, NEW r \in Request, Create(s, r) PROVE TypeOK'
  <2>1. /\ send' \in [Sender -> SendState]
        /\ place' \in [Request -> Place] /\ doc' \in [Request -> Doc \cup {Nothing}]
    <3>1. place' \in [Request -> Place]
      BY <1>3 DEF Create, Place
    <3>2. doc' \in [Request -> Doc \cup {Nothing}]
      BY <1>3 DEF Create
    <3>3. send' = [send EXCEPT ![s] = [send[s] EXCEPT !.pc = "recheck", !.req = r]]
      BY <1>3 DEF Create
    <3>4. [send[s] EXCEPT !.pc = "recheck", !.req = r] \in SendState
      <4>1. send[s] \in SendState
        OBVIOUS
      <4>2. [send[s] EXCEPT !.pc = "recheck"] \in SendState
        BY <4>1
      <4> QED
        BY <4>2
    <3> QED
      BY <3>1, <3>2, <3>3, <3>4
  <2>2. /\ status' \in [Request -> Status \cup {"none"}]
        /\ sums' \in [Request -> Status \cup {"none"}]
    BY <1>3 DEF Create, Status
  <2> QED
    BY <1>3, <2>1, <2>2 DEF Create, lock, history
<1>4. ASSUME NEW s \in Sender, Recheck(s) PROVE TypeOK'
  BY <1>4 DEF Recheck, GoSend, inbox, lock, history
<1>5. ASSUME NEW s \in Sender, Publish(s) PROVE TypeOK'
  <2>1. raced' \subseteq Doc
    BY <1>5 DEF Publish, SenderHasRequest
  <2> QED
    BY <1>5, <2>1 DEF Publish, EndSend, lock, Place
<1>6. ASSUME NEW s \in Sender, SendFails(s) PROVE TypeOK'
  BY <1>6 DEF SendFails, EndSend, lock, history, Place
<1>7. ASSUME NEW h \in Session, NEW r \in Request, NEW job \in {"defer", "reject", "claim"},
             Choose(h, r, job)
      PROVE  TypeOK'
  BY <1>7, MaxCallsAssumption DEF Choose, Begin, inbox, lock, Job
<1>8. ASSUME NEW h \in Session, NEW r \in Request, Recover(h, r) PROVE TypeOK'
  BY <1>8 DEF Recover, Begin, inbox, lock, history, Job
<1>9. ASSUME NEW h \in Session, Rename(h) \/ PutMetadata(h) \/ PutChecksums(h) PROVE TypeOK'
  <2>1. call[h].req \in Request /\ NewStatus[call[h].job] \in Status
    BY <1>9, Jobs DEF Rename, PutMetadata, PutChecksums, At, CallHasJob
  <2>2. torn' \subseteq Request
    BY <1>9, <2>1 DEF Rename, PutMetadata, PutChecksums, Mixes, history
  <2>3. CASE Rename(h)
    BY <2>2, <2>3 DEF Rename, Go, lock, Place
  <2>4. CASE PutMetadata(h)
    BY <2>1, <2>2, <2>4 DEF PutMetadata, Go, lock
  <2>5. CASE PutChecksums(h)
    BY <2>1, <2>2, <2>5 DEF PutChecksums, Go, lock, history
  <2> QED
    BY <1>9, <2>3, <2>4, <2>5
<1>10. ASSUME NEW h \in Session, Check(h) PROVE TypeOK'
  <2>1. call' \in [Session -> CallState]
    BY <1>10 DEF Check, Idle, Job
  <2> QED
    BY <1>10, <2>1 DEF Check, inbox, lock, history
<1>11. ASSUME NEW h \in Session, Move(h) PROVE TypeOK'
  <2>1. call[h].job \in Job /\ Dest[call[h].job] \in Place
    BY Jobs
  <2>2. raced' \subseteq Doc
    BY <1>11 DEF Move
  <2> QED
    BY <1>11, <2>1, <2>2 DEF Move, Idle, lock, Job
<1>12. ASSUME NEW h \in Session, CallFails(h) PROVE TypeOK'
  <2>1. torn' \subseteq Request
    BY <1>12 DEF CallFails, CutShort, CallHasJob, Changing
  <2>2. call' \in [Session -> CallState]
    <3>1. \/ Begin(h, call[h].req, "fail")
          \/ call' = [call EXCEPT ![h] = Idle]
      BY <1>12 DEF CallFails
    <3> QED
      BY <3>1 DEF Begin, Idle, Job
  <2>3. writer' \in Session \cup {Nothing} /\ opened' \in BOOLEAN
    BY <1>12 DEF CallFails, lock
  <2> QED
    BY <1>12, <2>1, <2>2, <2>3 DEF CallFails, inbox
<1>13. ASSUME NEW h \in Session, Apply(h) PROVE TypeOK'
  BY <1>13 DEF Apply, Begin, Idle, inbox, lock, history, Job
<1>14. ASSUME NEW h \in Session, OpenProject(h) \/ Recovered(h) PROVE TypeOK'
  BY <1>14 DEF OpenProject, Recovered, inbox, history
<1>15. ASSUME NEW h \in Session, Leave(h) PROVE TypeOK'
  <2>1. torn' \subseteq Request
    BY <1>15 DEF Leave, CutShort, CallHasJob, Changing
  <2> QED
    BY <1>15, <2>1 DEF Leave, Idle, inbox, Job
<1>16. CASE UNCHANGED vars
  BY <1>16 DEF vars, inbox, lock, history
<1> QED
  BY <1>1, <1>2, <1>3, <1>4, <1>5, <1>6, <1>7, <1>8, <1>9, <1>10, <1>11, <1>12,
     <1>13, <1>14, <1>15, <1>16 DEF Next

----------------------------------------------------------------------------
(* What the actions of a session do to the requests: they leave those      *)
(* alone that their senders still have.                                    *)

SessionStep(h) ==
    \/ \E r \in Request : \/ \E job \in {"defer", "reject", "claim"} : Choose(h, r, job)
                          \/ Recover(h, r)
    \/ Rename(h) \/ PutMetadata(h) \/ PutChecksums(h) \/ Check(h) \/ Move(h)
    \/ CallFails(h) \/ Apply(h)
    \/ OpenProject(h) \/ Recovered(h) \/ Leave(h)

\* A session touches no call of a sender and no request that is not published.
LEMMA SessionLeavesSenders ==
    ASSUME TypeOK, CallHasJob, NEW h \in Session, SessionStep(h)
    PROVE  /\ UNCHANGED <<send, doc>>
           /\ \A r \in Request : place[r] \in {"new", "tmp"} =>
                 UNCHANGED <<place[r], status[r], sums[r]>>
           /\ \A r \in Request : place[r] \notin {"new", "tmp"} => place'[r] \notin {"new", "tmp"}
<1> USE DEF TypeOK
<1>1. CASE \E r \in Request : \/ \E job \in {"defer", "reject", "claim"} : Choose(h, r, job)
                              \/ Recover(h, r)
  BY <1>1 DEF Choose, Recover, inbox
<1>2. CASE Rename(h)
  BY <1>2 DEF Rename, CallHasJob
<1>3. ASSUME At(h, "metadata") \/ At(h, "checksums") \/ At(h, "move")
      PROVE  /\ call[h].req \in Request
             /\ place[call[h].req] \notin {"new", "tmp"}
  BY <1>3, Jobs DEF At, CallHasJob, CallState
<1>4. CASE PutMetadata(h)
  BY <1>3, <1>4 DEF PutMetadata
<1>5. CASE PutChecksums(h)
  BY <1>3, <1>5 DEF PutChecksums
<1>6. CASE Move(h)
  <2>1. Dest[call[h].job] \notin {"new", "tmp"}
    BY <1>6, Jobs DEF Move, At, CallHasJob, CallState
  <2> QED
    BY <1>3, <1>6, <2>1 DEF Move
<1>7. CASE Check(h) \/ CallFails(h) \/ Apply(h)
  BY <1>7 DEF Check, CallFails, Apply, inbox
<1>8. CASE OpenProject(h) \/ Recovered(h) \/ Leave(h)
  BY <1>8 DEF OpenProject, Recovered, Leave, inbox
<1> QED
  BY <1>1, <1>2, <1>4, <1>5, <1>6, <1>7, <1>8 DEF SessionStep

\* A step is one of a sender, of a session, or none.
LEMMA NextSplits ==
    [Next]_vars =>
        \/ \E s \in Sender :
              \/ \E d \in Doc : Send(s, d)
              \/ \E r \in Request : Create(s, r)
              \/ LookPending(s) \/ LookStaging(s)
              \/ Recheck(s) \/ Publish(s) \/ SendFails(s)
        \/ \E h \in Session : SessionStep(h)
        \/ UNCHANGED vars
BY DEF Next, SessionStep

----------------------------------------------------------------------------
\* A sender past its first look has a request of its own.
LEMMA SenderStep == TypeOK /\ SenderHasRequest /\ CallHasJob /\ [Next]_vars => SenderHasRequest'
<1> SUFFICES ASSUME TypeOK, SenderHasRequest, CallHasJob, [Next]_vars PROVE SenderHasRequest'
  OBVIOUS
<1> USE DEF TypeOK, SendState, SenderHasRequest, Sends
<1>1. ASSUME NEW s \in Sender, NEW d \in Doc, Send(s, d) PROVE SenderHasRequest'
  BY <1>1 DEF Send, inbox
<1>2. ASSUME NEW s \in Sender, LookPending(s) \/ LookStaging(s) PROVE SenderHasRequest'
  BY <1>2 DEF LookPending, LookStaging, Look, EndSend, GoSend, inbox
<1>3. ASSUME NEW s \in Sender, NEW r \in Request, Create(s, r) PROVE SenderHasRequest'
  <2>1. r # Nothing /\ \A t \in Sender : send[t].req # r
    BY <1>3, NothingAssumption DEF Create
  <2>2. send'[s].pc = "recheck" /\ send'[s].req = r /\ send'[s].doc = send[s].doc
    BY <1>3 DEF Create
  <2>3. \A t \in Sender \ {s} : send'[t] = send[t]
    BY <1>3 DEF Create
  <2>4. /\ place'[r] = "tmp" /\ doc'[r] = send[s].doc
        /\ \A q \in Request \ {r} : place'[q] = place[q] /\ doc'[q] = doc[q]
    BY <1>3 DEF Create
  <2> QED
    BY <1>3, <2>1, <2>2, <2>3, <2>4 DEF Create
<1>4. ASSUME NEW s \in Sender, Recheck(s) PROVE SenderHasRequest'
  BY <1>4 DEF Recheck, GoSend, inbox
<1>5. ASSUME NEW s \in Sender, Publish(s) \/ SendFails(s) PROVE SenderHasRequest'
  <2>1. /\ send'[s] = [pc |-> "idle", doc |-> Nothing, req |-> Nothing]
        /\ \A t \in Sender \ {s} : send'[t] = send[t]
        /\ doc' = doc
        /\ \A r \in Request : r # send[s].req => place'[r] = place[r]
    BY <1>5 DEF Publish, SendFails, EndSend
  <2> QED
    BY <2>1
<1>6. ASSUME NEW h \in Session, SessionStep(h) PROVE SenderHasRequest'
  BY <1>6, SessionLeavesSenders, NothingAssumption
<1>7. CASE UNCHANGED vars
  BY <1>7 DEF vars, inbox
<1> QED
  BY <1>1, <1>2, <1>3, <1>4, <1>5, <1>6, <1>7, NextSplits

----------------------------------------------------------------------------
\* A request that is there has a document, and one that is being sent is whole and PENDING.
LEMMA MadeStep ==
    TypeOK /\ SenderHasRequest /\ RequestIsMade /\ CallHasJob /\ [Next]_vars => RequestIsMade'
<1> SUFFICES ASSUME TypeOK, SenderHasRequest, RequestIsMade, CallHasJob, [Next]_vars
             PROVE  RequestIsMade'
  OBVIOUS
<1> USE DEF TypeOK, RequestIsMade
<1>1. ASSUME NEW s \in Sender, NEW d \in Doc, Send(s, d) PROVE RequestIsMade'
  BY <1>1 DEF Send, inbox
<1>2. ASSUME NEW s \in Sender, LookPending(s) \/ LookStaging(s) \/ Recheck(s)
      PROVE  RequestIsMade'
  BY <1>2 DEF LookPending, LookStaging, Look, Recheck, inbox
<1>3. ASSUME NEW s \in Sender, NEW r \in Request, Create(s, r) PROVE RequestIsMade'
  <2>1. send[s].doc \in Doc
    BY <1>3 DEF Create, SenderHasRequest
  <2> QED
    BY <1>3, <2>1 DEF Create
<1>4. ASSUME NEW s \in Sender, Publish(s) \/ SendFails(s) PROVE RequestIsMade'
  <2>1. send[s].req # Nothing => doc[send[s].req] \in Doc /\ send[s].req \in Request
    BY DEF SenderHasRequest, Sends, SendState
  <2>2. /\ UNCHANGED <<status, sums, doc>>
        /\ \A r \in Request : \/ place'[r] = place[r]
                              \/ place'[r] \in {"pending", "removed"} /\ r = send[s].req
    BY <1>4 DEF Publish, SendFails
  <2> QED
    BY <2>1, <2>2, NothingAssumption
<1>5. ASSUME NEW h \in Session, SessionStep(h) PROVE RequestIsMade'
  BY <1>5, SessionLeavesSenders
<1>6. CASE UNCHANGED vars
  BY <1>6 DEF vars, inbox
<1> QED
  BY <1>1, <1>2, <1>3, <1>4, <1>5, <1>6, NextSplits

----------------------------------------------------------------------------
\* A session in a call has a request and a job that fits its step.
LEMMA CallStep == TypeOK /\ CallHasJob /\ [Next]_vars => CallHasJob'
<1> SUFFICES ASSUME TypeOK, CallHasJob, [Next]_vars PROVE CallHasJob'
  OBVIOUS
<1> USE DEF TypeOK, CallState, CallHasJob
<1>1. ASSUME NEW s \in Sender,
             \/ \E d \in Doc : Send(s, d)
             \/ \E r \in Request : Create(s, r)
             \/ LookPending(s) \/ LookStaging(s)
             \/ Recheck(s) \/ Publish(s) \/ SendFails(s)
      PROVE  UNCHANGED call
  BY <1>1 DEF Send, Create, LookPending, LookStaging, Look, Recheck, Publish, SendFails
<1>2. ASSUME NEW h \in Session, NEW r \in Request, NEW job \in Job, Begin(h, r, job)
      PROVE  CallHasJob'
  BY <1>2 DEF Begin
<1>3. ASSUME NEW h \in Session, call' = [call EXCEPT ![h] = Idle] PROVE CallHasJob'
  BY <1>3 DEF Idle
<1>4. ASSUME NEW h \in Session, NEW r \in Request,
             \/ \E job \in {"defer", "reject", "claim"} : Choose(h, r, job)
             \/ Recover(h, r)
      PROVE  CallHasJob'
  BY <1>2, <1>4 DEF Choose, Recover, Job
<1>5. ASSUME NEW h \in Session, Rename(h) \/ PutMetadata(h) \/ PutChecksums(h)
      PROVE  CallHasJob'
  BY <1>5 DEF Rename, PutMetadata, PutChecksums, At, Go
<1>6. ASSUME NEW h \in Session, Check(h) PROVE CallHasJob'
  <2>1. \/ call' = [call EXCEPT ![h] = Idle]
        \/ call' = [call EXCEPT ![h].pc = "apply"]
        \/ call' = [call EXCEPT ![h].pc = "move"] /\ call[h].job \notin {"claim", "defer"}
    BY <1>6 DEF Check
  <2>2. call[h].req \in Request
    BY <1>6 DEF Check, At
  <2> QED
    BY <1>3, <2>1, <2>2
<1>7. ASSUME NEW h \in Session, Move(h) \/ Leave(h) PROVE CallHasJob'
  BY <1>3, <1>7 DEF Move, Leave
<1>8. ASSUME NEW h \in Session, CallFails(h) PROVE CallHasJob'
  <2>1. call[h].req \in Request
    BY <1>8 DEF CallFails, Changing
  <2> QED
    BY <1>2, <1>3, <1>8, <2>1 DEF CallFails, Job
<1>9. ASSUME NEW h \in Session, Apply(h) PROVE CallHasJob'
  <2>1. call[h].req \in Request
    BY <1>9 DEF Apply
  <2> QED
    BY <1>2, <1>3, <1>9, <2>1 DEF Apply, Job
<1>10. ASSUME NEW h \in Session, OpenProject(h) \/ Recovered(h) PROVE UNCHANGED call
  BY <1>10 DEF OpenProject, Recovered
<1>11. CASE UNCHANGED vars
  BY <1>11 DEF vars
<1> QED
  BY <1>1, <1>4, <1>5, <1>6, <1>7, <1>8, <1>9, <1>10, <1>11 DEF Next

----------------------------------------------------------------------------
(* A user is told of nothing but what the rename has just made final, and  *)
(* a request whose fate is final is renamed no more.                       *)

\* No step moves a request away from where a user was told it is.
LEMMA AnswerStep ==
    TypeOK /\ SenderHasRequest /\ CallHasJob /\ AnswerIsFinal /\ [Next]_vars => AnswerIsFinal'
<1> SUFFICES ASSUME TypeOK, SenderHasRequest, CallHasJob, AnswerIsFinal, [Next]_vars
             PROVE  AnswerIsFinal'
  OBVIOUS
<1> USE DEF TypeOK, AnswerIsFinal
<1>1. ASSUME NEW r \in Request, place[r] \notin {"applied", "rejected", "failed"}
      PROVE  told[r] = {}
  BY <1>1
<1>2. ASSUME UNCHANGED told,
             \A r \in Request : \/ place'[r] = place[r]
                                \/ place[r] \notin {"applied", "rejected", "failed"}
      PROVE  AnswerIsFinal'
  BY <1>1, <1>2
<1>3. ASSUME NEW s \in Sender,
             \/ \E d \in Doc : Send(s, d)
             \/ LookPending(s) \/ LookStaging(s) \/ Recheck(s)
      PROVE  AnswerIsFinal'
  BY <1>2, <1>3 DEF Send, LookPending, LookStaging, Look, Recheck, inbox, history
<1>4. ASSUME NEW s \in Sender, NEW r \in Request, Create(s, r) PROVE AnswerIsFinal'
  BY <1>2, <1>4 DEF Create, history
<1>5. ASSUME NEW s \in Sender, Publish(s) \/ SendFails(s) PROVE AnswerIsFinal'
  <2>1. UNCHANGED told /\ \A r \in Request : place'[r] = place[r] \/ r = send[s].req
    BY <1>5 DEF Publish, SendFails, history
  <2>2. send[s].req \in Request => place[send[s].req] = "tmp"
    BY NothingAssumption DEF SenderHasRequest, Sends
  <2> QED
    BY <1>2, <2>1, <2>2
<1>6. ASSUME NEW h \in Session, NEW r \in Request,
             \/ \E job \in {"defer", "reject", "claim"} : Choose(h, r, job)
             \/ Recover(h, r)
      PROVE  AnswerIsFinal'
  BY <1>2, <1>6 DEF Choose, Recover, inbox, history
<1>7. ASSUME NEW h \in Session,
             \/ Rename(h) \/ PutMetadata(h) \/ PutChecksums(h) \/ Check(h)
             \/ CallFails(h) \/ Apply(h) \/ OpenProject(h) \/ Recovered(h) \/ Leave(h)
      PROVE  AnswerIsFinal'
  <2>1. UNCHANGED told /\ \A r \in Request : place'[r] = place[r] \/ place[r] = "pending"
    BY <1>7 DEF Rename, PutMetadata, PutChecksums, Check, CallFails, Apply, OpenProject,
                Recovered, Leave, inbox, history
  <2> QED
    BY <1>2, <2>1
<1>8. ASSUME NEW h \in Session, Move(h) PROVE AnswerIsFinal'
  <2> DEFINE r == call[h].req
             to == Dest[call[h].job]
  <2>1. /\ r \in Request /\ place[r] \in {"pending", "applying"}
        /\ to = "pending" \/ to \in {"applied", "rejected", "failed"}
    BY <1>8, Jobs DEF Move, At, CallHasJob, CallState
  <2>2. told[r] = {}
    BY <1>1, <2>1
  <2>3. /\ place' = [place EXCEPT ![r] = to]
        /\ told' = [told EXCEPT ![r] = told[r] \cup ({to} \ {"pending"})]
    BY <1>8 DEF Move
  <2> HIDE DEF r, to
  <2>4. told'[r] = {} \cup ({to} \ {"pending"}) /\ place'[r] = to
    BY <2>1, <2>2, <2>3
  <2>5. \A q \in Request \ {r} : told'[q] = told[q] /\ place'[q] = place[q]
    BY <2>3
  <2> QED
    BY <2>1, <2>4, <2>5
<1>9. CASE UNCHANGED vars
  BY <1>9 DEF vars, inbox, history
<1> QED
  BY <1>3, <1>4, <1>5, <1>6, <1>7, <1>8, <1>9 DEF Next

----------------------------------------------------------------------------
(* A request that is not torn was not torn before.                         *)

\* What was torn or raced stays so.
LEMMA TornGrows == [Next]_vars => torn \subseteq torn' /\ raced \subseteq raced'
<1> SUFFICES ASSUME [Next]_vars PROVE torn \subseteq torn' /\ raced \subseteq raced'
  OBVIOUS
<1>1. ASSUME NEW s \in Sender,
             \/ \E d \in Doc : Send(s, d)
             \/ \E r \in Request : Create(s, r)
             \/ LookPending(s) \/ LookStaging(s)
             \/ Recheck(s) \/ Publish(s) \/ SendFails(s)
      PROVE  torn \subseteq torn' /\ raced \subseteq raced'
  BY <1>1 DEF Send, Create, LookPending, LookStaging, Look, Overlooks, Recheck, Publish,
              SendFails, history
<1>2. ASSUME NEW h \in Session, SessionStep(h)
      PROVE  torn \subseteq torn' /\ raced \subseteq raced'
  BY <1>2 DEF SessionStep, Choose, Recover, Rename, PutMetadata, PutChecksums, Check, Move,
              CallFails, Apply, OpenProject, Recovered, Leave, Mixes, CutShort, history
<1>3. CASE UNCHANGED vars
  BY <1>3 DEF vars, history
<1> QED
  BY <1>1, <1>2, <1>3, NextSplits

(* A step that leaves a request and the changes of it alone.               *)
LEMMA OrderlyFrame ==
    ASSUME NEW r \in Request, Orderly(r), UNCHANGED <<place[r], status[r], sums[r]>>,
           \A h \in Session : call'[h] = call[h] \/ (~Changes(h, r) /\ ~Changes(h, r)')
    PROVE  Orderly(r)'
<1>1. \A h \in Session : Changes(h, r)' <=> Changes(h, r)
  BY DEF Changes
<1>2. ChangeIsAlone(r)'
  BY <1>1 DEF Orderly, ChangeIsAlone
<1>3. ChangeIsWritten(r)'
  BY <1>1 DEF Orderly, ChangeIsWritten
<1>4. RestIsReadable(r)'
  BY <1>1 DEF Orderly, RestIsReadable, Shown, Valid
<1> QED
  BY <1>2, <1>3, <1>4 DEF Orderly

\* An orderly request outside pending/ and applying/ is being changed by nobody.
LEMMA NobodyChanges ==
    ASSUME TypeOK, NEW r \in Request, Orderly(r), place[r] \notin {"pending", "applying"}
    PROVE  \A h \in Session : ~Changes(h, r)
BY Jobs DEF Orderly, ChangeIsWritten, TypeOK, CallState

\* A sender's step leaves an orderly request orderly.
LEMMA OrderlySenderStep ==
    ASSUME TypeOK, SenderHasRequest, RequestIsMade, NEW r \in Request, Orderly(r),
           NEW s \in Sender,
           \/ \E d \in Doc : Send(s, d)
           \/ \E q \in Request : Create(s, q)
           \/ LookPending(s) \/ LookStaging(s)
           \/ Recheck(s) \/ Publish(s) \/ SendFails(s)
    PROVE  Orderly(r)'
<1>0. call' = call
  BY DEF Send, Create, LookPending, LookStaging, Look, Recheck, Publish, SendFails
<1>1. CASE (\E d \in Doc : Send(s, d)) \/ LookPending(s) \/ LookStaging(s) \/ Recheck(s)
  BY <1>0, <1>1, OrderlyFrame DEF Send, LookPending, LookStaging, Look, Recheck, inbox
<1>2. ASSUME NEW q \in Request, Create(s, q) PROVE Orderly(r)'
  <2>1. CASE q # r
    <3>1. UNCHANGED <<place[r], status[r], sums[r]>>
      BY <1>2, <2>1 DEF Create, TypeOK
    <3> QED
      BY <1>0, <3>1, OrderlyFrame
  <2>2. CASE q = r
    <3>1. place[r] = "new" /\ place'[r] = "tmp"
      BY <1>2, <2>2 DEF Create, TypeOK
    <3>2. \A h \in Session : ~Changes(h, r)
      BY <3>1, NobodyChanges
    <3>3. \A h \in Session : ~Changes(h, r)'
      BY <1>0, <3>2 DEF Changes
    <3> QED
      BY <3>1, <3>3 DEF Orderly, ChangeIsAlone, ChangeIsWritten, RestIsReadable
  <2> QED
    BY <2>1, <2>2
<1>3. CASE Publish(s) \/ SendFails(s)
  <2>1. CASE place'[r] = place[r]
    BY <1>0, <1>3, <2>1, OrderlyFrame DEF Publish, SendFails
  <2>2. CASE place'[r] # place[r]
    <3>1. send[s].req = r
      BY <1>3, <2>2 DEF Publish, SendFails, TypeOK
    <3>2. place[r] = "tmp" /\ status[r] = "PENDING" /\ sums[r] = "PENDING"
      BY <3>1, NothingAssumption DEF SenderHasRequest, Sends, RequestIsMade
    <3>3. \A h \in Session : ~Changes(h, r)
      BY <3>2, NobodyChanges
    <3>4. \A h \in Session : ~Changes(h, r)'
      BY <1>0, <3>3 DEF Changes
    <3>5. UNCHANGED <<status, sums>> /\ place'[r] \in {"pending", "removed"}
      BY <1>3, <2>2 DEF Publish, SendFails, TypeOK
    <3> QED
      BY <3>2, <3>4, <3>5
         DEF Orderly, ChangeIsAlone, ChangeIsWritten, RestIsReadable, Shown, Valid, Waiting
  <2> QED
    BY <2>1, <2>2
<1> QED
  BY <1>1, <1>2, <1>3

\* So does a session's step, unless it tears the request.
LEMMA OrderlySessionStep ==
    ASSUME TypeOK, CallHasJob, NEW r \in Request \ torn', Orderly(r), NEW h \in Session,
           SessionStep(h)
    PROVE  Orderly(r)'
<1> USE DEF TypeOK, CallState
<1>0. ASSUME UNCHANGED <<place[r], status[r], sums[r]>>, ~Changes(h, r), ~Changes(h, r)',
             \A g \in Session \ {h} : call'[g] = call[g]
      PROVE  Orderly(r)'
  BY <1>0, OrderlyFrame
<1>1. ASSUME NEW q \in Request,
             \/ \E job \in {"defer", "reject", "claim"} : Choose(h, q, job)
             \/ Recover(h, q)
      PROVE  Orderly(r)'
  BY <1>0, <1>1 DEF Choose, Ready, Recover, Begin, inbox, Changes, Changing
<1>2. CASE Apply(h) \/ CallFails(h) \/ Leave(h)
  <2>1. ~Changes(h, r)
    BY <1>2 DEF Apply, CallFails, CutShort, Leave, Changes, Changing
  <2>2. /\ call'[h].pc \in {"idle", "metadata"}
        /\ \A g \in Session \ {h} : call'[g] = call[g]
    BY <1>2 DEF Apply, CallFails, Leave, Begin, Idle
  <2>3. ~Changes(h, r)'
    BY <2>2 DEF Changes, Changing
  <2> QED
    BY <1>0, <1>2, <2>1, <2>2, <2>3 DEF Apply, CallFails, Leave, inbox
<1>3. CASE OpenProject(h) \/ Recovered(h)
  BY <1>3, OrderlyFrame DEF OpenProject, Recovered, inbox
<1>4. ASSUME Rename(h) \/ PutMetadata(h) \/ PutChecksums(h) \/ Check(h) \/ Move(h),
             call[h].req # r
      PROVE  Orderly(r)'
  <2>1. UNCHANGED <<place[r], status[r], sums[r]>>
    BY <1>4 DEF Rename, PutMetadata, PutChecksums, Check, Move, inbox
  <2>2. call'[h].req # r /\ \A g \in Session \ {h} : call'[g] = call[g]
    BY <1>4, NothingAssumption DEF Rename, PutMetadata, PutChecksums, Check, Move, Go, Idle
  <2> QED
    BY <1>0, <1>4, <2>1, <2>2 DEF Changes
<1>5. ASSUME Rename(h) \/ PutMetadata(h), call[h].req = r
      PROVE  (\A g \in Session : ~Changes(g, r)) /\ RestIsReadable(r)
  BY <1>5 DEF Rename, PutMetadata, At, Mixes, Changes, Changing, Orderly
<1>6. ASSUME Rename(h), call[h].req = r PROVE Orderly(r)'
  <2>1. \A g \in Session : ~Changes(g, r)'
    BY <1>5, <1>6 DEF Rename, Go, Changes, Changing
  <2>2. Valid(r)'
    BY <1>5, <1>6 DEF Rename, RestIsReadable, Shown, Valid
  <2>3. place'[r] = "applying"
    BY <1>6 DEF Rename
  <2> QED
    BY <2>1, <2>2, <2>3 DEF Orderly, ChangeIsAlone, ChangeIsWritten, RestIsReadable
<1>7. ASSUME PutMetadata(h), call[h].req = r PROVE Orderly(r)'
  <2>1. \A g \in Session \ {h} : ~Changes(g, r)'
    BY <1>5, <1>7 DEF PutMetadata, Go, Changes
  <2>2. /\ call'[h] = [call[h] EXCEPT !.pc = "checksums"]
        /\ place'[r] = Path[call[h].job] /\ status'[r] = NewStatus[call[h].job]
    BY <1>7 DEF PutMetadata, At, Go
  <2>3. Changes(h, r)' /\ call'[h].job = call[h].job /\ call'[h].pc = "checksums"
    BY <1>7, <2>2 DEF Changes, Changing
  <2> QED
    BY <2>1, <2>2, <2>3 DEF Orderly, ChangeIsAlone, ChangeIsWritten, RestIsReadable
<1>8. ASSUME PutChecksums(h) \/ Check(h) \/ Move(h), call[h].req = r
      PROVE  /\ Changes(h, r)
             /\ \A g \in Session \ {h} : ~Changes(g, r)
             /\ place[r] = Path[call[h].job] /\ status[r] = NewStatus[call[h].job]
             /\ call[h].pc \in {"check", "move"} => sums[r] = NewStatus[call[h].job]
  BY <1>8 DEF PutChecksums, Check, Move, At, Changes, Changing, Orderly, ChangeIsAlone,
              ChangeIsWritten
<1>9. ASSUME PutChecksums(h), call[h].req = r PROVE Orderly(r)'
  <2>1. \A g \in Session \ {h} : ~Changes(g, r)'
    BY <1>8, <1>9 DEF PutChecksums, Go, Changes
  <2>2. /\ call'[h] = [call[h] EXCEPT !.pc = "check"]
        /\ UNCHANGED <<place, status>> /\ sums'[r] = NewStatus[call[h].job]
    BY <1>9 DEF PutChecksums, Go
  <2>3. Changes(h, r)' /\ call'[h].job = call[h].job
    BY <1>9, <2>2 DEF Changes, Changing
  <2> QED
    BY <1>8, <1>9, <2>1, <2>2, <2>3 DEF Orderly, ChangeIsAlone, ChangeIsWritten, RestIsReadable
<1>10. ASSUME Check(h), call[h].req = r PROVE Orderly(r)'
  <2>1. \A g \in Session \ {h} : ~Changes(g, r)'
    BY <1>8, <1>10 DEF Check, Changes
  <2>2. UNCHANGED <<place, status, sums>> /\ call[h].pc = "check"
    BY <1>10 DEF Check, At, inbox
  <2>3. CASE call[h].job = "claim"
    <3>1. call'[h] = [call[h] EXCEPT !.pc = "apply"]
      BY <1>10, <2>3 DEF Check
    <3>2. ~Changes(h, r)' /\ place[r] = "applying"
      BY <1>8, <1>10, <2>3, <3>1 DEF Changes, Changing, Path
    <3> QED
      BY <1>8, <1>10, <2>1, <2>2, <3>2
         DEF Orderly, ChangeIsAlone, ChangeIsWritten, RestIsReadable, Valid, Check
  <2>4. CASE call[h].job = "defer"
    <3>1. call'[h] = Idle
      BY <1>10, <2>4 DEF Check
    <3>2. ~Changes(h, r)' /\ status[r] = "DEFERRED" /\ sums[r] = "DEFERRED" /\ place[r] = "pending"
      BY <1>8, <1>10, <2>2, <2>4, <3>1 DEF Changes, Changing, Path, NewStatus, Idle
    <3> QED
      BY <2>1, <2>2, <3>2
         DEF Orderly, ChangeIsAlone, ChangeIsWritten, RestIsReadable, Valid, Shown, Waiting
  <2>5. CASE call[h].job \notin {"claim", "defer"}
    <3>1. call'[h] = [call[h] EXCEPT !.pc = "move"]
      BY <1>10, <2>5 DEF Check
    <3>2. Changes(h, r)' /\ call'[h].job = call[h].job
      BY <1>10, <3>1 DEF Changes, Changing
    <3> QED
      BY <1>8, <1>10, <2>1, <2>2, <3>2 DEF Orderly, ChangeIsAlone, ChangeIsWritten, RestIsReadable
  <2> QED
    BY <2>3, <2>4, <2>5
<1>11. ASSUME Move(h), call[h].req = r PROVE Orderly(r)'
  <2>1. \A g \in Session : ~Changes(g, r)'
    BY <1>8, <1>11 DEF Move, Changes, Changing, Idle
  <2>2. UNCHANGED <<status, sums>> /\ place'[r] = Dest[call[h].job] /\ call[h].pc = "move"
    BY <1>11 DEF Move, At
  <2>3. status[r] = NewStatus[call[h].job] /\ sums[r] = NewStatus[call[h].job]
    BY <1>8, <1>11, <2>2
  <2>4. /\ Dest[call[h].job] # "applying"
        /\ Dest[call[h].job] = "pending" => NewStatus[call[h].job] = "RETURNED"
    BY <2>2, Jobs DEF CallHasJob
  <2> QED
    BY <2>1, <2>2, <2>3, <2>4
       DEF Orderly, ChangeIsAlone, ChangeIsWritten, RestIsReadable, Valid, Shown, Waiting
<1> QED
  BY <1>1, <1>2, <1>3, <1>4, <1>6, <1>7, <1>9, <1>10, <1>11 DEF SessionStep

----------------------------------------------------------------------------
(* A step of a session brings no request to life.                          *)

\* A session makes no request live, and brings one back to pending/ only by returning it.
LEMMA LiveSessionStep ==
    ASSUME TypeOK, CallHasJob, NEW r \in Request \ torn', Orderly(r), NEW h \in Session,
           SessionStep(h), Live(r)'
    PROVE  /\ Live(r)
           /\ \/ place'[r] = place[r] \/ place'[r] # "pending"
              \/ Move(h) /\ call[h].req = r /\ call[h].job = "return"
<1> USE DEF TypeOK, CallState
<1>1. CASE UNCHANGED <<place[r], status[r]>>
  BY <1>1 DEF Live
<1>2. ASSUME Rename(h), call[h].req = r PROVE Live(r) /\ place'[r] # "pending"
  <2>1. \A g \in Session : ~Changes(g, r)
    BY <1>2 DEF Rename, Mixes, Changes, Changing
  <2>2. Shown(r)
    BY <1>2, <2>1 DEF Rename, Orderly, RestIsReadable
  <2> QED
    BY <1>2, <2>2 DEF Rename, Shown, Waiting, Live
<1>3. ASSUME PutMetadata(h), call[h].req = r PROVE Live(r) /\ place'[r] = place[r]
  <2>1. \A g \in Session : ~Changes(g, r)
    BY <1>3 DEF PutMetadata, At, Mixes, Changes, Changing
  <2>2. place[r] = "pending" => Shown(r)
    BY <2>1 DEF Orderly, RestIsReadable
  <2> QED
    BY <1>3, <2>2, Jobs DEF PutMetadata, At, Shown, Waiting, Live
<1>4. ASSUME Move(h), call[h].req = r PROVE Live(r) /\ call[h].job = "return"
  <2>1. call[h].job \notin {"claim", "defer"} /\ place'[r] = Dest[call[h].job]
    BY <1>4 DEF Move, At, CallHasJob
  <2>2. call[h].job = "return"
    BY <2>1, Jobs DEF Live
  <2> QED
    BY <1>4, <2>2 DEF Move, At, Path, Live
<1>5. ASSUME call[h].req # r \/ ~(Rename(h) \/ PutMetadata(h) \/ Move(h))
      PROVE  UNCHANGED <<place[r], status[r]>>
  BY <1>5 DEF SessionStep, Choose, Recover, Rename, PutMetadata, PutChecksums, Check, Move,
              CallFails, Apply, OpenProject, Recovered, Leave, inbox
<1> QED
  BY <1>1, <1>2, <1>3, <1>4, <1>5

\* A sender makes a request live only by publishing it.
LEMMA LiveSenderStep ==
    ASSUME TypeOK, SenderHasRequest, NEW r \in Request, NEW s \in Sender,
           \/ \E d \in Doc : Send(s, d)
           \/ \E q \in Request : Create(s, q)
           \/ LookPending(s) \/ LookStaging(s)
           \/ Recheck(s) \/ Publish(s) \/ SendFails(s),
           Live(r)'
    PROVE  \/ Live(r) /\ UNCHANGED <<place[r], doc[r]>>
           \/ Publish(s) /\ Sends(s) /\ send[s].req = r /\ UNCHANGED doc
<1> USE DEF TypeOK, Live
<1>1. CASE (\E d \in Doc : Send(s, d)) \/ LookPending(s) \/ LookStaging(s) \/ Recheck(s)
  BY <1>1 DEF Send, LookPending, LookStaging, Look, Recheck, inbox
<1>2. ASSUME NEW q \in Request, Create(s, q)
      PROVE  Live(r) /\ UNCHANGED <<place[r], doc[r]>>
  <2>1. q # r
    BY <1>2 DEF Create
  <2> QED
    BY <1>2, <2>1 DEF Create
<1>3. CASE Publish(s)
  <2>1. Sends(s)
    BY <1>3 DEF Publish, Sends
  <2> QED
    BY <1>3, <2>1 DEF Publish
<1>4. CASE SendFails(s)
  BY <1>4 DEF SendFails
<1> QED
  BY <1>1, <1>2, <1>3, <1>4

----------------------------------------------------------------------------
\* No step makes a second request for one document live, unless its sender raced.
LEMMA LiveOnceStep ==
    ASSUME TypeOK, SenderHasRequest, CallHasJob, \A r \in Request \ torn : Orderly(r),
           LiveOnce, SenderHasLooked, [Next]_vars
    PROVE  LiveOnce'
<1> SUFFICES ASSUME NEW q \in Request \ torn', NEW r \in Request \ torn',
                    doc'[q] = doc'[r], doc'[q] \notin raced', Live(q)', Live(r)'
             PROVE  q = r
  BY DEF LiveOnce
<1>1. q \notin torn /\ r \notin torn /\ raced \subseteq raced'
  BY TornGrows
<1>2. ASSUME Live(q), Live(r), UNCHANGED <<doc[q], doc[r]>> PROVE q = r
  BY <1>1, <1>2 DEF LiveOnce
<1>3. ASSUME NEW h \in Session, SessionStep(h) PROVE q = r
  BY <1>1, <1>2, <1>3, LiveSessionStep, SessionLeavesSenders
<1>4. ASSUME NEW s \in Sender,
             \/ \E d \in Doc : Send(s, d)
             \/ \E p \in Request : Create(s, p)
             \/ LookPending(s) \/ LookStaging(s)
             \/ Recheck(s) \/ Publish(s) \/ SendFails(s)
      PROVE  q = r
  <2>1. ASSUME NEW x \in Request, NEW y \in Request, Publish(s), Sends(s), send[s].req = x,
               y \notin torn, Live(y), doc[x] = doc[y], doc[y] \notin raced
        PROVE  FALSE
    <3>1. doc[y] = send[s].doc /\ send[s].pc = "publish"
      BY <2>1 DEF Publish, SenderHasRequest
    <3> QED
      BY <2>1, <3>1 DEF SenderHasLooked, Looked
  <2>2. \/ Live(q) /\ UNCHANGED doc[q]
        \/ Publish(s) /\ Sends(s) /\ send[s].req = q /\ UNCHANGED doc
    BY <1>4, LiveSenderStep
  <2>3. \/ Live(r) /\ UNCHANGED doc[r]
        \/ Publish(s) /\ Sends(s) /\ send[s].req = r /\ UNCHANGED doc
    BY <1>4, LiveSenderStep
  <2> QED
    BY <1>1, <1>2, <2>1, <2>2, <2>3
<1>5. CASE UNCHANGED vars
  BY <1>2, <1>5 DEF vars, inbox, history, Live
<1> QED
  BY <1>3, <1>4, <1>5, NextSplits

\* A sender that has looked and found nothing is right, or has raced.
LEMMA LookedStep ==
    ASSUME TypeOK, SenderHasRequest, RequestIsMade, CallHasJob,
           \A r \in Request \ torn : Orderly(r), SenderHasLooked, [Next]_vars
    PROVE  SenderHasLooked'
<1> USE DEF TypeOK
<1> SUFFICES ASSUME NEW s \in Sender, NEW r \in Request \ torn',
                    doc'[r] = send'[s].doc, doc'[r] \notin raced', Live(r)'
             PROVE  Looked(s, r)'
  BY DEF SenderHasLooked
<1>1. r \notin torn /\ raced \subseteq raced' /\ Orderly(r)
  BY TornGrows
<1>2. ASSUME Live(r), UNCHANGED <<place[r], doc[r], send[s]>> PROVE Looked(s, r)'
  BY <1>1, <1>2 DEF SenderHasLooked, Looked
<1>3. ASSUME NEW h \in Session, SessionStep(h) PROVE Looked(s, r)'
  <2>1. Live(r) /\ UNCHANGED <<doc, send>>
    BY <1>1, <1>3, LiveSessionStep, SessionLeavesSenders
  <2>2. Looked(s, r)
    BY <1>1, <2>1 DEF SenderHasLooked
  <2>3. send[s].pc = "lookStaging" => place'[r] # "pending"
    <3>1. CASE place'[r] = place[r] \/ place'[r] # "pending"
      BY <2>2, <3>1 DEF Looked
    <3>2. CASE Move(h) /\ call[h].req = r /\ call[h].job = "return"
      <4>1. doc[r] \in Doc
        BY <2>1 DEF RequestIsMade, Live
      <4> QED
        BY <2>1, <3>2, <4>1 DEF Move
    <3> QED
      BY <1>1, <1>3, <3>1, <3>2, LiveSessionStep
  <2> QED
    BY <2>1, <2>2, <2>3 DEF Looked
<1>4. ASSUME NEW t \in Sender,
             \/ \E d \in Doc : Send(t, d)
             \/ \E p \in Request : Create(t, p)
             \/ LookPending(t) \/ LookStaging(t)
             \/ Recheck(t) \/ Publish(t) \/ SendFails(t)
      PROVE  Looked(s, r)'
  <2>1. CASE Publish(t) /\ Sends(t) /\ send[t].req = r /\ UNCHANGED doc
    <3>1. CASE s = t
      BY <2>1, <3>1 DEF Publish, EndSend, Looked
    <3>2. CASE s # t
      <4>1. send'[s] = send[s] /\ send[t].doc = send[s].doc
        BY <2>1, <3>2 DEF Publish, EndSend, SenderHasRequest
      <4>2. send[s].pc = "look"
        BY <2>1, <3>2, <4>1 DEF Publish
      <4> QED
        BY <4>1, <4>2 DEF Looked
    <3> QED
      BY <3>1, <3>2
  <2>2. CASE Live(r) /\ UNCHANGED <<place[r], doc[r]>>
    <3>1. CASE s # t
      <4>1. send'[s] = send[s]
        BY <1>4, <3>1 DEF Send, Create, LookPending, LookStaging, Look, Recheck, Publish,
                          SendFails, EndSend, GoSend
      <4> QED
        BY <1>2, <2>2, <4>1
    <3>2. CASE s = t /\ (Publish(s) \/ SendFails(s) \/ \E d \in Doc : Send(s, d))
      BY <3>2 DEF Publish, SendFails, Send, EndSend, Looked
    <3>3. CASE s = t /\ (Recheck(s) \/ \E p \in Request : Create(s, p))
      <4>1. send[s].pc \in {"create", "recheck"} /\ send'[s].doc = send[s].doc
        BY <3>3 DEF Recheck, Create, GoSend, SendState
      <4> QED
        BY <1>1, <2>2, <4>1 DEF SenderHasLooked, Looked
    <3>4. CASE s = t /\ LookPending(s)
      <4> SUFFICES ASSUME send'[s].pc = "lookStaging", place[r] = "pending" PROVE FALSE
        BY <2>2, <3>4 DEF LookPending, Look, EndSend, GoSend, Looked, SendState
      <4>1. send'[s].doc = send[s].doc /\ ~\E q \in Equivalent(s) : Shown(q)
        BY <3>4 DEF LookPending, Look, EndSend, GoSend, SendState
      <4>2. r \in Equivalent(s) /\ ~Shown(r)
        BY <2>2, <4>1 DEF Equivalent
      <4>3. Valid(r)
        BY <2>2, <3>4, <4>1, <4>2 DEF LookPending, Look, Overlooks, Equivalent
      <4>4. status[r] \in Waiting
        BY <1>1, <2>2, <4>2, Jobs
           DEF Live, Orderly, RestIsReadable, ChangeIsWritten, CallState
      <4> QED
        BY <4>2, <4>3, <4>4 DEF Shown
    <3>5. CASE s = t /\ LookStaging(s)
      <4> SUFFICES ASSUME send'[s].pc = "create" PROVE FALSE
        BY <3>5 DEF LookStaging, Look, EndSend, GoSend, Looked, SendState
      <4>1. /\ send'[s].doc = send[s].doc /\ send[s].pc = "lookStaging"
            /\ ~\E q \in Equivalent(s) : place[q] = "applying" /\ Valid(q)
        BY <3>5 DEF LookStaging, Look, EndSend, GoSend, SendState
      <4>2. r \in Equivalent(s) /\ place[r] = "applying"
        BY <1>1, <2>2, <4>1 DEF Equivalent, SenderHasLooked, Looked, Live
      <4> QED
        BY <2>2, <3>5, <4>1, <4>2 DEF LookStaging, Look, Overlooks, Equivalent
    <3> QED
      BY <1>4, <3>1, <3>2, <3>3, <3>4, <3>5
  <2> QED
    BY <1>4, <2>1, <2>2, LiveSenderStep
<1>5. CASE UNCHANGED vars
  BY <1>2, <1>5 DEF vars, inbox, history, Live
<1> QED
  BY <1>3, <1>4, <1>5, NextSplits

----------------------------------------------------------------------------
\* The inductive invariant holds initially.
LEMMA InvInit == Init => Inv
<1> SUFFICES ASSUME Init PROVE Inv
  OBVIOUS
<1>1. \A h \in Session : call[h].pc = "idle"
  BY DEF Init, Idle
<1>2. \A s \in Sender : send[s].pc = "idle" /\ send[s].req = Nothing
  BY DEF Init
<1>3. \A r \in Request : place[r] = "new" /\ told[r] = {}
  BY DEF Init
<1>4. SenderHasRequest /\ RequestIsMade /\ CallHasJob /\ AnswerIsFinal
  BY <1>1, <1>2, <1>3 DEF SenderHasRequest, Sends, RequestIsMade, CallHasJob, AnswerIsFinal
<1>5. \A r \in Request : Orderly(r)
  BY <1>1, <1>3 DEF Orderly, ChangeIsAlone, ChangeIsWritten, RestIsReadable, Changes, Changing
<1>6. LiveOnce /\ SenderHasLooked
  BY <1>3 DEF LiveOnce, SenderHasLooked, Live
<1> QED
  BY <1>4, <1>5, <1>6, TypeInit DEF Inv

\* Every step keeps it.
LEMMA InvStep == Inv /\ [Next]_vars => Inv'
<1> SUFFICES ASSUME Inv, [Next]_vars PROVE Inv'
  OBVIOUS
<1>1. TypeOK' /\ SenderHasRequest' /\ RequestIsMade' /\ CallHasJob' /\ AnswerIsFinal'
  BY TypeStep, SenderStep, MadeStep, CallStep, AnswerStep DEF Inv
<1>2. ASSUME NEW r \in Request \ torn' PROVE Orderly(r)'
  <2>1. Orderly(r)
    BY TornGrows DEF Inv
  <2>2. CASE UNCHANGED vars
    BY <2>1, <2>2, OrderlyFrame DEF vars, inbox
  <2> QED
    BY <2>1, <2>2, OrderlySenderStep, OrderlySessionStep, NextSplits DEF Inv
<1>3. LiveOnce' /\ SenderHasLooked'
  BY LiveOnceStep, LookedStep DEF Inv
<1> QED
  BY <1>1, <1>2, <1>3 DEF Inv

(* The invariant holds in every reachable state.                           *)
THEOREM InboxInvariant == Spec => []Inv
BY InvInit, InvStep, PTL DEF Spec

(* Requests, metadata and the calls of everybody always have their types.  *)
THEOREM TypeCorrect == Spec => []TypeOK
BY InboxInvariant, PTL DEF Inv

(* However many sessions handle a request, the rename lets one of them     *)
(* decide: what a user was told about it is where it is, for ever.         *)
THEOREM AnswersAreFinal == Spec => []AnswersHold
<1>1. Inv => AnswersHold
  BY DEF Inv, AnswerIsFinal, AnswersHold
<1> QED
  BY <1>1, InboxInvariant, PTL

(* A request that has been sent is shown, or can be read by a recovery,    *)
(* whenever no call is handling it and none was cut short or mixed up.     *)
THEOREM RequestsStayInSight == Spec => []WaitingIsShown
<1>1. ASSUME Inv PROVE WaitingIsShown
  <2> SUFFICES ASSUME NEW r \in Request \ torn, ~Handled(r)
               PROVE  /\ place[r] = "pending" => Shown(r)
                      /\ place[r] = "applying" => Valid(r)
    BY DEF WaitingIsShown
  <2>1. \A h \in Session : ~Changes(h, r)
    BY DEF Handled, Changes
  <2> QED
    BY <1>1, <2>1 DEF Inv, Orderly, RestIsReadable
<1> QED
  BY <1>1, InboxInvariant, PTL

(* No two senders get the same geometry into the inbox, unless one of them *)
(* looked while the other was sending or a request was just being changed. *)
THEOREM NothingOfferedTwice == Spec => []EquivalentOnce
<1>1. \A r \in Request : Open(r) => Live(r)
  BY DEF Open, Shown, Waiting, Live
<1>2. Inv => EquivalentOnce
  BY <1>1 DEF Inv, LiveOnce, EquivalentOnce
<1> QED
  BY <1>2, InboxInvariant, PTL
=============================================================================
