---------------------------- MODULE ArtifactLedger ----------------------------
(***************************************************************************)
(* What the store of the managed NC files promises: a ledger of artifacts  *)
(* and a shelf of files, both of which change in single steps.  Exporting  *)
(* puts the file on the shelf and into the ledger, or does neither         *)
(* ("Atomically publish bytes, sidecar, then manifest with rollback on     *)
(* failure", export_store.py:160), and clearing empties the ledger first   *)
(* ("a failed delete leaves a recoverable, manifest-consistent state",     *)
(* :399).                                                                  *)
(*                                                                         *)
(* Files of the shelf may get lost at any time, also while an artifact is  *)
(* exported; the ledger is told of it later, and never the other way       *)
(* round.                                                                  *)
(*                                                                         *)
(* The promise ends ("void") when the application ends between two writes, *)
(* a file cannot be restored, or two threads use the store at once.        *)
(***************************************************************************)
CONSTANTS
    Artifact,  \* records with the operation (op) and the file name (name)
    Ops,       \* operations
    Names,     \* file names
    NoFile     \* no such file

VARIABLES
    ledger,  \* the status of each artifact
    shelf,   \* the artifact in each file
    void

vars == <<ledger, shelf, void>>

Status == {"none", "current", "stale", "missing", "tampered"}

NoEntries == [a \in Artifact |-> "none"]
NoFiles   == [n \in Names |-> NoFile]

Init == ledger = NoEntries /\ shelf = NoFiles /\ void = FALSE

\* The shelf is s, apart from files that got lost.
ShelfIs(s) ==
    /\ shelf' \in [Names -> Artifact \cup {NoFile}]
    /\ \A n \in Names : shelf'[n] \in {s[n], NoFile}

\* A ledger with a new artifact: it takes over its file name, and no other
\* entry of its operation stays current.
Published(m, new) ==
    [a \in Artifact |->
        IF a = new THEN "current"
        ELSE IF a.name = new.name THEN "none"
        ELSE IF a.op = new.op /\ m[a] = "current" THEN "stale"
        ELSE m[a]]

Publish(new) ==
    /\ ledger' = Published(ledger, new)
    /\ ShelfIs([shelf EXCEPT ![new.name] = new])

\* A ledger without the artifacts of o; their files are removed afterwards.
Cleared(m, o) == [a \in Artifact |-> IF a.op = o THEN "none" ELSE m[a]]

Clear(o) == ledger' = Cleared(ledger, o) /\ ShelfIs(shelf)

\* Artifacts become stale, but only such as were current.
Outdates(m, old) ==
    \A a \in Artifact : m[a] # old[a] => old[a] = "current" /\ m[a] = "stale"

Outdate == Outdates(ledger', ledger) /\ ShelfIs(shelf)

\* Artifacts are found missing or tampered with, but only such as are not in
\* their files.
Classifies(m, old, files) ==
    \A a \in Artifact : m[a] # old[a] =>
        /\ old[a] # "none" /\ m[a] \in {"missing", "tampered"}
        /\ files[a.name] # a

Classify == Classifies(ledger', ledger, shelf) /\ ShelfIs(shelf)

Void ==
    /\ void' = TRUE
    /\ ledger' = NoEntries /\ shelf' = NoFiles

Next ==
    /\ ~void
    /\ \/ Void
       \/ /\ UNCHANGED void
          /\ ledger' \in [Artifact -> Status]
          /\ \/ \E new \in Artifact : Publish(new)
             \/ \E o \in Ops : Clear(o)
             \/ Outdate \/ Classify

Spec == Init /\ [][Next]_vars
=============================================================================
