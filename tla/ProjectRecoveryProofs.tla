----------------------- MODULE ProjectRecoveryProofs -----------------------
(***************************************************************************)
(* Proofs about ProjectRecovery for any number of edits and sessions.      *)
(***************************************************************************)
EXTENDS ProjectRecovery, TLAPS

Working   == {"idle"} \cup Saving
Replacing == (Recovering \ {"backup"}) \cup Undoing

(* What a session in a given state has: the project, the snapshot that it  *)
(* restores, the backup, and the lock.                                     *)
Equipped ==
    /\ pc \in Working => mem \in State
    /\ pc \in Recovering => latest # None
    /\ pc \in Replacing => backup \in State
    /\ lock \in {0, session}
    /\ pc # "closed" => session # 0 /\ lock = session

(* Until a journal is played back into a foreign database, every part is   *)
(* the number of an edit, and only a database whose old pages are in the   *)
(* journal is torn.                                                        *)

Edits == 0 .. edits

TornWithJournal(state) ==
    \A p \in Part : state[p] \in Edits \/ (p = "database" /\ state[p] = Torn /\ journal # None)

Clean ==
    /\ acked \in [Part -> Edits]
    /\ pc \in Working => mem \in [Part -> Edits]
    /\ latest # None => latest.parts \in [Part -> Edits]
    /\ TornWithJournal(disk)
    /\ pc \in Replacing => TornWithJournal(backup)
    /\ journal \in Edits \cup {None}
    /\ pc \in Working => (journal # None <=> pc = "committing")
    /\ pc = "committing" => disk["database"] = Torn

(* How far a save, a recovery or its rollback has come.                    *)

Progress ==
    /\ pc \in {"saveManifest", "commit", "committing"} => disk["config"] = mem["config"]
    /\ pc \in {"commit", "committing"} => disk["manifest"] = mem["manifest"]
    /\ pc \in {"putConfig", "putManifest", "verify"} =>
          disk["database"] = latest.parts["database"]
    /\ pc \in {"putManifest", "verify"} => disk["config"] = latest.parts["config"]
    /\ pc = "verify" => disk["manifest"] = latest.parts["manifest"]
    /\ pc \in {"undoConfig", "undoManifest"} => disk["database"] = backup["database"]
    /\ pc = "undoManifest" => disk["config"] = backup["config"]

OriginKnown == pc \in Replacing => \A p \in Part : origin[p] = Found(backup, p)

(* Where acknowledged work is: in a backup; in the journal, next to a torn *)
(* copy of its database; or in the main files and in the open project.     *)

InBackup(p) == \E b \in backups : AtLeast(b[p], acked[p])

JournalHas(p) == p = "database" /\ journal # None /\ AtLeast(journal, acked[p])

InTornBackup(p) == JournalHas(p) /\ \E b \in backups : b[p] = Torn

InMainFiles(p) ==
    /\ AtLeast(disk[p], acked[p]) \/ (JournalHas(p) /\ disk[p] = Torn)
    /\ pc \in Working => AtLeast(mem[p], acked[p])

AckedSafe ==
    \A p \in Part :
        \/ InBackup(p)
        \/ InTornBackup(p) /\ pc \notin Working
        \/ InMainFiles(p) /\ pc \notin Replacing

(* A recovery is offered until one has been tried or the choice was made.  *)
Offered ==
    /\ pending /\ ~attempted /\ pc \notin Recovering => Candidate
    /\ pc = "load" /\ pending => attempted
    /\ pc \in Undoing => attempted

Inv ==
    /\ TypeOK
    /\ Equipped
    /\ Progress
    /\ Offered
    /\ ~mispaired => Clean /\ OriginKnown /\ AckedSafe

----------------------------------------------------------------------------
(* What the calls that several actions make do to the variables.           *)

\* The parts of a project, for case distinctions.
LEMMA Parts == \A p \in Part : p = "manifest" \/ p = "config" \/ p = "database"
BY DEF Part

\* No lock is a lock in the type of the variable.
LEMMA Sessions == 0 \in 0 .. MaxSessions
BY BoundsAssumption

(* A session that gives its lock back.                                     *)
LEMMA GiveUpType ==
    ASSUME GiveUp
    PROVE  /\ lock' \in 0 .. MaxSessions
           /\ mem' \in State \cup {None}
           /\ backup' \in State \cup {None}
           /\ dirty' \in BOOLEAN
           /\ pc' = "closed"
BY Sessions DEF GiveUp

\* A database that has been opened has an edit's contents or a half-written one.
LEMMA SettledType ==
    ASSUME TypeOK
    PROVE  Settled \in Version \cup {Torn}
BY DEF TypeOK, Settled, State, Part

\* SQLite's playback of the journal keeps the types.
LEMMA OpenDatabaseType ==
    ASSUME TypeOK, OpenDatabase
    PROVE  /\ disk' \in State
           /\ journal' = None
           /\ mispaired' \in BOOLEAN
<1>1. disk' \in State
  BY SettledType DEF TypeOK, OpenDatabase, State
<1>2. mispaired' \in BOOLEAN
  BY DEF TypeOK, OpenDatabase
<1> QED
  BY <1>1, <1>2 DEF OpenDatabase

\* Replacing a part by that of a snapshot or backup keeps the types.
LEMMA ReplaceType ==
    ASSUME TypeOK, NEW source \in State, NEW part \in Part, NEW from, NEW to,
           Replace(source, part, from, to)
    PROVE  disk' \in State
BY DEF TypeOK, Replace, State

----------------------------------------------------------------------------
\* The types hold initially.
LEMMA TypeInit == Init => TypeOK
<1> SUFFICES ASSUME Init PROVE TypeOK
  OBVIOUS
<1>1. 0 \in Version /\ 0 \in 0 .. MaxSessions
  BY BoundsAssumption DEF Version
<1>2. disk \in State /\ origin \in State /\ acked \in State
  BY <1>1 DEF Init, State
<1> QED
  BY <1>1, <1>2 DEF Init, TypeOK

\* Every step keeps the types.
LEMMA TypeStep == TypeOK /\ Equipped /\ [Next]_vars => TypeOK'
<1> SUFFICES ASSUME TypeOK, Equipped, [Next]_vars PROVE TypeOK'
  OBVIOUS
<1> USE DEF TypeOK, Snapshot
<1>1. ASSUME NEW discard \in BOOLEAN, OpenProject(discard) \/ CloseProject(discard)
      PROVE  TypeOK'
  <2>1. CASE OpenProject(discard)
    <3>1. session' \in 0 .. MaxSessions /\ lock' \in 0 .. MaxSessions
      BY <2>1, BoundsAssumption DEF OpenProject, AcquireLock
    <3>2. pending' \in BOOLEAN
      BY <2>1 DEF OpenProject
    <3> QED
      BY <2>1, <3>1, <3>2 DEF OpenProject, files
  <2>2. CASE CloseProject(discard)
    BY <2>2, GiveUpType DEF CloseProject, files
  <2> QED
    BY <1>1, <2>1, <2>2
<1>2. CASE Load
  BY <1>2, OpenDatabaseType DEF Load
<1>3. CASE LoadFails
  BY <1>3, OpenDatabaseType, GiveUpType DEF LoadFails, files
<1>4. ASSUME NEW part \in Part, Edit(part) PROVE TypeOK'
  <2>1. mem \in State /\ edits + 1 \in Version
    BY <1>4, BoundsAssumption DEF Edit, Equipped, Working, Version
  <2>2. mem' \in State
    BY <1>4, <2>1 DEF Edit, State
  <2> QED
    BY <1>4, <2>1, <2>2 DEF Edit, files, history
<1>5. CASE Autosave
  <2>1. mem \in State /\ session \in 1 .. MaxSessions
    BY <1>5, BoundsAssumption DEF Autosave, Equipped, Working
  <2> QED
    BY <1>5, <2>1 DEF Autosave, files
<1>6. CASE BeginSave
  BY <1>6 DEF BeginSave, SaveStep, Saving, files, history
<1>7. CASE SaveConfig \/ SaveManifest
  <2>1. mem \in State
    BY <1>7 DEF SaveConfig, SaveManifest, PutFile, SaveStep, Equipped, Working, Saving
  <2>2. disk' \in State
    BY <1>7, <2>1 DEF SaveConfig, SaveManifest, PutFile, State
  <2> QED
    BY <1>7, <2>2 DEF SaveConfig, SaveManifest, PutFile, SaveStep, Saving, history
<1>8. CASE BeginCommit
  BY <1>8 DEF BeginCommit, SaveStep, Saving, State, Part, history
<1>9. CASE EndCommit
  <2>1. mem \in State
    BY <1>9 DEF EndCommit, SaveStep, Equipped, Working, Saving
  <2>2. disk' \in State
    BY <1>9, <2>1 DEF EndCommit, State, Part
  <2> QED
    BY <1>9, <2>1, <2>2 DEF EndCommit, SaveStep
<1>10. CASE SaveFails
  <2>1. disk' \in State /\ journal' \in Version \cup {Torn, None}
    BY <1>10 DEF SaveFails, State, files
  <2> QED
    BY <1>10, <2>1 DEF SaveFails, history
<1>11. CASE RecoverProject
  BY <1>11, BoundsAssumption DEF RecoverProject, AcquireLock, Recovering, files, history
<1>12. CASE CreateBackup
  <2>1. origin' \in State
    BY <1>12 DEF CreateBackup, Found, State
  <2> QED
    BY <1>12, <2>1 DEF CreateBackup, Recovering, files
<1>13. CASE PutDatabase \/ PutConfig \/ PutManifest
  <2>1. latest.parts \in State
    BY <1>13 DEF PutDatabase, PutConfig, PutManifest, Replace, Equipped, Recovering
  <2>2. disk' \in State
    BY <1>13, <2>1, ReplaceType DEF PutDatabase, PutConfig, PutManifest, Part
  <2> QED
    BY <1>13, <2>2 DEF PutDatabase, PutConfig, PutManifest, Replace, Recovering, history
<1>14. CASE Verify
  <2>1. latest.parts \in State
    BY <1>14 DEF Verify, Equipped, Recovering
  <2> QED
    BY <1>14, <2>1, OpenDatabaseType DEF Verify
<1>15. CASE BackupFails
  BY <1>15, GiveUpType DEF BackupFails, files
<1>16. CASE RecoveryFails
  <2>1. disk' \in State /\ journal' \in Version \cup {Torn, None} /\ mispaired' \in BOOLEAN
    BY <1>16, OpenDatabaseType DEF RecoveryFails, files
  <2> QED
    BY <1>16, <2>1 DEF RecoveryFails, Undoing
<1>17. CASE UndoDatabase \/ UndoConfig
  <2>1. backup \in State
    BY <1>17 DEF UndoDatabase, UndoConfig, Replace, Equipped, Replacing, Undoing
  <2>2. disk' \in State
    BY <1>17, <2>1, ReplaceType DEF UndoDatabase, UndoConfig, Part
  <2> QED
    BY <1>17, <2>2 DEF UndoDatabase, UndoConfig, Replace, Undoing, history
<1>18. CASE UndoManifest
  <2>1. disk' \in State
    BY <1>18 DEF UndoManifest, Equipped, Replacing, Undoing, State, Part
  <2> QED
    BY <1>18, <2>1, GiveUpType DEF UndoManifest, history
<1>19. CASE UndoFails
  BY <1>19, GiveUpType DEF UndoFails, files, history
<1>20. CASE Crash
  BY <1>20 DEF Crash, files
<1>21. CASE UNCHANGED vars
  BY <1>21 DEF vars
<1> QED
  BY <1>1, <1>2, <1>3, <1>4, <1>5, <1>6, <1>7, <1>8, <1>9, <1>10, <1>11, <1>12,
     <1>13, <1>14, <1>15, <1>16, <1>17, <1>18, <1>19, <1>20, <1>21 DEF Next


----------------------------------------------------------------------------
\* Every step has the memory, the snapshot and the backup it needs.
LEMMA EquippedStep == TypeOK /\ Equipped /\ [Next]_vars => Equipped'
<1> SUFFICES ASSUME TypeOK, Equipped, [Next]_vars PROVE Equipped'
  OBVIOUS
<1>0. TypeOK'
  BY TypeStep
<1> USE DEF Equipped, Working, Replacing, Saving, Recovering, Undoing
<1>1. ASSUME NEW discard \in BOOLEAN, OpenProject(discard) PROVE Equipped'
  BY <1>1 DEF OpenProject, AcquireLock, TypeOK
<1>2. CASE RecoverProject
  BY <1>2 DEF RecoverProject, AcquireLock, Candidate, files, history, TypeOK
<1>3. ASSUME NEW discard \in BOOLEAN, CloseProject(discard) PROVE Equipped'
  BY <1>3 DEF CloseProject, GiveUp
<1>4. CASE LoadFails \/ BackupFails \/ UndoManifest \/ UndoFails \/ Crash
  BY <1>4 DEF LoadFails, BackupFails, UndoManifest, UndoFails, GiveUp, Crash
<1>5. CASE Load
  BY <1>5, OpenDatabaseType DEF Load
<1>6. ASSUME NEW part \in Part, Edit(part) PROVE Equipped'
  <2>1. mem' \in State
    BY <1>0, <1>6, DistinctAssumption DEF Edit, TypeOK, State
  <2> QED
    BY <1>6, <2>1 DEF Edit
<1>7. CASE Autosave \/ BeginSave \/ SaveConfig \/ SaveManifest \/ BeginCommit
  BY <1>7 DEF Autosave, BeginSave, SaveConfig, SaveManifest, PutFile, BeginCommit, SaveStep
<1>8. CASE EndCommit \/ SaveFails
  BY <1>8 DEF EndCommit, SaveFails, SaveStep
<1>9. CASE CreateBackup
  BY <1>9 DEF CreateBackup, TypeOK
<1>10. CASE PutDatabase \/ PutConfig \/ PutManifest \/ UndoDatabase \/ UndoConfig
  BY <1>10 DEF PutDatabase, PutConfig, PutManifest, UndoDatabase, UndoConfig, Replace
<1>11. CASE Verify \/ RecoveryFails
  BY <1>11 DEF Verify, RecoveryFails
<1>12. CASE UNCHANGED vars
  BY <1>12 DEF vars
<1> QED
  BY <1>1, <1>2, <1>3, <1>4, <1>5, <1>6, <1>7, <1>8, <1>9, <1>10, <1>11, <1>12 DEF Next

----------------------------------------------------------------------------
\* Every step of a save or recovery finds the parts as its earlier steps left them.
LEMMA ProgressStep == TypeOK /\ Equipped /\ Progress /\ [Next]_vars => Progress'
<1> SUFFICES ASSUME TypeOK, Equipped, Progress, [Next]_vars PROVE Progress'
  OBVIOUS
<1> USE DEF Progress
<1>1. ASSUME NEW discard \in BOOLEAN, OpenProject(discard) \/ CloseProject(discard)
      PROVE  Progress'
  BY <1>1 DEF OpenProject, CloseProject, GiveUp
<1>2. CASE Load \/ LoadFails \/ BackupFails \/ UndoManifest \/ UndoFails \/ Crash
  BY <1>2 DEF Load, LoadFails, BackupFails, UndoManifest, UndoFails, GiveUp, Crash
<1>3. ASSUME NEW part \in Part, Edit(part) PROVE Progress'
  BY <1>3 DEF Edit
<1>4. CASE Autosave \/ BeginSave \/ EndCommit \/ SaveFails \/ RecoverProject \/ CreateBackup
  BY <1>4 DEF Autosave, BeginSave, EndCommit, SaveFails, SaveStep, RecoverProject, CreateBackup
<1>5. CASE SaveConfig \/ SaveManifest \/ BeginCommit
  BY <1>5 DEF SaveConfig, SaveManifest, PutFile, BeginCommit, SaveStep, TypeOK, State, Part
<1>6. CASE PutDatabase \/ PutConfig \/ PutManifest
  BY <1>6 DEF PutDatabase, PutConfig, PutManifest, Replace, TypeOK, State, Part
<1>7. CASE UndoDatabase \/ UndoConfig
  BY <1>7 DEF UndoDatabase, UndoConfig, Replace, TypeOK, State, Part
<1>8. CASE Verify \/ RecoveryFails
  BY <1>8 DEF Verify, RecoveryFails
<1>9. CASE UNCHANGED vars
  BY <1>9 DEF vars
<1> QED
  BY <1>1, <1>2, <1>3, <1>4, <1>5, <1>6, <1>7, <1>8, <1>9 DEF Next

----------------------------------------------------------------------------
\* Autosaved work stays on offer until an attempt, a save or a decision.
LEMMA OfferedStep == TypeOK /\ Equipped /\ Offered /\ [Next]_vars => Offered'
<1> SUFFICES ASSUME TypeOK, Equipped, Offered, [Next]_vars PROVE Offered'
  OBVIOUS
<1> USE DEF Offered, Candidate, Recovering, Undoing
<1>1. ASSUME NEW discard \in BOOLEAN, OpenProject(discard) PROVE Offered'
  BY <1>1 DEF OpenProject
<1>2. ASSUME NEW discard \in BOOLEAN, CloseProject(discard) PROVE Offered'
  BY <1>2 DEF CloseProject, GiveUp
<1>3. CASE Load \/ LoadFails
  BY <1>3 DEF Load, LoadFails, GiveUp
<1>4. ASSUME NEW part \in Part, Edit(part) PROVE Offered'
  BY <1>4 DEF Edit, history
<1>5. CASE Autosave
  <2>1. session # 0 /\ lock = session
    BY <1>5 DEF Autosave, Equipped
  <2>2. mem \in State /\ session \in 1 .. MaxSessions
    BY <1>5, <2>1, BoundsAssumption DEF Autosave, Equipped, Working, TypeOK
  <2>3. latest' \in Snapshot
    BY <1>5, <2>2 DEF Autosave, Snapshot
  <2>4. latest'.session = session /\ latest' # None
    BY <1>5, <2>3, DistinctAssumption DEF Autosave
  <2> QED
    BY <1>5, <2>1, <2>4 DEF Autosave
<1>6. CASE BeginSave \/ SaveConfig \/ SaveManifest \/ BeginCommit \/ SaveFails
  BY <1>6 DEF BeginSave, SaveConfig, SaveManifest, PutFile, BeginCommit, SaveFails,
              SaveStep, Saving, history
<1>7. CASE EndCommit \/ Verify
  BY <1>7 DEF EndCommit, SaveStep, Verify
<1>8. CASE RecoverProject \/ CreateBackup \/ PutDatabase \/ PutConfig \/ PutManifest
  BY <1>8 DEF RecoverProject, CreateBackup, PutDatabase, PutConfig, PutManifest,
              Replace, history
<1>9. CASE BackupFails \/ RecoveryFails
  BY <1>9 DEF BackupFails, RecoveryFails, GiveUp
<1>10. CASE UndoDatabase \/ UndoConfig \/ UndoManifest \/ UndoFails
  BY <1>10 DEF UndoDatabase, UndoConfig, Replace, UndoManifest, UndoFails, GiveUp, history
<1>11. CASE Crash
  BY <1>11 DEF Crash
<1>12. CASE UNCHANGED vars
  BY <1>12 DEF vars
<1> QED
  BY <1>1, <1>2, <1>3, <1>4, <1>5, <1>6, <1>7, <1>8, <1>9, <1>10, <1>11, <1>12 DEF Next


----------------------------------------------------------------------------
(* As long as no journal is played back into a foreign database, opening   *)
(* the database leaves in place what any reader would have found.          *)

\* Edits are numbers, and none of them is the mark of a half-written file.
LEMMA EditNumbers ==
    ASSUME TypeOK
    PROVE  /\ edits \in Nat
           /\ Torn \notin Edits /\ None \notin Edits
           /\ \A v \in Edits : v \in Nat
BY DistinctAssumption, BoundsAssumption DEF TypeOK, Version, Edits

\* A database that is opened with its own journal is that of before or after the commit.
LEMMA OpenedCleanly ==
    ASSUME TypeOK, Clean, OpenDatabase, ~mispaired'
    PROVE  /\ journal' = None
           /\ disk' \in [Part -> Edits]
           /\ \A p \in Part : disk'[p] = Found(disk, p)
           /\ disk["database"] = Torn <=> journal # None
<1>1. journal # None => disk["database"] = Torn
  BY DEF OpenDatabase, Settled
<1>2. disk["database"] = Torn => journal # None
  BY EditNumbers DEF Clean, TornWithJournal, Part
<1>3. disk' = [disk EXCEPT !["database"] = Settled]
  BY DEF OpenDatabase
<1>4. ASSUME NEW p \in Part PROVE disk'[p] = Found(disk, p)
  BY <1>1, <1>2, <1>3 DEF TypeOK, State, Found, Settled
<1>5. ASSUME NEW p \in Part PROVE Found(disk, p) \in Edits
  BY <1>2 DEF Clean, TornWithJournal, Found
<1>6. disk' \in [Part -> Edits]
  BY <1>3, <1>4, <1>5 DEF TypeOK, State
<1> QED
  BY <1>1, <1>2, <1>4, <1>6 DEF OpenDatabase

(* A recovery whose validation plays no journal back leaves the snapshot.  *)
LEMMA VerifiedCleanly ==
    ASSUME TypeOK, Equipped, Progress, Clean, pc = "verify", OpenDatabase, ~mispaired'
    PROVE  journal = None /\ disk' = disk /\ disk = latest.parts
<1>1. latest.parts \in [Part -> Edits]
  BY DEF Equipped, Recovering, Clean
<1>2. \A p \in Part : disk[p] = latest.parts[p]
  BY Parts DEF Progress
<1>3. disk = latest.parts
  BY <1>1, <1>2 DEF TypeOK, State
<1>4. disk["database"] # Torn
  BY <1>1, <1>3, EditNumbers DEF Part
<1>5. journal = None
  BY <1>4, OpenedCleanly
<1>6. disk' = disk
  BY <1>5 DEF OpenDatabase, Settled, TypeOK, State
<1> QED
  BY <1>3, <1>5, <1>6

\* A journal played back into a foreign database is not forgotten.
LEMMA MispairedStays == TypeOK /\ [Next]_vars /\ ~mispaired' => ~mispaired
<1> SUFFICES ASSUME TypeOK, [Next]_vars, ~mispaired' PROVE ~mispaired
  OBVIOUS
<1>1. ASSUME NEW discard \in BOOLEAN, OpenProject(discard) \/ CloseProject(discard)
      PROVE  ~mispaired
  BY <1>1 DEF OpenProject, CloseProject
<1>2. CASE Load \/ LoadFails \/ Verify \/ RecoveryFails
  BY <1>2 DEF Load, LoadFails, Verify, RecoveryFails, OpenDatabase
<1>3. ASSUME NEW part \in Part, Edit(part) PROVE ~mispaired
  BY <1>3 DEF Edit, history
<1>4. CASE Autosave \/ BeginSave \/ SaveConfig \/ SaveManifest \/ BeginCommit \/ EndCommit
           \/ SaveFails
  BY <1>4 DEF Autosave, BeginSave, SaveConfig, SaveManifest, PutFile, BeginCommit,
              EndCommit, SaveFails, history
<1>5. CASE RecoverProject \/ CreateBackup \/ PutDatabase \/ PutConfig \/ PutManifest
           \/ BackupFails
  BY <1>5 DEF RecoverProject, CreateBackup, PutDatabase, PutConfig, PutManifest, Replace,
              BackupFails, history
<1>6. CASE UndoDatabase \/ UndoConfig \/ UndoManifest \/ UndoFails \/ Crash
  BY <1>6 DEF UndoDatabase, UndoConfig, Replace, UndoManifest, UndoFails, Crash, history
<1>7. CASE UNCHANGED vars
  BY <1>7 DEF vars
<1> QED
  BY <1>1, <1>2, <1>3, <1>4, <1>5, <1>6, <1>7 DEF Next

----------------------------------------------------------------------------
\* Every part of every copy is that of an edit, but for a database half-written beside its
\* journal.
LEMMA CleanStep ==
    ASSUME TypeOK, Equipped, Progress, Clean, [Next]_vars, ~mispaired'
    PROVE  Clean'
<1> USE DEF Working, Replacing, Saving, Recovering, Undoing
<1>1. ASSUME NEW discard \in BOOLEAN, OpenProject(discard) \/ CloseProject(discard)
      PROVE  Clean'
  BY <1>1 DEF OpenProject, CloseProject, GiveUp, files, Clean, TornWithJournal, Edits
<1>2. CASE Load
  BY <1>2, OpenedCleanly DEF Load, Clean, TornWithJournal, Edits
<1>3. CASE LoadFails
  BY <1>3, OpenedCleanly DEF LoadFails, GiveUp, files, Clean, TornWithJournal, Edits
<1>4. ASSUME NEW part \in Part, Edit(part) PROVE Clean'
  <2>1. \A v \in Edits : v \in Edits'
    BY <1>4, EditNumbers DEF Edit, Edits
  <2>2. edits + 1 \in Edits'
    BY <1>4, EditNumbers DEF Edit, Edits
  <2>3. mem' \in [Part -> Edits']
    BY <1>4, <2>1, <2>2 DEF Edit, Clean
  <2>4. acked' \in [Part -> Edits'] /\ (latest # None => latest.parts \in [Part -> Edits'])
    BY <1>4, <2>1 DEF Edit, history, Clean
  <2>5. TornWithJournal(disk)' /\ journal' \in Edits' \cup {None}
    BY <1>4, <2>1 DEF Edit, files, Clean, TornWithJournal
  <2> QED
    BY <1>4, <2>3, <2>4, <2>5 DEF Edit, files, Clean
<1>5. CASE Autosave
  <2>1. latest'.parts \in [Part -> Edits]
    BY <1>5 DEF Autosave, Clean
  <2> QED
    BY <1>5, <2>1 DEF Autosave, files, Clean, TornWithJournal, Edits
<1>6. CASE BeginSave
  BY <1>6 DEF BeginSave, SaveStep, files, history, Clean, TornWithJournal, Edits
<1>7. CASE SaveConfig \/ SaveManifest
  <2>1. mem \in [Part -> Edits]
    BY <1>7 DEF SaveConfig, SaveManifest, PutFile, SaveStep, Clean
  <2>2. TornWithJournal(disk)'
    BY <1>7, <2>1 DEF SaveConfig, SaveManifest, PutFile, Clean, TornWithJournal, Edits,
                      TypeOK, State, history
  <2> QED
    BY <1>7, <2>2 DEF SaveConfig, SaveManifest, PutFile, SaveStep, history, Clean, Edits
<1>8. CASE BeginCommit
  <2>1. journal = None /\ disk["database"] \in Edits
    BY <1>8 DEF BeginCommit, SaveStep, Clean, TornWithJournal, Part
  <2>2. disk' = [disk EXCEPT !["database"] = Torn] /\ journal' = disk["database"]
    BY <1>8 DEF BeginCommit
  <2>3. journal' # None /\ disk'["database"] = Torn
    BY <2>1, <2>2, EditNumbers DEF TypeOK, State, Part
  <2>4. TornWithJournal(disk)'
    BY <1>8, <2>2, <2>3 DEF BeginCommit, Clean, TornWithJournal, Edits, TypeOK, State, history
  <2> QED
    BY <1>8, <2>1, <2>2, <2>3, <2>4 DEF BeginCommit, SaveStep, history, Clean, Edits
<1>9. CASE EndCommit
  <2>1. mem \in [Part -> Edits]
    BY <1>9 DEF EndCommit, SaveStep, Clean
  <2>2. TornWithJournal(disk)'
    BY <1>9, <2>1 DEF EndCommit, Clean, TornWithJournal, Edits, TypeOK, State, Part
  <2> QED
    BY <1>9, <2>1, <2>2 DEF EndCommit, SaveStep, Clean, Edits
<1>10. CASE SaveFails
  <2>1. TornWithJournal(disk)'
    BY <1>10 DEF SaveFails, files, history, Clean, TornWithJournal, Edits, TypeOK, State
  <2>2. journal' = None
    BY <1>10 DEF SaveFails, files
  <2> QED
    BY <1>10, <2>1, <2>2 DEF SaveFails, history, Clean, Edits
<1>11. CASE RecoverProject
  BY <1>11 DEF RecoverProject, files, history, Clean, TornWithJournal, Edits
<1>12. CASE CreateBackup
  BY <1>12 DEF CreateBackup, files, Clean, TornWithJournal, Edits
<1>13. CASE PutDatabase \/ PutConfig \/ PutManifest
  <2>1. latest.parts \in [Part -> Edits]
    BY <1>13 DEF PutDatabase, PutConfig, PutManifest, Replace, Equipped, Clean
  <2>2. TornWithJournal(disk)'
    BY <1>13, <2>1 DEF PutDatabase, PutConfig, PutManifest, Replace, Clean, TornWithJournal,
                       Edits, TypeOK, State, history
  <2>3. TornWithJournal(backup)'
    BY <1>13 DEF PutDatabase, PutConfig, PutManifest, Replace, Clean, TornWithJournal,
                 Edits, history
  <2> QED
    BY <1>13, <2>2, <2>3 DEF PutDatabase, PutConfig, PutManifest, Replace, history, Clean, Edits
<1>14. CASE Verify
  BY <1>14, OpenedCleanly DEF Verify, Clean, TornWithJournal, Edits, Equipped
<1>15. CASE BackupFails \/ UndoFails \/ Crash
  BY <1>15 DEF BackupFails, UndoFails, Crash, GiveUp, files, history, Clean,
               TornWithJournal, Edits
<1>16. CASE RecoveryFails
  <2>1. disk' = disk /\ journal' = journal
    BY <1>16, VerifiedCleanly DEF RecoveryFails, OpenDatabase, files
  <2> QED
    BY <1>16, <2>1 DEF RecoveryFails, Clean, TornWithJournal, Edits
<1>17. CASE UndoDatabase \/ UndoConfig \/ UndoManifest
  <2>1. TornWithJournal(backup)
    BY <1>17 DEF UndoDatabase, UndoConfig, UndoManifest, Replace, Clean
  <2>2. TornWithJournal(disk)'
    BY <1>17, <2>1 DEF UndoDatabase, UndoConfig, UndoManifest, Replace, Clean,
                       TornWithJournal, Edits, TypeOK, State, history
  <2>3. pc' # "closed" => TornWithJournal(backup)'
    BY <1>17, <2>1 DEF UndoDatabase, UndoConfig, UndoManifest, Replace, GiveUp,
                       TornWithJournal, Edits, history
  <2> QED
    BY <1>17, <2>2, <2>3 DEF UndoDatabase, UndoConfig, UndoManifest, Replace, GiveUp,
                             history, Clean, Edits
<1>18. CASE UNCHANGED vars
  BY <1>18 DEF vars, Clean, TornWithJournal, Edits
<1> QED
  BY <1>1, <1>2, <1>3, <1>4, <1>5, <1>6, <1>7, <1>8, <1>9, <1>10, <1>11, <1>12,
     <1>13, <1>14, <1>15, <1>16, <1>17, <1>18 DEF Next


----------------------------------------------------------------------------
\* What a recovery found is in its backup, or in the files it has not reached.
LEMMA OriginStep ==
    ASSUME TypeOK, Equipped, Progress, Clean, OriginKnown, [Next]_vars, ~mispaired'
    PROVE  OriginKnown'
<1> USE DEF OriginKnown, Found, Replacing, Recovering, Undoing
<1>1. ASSUME NEW discard \in BOOLEAN, OpenProject(discard) \/ CloseProject(discard)
      PROVE  OriginKnown'
  BY <1>1 DEF OpenProject, CloseProject, GiveUp
<1>2. CASE Load \/ LoadFails \/ Verify \/ RecoverProject \/ BackupFails \/ UndoFails \/ Crash
  BY <1>2 DEF Load, LoadFails, Verify, RecoverProject, BackupFails, UndoFails, Crash, GiveUp
<1>3. ASSUME NEW part \in Part, Edit(part) PROVE OriginKnown'
  BY <1>3 DEF Edit
<1>4. CASE Autosave \/ BeginSave \/ SaveConfig \/ SaveManifest \/ BeginCommit \/ EndCommit
           \/ SaveFails
  BY <1>4 DEF Autosave, BeginSave, SaveConfig, SaveManifest, PutFile, BeginCommit,
              EndCommit, SaveFails, SaveStep
<1>5. CASE CreateBackup
  BY <1>5 DEF CreateBackup, files
<1>6. CASE PutDatabase \/ PutConfig \/ PutManifest \/ UndoDatabase \/ UndoConfig
  BY <1>6 DEF PutDatabase, PutConfig, PutManifest, UndoDatabase, UndoConfig, Replace, history
<1>7. CASE UndoManifest
  BY <1>7 DEF UndoManifest, GiveUp
<1>8. CASE RecoveryFails
  <2>1. disk' = disk /\ journal' = journal
    BY <1>8, VerifiedCleanly DEF RecoveryFails, OpenDatabase, files
  <2> QED
    BY <1>8, <2>1 DEF RecoveryFails
<1>9. CASE UNCHANGED vars
  BY <1>9 DEF vars
<1> QED
  BY <1>1, <1>2, <1>3, <1>4, <1>5, <1>6, <1>7, <1>8, <1>9 DEF Next

----------------------------------------------------------------------------
(* A step that leaves the files alone and opens nothing.                   *)

\* A step that leaves files and backups alone keeps what was reported as stored.
LEMMA AckedUntouched ==
    ASSUME AckedSafe, UNCHANGED <<files, backups, acked>>, pc' \notin Replacing,
           pc' \in Working => /\ pc \in Working
                             /\ \A p \in Part : AtLeast(mem[p], acked[p]) =>
                                                  AtLeast(mem'[p], acked[p])
    PROVE  AckedSafe'
<1>1. pc' \in Working => pc \in Working
  OBVIOUS
<1>2. \A p \in Part : InBackup(p) => InBackup(p)'
  BY DEF InBackup
<1>3. \A p \in Part : InTornBackup(p) => InTornBackup(p)'
  BY DEF InTornBackup, JournalHas, files
<1>4. \A p \in Part : InMainFiles(p) => InMainFiles(p)'
  BY DEF InMainFiles, JournalHas, files
<1> QED
  BY <1>1, <1>2, <1>3, <1>4 DEF AckedSafe

(* Opening the database takes work that only the journal had out of it.    *)

\* So does opening the project.
LEMMA AckedOpened ==
    ASSUME TypeOK, Clean, AckedSafe, OpenDatabase, ~mispaired', pc = "load",
           UNCHANGED <<backups, acked>>, (pc' = "idle" /\ mem' = disk') \/ pc' = "closed"
    PROVE  AckedSafe'
<1>1. \A p \in Part : InBackup(p) => InBackup(p)'
  BY DEF InBackup
<1>2. ASSUME NEW p \in Part, InTornBackup(p) \/ InMainFiles(p)
      PROVE  AtLeast(disk'[p], acked[p])
  BY <1>2, OpenedCleanly, EditNumbers
     DEF InTornBackup, InMainFiles, JournalHas, Found, AtLeast, Clean
<1>3. \A p \in Part : AtLeast(disk'[p], acked[p]) => InMainFiles(p)'
  BY DEF InMainFiles, Working, Saving
<1> QED
  BY <1>1, <1>2, <1>3 DEF AckedSafe, Replacing, Recovering, Undoing

(* What has just been reported as stored is in the main files.             *)

\* So does a step that reports what is in the files.
LEMMA AckedStored ==
    ASSUME TypeOK', Clean', acked' = disk', pc' \notin Replacing,
           pc' \in Working => mem' = disk'
    PROVE  AckedSafe'
<1>1. \A p \in Part : AtLeast(disk'[p], acked'[p])
  BY DistinctAssumption, BoundsAssumption DEF TypeOK, Version, Clean, Edits, AtLeast
<1>2. \A p \in Part : InMainFiles(p)'
  BY <1>1 DEF InMainFiles
<1> QED
  BY <1>2 DEF AckedSafe


\* So does every step, unless a journal is played back into a foreign database.
LEMMA AckedStep ==
    ASSUME TypeOK, Equipped, Progress, Clean, AckedSafe, [Next]_vars, ~mispaired'
    PROVE  AckedSafe'
<1> USE DEF Working, Replacing, Saving, Recovering, Undoing
<1>1. ASSUME NEW discard \in BOOLEAN, OpenProject(discard) \/ CloseProject(discard)
      PROVE  AckedSafe'
  BY <1>1, AckedUntouched DEF OpenProject, CloseProject, GiveUp
<1>2. CASE RecoverProject \/ BackupFails \/ UndoFails \/ Crash
  BY <1>2, AckedUntouched DEF RecoverProject, BackupFails, UndoFails, Crash, GiveUp, history
<1>3. CASE Load
  BY <1>3, AckedOpened DEF Load
<1>4. CASE LoadFails
  <2>1. CASE UNCHANGED <<files, mispaired>>
    BY <1>4, <2>1, AckedUntouched DEF LoadFails, GiveUp
  <2>2. CASE OpenDatabase
    BY <1>4, <2>2, AckedOpened DEF LoadFails, GiveUp
  <2> QED
    BY <1>4, <2>1, <2>2 DEF LoadFails
<1>5. ASSUME NEW part \in Part, Edit(part) PROVE AckedSafe'
  <2>1. mem' = [mem EXCEPT ![part] = edits + 1] /\ mem \in [Part -> Edits]
    BY <1>5 DEF Edit, Clean
  <2>2. ASSUME NEW p \in Part, AtLeast(mem[p], acked[p]) PROVE AtLeast(mem'[p], acked[p])
    <3>1. CASE p # part
      BY <2>1, <2>2, <3>1
    <3>2. CASE p = part
      <4>1. mem'[p] = edits + 1 /\ acked[p] \in Edits
        BY <2>1, <3>2 DEF Clean
      <4>2. edits + 1 # Torn
        BY <1>5, EditNumbers, DistinctAssumption, BoundsAssumption DEF Edit, Version
      <4> QED
        BY <4>1, <4>2, EditNumbers DEF AtLeast, Edits
    <3> QED
      BY <3>1, <3>2
  <2> QED
    BY <1>5, <2>2, AckedUntouched DEF Edit, history
<1>6. CASE Autosave \/ BeginSave
  BY <1>6, AckedUntouched DEF Autosave, BeginSave, SaveStep, history
<1>7. CASE SaveConfig \/ SaveManifest
  <2> DEFINE Saved(part) == disk' = [disk EXCEPT ![part] = mem[part]]
  <2>1. /\ Saved("config") \/ Saved("manifest")
        /\ UNCHANGED <<journal, mem, backups, acked>>
        /\ pc \in Working /\ pc' \in Working
    BY <1>7 DEF SaveConfig, SaveManifest, PutFile, SaveStep, history
  <2>2. ASSUME NEW p \in Part, InMainFiles(p) PROVE InMainFiles(p)'
    BY <2>1, <2>2 DEF InMainFiles, JournalHas, TypeOK, State, Part
  <2> QED
    BY <2>1, <2>2 DEF AckedSafe, InBackup
<1>8. CASE BeginCommit
  <2>1. /\ journal' = disk["database"] /\ journal = None
        /\ disk' = [disk EXCEPT !["database"] = Torn]
        /\ UNCHANGED <<mem, backups, acked>>
        /\ pc \in Working /\ pc' \in Working
    BY <1>8 DEF BeginCommit, SaveStep, history, Clean
  <2>2. disk["database"] # None
    BY DistinctAssumption DEF TypeOK, State, Part
  <2>3. ASSUME NEW p \in Part, InMainFiles(p) PROVE InMainFiles(p)'
    BY <2>1, <2>2, <2>3 DEF InMainFiles, JournalHas, TypeOK, State, Part
  <2> QED
    BY <2>1, <2>3 DEF AckedSafe, InBackup
<1>9. CASE EndCommit
  <2>1. TypeOK' /\ Clean' /\ mem \in [Part -> Edits]
    BY <1>9, TypeStep, CleanStep DEF EndCommit, SaveStep, Clean
  <2>2. disk' = [disk EXCEPT !["database"] = mem["database"]]
    BY <1>9 DEF EndCommit
  <2>3. \A p \in Part : disk'[p] = mem[p]
    BY <1>9, <2>2, Parts DEF EndCommit, SaveStep, Progress, TypeOK, State
  <2>4. disk' = mem
    BY <2>1, <2>2, <2>3 DEF TypeOK, State
  <2> QED
    BY <1>9, <2>1, <2>4, AckedStored DEF EndCommit, SaveStep
<1>10. CASE SaveFails
  <2>1. /\ UNCHANGED <<mem, backups, acked>>
        /\ pc \in Working /\ pc' \in Working
    BY <1>10 DEF SaveFails, history
  <2>2. ASSUME NEW p \in Part, InMainFiles(p) PROVE InMainFiles(p)'
    <3>1. CASE journal = None
      BY <1>10, <2>1, <2>2, <3>1 DEF SaveFails, files, InMainFiles, JournalHas
    <3>2. CASE journal # None
      <4>1. disk' = [disk EXCEPT !["database"] = journal] /\ disk["database"] = Torn
        BY <1>10, <3>2 DEF SaveFails, Clean
      <4>2. CASE p = "database"
        BY <2>1, <2>2, <3>2, <4>1, <4>2 DEF InMainFiles, JournalHas, AtLeast, TypeOK, State
      <4>3. CASE p # "database"
        BY <2>1, <2>2, <4>1, <4>3 DEF InMainFiles, JournalHas, TypeOK, State
      <4> QED
        BY <4>2, <4>3
    <3> QED
      BY <3>1, <3>2
  <2> QED
    BY <2>1, <2>2 DEF AckedSafe, InBackup
<1>11. CASE CreateBackup
  <2>1. /\ backups' = backups \cup {disk} /\ UNCHANGED <<disk, journal, acked>>
        /\ pc' \notin Working
    BY <1>11 DEF CreateBackup, files
  <2>2. \A p \in Part : InBackup(p) => InBackup(p)'
    BY <2>1 DEF InBackup
  <2>3. \A p \in Part : InTornBackup(p) => InTornBackup(p)'
    BY <2>1 DEF InTornBackup, JournalHas
  <2>4. \A p \in Part : InMainFiles(p) => InBackup(p)' \/ InTornBackup(p)'
    BY <2>1 DEF InMainFiles, InBackup, InTornBackup, JournalHas
  <2> QED
    BY <2>1, <2>2, <2>3, <2>4 DEF AckedSafe
<1>12. CASE PutDatabase \/ PutConfig \/ PutManifest \/ UndoDatabase \/ UndoConfig \/ UndoManifest
  <2>1. pc \in Replacing /\ pc' \notin Working /\ UNCHANGED <<journal, backups, acked>>
    BY <1>12 DEF PutDatabase, PutConfig, PutManifest, UndoDatabase, UndoConfig,
                 UndoManifest, Replace, GiveUp, history
  <2> QED
    BY <2>1 DEF AckedSafe, InBackup, InTornBackup, JournalHas
<1>13. CASE Verify
  <2>1. TypeOK' /\ Clean'
    BY <1>13, TypeStep, CleanStep
  <2>2. acked' = disk'
    BY <1>13, VerifiedCleanly DEF Verify
  <2> QED
    BY <1>13, <2>1, <2>2, AckedStored DEF Verify
<1>14. CASE RecoveryFails
  <2>1. disk' = disk /\ journal' = journal
    BY <1>14, VerifiedCleanly DEF RecoveryFails, OpenDatabase, files
  <2> QED
    BY <1>14, <2>1 DEF RecoveryFails, AckedSafe, InBackup, InTornBackup, JournalHas
<1>15. CASE UNCHANGED vars
  BY <1>15 DEF vars, AckedSafe, InBackup, InTornBackup, InMainFiles, JournalHas
<1> QED
  BY <1>1, <1>2, <1>3, <1>4, <1>5, <1>6, <1>7, <1>8, <1>9, <1>10, <1>11, <1>12,
     <1>13, <1>14, <1>15 DEF Next

----------------------------------------------------------------------------
\* The inductive invariant holds initially.
LEMMA InvInit == Init => Inv
<1> SUFFICES ASSUME Init PROVE Inv
  OBVIOUS
<1> USE DEF Working, Replacing, Saving, Recovering, Undoing
<1>1. TypeOK
  BY TypeInit
<1>2. Equipped /\ Progress /\ Offered
  BY DEF Init, Equipped, Progress, Offered
<1>3. 0 \in Edits /\ disk \in [Part -> Edits] /\ acked = disk
  BY DEF Init, Edits
<1>4. Clean /\ OriginKnown
  BY <1>3 DEF Init, Clean, TornWithJournal, OriginKnown
<1>5. AckedSafe
  BY <1>1, <1>3, EditNumbers DEF Init, AckedSafe, InMainFiles, AtLeast
<1> QED
  BY <1>1, <1>2, <1>4, <1>5 DEF Inv

\* Every step keeps it.
LEMMA InvStep == Inv /\ [Next]_vars => Inv'
<1> SUFFICES ASSUME Inv, [Next]_vars PROVE Inv'
  OBVIOUS
<1>1. TypeOK' /\ Equipped' /\ Progress' /\ Offered'
  BY TypeStep, EquippedStep, ProgressStep, OfferedStep DEF Inv
<1>2. ASSUME ~mispaired' PROVE (Clean /\ OriginKnown /\ AckedSafe)'
  <2>1. ~mispaired
    BY <1>2, MispairedStays DEF Inv
  <2> QED
    BY <1>2, <2>1, CleanStep, OriginStep, AckedStep DEF Inv
<1> QED
  BY <1>1, <1>2 DEF Inv

(* The invariant holds in every reachable state.                           *)
THEOREM RecoveryInvariant == Spec => []Inv
BY InvInit, InvStep, PTL DEF Spec

(* The files, the journal and what is in memory always have their types:   *)
(* no step reads a snapshot or a backup that is not there.                 *)
THEOREM TypeCorrect == Spec => []TypeOK
BY RecoveryInvariant, PTL DEF Inv

(* For every number of edits, sessions, crashes and failed recoveries:     *)
(* what save() or recover() has reported as stored is in the main files or *)
(* in a retained backup, unless a journal was played back into a foreign   *)
(* database.                                                               *)
THEOREM ReportedWorkIsKept == Spec => []AckedWorkKept
<1>1. ASSUME Inv PROVE AckedWorkKept
  <2> SUFFICES ASSUME ~mispaired, NEW p \in Part
               PROVE  \E state \in {disk} \cup backups : AtLeast(Found(state, p), acked[p])
    BY DEF AckedWorkKept
  <2>1. CASE InBackup(p)
    BY <2>1 DEF InBackup, Found, AtLeast
  <2>2. CASE InTornBackup(p)
    BY <2>2 DEF InTornBackup, JournalHas, Found
  <2>3. CASE InMainFiles(p)
    BY <2>3 DEF InMainFiles, JournalHas, Found, AtLeast
  <2> QED
    BY <1>1, <2>1, <2>2, <2>3 DEF Inv, AckedSafe
<1> QED
  BY <1>1, RecoveryInvariant, PTL

(* When a session with autosaved work is gone, the next open offers the    *)
(* recovery until a first attempt at it was made.                          *)
THEOREM RecoveryIsOffered == Spec => []FirstCrashIsOffered
<1>1. Inv => FirstCrashIsOffered
  BY DEF Inv, Offered, FirstCrashIsOffered, Recovering
<1> QED
  BY <1>1, RecoveryInvariant, PTL

(* A recovery puts exactly the snapshot in place, or it puts back exactly  *)
(* what it found, unless a journal spoils either.                          *)
THEOREM RecoveriesAreExact == Spec => RecoveryIsExact
<1> DEFINE Exact == ~mispaired' =>
                        /\ Verify => disk' = latest.parts
                        /\ UndoManifest => \A part \in Part : Found(disk, part)' = origin[part]
<1>1. Inv /\ [Next]_vars => [Exact]_vars
  <2> SUFFICES ASSUME Inv, [Next]_vars, ~mispaired'
               PROVE  /\ Verify => disk' = latest.parts
                      /\ UndoManifest => \A p \in Part : Found(disk, p)' = origin[p]
    OBVIOUS
  <2>1. TypeOK /\ Equipped /\ Progress /\ Clean /\ OriginKnown
    BY MispairedStays DEF Inv
  <2>2. ASSUME Verify PROVE disk' = latest.parts
    BY <2>1, <2>2, VerifiedCleanly DEF Verify
  <2>3. ASSUME UndoManifest, NEW p \in Part PROVE Found(disk, p)' = origin[p]
    <3>1. disk'[p] = backup[p] /\ journal' = journal
      BY <2>1, <2>3, Parts DEF UndoManifest, Progress, TypeOK, State
    <3>2. origin[p] = Found(backup, p)
      BY <2>1, <2>3 DEF UndoManifest, OriginKnown, Replacing, Undoing
    <3> QED
      BY <3>1, <3>2 DEF Found
  <2> QED
    BY <2>2, <2>3
<1> QED
  BY <1>1, RecoveryInvariant, PTL DEF Spec, RecoveryIsExact

=============================================================================
