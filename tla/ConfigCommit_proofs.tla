------------------------- MODULE ConfigCommit_proofs -------------------------
(***************************************************************************)
(* The commit coordinator implements the atomic register of                *)
(* ConfigRegister, for any set of calls.  The mapping hides what happens   *)
(* under the mutex, so the proof needs what the mutex holds together:      *)
(* which call is inside, and what the three snapshots are at each stage.   *)
(***************************************************************************)
EXTENDS ConfigCommit, TLAPS

Stages == {"file", "db", "snapshot", "rollback"}

Types ==
    /\ active \in Snapshot \cup {Nil} /\ committed \in Snapshot \cup {Nil}
    /\ version \in Nat
    /\ lock \in Calls \cup {Free}
    /\ globalConfig \in Document /\ globalConfig["foreign"] = Empty
    /\ file \in [Paths -> Document \cup {Nil}]
    /\ dbSnapshot \in Document \cup {Nil}
    /\ pc \in [Calls -> Pcs]
    /\ next \in [Calls -> Snapshot \cup {Nil}]
    /\ previousActive \in [Calls -> Snapshot \cup {Nil}]

\* The call that holds the mutex is the one between CommitBegin and its answer.
Exclusive == \A c \in Calls : pc[c] \in Stages <=> lock = c

WroteTo(c, snapshot) == \E s \in Sections : snapshot.content[s] = c

\* A call that has prepared has a snapshot it has written to; a configuration holds nothing foreign.
Prepared ==
    \A c \in Calls :
        /\ pc[c] \in {"commit"} \cup Stages => next[c] \in Snapshot /\ WroteTo(c, next[c])
        /\ (pc[c] \in {"commit"} \cup Stages /\ c \in Updates) => next[c].content["foreign"] = Empty
        /\ pc[c] = "snapshot" => c \in Activations

\* What active is: the committed snapshot outside a commit and when the file is rolled
\* back, the new one before that; and what the file stage would restore.
Snapshots ==
    /\ lock = Free => active = committed
    /\ \A c \in Calls :
          /\ pc[c] \in {"file", "db", "snapshot"} => active = next[c]
          /\ pc[c] = "file" => previousActive[c] = committed
          /\ pc[c] = "rollback" => active = committed

\* The inductive invariant of the refinement.
CommitInv == Types /\ Exclusive /\ Prepared /\ Snapshots

LEMMA OriginalIsDocument ==
    /\ OriginalConfig \in Document /\ EmbeddedConfig \in Document /\ Torn \in Document
    /\ OriginalConfig["foreign"] = Empty /\ EmbeddedConfig["foreign"] = Empty
BY DEF OriginalConfig, EmbeddedConfig, Torn, Document, Sections

LEMMA AsConfigType ==
    ASSUME NEW doc \in Document
    PROVE  /\ AsConfig(doc) \in Document /\ AsConfig(doc)["foreign"] = Empty
           /\ doc["foreign"] = Empty => AsConfig(doc) = doc
BY DEF AsConfig, Document, Sections

LEMMA AsConfigForgets ==
    ASSUME NEW doc \in Document, doc["foreign"] = Empty, NEW c
    PROVE  AsConfig([doc EXCEPT !["foreign"] = c]) = doc
BY DEF AsConfig, Document, Sections

LEMMA SectionSet ==
    ASSUME NEW doc \in Document, NEW s \in Sections, NEW c \in Calls \cup {Original, Empty}
    PROVE  [doc EXCEPT ![s] = c] \in Document
BY DEF Document

LEMMA StartupType == Types => StartupSource \in Document
BY OriginalIsDocument DEF Types, StartupSource, Paths

LEMMA WrittenType ==
    ASSUME NEW c \in Calls, NEW s \in Snapshot
    PROVE  /\ Target(c, s) \in Paths /\ Written(c, s) \in Document
           /\ s.content \in Document /\ s.path \in Paths
<1>1. s.content \in Document /\ s.path \in Paths
  BY DEF Snapshot
<1>2. AsConfig(s.content) \in Document
  BY <1>1, AsConfigType
<1>3. QED
  BY <1>1, <1>2 DEF Target, Written, Paths

LEMMA CommitInit == Init => CommitInv
<1> SUFFICES ASSUME Init PROVE CommitInv
  OBVIOUS
<1>1. file \in [Paths -> Document \cup {Nil}] /\ dbSnapshot = Nil
  BY OriginalIsDocument DEF Init
<1>2. globalConfig \in Document /\ globalConfig["foreign"] = Empty
  BY OriginalIsDocument DEF Init, StartupSource, Paths
<1>3. pc \in [Calls -> {"idle", "absent"}]
  BY DEF Init
<1>4. QED
  BY <1>1, <1>2, <1>3, CallsDisjoint
     DEF Init, CommitInv, Types, Exclusive, Prepared, Snapshots, Stages, Pcs

\* Preparing makes a document of the configuration of this moment.
LEMMA PrepareStep ==
    ASSUME CommitInv, NEW c \in Calls, CorePrepare(c) \/ CustomerPrepare(c) \/ ActivatePrepare(c)
    PROVE  CommitInv'
<1>1. PICK s \in Snapshot : Prepare(c, s) /\ WroteTo(c, s) /\ (c \in Updates => s.content["foreign"] = Empty)
  <2>1. CASE CorePrepare(c)
    <3> DEFINE doc == [globalConfig EXCEPT !["core"] = c]
    <3>1. doc \in Document /\ doc["foreign"] = Empty /\ doc["core"] = c
      BY SectionSet DEF CommitInv, Types, Sections, Document
    <3> DEFINE snap == [path |-> "local", content |-> doc, yaml |-> FALSE]
    <3>2. snap \in Snapshot /\ snap.content["foreign"] = Empty /\ WroteTo(c, snap)
      BY <3>1 DEF Snapshot, Paths, WroteTo, Sections
    <3>3. Prepare(c, snap)
      BY <2>1 DEF CorePrepare
    <3> HIDE DEF snap
    <3>4. QED
      BY <3>2, <3>3
  <2>2. CASE CustomerPrepare(c)
    <3>1. PICK part \in {"proxy", "rules"} :
             Prepare(c, [path |-> "home", content |-> [globalConfig EXCEPT ![part] = c],
                         yaml |-> FALSE])
      BY <2>2 DEF CustomerPrepare
    <3> DEFINE doc == [globalConfig EXCEPT ![part] = c]
    <3>2. doc \in Document /\ doc["foreign"] = Empty /\ doc[part] = c
      BY SectionSet DEF CommitInv, Types, Sections, Document
    <3> DEFINE snap == [path |-> "home", content |-> doc, yaml |-> FALSE]
    <3>3. snap \in Snapshot /\ snap.content["foreign"] = Empty /\ WroteTo(c, snap)
      BY <3>2 DEF Snapshot, Paths, WroteTo, Sections
    <3>4. Prepare(c, snap)
      BY <3>1
    <3> HIDE DEF snap
    <3>5. QED
      BY <3>3, <3>4
  <2>3. CASE ActivatePrepare(c)
    <3>1. PICK isYaml \in BOOLEAN :
             Prepare(c, [path |-> "software", content |-> [Torn EXCEPT !["foreign"] = c],
                         yaml |-> isYaml])
      BY <2>3 DEF ActivatePrepare
    <3>2. /\ [Torn EXCEPT !["foreign"] = c] \in Document
          /\ [Torn EXCEPT !["foreign"] = c]["foreign"] = c
      BY OriginalIsDocument, SectionSet DEF Sections, Torn
    <3>3. c \notin Updates
      BY <2>3, CallsDisjoint DEF ActivatePrepare, Updates
    <3> DEFINE snap == [path |-> "software", content |-> [Torn EXCEPT !["foreign"] = c],
                        yaml |-> isYaml]
    <3>4. snap \in Snapshot /\ WroteTo(c, snap)
      BY <3>2 DEF Snapshot, Paths, WroteTo, Sections
    <3> HIDE DEF snap
    <3>5. QED
      BY <3>1, <3>3, <3>4 DEF snap
  <2>4. QED
    BY <2>1, <2>2, <2>3
<1>2. Types'
  BY <1>1 DEF CommitInv, Types, Prepare, Pcs
<1>3. Exclusive'
  BY <1>1 DEF CommitInv, Types, Exclusive, Prepare, Stages
<1>4. Prepared'
  BY <1>1 DEF CommitInv, Types, Prepared, Prepare, Stages
<1>5. Snapshots'
  BY <1>1 DEF CommitInv, Types, Snapshots, Prepare
<1>6. QED
  BY <1>2, <1>3, <1>4, <1>5 DEF CommitInv

LEMMA BeginStep ==
    ASSUME CommitInv, NEW c \in Calls, CommitBegin(c)
    PROVE  CommitInv'
<1>1. Types'
  BY DEF CommitInv, Types, CommitBegin, Pcs
<1>2. Exclusive'
  BY CallsDisjoint DEF CommitInv, Types, Exclusive, CommitBegin, Stages
<1>3. Prepared'
  BY DEF CommitInv, Types, Prepared, CommitBegin, Stages
<1>4. Snapshots'
  BY CallsDisjoint DEF CommitInv, Types, Exclusive, Prepared, Snapshots, CommitBegin, Stages
<1>5. QED
  BY <1>1, <1>2, <1>3, <1>4 DEF CommitInv

\* A write that fails leaves a file that is as it was, or torn.
LEMMA FailedWrite ==
    ASSUME Types, NEW path \in Paths, WriteFails(path)
    PROVE  file' \in [Paths -> Document \cup {Nil}]
BY OriginalIsDocument DEF Types, WriteFails

LEMMA FileStep ==
    ASSUME CommitInv, NEW c \in Calls, CommitFile(c)
    PROVE  CommitInv'
<1>1. pc[c] = "file" /\ next[c] \in Snapshot /\ lock = c
  BY DEF CommitInv, Exclusive, Prepared, CommitFile, Stages
<1>2. file' \in [Paths -> Document \cup {Nil}]
  BY <1>1, WrittenType, FailedWrite DEF CommitInv, Types, CommitFile
<1>3. Types'
  BY <1>2 DEF CommitInv, Types, CommitFile, Pcs
<1>4. Exclusive'
  BY <1>1, CallsDisjoint DEF CommitInv, Types, Exclusive, CommitFile, Stages
<1>5. Prepared'
  BY <1>1 DEF CommitInv, Types, Prepared, CommitFile, Stages
<1>6. Snapshots'
  BY <1>1, CallsDisjoint DEF CommitInv, Types, Exclusive, Snapshots, CommitFile, Stages
<1>7. QED
  BY <1>3, <1>4, <1>5, <1>6 DEF CommitInv

\* The database stages: success, or active is what was committed.
LEMMA DbStep ==
    ASSUME CommitInv, NEW c \in Calls, CommitDb(c) \/ ActivateDb(c) \/ ActivateSnapshot(c)
    PROVE  CommitInv'
<1>1. pc[c] \in {"db", "snapshot"} /\ next[c] \in Snapshot /\ lock = c /\ active = next[c]
  BY DEF CommitInv, Exclusive, Prepared, Snapshots, CommitDb, ActivateDb, ActivateSnapshot, Stages
<1>2. next[c].content \in Document
  BY <1>1, WrittenType
<1>3. [globalConfig EXCEPT !["foreign"] = c] \in Document
  BY SectionSet DEF CommitInv, Types, Sections
<1>4. /\ dbSnapshot' \in Document \cup {Nil}
      /\ globalConfig' \in Document /\ globalConfig'["foreign"] = Empty
  BY <1>1, <1>2, <1>3 DEF CommitInv, Types, Prepared, CommitDb, ActivateDb, ActivateSnapshot,
                          DbFailure, Stages
<1>5. \/ Succeed(c) /\ UNCHANGED active
      \/ pc' = [pc EXCEPT ![c] = "rollback"] /\ active' = committed /\ UNCHANGED <<committed, version, lock>>
      \/ /\ c \in Activations /\ pc' = [pc EXCEPT ![c] = "snapshot"]
         /\ UNCHANGED <<active, committed, version, lock>>
  BY DEF CommitDb, ActivateDb, ActivateSnapshot, DbFailure
<1>6. UNCHANGED <<file, next, previousActive>>
  BY DEF CommitDb, ActivateDb, ActivateSnapshot
<1>7. Types'
  BY <1>1, <1>4, <1>5, <1>6 DEF CommitInv, Types, Succeed, Pcs
<1>8. Exclusive'
  BY <1>1, <1>5, CallsDisjoint DEF CommitInv, Types, Exclusive, Succeed, Stages
<1>9. Prepared'
  BY <1>1, <1>5, <1>6 DEF CommitInv, Types, Prepared, Succeed, Stages
<1>10. Snapshots'
  BY <1>1, <1>5, <1>6, CallsDisjoint DEF CommitInv, Types, Exclusive, Snapshots, Succeed, Stages
<1>11. QED
  BY <1>7, <1>8, <1>9, <1>10 DEF CommitInv

LEMMA RollbackStep ==
    ASSUME CommitInv, NEW c \in Calls, CommitRollback(c)
    PROVE  CommitInv'
<1>1. pc[c] = "rollback" /\ lock = c /\ next[c] \in Snapshot /\ active = committed
  BY DEF CommitInv, Exclusive, Prepared, Snapshots, CommitRollback, Stages
<1>2. file' \in [Paths -> Document \cup {Nil}]
  <2>1. CASE committed = Nil
    BY <1>1, <2>1, WrittenType DEF CommitInv, Types, CommitRollback, Paths
  <2>2. CASE committed # Nil
    BY <1>1, <2>2, WrittenType, FailedWrite DEF CommitInv, Types, CommitRollback
  <2>3. QED
    BY <2>1, <2>2
<1>3. Types'
  BY <1>2 DEF CommitInv, Types, CommitRollback, Pcs
<1>4. Exclusive'
  BY <1>1, CallsDisjoint DEF CommitInv, Types, Exclusive, CommitRollback, Stages
<1>5. Prepared'
  BY <1>1 DEF CommitInv, Types, Prepared, CommitRollback, Stages
<1>6. Snapshots'
  BY <1>1, CallsDisjoint DEF CommitInv, Types, Exclusive, Snapshots, CommitRollback, Stages
<1>7. QED
  BY <1>3, <1>4, <1>5, <1>6 DEF CommitInv

LEMMA RestartStep ==
    ASSUME CommitInv, Restart
    PROVE  CommitInv'
<1>1. AsConfig(StartupSource) \in Document /\ AsConfig(StartupSource)["foreign"] = Empty
  BY StartupType, AsConfigType DEF CommitInv
<1>2. \A c \in Calls : pc'[c] \in {"absent", "idle", "ok", "failed"}
  BY DEF CommitInv, Types, Restart
<1>3. Types'
  BY <1>1 DEF CommitInv, Types, Restart, Pcs
<1>4. QED
  BY <1>2, <1>3, CallsDisjoint DEF CommitInv, Exclusive, Prepared, Snapshots, Restart, Stages

LEMMA CommitStep == CommitInv /\ [Next]_vars => CommitInv'
<1> SUFFICES ASSUME CommitInv, [Next]_vars PROVE CommitInv'
  OBVIOUS
<1>1. CASE UNCHANGED vars
  BY <1>1 DEF vars, CommitInv, Types, Exclusive, Prepared, Snapshots
<1>2. CASE Restart
  BY <1>2, RestartStep
<1>3. ASSUME NEW c \in Calls,
             \/ CorePrepare(c) \/ CustomerPrepare(c) \/ ActivatePrepare(c)
             \/ CommitBegin(c) \/ CommitFile(c) \/ CommitDb(c)
             \/ ActivateDb(c) \/ ActivateSnapshot(c) \/ CommitRollback(c)
      PROVE  CommitInv'
  BY <1>3, PrepareStep, BeginStep, FileStep, DbStep, RollbackStep
<1>4. QED
  BY <1>1, <1>2, <1>3 DEF Next

-----------------------------------------------------------------------------
(* The refinement *)

\* Initial states map to initial states.
LEMMA RegisterStarts == Init => Register!RegisterInit
<1> SUFFICES ASSUME Init PROVE Register!RegisterInit
  OBVIOUS
<1>1. globalConfig \in Document
  BY CommitInit DEF CommitInv, Types
<1>2. \A c \in Calls : pc[c] \notin {"ok", "failed"}
  BY DEF Init
<1>3. QED
  BY <1>1, <1>2 DEF Init, Register!RegisterInit

\* A step that neither answers a call nor frees the mutex with another snapshot in
\* force shows nothing.
LEMMA Hidden ==
    ASSUME UNCHANGED <<version, globalConfig, dbSnapshot>>,
           (IF lock' = Free THEN active' ELSE committed') = (IF lock = Free THEN active ELSE committed),
           \A c \in Calls : IF pc[c] \in {"ok", "failed"} THEN pc'[c] = pc[c]
                            ELSE pc'[c] \notin {"ok", "failed"}
    PROVE  UNCHANGED Register!registerVars
BY DEF Register!registerVars

\* A call that fails, with everything as it was.
LEMMA Refused ==
    ASSUME NEW c \in Calls, pc \in [Calls -> Pcs], pc[c] \notin {"ok", "failed"},
           pc' = [pc EXCEPT ![c] = "failed"],
           UNCHANGED <<version, globalConfig, dbSnapshot>>,
           (IF lock' = Free THEN active' ELSE committed') = (IF lock = Free THEN active ELSE committed)
    PROVE  Register!Refuse(c)
BY DEF Register!Refuse

\* A commit that succeeds.
LEMMA Committed ==
    ASSUME CommitInv, NEW c \in Calls,
           CommitDb(c) \/ ActivateSnapshot(c), Succeed(c)
    PROVE  Register!Commit(c)
<1>1. /\ pc[c] \in {"db", "snapshot"} /\ next[c] \in Snapshot /\ lock = c
      /\ active = next[c] /\ pc \in [Calls -> Pcs] /\ globalConfig \in Document
  BY DEF CommitInv, Types, Exclusive, Prepared, Snapshots, CommitDb, ActivateSnapshot, Stages
<1>2. /\ pc' = [pc EXCEPT ![c] = "ok"] /\ lock' = Free /\ version' = version + 1
      /\ pc'[c] # "rollback"
  BY <1>1 DEF Succeed
<1>3. /\ next[c].content \in Document /\ next[c] # Nil
      /\ \E s \in DOMAIN next[c].content : next[c].content[s] = c
  <2>1. next[c].content \in Document /\ next[c] # Nil
    BY <1>1, WrittenType, NilAssumption
  <2>2. DOMAIN next[c].content = Sections /\ WroteTo(c, next[c])
    BY <1>1, <2>1 DEF Document, CommitInv, Prepared, Stages
  <2>3. QED
    BY <2>1, <2>2 DEF WroteTo
<1>4. CASE CommitDb(c)
  <2>1. /\ dbSnapshot' = next[c].content /\ globalConfig' = next[c].content
        /\ active' = next[c] /\ c \in Updates
    BY <1>1, <1>2, <1>4 DEF CommitDb, DbFailure
  <2>2. AsConfig(dbSnapshot') = next[c].content /\ dbSnapshot' # Nil
    BY <1>1, <1>3, <2>1, AsConfigType, NilAssumption DEF CommitInv, Prepared, Stages
  <2>3. c \notin Activations
    BY <2>1, CallsDisjoint
  <2>4. QED
    BY <1>1, <1>2, <1>3, <2>1, <2>2, <2>3 DEF Register!Commit
<1>5. CASE ActivateSnapshot(c)
  <2>1. /\ dbSnapshot' = [globalConfig EXCEPT !["foreign"] = c] /\ globalConfig' = globalConfig
        /\ active' = next[c] /\ c \in Activations
    BY <1>1, <1>2, <1>5 DEF CommitInv, Prepared, ActivateSnapshot, DbFailure
  <2>2. AsConfig(dbSnapshot') = globalConfig /\ dbSnapshot' # Nil
    <3>1. globalConfig["foreign"] = Empty
      BY DEF CommitInv, Types
    <3>2. [globalConfig EXCEPT !["foreign"] = c] \in Document
      BY <1>1, SectionSet DEF Sections
    <3>3. AsConfig([globalConfig EXCEPT !["foreign"] = c]) = globalConfig
      BY <1>1, <3>1, AsConfigForgets
    <3>4. QED
      BY <2>1, <3>2, <3>3, NilAssumption
  <2>3. QED
    BY <1>1, <1>2, <1>3, <2>1, <2>2 DEF Register!Commit
<1>6. QED
  BY <1>4, <1>5

\* Every step of the coordinator is a step of the register, or shows nothing.
LEMMA RegisterSteps ==
    ASSUME CommitInv, [Next]_vars
    PROVE  [Register!RegisterNext]_(Register!registerVars)
<1>1. pc \in [Calls -> Pcs]
  BY DEF CommitInv, Types
<1>2. CASE UNCHANGED vars
  BY <1>2, Hidden DEF vars
<1>3. CASE Restart
  <2>1. globalConfig' \in Document
    BY <1>3, RestartStep DEF CommitInv, Types
  <2>2. \A c \in Calls : \/ pc[c] \in {"absent", "idle", "ok"} /\ pc'[c] = pc[c]
                         \/ pc[c] \notin {"absent", "idle", "ok"} /\ pc'[c] = "failed"
    BY <1>3 DEF Restart
  <2>3. Register!RegisterRestart
    BY <1>3, <2>1, <2>2 DEF Restart, Register!RegisterRestart
  <2>4. QED
    BY <2>3 DEF Register!RegisterNext
<1>4. ASSUME NEW c \in Calls,
             \/ CorePrepare(c) \/ CustomerPrepare(c) \/ ActivatePrepare(c)
             \/ CommitBegin(c) \/ CommitFile(c) \/ CommitDb(c)
             \/ ActivateDb(c) \/ ActivateSnapshot(c) \/ CommitRollback(c)
      PROVE  \/ UNCHANGED Register!registerVars
             \/ Register!Refuse(c) \/ Register!Commit(c)
  <2>1. ASSUME NEW s, Prepare(c, s)
        PROVE  UNCHANGED Register!registerVars \/ Register!Refuse(c)
    <3>1. CASE pc' = [pc EXCEPT ![c] = "commit"]
      BY <1>1, <2>1, <3>1, Hidden DEF Prepare
    <3>2. CASE pc' = [pc EXCEPT ![c] = "failed"]
      BY <1>1, <2>1, <3>2, Refused DEF Prepare
    <3>3. QED
      BY <2>1, <3>1, <3>2 DEF Prepare
  <2>2. CASE CorePrepare(c) \/ CustomerPrepare(c) \/ ActivatePrepare(c)
    BY <2>1, <2>2 DEF CorePrepare, CustomerPrepare, ActivatePrepare
  <2>3. CASE CommitBegin(c)
    <3>1. lock = Free /\ lock' # Free /\ active = committed
      BY <2>3, CallsDisjoint DEF CommitInv, Snapshots, CommitBegin
    <3>2. QED
      BY <1>1, <2>3, <3>1, Hidden DEF CommitBegin
  <2>4. CASE CommitFile(c)
    <3>1. lock # Free /\ previousActive[c] = committed
      BY <2>4, CallsDisjoint DEF CommitInv, Exclusive, Snapshots, CommitFile, Stages
    <3>2. CASE pc' = [pc EXCEPT ![c] = "db"]
      BY <1>1, <2>4, <3>1, <3>2, Hidden DEF CommitFile
    <3>3. CASE active' = previousActive[c] /\ lock' = Free /\ pc' = [pc EXCEPT ![c] = "failed"]
      BY <1>1, <2>4, <3>1, <3>3, Refused DEF CommitFile
    <3>4. QED
      BY <2>4, <3>2, <3>3 DEF CommitFile
  <2>5. CASE CommitDb(c) \/ ActivateDb(c) \/ ActivateSnapshot(c)
    <3>1. lock # Free /\ pc[c] \notin {"ok", "failed"}
      BY <2>5, CallsDisjoint
         DEF CommitInv, Exclusive, CommitDb, ActivateDb, ActivateSnapshot, Stages
    <3>2. CASE DbFailure(c)
      BY <1>1, <3>1, <3>2, Hidden DEF DbFailure
    <3>3. CASE ActivateDb(c) /\ ~DbFailure(c)
      BY <1>1, <3>1, <3>3, Hidden DEF ActivateDb
    <3>4. CASE (CommitDb(c) \/ ActivateSnapshot(c)) /\ Succeed(c)
      BY <3>4, Committed
    <3>5. QED
      BY <2>5, <3>2, <3>3, <3>4 DEF CommitDb, ActivateSnapshot
  <2>6. CASE CommitRollback(c)
    <3>1. lock # Free /\ active = committed /\ pc[c] = "rollback"
      BY <2>6, CallsDisjoint DEF CommitInv, Exclusive, Snapshots, CommitRollback, Stages
    <3>2. QED
      BY <1>1, <2>6, <3>1, Refused DEF CommitRollback
  <2>7. QED
    BY <1>4, <2>2, <2>3, <2>4, <2>5, <2>6
<1>5. QED
  BY <1>2, <1>3, <1>4 DEF Next, Register!RegisterNext

\* The coordinator and the services that use it implement the atomic register, for any
\* calls in any number and wherever files, the database or the process fail: a commit is
\* seen as a whole when it is answered with success, and not at all otherwise.
THEOREM RegisterImplemented == Spec => ImplementsRegister
<1>1. Init => CommitInv /\ Register!RegisterInit
  BY CommitInit, RegisterStarts
<1>2. CommitInv /\ [Next]_vars => CommitInv'
  BY CommitStep
<1>3. CommitInv /\ [Next]_vars => [Register!RegisterNext]_(Register!registerVars)
  BY RegisterSteps
<1>4. QED
  BY <1>1, <1>2, <1>3, PTL DEF Spec, ImplementsRegister, Register!RegisterSpec

-----------------------------------------------------------------------------
(* The file of the committed configuration *)

\* Files work and no activation is made: only the database fails, and the process.
Quiet == ~fileFails /\ \A c \in Activations : pc[c] \in {"absent", "idle"}

\* The committed configuration is in its file except between the write of the file and
\* the end of the commit; there the new one is in its own file, if the database takes it.
DiskInv ==
    /\ \A c \in Updates : pc[c] \in {"commit"} \cup Stages => ~next[c].yaml
    /\ Quiet /\ committed # Nil => committed.content["foreign"] = Empty /\ ~committed.yaml
    /\ Quiet /\ committed # Nil /\ (\A c \in Calls : pc[c] \notin {"db", "rollback"})
          => file[committed.path] = committed.content
    /\ Quiet => \A c \in Calls : pc[c] = "db" => file[next[c].path] = next[c].content

LEMMA CallsSplit == \A c \in Calls : c \in Updates <=> c \notin Activations
BY CallsDisjoint DEF Calls, Updates

\* Where a configuration service writes a configuration, and what.
LEMMA WrittenByUpdate ==
    ASSUME NEW c \in Updates, NEW s \in Snapshot, s.content["foreign"] = Empty
    PROVE  Target(c, s) = s.path /\ Written(c, s) = s.content
<1>1. c \in Calls /\ c \notin Activations
  BY CallsDisjoint DEF Calls, Updates
<1>2. AsConfig(s.content) = s.content
  BY <1>1, WrittenType, AsConfigType
<1>3. QED
  BY <1>1, <1>2 DEF Target, Written

\* An activation that has begun is never as if it had not.
LEMMA QuietBefore ==
    ASSUME CommitInv, NEW c \in Calls, NEW stage,
           stage \notin {"absent", "idle"}, pc' = [pc EXCEPT ![c] = stage], fileFails' = fileFails,
           Quiet'
    PROVE  Quiet /\ c \in Updates
<1>1. pc \in [Calls -> Pcs] /\ Activations \subseteq Calls
  BY DEF CommitInv, Types, Calls
<1>2. c \notin Activations
  BY <1>1 DEF Quiet
<1>3. QED
  BY <1>1, <1>2, CallsSplit DEF Quiet

LEMMA DiskPrepare ==
    ASSUME CommitInv, DiskInv, NEW c \in Calls, CorePrepare(c) \/ CustomerPrepare(c) \/ ActivatePrepare(c)
    PROVE  DiskInv'
<1>1. PICK s : Prepare(c, s) /\ (c \in Updates => ~s.yaml)
  <2>1. CASE ActivatePrepare(c)
    BY <2>1, CallsSplit DEF ActivatePrepare
  <2>2. CASE CorePrepare(c)
    BY <2>2 DEF CorePrepare
  <2>3. CASE CustomerPrepare(c)
    BY <2>3 DEF CustomerPrepare
  <2>4. QED
    BY <2>1, <2>2, <2>3
<1>2. /\ pc \in [Calls -> Pcs] /\ next \in [Calls -> Snapshot \cup {Nil}] /\ Updates \subseteq Calls
      /\ UNCHANGED <<fileFails, committed, file>>
      /\ \A d \in Calls \ {c} : pc'[d] = pc[d] /\ next'[d] = next[d]
      /\ pc[c] = "idle" /\ pc'[c] \in {"commit", "failed"}
      /\ pc'[c] = "commit" => next'[c] = s
  BY <1>1 DEF CommitInv, Types, Prepare, Calls, Updates
<1>3. Quiet' => Quiet
  <2>1. \E stage \in {"commit", "failed"} : pc' = [pc EXCEPT ![c] = stage]
    BY <1>1 DEF Prepare
  <2>2. QED
    BY <1>2, <2>1, QuietBefore
<1>4. \A d \in Updates : pc'[d] \in {"commit"} \cup Stages => ~next'[d].yaml
  BY <1>1, <1>2 DEF DiskInv, Stages
<1>5. (\A d \in Calls : pc'[d] \notin {"db", "rollback"}) => \A d \in Calls : pc[d] \notin {"db", "rollback"}
  BY <1>2
<1>6. Quiet' => \A d \in Calls : pc'[d] = "db" => file'[next'[d].path] = next'[d].content
  BY <1>2, <1>3 DEF DiskInv
<1>7. QED
  BY <1>2, <1>3, <1>4, <1>5, <1>6 DEF DiskInv

LEMMA DiskBegin ==
    ASSUME CommitInv, DiskInv, NEW c \in Calls, CommitBegin(c)
    PROVE  DiskInv'
<1>1. /\ pc \in [Calls -> Pcs] /\ Updates \subseteq Calls
      /\ UNCHANGED <<fileFails, committed, file, next>>
      /\ pc[c] = "commit" /\ pc' = [pc EXCEPT ![c] = "file"]
  BY DEF CommitInv, Types, CommitBegin, Calls, Updates
<1>2. Quiet' => Quiet
  BY <1>1, QuietBefore
<1>3. (\A d \in Calls : pc'[d] \notin {"db", "rollback"}) => \A d \in Calls : pc[d] \notin {"db", "rollback"}
  BY <1>1
<1>4. QED
  BY <1>1, <1>2, <1>3 DEF DiskInv, Stages

\* The file is written: with files that work, the new configuration is in it.
LEMMA DiskFile ==
    ASSUME CommitInv, DiskInv, NEW c \in Calls, CommitFile(c)
    PROVE  DiskInv'
<1>1. /\ pc \in [Calls -> Pcs] /\ Updates \subseteq Calls /\ file \in [Paths -> Document \cup {Nil}]
      /\ UNCHANGED <<fileFails, committed, next>>
      /\ pc[c] = "file" /\ next[c] \in Snapshot /\ lock = c
  BY DEF CommitInv, Types, Exclusive, Prepared, CommitFile, Calls, Updates, Stages
<1>2. \A d \in Updates : pc'[d] \in {"commit"} \cup Stages => ~next'[d].yaml
  BY <1>1 DEF DiskInv, CommitFile, Stages
<1>3. CASE Quiet'
  <2>1. \E stage \in {"db", "failed"} : pc' = [pc EXCEPT ![c] = stage]
    BY DEF CommitFile
  <2>2. Quiet /\ c \in Updates
    BY <1>1, <1>3, <2>1, QuietBefore
  <2>3. /\ pc' = [pc EXCEPT ![c] = "db"]
        /\ file' = [file EXCEPT ![Target(c, next[c])] = Written(c, next[c])]
    BY <2>2 DEF Quiet, CommitFile, WriteFails
  <2>4. next[c].content["foreign"] = Empty /\ next[c].path \in Paths
    BY <1>1, <2>2, WrittenType DEF CommitInv, Prepared, Stages
  <2>5. file'[next[c].path] = next[c].content
    BY <1>1, <2>2, <2>3, <2>4, WrittenByUpdate
  <2>6. \A d \in Calls : d # c => pc[d] \notin Stages
    BY <1>1 DEF CommitInv, Exclusive
  <2>7. pc'[c] = "db" /\ \A d \in Calls : d # c => pc'[d] # "db"
    BY <1>1, <2>3, <2>6 DEF Stages
  <2>8. QED
    BY <1>1, <1>2, <2>2, <2>5, <2>7 DEF DiskInv
<1>4. QED
  BY <1>2, <1>3 DEF DiskInv

\* The database takes the snapshot whose file was written, or fails.
LEMMA DiskDb ==
    ASSUME CommitInv, DiskInv, NEW c \in Calls, CommitDb(c) \/ ActivateDb(c) \/ ActivateSnapshot(c)
    PROVE  DiskInv'
<1>1. /\ pc \in [Calls -> Pcs] /\ Updates \subseteq Calls
      /\ UNCHANGED <<fileFails, file, next>>
      /\ pc[c] \in {"db", "snapshot"} /\ next[c] \in Snapshot /\ lock = c
  BY DEF CommitInv, Types, Exclusive, Prepared, CommitDb, ActivateDb, ActivateSnapshot, Calls,
         Updates, Stages
<1>2. \/ pc' = [pc EXCEPT ![c] = "ok"] /\ committed' = next[c]
      \/ pc' = [pc EXCEPT ![c] = "rollback"] /\ committed' = committed
      \/ pc' = [pc EXCEPT ![c] = "snapshot"] /\ committed' = committed
  BY DEF CommitDb, ActivateDb, ActivateSnapshot, Succeed, DbFailure
<1>3. \A d \in Updates : pc'[d] \in {"commit"} \cup Stages => ~next'[d].yaml
  BY <1>1, <1>2 DEF DiskInv, Stages
<1>4. CASE Quiet'
  <2>1. Quiet /\ c \in Updates /\ c \notin Activations
    BY <1>1, <1>2, <1>4, QuietBefore, CallsSplit
  <2>2. pc[c] = "db" /\ CommitDb(c)
    BY <1>1, <2>1 DEF CommitInv, Prepared, ActivateDb, ActivateSnapshot
  <2>3. next[c].content["foreign"] = Empty /\ ~next[c].yaml /\ file[next[c].path] = next[c].content
    BY <1>1, <2>1, <2>2 DEF CommitInv, Prepared, DiskInv, Stages
  <2>4. \A d \in Calls : d # c => pc[d] \notin Stages
    BY <1>1 DEF CommitInv, Exclusive
  <2>5. \A d \in Calls : pc'[d] # "db"
    BY <1>1, <1>2, <2>4 DEF Stages
  <2>6. CASE pc' = [pc EXCEPT ![c] = "ok"] /\ committed' = next[c]
    BY <1>1, <1>3, <2>3, <2>5, <2>6 DEF DiskInv
  <2>7. CASE pc' = [pc EXCEPT ![c] = "rollback"] /\ committed' = committed
    <3>1. pc'[c] = "rollback"
      BY <1>1, <2>7
    <3>2. QED
      BY <1>1, <1>3, <2>1, <2>5, <2>7, <3>1 DEF DiskInv
  <2>8. CASE pc' = [pc EXCEPT ![c] = "snapshot"]
    BY <1>1, <2>1, <2>2, <2>8 DEF CommitDb, Succeed, DbFailure
  <2>9. QED
    BY <1>2, <2>6, <2>7, <2>8
<1>5. QED
  BY <1>3, <1>4 DEF DiskInv

\* The rollback writes the committed configuration again.
LEMMA DiskRollback ==
    ASSUME CommitInv, DiskInv, NEW c \in Calls, CommitRollback(c)
    PROVE  DiskInv'
<1>1. /\ pc \in [Calls -> Pcs] /\ Updates \subseteq Calls /\ file \in [Paths -> Document \cup {Nil}]
      /\ committed \in Snapshot \cup {Nil}
      /\ UNCHANGED <<fileFails, committed, next>>
      /\ pc[c] = "rollback" /\ pc' = [pc EXCEPT ![c] = "failed"] /\ lock = c
  BY DEF CommitInv, Types, Exclusive, CommitRollback, Calls, Updates, Stages
<1>2. \A d \in Updates : pc'[d] \in {"commit"} \cup Stages => ~next'[d].yaml
  BY <1>1 DEF DiskInv, Stages
<1>3. CASE Quiet'
  <2>1. Quiet /\ c \in Updates
    BY <1>1, <1>3, QuietBefore
  <2>2. \A d \in Calls : pc'[d] # "db"
    BY <1>1 DEF CommitInv, Exclusive, Stages
  <2>3. CASE committed = Nil
    BY <1>1, <1>2, <2>2, <2>3 DEF DiskInv
  <2>4. CASE committed # Nil
    <3>1. committed \in Snapshot /\ committed.content["foreign"] = Empty /\ ~committed.yaml
      BY <1>1, <2>1, <2>4 DEF DiskInv
    <3>2. file' = [file EXCEPT ![Target(c, committed)] = Written(c, committed)]
      BY <2>1, <2>4, <3>1 DEF CommitRollback, WriteFails, Quiet
    <3>3. file'[committed.path] = committed.content
      BY <1>1, <2>1, <3>1, <3>2, WrittenByUpdate, WrittenType
    <3>4. QED
      BY <1>1, <1>2, <2>2, <3>1, <3>3 DEF DiskInv
  <2>5. QED
    BY <2>3, <2>4
<1>4. QED
  BY <1>2, <1>3 DEF DiskInv

\* Only the database failing, the committed core or customer configuration is in its file
\* whenever no commit is under way, whatever calls are made and wherever the process dies.
THEOREM CommittedIsOnDisk == Spec => []CommittedOnDisk
<1>1. Init => CommitInv /\ DiskInv
  <2> SUFFICES ASSUME Init PROVE DiskInv
    BY CommitInit
  <2>1. \A c \in Calls : pc[c] \in {"idle", "absent"}
    BY DEF Init
  <2>2. QED
    BY <2>1 DEF Init, DiskInv, Stages, Calls, Updates
<1>2. CommitInv /\ DiskInv /\ [Next]_vars => CommitInv' /\ DiskInv'
  <2> SUFFICES ASSUME CommitInv, DiskInv, [Next]_vars PROVE DiskInv'
    BY CommitStep
  <2>1. CASE UNCHANGED vars
    BY <2>1 DEF vars, DiskInv, Quiet
  <2>2. CASE Restart
    <3>1. \A c \in Calls : pc'[c] \in {"absent", "idle", "ok", "failed"}
      BY <2>2 DEF CommitInv, Types, Restart
    <3>2. QED
      BY <2>2, <3>1 DEF Restart, DiskInv, Stages, Calls, Updates
  <2>3. ASSUME NEW c \in Calls,
               \/ CorePrepare(c) \/ CustomerPrepare(c) \/ ActivatePrepare(c)
               \/ CommitBegin(c) \/ CommitFile(c) \/ CommitDb(c)
               \/ ActivateDb(c) \/ ActivateSnapshot(c) \/ CommitRollback(c)
        PROVE  DiskInv'
    BY <2>3, DiskPrepare, DiskBegin, DiskFile, DiskDb, DiskRollback
  <2>4. QED
    BY <2>1, <2>2, <2>3 DEF Next
<1>3. CommitInv /\ DiskInv => CommittedOnDisk
  <2> SUFFICES ASSUME CommitInv, DiskInv, lock = Free, committed # Nil, Quiet
               PROVE  file[committed.path] = committed.content
    BY DEF CommittedOnDisk, Quiet
  <2>1. \A c \in Calls : pc[c] \notin Stages
    BY CallsDisjoint DEF CommitInv, Exclusive
  <2>2. QED
    BY <2>1 DEF DiskInv, Stages
<1>4. QED
  BY <1>1, <1>2, <1>3, PTL DEF Spec

=============================================================================
