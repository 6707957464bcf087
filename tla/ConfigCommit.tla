----------------------------- MODULE ConfigCommit -----------------------------
(***************************************************************************)
(* EffectiveConfigCommitCoordinator of                                     *)
(* processor/config/runtime_commit_coordinator.go and its three users in   *)
(* app/http/services: CoreConfigService, CustomerConfigService and         *)
(* SoftwareConfigService.Activate.  A commit writes a file, then the       *)
(* database (and the global configuration), and undoes the file when the   *)
(* database fails.  The whole commit holds the coordinator's mutex, but    *)
(* the services read the configuration that they modify before they take   *)
(* it.                                                                     *)
(*                                                                         *)
(* A document is a function from sections to the call that last wrote the  *)
(* section: "core", "proxy" and "rules" (the customer's) of the program's  *)
(* own configuration, "foreign" for the content of another program's file. *)
(* Decoding a foreign document as a Config gives empty sections, or fails  *)
(* when it is YAML.                                                        *)
(*                                                                         *)
(* Each member of CoreUpdates, CustomerUpdates, Activations is one call.   *)
(***************************************************************************)
EXTENDS Naturals, FiniteSets

CONSTANTS
    CoreUpdates, CustomerUpdates, Activations,
    Original,        \* writer of the configuration the program was started with
    Empty,           \* a section that the document does not have
    Nil,             \* no snapshot, no file
    Free,            \* value of lock when nobody holds the coordinator's mutex
    Scenarios        \* which calls are made together, and whether files may fail

Calls == CoreUpdates \cup CustomerUpdates \cup Activations
Updates == CoreUpdates \cup CustomerUpdates

ASSUME CallsDisjoint ==
    /\ CoreUpdates \cap CustomerUpdates = {}
    /\ Activations \cap Updates = {}
    /\ {Original, Empty, Free} \cap Calls = {}
    /\ Original # Empty
ASSUME ScenariosAssumption == Scenarios \subseteq [calls : SUBSET Calls, fileFails : BOOLEAN]

Sections == {"core", "proxy", "rules", "foreign"}
Document == [Sections -> Calls \cup {Original, Empty}]
\* ./config.json, ~/.aliang/config.json, the other program's file, and the
\* file that is really called "~/.aliang/config.json"
Paths == {"local", "home", "software", "tilde"}
Torn == [s \in Sections |-> Empty]             \* a truncated file
Snapshot == [path : Paths, content : Document, yaml : BOOLEAN]

ASSUME NilAssumption == Nil \notin Document \cup Snapshot

VARIABLES
    active, committed, version,    \* fields of the coordinator
    lock,                          \* the call that holds its mutex, or Free
    globalConfig,                  \* processor/config.globalConfig
    file,                          \* content of each file, or Nil
    dbSnapshot,                    \* the latest effective-config snapshot
    inUse,                         \* software_configs row with in_use set
    fileFails,                     \* environment: writes to files may fail, before
                                   \* or after truncation
    pc,                            \* where each call stands
    next,                          \* the snapshot the call commits
    previousActive                 \* Commit's local variable

vars == <<active, committed, version, lock, globalConfig, file, dbSnapshot, inUse,
          fileFails, pc, next, previousActive>>

\* "absent": a call that is never made
Pcs == {"absent", "idle", "commit", "file", "db", "snapshot", "rollback", "ok", "failed"}

TypeOK ==
    /\ active \in Snapshot \cup {Nil}
    /\ committed \in Snapshot \cup {Nil}
    /\ version \in 0..Cardinality(Calls)
    /\ lock \in Calls \cup {Free}
    /\ globalConfig \in Document
    /\ file \in [Paths -> Document \cup {Nil}]
    /\ dbSnapshot \in Document \cup {Nil}
    /\ inUse \in Activations \cup {Nil}
    /\ fileFails \in BOOLEAN
    /\ pc \in [Calls -> Pcs]
    /\ next \in [Calls -> Snapshot \cup {Nil}]
    /\ previousActive \in [Calls -> Snapshot \cup {Nil}]

OriginalConfig == [s \in Sections |-> IF s = "foreign" THEN Empty ELSE Original]
EmbeddedConfig == [s \in Sections |-> IF s = "core" THEN Original ELSE Empty]

\* resolveStartupConfigSourceForMode (interactive, no --config) and
\* tryRestoreConfigFromDatabase: ./config.json, the home file, the latest
\* snapshot of any kind, the embedded default.  A document without core fails
\* Config.Validate.
StartupSource ==
    IF file["local"] # Nil THEN file["local"]
    ELSE IF file["home"] # Nil THEN file["home"]
    ELSE IF dbSnapshot # Nil /\ dbSnapshot["core"] # Empty THEN dbSnapshot
    ELSE EmbeddedConfig

AsConfig(doc) == [doc EXCEPT !["foreign"] = Empty]     \* json.Unmarshal into Config

\* The program starts with a configuration file in one of the two places, or
\* with the embedded default, and has committed nothing.
Init ==
    /\ \E where \in {"local", "home", "none"} :
          file = [p \in Paths |-> IF p = where THEN OriginalConfig ELSE Nil]
    /\ dbSnapshot = Nil
    /\ globalConfig = StartupSource
    /\ active = Nil /\ committed = Nil /\ version = 0
    /\ lock = Free
    /\ inUse = Nil
    /\ \E scenario \in Scenarios :
          /\ pc = [c \in Calls |-> IF c \in scenario.calls THEN "idle" ELSE "absent"]
          /\ fileFails = scenario.fileFails
    /\ next = [c \in Calls |-> Nil]
    /\ previousActive = [c \in Calls |-> Nil]

-----------------------------------------------------------------------------
(* What the services do before Commit: the document to be committed *)

Prepare(c, snapshot) ==
    /\ pc[c] = "idle"
    /\ \/ next' = [next EXCEPT ![c] = snapshot] /\ pc' = [pc EXCEPT ![c] = "commit"]
       \/ pc' = [pc EXCEPT ![c] = "failed"] /\ UNCHANGED next   \* rejected by Validate
    /\ UNCHANGED <<fileFails, active, committed, version, lock, globalConfig, file, dbSnapshot,
                   inUse, previousActive>>

\* mergeCorePayload: the configuration of this moment with another core.
CorePrepare(c) ==
    /\ c \in CoreUpdates
    /\ Prepare(c, [path |-> "local", content |-> [globalConfig EXCEPT !["core"] = c],
                   yaml |-> FALSE])

\* mergeCustomerPayload: the payload patches one part of the customer section.
CustomerPrepare(c) ==
    /\ c \in CustomerUpdates
    /\ \E part \in {"proxy", "rules"} :
          Prepare(c, [path |-> "home", content |-> [globalConfig EXCEPT ![part] = c],
                      yaml |-> FALSE])

\* normalizeActivateRequest: content for another program, JSON or YAML.
ActivatePrepare(c) ==
    /\ c \in Activations
    /\ \E isYaml \in BOOLEAN :
          Prepare(c, [path |-> "software", content |-> [Torn EXCEPT !["foreign"] = c],
                      yaml |-> isYaml])

-----------------------------------------------------------------------------
(* Commit *)

CommitBegin(c) ==
    /\ pc[c] = "commit" /\ lock = Free
    /\ lock' = c
    /\ previousActive' = [previousActive EXCEPT ![c] = active]
    /\ active' = next[c]
    /\ pc' = [pc EXCEPT ![c] = "file"]
    /\ UNCHANGED <<fileFails, committed, version, globalConfig, file, dbSnapshot, inUse, next>>

\* The path the persistFile callback of call c writes a snapshot to: the
\* configuration services resolve "~", Activate (which stores an expanded path
\* for its own files) does not.
Target(c, snapshot) ==
    IF c \in Activations /\ snapshot.path = "home" THEN "tilde" ELSE snapshot.path

\* What that callback writes: the configuration services decode the content as
\* a Config and write that.
Written(c, snapshot) ==
    IF c \in Updates THEN AsConfig(snapshot.content) ELSE snapshot.content

\* os.WriteFile truncates first, so a failure can lose the old content.
WriteFails(path) ==
    /\ fileFails
    /\ file' \in {file, [file EXCEPT ![path] = Torn]}

\* Variant for checking the properties: the failure leaves active as it is.
CommitFileKeepsActive(c) ==
    /\ pc[c] = "file"
    /\ \/ /\ file' = [file EXCEPT ![Target(c, next[c])] = Written(c, next[c])]
          /\ pc' = [pc EXCEPT ![c] = "db"]
          /\ UNCHANGED <<active, lock>>
       \/ /\ WriteFails(Target(c, next[c]))
          /\ lock' = Free
          /\ pc' = [pc EXCEPT ![c] = "failed"]
          /\ UNCHANGED active
    /\ UNCHANGED <<fileFails, committed, version, globalConfig, dbSnapshot, inUse, next,
                   previousActive>>

CommitFile(c) ==
    /\ pc[c] = "file"
    /\ \/ /\ file' = [file EXCEPT ![Target(c, next[c])] = Written(c, next[c])]
          /\ pc' = [pc EXCEPT ![c] = "db"]
          /\ UNCHANGED <<active, lock>>
       \/ /\ WriteFails(Target(c, next[c]))
          /\ active' = previousActive[c]
          /\ lock' = Free
          /\ pc' = [pc EXCEPT ![c] = "failed"]
    /\ UNCHANGED <<fileFails, committed, version, globalConfig, dbSnapshot, inUse, next,
                   previousActive>>

\* The end of a commit that went well.
Succeed(c) ==
    /\ committed' = next[c]
    /\ version' = version + 1
    /\ lock' = Free
    /\ pc' = [pc EXCEPT ![c] = "ok"]

DbFailure(c) ==
    /\ active' = committed
    /\ pc' = [pc EXCEPT ![c] = "rollback"]
    /\ UNCHANGED <<committed, version, lock, globalConfig, dbSnapshot, inUse>>

\* persistDB of the configuration services: the snapshot and SetGlobalConfig.
CommitDb(c) ==
    /\ pc[c] = "db" /\ c \in Updates
    /\ \/ /\ dbSnapshot' = next[c].content
          /\ globalConfig' = next[c].content
          /\ Succeed(c)
          /\ UNCHANGED <<active, inUse>>
       \/ DbFailure(c)
    /\ UNCHANGED <<fileFails, file, next, previousActive>>

\* persistDB of Activate: one transaction for software_configs ...
ActivateDb(c) ==
    /\ pc[c] = "db" /\ c \in Activations
    /\ \/ /\ inUse' = c
          /\ pc' = [pc EXCEPT ![c] = "snapshot"]
          /\ UNCHANGED <<active, committed, version, lock, globalConfig, dbSnapshot>>
       \/ DbFailure(c)
    /\ UNCHANGED <<fileFails, file, next, previousActive>>

\* ... and one for the snapshot, the global configuration merged with the content.
ActivateSnapshot(c) ==
    /\ pc[c] = "snapshot"
    /\ \/ /\ dbSnapshot' = [globalConfig EXCEPT !["foreign"] = c]
          /\ Succeed(c)
          /\ UNCHANGED <<active, inUse, globalConfig>>
       \/ DbFailure(c)
    /\ UNCHANGED <<fileFails, file, next, previousActive>>

\* Variant for checking the properties: the file is not written back.
CommitRollbackSkipped(c) ==
    /\ pc[c] = "rollback"
    /\ lock' = Free
    /\ pc' = [pc EXCEPT ![c] = "failed"]
    /\ UNCHANGED <<fileFails, active, committed, version, globalConfig, file, dbSnapshot, inUse,
                   next, previousActive>>

\* rollbackFileToCommittedSnapshot: the committed snapshot is written to its
\* own path by this call's callback; with nothing committed, the failed path is
\* removed, unresolved.
CommitRollback(c) ==
    /\ pc[c] = "rollback"
    /\ IF committed = Nil
       THEN LET path == IF next[c].path = "home" THEN "tilde" ELSE next[c].path
            IN  file' = [file EXCEPT ![path] = Nil]
       ELSE \/ /\ ~(c \in Updates /\ committed.yaml)
               /\ file' = [file EXCEPT ![Target(c, committed)] = Written(c, committed)]
            \/ c \in Updates /\ committed.yaml /\ UNCHANGED file
            \/ WriteFails(Target(c, committed))
    /\ lock' = Free
    /\ pc' = [pc EXCEPT ![c] = "failed"]
    /\ UNCHANGED <<fileFails, active, committed, version, globalConfig, dbSnapshot, inUse,
                   next, previousActive>>

-----------------------------------------------------------------------------
\* The process dies at any point; a new one reads its configuration.  It does
\* not come up with a torn file.
Restart ==
    /\ StartupSource["core"] # Empty
    /\ globalConfig' = AsConfig(StartupSource)
    /\ active' = Nil /\ committed' = Nil /\ version' = 0
    /\ lock' = Free
    /\ pc' = [c \in Calls |-> IF pc[c] \in {"absent", "idle", "ok"} THEN pc[c] ELSE "failed"]
    /\ UNCHANGED <<fileFails, file, dbSnapshot, inUse, next, previousActive>>

Next ==
    \/ \E c \in Calls :
          \/ CorePrepare(c) \/ CustomerPrepare(c) \/ ActivatePrepare(c)
          \/ CommitBegin(c) \/ CommitFile(c) \/ CommitDb(c)
          \/ ActivateDb(c) \/ ActivateSnapshot(c) \/ CommitRollback(c)
    \/ Restart

Spec == Init /\ [][Next]_vars

-----------------------------------------------------------------------------
(* Properties *)

\* What a caller sees of the coordinator: outside a commit its active snapshot, during one
\* the last that was committed; the configuration in the latest snapshot of the database;
\* a call is pending until it is answered.
Register == INSTANCE ConfigRegister WITH
    Documents <- Document,
    inForce <- IF lock = Free THEN active ELSE committed,
    commits <- version,
    config <- globalConfig,
    stored <- IF dbSnapshot = Nil THEN Nil ELSE AsConfig(dbSnapshot),
    answer <- [c \in Calls |-> IF pc[c] \in {"ok", "failed"} THEN pc[c] ELSE "pending"]

\* The coordinator and its three users implement the atomic register: whatever stage of
\* whichever commit fails, and wherever the process dies, a call has taken effect in memory
\* and in the database as a whole when it is answered with success, and not at all otherwise.
ImplementsRegister == Register!RegisterSpec

\* A commit of a core or customer configuration that fails at the database leaves
\* the committed configuration in its file, also across restarts: the rollback has
\* undone the write.
CommittedOnDisk ==
    (/\ lock = Free /\ committed # Nil
     /\ ~fileFails /\ \A c \in Activations : pc[c] \in {"absent", "idle"})
        => file[committed.path] = committed.content

==============================================================================
