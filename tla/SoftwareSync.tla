----------------------------- MODULE SoftwareSync -----------------------------
(***************************************************************************)
(* SoftwareConfigService with its store and handlers: the configurations   *)
(* of other programs kept in the table software_configs, which of them is  *)
(* in use, and their exchange with a cloud store by updated_at.            *)
(*                                                                         *)
(* The content of a row is left out: the exchange goes by updated_at.      *)
(* A request that fails validation changes nothing and is left out.        *)
(***************************************************************************)
EXTENDS Naturals, Sequences, FiniteSets, SequencesExt

CONSTANTS
    Uuids, Softwares,
    SyncCalls,      \* requests to the cloud that may be under way together
    SaveInUse,      \* values of in_use in a save request; the user interface sends none
    SyncHorizon     \* bound on the clock

ASSUME SyncAssumption ==
    IsFiniteSet(Uuids) /\ SyncHorizon \in Nat \ {0} /\ SaveInUse \subseteq BOOLEAN

VARIABLES
    rows,           \* software_configs: uuid -> row or NoRow
    cloud,          \* the cloud's rows (external)
    syncs,          \* requests to the cloud under way
    syncClock

syncVars == <<rows, cloud, syncs, syncClock>>

NoRow == [software |-> "none", inUse |-> FALSE, selected |-> FALSE, updated |-> 0]
NoTable == [u \in Uuids |-> NoRow]
NoCall == [op |-> "none", batch |-> NoTable, answer |-> "none"]
SyncAnswered(a) == [NoCall EXCEPT !.answer = a]
Present(t) == {u \in Uuids : t[u] # NoRow}

SyncInit == rows = NoTable /\ cloud = NoTable /\ syncs = [c \in SyncCalls |-> NoCall] /\ syncClock = 1

-----------------------------------------------------------------------------
(* The store.  The model's autoUpdateTime tag stamps updated_at whenever a row is updated, *)
(* by Save as well as by Update; Create keeps the value it is given.                       *)

Stamp(r) == [r EXCEPT !.updated = syncClock]

Upsert(t, u, r) == [t EXCEPT ![u] = IF t[u] = NoRow THEN r ELSE Stamp(r)]

\* Update("in_use", false) where software = s and in_use, part of two transactions.
ClearInUse(t, s) ==
    [u \in Uuids |-> IF t[u].inUse /\ t[u].software = s
                     THEN Stamp([t[u] EXCEPT !.inUse = FALSE]) ELSE t[u]]

ActivateRow(t, u, r) == Upsert(ClearInUse(t, r.software), u, [r EXCEPT !.inUse = TRUE])

\* Variant for checking the properties: only a row that is new takes over the use.
MergeOneKeepsUse(t, u, r) ==
    IF t[u] = NoRow THEN [(IF r.inUse THEN ClearInUse(t, r.software) ELSE t) EXCEPT ![u] = r]
    ELSE IF r.updated > t[u].updated THEN [t EXCEPT ![u] = Stamp(r)] ELSE t

\* One row of a pulled batch: inserted, taken because it is newer, or ignored.
MergeOne(t, u, r) ==
    LET cleared == IF r.inUse THEN ClearInUse(t, r.software) ELSE t
    IN IF t[u] = NoRow THEN [cleared EXCEPT ![u] = r]
       ELSE IF r.updated > t[u].updated THEN [cleared EXCEPT ![u] = Stamp(r)] ELSE t

\* The batch in the order in which the cloud sent it, in one transaction.
MergeByLatest(t, batch, order) ==
    LET merged[n \in 0 .. Len(order)] ==
          IF n = 0 THEN t ELSE MergeOne(merged[n - 1], order[n], batch[order[n]])
    IN  merged[Len(order)]

-----------------------------------------------------------------------------
(* Requests that stay on this machine *)

\* normalizeSaveRequest: the row a valid request asks for, dated now.
normalizeSaveRequest(s, inUse, selected) ==
    [software |-> s, inUse |-> inUse, selected |-> selected, updated |-> syncClock]

\* normalizeActivateRequest has no selected: activating a row deselects it.
normalizeActivateRequest(s) == normalizeSaveRequest(s, TRUE, FALSE)

HandleSave ==
    /\ \E u \in Uuids, s \in Softwares, i \in SaveInUse, x \in BOOLEAN :
          rows' = Upsert(rows, u, normalizeSaveRequest(s, i, x))
    /\ UNCHANGED <<cloud, syncs, syncClock>>

\* The transaction of Activate; the commit around it is in ConfigCommit.
HandleActivate ==
    /\ \E u \in Uuids, s \in Softwares : rows' = ActivateRow(rows, u, normalizeActivateRequest(s))
    /\ UNCHANGED <<cloud, syncs, syncClock>>

\* An absent row is answered with 404.
HandleDelete ==
    /\ \E u \in Present(rows) : rows' = [rows EXCEPT ![u] = NoRow]
    /\ UNCHANGED <<cloud, syncs, syncClock>>

HandleSelect ==
    /\ \E u \in Present(rows), x \in BOOLEAN : rows' = [rows EXCEPT ![u] = Stamp([rows[u] EXCEPT !.selected = x])]
    /\ UNCHANGED <<cloud, syncs, syncClock>>

-----------------------------------------------------------------------------
(* Requests to the cloud: a read and a write, with the answer of the cloud in between *)

\* selectPushCandidates: the rows named, else the selected ones, else all.
selectPushCandidates(ids, onlySelected) ==
    [u \in Uuids |-> IF ids # {} => u \in ids
                     THEN IF ids = {} /\ onlySelected /\ ~rows[u].selected THEN NoRow ELSE rows[u]
                     ELSE NoRow]

BeginPush(c, onlySelected) ==
    /\ syncs[c].op = "none"
    /\ \E ids \in SUBSET Uuids :
          LET batch == selectPushCandidates(ids, onlySelected)
          IN syncs' = [syncs EXCEPT ![c] = IF batch = NoTable THEN SyncAnswered("ok")
                                           ELSE [NoCall EXCEPT !.op = "push", !.batch = batch]]
    /\ UNCHANGED <<rows, cloud, syncClock>>

HandlePushToCloud(c) == BeginPush(c, FALSE)
HandlePushSelectedToCloud(c) == BeginPush(c, TRUE)

\* The cloud keeps the newer row of each uuid (external).
CloudTakes(batch) ==
    [u \in Uuids |-> IF batch[u] # NoRow /\ (cloud[u] = NoRow \/ batch[u].updated > cloud[u].updated)
                     THEN batch[u] ELSE cloud[u]]

\* The POST: taken, refused, or taken with the answer lost.
PushToCloud(c) ==
    /\ syncs[c].op = "push"
    /\ \/ cloud' = CloudTakes(syncs[c].batch) /\ syncs' = [syncs EXCEPT ![c] = SyncAnswered("ok")]
       \/ cloud' \in {cloud, CloudTakes(syncs[c].batch)} /\ syncs' = [syncs EXCEPT ![c] = SyncAnswered("failed")]
    /\ UNCHANGED <<rows, syncClock>>

\* fetchCloudBatch and the GET of PullFromCloud.
fetchCloudBatch(c) ==
    /\ syncs[c].op = "none"
    /\ syncs' = [syncs EXCEPT ![c] = [NoCall EXCEPT !.op = "pull", !.batch = cloud]]
    /\ UNCHANGED <<rows, cloud, syncClock>>

\* The batch is merged, or the transaction fails as a whole.
HandlePullFromCloud(c) ==
    /\ syncs[c].op = "pull"
    /\ \/ /\ \E order \in SetToSeqs(Present(syncs[c].batch)) :
                rows' = MergeByLatest(rows, syncs[c].batch, order)
          /\ syncs' = [syncs EXCEPT ![c] = SyncAnswered("ok")]
       \/ rows' = rows /\ syncs' = [syncs EXCEPT ![c] = SyncAnswered("failed")]
    /\ UNCHANGED <<cloud, syncClock>>

\* CompareWithCloud lists the rows before it asks the cloud.
BeginCompare(c) ==
    /\ syncs[c].op = "none"
    /\ syncs' = [syncs EXCEPT ![c] = [NoCall EXCEPT !.op = "compare", !.batch = rows]]
    /\ UNCHANGED <<rows, cloud, syncClock>>

Freshness(l, r) ==
    CASE l = NoRow /\ r = NoRow -> "none"
      [] l = NoRow -> "cloud_only"
      [] r = NoRow -> "local_only"
      [] l.updated > r.updated -> "local_newer"
      [] r.updated > l.updated -> "cloud_newer"
      [] OTHER -> "same"

\* The answer lists every uuid; one of them is kept.
CompareWithCloud(c) ==
    /\ syncs[c].op = "compare"
    /\ \E u \in Uuids : syncs' = [syncs EXCEPT ![c] = SyncAnswered(Freshness(syncs[c].batch[u], cloud[u]))]
    /\ UNCHANGED <<rows, cloud, syncClock>>

\* Another device edits a configuration and pushes it (external).
OtherDevicePushes ==
    /\ \E u \in Uuids, s \in Softwares, i \in BOOLEAN :
          cloud' = [cloud EXCEPT ![u] = [normalizeSaveRequest(s, i, FALSE) EXCEPT !.inUse = i]]
    /\ UNCHANGED <<rows, syncs, syncClock>>

SyncTick ==
    /\ syncClock < SyncHorizon
    /\ syncClock' = syncClock + 1
    /\ UNCHANGED <<rows, cloud, syncs>>

SyncNext ==
    \/ HandleSave \/ HandleActivate \/ HandleDelete \/ HandleSelect \/ OtherDevicePushes \/ SyncTick
    \/ \E c \in SyncCalls :
          \/ HandlePushToCloud(c) \/ HandlePushSelectedToCloud(c) \/ PushToCloud(c)
          \/ fetchCloudBatch(c) \/ HandlePullFromCloud(c) \/ BeginCompare(c) \/ CompareWithCloud(c)

SyncSpec == SyncInit /\ [][SyncNext]_syncVars

-----------------------------------------------------------------------------
(* Properties *)

Rows == {NoRow} \cup [software : Softwares, inUse : BOOLEAN, selected : BOOLEAN,
                       updated : 1 .. SyncHorizon]

SyncTypeOK ==
    /\ \A u \in Uuids : rows[u] \in Rows /\ cloud[u] \in Rows
    /\ \A c \in SyncCalls : syncs[c].op \in {"none", "push", "pull", "compare"}
    /\ syncClock \in 1 .. SyncHorizon

\* At most one configuration of a program is in use, whatever is activated here, pulled
\* from the cloud in any order, or saved again meanwhile (ClearInUse in both transactions
\* of the store).
OneInUse ==
    \A u, v \in Present(rows) :
        (rows[u].inUse /\ rows[v].inUse /\ rows[u].software = rows[v].software) => u = v

=============================================================================
