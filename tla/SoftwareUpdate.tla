---------------------------- MODULE SoftwareUpdate ----------------------------
(***************************************************************************)
(* SoftwareUpdateService: the checker that asks the download server for a  *)
(* newer version, the snapshot and the dismissals it keeps in the database *)
(* and the status the user interface and StartService read.                *)
(*                                                                         *)
(* Only the loop goroutine refreshes; frontend calls read the snapshot and *)
(* then the dismissal, and a dismissal writes what it read before.         *)
(***************************************************************************)
EXTENDS Naturals, FiniteSets

CONSTANTS
    Versions,       \* versions the server may offer
    Viewers,        \* frontend calls that may be under way together
    MaxChecks       \* bound on the refreshes of a behaviour, the clock of CheckedAt

ASSUME UpdateAssumption == MaxChecks \in Nat

VARIABLES
    version,        \* appVersion.Version, "none" when not set (changes by an upgrade)
    snapshot,       \* row of software_version_update_snapshots, or NoSnapshot
    dismissals,     \* versions with a row in the dismissal table
    trigger,        \* is a token in triggerCh
    checker,        \* the loop: stopped, waiting, fetching, storing
    answer,         \* what fetchRemoteUpdate returned to the refresh under way
    viewers,        \* frontend calls under way
    checks          \* refreshes begun

updateVars == <<version, snapshot, dismissals, trigger, checker, answer, viewers, checks>>

NoVersion == "none"
NoSnapshot == [latest |-> NoVersion, needs |-> FALSE, force |-> FALSE,
               status |-> "none", first |-> 0]
Failure == [latest |-> NoVersion, needs |-> FALSE, force |-> FALSE, ok |-> FALSE]
NoStatus == [status |-> "none", latest |-> NoVersion, blocking |-> FALSE, modal |-> FALSE]
NoView == [op |-> "none", step |-> "idle", read |-> NoSnapshot, result |-> NoStatus]

Answers == {Failure} \cup [latest : Versions \cup {NoVersion}, needs : BOOLEAN,
                            force : BOOLEAN, ok : {TRUE}]

UpdateInit ==
    /\ version \in Versions \cup {NoVersion}
    /\ snapshot = NoSnapshot /\ dismissals = {}
    /\ trigger = FALSE /\ checker = "stopped" /\ answer = Failure
    /\ viewers = [c \in Viewers |-> NoView] /\ checks = 0

-----------------------------------------------------------------------------
(* The loop *)

\* Start, once: the loop goroutine and one token.
StartChecker ==
    /\ checker = "stopped"
    /\ checker' = "waiting" /\ trigger' = TRUE
    /\ UNCHANGED <<version, snapshot, dismissals, answer, viewers, checks>>

\* A token of triggerCh, or the ticker.
BeginRefresh ==
    /\ checker = "waiting" /\ checks < MaxChecks
    /\ checker' = IF version = NoVersion THEN "storing" ELSE "fetching"
    /\ answer' = Failure
    /\ trigger' \in {FALSE, trigger}
    /\ checks' = checks + 1
    /\ UNCHANGED <<version, snapshot, dismissals, viewers>>

\* coalesceString of the answer's latest version and the running one.
normalizeSoftwareUpdateRemotePayload(a) ==
    IF a.latest = NoVersion THEN [a EXCEPT !.latest = version] ELSE a

\* The server's answer arrives, or the request fails.
fetchRemoteUpdate ==
    /\ checker = "fetching"
    /\ \E a \in Answers :
          answer' = IF a.ok THEN normalizeSoftwareUpdateRemotePayload(a) ELSE a
    /\ checker' = "storing"
    /\ UNCHANGED <<version, snapshot, dismissals, trigger, viewers, checks>>

softwareUpdateStatusLabel(needs, force) ==
    IF needs /\ force THEN "force_update" ELSE IF needs THEN "update_available" ELSE "up_to_date"

\* Since when the version is on offer: the same offer keeps its date.
firstSeenAt(a) ==
    IF ~a.needs THEN 0
    ELSE IF snapshot.needs /\ snapshot.latest = a.latest /\ snapshot.first # 0
         THEN snapshot.first ELSE checks

\* Variant for checking the properties: a failed check starts from an empty snapshot.
persistFailureStateEmpty == [NoSnapshot EXCEPT !.latest = version, !.status = "error"]

\* A failed check keeps the offer that is known and records the failure.
persistFailureState ==
    IF snapshot = NoSnapshot THEN [NoSnapshot EXCEPT !.latest = version, !.status = "error"]
    ELSE [snapshot EXCEPT !.status = "error"]

NewSnapshot(a) ==
    [latest |-> a.latest, needs |-> a.needs, force |-> a.needs /\ a.force,
     status |-> softwareUpdateStatusLabel(a.needs, a.force), first |-> firstSeenAt(a)]

\* UpsertSnapshot, or an error of the database that leaves the row as it is.
RefreshNow ==
    /\ checker = "storing"
    /\ \/ snapshot' = IF answer.ok THEN NewSnapshot(answer) ELSE persistFailureState
       \/ UNCHANGED snapshot
    /\ checker' = "waiting"
    /\ UNCHANGED <<version, dismissals, trigger, answer, viewers, checks>>

\* The process ends at any point and runs again, perhaps in another version; the tables
\* stay.
RestartWithVersion ==
    /\ checker # "stopped"
    /\ version' \in (IF version = NoVersion THEN {NoVersion} ELSE Versions)
    /\ checker' = "stopped" /\ trigger' = FALSE /\ answer' = Failure
    /\ viewers' = [c \in Viewers |-> NoView]
    /\ UNCHANGED <<snapshot, dismissals, checks>>

-----------------------------------------------------------------------------
(* The status the frontend sees *)

ErrorStatus == [NoStatus EXCEPT !.status = "error"]

\* HandleStatus and HandleDismiss begin with the snapshot, and so does the status that ends
\* a dismissal; without a version the call ends at once.
ReadSnapshot(c, op) ==
    /\ viewers[c].step = "idle" \/ (viewers[c].step = "again" /\ op = "status")
    /\ viewers' = [viewers EXCEPT ![c] =
         IF version = NoVersion THEN [NoView EXCEPT !.result = ErrorStatus]
         ELSE [NoView EXCEPT !.op = op, !.step = "read", !.read = snapshot]]
    /\ UNCHANGED <<version, snapshot, dismissals, trigger, checker, answer, checks>>

\* The database fails at any of the reads and writes of a call: the status is "error" and
\* blocks nothing.
StoreFails(c) ==
    /\ viewers' = [viewers EXCEPT ![c] = [NoView EXCEPT !.result = ErrorStatus]]
    /\ UNCHANGED <<version, snapshot, dismissals, trigger, checker, answer, checks>>

\* The rest of GetFrontendStatus: the dismissal of the version that was read.
StatusOf(s, dismissed) ==
    IF s = NoSnapshot THEN [NoStatus EXCEPT !.status = "unknown"]
    ELSE
    [status |-> s.status, latest |-> s.latest,
     blocking |-> s.needs /\ s.force,
     modal |-> s.needs /\ (s.force \/ ~dismissed)]

GetFrontendStatus(c) ==
    /\ viewers[c].step = "read" /\ viewers[c].op = "status"
    /\ viewers' = [viewers EXCEPT ![c] =
         [NoView EXCEPT !.result = StatusOf(viewers[c].read,
                                            viewers[c].read.latest \in dismissals)]]
    /\ UNCHANGED <<version, snapshot, dismissals, trigger, checker, answer, checks>>

\* DismissCurrentUpdate after its read: nothing to dismiss and a forced update end it,
\* otherwise the version that was read is recorded and the status read again.
DismissCurrentUpdate(c) ==
    /\ viewers[c].step = "read" /\ viewers[c].op = "dismiss"
    /\ IF viewers[c].read.needs /\ viewers[c].read.force
       THEN /\ viewers' = [viewers EXCEPT ![c] = NoView]
            /\ UNCHANGED dismissals
       ELSE /\ dismissals' = IF viewers[c].read.needs
                             THEN dismissals \cup {viewers[c].read.latest} ELSE dismissals
            /\ viewers' = [viewers EXCEPT ![c] = [NoView EXCEPT !.step = "again"]]
    /\ UNCHANGED <<version, snapshot, trigger, checker, answer, checks>>

UpdateNext ==
    \/ StartChecker \/ BeginRefresh \/ fetchRemoteUpdate \/ RefreshNow \/ RestartWithVersion
    \/ \E c \in Viewers :
          \/ ReadSnapshot(c, "status") \/ ReadSnapshot(c, "dismiss") \/ StoreFails(c)
          \/ GetFrontendStatus(c) \/ DismissCurrentUpdate(c)

UpdateSpec == UpdateInit /\ [][UpdateNext]_updateVars

-----------------------------------------------------------------------------
(* Properties *)

Snapshots == [latest : Versions \cup {NoVersion}, needs : BOOLEAN, force : BOOLEAN,
              status : {"none", "error", "force_update", "update_available", "up_to_date"},
              first : 0 .. MaxChecks]

UpdateTypeOK ==
    /\ version \in Versions \cup {NoVersion}
    /\ snapshot \in Snapshots
    /\ dismissals \subseteq Versions
    /\ trigger \in BOOLEAN
    /\ checker \in {"stopped", "waiting", "fetching", "storing"}
    /\ answer \in Answers
    /\ \A c \in Viewers : viewers[c].read \in Snapshots
    /\ checks \in 0 .. MaxChecks

\* What keeps a forced update in force (the snapshot that StartService obeys): checks that
\* fail, lost writes, dismissals and restarts never take an offer back, and the date since
\* when a version is on offer stays the same as long as it is offered.  Only an answer of
\* the server that was stored changes the offer.
OfferOutlivesFailures ==
    [][/\ (snapshot.needs /\ ~(checker = "storing" /\ answer.ok)) =>
             /\ snapshot'.needs /\ snapshot'.force = snapshot.force
             /\ snapshot'.latest = snapshot.latest /\ snapshot'.first = snapshot.first
       /\ (snapshot.needs /\ snapshot'.needs /\ snapshot'.latest = snapshot.latest) =>
             snapshot'.first = snapshot.first]_updateVars

=============================================================================
