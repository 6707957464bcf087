---------------------------- MODULE ConfigRegister ----------------------------
(***************************************************************************)
(* What EffectiveConfigCommitCoordinator promises to the services that use *)
(* it: an atomic register.  A call that is answered with success has put   *)
(* its snapshot in force in one step, in memory and in the database; a     *)
(* call that is answered with an error has changed neither; and there is   *)
(* nothing in between to be seen.  A restart forgets the snapshot, and     *)
(* takes the configuration from wherever the program finds it.             *)
(***************************************************************************)
EXTENDS Naturals

CONSTANTS
    Calls, Activations,     \* the calls, and those that concern another program
    Documents, Nil

VARIABLES
    inForce,        \* the snapshot of the coordinator, or Nil
    commits,        \* how many commits it has seen
    config,         \* the configuration the program runs with
    stored,         \* the configuration that the database would restore, or Nil
    answer          \* per call: "pending" | "ok" | "failed"

registerVars == <<inForce, commits, config, stored, answer>>

Answers == {"pending", "ok", "failed"}

RegisterInit ==
    /\ inForce = Nil /\ commits = 0 /\ stored = Nil
    /\ config \in Documents
    /\ answer = [c \in Calls |-> "pending"]

\* A commit takes effect and is answered: the snapshot in force is one that the call has
\* written to.  That of another program's file leaves the configuration as it is, and
\* stores it with its own snapshot.
Commit(c) ==
    /\ answer[c] = "pending"
    /\ answer' = [answer EXCEPT ![c] = "ok"]
    /\ inForce' # Nil /\ (\E s \in DOMAIN inForce'.content : inForce'.content[s] = c)
    /\ commits' = commits + 1
    /\ IF c \in Activations THEN config' = config ELSE config' = inForce'.content
    /\ stored' = config'

\* A call fails, and nothing has happened.
Refuse(c) ==
    /\ answer[c] = "pending"
    /\ answer' = [answer EXCEPT ![c] = "failed"]
    /\ UNCHANGED <<inForce, commits, config, stored>>

\* The process is started again; no call is answered with success by that.
RegisterRestart ==
    /\ inForce' = Nil /\ commits' = 0
    /\ config' \in Documents /\ UNCHANGED stored
    /\ \A c \in Calls : answer'[c] = answer[c] \/ (answer[c] = "pending" /\ answer'[c] = "failed")

RegisterNext == (\E c \in Calls : Commit(c) \/ Refuse(c)) \/ RegisterRestart

RegisterSpec == RegisterInit /\ [][RegisterNext]_registerVars
=============================================================================
