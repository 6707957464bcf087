-------------------------------- MODULE Pool --------------------------------
(***************************************************************************)
(* What the tunnel promises to the stack that hands it connections: a bag  *)
(* of connections, each of which is served at most once and is over only   *)
(* after it was served.  Those of one protocol that are served at the same *)
(* time are never more than the workers of the protocol that are left, and *)
(* only a connection whose handler panics takes a worker with it.          *)
(***************************************************************************)
EXTENDS Naturals, FiniteSets

CONSTANTS
    Clients,        \* the connections
    KindOf,         \* their protocols
    Size            \* protocol -> number of workers started for it

VARIABLES
    stage,          \* per connection: "outside" | "waiting" | "served" | "over"
    lost,           \* protocol -> number of workers lost
    faulty          \* the connections whose handler panics

poolVars == <<stage, lost, faulty>>

PoolInit ==
    /\ stage = [c \in Clients |-> "outside"]
    /\ lost = [k \in DOMAIN Size |-> 0]
    /\ faulty \subseteq Clients

Moves(c, from, to) == stage[c] = from /\ stage' = [stage EXCEPT ![c] = to]

Served(k) == {c \in Clients : stage[c] = "served" /\ KindOf[c] = k}

\* The stack hands the connection over; it waits, in the queue or in front of it.
Accept(c) == Moves(c, "outside", "waiting") /\ UNCHANGED <<lost, faulty>>

\* A worker is left for it.
Serve(c) ==
    /\ Cardinality(Served(KindOf[c])) + lost[KindOf[c]] < Size[KindOf[c]]
    /\ Moves(c, "waiting", "served")
    /\ UNCHANGED <<lost, faulty>>

\* The handler returns, and its worker is free.
Finish(c) == c \notin faulty /\ Moves(c, "served", "over") /\ UNCHANGED <<lost, faulty>>

\* The handler panics, and its worker is lost.
Crash(c) ==
    /\ c \in faulty
    /\ Moves(c, "served", "over")
    /\ lost' = [lost EXCEPT ![KindOf[c]] = @ + 1]
    /\ UNCHANGED faulty

PoolNext == \E c \in Clients : Accept(c) \/ Serve(c) \/ Finish(c) \/ Crash(c)

PoolSpec == PoolInit /\ [][PoolNext]_poolVars
=============================================================================
