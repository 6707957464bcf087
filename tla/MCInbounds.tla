------------------------------ MODULE MCInbounds ------------------------------
(***************************************************************************)
(* The two inbounds, for TLC: the tunnel of the TUN device and the HTTP    *)
(* proxy server.  They share no state, so each behaviour is one of one     *)
(* part, and the other keeps one initial value.                            *)
(*                                                                         *)
(* Tunnel: two TCP workers and one UDP worker; queues of one.  The         *)
(* scenarios: each teardown on its own, a relay beside a failing and a     *)
(* panicking connection, panics that take the whole pool, and a UDP        *)
(* session before and behind another one in the queue.                     *)
(*                                                                         *)
(* HTTP proxy: two starts and two stops, enough for a restart to overlap   *)
(* the old accept loop and for a stop to overlap both.                     *)
(***************************************************************************)
EXTENDS TunTunnel, HttpProxyServer, TLC

CONSTANTS c1, c2, c3, u1, u2, w1, w2, w3

MCWorkers == w1 :> "tcp" @@ w2 :> "tcp" @@ w3 :> "udp"
MCQueueSize == [tcp |-> 1, udp |-> 1]

P(a, b, c, d, e) == c1 :> a @@ c2 :> b @@ c3 :> c @@ u1 :> d @@ u2 :> e
Nobody == P("absent", "absent", "absent", "absent", "absent")

MCScenarios ==
  {Nobody}
  \cup {P(m, "absent", "absent", "absent", "absent") : m \in RelayModes}
  \cup {P("panics", "panics", "fails", "absent", "absent"),
        P("half", "fails", "panics", "absent", "absent"),
        P("absent", "absent", "absent", "session", "fails"),
        P("fails", "absent", "absent", "fails", "session")}

-----------------------------------------------------------------------------

VARIABLE part

InboundsInit ==
  /\ part \in {"tunnel", "proxy"}
  /\ Init /\ (part = "tunnel" <=> profile # Nobody)
  /\ HttpInit

InboundsNext ==
  \/ part = "tunnel" /\ Next /\ UNCHANGED <<part, httpVars>>
  \/ part = "proxy" /\ HttpNext /\ UNCHANGED <<part, vars>>

InboundsSpec ==
  /\ InboundsInit /\ [][InboundsNext]_<<part, vars, httpVars>>
  /\ Fairness /\ HttpFairness
=============================================================================
