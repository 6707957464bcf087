------------------------------ MODULE TunTunnel ------------------------------
(***************************************************************************)
(* inbound/tun/tunnel: the transport handler of the TUN device.  The stack *)
(* hands every TCP connection and UDP session to a bounded queue, blocking *)
(* when it is full, and a fixed pool of workers per protocol serves one    *)
(* connection at a time, for as long as its relay runs.  The pools are     *)
(* started when the process starts and are never closed.                   *)
(*                                                                         *)
(* A worker recovers from a panic outside its loop, so a panic of the      *)
(* handler ends the worker.  The profile of a connection says what its     *)
(* handler does (TcpHandler): it ends without a relay, it panics, or it    *)
(* relays in one of the modes of Relay.                                    *)
(***************************************************************************)
EXTENDS Relay, UdpSession, Sequences, FiniteSets

CONSTANTS Workers,      \* worker -> "tcp" or "udp"
          QueueSize,    \* capacities of tcpQueue and udpQueue
          Attempts,     \* maxConnAttempts of the stack's TCP forwarder
          Scenarios,    \* functions from connections and sessions to profiles
          Idle, Dead    \* states of a worker

ASSUME WorkersAssumption ==
  IsFiniteSet(DOMAIN Workers) /\ \A w \in DOMAIN Workers : Workers[w] \in {"tcp", "udp"}

VARIABLES profile, pc, queue, worker

vars == <<relay, udp, profile, pc, queue, worker>>

All == Conns \cup Sessions

ASSUME StatesAssumption == Idle # Dead /\ {Idle, Dead} \cap All = {}

Kind(c) == IF c \in Conns THEN "tcp" ELSE "udp"
Kinds == {"tcp", "udp"}

Init ==
  /\ profile \in Scenarios
  /\ pc = [c \in All |-> "new"]
  /\ queue = [k \in Kinds |-> <<>>]
  /\ worker = [w \in DOMAIN Workers |-> Idle]
  /\ relay = [c \in Conns |-> NewRelay(IF profile[c] \in RelayModes THEN profile[c] ELSE "direct")]
  /\ udp = [u \in Sessions |-> NewUdp]

Blocked(k) == {c \in All : Kind(c) = k /\ pc[c] = "blocked"}

(* HandleTCP and HandleUDP, called by the forwarder of the stack: the send *)
(* blocks while the queue is full.  The TCP forwarder has a bounded number *)
(* of such calls outstanding and drops further attempts; the UDP forwarder *)
(* calls from the goroutine that delivers packets, one at a time.          *)
HandleConn(c) ==
  /\ pc[c] = "new" /\ profile[c] # "absent"
  /\ Cardinality(Blocked(Kind(c))) < (IF Kind(c) = "tcp" THEN Attempts ELSE 1)
  /\ IF Len(queue[Kind(c)]) < QueueSize[Kind(c)]
     THEN queue' = [queue EXCEPT ![Kind(c)] = Append(@, c)] /\ pc' = [pc EXCEPT ![c] = "queued"]
     ELSE pc' = [pc EXCEPT ![c] = "blocked"] /\ UNCHANGED queue
  /\ UNCHANGED <<relay, udp, profile, worker>>

(* A worker receives; a blocked sender takes the place that becomes free.  *)
Take(w) ==
  LET k == Workers[w]
      c == Head(queue[k])
  IN  /\ worker[w] = Idle /\ queue[k] # <<>>
      /\ worker' = [worker EXCEPT ![w] = c]
      /\ IF Blocked(k) = {}
         THEN queue' = [queue EXCEPT ![k] = Tail(@)] /\ pc' = [pc EXCEPT ![c] = "handling"]
         ELSE \E b \in Blocked(k) :
                /\ queue' = [queue EXCEPT ![k] = Append(Tail(@), b)]
                /\ pc' = [pc EXCEPT ![c] = "handling", ![b] = "queued"]
      /\ UNCHANGED <<relay, udp, profile>>

Leave(w, state) ==
  /\ pc' = [pc EXCEPT ![worker[w]] = "done"]
  /\ worker' = [worker EXCEPT ![w] = state]

Handling(w, p) == /\ worker[w] \in All /\ pc[worker[w]] = "handling"
                  /\ profile[worker[w]] \in p

(* Variant for checking the properties: an error of the handler ends the   *)
(* loop of the worker.                                                     *)
HandlerFailsReturn(w) ==
  /\ Handling(w, {"fails"})
  /\ relay' = IF worker[w] \in Conns THEN [relay EXCEPT ![worker[w]] = CloseBoth(@)] ELSE relay
  /\ Leave(w, Dead)
  /\ UNCHANGED <<udp, profile, queue>>

(* Denied, a DoH provider, a failed handshake or dial: the connection is   *)
(* closed and the worker goes on.                                          *)
HandlerFails(w) ==
  /\ Handling(w, {"fails"})
  /\ relay' = IF worker[w] \in Conns THEN [relay EXCEPT ![worker[w]] = CloseBoth(@)] ELSE relay
  /\ Leave(w, Idle)
  /\ UNCHANGED <<udp, profile, queue>>

(* The deferred Close runs, the recover ends the goroutine.                *)
HandlerPanics(w) ==
  /\ Handling(w, {"panics"})
  /\ relay' = [relay EXCEPT ![worker[w]] = CloseBoth(@)]
  /\ Leave(w, Dead)
  /\ UNCHANGED <<udp, profile, queue>>

handleTCPConn(w) ==
  /\ Handling(w, RelayModes)
  /\ pc' = [pc EXCEPT ![worker[w]] = "relay"]
  /\ relay' = [relay EXCEPT ![worker[w]] = Start(@)]
  /\ UNCHANGED <<udp, profile, queue, worker>>

handleUDPConn(w) ==
  /\ Handling(w, {"session"})
  /\ pc' = [pc EXCEPT ![worker[w]] = "relay"]
  /\ udp' = [udp EXCEPT ![worker[w]] = pipePacket(@)]
  /\ UNCHANGED <<relay, profile, queue, worker>>

(* The relay has returned: deferred closes, and the worker is free.        *)
RelayReturns(w) ==
  /\ worker[w] \in All /\ pc[worker[w]] = "relay"
  /\ IF worker[w] \in Conns
     THEN RelayOver(relay[worker[w]]) /\ relay' = [relay EXCEPT ![worker[w]] = CloseBoth(@)]
     ELSE UdpOver(udp[worker[w]]) /\ UNCHANGED relay
  /\ Leave(w, Idle)
  /\ UNCHANGED <<udp, profile, queue>>

WorkerStep(w) ==
  \/ Take(w) \/ HandlerFails(w) \/ HandlerPanics(w)
  \/ handleTCPConn(w) \/ handleUDPConn(w) \/ RelayReturns(w)

TcpStream(c, d) == RelayStep(c, d) /\ UNCHANGED <<udp, profile, pc, queue, worker>>
TcpRuns(c, d) == RelayRuns(c, d) /\ UNCHANGED <<udp, profile, pc, queue, worker>>

UdpStream(u, w) == UdpStep(u, w) /\ UNCHANGED <<relay, profile, pc, queue, worker>>
UdpGoes(u, w) == UdpRuns(u, w) /\ UNCHANGED <<relay, profile, pc, queue, worker>>

Peers == /\ \E c \in Conns, s \in Sides : PeerCloses(c, s) \/ PeerResets(c, s)
         /\ UNCHANGED <<udp, profile, pc, queue, worker>>

Clock == UdpTick /\ UNCHANGED <<relay, profile, pc, queue, worker>>

Next ==
  \/ \E c \in All : HandleConn(c)
  \/ \E w \in DOMAIN Workers : WorkerStep(w)
  \/ \E c \in Conns, d \in Dirs : TcpStream(c, d)
  \/ \E u \in Sessions, w \in Ways : UdpStream(u, w)
  \/ Peers \/ Clock

(* Goroutines are scheduled and timers expire; what the peers send, read   *)
(* and close, and when the stack hands over a connection, is theirs: no    *)
(* read of bytes that may never come and no write is promised to return.   *)
(* The scheduler is fair to each goroutine; that one of the two of a relay *)
(* runs is enough here.                                                    *)
Fairness ==
  /\ \A w \in DOMAIN Workers : WF_vars(WorkerStep(w))
  /\ \A c \in Conns : WF_vars(\E d \in Dirs : TcpRuns(c, d))
  /\ \A u \in Sessions : WF_vars(\E w \in Ways : UdpGoes(u, w))
  /\ WF_vars(Clock)

Spec == Init /\ [][Next]_vars /\ Fairness

-----------------------------------------------------------------------------

TypeOK ==
  /\ relay \in [Conns -> Relays]
  /\ udp \in [Sessions -> UdpStates]
  /\ pc \in [All -> {"new", "blocked", "queued", "handling", "relay", "done"}]
  /\ worker \in [DOMAIN Workers -> All \cup {Idle, Dead}]
  /\ \A k \in Kinds : Len(queue[k]) <= QueueSize[k]
                      /\ \A i \in 1 .. Len(queue[k]) : Kind(queue[k][i]) = k

(* The pool loses a worker to a panic of the handler and to nothing else,  *)
(* and no connection is served twice or forgotten: a connection is being   *)
(* handled exactly while one worker has it, and it waits in the queue      *)
(* exactly once.                                                           *)
WorkersAccounted ==
  /\ Cardinality({w \in DOMAIN Workers : worker[w] = Dead})
       = Cardinality({c \in All : pc[c] = "done" /\ profile[c] = "panics"})
  /\ \A c \in All :
       /\ Cardinality({w \in DOMAIN Workers : worker[w] = c})
            = (IF pc[c] \in {"handling", "relay"} THEN 1 ELSE 0)
       /\ Cardinality({i \in 1 .. Len(queue[Kind(c)]) : queue[Kind(c)][i] = c})
            = (IF pc[c] = "queued" THEN 1 ELSE 0)

(* To the stack the tunnel is a pool: its queues, the sends that block, and *)
(* which worker has which connection, are not to be seen.                  *)
Stage(c) == CASE pc[c] = "new" -> "outside"
              [] pc[c] \in {"blocked", "queued"} -> "waiting"
              [] pc[c] \in {"handling", "relay"} -> "served"
              [] pc[c] = "done" -> "over"

Stages == [c \in All |-> Stage(c)]

WorkersOf(k) == {w \in DOMAIN Workers : Workers[w] = k}
LostOf(k) == {w \in WorkersOf(k) : worker[w] = Dead}
LostWorkers == [k \in Kinds |-> Cardinality(LostOf(k))]

Faulty == {c \in All : profile[c] = "panics"}

ConnPool == INSTANCE Pool WITH
  Clients <- All,
  KindOf <- [c \in All |-> Kind(c)],
  Size <- [k \in Kinds |-> Cardinality(WorkersOf(k))],
  stage <- Stages, lost <- LostWorkers, faulty <- Faulty

(* Whatever the peers, the handlers and the scheduler do, the tunnel is    *)
(* such a pool: a connection goes once from waiting to served to over,     *)
(* only as many are served as workers are left, and a handler that returns *)
(* an error costs none (tunnel.go:90-108).                                 *)
ImplementsPool == ConnPool!PoolSpec

(* The peers of a relay take what is written to them.                      *)
PeersRead(c) == \A d \in Dirs : []<>(relay[c].stream[d] # "write")

(* "Set a read deadline so we don't wait forever for the other side to     *)
(* close": with half-close a relay ends, and frees its worker, once one    *)
(* direction has ended, whether or not the other peer closes; and in every *)
(* mode it ends once both peers have closed.  Both hold only of peers that *)
(* read: the deadlines (relay.go:206, 263) are for reads, and a Write to a *)
(* peer that has stopped reading holds the relay and its worker until that *)
(* connection is reset.  A UDP session ends when packets stop.             *)
RelayEnds ==
  /\ \A c \in Conns : PeersRead(c) =>
       /\ (\E d \in Dirs : relay[c].stream[d] = "ended" /\ relay[c].mode \in {"half", "opaque"})
            ~> pc[c] = "done"
       /\ (pc[c] = "relay" /\ \A s \in Sides : relay[c].peer[s] # "open") ~> pc[c] = "done"
  /\ \A u \in Sessions : pc[u] = "relay" ~> pc[u] = "done"

=============================================================================
