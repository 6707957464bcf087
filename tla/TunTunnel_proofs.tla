--------------------------- MODULE TunTunnel_proofs ---------------------------
(***************************************************************************)
(* For any number of connections, sessions, workers and units of data, and *)
(* any capacities: the teardown of one direction of a relay never reaches  *)
(* a direction that is still copying, and only a half-close of the         *)
(* opposite direction lets a deadline end one; a UDP session times out     *)
(* only when it is quiet, or just then handing a packet on; and the pool   *)
(* of workers loses one worker for each panic and serves every connection  *)
(* once.                                                                   *)
(*                                                                         *)
(* None of these is inductive.  Sound adds why a deadline can be set at    *)
(* all, Untouched that a relay is as it was created until its connection   *)
(* is handled, so that Start finds no closed socket and no deadline.  UInv *)
(* ties what is left of a deadline to the time since the last packet,      *)
(* unless one has just been handed on.  WInv adds to the counts that a     *)
(* connection in a relay does not panic and that a worker                  *)
(* has no connection that is queued or over; QInv that nothing is in a     *)
(* queue twice.  KInv says that a worker serves its own protocol, which is *)
(* what makes the tunnel implement Pool: while a worker is free, the       *)
(* connections served are fewer than the workers left (RoomToServe).       *)
(***************************************************************************)
EXTENDS TunTunnel, FiniteSetTheorems, FunctionTheorems, TLAPS

Halves == {"half", "opaque"}

Sound(r) ==
  \A d \in Dirs :
    /\ Copying(r, d) => ~r.closed[Src(d)] /\ ~r.closed[Dst(d)] /\ ~r.fin[Dst(d)]
    /\ r.armed[Src(d)] => r.mode \in Halves /\ r.stream[Opposite(d)] = "ended"
    /\ r.why[d] = "deadline" => r.mode \in Halves /\ r.stream[Opposite(d)] = "ended"

Untouched(r) ==
  /\ \A d \in Dirs : r.stream[d] = "off" /\ r.why[d] = "running"
  /\ \A s \in Sides : ~r.closed[s] /\ ~r.fin[s] /\ ~r.armed[s]

PcStates == {"new", "blocked", "queued", "handling", "relay", "done"}
Waiting == {"new", "blocked", "queued", "handling"}

(* The queues hold waiting connections of their kind, each once.           *)
QInv ==
  /\ queue \in [Kinds -> Seq(All)]
  /\ \A k \in Kinds : \A i \in 1 .. Len(queue[k]) :
       /\ pc[queue[k][i]] = "queued" /\ Kind(queue[k][i]) = k
       /\ \A j \in 1 .. Len(queue[k]) : queue[k][i] = queue[k][j] => i = j

(* What WorkersAccounted says, with the set of workers and of connections  *)
(* in its counts spelled out.  Only a handler that does not panic relays.  *)
Busy == {"handling", "relay"}
DeadWorkers == {w \in DOMAIN Workers : worker[w] = Dead}
Panicked == {c \in All : pc[c] = "done" /\ profile[c] = "panics"}

WInv ==
  /\ worker \in [DOMAIN Workers -> All \cup {Idle, Dead}]
  /\ \A w \in DOMAIN Workers : worker[w] \in All => pc[worker[w]] \in Busy
  /\ \A v, w \in DOMAIN Workers : worker[v] \in All /\ worker[v] = worker[w] => v = w
  /\ \A c \in All : pc[c] \in Busy => \E w \in DOMAIN Workers : worker[w] = c
  /\ \A c \in All : pc[c] = "queued" =>
       \E i \in 1 .. Len(queue[Kind(c)]) : queue[Kind(c)][i] = c
  /\ \A c \in All : pc[c] = "relay" => profile[c] # "panics"
  /\ IsFiniteSet(DeadWorkers) /\ IsFiniteSet(Panicked)
  /\ Cardinality(DeadWorkers) = Cardinality(Panicked)

IInv ==
  /\ relay \in [Conns -> Relays]
  /\ pc \in [All -> PcStates]
  /\ \A c \in Conns : /\ Sound(relay[c])
                      /\ pc[c] \in Waiting => Untouched(relay[c])

-----------------------------------------------------------------------------

(* A relay of any mode is created untouched.                               *)
LEMMA NewRelaySound ==
  ASSUME NEW m \in RelayModes
  PROVE  NewRelay(m) \in Relays /\ Sound(NewRelay(m)) /\ Untouched(NewRelay(m))
<1>1. NewRelay(m) \in Relays
  BY UnitsAssumption DEF NewRelay, Relays, Dirs, Sides
<1>2. Untouched(NewRelay(m))
  BY DEF NewRelay, Untouched, Dirs, Sides
<1>3. Sound(NewRelay(m))
  BY DEF NewRelay, Sound, Copying, Dirs, Sides, Src, Dst
<1> QED
  BY <1>1, <1>2, <1>3

(* Relay starts its streams on sockets that are open and have no deadline. *)
LEMMA StartSound ==
  ASSUME NEW r \in Relays, Untouched(r)
  PROVE  Start(r) \in Relays /\ Sound(Start(r))
BY DEF Start, Relays, Sound, Copying, Untouched, Dirs, Sides, Src, Dst, Opposite

(* The deferred closes come when no direction is copying.                  *)
LEMMA CloseBothSound ==
  ASSUME NEW r \in Relays, Sound(r), \A d \in Dirs : ~Copying(r, d)
  PROVE  CloseBoth(r) \in Relays /\ Sound(CloseBoth(r))
BY DEF CloseBoth, Relays, Sound, Copying, Dirs, Sides, Src, Dst, Opposite

(* The completion tracker closes when the opposite flag is set as well.    *)
LEMMA markDoneSound ==
  ASSUME NEW r \in Relays, Sound(r), NEW d \in Dirs, r.stream[d] = "stored"
  PROVE  markDone(r, d) \in Relays /\ Sound(markDone(r, d))
BY DEF markDone, Relays, Sound, Copying, Dirs, Sides, Src, Dst, Opposite

(* A half-close ends one direction and bounds the other.                   *)
LEMMA halfCloseSound ==
  ASSUME NEW r \in Relays, Sound(r), NEW d \in Dirs, r.stream[d] = "over", r.mode \in Halves
  PROVE  halfClose(r, d) \in Relays /\ Sound(halfClose(r, d))
BY DEF halfClose, Relays, Sound, Copying, Halves, Dirs, Sides, Src, Dst, Opposite

(* A step of one goroutine on its own relay.                               *)
LEMMA StreamSound ==
  ASSUME relay \in [Conns -> Relays], NEW c \in Conns, NEW d \in Dirs, Sound(relay[c]), RelayStep(c, d)
  PROVE  \E r \in Relays : /\ relay' = [relay EXCEPT ![c] = r]
                           /\ Sound(r) /\ ~Untouched(relay[c])
<1> DEFINE q == relay[c]
<1>q. q \in Relays
  OBVIOUS
<1>1. CASE ReadSome(c, d)
  <2> DEFINE r == [q EXCEPT !.left[d] = @ - 1, !.stream[d] = "write"]
  <2>0. q.left[d] \in 0 .. Units /\ q.left[d] > 0 /\ q.left \in [Dirs -> 0 .. Units]
    BY <1>1, <1>q DEF ReadSome, Relays
  <2>a. q.left[d] - 1 \in 0 .. Units
    BY <2>0, UnitsAssumption
  <2>b. [q.left EXCEPT ![d] = @ - 1] \in [Dirs -> 0 .. Units]
    BY <2>0, <2>a
  <2>1. r \in Relays
    BY <2>b, <1>q DEF Relays
  <2>2. Sound(r)
    BY <1>1, <1>q DEF ReadSome, Relays, Sound, Copying, Dirs, Opposite, Src, Dst
  <2>3. ~Untouched(q)
    BY <1>1, <1>q DEF ReadSome, Relays, Untouched
  <2>4. relay' = [relay EXCEPT ![c] = r]
    BY <1>1 DEF ReadSome
  <2> QED BY <2>1, <2>2, <2>3, <2>4
<1>4. CASE WriteSome(c, d)
  <2> DEFINE r == [q EXCEPT !.stream[d] = "copy"]
  <2>1. r \in Relays
    BY <1>q DEF Relays
  <2>2. Sound(r)
    BY <1>4, <1>q DEF WriteSome, Relays, Sound, Copying, Dirs, Opposite, Src, Dst
  <2>3. ~Untouched(q)
    BY <1>4, <1>q DEF WriteSome, Relays, Untouched
  <2>4. relay' = [relay EXCEPT ![c] = r]
    BY <1>4 DEF WriteSome
  <2> QED BY <2>1, <2>2, <2>3, <2>4
<1>2. CASE EndOfCopy(c, d)
  <2>0. PICK w \in Ended(q, d) :
           relay' = [relay EXCEPT ![c].stream[d] = "over", ![c].why[d] = w]
    BY <1>2 DEF EndOfCopy
  <2>s. Copying(q, d)
    BY <1>2 DEF EndOfCopy
  <2>w. w \in {"eof", "error", "deadline"} /\ (w = "deadline" => q.armed[Src(d)])
    BY <2>0 DEF Ended
  <2> DEFINE r == [q EXCEPT !.stream[d] = "over", !.why[d] = w]
  <2>1. r \in Relays
    BY <2>w, <1>q DEF Relays, Dirs
  <2>2. Sound(r)
    BY <2>w, <2>s, <1>q DEF Relays, Sound, Copying, Dirs, Opposite, Src, Dst, Halves
  <2>3. ~Untouched(q)
    BY <2>s DEF Untouched, Copying
  <2>4. relay' = [relay EXCEPT ![c] = r]
    BY <2>0
  <2> QED BY <2>1, <2>2, <2>3, <2>4
<1>3. CASE Teardown(c, d)
  <2>s. q.stream[d] \in {"over", "stored"}
    BY <1>3 DEF Teardown
  <2>u. ~Untouched(q)
    BY <2>s DEF Untouched
  <2>1. CASE /\ q.stream[d] = "over" /\ q.mode = "tracked"
             /\ relay' = [relay EXCEPT ![c].stream[d] = "stored"]
    <3> DEFINE r == [q EXCEPT !.stream[d] = "stored"]
    <3>1. r \in Relays
      BY <1>q DEF Relays, Dirs
    <3>2. Sound(r)
      BY <2>1, <1>q DEF Relays, Sound, Copying, Dirs, Opposite, Src, Dst
    <3> QED BY <3>1, <3>2, <2>1, <2>u
  <2>2. CASE q.stream[d] = "stored" /\ relay' = [relay EXCEPT ![c] = markDone(@, d)]
    <3>1. markDone(q, d) \in Relays /\ Sound(markDone(q, d))
      BY <2>2, <1>q, markDoneSound
    <3> QED BY <3>1, <2>2, <2>u
  <2>3. CASE /\ q.stream[d] = "over" /\ q.mode = "direct"
             /\ relay' = [relay EXCEPT ![c].stream[d] = "ended"]
    <3> DEFINE r == [q EXCEPT !.stream[d] = "ended"]
    <3>1. r \in Relays
      BY <1>q DEF Relays, Dirs
    <3>2. Sound(r)
      BY <2>3, <1>q DEF Relays, Sound, Copying, Dirs, Opposite, Src, Dst
    <3> QED BY <3>1, <3>2, <2>3, <2>u
  <2>4. CASE /\ q.stream[d] = "over" /\ q.mode \in {"half", "opaque"}
             /\ relay' = [relay EXCEPT ![c] = halfClose(@, d)]
    <3>1. halfClose(q, d) \in Relays /\ Sound(halfClose(q, d))
      BY <2>4, <1>q, halfCloseSound DEF Halves
    <3> QED BY <3>1, <2>4, <2>u
  <2> QED BY <1>3, <2>1, <2>2, <2>3, <2>4 DEF Teardown
<1> QED BY <1>1, <1>2, <1>3, <1>4 DEF RelayStep

(* One connection's relay is replaced, and no connection goes back to      *)
(* waiting.                                                                *)
LEMMA Replaced ==
  ASSUME IInv, NEW c \in Conns, NEW r \in Relays, relay' = [relay EXCEPT ![c] = r], Sound(r),
         pc' \in [All -> PcStates],
         \A x \in Conns : pc'[x] \in Waiting => pc[x] \in Waiting,
         pc'[c] \notin Waiting
  PROVE  IInv'
<1>1. relay' \in [Conns -> Relays]
  BY DEF IInv
<1>2. ASSUME NEW x \in Conns
      PROVE  Sound(relay'[x]) /\ (pc'[x] \in Waiting => Untouched(relay'[x]))
  <2>1. CASE x = c
    <3>1. relay'[x] = r
      BY <2>1 DEF IInv
    <3> QED BY <2>1, <3>1
  <2>2. CASE x # c
    <3>1. relay'[x] = relay[x]
      BY <2>2 DEF IInv
    <3> QED BY <3>1 DEF IInv
  <2> QED BY <2>1, <2>2
<1> QED BY <1>1, <1>2 DEF IInv, Sound, Copying, Untouched

(* The relays stay as they are, and no connection goes back to waiting.    *)
LEMMA Kept ==
  ASSUME IInv, relay' = relay, pc' \in [All -> PcStates],
         \A x \in Conns : pc'[x] \in Waiting => pc[x] \in Waiting
  PROVE  IInv'
<1>1. ASSUME NEW x \in Conns
      PROVE  Sound(relay'[x]) /\ (pc'[x] \in Waiting => Untouched(relay'[x]))
  BY DEF IInv
<1> QED BY <1>1 DEF IInv, Sound, Copying, Untouched

(* A connection that is not in a queue may change its state.               *)
LEMMA QueueKept ==
  ASSUME QInv, IInv, queue' = queue, NEW x \in All, NEW v \in PcStates, pc[x] # "queued",
         pc' = [pc EXCEPT ![x] = v]
  PROVE  QInv'
BY DEF QInv, IInv, Kind

(* The stack hands over a connection, to the queue or to a blocked send.   *)
LEMMA HandleConnInv ==
  ASSUME QInv, IInv, NEW c \in All, HandleConn(c)
  PROVE  QInv' /\ IInv'
<1> DEFINE k == Kind(c)
<1>0. k \in Kinds /\ pc[c] = "new" /\ relay' = relay
  BY DEF HandleConn, Kind, Kinds
<1>1. CASE pc' = [pc EXCEPT ![c] = "blocked"] /\ queue' = queue
  <2>1. QInv'
    BY <1>0, <1>1, QueueKept DEF PcStates
  <2>2. pc' \in [All -> PcStates] /\ \A x \in Conns : pc'[x] \in Waiting => pc[x] \in Waiting
    BY <1>0, <1>1 DEF IInv, PcStates, Waiting, All
  <2> QED BY <2>1, <2>2, <1>0, Kept
<1>2. CASE pc' = [pc EXCEPT ![c] = "queued"] /\ queue' = [queue EXCEPT ![k] = Append(@, c)]
  <2>1. pc' \in [All -> PcStates] /\ \A x \in Conns : pc'[x] \in Waiting => pc[x] \in Waiting
    BY <1>0, <1>2 DEF IInv, PcStates, Waiting, All
  <2>2. IInv'
    BY <2>1, <1>0, Kept
  <2>3. queue' \in [Kinds -> Seq(All)]
    BY <1>0, <1>2 DEF QInv
  <2>4. ASSUME NEW l \in Kinds, NEW i \in 1 .. Len(queue'[l])
        PROVE  /\ pc'[queue'[l][i]] = "queued" /\ Kind(queue'[l][i]) = l
               /\ \A j \in 1 .. Len(queue'[l]) : queue'[l][i] = queue'[l][j] => i = j
    <3>1. CASE l # k
      BY <3>1, <1>0, <1>2 DEF QInv, IInv
    <3>2. CASE l = k
      <4>1. queue'[l] = Append(queue[k], c) /\ queue[k] \in Seq(All)
        BY <3>2, <1>0, <1>2 DEF QInv
      <4>2. \A j \in 1 .. Len(queue[k]) : queue[k][j] # c /\ pc'[queue[k][j]] = "queued"
        BY <1>0, <1>2 DEF QInv, IInv
      <4> QED BY <4>1, <4>2, <3>2, <1>0, <1>2 DEF QInv, IInv
    <3> QED BY <3>1, <3>2
  <2> QED BY <2>2, <2>3, <2>4 DEF QInv, Kind
<1> QED BY <1>1, <1>2 DEF HandleConn

(* The elements of a sequence with one more at its end.                    *)
LEMMA AppendEach ==
  ASSUME NEW S, NEW t \in Seq(S), NEW b \in S, NEW i \in 1 .. Len(Append(t, b))
  PROVE  \/ i \in 1 .. Len(t) /\ Append(t, b)[i] = t[i]
         \/ i = Len(t) + 1 /\ Append(t, b)[i] = b
OBVIOUS

(* A worker receives from its queue.                                       *)
LEMMA TakeInv ==
  ASSUME QInv, IInv, NEW w \in DOMAIN Workers, Workers[w] \in Kinds, Take(w)
  PROVE  QInv' /\ IInv'
<1> DEFINE k == Workers[w]
           q == queue[k]
           c == Head(q)
<1>0. /\ k \in Kinds /\ relay' = relay /\ q \in Seq(All) /\ q # <<>>
      /\ c \in All /\ pc[c] = "queued" /\ q[1] = c
  BY DEF Take, QInv
<1>t. /\ Tail(q) \in Seq(All)
      /\ \A i \in 1 .. Len(Tail(q)) : /\ i + 1 \in 1 .. Len(q) /\ Tail(q)[i] = q[i + 1]
                                      /\ Tail(q)[i] # c /\ pc[Tail(q)[i]] = "queued" /\ Kind(Tail(q)[i]) = k
      /\ \A i, j \in 1 .. Len(Tail(q)) : Tail(q)[i] = Tail(q)[j] => i = j
  BY <1>0 DEF QInv
<1>o. \A l \in Kinds \ {k} : \A i \in 1 .. Len(queue[l]) : Kind(queue[l][i]) # k
  BY DEF QInv
<1>k. Kind(c) = k
  BY <1>0 DEF QInv
<1>1. CASE queue' = [queue EXCEPT ![k] = Tail(@)] /\ pc' = [pc EXCEPT ![c] = "handling"]
  <2>1. pc' \in [All -> PcStates] /\ \A x \in Conns : pc'[x] \in Waiting => pc[x] \in Waiting
    BY <1>0, <1>1 DEF IInv, PcStates, Waiting, All
  <2>2. IInv'
    BY <2>1, <1>0, Kept
  <2>3. queue' \in [Kinds -> Seq(All)]
    BY <1>0, <1>1, <1>t DEF QInv
  <2>4. ASSUME NEW l \in Kinds, NEW i \in 1 .. Len(queue'[l])
        PROVE  /\ pc'[queue'[l][i]] = "queued" /\ Kind(queue'[l][i]) = l
               /\ \A j \in 1 .. Len(queue'[l]) : queue'[l][i] = queue'[l][j] => i = j
    <3>1. CASE l # k
      BY <3>1, <1>0, <1>1, <1>o, <1>k DEF QInv, IInv
    <3>2. CASE l = k
      BY <3>2, <1>0, <1>1, <1>t DEF QInv, IInv
    <3> QED BY <3>1, <3>2
  <2> QED BY <2>2, <2>3, <2>4 DEF QInv, Kind
<1>2. ASSUME NEW b \in Blocked(k), queue' = [queue EXCEPT ![k] = Append(Tail(@), b)],
             pc' = [pc EXCEPT ![c] = "handling", ![b] = "queued"]
      PROVE  QInv' /\ IInv'
  <2>0. b \in All /\ pc[b] = "blocked" /\ Kind(b) = k /\ b # c
    BY <1>0 DEF Blocked
  <2>1. pc' \in [All -> PcStates] /\ \A x \in Conns : pc'[x] \in Waiting => pc[x] \in Waiting
    BY <1>0, <1>2, <2>0 DEF IInv, PcStates, Waiting, All
  <2>2. IInv'
    BY <2>1, <1>0, Kept
  <2>3. queue' \in [Kinds -> Seq(All)]
    BY <1>0, <1>2, <1>t, <2>0 DEF QInv
  <2>4. ASSUME NEW l \in Kinds, NEW i \in 1 .. Len(queue'[l])
        PROVE  /\ pc'[queue'[l][i]] = "queued" /\ Kind(queue'[l][i]) = l
               /\ \A j \in 1 .. Len(queue'[l]) : queue'[l][i] = queue'[l][j] => i = j
    <3>1. CASE l # k
      BY <3>1, <1>0, <1>2, <1>o, <1>k, <2>0 DEF QInv, IInv
    <3>2. CASE l = k
      <4>1. queue'[l] = Append(Tail(q), b)
        BY <3>2, <1>0, <1>2 DEF QInv
      <4>2. ASSUME NEW j \in 1 .. Len(Tail(q))
            PROVE  Tail(q)[j] # b /\ pc'[Tail(q)[j]] = "queued"
        <5> DEFINE e == Tail(q)[j]
        <5>1. e \in All /\ e # c /\ pc[e] = "queued"
          BY <1>t
        <5>2. e # b
          BY <5>1, <2>0
        <5> HIDE DEF e
        <5>3. pc'[e] = "queued"
          BY <5>1, <5>2, <1>2, <1>0, <2>0 DEF IInv
        <5> QED BY <5>2, <5>3 DEF e
      <4>3. pc'[b] = "queued"
        BY <1>2, <2>0 DEF IInv
      <4> HIDE DEF q
      <4> DEFINE t == Tail(q)
      <4>t. /\ t \in Seq(All)
            /\ \A j \in 1 .. Len(t) : Kind(t[j]) = k /\ t[j] # b /\ pc'[t[j]] = "queued"
            /\ \A j, n \in 1 .. Len(t) : t[j] = t[n] => j = n
        BY <1>t, <4>2
      <4>a. queue'[l] = Append(t, b) /\ i \in 1 .. Len(Append(t, b))
        BY <4>1
      <4> HIDE DEF t, k
      <4> QED BY <4>t, <4>a, <4>3, <3>2, <2>0, AppendEach
    <3> QED BY <3>1, <3>2
  <2> QED BY <2>2, <2>3, <2>4 DEF QInv, Kind
<1> QED BY <1>1, <1>2 DEF Take

(* Everything starts untouched and the queues empty.                       *)
LEMMA InitInv == Init => QInv /\ IInv
<1> SUFFICES ASSUME Init PROVE QInv /\ IInv
  OBVIOUS
<1>1. QInv
  BY DEF Init, QInv, Kinds
<1>2. pc \in [All -> PcStates]
  BY DEF Init, PcStates
<1>3. ASSUME NEW c \in Conns
      PROVE  relay[c] \in Relays /\ Sound(relay[c]) /\ Untouched(relay[c])
  <2>1. PICK m \in RelayModes : relay[c] = NewRelay(m)
    BY DEF Init, RelayModes
  <2> QED BY <2>1, NewRelaySound
<1>4. relay = [c \in Conns |-> relay[c]]
  BY DEF Init
<1> QED BY <1>1, <1>2, <1>3, <1>4 DEF IInv

(* A worker leaves a connection it was handling or relaying.               *)
LEMMA WorkerInv ==
  ASSUME QInv, IInv, NEW w \in DOMAIN Workers, WorkerStep(w)
  PROVE  QInv' /\ IInv'
<1> DEFINE c == worker[w]
<1>k. Workers[w] \in Kinds
  BY WorkersAssumption DEF Kinds
<1>1. CASE Take(w)
  BY <1>1, <1>k, TakeInv
<1>2. ASSUME c \in All, pc[c] \in {"handling", "relay"}, queue' = queue,
             NEW v \in {"relay", "done"}, pc' = [pc EXCEPT ![c] = v],
             \/ relay' = relay
             \/ c \in Conns /\ \E r \in Relays : Sound(r) /\ relay' = [relay EXCEPT ![c] = r]
      PROVE  QInv' /\ IInv'
  <2>1. QInv'
    BY <1>2, QueueKept DEF PcStates
  <2>2. /\ pc' \in [All -> PcStates]
        /\ \A x \in Conns : pc'[x] \in Waiting => pc[x] \in Waiting
        /\ c \in Conns => pc'[c] \notin Waiting
    BY <1>2 DEF IInv, PcStates, Waiting, All
  <2> QED BY <1>2, <2>1, <2>2, Kept, Replaced
<1>n. ASSUME c \notin Conns, NEW r, relay' = [relay EXCEPT ![c] = r] PROVE relay' = relay
  BY <1>n DEF IInv
<1>c. ASSUME c \in Conns, \A d \in Dirs : ~Copying(relay[c], d),
             relay' = [relay EXCEPT ![c] = CloseBoth(@)]
      PROVE  \E r \in Relays : Sound(r) /\ relay' = [relay EXCEPT ![c] = r]
  BY <1>c, CloseBothSound DEF IInv
<1>u. ASSUME c \in Conns, pc[c] = "handling"
      PROVE  Untouched(relay[c]) /\ \A d \in Dirs : ~Copying(relay[c], d)
  BY <1>u DEF IInv, Waiting, Untouched, Copying
<1>3. CASE HandlerFails(w)
  <2>1. /\ c \in All /\ pc[c] = "handling" /\ queue' = queue /\ pc' = [pc EXCEPT ![c] = "done"]
        /\ relay' = IF c \in Conns THEN [relay EXCEPT ![c] = CloseBoth(@)] ELSE relay
    BY <1>3 DEF HandlerFails, Handling, Leave
  <2> QED BY <2>1, <1>2, <1>c, <1>u
<1>4. CASE HandlerPanics(w)
  <2>1. /\ c \in All /\ pc[c] = "handling" /\ queue' = queue /\ pc' = [pc EXCEPT ![c] = "done"]
        /\ relay' = [relay EXCEPT ![c] = CloseBoth(@)]
    BY <1>4 DEF HandlerPanics, Handling, Leave
  <2> QED BY <2>1, <1>2, <1>c, <1>u, <1>n
<1>5. CASE handleTCPConn(w)
  <2>1. /\ c \in All /\ pc[c] = "handling" /\ queue' = queue /\ pc' = [pc EXCEPT ![c] = "relay"]
        /\ relay' = [relay EXCEPT ![c] = Start(@)]
    BY <1>5 DEF handleTCPConn, Handling
  <2>2. ASSUME c \in Conns PROVE Start(relay[c]) \in Relays /\ Sound(Start(relay[c]))
    BY <2>1, <2>2, <1>u, StartSound DEF IInv
  <2> QED BY <2>1, <2>2, <1>2, <1>n
<1>6. CASE handleUDPConn(w)
  <2>1. /\ c \in All /\ pc[c] = "handling" /\ queue' = queue /\ pc' = [pc EXCEPT ![c] = "relay"]
        /\ relay' = relay
    BY <1>6 DEF handleUDPConn, Handling
  <2> QED BY <2>1, <1>2
<1>7. CASE RelayReturns(w)
  <2>1. /\ c \in All /\ pc[c] = "relay" /\ queue' = queue /\ pc' = [pc EXCEPT ![c] = "done"]
        /\ IF c \in Conns
           THEN RelayOver(relay[c]) /\ relay' = [relay EXCEPT ![c] = CloseBoth(@)]
           ELSE relay' = relay
    BY <1>7 DEF RelayReturns, Leave
  <2>2. c \in Conns => \A d \in Dirs : ~Copying(relay[c], d)
    BY <2>1 DEF RelayOver, Copying
  <2> QED BY <2>1, <2>2, <1>2, <1>c
<1> QED BY <1>1, <1>3, <1>4, <1>5, <1>6, <1>7 DEF WorkerStep

(* Every step keeps the inductive invariant.                               *)
LEMMA NextInv == QInv /\ IInv /\ [Next]_vars => QInv' /\ IInv'
<1> SUFFICES ASSUME QInv, IInv, [Next]_vars PROVE QInv' /\ IInv'
  OBVIOUS
<1>s. ASSUME queue' = queue, pc' = pc, relay' = relay PROVE QInv' /\ IInv'
  BY <1>s DEF QInv, IInv, Sound, Copying, Untouched, Kind
<1>1. ASSUME NEW c \in All, HandleConn(c) PROVE QInv' /\ IInv'
  BY <1>1, HandleConnInv
<1>2. ASSUME NEW w \in DOMAIN Workers, WorkerStep(w) PROVE QInv' /\ IInv'
  BY <1>2, WorkerInv
<1>p. ASSUME NEW c \in Conns, NEW r \in Relays, relay' = [relay EXCEPT ![c] = r], Sound(r),
             ~Untouched(relay[c]), queue' = queue, pc' = pc
      PROVE  QInv' /\ IInv'
  <2>1. QInv'
    BY <1>p DEF QInv, Kind
  <2>2. pc \in [All -> PcStates] /\ pc[c] \notin Waiting
    BY <1>p DEF IInv
  <2> QED BY <1>p, <2>1, <2>2, Replaced
<1>3. ASSUME NEW c \in Conns, NEW d \in Dirs, TcpStream(c, d) PROVE QInv' /\ IInv'
  <2>1. queue' = queue /\ pc' = pc /\ RelayStep(c, d)
    BY <1>3 DEF TcpStream
  <2>2. PICK r \in Relays : relay' = [relay EXCEPT ![c] = r] /\ Sound(r) /\ ~Untouched(relay[c])
    BY <2>1, StreamSound DEF IInv
  <2> QED BY <2>1, <2>2, <1>p
<1>4. ASSUME NEW u \in Sessions, NEW w \in Ways, UdpStream(u, w) PROVE QInv' /\ IInv'
  BY <1>4, <1>s DEF UdpStream
<1>5. CASE Peers
  <2>1. PICK c \in Conns, s \in Sides : PeerCloses(c, s) \/ PeerResets(c, s)
    BY <1>5 DEF Peers
  <2>2. queue' = queue /\ pc' = pc
    BY <1>5 DEF Peers
  <2>3. PICK v \in {"fin", "rst"} : relay' = [relay EXCEPT ![c].peer[s] = v]
    BY <2>1 DEF PeerCloses, PeerResets
  <2> DEFINE r == [relay[c] EXCEPT !.peer[s] = v]
  <2>q. relay[c] \in Relays /\ Sound(relay[c])
    BY DEF IInv
  <2>4. r \in Relays
    BY <2>q DEF Relays, Sides
  <2>5. Sound(r)
    BY <2>q DEF Relays, Sound, Copying
  <2>6. ~Untouched(relay[c])
    BY <2>1 DEF PeerCloses, PeerResets, Untouched, Dirs
  <2>7. relay' = [relay EXCEPT ![c] = r]
    BY <2>3
  <2> QED BY <2>2, <2>4, <2>5, <2>6, <2>7, <1>p
<1>6. CASE Clock
  BY <1>6, <1>s DEF Clock
<1>7. CASE UNCHANGED vars
  BY <1>7, <1>s DEF vars
<1> QED BY <1>1, <1>2, <1>3, <1>4, <1>5, <1>6, <1>7 DEF Next

-----------------------------------------------------------------------------

(* No teardown closes a socket, or sends an end of stream, under a         *)
(* direction of relayStream that is still copying.                         *)
THEOREM TeardownSafe == Spec => []NoLiveStreamClosed
<1>1. IInv => NoLiveStreamClosed
  BY DEF IInv, Sound, Copying, NoLiveStreamClosed
<1> QED BY <1>1, InitInv, NextInv, PTL DEF Spec

(* Only a half-close of the opposite direction lets a read deadline end a  *)
(* direction of relayStream.                                               *)
THEOREM DeadlineJustified == Spec => []DeadlineOnlyAfterOpposite
<1>1. IInv => DeadlineOnlyAfterOpposite
  BY DEF IInv, Sound, Copying, Halves, DeadlineOnlyAfterOpposite
<1> QED BY <1>1, InitInv, NextInv, PTL DEF Spec

(* A connection waits in a queue of the tunnel at most once, and only      *)
(* while no worker has received it.                                        *)
THEOREM QueuedOnce == Spec => []QInv
BY InitInv, NextInv, PTL DEF Spec

-----------------------------------------------------------------------------
(* UDP sessions *)

(* The wait of a direction is as long as the silence, unless the other one *)
(* is between handing a packet on and renewing the deadline.               *)
WaitIsSilence(u, w) ==
  u.pipe[w] = "read" => \/ u.due[Reads(w)] + u.quiet >= Timeout
                        \/ \E v \in Ways \ {w} : u.pipe[v] = "renew"

UdpSound(u) == u \in UdpStates /\ \A w \in Ways : WaitIsSilence(u, w)

UInv == udp \in [Sessions -> UdpStates] /\ \A u \in Sessions : UdpSound(udp[u])

(* One session changes, soundly.                                           *)
LEMMA UdpReplaced ==
  ASSUME UInv, NEW u, NEW r, UdpSound(r), udp' = [udp EXCEPT ![u] = r]
  PROVE  UInv'
BY DEF UInv, UdpSound

(* What a step of one direction does to its session.                       *)
LEMMA UdpStepSound ==
  ASSUME UInv, NEW u \in Sessions, NEW w \in Ways, UdpStep(u, w)
  PROVE  UInv'
<1> DEFINE q == udp[u]
<1>q. UdpSound(q) /\ q \in UdpStates
  BY DEF UInv, UdpSound
<1>t. /\ q.pipe \in [Ways -> {"off", "loop", "read", "write", "renew", "ended"}]
      /\ q.why \in [Ways -> {"running", "timeout", "failed"}]
      /\ q.left \in [Ways -> 0 .. Packets]
      /\ q.due \in [{"origin", "remote"} -> 0 .. Timeout] /\ q.quiet \in 0 .. Timeout
  BY <1>q DEF UdpStates
<1>n. 0 \in 0 .. Timeout /\ Timeout \in 0 .. Timeout
  BY UdpAssumption
<1>1. CASE RenewSource(u, w)
  <2> DEFINE r == [q EXCEPT !.pipe[w] = "read", !.due[Reads(w)] = Timeout]
  <2>0. /\ r.due = [q.due EXCEPT ![Reads(w)] = Timeout] /\ r.quiet = q.quiet
        /\ r.why = q.why /\ r.left = q.left /\ r.pipe = [q.pipe EXCEPT ![w] = "read"]
    BY <1>q DEF UdpStates
  <2>1. r \in UdpStates
    <3>1. [q.due EXCEPT ![Reads(w)] = Timeout] \in [{"origin", "remote"} -> 0 .. Timeout]
      BY <1>t, <1>n
    <3>2. [q.pipe EXCEPT ![w] = "read"] \in [Ways -> {"off", "loop", "read", "write", "renew", "ended"}]
      BY <1>t
    <3> QED BY <3>1, <3>2, <1>q DEF UdpStates
  <2>2. q.pipe[w] = "loop"
    BY <1>1 DEF RenewSource
  <2> HIDE DEF r
  <2>3. ASSUME NEW v \in Ways PROVE WaitIsSilence(r, v)
    BY <2>0, <2>2, <2>3, <1>q, <1>t, UdpAssumption DEF UdpSound, WaitIsSilence, Ways, Reads
  <2>4. udp' = [udp EXCEPT ![u] = r]
    BY <1>1 DEF RenewSource, r
  <2> QED BY <2>1, <2>3, <2>4, UdpReplaced DEF UdpSound
<1>2. CASE ReadPacket(u, w)
  <2> DEFINE r == [q EXCEPT !.pipe[w] = "write", !.left[w] = @ - 1]
  <2>1. q.left[w] - 1 \in 0 .. Packets /\ q.pipe[w] = "read"
    BY <1>2, <1>t, UdpAssumption DEF ReadPacket
  <2>2. [q.left EXCEPT ![w] = @ - 1] \in [Ways -> 0 .. Packets]
    BY <2>1, <1>t
  <2>3. r \in UdpStates
    BY <2>2, <1>q DEF UdpStates
  <2>4. r.due = q.due /\ r.quiet = q.quiet /\ r.pipe = [q.pipe EXCEPT ![w] = "write"]
    BY <1>q DEF UdpStates
  <2>5. udp' = [udp EXCEPT ![u] = r]
    BY <1>2 DEF ReadPacket
  <2> HIDE DEF r
  <2>6. ASSUME NEW v \in Ways PROVE WaitIsSilence(r, v)
    BY <2>1, <2>4, <1>q, <1>t DEF UdpSound, WaitIsSilence
  <2> QED BY <2>3, <2>5, <2>6, UdpReplaced DEF UdpSound
<1>3. ASSUME q.pipe[w] # "renew", NEW y \in {"timeout", "failed"},
             udp' = [udp EXCEPT ![u].pipe[w] = "ended", ![u].why[w] = y]
      PROVE  UInv'
  <2> DEFINE r == [q EXCEPT !.pipe[w] = "ended", !.why[w] = y]
  <2>1. r \in UdpStates
    BY <1>q DEF UdpStates
  <2>2. r.due = q.due /\ r.quiet = q.quiet /\ r.pipe = [q.pipe EXCEPT ![w] = "ended"]
    BY <1>q DEF UdpStates
  <2>3. udp' = [udp EXCEPT ![u] = r]
    BY <1>3
  <2> HIDE DEF r
  <2>4. ASSUME NEW v \in Ways PROVE WaitIsSilence(r, v)
    BY <1>3, <2>2, <1>q, <1>t DEF UdpSound, WaitIsSilence
  <2> QED BY <2>1, <2>3, <2>4, UdpReplaced DEF UdpSound
<1>4. CASE udp[u].pipe[w] = "write" /\ udp' = [udp EXCEPT ![u].pipe[w] = "renew", ![u].quiet = 0]
  <2> DEFINE r == [q EXCEPT !.pipe[w] = "renew", !.quiet = 0]
  <2>1. r \in UdpStates
    <3>1. [q.pipe EXCEPT ![w] = "renew"] \in [Ways -> {"off", "loop", "read", "write", "renew", "ended"}]
      BY <1>t
    <3> QED BY <3>1, <1>n, <1>q DEF UdpStates
  <2>2. r.pipe = [q.pipe EXCEPT ![w] = "renew"]
    BY <1>q DEF UdpStates
  <2>3. udp' = [udp EXCEPT ![u] = r]
    BY <1>4
  <2> HIDE DEF r
  <2>4. ASSUME NEW v \in Ways PROVE WaitIsSilence(r, v)
    BY <2>2, <1>t DEF WaitIsSilence
  <2> QED BY <2>1, <2>3, <2>4, UdpReplaced DEF UdpSound
<1>5. CASE RenewTarget(u, w)
  <2> DEFINE r == [q EXCEPT !.pipe[w] = "loop", !.due[Writes(w)] = Timeout]
  <2>1. r \in UdpStates
    <3>1. [q.due EXCEPT ![Writes(w)] = Timeout] \in [{"origin", "remote"} -> 0 .. Timeout]
      BY <1>t, <1>n
    <3>2. [q.pipe EXCEPT ![w] = "loop"] \in [Ways -> {"off", "loop", "read", "write", "renew", "ended"}]
      BY <1>t
    <3> QED BY <3>1, <3>2, <1>q DEF UdpStates
  <2>2. /\ r.due = [q.due EXCEPT ![Writes(w)] = Timeout] /\ r.quiet = q.quiet
        /\ r.pipe = [q.pipe EXCEPT ![w] = "loop"]
    BY <1>q DEF UdpStates
  <2>3. udp' = [udp EXCEPT ![u] = r]
    BY <1>5 DEF RenewTarget
  <2> HIDE DEF r
  <2>4. ASSUME NEW v \in Ways PROVE WaitIsSilence(r, v)
    BY <2>2, <1>t, UdpAssumption DEF WaitIsSilence, Ways, Reads, Writes
  <2> QED BY <2>1, <2>3, <2>4, UdpReplaced DEF UdpSound
<1> QED BY <1>1, <1>2, <1>3, <1>4, <1>5
        DEF UdpStep, UdpRuns, ReadFails, ReadTimesOut, WritePacket

(* Time passes for a deadline and for the silence alike.                   *)
LEMMA UdpTickSound ==
  ASSUME UInv, UdpTick
  PROVE  UInv'
<1>1. ASSUME NEW u \in Sessions
      PROVE  UdpSound(udp'[u])
  <2> DEFINE q == udp[u]
             r == [q EXCEPT !.due = [s \in DOMAIN @ |-> IF @[s] = 0 THEN 0 ELSE @[s] - 1],
                            !.quiet = IF @ = Timeout THEN @ ELSE @ + 1]
  <2>1. UdpSound(q)
    BY DEF UInv, UdpSound
  <2>2. udp'[u] = q \/ udp'[u] = r
    BY DEF UdpTick
  <2>3. q.due \in [{"origin", "remote"} -> 0 .. Timeout] /\ q.quiet \in 0 .. Timeout
    BY <2>1 DEF UdpSound, UdpStates
  <2>4. /\ r.due = [s \in {"origin", "remote"} |-> IF q.due[s] = 0 THEN 0 ELSE q.due[s] - 1]
        /\ r.quiet = IF q.quiet = Timeout THEN Timeout ELSE q.quiet + 1
        /\ r.why = q.why /\ r.pipe = q.pipe /\ r.left = q.left
    BY <2>1, <2>3 DEF UdpSound, UdpStates
  <2>5. /\ r.due \in [{"origin", "remote"} -> 0 .. Timeout] /\ r.quiet \in 0 .. Timeout
        /\ \A s \in {"origin", "remote"} :
             q.due[s] + q.quiet >= Timeout => r.due[s] + r.quiet >= Timeout
    BY <2>3, <2>4, UdpAssumption
  <2>6. r \in UdpStates
    BY <2>1, <2>5 DEF UdpSound, UdpStates
  <2> HIDE DEF r
  <2>7. ASSUME NEW w \in Ways PROVE WaitIsSilence(r, w)
    BY <2>1, <2>4, <2>5 DEF UdpSound, WaitIsSilence, Reads
  <2> QED BY <2>1, <2>2, <2>6, <2>7 DEF UdpSound
<1>2. udp' = [u \in Sessions |-> udp'[u]]
  BY DEF UdpTick
<1> QED BY <1>1, <1>2 DEF UInv, UdpSound

(* Every step keeps the deadlines in step with the silence.                *)
LEMMA UdpKept == UInv /\ [Next]_vars => UInv'
<1> SUFFICES ASSUME UInv, [Next]_vars PROVE UInv'
  OBVIOUS
<1>s. ASSUME udp' = udp PROVE UInv'
  BY <1>s DEF UInv
<1>1. ASSUME NEW c \in All, HandleConn(c) PROVE UInv'
  BY <1>1, <1>s DEF HandleConn
<1>2. ASSUME NEW w \in DOMAIN Workers, WorkerStep(w) PROVE UInv'
  <2>1. CASE handleUDPConn(w)
    <3>1. udp' = [udp EXCEPT ![worker[w]] = pipePacket(@)]
      BY <2>1 DEF handleUDPConn
    <3>2. CASE worker[w] \in Sessions
      <4> DEFINE r == pipePacket(udp[worker[w]])
      <4>1. r \in UdpStates
        BY <3>2 DEF UInv, UdpStates, pipePacket, Ways
      <4>2. UdpSound(r)
        BY <3>2, <4>1 DEF UInv, UdpSound, WaitIsSilence, UdpStates, pipePacket
      <4> QED BY <3>1, <4>2, UdpReplaced
    <3>3. CASE worker[w] \notin Sessions
      BY <3>1, <3>3, <1>s DEF UInv
    <3> QED BY <3>2, <3>3
  <2>2. CASE ~handleUDPConn(w)
    BY <1>2, <2>2, <1>s DEF WorkerStep, Take, HandlerFails, HandlerPanics, handleTCPConn, RelayReturns
  <2> QED BY <2>1, <2>2
<1>3. ASSUME NEW c \in Conns, NEW d \in Dirs, TcpStream(c, d) PROVE UInv'
  BY <1>3, <1>s DEF TcpStream
<1>4. ASSUME NEW u \in Sessions, NEW w \in Ways, UdpStream(u, w) PROVE UInv'
  BY <1>4, UdpStepSound DEF UdpStream
<1>5. CASE Peers
  BY <1>5, <1>s DEF Peers
<1>6. CASE Clock
  BY <1>6, UdpTickSound DEF Clock
<1>7. CASE UNCHANGED vars
  BY <1>7, <1>s DEF vars
<1> QED BY <1>1, <1>2, <1>3, <1>4, <1>5, <1>6, <1>7 DEF Next

(* What UdpTimeoutMeansQuiet says of one step.                             *)
TimesOutQuiet(u, w) ==
  udp[u].why[w] # "timeout" /\ udp'[u].why[w] = "timeout"
    => udp[u].quiet = Timeout \/ \E v \in Ways \ {w} : udp[u].pipe[v] = "renew"

(* Only copyPacketData's timed-out read records a timeout, and it comes    *)
(* when the deadline has passed.                                           *)
LEMMA UdpStepQuiet ==
  ASSUME UInv, NEW u \in Sessions, NEW w \in Ways, UdpStep(u, w),
         NEW x \in Sessions, NEW v \in Ways
  PROVE  TimesOutQuiet(x, v)
<1>t. \A y \in Sessions : /\ udp[y].why \in [Ways -> {"running", "timeout", "failed"}]
                          /\ udp[y] \in UdpStates /\ udp \in [Sessions -> UdpStates]
  BY DEF UInv, UdpStates
<1>1. CASE ReadTimesOut(u, w)
  <2>1. x # u \/ v # w => udp'[x].why[v] = udp[x].why[v]
    BY <1>1, <1>t DEF ReadTimesOut, UdpStates
  <2>2. udp[u].due[Reads(w)] = 0 /\ WaitIsSilence(udp[u], w) /\ udp[u].pipe[w] = "read"
    BY <1>1 DEF ReadTimesOut, UInv, UdpSound
  <2>3. udp[u].quiet \in 0 .. Timeout
    BY <1>t DEF UdpStates
  <2>4. udp[u].quiet = Timeout \/ \E k \in Ways \ {w} : udp[u].pipe[k] = "renew"
    BY <2>2, <2>3, UdpAssumption DEF WaitIsSilence
  <2> QED BY <2>1, <2>4 DEF TimesOutQuiet
<1>s. ASSUME udp'[x].why = udp[x].why PROVE TimesOutQuiet(x, v)
  BY <1>s DEF TimesOutQuiet
<1>f. ASSUME udp' = [udp EXCEPT ![u].pipe[w] = "ended", ![u].why[w] = "failed"]
      PROVE  TimesOutQuiet(x, v)
  <2>1. CASE x = u
    <3>1. udp'[u].why = [udp[u].why EXCEPT ![w] = "failed"]
      BY <1>f, <1>t DEF UdpStates
    <3>2. udp'[u].why[v] = udp[u].why[v] \/ udp'[u].why[v] = "failed"
      BY <3>1, <1>t
    <3> QED BY <2>1, <3>2 DEF TimesOutQuiet
  <2>2. CASE x # u
    BY <2>2, <1>f, <1>s, <1>t
  <2> QED BY <2>1, <2>2
<1>r. ASSUME udp' = [udp EXCEPT ![u].pipe[w] = "renew", ![u].quiet = 0] PROVE TimesOutQuiet(x, v)
  <2>1. udp'[x].why = udp[x].why
    BY <1>r, <1>t DEF UdpStates
  <2> QED BY <2>1, <1>s
<1>2. CASE ReadFails(u, w) \/ WritePacket(u, w)
  BY <1>2, <1>f, <1>r DEF ReadFails, WritePacket
<1>3. CASE RenewSource(u, w)
  <2>1. udp'[x].why = udp[x].why
    BY <1>3, <1>t DEF RenewSource, UdpStates
  <2> QED BY <2>1, <1>s
<1>4. CASE ReadPacket(u, w)
  <2>1. udp'[x].why = udp[x].why
    BY <1>4, <1>t DEF ReadPacket, UdpStates
  <2> QED BY <2>1, <1>s
<1>5. CASE RenewTarget(u, w)
  <2>1. udp'[x].why = udp[x].why
    BY <1>5, <1>t DEF RenewTarget, UdpStates
  <2> QED BY <2>1, <1>s
<1> QED BY <1>1, <1>2, <1>3, <1>4, <1>5 DEF UdpStep, UdpRuns

(* No other step records a timeout.                                        *)
LEMMA StepQuiet ==
  ASSUME UInv, [Next]_vars, NEW x \in Sessions, NEW v \in Ways
  PROVE  TimesOutQuiet(x, v)
<1>s. ASSUME udp'[x].why = udp[x].why PROVE TimesOutQuiet(x, v)
  BY <1>s DEF TimesOutQuiet
<1>1. ASSUME NEW c \in All, HandleConn(c) PROVE TimesOutQuiet(x, v)
  BY <1>1, <1>s DEF HandleConn
<1>2. ASSUME NEW w \in DOMAIN Workers, WorkerStep(w) PROVE TimesOutQuiet(x, v)
  <2>1. CASE handleUDPConn(w)
    <3>1. udp'[x] = udp[x] \/ udp'[x] = pipePacket(udp[x])
      BY <2>1 DEF handleUDPConn, UInv
    <3>2. pipePacket(udp[x]).why = udp[x].why
      BY DEF pipePacket, UInv, UdpStates
    <3> QED BY <3>1, <3>2, <1>s
  <2>2. CASE ~handleUDPConn(w)
    BY <1>2, <2>2, <1>s DEF WorkerStep, Take, HandlerFails, HandlerPanics, handleTCPConn, RelayReturns
  <2> QED BY <2>1, <2>2
<1>3. ASSUME NEW c \in Conns, NEW d \in Dirs, TcpStream(c, d) PROVE TimesOutQuiet(x, v)
  BY <1>3, <1>s DEF TcpStream
<1>4. ASSUME NEW u \in Sessions, NEW w \in Ways, UdpStream(u, w) PROVE TimesOutQuiet(x, v)
  BY <1>4, UdpStepQuiet DEF UdpStream
<1>5. CASE Peers
  BY <1>5, <1>s DEF Peers
<1>6. CASE Clock
  <2>1. udp'[x].why = udp[x].why
    BY <1>6 DEF Clock, UdpTick, UInv, UdpStates
  <2> QED BY <2>1, <1>s
<1>7. CASE UNCHANGED vars
  BY <1>7, <1>s DEF vars
<1> QED BY <1>1, <1>2, <1>3, <1>4, <1>5, <1>6, <1>7 DEF Next

(* A direction of pipePacket times out only when no packet was handed on   *)
(* in either direction for udpSessionTimeout, or the other direction has   *)
(* handed one on and not yet renewed the deadline.                         *)
THEOREM TimeoutMeansQuiet == Spec => UdpTimeoutMeansQuiet
<1>1. Init => UInv
  BY UdpAssumption DEF Init, UInv, UdpSound, WaitIsSilence, NewUdp, UdpStates, Ways
<1>2. UInv /\ [Next]_vars => [\A u \in Sessions, w \in Ways : TimesOutQuiet(u, w)]_udp
  BY StepQuiet
<1> QED BY <1>1, <1>2, UdpKept, PTL DEF Spec, UdpTimeoutMeansQuiet, TimesOutQuiet

-----------------------------------------------------------------------------
(* Workers *)

(* No worker and no connection changes its part in the counts.             *)
LEMMA CountsKept ==
  ASSUME IsFiniteSet(DeadWorkers), IsFiniteSet(Panicked), Cardinality(DeadWorkers) = Cardinality(Panicked),
         \A w \in DOMAIN Workers : worker'[w] = Dead <=> worker[w] = Dead,
         profile' = profile,
         \A c \in All : profile[c] = "panics" => (pc'[c] = "done" <=> pc[c] = "done")
  PROVE  /\ IsFiniteSet(DeadWorkers') /\ IsFiniteSet(Panicked')
         /\ Cardinality(DeadWorkers') = Cardinality(Panicked')
<1>1. DeadWorkers' = DeadWorkers
  BY DEF DeadWorkers
<1>2. Panicked' = Panicked
  BY DEF Panicked
<1> QED BY <1>1, <1>2

(* The stack hands over a connection: it is in the queue or blocked.       *)
LEMMA HandleConnWorkers ==
  ASSUME QInv, IInv, WInv, NEW c \in All, HandleConn(c)
  PROVE  WInv'
<1> DEFINE k == Kind(c)
<1>0. k \in Kinds /\ pc[c] = "new" /\ worker' = worker /\ profile' = profile /\ pc \in [All -> PcStates]
  BY DEF HandleConn, Kind, Kinds, IInv
<1>1. \E v \in {"queued", "blocked"} : pc' = [pc EXCEPT ![c] = v]
  BY DEF HandleConn
<1>2. ASSUME NEW x \in All, pc'[x] = "queued"
      PROVE  \E i \in 1 .. Len(queue'[Kind(x)]) : queue'[Kind(x)][i] = x
  <2>k. Kind(x) \in Kinds /\ queue[Kind(x)] \in Seq(All) /\ queue[k] \in Seq(All)
    BY <1>0 DEF Kind, Kinds, QInv
  <2>1. CASE pc' = [pc EXCEPT ![c] = "queued"] /\ queue' = [queue EXCEPT ![k] = Append(@, c)]
    <3>1. queue'[k] = Append(queue[k], c) /\ (Kind(x) # k => queue'[Kind(x)] = queue[Kind(x)])
      BY <2>1, <2>k, <1>0 DEF QInv
    <3>2. CASE x = c
      BY <3>1, <3>2, <2>k
    <3>3. CASE x # c
      <4>1. PICK i \in 1 .. Len(queue[Kind(x)]) : queue[Kind(x)][i] = x
        BY <1>2, <2>1, <3>3, <1>0 DEF WInv
      <4> QED BY <4>1, <3>1, <2>k
    <3> QED BY <3>2, <3>3
  <2>2. CASE pc' = [pc EXCEPT ![c] = "blocked"] /\ queue' = queue
    BY <1>0, <1>2, <2>2 DEF WInv
  <2> QED BY <2>1, <2>2 DEF HandleConn
<1>3. \A x \in All : pc'[x] \in Busy \cup {"done"} <=> pc[x] \in Busy \cup {"done"}
  BY <1>0, <1>1 DEF Busy
<1>4. \A x \in All : pc[x] \in Busy \cup {"done"} => pc'[x] = pc[x]
  BY <1>0, <1>1 DEF Busy
<1>5. /\ IsFiniteSet(DeadWorkers') /\ IsFiniteSet(Panicked')
      /\ Cardinality(DeadWorkers') = Cardinality(Panicked')
  BY <1>0, <1>3, <1>4, CountsKept DEF WInv, Busy
<1>6. /\ \A w \in DOMAIN Workers : worker'[w] \in All => pc'[worker'[w]] \in Busy
      /\ \A x \in All : pc'[x] \in Busy => \E w \in DOMAIN Workers : worker'[w] = x
      /\ \A x \in All : pc'[x] = "relay" => profile'[x] # "panics"
  BY <1>0, <1>3, <1>4 DEF WInv, Busy
<1> QED BY <1>0, <1>2, <1>5, <1>6 DEF WInv, Kind

(* A worker receives a connection, and a blocked one takes its place.      *)
LEMMA TakeWorkers ==
  ASSUME QInv, IInv, WInv, NEW w \in DOMAIN Workers, Workers[w] \in Kinds, Take(w)
  PROVE  WInv'
<1> DEFINE k == Workers[w]
           q == queue[k]
           c == Head(q)
<1>0. /\ k \in Kinds /\ q \in Seq(All) /\ q # <<>> /\ c \in All /\ q[1] = c /\ Kind(c) = k
      /\ pc[c] = "queued" /\ worker[w] = Idle /\ worker' = [worker EXCEPT ![w] = c]
      /\ profile' = profile /\ pc \in [All -> PcStates]
      /\ worker \in [DOMAIN Workers -> All \cup {Idle, Dead}]
  BY DEF Take, QInv, IInv, WInv
<1>t. \A i \in 2 .. Len(q) : i - 1 \in 1 .. Len(Tail(q)) /\ Tail(q)[i - 1] = q[i]
  BY <1>0
<1>1. \/ queue' = [queue EXCEPT ![k] = Tail(@)] /\ pc' = [pc EXCEPT ![c] = "handling"]
      \/ \E b \in All : /\ b # c /\ pc[b] = "blocked" /\ Kind(b) = k
                        /\ queue' = [queue EXCEPT ![k] = Append(Tail(@), b)]
                        /\ pc' = [pc EXCEPT ![c] = "handling", ![b] = "queued"]
  BY <1>0 DEF Take, Blocked
<1>2. /\ pc'[c] = "handling"
      /\ \A x \in All : x # c => \/ pc'[x] = pc[x]
                                 \/ pc[x] = "blocked" /\ pc'[x] = "queued" /\ Kind(x) = k
                                    /\ queue'[k] = Append(Tail(q), x)
      /\ queue'[k] = Tail(q) \/ \E b \in All : queue'[k] = Append(Tail(q), b)
      /\ \A l \in Kinds : l # k => queue'[l] = queue[l]
  <2>q. queue \in [Kinds -> Seq(All)]
    BY DEF QInv
  <2>1. CASE queue' = [queue EXCEPT ![k] = Tail(@)] /\ pc' = [pc EXCEPT ![c] = "handling"]
    BY <2>1, <2>q, <1>0
  <2>2. ASSUME NEW b \in All, b # c, pc[b] = "blocked", Kind(b) = k,
               queue' = [queue EXCEPT ![k] = Append(Tail(@), b)],
               pc' = [pc EXCEPT ![c] = "handling", ![b] = "queued"]
        PROVE  /\ pc'[c] = "handling"
               /\ \A x \in All : x # c => \/ pc'[x] = pc[x]
                                          \/ pc[x] = "blocked" /\ pc'[x] = "queued" /\ Kind(x) = k
                                             /\ queue'[k] = Append(Tail(q), x)
               /\ queue'[k] = Tail(q) \/ \E e \in All : queue'[k] = Append(Tail(q), e)
               /\ \A l \in Kinds : l # k => queue'[l] = queue[l]
    <3>1. pc'[c] = "handling" /\ pc'[b] = "queued" /\ \A x \in All : x \notin {b, c} => pc'[x] = pc[x]
      BY <2>2, <1>0
    <3>2. queue'[k] = Append(Tail(q), b) /\ \A l \in Kinds : l # k => queue'[l] = queue[l]
      BY <2>2, <2>q, <1>0
    <3> QED BY <2>2, <3>1, <3>2
  <2> QED BY <1>1, <2>1, <2>2
<1>3. \A i \in 1 .. Len(Tail(q)) : i \in 1 .. Len(queue'[k]) /\ queue'[k][i] = Tail(q)[i]
  <2>1. Tail(q) \in Seq(All)
    BY <1>0
  <2>2. \A b \in All : \A i \in 1 .. Len(Tail(q)) :
           i \in 1 .. Len(Append(Tail(q), b)) /\ Append(Tail(q), b)[i] = Tail(q)[i]
    <3> HIDE DEF q
    <3> QED BY <2>1
  <2> QED BY <1>2, <2>2
<1>4. ASSUME NEW x \in All, pc'[x] = "queued"
      PROVE  \E i \in 1 .. Len(queue'[Kind(x)]) : queue'[Kind(x)][i] = x
  <2>0. x # c /\ Kind(x) \in Kinds
    BY <1>2, <1>4 DEF Kind, Kinds
  <2>1. CASE pc[x] = "blocked"
    <3>1. Kind(x) = k /\ queue'[k] = Append(Tail(q), x)
      BY <2>0, <2>1, <1>2, <1>4
    <3>2. Len(Tail(q)) + 1 \in 1 .. Len(Append(Tail(q), x)) /\ Append(Tail(q), x)[Len(Tail(q)) + 1] = x
      BY <1>0
    <3> QED BY <3>1, <3>2
  <2>2. CASE pc[x] = "queued"
    <3>1. PICK i \in 1 .. Len(queue[Kind(x)]) : queue[Kind(x)][i] = x
      BY <2>2 DEF WInv
    <3>2. CASE Kind(x) = k
      <4>1. i \in 2 .. Len(q) /\ q[i] = x
        BY <3>1, <3>2, <2>0, <1>0
      <4> QED BY <4>1, <1>t, <1>3, <3>2
    <3>3. CASE Kind(x) # k
      BY <3>1, <3>3, <2>0, <1>2
    <3> QED BY <3>2, <3>3
  <2> QED BY <2>0, <2>1, <2>2, <1>2, <1>4
<1>5. \A x \in All : x # c => (pc'[x] \in Busy \cup {"done"} <=> pc[x] \in Busy \cup {"done"})
                              /\ (pc[x] \in Busy \cup {"done"} => pc'[x] = pc[x])
  BY <1>2 DEF Busy
<1>6. \A v \in DOMAIN Workers : worker[v] # c
  BY <1>0 DEF WInv, Busy
<1>7. worker' \in [DOMAIN Workers -> All \cup {Idle, Dead}] /\ worker'[w] = c
      /\ \A v \in DOMAIN Workers : v # w => worker'[v] = worker[v]
  BY <1>0
<1>8. /\ IsFiniteSet(DeadWorkers') /\ IsFiniteSet(Panicked')
      /\ Cardinality(DeadWorkers') = Cardinality(Panicked')
  <2>1. \A v \in DOMAIN Workers : worker'[v] = Dead <=> worker[v] = Dead
    BY <1>0, <1>7, StatesAssumption
  <2>2. \A x \in All : pc'[x] = "done" <=> pc[x] = "done"
    BY <1>0, <1>2, <1>5 DEF Busy
  <2> QED BY <2>1, <2>2, <1>0, CountsKept DEF WInv
<1> HIDE DEF c, q, k
<1>9. /\ \A v \in DOMAIN Workers : worker'[v] \in All => pc'[worker'[v]] \in Busy
      /\ \A v, u \in DOMAIN Workers : worker'[v] \in All /\ worker'[v] = worker'[u] => v = u
      /\ \A x \in All : pc'[x] \in Busy => \E v \in DOMAIN Workers : worker'[v] = x
      /\ \A x \in All : pc'[x] = "relay" => profile'[x] # "panics"
  <2>1. \A v \in DOMAIN Workers : worker'[v] \in All => pc'[worker'[v]] \in Busy
    BY <1>2, <1>5, <1>6, <1>7 DEF WInv, Busy
  <2>2. \A v, u \in DOMAIN Workers : worker'[v] \in All /\ worker'[v] = worker'[u] => v = u
    BY <1>6, <1>7 DEF WInv
  <2>3. \A x \in All : pc'[x] \in Busy => \E v \in DOMAIN Workers : worker'[v] = x
    <3> TAKE x \in All
    <3>1. CASE x = c
      BY <3>1, <1>7
    <3>2. CASE x # c
      <4> HAVE pc'[x] \in Busy
      <4>1. pc[x] \in Busy
        BY <3>2, <1>2 DEF Busy
      <4>2. PICK v \in DOMAIN Workers : worker[v] = x
        BY <4>1 DEF WInv
      <4>3. v # w
        BY <4>2, <1>0, StatesAssumption
      <4> QED BY <4>2, <4>3, <1>7
    <3> QED BY <3>1, <3>2
  <2>4. \A x \in All : pc'[x] = "relay" => profile'[x] # "panics"
    BY <1>0, <1>2, <1>5 DEF WInv, Busy
  <2> QED BY <2>1, <2>2, <2>3, <2>4
<1> QED BY <1>4, <1>7, <1>8, <1>9 DEF WInv, Kind

(* A worker leaves a connection that does not panic and is free.           *)
LEMMA LeaveWorkers ==
  ASSUME IInv, WInv, NEW w \in DOMAIN Workers, worker[w] \in All, profile[worker[w]] # "panics",
         Leave(w, Idle), profile' = profile, queue' = queue
  PROVE  WInv'
<1> DEFINE c == worker[w]
<1>0. /\ c \in All /\ pc[c] \in Busy /\ pc \in [All -> PcStates]
      /\ worker \in [DOMAIN Workers -> All \cup {Idle, Dead}]
      /\ pc' = [pc EXCEPT ![c] = "done"] /\ worker' = [worker EXCEPT ![w] = Idle]
  BY DEF WInv, IInv, Leave
<1>1. /\ pc'[c] = "done" /\ worker'[w] = Idle
      /\ \A x \in All : x # c => pc'[x] = pc[x]
      /\ \A v \in DOMAIN Workers : v # w => worker'[v] = worker[v]
      /\ worker' \in [DOMAIN Workers -> All \cup {Idle, Dead}]
  BY <1>0
<1>2. \A v \in DOMAIN Workers : v # w => worker[v] # c
  BY <1>0 DEF WInv
<1>3. /\ IsFiniteSet(DeadWorkers') /\ IsFiniteSet(Panicked')
      /\ Cardinality(DeadWorkers') = Cardinality(Panicked')
  <2>1. \A v \in DOMAIN Workers : worker'[v] = Dead <=> worker[v] = Dead
    BY <1>0, <1>1, StatesAssumption
  <2>2. \A x \in All : profile[x] = "panics" => (pc'[x] = "done" <=> pc[x] = "done")
    BY <1>1
  <2> QED BY <2>1, <2>2, CountsKept DEF WInv
<1>q. c \in All /\ pc[c] \in Busy
  BY <1>0
<1> HIDE DEF c
<1>4. /\ \A v \in DOMAIN Workers : worker'[v] \in All => pc'[worker'[v]] \in Busy
      /\ \A v, u \in DOMAIN Workers : worker'[v] \in All /\ worker'[v] = worker'[u] => v = u
      /\ \A x \in All : pc'[x] = "relay" => profile'[x] # "panics"
  BY <1>1, <1>2, StatesAssumption DEF WInv, Busy
<1>5. \A x \in All : pc'[x] \in Busy => \E v \in DOMAIN Workers : worker'[v] = x
  <2> SUFFICES ASSUME NEW x \in All, pc'[x] \in Busy
               PROVE  \E v \in DOMAIN Workers : worker'[v] = x
    OBVIOUS
  <2>1. x # c /\ pc[x] \in Busy
    BY <1>1 DEF Busy
  <2>2. PICK v \in DOMAIN Workers : worker[v] = x
    BY <2>1 DEF WInv
  <2>3. v # w
    BY <2>1, <2>2 DEF c
  <2> QED BY <2>2, <2>3, <1>1
<1>6. \A x \in All : pc'[x] = "queued" =>
         \E i \in 1 .. Len(queue'[Kind(x)]) : queue'[Kind(x)][i] = x
  BY <1>1 DEF WInv
<1> QED BY <1>1, <1>3, <1>4, <1>5, <1>6 DEF WInv, Kind

(* A panic takes one worker for one connection.                            *)
LEMMA PanicWorkers ==
  ASSUME IInv, WInv, NEW w \in DOMAIN Workers, HandlerPanics(w)
  PROVE  WInv'
<1> DEFINE c == worker[w]
<1>0. /\ c \in All /\ pc[c] = "handling" /\ profile[c] = "panics" /\ pc \in [All -> PcStates]
      /\ worker \in [DOMAIN Workers -> All \cup {Idle, Dead}]
      /\ pc' = [pc EXCEPT ![c] = "done"] /\ worker' = [worker EXCEPT ![w] = Dead]
      /\ profile' = profile /\ queue' = queue
  BY DEF WInv, IInv, HandlerPanics, Handling, Leave
<1>1. /\ pc'[c] = "done" /\ worker'[w] = Dead
      /\ \A x \in All : x # c => pc'[x] = pc[x]
      /\ \A v \in DOMAIN Workers : v # w => worker'[v] = worker[v]
      /\ worker' \in [DOMAIN Workers -> All \cup {Idle, Dead}]
  BY <1>0
<1>2. \A v \in DOMAIN Workers : v # w => worker[v] # c
  BY <1>0 DEF WInv
<1>3. /\ IsFiniteSet(DeadWorkers') /\ IsFiniteSet(Panicked')
      /\ Cardinality(DeadWorkers') = Cardinality(Panicked')
  <2>1. DeadWorkers' = DeadWorkers \cup {w} /\ w \notin DeadWorkers
    BY <1>0, <1>1, StatesAssumption DEF DeadWorkers
  <2>2. Panicked' = Panicked \cup {c} /\ c \notin Panicked
    BY <1>0, <1>1 DEF Panicked
  <2>f. IsFiniteSet(DeadWorkers) /\ IsFiniteSet(Panicked) /\ Cardinality(DeadWorkers) = Cardinality(Panicked)
    BY DEF WInv
  <2>3. IsFiniteSet(DeadWorkers') /\ Cardinality(DeadWorkers') = Cardinality(DeadWorkers) + 1
    BY <2>1, <2>f, FS_AddElement
  <2>4. IsFiniteSet(Panicked') /\ Cardinality(Panicked') = Cardinality(Panicked) + 1
    <3> HIDE DEF c
    <3> QED BY <2>2, <2>f, FS_AddElement
  <2> QED BY <2>f, <2>3, <2>4
<1>q. c \in All
  BY <1>0
<1> HIDE DEF c
<1>4. /\ \A v \in DOMAIN Workers : worker'[v] \in All => pc'[worker'[v]] \in Busy
      /\ \A v, u \in DOMAIN Workers : worker'[v] \in All /\ worker'[v] = worker'[u] => v = u
      /\ \A x \in All : pc'[x] = "relay" => profile'[x] # "panics"
  BY <1>0, <1>1, <1>2, StatesAssumption DEF WInv, Busy
<1>5. \A x \in All : pc'[x] \in Busy => \E v \in DOMAIN Workers : worker'[v] = x
  <2> SUFFICES ASSUME NEW x \in All, pc'[x] \in Busy
               PROVE  \E v \in DOMAIN Workers : worker'[v] = x
    OBVIOUS
  <2>1. x # c /\ pc[x] \in Busy
    BY <1>1 DEF Busy
  <2>2. PICK v \in DOMAIN Workers : worker[v] = x
    BY <2>1 DEF WInv
  <2>3. v # w
    BY <2>1, <2>2 DEF c
  <2> QED BY <2>2, <2>3, <1>1
<1>6. \A x \in All : pc'[x] = "queued" =>
         \E i \in 1 .. Len(queue'[Kind(x)]) : queue'[Kind(x)][i] = x
  BY <1>0, <1>1 DEF WInv
<1> QED BY <1>1, <1>3, <1>4, <1>5, <1>6 DEF WInv, Kind

(* A relay starts for a connection whose handler does not panic.           *)
LEMMA RelayWorkers ==
  ASSUME IInv, WInv, NEW w \in DOMAIN Workers, worker[w] \in All, pc[worker[w]] = "handling",
         profile[worker[w]] # "panics", pc' = [pc EXCEPT ![worker[w]] = "relay"],
         worker' = worker, profile' = profile, queue' = queue
  PROVE  WInv'
<1>1. /\ pc'[worker[w]] = "relay"
      /\ \A x \in All : x # worker[w] => pc'[x] = pc[x]
  BY DEF IInv
<1>2. /\ IsFiniteSet(DeadWorkers') /\ IsFiniteSet(Panicked')
      /\ Cardinality(DeadWorkers') = Cardinality(Panicked')
  BY <1>1, CountsKept DEF WInv
<1>3. /\ \A v \in DOMAIN Workers : worker'[v] \in All => pc'[worker'[v]] \in Busy
      /\ \A x \in All : pc'[x] = "relay" => profile'[x] # "panics"
      /\ \A x \in All : pc'[x] \in Busy => \E v \in DOMAIN Workers : worker'[v] = x
  BY <1>1 DEF WInv, Busy
<1>4. \A x \in All : pc'[x] = "queued" =>
         \E i \in 1 .. Len(queue'[Kind(x)]) : queue'[Kind(x)][i] = x
  BY <1>1 DEF WInv
<1> QED BY <1>2, <1>3, <1>4 DEF WInv, Kind

(* Nothing about workers and connections changes.                          *)
LEMMA UntouchedWorkers ==
  ASSUME WInv, pc' = pc, worker' = worker, profile' = profile, queue' = queue
  PROVE  WInv'
BY CountsKept DEF WInv, Kind

(* At the start no worker has a connection.                                *)
LEMMA WorkersStart == Init => WInv
<1> SUFFICES ASSUME Init PROVE WInv
  OBVIOUS
<1>1. DeadWorkers = {} /\ Panicked = {}
  BY StatesAssumption DEF Init, DeadWorkers, Panicked
<1> QED BY <1>1, FS_EmptySet, StatesAssumption DEF Init, WInv, Busy

(* Every step keeps the workers and their connections together.            *)
LEMMA WorkersKept == QInv /\ IInv /\ WInv /\ [Next]_vars => WInv'
<1> SUFFICES ASSUME QInv, IInv, WInv, [Next]_vars PROVE WInv'
  OBVIOUS
<1>1. ASSUME NEW c \in All, HandleConn(c) PROVE WInv'
  BY <1>1, HandleConnWorkers
<1>2. ASSUME NEW w \in DOMAIN Workers, WorkerStep(w) PROVE WInv'
  <2>1. CASE Take(w)
    BY <2>1, TakeWorkers, WorkersAssumption DEF Kinds
  <2>2. CASE HandlerFails(w)
    BY <2>2, LeaveWorkers DEF HandlerFails, Handling
  <2>3. CASE HandlerPanics(w)
    BY <2>3, PanicWorkers
  <2>4. CASE handleTCPConn(w)
    BY <2>4, RelayWorkers DEF handleTCPConn, Handling, RelayModes
  <2>5. CASE handleUDPConn(w)
    BY <2>5, RelayWorkers DEF handleUDPConn, Handling
  <2>6. CASE RelayReturns(w)
    <3>1. worker[w] \in All /\ profile[worker[w]] # "panics"
      BY <2>6 DEF RelayReturns, WInv
    <3> QED BY <2>6, <3>1, LeaveWorkers DEF RelayReturns
  <2> QED BY <1>2, <2>1, <2>2, <2>3, <2>4, <2>5, <2>6 DEF WorkerStep
<1>3. CASE \/ \E c \in Conns, d \in Dirs : TcpStream(c, d)
           \/ \E u \in Sessions, w \in Ways : UdpStream(u, w)
           \/ Peers \/ Clock \/ UNCHANGED vars
  BY <1>3, UntouchedWorkers DEF TcpStream, UdpStream, Peers, Clock, vars
<1> QED BY <1>1, <1>2, <1>3 DEF Next

(* The pool of workers loses one worker for each panic and none otherwise, *)
(* every connection in a handler or a relay has exactly one worker, and a  *)
(* queued connection is in its queue exactly once: for any number of       *)
(* workers and connections and any capacity of the queues.                 *)
THEOREM PoolAccounted == Spec => []WorkersAccounted
<1>1. Init => WInv
  BY WorkersStart
<1>2. QInv /\ IInv /\ WInv /\ [Next]_vars => WInv'
  BY WorkersKept
<1>3. QInv /\ IInv /\ WInv => WorkersAccounted
  <2> SUFFICES ASSUME QInv, IInv, WInv, NEW c \in All
               PROVE  /\ Cardinality({w \in DOMAIN Workers : worker[w] = c})
                           = (IF pc[c] \in {"handling", "relay"} THEN 1 ELSE 0)
                      /\ Cardinality({i \in 1 .. Len(queue[Kind(c)]) : queue[Kind(c)][i] = c})
                           = (IF pc[c] = "queued" THEN 1 ELSE 0)
    BY DEF WorkersAccounted, WInv, DeadWorkers, Panicked
  <2> DEFINE W == {w \in DOMAIN Workers : worker[w] = c}
             I == {i \in 1 .. Len(queue[Kind(c)]) : queue[Kind(c)][i] = c}
  <2>k. Kind(c) \in Kinds
    BY DEF Kind, Kinds
  <2>1. IF pc[c] \in Busy THEN \E w : W = {w} ELSE W = {}
    <3>1. CASE pc[c] \in Busy
      <4>1. PICK w \in DOMAIN Workers : worker[w] = c
        BY <3>1 DEF WInv
      <4>2. W = {w}
        BY <4>1 DEF WInv
      <4> QED BY <3>1, <4>2
    <3>2. CASE pc[c] \notin Busy
      BY <3>2 DEF WInv
    <3> QED BY <3>1, <3>2
  <2>2. IF pc[c] = "queued" THEN \E i : I = {i} ELSE I = {}
    <3>1. CASE pc[c] = "queued"
      <4>1. PICK i \in 1 .. Len(queue[Kind(c)]) : queue[Kind(c)][i] = c
        BY <3>1 DEF WInv
      <4>2. I = {i}
        BY <4>1, <2>k DEF QInv
      <4> QED BY <3>1, <4>2
    <3>2. CASE pc[c] # "queued"
      BY <3>2, <2>k DEF QInv
    <3> QED BY <3>1, <3>2
  <2> HIDE DEF W, I
  <2>3. \A x : Cardinality({x}) = 1
    BY FS_Singleton
  <2>4. Cardinality({}) = 0
    BY FS_EmptySet
  <2> QED BY <2>1, <2>2, <2>3, <2>4 DEF W, I, Busy
<1> QED BY <1>1, <1>2, <1>3, InitInv, NextInv, PTL DEF Spec

-----------------------------------------------------------------------------
(* The tunnel is a pool.                                                   *)

(* A worker has a connection of its own kind.                              *)
KInv == \A w \in DOMAIN Workers : worker[w] \in All => Kind(worker[w]) = Workers[w]

(* A connection that is handled and the workers that could have it.        *)
ServedOf(k) == {c \in All : Kind(c) = k /\ pc[c] \in Busy}

LEMMA KindIsKnown == \A c \in All : Kind(c) \in Kinds
BY DEF Kind, Kinds

LEMMA KindsKept ==
  ASSUME KInv, NEW w \in DOMAIN Workers, NEW v, worker' = [worker EXCEPT ![w] = v],
         v \in All => Kind(v) = Workers[w], worker \in [DOMAIN Workers -> All \cup {Idle, Dead}]
  PROVE  KInv'
<1> SUFFICES ASSUME NEW x \in DOMAIN Workers, worker'[x] \in All
             PROVE  Kind(worker'[x]) = Workers[x]
  BY DEF KInv, Kind
<1>1. CASE x = w
  BY <1>1
<1>2. CASE x # w
  BY <1>2 DEF KInv
<1> QED
  BY <1>1, <1>2

LEMMA KStep == QInv /\ WInv /\ KInv /\ [Next]_vars => KInv'
<1> SUFFICES ASSUME QInv, WInv, KInv, [Next]_vars PROVE KInv'
  OBVIOUS
<1>t. worker \in [DOMAIN Workers -> All \cup {Idle, Dead}]
  BY DEF WInv
<1>1. CASE UNCHANGED worker
  BY <1>1 DEF KInv, Kind
<1>2. ASSUME NEW w \in DOMAIN Workers, Take(w) PROVE KInv'
  <2> DEFINE c == Head(queue[Workers[w]])
  <2>1. worker' = [worker EXCEPT ![w] = c] /\ queue[Workers[w]] # <<>>
    BY <1>2 DEF Take
  <2>2. Workers[w] \in Kinds /\ queue[Workers[w]] \in Seq(All)
    BY WorkersAssumption DEF QInv, Kinds
  <2>3. 1 \in 1 .. Len(queue[Workers[w]]) /\ c = queue[Workers[w]][1]
    BY <2>1, <2>2
  <2>4. Kind(c) = Workers[w]
    BY <2>2, <2>3 DEF QInv
  <2> HIDE DEF c
  <2> QED
    BY <1>t, <2>1, <2>4, KindsKept
<1>3. ASSUME NEW w \in DOMAIN Workers, NEW s \in {Idle, Dead}, Leave(w, s) PROVE KInv'
  <2>1. s \notin All /\ worker' = [worker EXCEPT ![w] = s]
    BY <1>3, StatesAssumption DEF Leave
  <2> QED
    BY <1>t, <2>1, KindsKept
<1>4. ASSUME NEW w \in DOMAIN Workers, WorkerStep(w) PROVE KInv'
  BY <1>1, <1>2, <1>3, <1>4
  DEF WorkerStep, HandlerFails, HandlerPanics, handleTCPConn, handleUDPConn, RelayReturns
<1> QED
  BY <1>1, <1>4 DEF Next, HandleConn, TcpStream, UdpStream, Peers, Clock, vars

LEMMA StageOf ==
  ASSUME NEW c \in All, pc[c] \in PcStates
  PROVE  /\ pc[c] = "new" <=> Stages[c] = "outside"
         /\ pc[c] \in {"blocked", "queued"} <=> Stages[c] = "waiting"
         /\ pc[c] \in Busy <=> Stages[c] = "served"
         /\ pc[c] = "done" <=> Stages[c] = "over"
BY DEF Stages, Stage, PcStates, Busy

LEMMA StageNext ==
  ASSUME NEW c \in All, pc'[c] \in PcStates
  PROVE  /\ pc'[c] = "new" <=> Stages'[c] = "outside"
         /\ pc'[c] \in {"blocked", "queued"} <=> Stages'[c] = "waiting"
         /\ pc'[c] \in Busy <=> Stages'[c] = "served"
         /\ pc'[c] = "done" <=> Stages'[c] = "over"
BY DEF Stages, Stage, PcStates, Busy

(* The stages of all connections but one stay, and that one moves.         *)
LEMMA OneMoves ==
  ASSUME NEW c \in All, NEW s, NEW t, Stages[c] = s, Stages'[c] = t,
         \A x \in All : x # c => Stages'[x] = Stages[x]
  PROVE  ConnPool!Moves(c, s, t)
<1>1. Stages' = [Stages EXCEPT ![c] = t]
  BY DEF Stages
<1> QED
  BY <1>1 DEF ConnPool!Moves

LEMMA SameStage ==
  ASSUME NEW c \in All, pc[c] \in PcStates, pc'[c] = pc[c]
  PROVE  Stages'[c] = Stages[c]
BY DEF Stages, Stage, PcStates

(* Workers are lost by becoming dead.                                      *)
LEMMA LossesStay ==
  ASSUME \A w \in DOMAIN Workers : worker'[w] = Dead <=> worker[w] = Dead
  PROVE  LostWorkers' = LostWorkers
<1>1. \A k \in Kinds : LostOf(k)' = LostOf(k)
  BY DEF LostOf, WorkersOf
<1> QED
  BY <1>1 DEF LostWorkers

(* While a worker is free, the connections served are fewer than the       *)
(* workers left.                                                           *)
LEMMA RoomToServe ==
  ASSUME WInv, KInv, NEW w \in DOMAIN Workers, worker[w] = Idle, NEW k, Workers[w] = k
  PROVE  Cardinality(ServedOf(k)) + Cardinality(LostOf(k)) < Cardinality(WorkersOf(k))
<1> DEFINE S == ServedOf(k)
           L == LostOf(k)
           W == WorkersOf(k)
           T == W \ (L \cup {w})
<1>1. IsFiniteSet(W)
  BY WorkersAssumption, FS_Subset DEF WorkersOf
<1>2. L \subseteq W /\ w \in W /\ w \notin L
  BY StatesAssumption DEF LostOf, WorkersOf
<1>3. IsFiniteSet(L) /\ IsFiniteSet(T)
  BY <1>1, <1>2, FS_Subset
<1>4. \A c \in S : \E v \in T : worker[v] = c
  <2> SUFFICES ASSUME NEW c \in S PROVE \E v \in T : worker[v] = c
    OBVIOUS
  <2>1. c \in All /\ Kind(c) = k /\ pc[c] \in Busy
    BY DEF ServedOf
  <2>2. PICK v \in DOMAIN Workers : worker[v] = c
    BY <2>1 DEF WInv
  <2>3. c # Idle /\ c # Dead
    BY <2>1, StatesAssumption
  <2>4. Workers[v] = k
    BY <2>1, <2>2 DEF KInv
  <2> QED
    BY <2>2, <2>3, <2>4 DEF LostOf, WorkersOf
<1> DEFINE f == [c \in S |-> CHOOSE v \in T : worker[v] = c]
<1>5. \A c \in S : f[c] \in T /\ worker[f[c]] = c
  BY <1>4
<1>6. f \in Injection(S, T)
  <2>1. f \in [S -> T]
    BY <1>5
  <2>2. \A a, b \in S : f[a] = f[b] => a = b
    BY <1>5
  <2> HIDE DEF f, S, T
  <2> QED
    BY <2>1, <2>2, Fun_IsInj
<1>7. IsFiniteSet(S) /\ Cardinality(S) <= Cardinality(T)
  <2> HIDE DEF f, S, T
  <2> QED
    BY <1>3, <1>6, FS_Injection
<1> HIDE DEF S, L, W
<1>8. IsFiniteSet(L \cup {w}) /\ Cardinality(L \cup {w}) = Cardinality(L) + 1
  BY <1>2, <1>3, FS_AddElement, FS_CardinalityType
<1>9. Cardinality(W) = Cardinality(L) + 1 + Cardinality(T)
  <2>1. T \cup (L \cup {w}) = W /\ T \cap (L \cup {w}) = {}
    BY <1>2
  <2>2. Cardinality(T \cup (L \cup {w})) = Cardinality(T) + Cardinality(L \cup {w}) - Cardinality(T \cap (L \cup {w}))
    BY <1>3, <1>8, FS_Union
  <2>3. Cardinality({}) = 0
    BY FS_EmptySet
  <2>4. Cardinality(T) \in Nat /\ Cardinality(L) \in Nat
    BY <1>3, FS_CardinalityType
  <2>5. Cardinality(W) = Cardinality(T) + Cardinality(L \cup {w}) - 0
    BY <2>1, <2>2, <2>3
  <2> HIDE DEF T, f
  <2> QED
    BY <1>8, <2>4, <2>5
<1>10. Cardinality(S) \in Nat /\ Cardinality(T) \in Nat /\ Cardinality(L) \in Nat
  BY <1>3, <1>7, FS_CardinalityType
<1> HIDE DEF T
<1> QED
  BY <1>7, <1>9, <1>10 DEF S, L, W

LEMMA ServedThere ==
  ASSUME IInv, NEW c \in All
  PROVE  ConnPool!Served([x \in All |-> Kind(x)][c]) = ServedOf(Kind(c))
<1>1. \A x \in All : Stages[x] = "served" <=> pc[x] \in Busy
  BY StageOf DEF IInv
<1> QED
  BY <1>1 DEF ConnPool!Served, ServedOf

(* The pool counts as the tunnel does.                                     *)
LEMMA SameCount == ASSUME NEW S PROVE ConnPool!Cardinality(S) = Cardinality(S)
BY DEF Cardinality, ConnPool!Cardinality

LEMMA PoolStarts == Init => ConnPool!PoolInit
<1> SUFFICES ASSUME Init PROVE ConnPool!PoolInit
  OBVIOUS
<1>1. Stages = [c \in All |-> "outside"]
  BY DEF Init, Stages, Stage
<1>2. \A k \in Kinds : LostOf(k) = {}
  BY StatesAssumption DEF Init, LostOf, WorkersOf
<1>3. LostWorkers = [k \in Kinds |-> 0]
  BY <1>2, FS_EmptySet DEF LostWorkers
<1>4. DOMAIN [k \in Kinds |-> Cardinality(WorkersOf(k))] = Kinds
  OBVIOUS
<1> QED
  BY <1>1, <1>3, <1>4 DEF ConnPool!PoolInit, Faulty

(* One action of the pool for each step of a connection.                   *)
LEMMA Accepts ==
  ASSUME IInv, NEW c \in All, HandleConn(c), pc' \in [All -> PcStates]
  PROVE  ConnPool!Accept(c)
<1>1. pc[c] = "new" /\ \E v \in {"blocked", "queued"} : pc' = [pc EXCEPT ![c] = v]
  BY DEF HandleConn
<1>2. pc'[c] \in {"blocked", "queued"} /\ \A x \in All : x # c => pc'[x] = pc[x]
  BY <1>1 DEF IInv
<1>3. ConnPool!Moves(c, "outside", "waiting")
  BY <1>1, <1>2, StageOf, StageNext, SameStage, OneMoves DEF IInv
<1>4. LostWorkers' = LostWorkers /\ Faulty' = Faulty
  BY LossesStay DEF HandleConn, Faulty
<1> QED
  BY <1>3, <1>4 DEF ConnPool!Accept

(* That a blocked connection moves up into the queue is not to be seen.    *)
LEMMA Serves ==
  ASSUME IInv, QInv, WInv, KInv, NEW w \in DOMAIN Workers, Take(w), pc' \in [All -> PcStates]
  PROVE  \E c \in All : ConnPool!Serve(c)
<1> DEFINE k == Workers[w]
           c == Head(queue[k])
<1>1. k \in Kinds /\ queue[k] \in Seq(All) /\ queue[k] # <<>> /\ worker[w] = Idle
  BY WorkersAssumption DEF QInv, Kinds, Take
<1>2. c \in All /\ 1 \in 1 .. Len(queue[k]) /\ c = queue[k][1]
  BY <1>1
<1>3. pc[c] = "queued" /\ Kind(c) = k
  BY <1>1, <1>2 DEF QInv
<1>4. \/ pc' = [pc EXCEPT ![c] = "handling"]
      \/ \E b \in All : pc[b] = "blocked" /\ pc' = [pc EXCEPT ![c] = "handling", ![b] = "queued"]
  BY DEF Take, Blocked
<1>5. /\ worker' = [worker EXCEPT ![w] = c] /\ profile' = profile
  BY DEF Take
<1> HIDE DEF c
<1>6. /\ pc'[c] = "handling"
      /\ \A x \in All : x # c => pc'[x] = pc[x] \/ (pc[x] = "blocked" /\ pc'[x] = "queued")
  BY <1>2, <1>3, <1>4 DEF IInv
<1>7. \A x \in All : x # c => Stages'[x] = Stages[x]
  BY <1>6, StageOf, StageNext, SameStage DEF IInv
<1>8. Stages[c] = "waiting" /\ Stages'[c] = "served"
  BY <1>2, <1>3, <1>6, StageOf, StageNext DEF IInv, Busy
<1>9. ConnPool!Moves(c, "waiting", "served")
  BY <1>2, <1>7, <1>8, OneMoves
<1>10. LostWorkers' = LostWorkers
  <2>1. c # Dead
    BY <1>2, StatesAssumption
  <2>2. \A v \in DOMAIN Workers : worker'[v] = Dead <=> worker[v] = Dead
    BY <1>1, <1>5, <2>1, StatesAssumption DEF WInv
  <2> QED
    BY <2>2, LossesStay
<1>11. Cardinality(ServedOf(k)) + Cardinality(LostOf(k)) < Cardinality(WorkersOf(k))
  BY <1>1, RoomToServe
<1>12. LET kc == [x \in All |-> Kind(x)][c]
       IN  Cardinality(ConnPool!Served(kc)) + LostWorkers[kc] < [l \in Kinds |-> Cardinality(WorkersOf(l))][kc]
  BY <1>1, <1>2, <1>3, <1>11, ServedThere DEF LostWorkers
<1>13. Faulty' = Faulty
  BY <1>5 DEF Faulty
<1> QED
  BY <1>2, <1>9, <1>10, <1>12, <1>13, SameCount DEF ConnPool!Serve

(* A handler returns, or a relay, and the worker is free.                  *)
LEMMA Finishes ==
  ASSUME IInv, WInv, NEW w \in DOMAIN Workers, worker[w] \in All, profile[worker[w]] # "panics",
         Leave(w, Idle), profile' = profile, pc' \in [All -> PcStates]
  PROVE  ConnPool!Finish(worker[w])
<1> DEFINE c == worker[w]
<1>1. c \in All /\ pc[c] \in Busy /\ pc' = [pc EXCEPT ![c] = "done"] /\ worker' = [worker EXCEPT ![w] = Idle]
  BY DEF WInv, Leave
<1>2. worker[w] # Dead /\ Idle # Dead
  BY StatesAssumption
<1>3. \A v \in DOMAIN Workers : worker'[v] = Dead <=> worker[v] = Dead
  BY <1>1, <1>2 DEF WInv
<1>4. c \notin Faulty /\ Faulty' = Faulty
  BY DEF Faulty
<1> HIDE DEF c
<1>5. pc'[c] = "done" /\ \A x \in All : x # c => pc'[x] = pc[x]
  BY <1>1 DEF IInv
<1>6. ConnPool!Moves(c, "served", "over")
  BY <1>1, <1>5, StageOf, StageNext, SameStage, OneMoves DEF IInv
<1>7. LostWorkers' = LostWorkers
  BY <1>3, LossesStay
<1>8. ConnPool!Finish(c)
  BY <1>4, <1>6, <1>7 DEF ConnPool!Finish
<1> QED
  BY <1>8 DEF c

(* A panic loses one worker of the connection's kind.                      *)
LEMMA Crashes ==
  ASSUME IInv, WInv, KInv, NEW w \in DOMAIN Workers, HandlerPanics(w), pc' \in [All -> PcStates]
  PROVE  ConnPool!Crash(worker[w])
<1> DEFINE c == worker[w]
           k == Workers[w]
<1>1. c \in All /\ pc[c] \in Busy /\ pc' = [pc EXCEPT ![c] = "done"] /\ worker' = [worker EXCEPT ![w] = Dead]
  BY DEF HandlerPanics, Handling, Leave, Busy
<1>2. c # Dead /\ c \in Faulty /\ Faulty' = Faulty
  BY <1>1, StatesAssumption DEF HandlerPanics, Handling, Faulty
<1>3. Kind(c) = k /\ k \in Kinds
  BY <1>1, WorkersAssumption DEF KInv, Kinds
<1>4. \A v \in DOMAIN Workers : worker'[v] = Dead <=> (v = w \/ worker[v] = Dead)
  BY <1>1 DEF WInv
<1>5. worker[w] # Dead
  BY <1>2
<1> HIDE DEF c
<1>6. pc'[c] = "done" /\ \A x \in All : x # c => pc'[x] = pc[x]
  BY <1>1 DEF IInv
<1>7. ConnPool!Moves(c, "served", "over")
  BY <1>1, <1>6, StageOf, StageNext, SameStage, OneMoves DEF IInv
<1>8. LostOf(k)' = LostOf(k) \cup {w} /\ w \notin LostOf(k)
  BY <1>4, <1>5 DEF LostOf, WorkersOf
<1>9. \A l \in Kinds : l # k => LostOf(l)' = LostOf(l)
  BY <1>4 DEF LostOf, WorkersOf
<1>10. IsFiniteSet(LostOf(k))
  BY WorkersAssumption, FS_Subset DEF LostOf, WorkersOf
<1>11. Cardinality(LostOf(k)') = Cardinality(LostOf(k)) + 1
  BY <1>8, <1>10, FS_AddElement
<1>12. LostWorkers' = [LostWorkers EXCEPT ![k] = @ + 1]
  <2>1. LostWorkers' = [l \in Kinds |-> Cardinality(LostOf(l)')]
    BY DEF LostWorkers
  <2>2. LostWorkers = [l \in Kinds |-> Cardinality(LostOf(l))]
    BY DEF LostWorkers
  <2> QED
    BY <1>3, <1>9, <1>11, <2>1, <2>2
<1>13. [x \in All |-> Kind(x)][c] = k
  BY <1>1, <1>3
<1>14. ConnPool!Crash(c)
  BY <1>2, <1>7, <1>12, <1>13 DEF ConnPool!Crash
<1> QED
  BY <1>14 DEF c

LEMMA PoolSteps ==
  ASSUME IInv, QInv, WInv, KInv, IInv', [Next]_vars
  PROVE  [ConnPool!PoolNext]_(ConnPool!poolVars)
<1>t. pc' \in [All -> PcStates]
  BY DEF IInv
<1>1. CASE UNCHANGED <<pc, worker, profile>>
  <2>1. Stages' = Stages
    BY <1>1, SameStage DEF IInv, Stages
  <2>2. LostWorkers' = LostWorkers /\ Faulty' = Faulty
    BY <1>1, LossesStay DEF Faulty
  <2> QED
    BY <2>1, <2>2 DEF ConnPool!poolVars
<1>2. ASSUME NEW c \in All, HandleConn(c) PROVE ConnPool!PoolNext
  BY <1>t, <1>2, Accepts DEF ConnPool!PoolNext
<1>3. ASSUME NEW w \in DOMAIN Workers, WorkerStep(w)
      PROVE  [ConnPool!PoolNext]_(ConnPool!poolVars)
  <2>1. CASE Take(w)
    BY <1>t, <2>1, Serves DEF ConnPool!PoolNext
  <2>2. CASE HandlerPanics(w)
    <3>1. worker[w] \in All
      BY <2>2 DEF HandlerPanics, Handling
    <3> QED
      BY <1>t, <2>2, <3>1, Crashes DEF ConnPool!PoolNext
  <2>3. CASE HandlerFails(w) \/ RelayReturns(w)
    <3>1. worker[w] \in All /\ Leave(w, Idle) /\ profile' = profile
      BY <2>3 DEF HandlerFails, RelayReturns, Handling
    <3>2. profile[worker[w]] # "panics"
      BY <2>3, <3>1 DEF HandlerFails, RelayReturns, Handling, WInv
    <3> QED
      BY <1>t, <3>1, <3>2, Finishes DEF ConnPool!PoolNext
  <2>4. CASE handleTCPConn(w) \/ handleUDPConn(w)
    <3> DEFINE c == worker[w]
    <3>1. /\ c \in All /\ pc[c] = "handling" /\ pc' = [pc EXCEPT ![c] = "relay"]
          /\ worker' = worker /\ profile' = profile
      BY <2>4 DEF handleTCPConn, handleUDPConn, Handling
    <3> HIDE DEF c
    <3>2. pc'[c] = "relay" /\ \A x \in All : x # c => pc'[x] = pc[x]
      BY <3>1 DEF IInv
    <3>3. \A x \in All : Stages'[x] = Stages[x]
      BY <3>1, <3>2, StageOf, StageNext, SameStage DEF IInv, Busy
    <3>4. Stages' = Stages
      BY <3>3 DEF Stages
    <3>5. LostWorkers' = LostWorkers /\ Faulty' = Faulty
      BY <3>1, LossesStay DEF Faulty
    <3> QED
      BY <3>4, <3>5 DEF ConnPool!poolVars
  <2> QED
    BY <1>3, <2>1, <2>2, <2>3, <2>4 DEF WorkerStep
<1>4. CASE \/ \E c \in Conns, d \in Dirs : TcpStream(c, d)
           \/ \E u \in Sessions, w \in Ways : UdpStream(u, w)
           \/ Peers \/ Clock \/ UNCHANGED vars
  BY <1>1, <1>4 DEF TcpStream, UdpStream, Peers, Clock, vars
<1> QED
  BY <1>2, <1>3, <1>4 DEF Next

(* To the stack the tunnel is a pool (ImplementsPool): for any number of   *)
(* connections and workers and any capacity of the queues, a connection    *)
(* that was handed over waits, is served once and is over; those served at *)
(* a time are never more than the workers of their protocol that no panic  *)
(* has taken.                                                              *)
THEOREM PoolImplemented == Spec => ImplementsPool
<1>1. Init => KInv /\ ConnPool!PoolInit
  BY PoolStarts, StatesAssumption DEF Init, KInv
<1>2. QInv /\ IInv /\ WInv /\ KInv /\ [Next]_vars => KInv'
  BY KStep
<1>3. QInv /\ IInv /\ WInv /\ KInv /\ IInv' /\ [Next]_vars => [ConnPool!PoolNext]_(ConnPool!poolVars)
  BY PoolSteps
<1> QED
  BY <1>1, <1>2, <1>3, WorkersStart, WorkersKept, InitInv, NextInv, PTL
  DEF Spec, ImplementsPool, ConnPool!PoolSpec

=============================================================================
