---------------------------- MODULE DataPlane_proofs ----------------------------
(* Safety of the components that carry traffic: the HTTP proxy server, the    *)
(* outbounds, the HTTP/1 relay, routing, the DNS resolvers, the HTTP watcher  *)
(* and the statistics.                                                        *)
EXTENDS HttpProxyServer, Http1Relay, Routing, DnsResolver, Outbound,
        HttpWatcher, Statistics,
        FiniteSetTheorems, SequenceTheorems, WellFoundedInduction, TLAPS

-----------------------------------------------------------------------------
(* The HTTP proxy server, for any set of overlapping calls of StartMitmHttp   *)
(* and StopHttpProxy.                                                         *)

\* The port is held by at most one listener (net.Listen refuses a second one).
OneListener == \A s, t \in open : s = t

\* A call that is about to publish its listener still has it open ...
PublishesOpen == \A s \in Starts : startPc[s] = "publish" => s \in open

\* ... because StopHttpProxy can only have seen listeners that were published.
Unpublished == {"idle", "listen", "publish"}
SeenWasPublished ==
    /\ \A s \in Starts : httpListener = s => startPc[s] \notin Unpublished
    /\ \A p \in Stops, s \in Starts : stopListener[p] = s => startPc[s] \notin Unpublished

\* A StopHttpProxy that is past Close has closed the listener it had.
ClosedAtFinish ==
    \A p \in Stops, s \in open : stopListener[p] = s => stopPc[p] = "close"

\* An open listener is the one in the package variable, or its call is about to
\* put it there.
ListenerNamed == \A s \in open : httpListener = s \/ startPc[s] = "publish"

IInv ==
    /\ HttpTypeOK
    /\ OneListener
    /\ PublishesOpen
    /\ SeenWasPublished
    /\ ClosedAtFinish
    /\ ListenerNamed
    /\ FlagNeverStuck

\* The initial state, with nothing started, satisfies the inductive invariant.
LEMMA InitIInv == HttpInit => IInv
  BY NoCallAssumption
  DEF HttpInit, IInv, HttpTypeOK, StartPcs, StopPcs, OneListener, PublishesOpen,
      SeenWasPublished, Unpublished, ClosedAtFinish, ListenerNamed, FlagNeverStuck

\* Every step of StartMitmHttp and StopHttpProxy keeps the variables' types.
LEMMA NextTypeOK == HttpTypeOK /\ [HttpNext]_httpVars => HttpTypeOK'
  <1> SUFFICES ASSUME HttpTypeOK, [HttpNext]_httpVars PROVE HttpTypeOK'
    OBVIOUS
  <1> USE DEF HttpTypeOK, StartPcs, StopPcs
  <1>1. ASSUME NEW s \in Starts, StartAlreadyRunning(s) PROVE HttpTypeOK'
    BY <1>1 DEF StartAlreadyRunning
  <1>2. ASSUME NEW s \in Starts, StartClaim(s) PROVE HttpTypeOK'
    BY <1>2 DEF StartClaim
  <1>3. ASSUME NEW s \in Starts, StartStep(s) PROVE HttpTypeOK'
    BY <1>3 DEF StartStep, Listen, ListenFails, Fatal, Publish, AcceptError,
                LoopDone, LoopExit, LoopContinue
  <1>4. ASSUME NEW p \in Stops, StopNotRunning(p) PROVE HttpTypeOK'
    BY <1>4 DEF StopNotRunning
  <1>5. ASSUME NEW p \in Stops, StopCancel(p) PROVE HttpTypeOK'
    BY <1>5 DEF StopCancel
  <1>6. ASSUME NEW p \in Stops, StopStep(p) PROVE HttpTypeOK'
    BY <1>6 DEF StopStep, StopClose, StopFinish
  <1>7. CASE UNCHANGED httpVars
    BY <1>7 DEF httpVars
  <1> QED
    BY <1>1, <1>2, <1>3, <1>4, <1>5, <1>6, <1>7 DEF HttpNext

\* Every step preserves the inductive invariant.
LEMMA NextIInv == IInv /\ [HttpNext]_httpVars => IInv'
  <1> SUFFICES ASSUME IInv, [HttpNext]_httpVars PROVE IInv'
    OBVIOUS
  <1>0. HttpTypeOK'
    BY NextTypeOK DEF IInv
  <1> USE NoCallAssumption, <1>0 DEF IInv, OneListener, PublishesOpen,
          SeenWasPublished, Unpublished, ClosedAtFinish, ListenerNamed, FlagNeverStuck
  <1>1. ASSUME NEW s \in Starts, StartAlreadyRunning(s) PROVE IInv'
    BY <1>1 DEF StartAlreadyRunning, HttpTypeOK
  <1>2. ASSUME NEW s \in Starts, StartClaim(s) PROVE IInv'
    BY <1>2 DEF StartClaim, HttpTypeOK
  <1>3. ASSUME NEW s \in Starts, Listen(s) PROVE IInv'
    BY <1>3 DEF Listen, HttpTypeOK
  <1>4. ASSUME NEW s \in Starts, ListenFails(s) PROVE IInv'
    BY <1>4 DEF ListenFails, HttpTypeOK
  <1>5. ASSUME NEW s \in Starts, Fatal(s) PROVE IInv'
    BY <1>5 DEF Fatal, HttpTypeOK
  <1>6. ASSUME NEW s \in Starts, Publish(s) PROVE IInv'
    BY <1>6 DEF Publish, HttpTypeOK
  <1>7. ASSUME NEW s \in Starts, AcceptError(s) PROVE IInv'
    BY <1>7 DEF AcceptError, HttpTypeOK
  <1>8. ASSUME NEW s \in Starts, LoopDone(s) \/ LoopContinue(s) PROVE IInv'
    BY <1>8 DEF LoopDone, LoopContinue, HttpTypeOK
  <1>9. ASSUME NEW s \in Starts, LoopExit(s) PROVE IInv'
    BY <1>9 DEF LoopExit, HttpTypeOK
  <1>10. ASSUME NEW p \in Stops, StopNotRunning(p) PROVE IInv'
    BY <1>10 DEF StopNotRunning, HttpTypeOK
  <1>11. ASSUME NEW p \in Stops, StopCancel(p) PROVE IInv'
    BY <1>11 DEF StopCancel, HttpTypeOK
  <1>12. ASSUME NEW p \in Stops, StopClose(p) PROVE IInv'
    BY <1>12 DEF StopClose, HttpTypeOK
  <1>13. ASSUME NEW p \in Stops, StopFinish(p) PROVE IInv'
    BY <1>13 DEF StopFinish, HttpTypeOK
  <1>14. CASE UNCHANGED httpVars
    BY <1>14 DEF httpVars, HttpTypeOK
  <1> QED
    BY <1>1, <1>2, <1>3, <1>4, <1>5, <1>6, <1>7, <1>8, <1>9, <1>10, <1>11,
       <1>12, <1>13, <1>14 DEF HttpNext, StartStep, StopStep

LEMMA Inductive == HttpSpec => []IInv
  BY InitIInv, NextIInv, PTL DEF HttpSpec

\* The package variables of inbound/http/server.go keep their types.
THEOREM TypeCorrect == HttpSpec => []HttpTypeOK
  <1>1. IInv => HttpTypeOK
    BY DEF IInv
  <1> QED
    BY <1>1, Inductive, PTL

\* A step that keeps the flag, or sets it, loses no server: the listener variable
\* and the stops in progress follow what is open.
LEMMA StepLosesNone ==
  ASSUME IInv, IInv', [HttpNext]_httpVars, NEW s \in Starts, Live(s)', Live(s) => Stoppable(s),
         ~FlagCleared(s)
  PROVE  Stoppable(s)'
  <1> USE NoCallAssumption DEF HttpTypeOK, Live, Stoppable
  <1>1. ASSUME NEW t \in Starts, StartAlreadyRunning(t) PROVE Stoppable(s)'
    BY <1>1 DEF StartAlreadyRunning, IInv
  <1>2. ASSUME NEW t \in Starts, StartClaim(t) PROVE Stoppable(s)'
    BY <1>2 DEF StartClaim, IInv, ListenerNamed
  <1>3. ASSUME NEW t \in Starts, Listen(t) PROVE Stoppable(s)'
    BY <1>3 DEF Listen, IInv
  <1>4. ASSUME NEW t \in Starts, ListenFails(t) PROVE Stoppable(s)'
    BY <1>4 DEF ListenFails, IInv, FlagCleared
  <1>5. ASSUME NEW t \in Starts, Fatal(t) PROVE Stoppable(s)'
    BY <1>5 DEF Fatal, IInv
  <1>6. ASSUME NEW t \in Starts, Publish(t) PROVE Stoppable(s)'
    BY <1>6 DEF Publish, IInv, OneListener, PublishesOpen
  <1>7. ASSUME NEW t \in Starts, AcceptError(t) \/ LoopDone(t) \/ LoopContinue(t) PROVE Stoppable(s)'
    BY <1>7 DEF AcceptError, LoopDone, LoopContinue, IInv
  <1>8. ASSUME NEW t \in Starts, LoopExit(t) PROVE Stoppable(s)'
    BY <1>8 DEF LoopExit, IInv, FlagCleared
  <1>9. ASSUME NEW p \in Stops, StopNotRunning(p) PROVE Stoppable(s)'
    BY <1>9 DEF StopNotRunning, IInv
  <1>10. ASSUME NEW p \in Stops, StopCancel(p) PROVE Stoppable(s)'
    BY <1>10 DEF StopCancel, IInv
  <1>11. ASSUME NEW p \in Stops, StopClose(p) PROVE Stoppable(s)'
    BY <1>11 DEF StopClose, IInv, SeenWasPublished, Unpublished
  <1>12. ASSUME NEW p \in Stops, StopFinish(p) PROVE Stoppable(s)'
    BY <1>12 DEF StopFinish, IInv, FlagCleared, ClosedAtFinish, SeenWasPublished, Unpublished
  <1>13. CASE UNCHANGED httpVars
    BY <1>13 DEF httpVars
  <1> QED
    BY <1>1, <1>2, <1>3, <1>4, <1>5, <1>6, <1>7, <1>8, <1>9, <1>10, <1>11, <1>12, <1>13
    DEF HttpNext, StartStep, StopStep

\* However many calls overlap, a server that StopHttpProxy could reach is lost to it
\* only when a call clears isHttpRunning over it.
THEOREM OnlyFlagLosesServers == HttpSpec => LostOnlyToFlag
  <1>1. IInv /\ IInv' /\ [HttpNext]_httpVars
          => [\A s \in Starts : Live(s)' /\ (Live(s) => Stoppable(s))
                                 => Stoppable(s)' \/ FlagCleared(s)]_httpVars
    BY StepLosesNone
  <1> QED
    BY <1>1, Inductive, PTL DEF HttpSpec, LostOnlyToFlag

\* However many calls overlap, isHttpRunning never outlives the call that set it.
THEOREM FlagHonest == HttpSpec => []FlagNeverStuck
  <1>1. IInv => FlagNeverStuck
    BY DEF IInv
  <1> QED
    BY <1>1, Inductive, PTL

-----------------------------------------------------------------------------
(* Outbounds, for any dials that overlap.                                     *)

ProtocolNames ==
    {"none", "direct", "http", "socks5", "shadowsocks", "shadowtls", "vless", "aliang"}
StageNames ==
    {"connect", "methods", "userpass", "request", "reply", "response", "cipher", "address",
     "tls", "auth", "config", "early"}

DialRecords ==
    [proto : ProtocolNames, todo : Seq(StageNames), conn : {"none", "open", "closed"},
     result : {"none", "pending", "ok", "failed"}, probe : BOOLEAN]

\* A dial under way has a stage to go through.
OutboundInv ==
    /\ dialling \in [Dials -> DialRecords]
    /\ \A d \in Dials : Running(d) => dialling[d].todo # <<>>
    /\ FailedDialsSettle

\* Every protocol has at least one stage.
LEMMA StagesTyped ==
  ASSUME NEW p PROVE Stages(p) \in Seq(StageNames) /\ Stages(p) # <<>>
  <1>1. /\ socks5Stages \in Seq(StageNames) /\ httpStages \in Seq(StageNames)
        /\ shadowsocksStages \in Seq(StageNames) /\ shadowtlsStages \in Seq(StageNames)
        /\ vlessStages \in Seq(StageNames) /\ aliangStages \in Seq(StageNames)
        /\ <<"connect">> \in Seq(StageNames)
    BY DEF socks5Stages, httpStages, shadowsocksStages, shadowtlsStages, vlessStages,
           aliangStages, StageNames
  <1>2. /\ socks5Stages # <<>> /\ httpStages # <<>> /\ shadowsocksStages # <<>>
        /\ shadowtlsStages # <<>> /\ vlessStages # <<>> /\ aliangStages # <<>>
        /\ <<"connect">> # <<>>
    BY DEF socks5Stages, httpStages, shadowsocksStages, shadowtlsStages, vlessStages, aliangStages
  <1> QED
    BY <1>1, <1>2 DEF Stages

\* A dial that begins needs one that is not under way, so that the dial the link
\* status is about goes on.
LEMMA StartKeeps ==
  ASSUME OutboundInv, NEW d \in Dials, NEW p \in ProtocolNames, NEW probe \in BOOLEAN,
         StartDial(d, p, probe)
  PROVE  OutboundInv'
  <1> DEFINE refused == p = "aliang" /\ closed
             n == [proto |-> p, todo |-> IF refused THEN <<>> ELSE Stages(p), conn |-> "none",
                   probe |-> probe, result |-> IF refused THEN "failed" ELSE "pending"]
  <1>1. n \in DialRecords /\ (n.result = "pending" => n.todo # <<>>)
    BY StagesTyped DEF DialRecords
  <1>2. dialling' = [dialling EXCEPT ![d] = n] /\ ~Running(d)
    BY DEF StartDial
  <1>3. n.conn = "none" /\ n.proto = p
    OBVIOUS
  <1>4. p = "aliang" /\ ~refused => n.result = "pending"
    OBVIOUS
  <1>5. ~(p = "aliang" /\ ~refused) => link' = link
    BY DEF StartDial
  <1> HIDE DEF n
  <1>6. dialling' \in [Dials -> DialRecords]
    BY <1>1, <1>2 DEF OutboundInv
  <1>7. \A e \in Dials : Running(e)' => dialling'[e].todo # <<>>
    BY <1>1, <1>2 DEF OutboundInv, Running
  <1>8. \A e \in Dials : (dialling'[e].result = "failed" /\ dialling'[e].proto \notin {"socks5", "vless"})
                             => dialling'[e].conn # "open"
    BY <1>2, <1>3 DEF OutboundInv, FailedDialsSettle
  <1>9. link' = "connecting" => \E e \in Dials : Running(e)' /\ dialling'[e].proto = "aliang"
    <2>1. CASE p = "aliang" /\ ~refused
      BY <2>1, <1>2, <1>3, <1>4 DEF OutboundInv, Running
    <2>2. CASE ~(p = "aliang" /\ ~refused)
      BY <2>2, <1>2, <1>5 DEF OutboundInv, FailedDialsSettle, Running
    <2> QED
      BY <2>1, <2>2
  <1> QED
    BY <1>6, <1>7, <1>8, <1>9 DEF OutboundInv, FailedDialsSettle

LEMMA StageDoneKeeps ==
  ASSUME OutboundInv, NEW d \in Dials, NEW choice, NEW slow \in BOOLEAN, StageDone(d, choice, slow)
  PROVE  OutboundInv'
  <1> DEFINE dial == dialling[d]
             rest == IF Head(dial.todo) = "methods" THEN AfterMethods(choice) ELSE Tail(dial.todo)
             n == dialling'[d]
  <1>1. dial \in DialRecords /\ dial.todo # <<>> /\ Running(d) /\ dial.result = "pending"
    BY DEF OutboundInv, StageDone, Running
  <1>2. rest \in Seq(StageNames)
    <2>1. AfterMethods(choice) \in Seq(StageNames)
      <3>1. <<"request", "reply">> \in Seq(StageNames)
        BY DEF StageNames
      <3>2. <<"userpass", "request", "reply">> \in Seq(StageNames)
        BY DEF StageNames
      <3> QED
        BY <3>1, <3>2 DEF AfterMethods
    <2>2. dial.todo \in Seq(StageNames) /\ dial.todo # <<>>
      BY <1>1 DEF DialRecords
    <2> QED
      BY <2>1, <2>2
  <1>3. n \in DialRecords /\ (n.result = "pending" => n.todo # <<>>)
    BY <1>1, <1>2 DEF StageDone, DialRecords, OutboundInv
  <1>4. n.proto = dial.proto /\ n.result \in {"pending", "ok"}
    BY <1>1 DEF StageDone, DialRecords, OutboundInv
  <1>5. dialling' = [dialling EXCEPT ![d] = n]
    BY DEF StageDone, OutboundInv
  <1>6. \/ n.result = "pending" /\ link' = link
        \/ dial.proto = "aliang" /\ link' \in {"connected", "degraded"}
        \/ dial.proto # "aliang" /\ link' = link
    BY <1>1 DEF StageDone, markSuccess, DialRecords, OutboundInv
  <1> HIDE DEF n, rest
  <1>7. dialling' \in [Dials -> DialRecords] /\ \A e \in Dials : Running(e)' => dialling'[e].todo # <<>>
    BY <1>3, <1>5 DEF OutboundInv, Running
  <1>8. FailedDialsSettle'
    BY <1>1, <1>4, <1>5, <1>6 DEF OutboundInv, FailedDialsSettle, Running
  <1> QED
    BY <1>7, <1>8 DEF OutboundInv

LEMMA StageFailsKeeps ==
  ASSUME OutboundInv, NEW d \in Dials, StageFails(d)
  PROVE  OutboundInv'
  <1> DEFINE dial == dialling[d]
             n == dialling'[d]
  <1>1. dial \in DialRecords /\ Running(d) /\ dial.result = "pending"
    BY DEF OutboundInv, StageFails, Running
  <1>2. n \in DialRecords /\ n.result = "failed" /\ n.proto = dial.proto
    <2>1. <<>> \in Seq(StageNames)
      OBVIOUS
    <2>2. n = [dial EXCEPT !.result = "failed", !.todo = <<>>, !.conn = n.conn]
      BY <1>1 DEF StageFails, DialRecords, OutboundInv
    <2>3. n.conn \in {"none", "open", "closed"}
      BY <1>1 DEF StageFails, DialRecords, OutboundInv
    <2> HIDE DEF n
    <2> QED
      BY <1>1, <2>1, <2>2, <2>3 DEF DialRecords
  <1>3. dial.proto \notin {"socks5", "vless"} => n.conn # "open"
    BY <1>1 DEF StageFails, DialRecords, OutboundInv, ClosesOnFailure
  <1>4. dialling' = [dialling EXCEPT ![d] = n]
    BY DEF StageFails, OutboundInv
  <1>5. IF dial.proto = "aliang" THEN link' = "disconnected" ELSE link' = link
    BY DEF StageFails, markFailure
  <1> HIDE DEF n
  <1>6. dialling' \in [Dials -> DialRecords] /\ \A e \in Dials : Running(e)' => dialling'[e].todo # <<>>
    BY <1>2, <1>4 DEF OutboundInv, Running
  <1>7. FailedDialsSettle'
    BY <1>1, <1>2, <1>3, <1>4, <1>5 DEF OutboundInv, FailedDialsSettle, Running
  <1> QED
    BY <1>6, <1>7 DEF OutboundInv

\* However many dials and probes overlap, whatever stage each of them fails in and
\* whenever the Aliang proxy is closed: a failed dial leaves no connection open, except
\* those of SOCKS5 and VLESS, and the link shows "connecting" only during a dial.
THEOREM DialsSettle == OutboundSpec => []FailedDialsSettle
  <1>1. OutboundInit => OutboundInv
    BY DEF OutboundInit, OutboundInv, NoDial, DialRecords, ProtocolNames, FailedDialsSettle, Running
  <1>2. OutboundInv /\ [OutboundNext]_outboundVars => OutboundInv'
    <2> SUFFICES ASSUME OutboundInv, [OutboundNext]_outboundVars PROVE OutboundInv'
      OBVIOUS
    <2>1. ASSUME NEW d \in Dials, NEW p \in Protocols, DialContext(d, p) PROVE OutboundInv'
      BY <2>1, StartKeeps, OutboundAssumption DEF DialContext, ProtocolNames
    <2>2. ASSUME NEW d \in Dials, ProbeLink(d) PROVE OutboundInv'
      BY <2>2, StartKeeps DEF ProbeLink, ProtocolNames
    <2>3. ASSUME NEW d \in Dials, DialUsed(d) PROVE OutboundInv'
      BY <2>3 DEF DialUsed, OutboundInv, FailedDialsSettle, Running, DialRecords
    <2>4. ASSUME UNCHANGED <<dialling, link>> PROVE OutboundInv'
      BY <2>4 DEF OutboundInv, FailedDialsSettle, Running
    <2>5. ASSUME NEW p, Register(p) \/ Unregister(p) PROVE OutboundInv'
      BY <2>4, <2>5 DEF Register, Unregister
    <2>6. CASE CloseAliang
      BY <2>4, <2>6 DEF CloseAliang
    <2>7. CASE UNCHANGED outboundVars
      BY <2>4, <2>7 DEF outboundVars
    <2> QED
      BY <2>1, <2>2, <2>3, <2>5, <2>6, <2>7, StageDoneKeeps, StageFailsKeeps DEF OutboundNext
  <1>3. OutboundInv => FailedDialsSettle
    BY DEF OutboundInv
  <1> QED
    BY <1>1, <1>2, <1>3, PTL DEF OutboundSpec

-----------------------------------------------------------------------------
(* The HTTP/1 relay, for any number of pipelined requests.                    *)

\* A final response to request n.
Final(n) == [n |-> n, interim |-> FALSE]

\* How far the relay is with its requests: at most one request is ahead of the
\* responses, and none is read while it is written or answered.
InStep ==
    /\ request \in Nat /\ served \in Nat /\ sent \in Nat /\ replied \in Nat
    /\ received \in Seq([n : Nat, interim : BOOLEAN])
    /\ CASE relayPc = "select" ->
              /\ served = Len(received)
              /\ IF requestGoroutine = "reading" THEN request = served
                 ELSE request \in {served, served + 1}
         [] relayPc = "write" ->
              served = Len(received) /\ request = served + 1 /\ requestGoroutine = "returned"
         [] relayPc = "response" ->
              served = Len(received) + 1 /\ request = served /\ requestGoroutine = "returned"
         [] OTHER -> FALSE

\* What the client has received, what is in the pipe and what the server has sent
\* are the answers to consecutive requests, from the first to the last one answered.
Consecutive ==
    /\ \A i \in 1..Len(received) : received[i] = Final(i)
    /\ pipe \in {<<>>, <<Final(Len(received) + 1)>>}
    /\ pipe # <<>> => remoteGoroutine = "writing"
    /\ replies \in Seq([n : Nat, interim : BOOLEAN])
    /\ \A i \in 1..Len(replies) : replies[i] = Final(Len(received) + Len(pipe) + i)
    /\ replied = Len(received) + Len(pipe) + Len(replies)

Http1Inv ==
    /\ interim \in BOOLEAN
    /\ ~interim => /\ ResponsesInOrder
                   /\ relayPc # "returned" => InStep /\ Consecutive

\* A sequence to which one element is joined.
LEMMA JoinOne ==
  ASSUME NEW S, NEW s \in Seq(S), NEW x \in S
  PROVE  /\ s \o <<x>> \in Seq(S) /\ Len(s \o <<x>>) = Len(s) + 1
         /\ \A i \in 1..Len(s) : (s \o <<x>>)[i] = s[i]
         /\ (s \o <<x>>)[Len(s) + 1] = x
  BY AppendIsConcat, AppendProperties

LEMMA SelectKeeps == Http1Inv /\ Select => Http1Inv'
  <1> SUFFICES ASSUME Http1Inv, Select, ~interim PROVE Http1Inv'
    BY DEF Http1Inv, Select
  <1>1. InStep /\ Consecutive /\ relayPc = "select" /\ ResponsesInOrder
    BY DEF Http1Inv, Select
  <1>2. UNCHANGED <<received, pipe, replies, replied, remoteGoroutine, served, request, sent,
                    requestGoroutine, interim>>
    BY DEF Select, Returns
  <1>3. ResponsesInOrder'
    BY <1>1, <1>2 DEF ResponsesInOrder
  <1>4. Consecutive'
    BY <1>1, <1>2 DEF Consecutive
  <1>5. relayPc' # "returned" => InStep'
    BY <1>1, <1>2 DEF InStep, Select, Returns
  <1> QED
    BY <1>2, <1>3, <1>4, <1>5 DEF Http1Inv

LEMMA WriteKeeps == Http1Inv /\ WriteRequest => Http1Inv'
  <1> SUFFICES ASSUME Http1Inv, WriteRequest, ~interim PROVE Http1Inv'
    BY DEF Http1Inv, WriteRequest
  <1>1. InStep /\ Consecutive /\ relayPc = "write" /\ ResponsesInOrder
    BY DEF Http1Inv, WriteRequest
  <1>2. UNCHANGED <<received, pipe, replies, replied, remoteGoroutine, request, sent,
                    requestGoroutine, interim>>
    BY DEF WriteRequest, Returns
  <1>3. ResponsesInOrder'
    BY <1>1, <1>2 DEF ResponsesInOrder
  <1>4. Consecutive'
    BY <1>1, <1>2 DEF Consecutive
  <1>5. relayPc' # "returned" => InStep'
    BY <1>1, <1>2 DEF InStep, WriteRequest, Returns
  <1> QED
    BY <1>2, <1>3, <1>4, <1>5 DEF Http1Inv

\* The response in the pipe answers the request that was written last; a 504 takes
\* its place and ends the relay.
LEMMA ResponseKeeps == Http1Inv /\ ReadResponse => Http1Inv'
  <1> SUFFICES ASSUME Http1Inv, ReadResponse, ~interim PROVE Http1Inv'
    BY DEF Http1Inv, ReadResponse
  <1>1. InStep /\ Consecutive /\ relayPc = "response" /\ ResponsesInOrder
    BY DEF Http1Inv, ReadResponse
  <1>2. UNCHANGED <<replies, replied, remoteGoroutine, request, sent, served, interim>>
    BY DEF ReadResponse, Returns
  <1>3. request = Len(received) + 1 /\ received \in Seq([n : Nat, interim : BOOLEAN])
    BY <1>1 DEF InStep
  <1>a. Len(received) \in Nat
    BY <1>3
  <1>4. CASE pipe # <<>> /\ pipe' = <<>> /\ received' = Append(received, pipe[1])
    <2>1. pipe = <<Final(Len(received) + 1)>>
      BY <1>1, <1>4 DEF Consecutive
    <2>2. received' = Append(received, Final(Len(received) + 1))
      BY <1>4, <2>1
    <2>3. Final(Len(received) + 1) \in [n : Nat, interim : BOOLEAN]
      BY <1>a DEF Final
    <2>4. /\ received' \in Seq([n : Nat, interim : BOOLEAN]) /\ Len(received') = Len(received) + 1
          /\ \A i \in 1..Len(received) : received'[i] = received[i]
          /\ received'[Len(received) + 1] = Final(Len(received) + 1)
      BY <1>3, <2>2, <2>3
    <2>5. ASSUME NEW i \in 1..Len(received') PROVE received'[i] = Final(i)
      <3>1. i \in 1..Len(received) \/ i = Len(received) + 1
        BY <1>a, <2>4
      <3> QED
        BY <1>1, <2>4, <3>1 DEF Consecutive
    <2>6. ResponsesInOrder'
      <3> SUFFICES ASSUME NEW i \in DOMAIN received'
                   PROVE  /\ received'[i].n = i /\ ~received'[i].interim
                          /\ "status" \notin DOMAIN received'[i]
        BY DEF ResponsesInOrder
      <3>1. received'[i] = Final(i)
        BY <2>4, <2>5
      <3> QED
        BY <3>1 DEF Final
    <2>7. Len(pipe) = 1 /\ Len(pipe') = 0
      BY <1>4, <2>1
    <2>8. Consecutive'
      <3>1. ASSUME NEW i \in 1..Len(replies)
            PROVE  replies[i] = Final(Len(received') + Len(pipe') + i)
        <4>1. Len(received') + Len(pipe') + i = Len(received) + Len(pipe) + i
          BY <1>a, <2>4, <2>7
        <4> QED
          BY <1>1, <4>1 DEF Consecutive
      <3> QED
        BY <1>1, <1>2, <1>4, <1>a, <2>4, <2>5, <2>7, <3>1 DEF Consecutive
    <2>9. relayPc' # "returned" => InStep'
      <3> SUFFICES ASSUME relayPc' # "returned" PROVE InStep'
        OBVIOUS
      <3>1. relayPc' = "select" /\ requestGoroutine' = "reading"
        BY <1>4 DEF ReadResponse
      <3> QED
        BY <1>1, <1>2, <1>3, <2>4, <3>1 DEF InStep
    <2> QED
      BY <1>2, <2>6, <2>8, <2>9 DEF Http1Inv
  <1>5. CASE received' = Append(received, GatewayTimeout(request)) /\ relayPc' = "returned"
    <2>1. /\ DOMAIN received' = 1..(Len(received) + 1) /\ Len(received') = Len(received) + 1
          /\ \A i \in 1..Len(received) : received'[i] = received[i]
          /\ received'[Len(received) + 1] = GatewayTimeout(Len(received) + 1)
      BY <1>3, <1>5
    <2>2. ResponsesInOrder'
      <3> SUFFICES ASSUME NEW i \in DOMAIN received'
                   PROVE  /\ received'[i].n = i /\ ~received'[i].interim
                          /\ "status" \in DOMAIN received'[i] => i = Len(received')
        BY <1>5 DEF ResponsesInOrder
      <3>1. CASE i \in 1..Len(received)
        <4>1. received'[i] = Final(i)
          BY <1>1, <2>1, <3>1 DEF Consecutive
        <4> QED
          BY <4>1 DEF Final
      <3>2. CASE i = Len(received) + 1
        BY <2>1, <3>2 DEF GatewayTimeout
      <3> QED
        BY <1>a, <2>1, <3>1, <3>2
    <2> QED
      BY <1>2, <1>5, <2>2 DEF Http1Inv
  <1>6. CASE Returns
    BY <1>1, <1>2, <1>6 DEF Returns, Http1Inv, ResponsesInOrder
  <1> QED
    BY <1>4, <1>5, <1>6 DEF ReadResponse

LEMMA RequestKeeps == Http1Inv /\ ReadRequest => Http1Inv'
  <1> SUFFICES ASSUME Http1Inv, ReadRequest, ~interim PROVE Http1Inv'
    BY DEF Http1Inv, ReadRequest
  <1>1. UNCHANGED <<received, pipe, replies, replied, remoteGoroutine, sent, served, relayPc, interim>>
    BY DEF ReadRequest
  <1>2. ResponsesInOrder'
    BY <1>1 DEF ResponsesInOrder, Http1Inv
  <1>3. relayPc # "returned" => Consecutive'
    BY <1>1 DEF Consecutive, Http1Inv
  <1>4. relayPc # "returned" => InStep'
    BY <1>1 DEF InStep, ReadRequest, Http1Inv
  <1> QED
    BY <1>1, <1>2, <1>3, <1>4 DEF Http1Inv

\* The pipe is empty whenever the goroutine behind it reads.
LEMMA RemoteReadKeeps == Http1Inv /\ RemoteRead => Http1Inv'
  <1> SUFFICES ASSUME Http1Inv, RemoteRead, ~interim PROVE Http1Inv'
    BY DEF Http1Inv, RemoteRead
  <1>1. UNCHANGED <<received, requestGoroutine, request, replied, sent, served, relayPc, interim>>
    BY DEF RemoteRead
  <1>2. ResponsesInOrder'
    BY <1>1 DEF ResponsesInOrder, Http1Inv
  <1>3. ASSUME relayPc # "returned" PROVE InStep' /\ Consecutive'
    <2>1. InStep /\ Consecutive
      BY <1>3 DEF Http1Inv
    <2>2. pipe = <<>>
      BY <2>1 DEF Consecutive, RemoteRead
    <2>3. Len(received) \in Nat
      BY <2>1 DEF InStep
    <2>4. InStep'
      BY <1>1, <2>1 DEF InStep
    <2>5. CASE replies # <<>> /\ pipe' = <<Head(replies)>> /\ replies' = Tail(replies)
               /\ remoteGoroutine' = "writing"
      <3>1. replies \in Seq([n : Nat, interim : BOOLEAN]) /\ Len(pipe) = 0 /\ Len(replies) \in Nat
        BY <2>1, <2>2 DEF Consecutive
      <3>2. Len(replies) > 0 /\ Head(replies) = replies[1]
        BY <2>5, <3>1
      <3>3. replies[1] = Final(Len(received) + 1)
        BY <2>1, <2>3, <3>1, <3>2 DEF Consecutive
      <3>4. pipe' = <<Final(Len(received') + 1)>> /\ Len(pipe') = 1
        BY <1>1, <2>5, <3>2, <3>3
      <3>5. /\ replies' \in Seq([n : Nat, interim : BOOLEAN]) /\ Len(replies') = Len(replies) - 1
            /\ \A i \in 1..Len(replies') : replies'[i] = replies[i + 1]
        BY <2>5, <3>1, <3>2
      <3>6. ASSUME NEW i \in 1..Len(replies')
            PROVE  replies'[i] = Final(Len(received') + Len(pipe') + i)
        <4>1. i + 1 \in 1..Len(replies)
          BY <3>1, <3>5
        <4>2. Len(received') + Len(pipe') + i = Len(received) + Len(pipe) + (i + 1)
          BY <1>1, <2>3, <3>1, <3>4
        <4> QED
          BY <2>1, <3>5, <4>1, <4>2 DEF Consecutive
      <3>7. replied' = Len(received') + Len(pipe') + Len(replies')
        BY <1>1, <2>1, <2>3, <3>1, <3>4, <3>5 DEF Consecutive
      <3> QED
        BY <1>1, <2>1, <2>4, <2>5, <3>4, <3>5, <3>6, <3>7 DEF Consecutive
    <2>6. CASE UNCHANGED <<pipe, replies>>
      BY <1>1, <2>1, <2>2, <2>4, <2>6 DEF Consecutive
    <2> QED
      BY <2>5, <2>6 DEF RemoteRead
  <1> QED
    BY <1>1, <1>2, <1>3 DEF Http1Inv

\* The server answers in the order of the requests it was sent.
LEMMA ServerKeeps == Http1Inv /\ ServerActs => Http1Inv'
  <1> SUFFICES ASSUME Http1Inv, ServerActs, ~interim PROVE Http1Inv'
    BY DEF Http1Inv, ServerActs
  <1>1. UNCHANGED <<received, pipe, requestGoroutine, request, sent, served, relayPc,
                    remoteGoroutine, interim>>
    BY DEF ServerActs
  <1>2. ResponsesInOrder'
    BY <1>1 DEF ResponsesInOrder, Http1Inv
  <1>3. ASSUME relayPc # "returned" PROVE InStep' /\ Consecutive'
    <2>1. InStep /\ Consecutive
      BY <1>3 DEF Http1Inv
    <2>2. CASE UNCHANGED <<replies, replied>>
      BY <1>1, <2>1, <2>2 DEF Consecutive, InStep
    <2>3. CASE replied' = replied + 1 /\ replies' = replies \o Reply(replied + 1)
      <3>1. replied \in Nat /\ replies \in Seq([n : Nat, interim : BOOLEAN]) /\ Len(received) \in Nat
            /\ Len(pipe) \in Nat
        BY <2>1 DEF InStep, Consecutive
      <3>2. Reply(replied + 1) = <<Final(replied + 1)>>
        BY DEF Reply, Final
      <3>3. Final(replied + 1) \in [n : Nat, interim : BOOLEAN]
        BY <3>1 DEF Final
      <3>4. /\ replies' \in Seq([n : Nat, interim : BOOLEAN]) /\ Len(replies') = Len(replies) + 1
            /\ \A i \in 1..Len(replies) : replies'[i] = replies[i]
            /\ replies'[Len(replies) + 1] = Final(replied + 1)
        <4> DEFINE S == [n : Nat, interim : BOOLEAN]
                   x == Final(replied + 1)
        <4>1. replies' = replies \o <<x>> /\ replies \in Seq(S) /\ x \in S
          BY <2>3, <3>1, <3>2, <3>3
        <4> HIDE DEF S, x
        <4>2. /\ replies' \in Seq(S) /\ Len(replies') = Len(replies) + 1
              /\ \A i \in 1..Len(replies) : replies'[i] = replies[i]
              /\ replies'[Len(replies) + 1] = x
          BY <4>1, JoinOne
        <4> QED
          BY <4>2 DEF S, x
      <3>5. replied = Len(received) + Len(pipe) + Len(replies)
            /\ \A i \in 1..Len(replies) : replies[i] = Final(Len(received) + Len(pipe) + i)
        BY <2>1 DEF Consecutive
      <3>6. replied + 1 = Len(received) + Len(pipe) + (Len(replies) + 1)
        BY <3>1, <3>5
      <3>7. ASSUME NEW i \in 1..Len(replies')
            PROVE  replies'[i] = Final(Len(received) + Len(pipe) + i)
        <4>1. CASE i \in 1..Len(replies)
          BY <4>1, <3>4, <3>5
        <4>2. CASE i = Len(replies) + 1
          BY <4>2, <3>4, <3>6
        <4> QED
          BY <4>1, <4>2, <3>1, <3>4
      <3>8. Consecutive'
        BY <1>1, <2>1, <2>3, <3>1, <3>4, <3>6, <3>7 DEF Consecutive
      <3> QED
        BY <1>1, <2>1, <2>3, <3>1, <3>8 DEF InStep
    <2> QED
      BY <2>2, <2>3 DEF ServerActs
  <1> QED
    BY <1>1, <1>2, <1>3 DEF Http1Inv

\* However the client pipelines its requests and whenever the connection to the
\* server ends, times out or is cancelled: the n-th response answers the n-th request,
\* and a 504 is the last one, if the server sends no interim responses.
THEOREM InOrder == Http1Spec => []ResponsesInOrder
  <1>1. Http1Init => Http1Inv
    BY DEF Http1Init, Http1Inv, InStep, Consecutive, ResponsesInOrder
  <1>2. Http1Inv /\ [Http1Next]_http1Vars => Http1Inv'
    <2> SUFFICES ASSUME Http1Inv, [Http1Next]_http1Vars PROVE Http1Inv'
      OBVIOUS
    <2>1. CASE ClientSends
      BY <2>1 DEF ClientSends, Http1Inv, InStep, Consecutive, ResponsesInOrder
    <2>2. CASE ContextEnds
      BY <2>2 DEF ContextEnds, Http1Inv, InStep, Consecutive, ResponsesInOrder
    <2>3. CASE RemoteWritten
      BY <2>3 DEF RemoteWritten, Http1Inv, InStep, Consecutive, ResponsesInOrder
    <2>4. CASE UNCHANGED http1Vars
      BY <2>4 DEF http1Vars, Http1Inv, InStep, Consecutive, ResponsesInOrder
    <2> QED
      BY <2>1, <2>2, <2>3, <2>4, SelectKeeps, WriteKeeps, ResponseKeeps, RequestKeeps,
         RemoteReadKeeps, ServerKeeps DEF Http1Next
  <1>3. Http1Inv => ResponsesInOrder
    BY DEF Http1Inv, ResponsesInOrder
  <1> QED
    BY <1>1, <1>2, <1>3, PTL DEF Http1Spec

-----------------------------------------------------------------------------
(* The DNS resolvers, for any callers, names and times to live.               *)

Lookup == [resolver : Resolvers, family : Families]
DnsSteps == {"idle", "sem", "check", "ask", "store", "done"}
DnsEntries == [family : Families \cup {"none"}, at : Int, expiresAt : Int]
DnsAnswers == [family : Families \cup {"none", "literal"}, at : Int,
               name : Names \cup {"none"}, returned : Int]
DnsCalls == [step : DnsSteps, method : Methods \cup {"none"}, name : Names \cup {"none"},
             todo : Seq(Lookup), answer : DnsAnswers]

\* An entry is of the family of its key and expires MaxTTL after it was obtained, or sooner.
EntrySound(k, e) == e = NoEntry \/ (e.family = k[2] /\ e.expiresAt - e.at <= MaxTTL)

\* What the step of a call says of it: the answer that is about to be stored has
\* just arrived, and one that is not here yet is Failed.
CallSound(call, now) ==
    /\ call.step \in {"sem", "check", "ask", "store"} => call.todo # <<>> /\ call.name \in Names
    /\ call.step \in {"sem", "check", "ask"} => call.answer = Failed
    /\ call.step = "store" => call.answer.at = now
    /\ (call.step = "done" /\ call.answer # Failed /\ call.answer.family # "literal") =>
          /\ call.answer.family = Head(call.todo).family
          /\ call.answer.returned - call.answer.at <= MaxTTL

DnsInv ==
    /\ dnsNow \in Nat
    /\ cacheOn \in [Resolvers -> BOOLEAN]
    /\ dnsCache \in [Resolvers -> [Names \X Families -> DnsEntries]]
    /\ \A r \in Resolvers, k \in Names \X Families : EntrySound(k, dnsCache[r][k])
    /\ dnsCall \in [Callers -> DnsCalls]
    /\ \A c \in Callers : CallSound(dnsCall[c], dnsNow)

\* Every method has at least one lookup to try, of a resolver that exists.
LEMMA AttemptsTyped ==
  ASSUME NEW method PROVE Attempts(method) \in Seq(Lookup) /\ Attempts(method) # <<>>
  <1>1. ASSUME NEW r \in Resolvers PROVE ResolveIP(r) \in Seq(Lookup) /\ Len(ResolveIP(r)) = 2
    BY <1>1 DEF ResolveIP, Lookup, Families
  <1>2. "base" \in Resolvers /\ "primary" \in Resolvers
    BY DEF Resolvers
  <1> DEFINE Try(r) == IF r \in Resolvers THEN ResolveIP(r) ELSE <<>>
  <1>3. Try("fallback") \in Seq(Lookup) /\ Try("system") \in Seq(Lookup)
    BY <1>1
  <1>4. Try("primary") \in Seq(Lookup) /\ Len(Try("primary")) = 2
    BY <1>1, <1>2
  <1>5. ResolveWithFallback = Try("primary") \o Try("fallback") \o Try("system")
    BY DEF ResolveWithFallback
  <1> HIDE DEF Try
  <1>6. Try("primary") \o Try("fallback") \in Seq(Lookup)
        /\ Len(Try("primary") \o Try("fallback")) = 2 + Len(Try("fallback"))
    <2>1. /\ Try("primary") \o Try("fallback") \in Seq(Lookup)
          /\ Len(Try("primary") \o Try("fallback")) = Len(Try("primary")) + Len(Try("fallback"))
      BY <1>3, <1>4, ConcatProperties
    <2> QED
      BY <1>4, <2>1
  <1>7. ResolveWithFallback \in Seq(Lookup)
        /\ Len(ResolveWithFallback) = 2 + Len(Try("fallback")) + Len(Try("system"))
    BY <1>3, <1>5, <1>6, ConcatProperties, ZenonT(40)
  <1>8. ResolveWithFallback # <<>>
    BY <1>3, <1>7
  <1>9. \A f \in Families : <<[resolver |-> "base", family |-> f]>> \in Seq(Lookup)
    BY <1>2 DEF Lookup
  <1>10. ResolveIP("base") \in Seq(Lookup) /\ ResolveIP("base") # <<>>
    BY <1>1, <1>2
  <1>11. /\ \A f : <<[resolver |-> "base", family |-> f]>> # <<>>
         /\ "v4" \in Families /\ "v6" \in Families
    BY DEF Families
  <1> QED
    BY <1>7, <1>8, <1>9, <1>10, <1>11 DEF Attempts

\* A step that changes one call, into one that is sound, and no cache.
LEMMA DnsGoesTo ==
  ASSUME DnsInv, NEW c \in Callers, NEW n \in DnsCalls, CallSound(n, dnsNow),
         dnsCall' = [dnsCall EXCEPT ![c] = n], UNCHANGED <<cacheOn, dnsCache, dnsNow>>
  PROVE  DnsInv'
  BY DEF DnsInv

LEMMA AskKeeps ==
  ASSUME DnsInv, NEW c \in Callers, NEW method \in Methods, NEW name \in Names, Ask(c, method, name)
  PROVE  DnsInv'
  <1> DEFINE direct == IsDirect(method, name)
             a == IF direct
                  THEN [family |-> "literal", at |-> dnsNow, name |-> name, returned |-> dnsNow]
                  ELSE Failed
             todo == Attempts(method)
             n == [step |-> IF direct THEN "done" ELSE IF method = "Preload" THEN "sem" ELSE "check",
                   method |-> method, name |-> name, todo |-> todo, answer |-> a]
  <1>1. a \in DnsAnswers
    BY DEF DnsAnswers, Failed, DnsInv
  <1>2. IF direct THEN a.family = "literal" ELSE a = Failed
    OBVIOUS
  <1>3. todo \in Seq(Lookup) /\ todo # <<>>
    BY AttemptsTyped
  <1>4. dnsCall' = [dnsCall EXCEPT ![c] = n] /\ UNCHANGED <<cacheOn, dnsCache, dnsNow>>
    BY DEF Ask
  <1> HIDE DEF a, todo, direct
  <1>5. n \in DnsCalls
    BY <1>1, <1>3 DEF DnsCalls, DnsSteps
  <1>6. CallSound(n, dnsNow)
    BY <1>2, <1>3 DEF CallSound
  <1> HIDE DEF n
  <1> QED
    BY <1>4, <1>5, <1>6, DnsGoesTo

\* The lookup that a call is at.
LEMMA CurrentLookup ==
  ASSUME DnsInv, NEW c \in Callers, dnsCall[c].step \in {"check", "ask", "store"}
  PROVE  /\ dnsCall[c] \in DnsCalls /\ CallSound(dnsCall[c], dnsNow)
         /\ Head(dnsCall[c].todo).resolver \in Resolvers
         /\ Head(dnsCall[c].todo).family \in Families
         /\ Tail(dnsCall[c].todo) \in Seq(Lookup)
         /\ Key(c) \in Names \X Families /\ Key(c)[2] = Head(dnsCall[c].todo).family
  <1>1. dnsCall[c] \in DnsCalls /\ CallSound(dnsCall[c], dnsNow)
    BY DEF DnsInv
  <1>2. dnsCall[c].todo \in Seq(Lookup) /\ dnsCall[c].todo # <<>> /\ dnsCall[c].name \in Names
    BY <1>1 DEF CallSound, DnsCalls
  <1>3. Head(dnsCall[c].todo) \in Lookup /\ Tail(dnsCall[c].todo) \in Seq(Lookup)
    BY <1>2
  <1> QED
    BY <1>1, <1>2, <1>3 DEF Key, Lookup

\* The call an answer leaves behind.
LEMMA AnsweredSound ==
  ASSUME DnsInv, NEW c \in Callers, dnsCall[c].step \in {"check", "ask", "store"},
         NEW entry \in DnsEntries, entry.family = Head(dnsCall[c].todo).family,
         dnsNow - entry.at <= MaxTTL
  PROVE  \E n \in DnsCalls : CallSound(n, dnsNow) /\ Answered(c, entry) = [dnsCall EXCEPT ![c] = n]
  <1> DEFINE a == [family |-> entry.family, at |-> entry.at, name |-> dnsCall[c].name,
                   returned |-> dnsNow]
             n == [dnsCall[c] EXCEPT !.step = "done", !.answer = a]
  <1>1. dnsCall[c] \in DnsCalls
    BY CurrentLookup
  <1>2. a \in DnsAnswers
    BY <1>1 DEF DnsAnswers, DnsCalls, DnsEntries, DnsInv
  <1>3. a.family = entry.family /\ a.at = entry.at /\ a.returned = dnsNow
    OBVIOUS
  <1>4. Answered(c, entry) = [dnsCall EXCEPT ![c] = n]
    BY <1>1 DEF Answered, DnsInv, DnsCalls
  <1> HIDE DEF a
  <1>5. n \in DnsCalls /\ n.step = "done" /\ n.answer = a /\ n.todo = dnsCall[c].todo
    BY <1>1, <1>2 DEF DnsCalls, DnsSteps
  <1> HIDE DEF n
  <1>6. CallSound(n, dnsNow)
    BY <1>3, <1>5 DEF CallSound
  <1> QED
    BY <1>4, <1>5, <1>6

LEMMA LookupKeeps ==
  ASSUME DnsInv, NEW c \in Callers, LookupCache(c)
  PROVE  DnsInv'
  <1> DEFINE r == Head(dnsCall[c].todo).resolver
             entry == IF cacheOn[r] THEN getCached(r, Key(c)) ELSE NoEntry
  <1>1. /\ dnsCall[c].step = "check" /\ UNCHANGED <<cacheOn, dnsCache, dnsNow>>
        /\ dnsCall' = IF entry # NoEntry THEN Answered(c, entry) ELSE [dnsCall EXCEPT ![c].step = "ask"]
    BY DEF LookupCache
  <1>2. /\ r \in Resolvers /\ Key(c) \in Names \X Families
        /\ Key(c)[2] = Head(dnsCall[c].todo).family
        /\ dnsCall[c] \in DnsCalls /\ CallSound(dnsCall[c], dnsNow)
    BY <1>1, CurrentLookup
  <1>3. CASE entry = NoEntry
    <2> DEFINE n == [dnsCall[c] EXCEPT !.step = "ask"]
    <2>1. n \in DnsCalls
      BY <1>2 DEF DnsCalls, DnsSteps
    <2>2. CallSound(n, dnsNow)
      BY <1>1, <1>2 DEF CallSound, DnsCalls
    <2>3. dnsCall' = [dnsCall EXCEPT ![c] = n]
      BY <1>1, <1>3
    <2> HIDE DEF n
    <2> QED
      BY <1>1, <2>1, <2>2, <2>3, DnsGoesTo
  <1>4. CASE entry # NoEntry
    <2>1. entry = dnsCache[r][Key(c)] /\ dnsNow <= entry.expiresAt
      BY <1>4 DEF getCached
    <2> HIDE DEF entry, r
    <2>2. entry \in DnsEntries /\ EntrySound(Key(c), entry)
      BY <1>2, <2>1 DEF DnsInv
    <2>3. entry.family = Head(dnsCall[c].todo).family /\ dnsNow - entry.at <= MaxTTL
      BY <1>2, <1>4, <2>1, <2>2, DnsAssumption DEF EntrySound, DnsEntries, DnsInv
    <2>4. PICK n \in DnsCalls : CallSound(n, dnsNow) /\ Answered(c, entry) = [dnsCall EXCEPT ![c] = n]
      BY <1>1, <2>2, <2>3, AnsweredSound
    <2> QED
      BY <1>1, <1>4, <2>4, DnsGoesTo
  <1> QED
    BY <1>3, <1>4

LEMMA PerformKeeps ==
  ASSUME DnsInv, NEW c \in Callers, NEW known, performLookup(c, known)
  PROVE  DnsInv'
  <1>1. dnsCall[c].step = "ask" /\ UNCHANGED <<cacheOn, dnsCache, dnsNow>>
    BY DEF performLookup
  <1>2. /\ dnsCall[c] \in DnsCalls /\ CallSound(dnsCall[c], dnsNow)
        /\ Tail(dnsCall[c].todo) \in Seq(Lookup)
    BY <1>1, CurrentLookup
  <1>3. dnsCall[c].answer = Failed /\ dnsCall[c].name \in Names
        /\ dnsCall[c].todo \in Seq(Lookup) /\ dnsCall[c].todo # <<>>
    BY <1>1, <1>2 DEF CallSound, DnsCalls
  <1>4. CASE Head(dnsCall[c].todo).family \in known
    <2> DEFINE a == [dnsCall[c].answer EXCEPT !.at = dnsNow]
               n == [dnsCall[c] EXCEPT !.step = "store", !.answer = a]
    <2>1. a \in DnsAnswers /\ a.at = dnsNow
      BY <1>3 DEF DnsAnswers, Failed, DnsInv
    <2>2. dnsCall' = [dnsCall EXCEPT ![c] = n]
      BY <1>4 DEF performLookup
    <2> HIDE DEF a
    <2>3. n \in DnsCalls /\ n.step = "store" /\ n.answer = a /\ n.todo = dnsCall[c].todo
          /\ n.name = dnsCall[c].name
      BY <1>2, <2>1 DEF DnsCalls, DnsSteps
    <2> HIDE DEF n
    <2>4. CallSound(n, dnsNow)
      BY <1>3, <2>1, <2>3 DEF CallSound
    <2> QED
      BY <1>1, <2>2, <2>3, <2>4, DnsGoesTo
  <1>5. CASE Head(dnsCall[c].todo).family \notin known
    <2> DEFINE rest == Tail(dnsCall[c].todo)
               n == [dnsCall[c] EXCEPT !.step = IF rest = <<>> THEN "done" ELSE "check", !.todo = rest]
    <2>1. dnsCall' = [dnsCall EXCEPT ![c] = n]
      BY <1>5 DEF performLookup
    <2>2. rest \in Seq(Lookup)
      BY <1>2
    <2> HIDE DEF rest
    <2>3. n \in DnsCalls /\ n.step = (IF rest = <<>> THEN "done" ELSE "check") /\ n.answer = Failed
          /\ n.todo = rest /\ n.name = dnsCall[c].name
      BY <1>2, <1>3, <2>2 DEF DnsCalls, DnsSteps
    <2> HIDE DEF n
    <2>4. CallSound(n, dnsNow)
      BY <1>3, <2>3 DEF CallSound
    <2> QED
      BY <1>1, <2>1, <2>3, <2>4, DnsGoesTo
  <1> QED
    BY <1>4, <1>5

LEMMA StoreKeeps ==
  ASSUME DnsInv, NEW c \in Callers, setCached(c)
  PROVE  DnsInv'
  <1> DEFINE r == Head(dnsCall[c].todo).resolver
             entry == [family |-> Head(dnsCall[c].todo).family, at |-> dnsCall[c].answer.at,
                       expiresAt |-> dnsNow + MaxTTL]
  <1>1. /\ dnsCall[c].step = "store" /\ UNCHANGED <<cacheOn, dnsNow>> /\ dnsCall' = Answered(c, entry)
        /\ dnsCache' = IF cacheOn[r] THEN [dnsCache EXCEPT ![r][Key(c)] = entry] ELSE dnsCache
    BY DEF setCached
  <1>2. /\ r \in Resolvers /\ Key(c) \in Names \X Families
        /\ Head(dnsCall[c].todo).family \in Families
        /\ Key(c)[2] = Head(dnsCall[c].todo).family
        /\ dnsCall[c].answer.at = dnsNow
    BY <1>1, CurrentLookup DEF CallSound
  <1>3. entry.family = Head(dnsCall[c].todo).family /\ entry.at = dnsNow
        /\ entry.expiresAt = dnsNow + MaxTTL
    BY <1>2
  <1>4. entry \in DnsEntries /\ dnsNow - entry.at <= MaxTTL /\ entry.expiresAt - entry.at <= MaxTTL
    BY <1>2, DnsAssumption DEF DnsEntries, DnsInv
  <1> HIDE DEF entry, r
  <1>5. EntrySound(Key(c), entry)
    BY <1>2, <1>3, <1>4 DEF EntrySound
  <1>6. PICK n \in DnsCalls : CallSound(n, dnsNow) /\ dnsCall' = [dnsCall EXCEPT ![c] = n]
    BY <1>1, <1>3, <1>4, AnsweredSound
  <1>7. dnsCall' \in [Callers -> DnsCalls] /\ \A d \in Callers : CallSound(dnsCall'[d], dnsNow)
    BY <1>6 DEF DnsInv
  <1>8. dnsCache' \in [Resolvers -> [Names \X Families -> DnsEntries]]
    BY <1>1, <1>2, <1>4 DEF DnsInv
  <1>9. ASSUME NEW s \in Resolvers, NEW k \in Names \X Families PROVE EntrySound(k, dnsCache'[s][k])
    <2>1. dnsCache'[s][k] \in {entry, dnsCache[s][k]} /\ (dnsCache'[s][k] # dnsCache[s][k] => k = Key(c))
      BY <1>1, <1>2 DEF DnsInv
    <2> QED
      BY <1>5, <2>1 DEF DnsInv
  <1> QED
    BY <1>1, <1>7, <1>8, <1>9 DEF DnsInv

\* Caches that lose entries stay sound.
LEMMA ForgetKeeps ==
  ASSUME DnsInv, NEW r \in Resolvers, NEW K,
         \/ dnsCache' = [dnsCache EXCEPT ![r] = [k \in DOMAIN @ |-> IF k \in K THEN NoEntry ELSE @[k]]]
         \/ dnsCache' = [dnsCache EXCEPT ![r] = [k \in DOMAIN @ |-> NoEntry]]
         \/ dnsCache' = dnsCache,
         cacheOn' \in [Resolvers -> BOOLEAN], UNCHANGED <<dnsCall, dnsNow>>
  PROVE  DnsInv'
  <1>1. NoEntry \in DnsEntries
    BY DEF NoEntry, DnsEntries
  <1>2. dnsCache' \in [Resolvers -> [Names \X Families -> DnsEntries]]
    <2> DEFINE row == dnsCache'[r]
    <2>1. dnsCache \in [Resolvers -> [Names \X Families -> DnsEntries]]
      BY DEF DnsInv
    <2>2. row \in [Names \X Families -> DnsEntries]
      <3> DEFINE old == dnsCache[r]
      <3>1. old \in [Names \X Families -> DnsEntries]
        BY <2>1
      <3>2. \/ row = [k \in DOMAIN old |-> IF k \in K THEN NoEntry ELSE old[k]]
            \/ row = [k \in DOMAIN old |-> NoEntry]
            \/ row = old
        BY <2>1
      <3> HIDE DEF old, row
      <3> QED
        BY <1>1, <3>1, <3>2
    <2>3. dnsCache' = [dnsCache EXCEPT ![r] = row]
      BY <2>1
    <2> HIDE DEF row
    <2> QED
      BY <2>1, <2>2, <2>3
  <1>3. \A s \in Resolvers, k \in Names \X Families : dnsCache'[s][k] \in {NoEntry, dnsCache[s][k]}
    BY <1>1, SMTT(40) DEF DnsInv
  <1>4. ASSUME NEW s \in Resolvers, NEW k \in Names \X Families PROVE EntrySound(k, dnsCache'[s][k])
    <2>1. EntrySound(k, NoEntry) /\ EntrySound(k, dnsCache[s][k])
      BY DEF EntrySound, DnsInv
    <2> QED
      BY <1>3, <2>1
  <1> QED
    BY <1>2, <1>4 DEF DnsInv

\* Whatever callers overlap and whatever is cleared, disabled or cleaned meanwhile: an
\* answer is of the family that was asked for and was obtained MaxTTL ago or later.
THEOREM AnswersFresh == DnsSpec => []DnsAnswersFresh
  <1>1. DnsInit => DnsInv
    <2> SUFFICES ASSUME DnsInit PROVE DnsInv
      OBVIOUS
    <2>1. NoEntry \in DnsEntries
      BY DEF NoEntry, DnsEntries
    <2>2. Idle \in DnsCalls /\ CallSound(Idle, dnsNow)
      BY DEF Idle, DnsCalls, DnsSteps, DnsAnswers, Failed, CallSound
    <2> QED
      BY <2>1, <2>2 DEF DnsInit, DnsInv, EntrySound
  <1>2. DnsInv /\ [DnsNext]_dnsVars => DnsInv'
    <2> SUFFICES ASSUME DnsInv, [DnsNext]_dnsVars PROVE DnsInv'
      OBVIOUS
    <2>1. ASSUME NEW c \in Callers, PreloadAcquire(c) PROVE DnsInv'
      <3> DEFINE n == [dnsCall[c] EXCEPT !.step = "check"]
      <3>1. dnsCall[c] \in DnsCalls /\ CallSound(dnsCall[c], dnsNow) /\ dnsCall[c].step = "sem"
        BY <2>1 DEF DnsInv, PreloadAcquire
      <3>2. n \in DnsCalls /\ CallSound(n, dnsNow)
        BY <3>1 DEF DnsCalls, DnsSteps, CallSound
      <3>3. dnsCall' = [dnsCall EXCEPT ![c] = n] /\ UNCHANGED <<cacheOn, dnsCache, dnsNow>>
        BY <2>1 DEF PreloadAcquire
      <3> HIDE DEF n
      <3> QED
        BY <3>2, <3>3, DnsGoesTo
    <2>2. ASSUME NEW c \in Callers, DnsReturn(c) PROVE DnsInv'
      <3>1. Idle \in DnsCalls /\ CallSound(Idle, dnsNow)
        BY DEF Idle, DnsCalls, DnsSteps, DnsAnswers, Failed, CallSound
      <3>2. dnsCall' = [dnsCall EXCEPT ![c] = Idle] /\ UNCHANGED <<cacheOn, dnsCache, dnsNow>>
        BY <2>2 DEF DnsReturn
      <3> QED
        BY <3>1, <3>2, DnsGoesTo
    <2>3. ASSUME NEW r \in Resolvers, cleanExpiredCache(r) PROVE DnsInv'
      <3> DEFINE K == {k \in Names \X Families : dnsNow > dnsCache[r][k].expiresAt}
      <3>1. dnsCache' = [dnsCache EXCEPT ![r] = [k \in DOMAIN @ |-> IF k \in K THEN NoEntry ELSE @[k]]]
        BY <2>3 DEF cleanExpiredCache, DnsInv
      <3>2. UNCHANGED <<cacheOn, dnsCall, dnsNow>>
        BY <2>3 DEF cleanExpiredCache
      <3>3. cacheOn' \in [Resolvers -> BOOLEAN]
        BY <3>2 DEF DnsInv
      <3> HIDE DEF K
      <3> QED
        BY <3>1, <3>2, <3>3, ForgetKeeps
    <2>4. "base" \in Resolvers
      BY DEF Resolvers
    <2>5. ASSUME NEW enabled \in BOOLEAN, SetCacheEnabled(enabled) PROVE DnsInv'
      <3>1. cacheOn' \in [Resolvers -> BOOLEAN]
        BY <2>5 DEF SetCacheEnabled, DnsInv
      <3> QED
        BY <2>4, <2>5, <3>1, ForgetKeeps DEF SetCacheEnabled
    <2>6. CASE ClearDnsCache
      <3>1. cacheOn' \in [Resolvers -> BOOLEAN]
        BY <2>6 DEF ClearDnsCache, DnsInv
      <3> QED
        BY <2>4, <2>6, <3>1, ForgetKeeps DEF ClearDnsCache
    <2>7. CASE CloseResolver
      BY <2>7 DEF CloseResolver, DnsInv
    <2>8. CASE DnsTick
      <3>1. dnsNow' \in Nat /\ UNCHANGED <<dnsCache, cacheOn, dnsCall>>
        BY <2>8 DEF DnsTick, DnsInv
      <3>2. ASSUME NEW c \in Callers PROVE CallSound(dnsCall[c], dnsNow')
        <4>1. dnsCall[c].step # "store" /\ CallSound(dnsCall[c], dnsNow)
          BY <2>8 DEF DnsTick, DnsInv
        <4> QED
          BY <4>1 DEF CallSound
      <3> QED
        BY <3>1, <3>2 DEF DnsInv
    <2>9. CASE UNCHANGED dnsVars
      BY <2>9 DEF dnsVars, DnsInv
    <2> QED
      BY <2>1, <2>2, <2>3, <2>5, <2>6, <2>7, <2>8, <2>9, AskKeeps, LookupKeeps, PerformKeeps,
         StoreKeeps DEF DnsNext
  <1>3. DnsInv => DnsAnswersFresh
    BY DEF DnsInv, CallSound, DnsAnswersFresh
  <1> QED
    BY <1>1, <1>2, <1>3, PTL DEF DnsSpec

-----------------------------------------------------------------------------
(* Routing, for any payloads and configurations that are well formed, any     *)
(* rules in them, and any calls that apply schemas.                           *)

Less == {p \in Nat \X Nat : p[1] < p[2]}

LEMMA LessWellFounded == IsWellFoundedOn(Less, Nat)
<1>1. OpToRel(<, Nat) = Less
  BY DEF OpToRel, Less
<1> QED
  BY <1>1, NatLessThanWellFounded, Zenon

\* A set of natural numbers with a member has a least one.
LEMMA LeastNumber ==
  ASSUME NEW T \in SUBSET Nat, T # {}
  PROVE  \E m \in T : \A k \in T : m <= k
<1>1. PICK m \in T : \A k \in T : ~(<<k, m>> \in Less)
  BY WFMin, LessWellFounded
<1>2. \A j, k \in Nat : j < k => <<j, k>> \in Less
  BY DEF Less
<1>3. ASSUME NEW k \in T
      PROVE  m <= k
  <2>1. ~(<<k, m>> \in Less) /\ k \in Nat /\ m \in Nat
    BY <1>1
  <2>2. ~(k < m)
    BY <1>2, <2>1, Zenon
  <2> QED
    BY <2>1, <2>2
<1> QED
  BY <1>3

\* A snapshot whose rules and default lead to open branches.
SnapshotSound(t) ==
    /\ t.open \subseteq Branches /\ t.default \in t.open
    /\ DOMAIN t.rules \subseteq Nat
    /\ \A i \in DOMAIN t.rules : t.rules[i].target \in t.open

\* The first rule that matches exists, and its branch is the decision.
LEMMA SoundHonours ==
  ASSUME NEW t, SnapshotSound(t), NEW ctx PROVE Honours(t, ctx)
  <1> DEFINE all == {i \in DOMAIN t.rules : t.rules[i].enabled /\ checkRuleBySnapshot(t.rules[i], ctx)}
             hits == {i \in DOMAIN t.rules :
                        /\ t.rules[i].enabled /\ checkRuleBySnapshot(t.rules[i], ctx)
                        /\ t.strict \/ t.rules[i].target \in t.open}
             first == CHOOSE i \in hits : \A j \in hits : i <= j
             action == IF hits = {} THEN t.default
                       ELSE IF t.rules[first].target \in t.open THEN t.rules[first].target ELSE "deny"
             decision == DecideRouteFromSnapshot(t, ctx)
  <1>1. hits = all
    BY DEF SnapshotSound
  <1>2. hits \in SUBSET Nat /\ hits \subseteq DOMAIN t.rules
    BY DEF SnapshotSound
  <1>3. decision = IF action = "deny" \/ action \in t.open THEN action
                   ELSE IF t.strict THEN "deny" ELSE "direct"
    BY DEF DecideRouteFromSnapshot
  <1>4. Honours(t, ctx) <=> /\ decision \in t.open
                            /\ all = {} => decision = t.default
                            /\ \A i \in all : (\A j \in all : i <= j) => decision = t.rules[i].target
    BY DEF Honours
  <1> HIDE DEF hits, all, decision
  <1>5. CASE hits = {}
    <2>1. action = t.default /\ t.default \in t.open
      BY <1>5 DEF SnapshotSound
    <2> HIDE DEF action
    <2> QED
      BY <1>1, <1>3, <1>4, <1>5, <2>1
  <1>6. CASE hits # {}
    <2>1. \E i \in hits : \A j \in hits : i <= j
      BY <1>2, <1>6, LeastNumber
    <2>2. first \in hits /\ \A j \in hits : first <= j
      BY <2>1
    <2>3. t.rules[first].target \in t.open
      BY <1>2, <2>2 DEF SnapshotSound
    <2>4. action = t.rules[first].target
      BY <1>6, <2>3
    <2> HIDE DEF action, first
    <2>5. decision = t.rules[first].target
      BY <1>3, <2>3, <2>4
    <2>6. ASSUME NEW i \in all, \A j \in all : i <= j PROVE i = first
      BY <1>1, <1>2, <2>2, <2>6
    <2> QED
      BY <1>1, <1>4, <1>6, <2>3, <2>5, <2>6
  <1> QED
    BY <1>5, <1>6

\* A schema that Validate accepts, with all its fields.
SchemaFields ==
    {"kind", "version", "mode", "direct", "toAliang", "toSocks", "upstream", "rules", "default"}
SchemaSound(s) ==
    /\ SchemaFields \subseteq DOMAIN s
    /\ DOMAIN s.rules \subseteq Nat
    /\ Validate(s)

\* Another mode makes no other branch open or closed.
LEMMA WithMode ==
  ASSUME NEW s, SchemaSound(s), NEW m \in {"tun", "http"}
  PROVE  SchemaSound([s EXCEPT !.mode = m])
  <1> DEFINE n == [s EXCEPT !.mode = m]
  <1>1. /\ DOMAIN n = DOMAIN s /\ n.mode = m /\ n.direct = s.direct /\ n.toAliang = s.toAliang
        /\ n.toSocks = s.toSocks /\ n.upstream = s.upstream /\ n.rules = s.rules
        /\ n.default = s.default
    BY DEF SchemaSound, SchemaFields
  <1> HIDE DEF n
  <1>2. Opened(n) = Opened(s)
    BY <1>1 DEF Opened
  <1>3. SchemaSound(n)
    BY <1>1, <1>2 DEF SchemaSound, Validate
  <1> QED
    BY <1>3 DEF n

\* What is stored is normalized once more, which changes no schema that is valid.
LEMMA NormalizedSound ==
  ASSUME NEW s, SchemaSound(s) PROVE SchemaSound(Normalized(s))
  <1> DEFINE n == Normalized(s)
  <1>1. /\ DOMAIN n = DOMAIN s /\ n.mode \in {"tun", "http"} /\ n.direct = s.direct
        /\ n.toAliang = s.toAliang /\ n.toSocks = s.toSocks /\ n.upstream = s.upstream
        /\ n.rules = s.rules /\ n.default = s.default
    BY DEF SchemaSound, SchemaFields, Normalized, Validate
  <1> HIDE DEF n
  <1>2. Opened(n) = Opened(s)
    BY <1>1 DEF Opened
  <1>3. SchemaSound(n)
    BY <1>1, <1>2 DEF SchemaSound, Validate
  <1> QED
    BY <1>3 DEF n

LEMMA CompiledSound ==
  ASSUME NEW s, SchemaSound(s) PROVE SnapshotSound(CompileRuntimeSnapshot(s))
  <1>1. "direct" \in Opened(s) /\ Opened(s) \subseteq Branches
    BY DEF SchemaSound, Validate, Opened, Branches
  <1>2. s.default = "" \/ s.default \in Opened(s)
    BY DEF SchemaSound, Validate
  <1>3. DOMAIN s.rules \subseteq Nat /\ \A i \in DOMAIN s.rules : s.rules[i].target \in Opened(s)
    BY DEF SchemaSound, Validate
  <1> QED
    BY <1>1, <1>2, <1>3 DEF CompileRuntimeSnapshot, SnapshotSound

\* A request's schema that is acceptable is sound once normalized.
LEMMA AcceptableSound ==
  ASSUME NEW p \in Payloads, Acceptable(p) PROVE SchemaSound(Normalized(p))
  <1>1. p \in Schemas
    BY SchemasAssumption DEF Acceptable
  <1>2. DOMAIN p = SchemaFields /\ DOMAIN p.rules \subseteq Nat
    BY <1>1 DEF Schemas, SchemaFields
  <1>3. DOMAIN Normalized(p) = SchemaFields /\ Normalized(p).rules = p.rules
    BY <1>2 DEF Normalized, SchemaFields
  <1> QED
    BY <1>2, <1>3 DEF SchemaSound, Acceptable

\* The schema built from a configuration is valid whatever its rules are.
LEMMA RuntimeInputsSound ==
  ASSUME NEW cfg \in Configs
  PROVE  LET t == CompileRuntimeSnapshotFromRuntimeInputs(cfg) IN t.ok /\ SnapshotSound(t)
  <1> DEFINE toSocks == cfg.proxy \in {"http", "socks5"}
             ai == [i \in DOMAIN cfg.ai |-> DomainRule(cfg.ai[i], "toAliang")]
             proxied == [i \in DOMAIN cfg.proxyRules |->
                           DomainRule(cfg.proxyRules[i], IF toSocks THEN "toSocks" ELSE "direct")]
             schema == [kind |-> "canonical", version |-> 1, mode |-> "tun", direct |-> TRUE,
                        toAliang |-> TRUE, toSocks |-> toSocks,
                        upstream |-> CASE cfg.proxy = "http" -> "http"
                                       [] cfg.proxy = "socks5" -> "socks"
                                       [] OTHER -> "",
                        rules |-> ai \o proxied, default |-> "direct"]
             t == CompileRuntimeSnapshot(schema)
             R == {DomainRule(x, b) : x \in Patterns,
                                      b \in {"toAliang"} \cup (IF toSocks THEN {"toSocks"} ELSE {"direct"})}
  <1>1. cfg.ai \in Seq(Patterns) /\ cfg.proxyRules \in Seq(Patterns)
    BY SchemasAssumption
  <1>2. ai \in Seq(R) /\ proxied \in Seq(R)
    <2> DEFINE b == IF toSocks THEN "toSocks" ELSE "direct"
    <2>1. \A x \in Patterns : DomainRule(x, "toAliang") \in R /\ DomainRule(x, b) \in R
      OBVIOUS
    <2>2. proxied = [i \in DOMAIN cfg.proxyRules |-> DomainRule(cfg.proxyRules[i], b)]
      OBVIOUS
    <2> HIDE DEF b, R, toSocks
    <2> QED
      BY <1>1, <2>1, <2>2, SMTT(30)
  <1> HIDE DEF ai, proxied
  <1>3. schema.rules \in Seq(R)
    BY <1>2, ConcatProperties
  <1>4. \A x \in R : x.target \in Opened(schema)
    <2>1. "direct" \in Opened(schema) /\ "toAliang" \in Opened(schema)
      BY DEF Opened, Branches
    <2>2. toSocks => "toSocks" \in Opened(schema)
      BY DEF Opened, Branches
    <2> HIDE DEF schema, toSocks
    <2> QED
      BY <2>1, <2>2 DEF DomainRule
  <1>5. "direct" \in Opened(schema)
    BY DEF Opened, Branches
  <1>6. schema.mode = "tun" /\ schema.direct /\ schema.default = "direct"
        /\ SchemaFields \subseteq DOMAIN schema
    BY DEF SchemaFields
  <1>7. schema.upstream \in (IF schema.toSocks THEN {"socks", "http"} ELSE {"", "socks", "http"})
    <2>1. CASE cfg.proxy = "http"
      BY <2>1
    <2>2. CASE cfg.proxy = "socks5"
      BY <2>2
    <2>3. CASE cfg.proxy \notin {"http", "socks5"}
      BY <2>3
    <2> QED
      BY <2>1, <2>2, <2>3
  <1>8. CompileRuntimeSnapshotFromRuntimeInputs(cfg) = [t EXCEPT !.ok = Validate(schema)]
    BY DEF CompileRuntimeSnapshotFromRuntimeInputs, ai, proxied
  <1> HIDE DEF schema, R
  <1>9. SchemaSound(schema) /\ Validate(schema)
    <2>1. DOMAIN schema.rules \subseteq Nat /\ \A i \in DOMAIN schema.rules : schema.rules[i] \in R
      BY <1>3
    <2>2. \A i \in DOMAIN schema.rules : schema.rules[i].target \in Opened(schema)
      BY <1>4, <2>1
    <2>3. Validate(schema)
      BY <1>5, <1>6, <1>7, <2>2 DEF Validate
    <2> QED
      BY <1>6, <2>1, <2>3 DEF SchemaSound
  <1>10. SnapshotSound(t)
    BY <1>9, CompiledSound
  <1>11. [t EXCEPT !.ok = Validate(schema)].ok /\ SnapshotSound([t EXCEPT !.ok = Validate(schema)])
    BY <1>9, <1>10 DEF SnapshotSound, CompileRuntimeSnapshot
  <1> QED
    BY <1>8, <1>11

\* The schema in force, and every one a call is about to store, is sound.
RoutingInv ==
    /\ applyPc \in [ApplyCalls -> {"idle", "store", "ok", "failed"}]
    /\ DOMAIN applyNext = ApplyCalls
    /\ canonical # NoSchema => SchemaSound(canonical)
    /\ \A c \in ApplyCalls : applyPc[c] = "store" => SchemaSound(applyNext[c])
    /\ customer \in Configs

LEMMA PreparedKeeps ==
  ASSUME RoutingInv, NEW c \in ApplyCalls, NEW s, SchemaSound(Normalized(s)), Prepared(c, s),
         UNCHANGED <<canonical, customer>>
  PROVE  RoutingInv'
  <1> DEFINE n == Normalized(s)
  <1>1. /\ applyNext' = [applyNext EXCEPT ![c] = n] /\ applyPc' = [applyPc EXCEPT ![c] = "store"]
        /\ SchemaSound(n)
    BY DEF Prepared
  <1> HIDE DEF n
  <1> QED
    BY <1>1 DEF RoutingInv

LEMMA BootstrapSound ==
  ASSUME NEW m \in {"tun", "http"} PROVE SchemaSound(Bootstrap(m))
  <1> DEFINE s == Bootstrap(m)
  <1>1. /\ s.mode = m /\ s.direct = TRUE /\ s.upstream \in {"http", "socks"} /\ s.rules = <<>>
        /\ s.default = "" /\ SchemaFields \subseteq DOMAIN s
    BY DEF Bootstrap, SchemaFields
  <1>2. DOMAIN <<>> = {}
    OBVIOUS
  <1> HIDE DEF s
  <1>3. SchemaSound(s)
    BY <1>1, <1>2 DEF SchemaSound, Validate
  <1> QED
    BY <1>3 DEF s

\* Whatever payloads and configurations arrive, and however mode switches overlap
\* requests: a connection is given the branch of its first matching rule, and that branch
\* is open.
THEOREM DecisionsOpen == RoutingSpec => []DecisionsAreOpen
  <1>1. RoutingInit => RoutingInv
    BY DEF RoutingInit, RoutingInv
  <1>2. RoutingInv /\ [RoutingNext]_routingVars => RoutingInv'
    <2> SUFFICES ASSUME RoutingInv, [RoutingNext]_routingVars PROVE RoutingInv'
      OBVIOUS
    <2>1. ASSUME NEW c \in ApplyCalls, ApplyBegin(c) PROVE RoutingInv'
      <3>1. UNCHANGED <<canonical, customer>>
        BY <2>1 DEF ApplyBegin
      <3>2. PICK p \in Payloads :
               IF Acceptable(p) THEN Prepared(c, p) ELSE Refused(c, p.kind # "garbage")
        BY <2>1 DEF ApplyBegin
      <3>3. CASE Acceptable(p)
        BY <3>1, <3>2, <3>3, AcceptableSound, PreparedKeeps
      <3>4. CASE ~Acceptable(p)
        BY <3>1, <3>2, <3>4 DEF Refused, RoutingInv
      <3> QED
        BY <3>3, <3>4
    <2>2. ASSUME NEW c \in ApplyCalls, ApplyIngressMode(c) PROVE RoutingInv'
      <3>1. UNCHANGED <<canonical, customer>>
        BY <2>2 DEF ApplyIngressMode
      <3>2. PICK m \in {"tun", "http"} :
               Prepared(c, IF canonical = NoSchema THEN Bootstrap(m) ELSE [canonical EXCEPT !.mode = m])
        BY <2>2 DEF ApplyIngressMode
      <3>3. CASE canonical = NoSchema
        BY <3>1, <3>2, <3>3, BootstrapSound, NormalizedSound, PreparedKeeps
      <3>4. CASE canonical # NoSchema
        <4> DEFINE s == [canonical EXCEPT !.mode = m]
        <4>1. SchemaSound(s)
          BY <3>4, WithMode DEF RoutingInv
        <4>2. Prepared(c, s)
          BY <3>2, <3>4
        <4> HIDE DEF s
        <4> QED
          BY <3>1, <4>1, <4>2, NormalizedSound, PreparedKeeps
      <3> QED
        BY <3>3, <3>4
    <2>3. ASSUME NEW c \in ApplyCalls, ApplyStore(c) PROVE RoutingInv'
      BY <2>3 DEF ApplyStore, RoutingInv
    <2>4. CASE ConfigChanges
      BY <2>4 DEF ConfigChanges, RoutingInv
    <2>5. ASSUME UNCHANGED storeVars PROVE RoutingInv'
      BY <2>5 DEF storeVars, RoutingInv
    <2>6. CASE GeoNext
      BY <2>5, <2>6 DEF GeoNext, LookupCached, LookupCountry, LookupStore, LoadDatabase,
                        SwitchGeo, ClearGeoCache
    <2>7. CASE EvaluateRoute \/ ManageEngine
      BY <2>5, <2>7 DEF EvaluateRoute, ManageEngine
    <2>8. CASE UNCHANGED routingVars
      BY <2>5, <2>8 DEF routingVars
    <2> QED
      BY <2>1, <2>2, <2>3, <2>4, <2>6, <2>7, <2>8 DEF RoutingNext, StoreNext
  <1>3. RoutingInv => DecisionsAreOpen
    <2> SUFFICES ASSUME RoutingInv PROVE DecisionsAreOpen
      OBVIOUS
    <2>1. ASSUME canonical # NoSchema, NEW ctx \in Contexts
          PROVE  Honours(CompileRuntimeSnapshot(canonical), ctx)
      BY <2>1, CompiledSound, SoundHonours DEF RoutingInv
    <2>2. customer \in Configs
      BY DEF RoutingInv
    <2> DEFINE t == CompileRuntimeSnapshotFromRuntimeInputs(customer)
    <2>3. t.ok /\ SnapshotSound(t)
      BY <2>2, RuntimeInputsSound
    <2> HIDE DEF t
    <2>4. t.ok /\ \A ctx \in Contexts : Honours(t, ctx)
      BY <2>3, SoundHonours
    <2> QED
      BY <2>1, <2>4 DEF DecisionsAreOpen, t
  <1> QED
    BY <1>1, <1>2, <1>3, PTL DEF RoutingSpec

-----------------------------------------------------------------------------
(* The table of HTTP/2 streams of an intercepted connection.                *)

StreamTypes == DOMAIN streams = StreamIds /\ answered \subseteq StreamIds

\* An entry that is set was there before.
LEMMA EndedKeeps ==
  ASSUME StreamTypes, NEW s, streams[s] # "none" \/ s \notin StreamIds, NEW es, streams' = Ended(s, es)
  PROVE  /\ DOMAIN streams' = StreamIds
         /\ \A x \in StreamIds : streams[x] = "none" => streams'[x] = "none"
BY DEF Ended, StreamTypes

LEMMA RemovedStays ==
  ASSUME StreamTypes, NEW s, streams' = [streams EXCEPT ![s] = "none"]
  PROVE  /\ DOMAIN streams' = StreamIds
         /\ \A x \in StreamIds : streams[x] = "none" => streams'[x] = "none"
BY DEF StreamTypes

\* Which steps bring an entry into the table: the first look at a frame of its stream only.
LEMMA StreamStep ==
  ASSUME StreamTypes, [WatcherNext]_watcherVars
  PROVE  /\ StreamTypes'
         /\ \A s \in StreamIds : streams[s] = "none" /\ streams'[s] # "none"
               => h2step = "loop" /\ FrameThere /\ FrameAt(1).s = s
<1>1. CASE UNCHANGED <<streams, answered>>
  BY <1>1 DEF StreamTypes
<1>2. CASE http2NextFrame
  <2>1. h2step = "loop" /\ answered' = answered
    BY <1>2 DEF http2NextFrame
  <2>2. CASE FrameThere /\ streams' = [streams EXCEPT ![FrameAt(1).s] = "open"]
    BY <2>1, <2>2 DEF StreamTypes
  <2>3. CASE streams' = streams
    BY <2>1, <2>3 DEF StreamTypes
  <2> QED
    BY <1>2, <2>2, <2>3 DEF http2NextFrame
<1>3. CASE processHttp2RequestFrame
  <2> DEFINE f == FrameAt(1)
  <2>1. answered' = answered
    BY <1>3 DEF processHttp2RequestFrame
  <2>2. /\ DOMAIN streams' = StreamIds
        /\ \A x \in StreamIds : streams[x] = "none" => streams'[x] = "none"
    <3>1. CASE headersFrame
      <4>1. streams' = streams \/ (streams[f.s] # "none" /\ streams' = Ended(f.s, f.es))
        BY <3>1 DEF headersFrame, fallback
      <4> HIDE DEF f
      <4> QED
        BY <4>1, EndedKeeps DEF StreamTypes
    <3>2. CASE otherFrame
      <4>1. \/ streams' = streams
            \/ streams[f.s] # "none" /\ streams' = Ended(f.s, f.es)
            \/ streams' = [streams EXCEPT ![f.s] = "none"]
            \/ streams' = [s \in StreamIds |-> "none"]
        BY <3>2 DEF otherFrame
      <4> HIDE DEF f
      <4>2. CASE streams' = [s \in StreamIds |-> "none"]
        BY <4>2
      <4> QED
        BY <4>1, <4>2, EndedKeeps, RemovedStays DEF StreamTypes
    <3> QED
      BY <1>3, <3>1, <3>2 DEF processHttp2RequestFrame
  <2> QED
    BY <2>1, <2>2 DEF StreamTypes
<1>4. CASE observeHTTP2ResponseFrames
  <2>1. CASE UNCHANGED <<streams, answered>>
    BY <1>1, <2>1
  <2>2. ASSUME NEW s \in StreamIds, streams' = removeStream(s), answered' = answered \cup {s}
        PROVE  /\ StreamTypes' /\ \A x \in StreamIds : streams[x] = "none" => streams'[x] = "none"
    BY <2>2, RemovedStays DEF removeStream, StreamTypes
  <2> QED
    BY <1>4, <2>1, <2>2 DEF observeHTTP2ResponseFrames
<1>5. CASE UNCHANGED h2Vars
  BY <1>1, <1>5 DEF h2Vars
<1>6. CASE http2Output \/ connRead
  BY <1>1, <1>6 DEF http2Output, connRead
<1> QED
  BY <1>2, <1>3, <1>4, <1>5, <1>6
  DEF WatcherNext, watcherVars, sniff, processH1ReqHeaders, consumeHTTP1Body, readFromPending, passBuffered

\* observeHTTP2ResponseFrames removes the entry of a stream whose response is complete, and
\* processHttp2RequestFrame, which may be at work on an earlier frame of that stream, does
\* not write it back; only a later frame of the client does.
THEOREM FinishedStreamsStayRemoved == WatcherSpec => FinishedStreamStaysRemoved
<1>1. WatcherInit => StreamTypes
  BY DEF WatcherInit, StreamTypes
<1>2. StreamTypes /\ [WatcherNext]_watcherVars => StreamTypes'
  BY StreamStep
<1>3. StreamTypes /\ [WatcherNext]_watcherVars =>
        [\A s \in answered : streams[s] = "none" /\ streams'[s] # "none"
            => h2step = "loop" /\ FrameThere /\ FrameAt(1).s = s]_watcherVars
  BY StreamStep DEF StreamTypes
<1> QED
  BY <1>1, <1>2, <1>3, PTL DEF WatcherSpec, FinishedStreamStaysRemoved

-----------------------------------------------------------------------------
(* The statistics.                                                          *)

\* What a connection has transferred of what the total counts, and the transferred units of
\* some connections, each once: their number is the sum over the connections.
Sent(x) == IF x.step = "own" THEN x.own + 1 ELSE x.own
Units(t, S) == {p \in S \X Nat : p[2] < Sent(t[p[1]])}

Trackers == [state : {"new", "joined", "untracked", "closed"}, route : Routes \cup {"none"}, own : Nat,
             step : {"idle", "total", "own"}]
Snapshots == [byRoute : Nat, total : Nat]
Snaps == [step : {"idle", "range", "count"}, left : SUBSET Conns, sum : Nat, last : Snapshots]

\* What is visited and what is left to visit stay below the total, whatever is
\* transferred meanwhile.
SnapshotInv ==
  /\ tracked \in [Conns -> Trackers] /\ total \in Nat /\ snap \in Snaps
  /\ IsFiniteSet(Units(tracked, Conns)) /\ Cardinality(Units(tracked, Conns)) <= total
  /\ snap.step = "range" => snap.sum + Cardinality(Units(tracked, snap.left)) <= total
  /\ SnapshotAddsUp

LEMMA UnitsOfSome ==
  ASSUME NEW t, NEW S, NEW R \in SUBSET S, IsFiniteSet(Units(t, S))
  PROVE  /\ IsFiniteSet(Units(t, R)) /\ Cardinality(Units(t, R)) \in Nat
         /\ Cardinality(Units(t, S)) \in Nat /\ Cardinality(Units(t, R)) <= Cardinality(Units(t, S))
<1>1. Units(t, R) \in SUBSET Units(t, S)
  BY DEF Units
<1> QED
  BY <1>1, FS_Subset, FS_CardinalityType

\* A visit moves the units of a connection from what is left to the sum.
LEMMA UnitsOfOne ==
  ASSUME NEW t, NEW S, NEW c \in S, IsFiniteSet(Units(t, S)), Sent(t[c]) \in Nat
  PROVE  Cardinality(Units(t, S \ {c})) + Sent(t[c]) = Cardinality(Units(t, S))
<1> DEFINE A == Units(t, S \ {c})
           n == Sent(t[c])
           B == {c} \X (0 .. n - 1)
<1>1. Units(t, S) = A \cup B
  <2>1. A \cup B \subseteq Units(t, S)
    BY DEF Units
  <2>2. ASSUME NEW p \in Units(t, S)
        PROVE  p \in A \cup B
    <3>1. p \in S \X Nat /\ p[2] < Sent(t[p[1]])
      BY DEF Units
    <3>2. CASE p[1] = c
      BY <3>1, <3>2
    <3>3. CASE p[1] # c
      BY <3>1, <3>3 DEF Units
    <3> QED
      BY <3>2, <3>3
  <2> QED
    BY <2>1, <2>2
<1>2. A \cap B = {}
  BY DEF Units
<1>3. IsFiniteSet(A) /\ Cardinality(A) \in Nat
  BY UnitsOfSome
<1>4. IsFiniteSet(B) /\ Cardinality(B) = n
  <2>1. IsFiniteSet({c}) /\ Cardinality({c}) = 1
    BY FS_Singleton
  <2>2. IsFiniteSet(0 .. n - 1) /\ Cardinality(0 .. n - 1) = n
    <3>1. IsFiniteSet(0 .. n - 1) /\ Cardinality(0 .. n - 1) = IF 0 > n - 1 THEN 0 ELSE (n - 1) - 0 + 1
      BY FS_Interval, SMTT(30)
    <3> QED
      BY <3>1
  <2>3. IsFiniteSet(B) /\ Cardinality(B) = 1 * n
    BY <2>1, <2>2, FS_Product
  <2> QED
    BY <2>3
<1> HIDE DEF A, B, n
<1>5. Cardinality(A \cup B) = Cardinality(A) + Cardinality(B) - Cardinality({})
  BY <1>2, <1>3, <1>4, FS_Union
<1> QED
  BY <1>1, <1>3, <1>4, <1>5, FS_EmptySet DEF A, n

\* A transfer adds one unit of one connection.
LEMMA OneMoreUnit ==
  ASSUME NEW t, NEW u, NEW S, NEW c, IsFiniteSet(Units(t, S)),
         \A x \in S : x # c => Sent(u[x]) = Sent(t[x]),
         Sent(t[c]) \in Nat, Sent(u[c]) = Sent(t[c]) + 1
  PROVE  IsFiniteSet(Units(u, S)) /\ Cardinality(Units(u, S)) <= Cardinality(Units(t, S)) + 1
         /\ Cardinality(Units(u, S)) \in Nat
<1> DEFINE e == <<c, Sent(t[c])>>
           V == Units(t, S) \cup {e}
<1>1. Units(u, S) \in SUBSET V
  <2> SUFFICES ASSUME NEW p \in Units(u, S), p \notin Units(t, S)
               PROVE  p = e
    OBVIOUS
  <2>1. p \in S \X Nat /\ p[2] < Sent(u[p[1]]) /\ ~(p[2] < Sent(t[p[1]]))
    BY DEF Units
  <2>2. p[1] = c /\ p[2] \in Nat
    BY <2>1
  <2>3. p[2] = Sent(t[c])
    BY <2>1, <2>2
  <2> QED
    BY <2>1, <2>2, <2>3
<1>2. IsFiniteSet(V) /\ Cardinality(V) <= Cardinality(Units(t, S)) + 1
  <2>1. Cardinality(Units(t, S)) \in Nat
    BY FS_CardinalityType
  <2>2. /\ IsFiniteSet(V)
        /\ Cardinality(V) = IF e \in Units(t, S) THEN Cardinality(Units(t, S)) ELSE Cardinality(Units(t, S)) + 1
    BY FS_AddElement
  <2> HIDE DEF V, e
  <2> QED
    BY <2>1, <2>2
<1> HIDE DEF V
<1> QED
  BY <1>1, <1>2, FS_Subset, FS_CardinalityType

LEMMA SameUnits ==
  ASSUME NEW t, NEW u, NEW S, \A x \in S : Sent(u[x]) = Sent(t[x])
  PROVE  Units(u, S) = Units(t, S)
BY DEF Units

\* A step of a connection that transfers nothing that is not counted yet.
LEMMA SameSent ==
  ASSUME SnapshotInv, NEW c \in Conns, NEW x \in Trackers, Sent(x) = Sent(tracked[c]),
         tracked' = [tracked EXCEPT ![c] = x], total' \in {total, total + 1}, snap' = snap
  PROVE  SnapshotInv'
<1>1. tracked \in [Conns -> Trackers] /\ total \in Nat
  BY DEF SnapshotInv
<1>2. tracked' \in [Conns -> Trackers] /\ total' \in Nat /\ total' >= total
  BY <1>1
<1>3. \A y \in Conns : Sent(tracked'[y]) = Sent(tracked[y])
  BY <1>1
<1>4. Units(tracked', Conns) = Units(tracked, Conns)
  BY <1>3, SameUnits
<1>5. Units(tracked', snap.left) = Units(tracked, snap.left)
  <2>1. snap.left \subseteq Conns
    BY DEF SnapshotInv, Snaps
  <2> QED
    BY <1>3, <2>1, SameUnits
<1>6. Cardinality(Units(tracked, Conns)) \in Nat
  BY FS_CardinalityType DEF SnapshotInv
<1>7. snap.sum + Cardinality(Units(tracked, snap.left)) \in Nat
  <2>1. snap.left \subseteq Conns /\ snap.sum \in Nat
    BY DEF SnapshotInv, Snaps
  <2> QED
    BY <2>1, UnitsOfSome DEF SnapshotInv
<1> QED
  BY <1>1, <1>2, <1>4, <1>5, <1>6, <1>7 DEF SnapshotInv, SnapshotAddsUp

\* A transfer adds to the total before it counts for the connection.
LEMMA TransferUnits ==
  ASSUME SnapshotInv, NEW c \in Conns, Transfer(c)
  PROVE  SnapshotInv'
<1> DEFINE t == tracked[c]
<1>1. t \in Trackers /\ tracked \in [Conns -> Trackers] /\ t.own \in Nat /\ Sent(t) \in Nat /\ total \in Nat
  BY DEF SnapshotInv, Trackers, Sent
<1>2. snap' = snap
  BY DEF Transfer
<1>3. ASSUME NEW x \in Trackers, tracked' = [tracked EXCEPT ![c] = x], Sent(x) = Sent(t) + 1, total' = total + 1
      PROVE  SnapshotInv'
  <2>1. tracked' \in [Conns -> Trackers] /\ total' \in Nat
    BY <1>1, <1>3
  <2>2. Sent(tracked'[c]) = Sent(tracked[c]) + 1 /\ \A y \in Conns : y # c => Sent(tracked'[y]) = Sent(tracked[y])
    BY <1>1, <1>3
  <2>3. /\ IsFiniteSet(Units(tracked', Conns)) /\ Cardinality(Units(tracked', Conns)) \in Nat
        /\ Cardinality(Units(tracked', Conns)) <= Cardinality(Units(tracked, Conns)) + 1
    BY <1>1, <2>2, OneMoreUnit DEF SnapshotInv
  <2>4. snap.left \subseteq Conns /\ snap.sum \in Nat
    BY DEF SnapshotInv, Snaps
  <2>5. IsFiniteSet(Units(tracked, snap.left)) /\ Cardinality(Units(tracked, snap.left)) \in Nat
        /\ Cardinality(Units(tracked, Conns)) \in Nat
    BY <2>4, UnitsOfSome DEF SnapshotInv
  <2>6. /\ Cardinality(Units(tracked', snap.left)) \in Nat
        /\ Cardinality(Units(tracked', snap.left)) <= Cardinality(Units(tracked, snap.left)) + 1
    BY <1>1, <2>2, <2>4, <2>5, OneMoreUnit
  <2> QED
    BY <1>1, <1>2, <1>3, <2>1, <2>3, <2>4, <2>5, <2>6 DEF SnapshotInv, SnapshotAddsUp
<1> HIDE DEF t
<1>5. CASE t.step = "idle" /\ tracked' = [tracked EXCEPT ![c].step = "total"] /\ total' = total
  <2>1. tracked' = [tracked EXCEPT ![c] = [t EXCEPT !.step = "total"]]
    BY <1>5 DEF t
  <2>2. [t EXCEPT !.step = "total"] \in Trackers /\ Sent([t EXCEPT !.step = "total"]) = Sent(t)
    BY <1>1, <1>5 DEF Trackers, Sent
  <2> QED
    BY <1>1, <1>2, <1>5, <2>1, <2>2, SameSent DEF t
<1>6. CASE t.step = "total" /\ tracked' = [tracked EXCEPT ![c].step = "own"] /\ total' = total + 1
  <2>1. tracked' = [tracked EXCEPT ![c] = [t EXCEPT !.step = "own"]]
    BY <1>6 DEF t
  <2>2. [t EXCEPT !.step = "own"] \in Trackers /\ Sent([t EXCEPT !.step = "own"]) = Sent(t) + 1
    BY <1>1, <1>6 DEF Trackers, Sent
  <2> QED
    BY <1>3, <1>6, <2>1, <2>2
<1>7. CASE /\ t.step = "own" /\ total' = total
           /\ tracked' = [tracked EXCEPT ![c].step = "idle", ![c].own = @ + 1]
  <2>1. tracked' = [tracked EXCEPT ![c] = [t EXCEPT !.step = "idle", !.own = @ + 1]]
    BY <1>1, <1>7 DEF t
  <2>2. /\ [t EXCEPT !.step = "idle", !.own = @ + 1] \in Trackers
        /\ Sent([t EXCEPT !.step = "idle", !.own = @ + 1]) = Sent(t)
    BY <1>1, <1>7 DEF Trackers, Sent
  <2> QED
    BY <1>1, <1>2, <1>7, <2>1, <2>2, SameSent DEF t
<1> QED
  BY <1>5, <1>6, <1>7 DEF Transfer, TransferStep, t

LEMMA TrackerUnits ==
  ASSUME SnapshotInv, NEW c \in Conns, (\E route \in Routes : NewTracker(c, route)) \/ CloseTracker(c)
  PROVE  SnapshotInv'
<1> DEFINE t == tracked[c]
<1>1. t \in Trackers /\ tracked \in [Conns -> Trackers]
  BY DEF SnapshotInv
<1>2. CASE CloseTracker(c)
  <2>1. tracked' = [tracked EXCEPT ![c] = [t EXCEPT !.state = "closed"]]
    BY <1>1, <1>2 DEF CloseTracker
  <2>2. [t EXCEPT !.state = "closed"] \in Trackers /\ Sent([t EXCEPT !.state = "closed"]) = Sent(t)
    BY <1>1 DEF Trackers, Sent
  <2> QED
    BY <1>2, <2>1, <2>2, SameSent DEF CloseTracker
<1>3. ASSUME NEW route \in Routes, NewTracker(c, route)
      PROVE  SnapshotInv'
  <2> DEFINE x == [t EXCEPT !.route = route,
                            !.state = IF route = "RouteDirect" THEN "untracked" ELSE "joined"]
  <2>1. tracked' = [tracked EXCEPT ![c] = x] /\ UNCHANGED <<total, snap>>
    BY <1>1, <1>3 DEF NewTracker
  <2>2. x \in Trackers /\ Sent(x) = Sent(t)
    BY <1>1 DEF Trackers, Sent
  <2> HIDE DEF x
  <2> QED
    BY <2>1, <2>2, SameSent
<1> QED
  BY <1>2, <1>3

LEMMA VisitUnits ==
  ASSUME SnapshotInv, NEW c \in Conns, SnapshotVisit(c)
  PROVE  SnapshotInv'
<1>1. /\ snap \in Snaps /\ tracked[c] \in Trackers /\ total \in Nat /\ c \in snap.left /\ snap.step = "range"
      /\ UNCHANGED <<tracked, total>>
  BY DEF SnapshotInv, SnapshotVisit
<1>2. snap.left \subseteq Conns /\ snap.sum \in Nat /\ tracked[c].own \in Nat
      /\ Sent(tracked[c]) \in Nat /\ tracked[c].own <= Sent(tracked[c])
  BY <1>1 DEF Snaps, Trackers, Sent
<1>3. PICK k \in {0, tracked[c].own} : snap' = [snap EXCEPT !.left = @ \ {c}, !.sum = @ + k]
  <2>1. snap.sum = snap.sum + 0
    BY <1>2
  <2> QED
    BY <1>1, <2>1 DEF SnapshotVisit, Snaps
<1>4. /\ snap' \in Snaps /\ snap'.left = snap.left \ {c} /\ snap'.sum = snap.sum + k
      /\ snap'.last = snap.last /\ snap'.step = snap.step
  <2>1. k \in Nat /\ snap.sum + k \in Nat /\ snap.left \ {c} \in SUBSET Conns
    BY <1>2
  <2> QED
    BY <1>1, <1>3, <2>1 DEF Snaps
<1>5. IsFiniteSet(Units(tracked, snap.left)) /\ Cardinality(Units(tracked, snap.left)) \in Nat
  BY <1>2, UnitsOfSome DEF SnapshotInv
<1>6. Cardinality(Units(tracked, snap.left \ {c})) \in Nat
  BY <1>5, UnitsOfSome
<1>7. Cardinality(Units(tracked, snap.left \ {c})) + Sent(tracked[c]) = Cardinality(Units(tracked, snap.left))
  BY <1>1, <1>2, <1>5, UnitsOfOne
<1>8. snap.sum + Cardinality(Units(tracked, snap.left)) <= total
  BY <1>1 DEF SnapshotInv
<1>9. snap'.sum + Cardinality(Units(tracked, snap'.left)) <= total
  BY <1>1, <1>2, <1>3, <1>4, <1>5, <1>6, <1>7, <1>8
<1> QED
  BY <1>1, <1>4, <1>9 DEF SnapshotInv, SnapshotAddsUp

LEMMA SnapshotUnits ==
  ASSUME SnapshotInv, SnapshotBegin \/ SnapshotEnd \/ CollectSlow
  PROVE  SnapshotInv'
<1>1. snap \in Snaps /\ total \in Nat /\ UNCHANGED <<tracked, total>>
  BY DEF SnapshotInv, SnapshotBegin, SnapshotEnd, CollectSlow
<1>2. CASE SnapshotBegin
  <2>1. Joined \in SUBSET Conns
    BY DEF Joined
  <2>2. /\ snap' \in Snaps /\ snap'.left = Joined /\ snap'.sum = 0 /\ snap'.last = snap.last
        /\ snap'.step = "range"
    BY <1>1, <1>2, <2>1 DEF SnapshotBegin, Snaps
  <2>3. /\ Cardinality(Units(tracked, Joined)) \in Nat /\ Cardinality(Units(tracked, Conns)) \in Nat
        /\ Cardinality(Units(tracked, Joined)) <= Cardinality(Units(tracked, Conns))
    BY <2>1, UnitsOfSome DEF SnapshotInv
  <2>4. snap'.sum + Cardinality(Units(tracked, snap'.left)) <= total
    BY <1>1, <2>2, <2>3 DEF SnapshotInv
  <2> QED
    BY <1>1, <2>2, <2>4 DEF SnapshotInv, SnapshotAddsUp
<1>3. CASE SnapshotEnd
  <2> DEFINE shown == [byRoute |-> snap.sum, total |-> total]
  <2>1. snap.left = {} /\ snap.step = "range" /\ snap' = [snap EXCEPT !.step = "count", !.last = shown]
    BY <1>3 DEF SnapshotEnd
  <2>2. shown \in Snapshots /\ shown.byRoute = snap.sum /\ shown.total = total
    BY <1>1 DEF Snapshots, Snaps
  <2> HIDE DEF shown
  <2>3. snap' \in Snaps /\ snap'.last = shown /\ snap'.step = "count"
    BY <1>1, <2>1, <2>2 DEF Snaps
  <2>4. Units(tracked, {}) = {}
    BY DEF Units
  <2>5. snap.sum <= total
    BY <1>1, <2>1, <2>4, FS_EmptySet DEF SnapshotInv, Snaps
  <2> QED
    BY <1>1, <2>2, <2>3, <2>5 DEF SnapshotInv, SnapshotAddsUp
<1>4. CASE CollectSlow
  <2>1. snap' \in Snaps /\ snap'.last = snap.last /\ snap'.step = "idle"
    BY <1>1, <1>4 DEF CollectSlow, Snaps
  <2> QED
    BY <1>1, <2>1 DEF SnapshotInv, SnapshotAddsUp
<1> QED
  BY <1>2, <1>3, <1>4

-----------------------------------------------------------------------------
(* The rings of the charts.                                                 *)

\* Positions of a ring wrap around at most once.
SlotAt(t, i) == IF t + i < RingCapacity THEN t + i ELSE (t + i) - RingCapacity
Held(k) == IF k < RingCapacity THEN k ELSE RingCapacity

\* The ring holds the last values of h, the oldest of them at tail.
Holds(rb, h) ==
  /\ h \in Seq(Nat) /\ DOMAIN rb.data = 0 .. RingCapacity - 1
  /\ rb.tail \in Nat /\ rb.tail < RingCapacity /\ rb.count = Held(Len(h))
  /\ rb.head = SlotAt(rb.tail, Held(Len(h)))
  /\ \A i \in Nat : i < Held(Len(h)) =>
       rb.data[SlotAt(rb.tail, i)] = h[Len(h) - Held(Len(h)) + (i + 1)]

LEMMA Capacity == RingCapacity \in Nat \ {0}
BY StatisticsAssumption

LEMMA SlotOf ==
  ASSUME NEW t \in Nat, NEW i \in Nat, t + i < 2 * RingCapacity
  PROVE  (t + i) % RingCapacity = SlotAt(t, i)
<1>1. \A y \in Nat : y < RingCapacity => y % RingCapacity = y
  BY Capacity
<1>2. \A y \in Nat : RingCapacity <= y /\ y < 2 * RingCapacity => y % RingCapacity = y - RingCapacity
  BY Capacity
<1> QED
  BY Capacity, <1>1, <1>2 DEF SlotAt

LEMMA ModBefore ==
  ASSUME NEW p \in Nat, p < RingCapacity
  PROVE  (p - 1 + RingCapacity) % RingCapacity = SlotAt(p - 1, RingCapacity)
<1>1. \A y \in Nat : y < RingCapacity => y % RingCapacity = y
  BY Capacity
<1>2. \A y \in Nat : RingCapacity <= y /\ y < 2 * RingCapacity => y % RingCapacity = y - RingCapacity
  BY Capacity
<1>3. /\ p - 1 + RingCapacity \in Nat /\ p - 1 + RingCapacity < 2 * RingCapacity
  BY Capacity
<1> QED
  BY Capacity, <1>1, <1>2, <1>3 DEF SlotAt

\* How positions move when head and tail do.
LEMMA SlotIn ==
  ASSUME NEW t \in Nat, t < RingCapacity, NEW i \in Nat, i <= RingCapacity
  PROVE  SlotAt(t, i) \in Nat /\ SlotAt(t, i) < RingCapacity
BY Capacity DEF SlotAt

LEMMA SlotAround ==
  ASSUME NEW t \in Nat, t < RingCapacity
  PROVE  SlotAt(t, RingCapacity) = t
BY Capacity DEF SlotAt

LEMMA SlotNext ==
  ASSUME NEW t \in Nat, t < RingCapacity, NEW i \in Nat, i < RingCapacity
  PROVE  /\ SlotAt(SlotAt(t, i), 1) = SlotAt(t, i + 1)
         /\ SlotAt(SlotAt(t, 1), i) = SlotAt(t, i + 1)
BY Capacity DEF SlotAt

LEMMA SlotBefore ==
  ASSUME NEW t \in Nat, t < RingCapacity, NEW i \in Nat, i > 0, i <= RingCapacity
  PROVE  SlotAt(SlotAt(t, i) - 1, RingCapacity) = SlotAt(t, i - 1)
BY Capacity DEF SlotAt

LEMMA SlotsDiffer ==
  ASSUME NEW t \in Nat, t < RingCapacity, NEW i \in Nat, i <= RingCapacity,
         NEW j \in Nat, j < i, i - j < RingCapacity
  PROVE  SlotAt(t, j) # SlotAt(t, i)
BY Capacity DEF SlotAt

LEMMA HeldIs ==
  ASSUME NEW k \in Nat
  PROVE  /\ Held(k) \in Nat /\ Held(k) <= RingCapacity /\ Held(k) <= k
         /\ Held(k) < RingCapacity => Held(k) = k /\ Held(k + 1) = k + 1
         /\ Held(k) = RingCapacity => Held(k + 1) = RingCapacity
         /\ k > 0 => Held(k) > 0
BY Capacity DEF Held

LEMMA ThenHolds ==
  ASSUME NEW rb, NEW h, h \in Seq(Nat), DOMAIN rb.data = 0 .. RingCapacity - 1,
         rb.tail \in Nat, rb.tail < RingCapacity, rb.count = Held(Len(h)),
         rb.head = SlotAt(rb.tail, Held(Len(h))),
         \A i \in Nat : i < Held(Len(h)) =>
           rb.data[SlotAt(rb.tail, i)] = h[Len(h) - Held(Len(h)) + (i + 1)]
  PROVE  Holds(rb, h)
BY DEF Holds

LEMMA EmptyHolds == Holds(EmptyRing, <<>>)
<1>1. Len(<<>>) = 0 /\ <<>> \in Seq(Nat) /\ RingCapacity \in Nat \ {0} /\ Held(0) = 0
  BY Capacity, HeldIs
<1>2. /\ DOMAIN EmptyRing.data = 0 .. RingCapacity - 1
      /\ EmptyRing.tail = 0 /\ EmptyRing.count = 0 /\ EmptyRing.head = 0
  BY DEF EmptyRing
<1>3. SlotAt(0, 0) = 0
  BY <1>1 DEF SlotAt
<1>4. \A i \in Nat : ~(i < Held(0))
  BY <1>1
<1> QED
  BY <1>1, <1>2, <1>3, <1>4 DEF Holds

LEMMA PushHolds ==
  ASSUME NEW rb, NEW h, Holds(rb, h), NEW x \in Nat
  PROVE  Holds(Push(rb, x), Append(h, x))
<1> DEFINE L == Len(h)
           n == Held(L)
           g == Append(h, x)
           r == Push(rb, x)
<1>1. h \in Seq(Nat) /\ L \in Nat
  BY DEF Holds
<1>2. n \in Nat /\ n <= RingCapacity /\ n <= L /\ RingCapacity \in Nat \ {0}
  BY <1>1, HeldIs, Capacity
<1>3. /\ DOMAIN rb.data = 0 .. RingCapacity - 1 /\ rb.tail \in Nat /\ rb.tail < RingCapacity
      /\ rb.count = n /\ rb.head = SlotAt(rb.tail, n)
      /\ \A i \in Nat : i < n => rb.data[SlotAt(rb.tail, i)] = h[L - n + (i + 1)]
  BY DEF Holds
<1>4. rb.head \in Nat /\ rb.head < RingCapacity
  BY <1>2, <1>3, SlotIn
<1>5. g \in Seq(Nat) /\ Len(g) = L + 1 /\ g[L + 1] = x /\ \A i \in 1 .. L : g[i] = h[i]
  BY <1>1
<1>6. /\ r.data = [rb.data EXCEPT ![rb.head] = x] /\ r.head = (rb.head + 1) % RingCapacity
      /\ n < RingCapacity => r.tail = rb.tail /\ r.count = n + 1
      /\ ~(n < RingCapacity) => r.tail = (rb.tail + 1) % RingCapacity /\ r.count = n
  BY <1>3 DEF Push
<1>7. /\ DOMAIN r.data = 0 .. RingCapacity - 1 /\ r.data[rb.head] = x
      /\ \A p \in Nat : p < RingCapacity /\ p # rb.head => r.data[p] = rb.data[p]
  BY <1>2, <1>3, <1>4, <1>6
<1>8. \A p \in Nat : p < RingCapacity => (p + 1) % RingCapacity = SlotAt(p, 1)
  BY <1>2, SlotOf
<1>9. r.head = SlotAt(rb.head, 1)
  BY <1>4, <1>6, <1>8
<1> HIDE DEF g, r, n, L
<1>10. ASSUME NEW i \in Nat, i < n, i > 0 \/ n < RingCapacity
       PROVE  SlotAt(rb.tail, i) \in Nat /\ SlotAt(rb.tail, i) < RingCapacity /\ SlotAt(rb.tail, i) # rb.head
  <2>1. i <= RingCapacity /\ n - i < RingCapacity
    BY <1>2, <1>10
  <2>2. SlotAt(rb.tail, i) \in Nat /\ SlotAt(rb.tail, i) < RingCapacity
    BY <1>3, <2>1, SlotIn
  <2>3. SlotAt(rb.tail, i) # SlotAt(rb.tail, n)
    BY <1>2, <1>3, <1>10, <2>1, SlotsDiffer
  <2> QED
    BY <1>3, <2>2, <2>3
<1>11. CASE n < RingCapacity
  <2>1. n = L /\ Held(L + 1) = L + 1
    BY <1>1, <1>11, HeldIs DEF n
  <2>2. r.tail = rb.tail /\ r.count = L + 1 /\ rb.head = SlotAt(rb.tail, L)
    BY <1>3, <1>6, <1>11, <2>1
  <2>3. r.head = SlotAt(r.tail, L + 1)
    BY <1>1, <1>3, <1>9, <1>11, <2>1, <2>2, SlotNext
  <2>4. ASSUME NEW i \in Nat, i < L + 1
        PROVE  r.data[SlotAt(r.tail, i)] = g[(L + 1) - (L + 1) + (i + 1)]
    <3>1. (L + 1) - (L + 1) + (i + 1) = i + 1
      BY <1>1
    <3>2. CASE i = L
      BY <1>5, <1>7, <2>2, <3>1, <3>2
    <3>3. CASE i < L
      <4>1. L - n + (i + 1) = i + 1 /\ i + 1 \in 1 .. L
        BY <1>1, <2>1, <3>3
      <4>2. rb.data[SlotAt(rb.tail, i)] = h[i + 1]
        BY <1>3, <2>1, <3>3, <4>1
      <4>3. r.data[SlotAt(rb.tail, i)] = rb.data[SlotAt(rb.tail, i)]
        <5>1. i < n
          BY <2>1, <3>3
        <5>2. SlotAt(rb.tail, i) \in Nat /\ SlotAt(rb.tail, i) < RingCapacity /\ SlotAt(rb.tail, i) # rb.head
          BY <1>10, <1>11, <5>1
        <5> QED
          BY <1>7, <5>2
      <4> QED
        BY <1>5, <2>2, <3>1, <4>1, <4>2, <4>3
    <3> QED
      BY <1>1, <2>4, <3>2, <3>3
  <2>6. Holds(r, g)
    <3>1. /\ g \in Seq(Nat) /\ DOMAIN r.data = 0 .. RingCapacity - 1 /\ Len(g) = L + 1
          /\ r.tail \in Nat /\ r.tail < RingCapacity /\ r.count = Held(Len(g))
      BY <1>3, <1>5, <1>7, <2>1, <2>2
    <3>2. r.head = SlotAt(r.tail, Held(Len(g)))
      BY <2>1, <2>3, <3>1
    <3>3. \A i \in Nat : i < Held(Len(g)) => r.data[SlotAt(r.tail, i)] = g[Len(g) - Held(Len(g)) + (i + 1)]
      BY <2>1, <2>4, <3>1
    <3> QED
      BY <3>1, <3>2, <3>3, ThenHolds
  <2> QED
    BY <2>6 DEF g, r
<1>12. CASE n = RingCapacity
  <2>1. Held(L + 1) = RingCapacity
    BY <1>1, <1>12, HeldIs DEF n
  <2>2. rb.head = rb.tail
    BY <1>2, <1>3, <1>12, SlotAround
  <2>3. r.tail = SlotAt(rb.tail, 1) /\ r.count = RingCapacity /\ r.tail \in Nat /\ r.tail < RingCapacity
    <3>1. ~(n < RingCapacity) /\ 1 <= RingCapacity
      BY <1>2, <1>12
    <3> QED
      BY <1>3, <1>6, <1>8, <1>12, <3>1, SlotIn
  <2>4. r.head = SlotAt(r.tail, RingCapacity)
    <3>1. r.head = r.tail
      BY <1>9, <2>2, <2>3
    <3> QED
      BY <1>2, <2>3, <3>1, SlotAround
  <2>5. ASSUME NEW i \in Nat, i < RingCapacity
        PROVE  r.data[SlotAt(r.tail, i)] = g[(L + 1) - RingCapacity + (i + 1)]
    <3>1. SlotAt(r.tail, i) = SlotAt(rb.tail, i + 1)
      BY <1>3, <2>3, <2>5, SlotNext
    <3>2. CASE i + 1 = RingCapacity
      <4>1. SlotAt(r.tail, i) = rb.head
        BY <1>2, <1>3, <2>2, <3>1, <3>2, SlotAround
      <4>2. (L + 1) - RingCapacity + (i + 1) = L + 1
        BY <1>1, <1>2, <3>2
      <4> QED
        BY <1>5, <1>7, <4>1, <4>2
    <3>3. CASE i + 1 < RingCapacity
      <4>1. /\ i + 1 \in Nat /\ i + 1 > 0 /\ i + 1 < n
            /\ L - n + ((i + 1) + 1) = (L + 1) - RingCapacity + (i + 1)
            /\ (L + 1) - RingCapacity + (i + 1) \in 1 .. L
        BY <1>1, <1>2, <1>12, <3>3
      <4>2. rb.data[SlotAt(rb.tail, i + 1)] = h[(L + 1) - RingCapacity + (i + 1)]
        BY <1>3, <4>1
      <4>3. r.data[SlotAt(rb.tail, i + 1)] = rb.data[SlotAt(rb.tail, i + 1)]
        <5>1. /\ SlotAt(rb.tail, i + 1) \in Nat /\ SlotAt(rb.tail, i + 1) < RingCapacity
              /\ SlotAt(rb.tail, i + 1) # rb.head
          BY <1>10, <4>1
        <5> QED
          BY <1>7, <5>1
      <4> QED
        BY <1>5, <3>1, <4>1, <4>2, <4>3
    <3> QED
      BY <1>2, <2>5, <3>2, <3>3
  <2>6. Holds(r, g)
    <3>1. /\ g \in Seq(Nat) /\ DOMAIN r.data = 0 .. RingCapacity - 1 /\ Len(g) = L + 1
          /\ r.tail \in Nat /\ r.tail < RingCapacity /\ r.count = Held(Len(g))
      BY <1>5, <1>7, <2>1, <2>3
    <3>2. r.head = SlotAt(r.tail, Held(Len(g)))
      BY <2>1, <2>4, <3>1
    <3>3. \A i \in Nat : i < Held(Len(g)) => r.data[SlotAt(r.tail, i)] = g[Len(g) - Held(Len(g)) + (i + 1)]
      BY <2>1, <2>5, <3>1
    <3> QED
      BY <3>1, <3>2, <3>3, ThenHolds
  <2> QED
    BY <2>6 DEF g, r
<1> QED
  BY <1>2, <1>11, <1>12 DEF g, r

LEMMA HoldsShows ==
  ASSUME NEW rb, NEW h, Holds(rb, h)
  PROVE  GetAll(rb) = LastOf(h) /\ (h # <<>> => GetLatest(rb) = Last(h))
<1> DEFINE L == Len(h)
           n == Held(L)
<1>1. h \in Seq(Nat) /\ L \in Nat /\ (h # <<>> => L > 0)
  BY DEF Holds
<1>2. n \in Nat /\ n <= RingCapacity /\ n <= L /\ RingCapacity \in Nat \ {0} /\ (L > 0 => n > 0)
  BY <1>1, HeldIs, Capacity
<1>3. /\ rb.tail \in Nat /\ rb.tail < RingCapacity
      /\ rb.count = n /\ rb.head = SlotAt(rb.tail, n)
      /\ \A i \in Nat : i < n => rb.data[SlotAt(rb.tail, i)] = h[L - n + (i + 1)]
  BY DEF Holds
<1>4. LastOf(h) = SubSeq(h, L - n + 1, L)
  BY DEF LastOf, Held
<1> HIDE DEF n, L
<1>5. GetAll(rb) = [i \in 1 .. n |-> h[L - n + i]]
  <2>1. ASSUME NEW i \in 1 .. n
        PROVE  rb.data[(rb.tail + i - 1) % RingCapacity] = h[L - n + i]
    <3>1. i - 1 \in Nat /\ i - 1 < n /\ rb.tail + (i - 1) < 2 * RingCapacity
          /\ rb.tail + i - 1 = rb.tail + (i - 1) /\ (i - 1) + 1 = i
      BY <1>2, <1>3
    <3>2. (rb.tail + (i - 1)) % RingCapacity = SlotAt(rb.tail, i - 1)
      BY <1>3, <3>1, SlotOf
    <3>3. rb.data[SlotAt(rb.tail, i - 1)] = h[L - n + ((i - 1) + 1)]
      BY <1>3, <3>1
    <3> QED
      BY <3>1, <3>2, <3>3
  <2> QED
    BY <1>3, <2>1 DEF GetAll
<1>6. /\ LastOf(h) \in Seq(Nat) /\ Len(LastOf(h)) = n
      /\ \A i \in 1 .. n : LastOf(h)[i] = h[L - n + i]
  <2> DEFINE m == L - n + 1
  <2>1. /\ m \in Int /\ \A i \in m .. L : h[i] \in Nat
        /\ L - m + 1 = n /\ (n > 0 => m <= L) /\ (n = 0 => ~(m <= L))
        /\ \A i \in 1 .. n : m + i - 1 = L - n + i
    <3>1. \A i \in m .. L : i \in 1 .. L
      BY <1>1, <1>2
    <3>2. \A i \in 1 .. L : h[i] \in Nat
      BY <1>1 DEF L
    <3> QED
      BY <1>1, <1>2, <3>1, <3>2
  <2> HIDE DEF m
  <2>2. /\ SubSeq(h, m, L) \in Seq(Nat)
        /\ Len(SubSeq(h, m, L)) = IF m <= L THEN L - m + 1 ELSE 0
        /\ \A i \in 1 .. L - m + 1 : SubSeq(h, m, L)[i] = h[m + i - 1]
    BY <1>1, <2>1, SubSeqProperties
  <2>3. LastOf(h) = SubSeq(h, m, L)
    BY <1>4 DEF m
  <2>4. Len(SubSeq(h, m, L)) = n
    BY <1>2, <2>1, <2>2
  <2>5. \A i \in 1 .. n : SubSeq(h, m, L)[i] = h[L - n + i]
    BY <2>1, <2>2
  <2> QED
    BY <2>2, <2>3, <2>4, <2>5
<1>7. GetAll(rb) = LastOf(h)
  <2>1. \A i \in 1 .. n : h[L - n + i] \in Nat
    <3>1. \A i \in 1 .. n : L - n + i \in 1 .. L
      BY <1>1, <1>2
    <3> QED
      BY <1>1, <3>1 DEF L
  <2>2. GetAll(rb) \in [1 .. n -> Nat]
    BY <1>5, <2>1
  <2>3. GetAll(rb) \in Seq(Nat) /\ Len(GetAll(rb)) = n
    BY <1>2, <2>2
  <2>4. \A i \in 1 .. n : GetAll(rb)[i] = LastOf(h)[i]
    BY <1>5, <1>6
  <2> QED
    BY <1>6, <2>3, <2>4, SeqEqual
<1>8. ASSUME h # <<>>
      PROVE  GetLatest(rb) = Last(h)
  <2>1. n > 0 /\ n - 1 \in Nat /\ n - 1 < n /\ L - n + ((n - 1) + 1) = L
    BY <1>1, <1>2, <1>8
  <2>2. rb.head \in Nat /\ rb.head < RingCapacity
    BY <1>2, <1>3, SlotIn
  <2>3. SlotAt(rb.head - 1, RingCapacity) = SlotAt(rb.tail, n - 1)
    BY <1>2, <1>3, <2>1, SlotBefore
  <2>4. (rb.head - 1 + RingCapacity) % RingCapacity = SlotAt(rb.head - 1, RingCapacity)
    BY <1>2, <2>2, ModBefore
  <2>5. rb.data[SlotAt(rb.tail, n - 1)] = h[L]
    BY <1>3, <2>1
  <2> QED
    BY <1>2, <1>3, <2>1, <2>3, <2>4, <2>5 DEF GetLatest, Last, L
<1> QED
  BY <1>7, <1>8

-----------------------------------------------------------------------------
(* The sum of what was flushed to the chart.                                *)

LEMMA InductionOnSets ==
  ASSUME NEW T, 0 \in T, \A n \in Nat : n \in T => n + 1 \in T
  PROVE  Nat \subseteq T
<1> DEFINE Rest == Nat \ T
<1>1. ASSUME Rest # {}
      PROVE  FALSE
  <2>1. PICK m \in Rest : \A k \in Rest : m <= k
    <3>1. Rest \in SUBSET Nat
      OBVIOUS
    <3> HIDE DEF Rest
    <3> QED
      BY <1>1, <3>1, LeastNumber
  <2>2. m - 1 \in Nat /\ m - 1 \in T
    BY <2>1
  <2> QED
    BY <2>1, <2>2
<1> QED
  BY <1>1

\* The sum of a sequence is what a function on the sets of positions shows for all of
\* them, one position after the other from the highest on.
SumOf(s) == FoldLeft(LAMBDA a, b : a + b, 0, s)
Iter(it, s, D) == it = [S \in SUBSET D |-> IF S = {} THEN 0 ELSE it[S \ {Max(S)}] + s[Max(S)]]

LEMMA SumIsIter == ASSUME NEW s PROVE SumOf(s) = (CHOOSE it : Iter(it, s, DOMAIN s))[DOMAIN s]
BY DEF SumOf, FoldLeft, MapThenFoldSet, Iter

LEMMA IterAt ==
  ASSUME NEW it, NEW s, NEW D
  PROVE  Iter(it, s, D) <=> /\ it = [S \in SUBSET D |-> it[S]]
                            /\ \A S \in SUBSET D : it[S] = IF S = {} THEN 0 ELSE it[S \ {Max(S)}] + s[Max(S)]
BY DEF Iter

LEMMA MaxOfPrefix ==
  ASSUME NEW k \in Nat, NEW S \in SUBSET (1 .. k + 1), k + 1 \in S
  PROVE  Max(S) = k + 1
<1>1. k + 1 \in S /\ \A y \in S : k + 1 >= y
  OBVIOUS
<1>2. \A x \in S : (\A y \in S : x >= y) => x = k + 1
  <2> SUFFICES ASSUME NEW x \in S, \A y \in S : x >= y PROVE x = k + 1
    OBVIOUS
  <2>1. x >= k + 1 /\ x \in 1 .. k + 1
    OBVIOUS
  <2> QED
    BY <2>1
<1> QED
  BY <1>1, <1>2 DEF Max

LEMMA IterExists == ASSUME NEW s, NEW n \in Nat PROVE \E it : Iter(it, s, 1 .. n)
<1> DEFINE T == {k \in Nat : \E it : Iter(it, s, 1 .. k)}
<1>1. 0 \in T
  <2> DEFINE it == [S \in SUBSET (1 .. 0) |-> 0]
  <2>1. 1 .. 0 = {}
    OBVIOUS
  <2>2. \A S \in SUBSET (1 .. 0) : S = {}
    BY <2>1
  <2>3. it = [S \in SUBSET (1 .. 0) |-> it[S]]
    OBVIOUS
  <2>4. \A S \in SUBSET (1 .. 0) : it[S] = IF S = {} THEN 0 ELSE it[S \ {Max(S)}] + s[Max(S)]
    BY <2>2
  <2> HIDE DEF it
  <2>5. Iter(it, s, 1 .. 0)
    BY <2>3, <2>4, IterAt
  <2> QED
    BY <2>5
<1>2. ASSUME NEW k \in Nat, k \in T
      PROVE  k + 1 \in T
  <2>1. PICK it : Iter(it, s, 1 .. k)
    BY <1>2
  <2>2. \A S \in SUBSET (1 .. k) : it[S] = IF S = {} THEN 0 ELSE it[S \ {Max(S)}] + s[Max(S)]
    BY <2>1, IterAt
  <2> DEFINE jt == [S \in SUBSET (1 .. k + 1) |->
                      IF k + 1 \in S THEN it[S \ {k + 1}] + s[k + 1] ELSE it[S]]
  <2>3. \A S \in SUBSET (1 .. k) : jt[S] = it[S]
    <3>1. \A S \in SUBSET (1 .. k) : S \in SUBSET (1 .. k + 1) /\ ~(k + 1 \in S)
      OBVIOUS
    <3> QED
      BY <3>1
  <2>4. \A S \in SUBSET (1 .. k + 1) : k + 1 \in S => jt[S] = it[S \ {k + 1}] + s[k + 1]
    OBVIOUS
  <2>5. jt = [S \in SUBSET (1 .. k + 1) |-> jt[S]]
    OBVIOUS
  <2> HIDE DEF jt
  <2>6. ASSUME NEW S \in SUBSET (1 .. k + 1)
        PROVE  jt[S] = IF S = {} THEN 0 ELSE jt[S \ {Max(S)}] + s[Max(S)]
    <3>1. CASE k + 1 \in S
      <4>1. Max(S) = k + 1
        BY <3>1, MaxOfPrefix
      <4>2. S \ {k + 1} \in SUBSET (1 .. k) /\ S # {}
        BY <3>1
      <4>3. jt[S \ {k + 1}] = it[S \ {k + 1}]
        BY <2>3, <4>2
      <4> QED
        BY <2>4, <3>1, <4>1, <4>2, <4>3
    <3>2. CASE ~(k + 1 \in S)
      <4>1. S \in SUBSET (1 .. k)
        BY <3>2
      <4>2. S \ {Max(S)} \in SUBSET (1 .. k)
        BY <4>1
      <4>3. jt[S] = it[S] /\ jt[S \ {Max(S)}] = it[S \ {Max(S)}]
        BY <2>3, <4>1, <4>2
      <4> QED
        BY <2>2, <4>1, <4>3
    <3> QED
      BY <3>1, <3>2
  <2>7. Iter(jt, s, 1 .. k + 1)
    BY <2>5, <2>6, IterAt
  <2> QED
    BY <2>7
<1> HIDE DEF T
<1>3. n \in T
  BY <1>1, <1>2, InductionOnSets
<1> QED
  BY <1>3 DEF T

\* What it shows for the first positions does not depend on the rest.
LEMMA IterPrefix ==
  ASSUME NEW s, NEW n \in Nat, NEW it, Iter(it, s, 1 .. n)
  PROVE  /\ it[1 .. 0] = 0
         /\ \A k \in Nat : k + 1 <= n => it[1 .. k + 1] = it[1 .. k] + s[k + 1]
<1>1. \A S \in SUBSET (1 .. n) : it[S] = IF S = {} THEN 0 ELSE it[S \ {Max(S)}] + s[Max(S)]
  BY IterAt
<1>2. 1 .. 0 = {} /\ 1 .. 0 \in SUBSET (1 .. n)
  OBVIOUS
<1>3. ASSUME NEW k \in Nat, k + 1 <= n
      PROVE  it[1 .. k + 1] = it[1 .. k] + s[k + 1]
  <2>1. 1 .. k + 1 \in SUBSET (1 .. n) /\ k + 1 \in 1 .. k + 1 /\ (1 .. k + 1) \ {k + 1} = 1 .. k
    BY <1>3
  <2>2. Max(1 .. k + 1) = k + 1
    BY <2>1, MaxOfPrefix
  <2>3. 1 .. k + 1 # {}
    BY <2>1
  <2> QED
    BY <1>1, <2>1, <2>2, <2>3
<1> QED
  BY <1>1, <1>2, <1>3

LEMMA SumEmpty == SumOf(<<>>) = 0
<1>1. PICK it : Iter(it, <<>>, 1 .. 0)
  BY IterExists
<1>2. DOMAIN <<>> = 1 .. 0
  OBVIOUS
<1> DEFINE jt == CHOOSE jt : Iter(jt, <<>>, 1 .. 0)
<1>3. Iter(jt, <<>>, 1 .. 0)
  BY <1>1
<1> HIDE DEF jt
<1>4. jt[1 .. 0] = 0
  BY <1>3, IterPrefix
<1>5. SumOf(<<>>) = jt[1 .. 0]
  BY <1>2, SumIsIter DEF jt
<1> QED
  BY <1>4, <1>5

LEMMA SumAppend ==
  ASSUME NEW s \in Seq(Nat), NEW x \in Nat
  PROVE  SumOf(s) \in Nat /\ SumOf(Append(s, x)) = SumOf(s) + x
<1> DEFINE n == Len(s)
           t == Append(s, x)
<1>1. n \in Nat /\ DOMAIN s = 1 .. n /\ \A k \in 1 .. n : s[k] \in Nat
  OBVIOUS
<1>2. DOMAIN t = 1 .. n + 1 /\ t[n + 1] = x /\ \A k \in 1 .. n : t[k] = s[k]
  OBVIOUS
<1> HIDE DEF n, t
<1> DEFINE it == CHOOSE it : Iter(it, s, 1 .. n)
           jt == CHOOSE jt : Iter(jt, t, 1 .. n + 1)
<1>3. Iter(it, s, 1 .. n)
  <2>1. PICK f : Iter(f, s, 1 .. n)
    BY <1>1, IterExists
  <2> QED
    BY <2>1
<1>4. Iter(jt, t, 1 .. n + 1)
  <2>1. n + 1 \in Nat
    BY <1>1
  <2>2. PICK f : Iter(f, t, 1 .. n + 1)
    BY <2>1, IterExists
  <2> QED
    BY <2>2
<1>5. SumOf(s) = it[1 .. n] /\ SumOf(t) = jt[1 .. n + 1]
  BY <1>1, <1>2, SumIsIter
<1> HIDE DEF it, jt
<1>6. it[1 .. 0] = 0 /\ \A k \in Nat : k + 1 <= n => it[1 .. k + 1] = it[1 .. k] + s[k + 1]
  BY <1>1, <1>3, IterPrefix
<1>7. jt[1 .. 0] = 0 /\ \A k \in Nat : k + 1 <= n + 1 => jt[1 .. k + 1] = jt[1 .. k] + t[k + 1]
  <2>1. n + 1 \in Nat
    BY <1>1
  <2> QED
    BY <1>4, <2>1, IterPrefix
<1> DEFINE T == {k \in Nat : k <= n => it[1 .. k] \in Nat /\ jt[1 .. k] = it[1 .. k]}
<1>8. 0 \in T
  BY <1>6, <1>7
<1>9. ASSUME NEW k \in Nat, k \in T
      PROVE  k + 1 \in T
  <2> SUFFICES ASSUME k + 1 <= n
               PROVE  it[1 .. k + 1] \in Nat /\ jt[1 .. k + 1] = it[1 .. k + 1]
    OBVIOUS
  <2>1. k <= n /\ k + 1 <= n + 1 /\ k + 1 \in 1 .. n
    BY <1>1
  <2>2. it[1 .. k] \in Nat /\ jt[1 .. k] = it[1 .. k]
    BY <1>9, <2>1
  <2>3. it[1 .. k + 1] = it[1 .. k] + s[k + 1] /\ jt[1 .. k + 1] = jt[1 .. k] + s[k + 1] /\ s[k + 1] \in Nat
    BY <1>1, <1>2, <1>6, <1>7, <2>1
  <2> QED
    BY <2>2, <2>3
<1>10. n \in T
  <2> HIDE DEF T
  <2> QED
    BY <1>1, <1>8, <1>9, InductionOnSets
<1>11. it[1 .. n] \in Nat /\ jt[1 .. n] = it[1 .. n]
  BY <1>1, <1>10
<1> HIDE DEF T
<1>12. jt[1 .. n + 1] = jt[1 .. n] + x
  <2>1. n \in Nat /\ n + 1 <= n + 1
    BY <1>1
  <2>2. jt[1 .. n + 1] = jt[1 .. n] + t[n + 1]
    BY <1>7, <2>1
  <2> QED
    BY <1>2, <2>2
<1>13. SumOf(s) \in Nat /\ SumOf(t) = SumOf(s) + x
  BY <1>5, <1>11, <1>12
<1> QED
  BY <1>13 DEF t

-----------------------------------------------------------------------------

SamplesInv ==
  /\ DOMAIN rings = Scales /\ DOMAIN samples = Scales
  /\ \A s \in Scales : Holds(rings[s], samples[s])

\* Every request since the last clear is in the interval under way or was flushed.
RequestsInv ==
  /\ Holds(chart, flushed)
  /\ interval \in Nat /\ requests \in Nat /\ domainTotal \in Nat
  /\ SumOf(flushed) + interval = requests /\ domainTotal <= requests

LEMMA FiguresFollow ==
  ASSUME SnapshotInv, SamplesInv, RequestsInv PROVE FiguresAddUp
<1>1. \A s \in Scales : GetAll(rings[s]) = LastOf(samples[s])
                        /\ (samples[s] # <<>> => GetLatest(rings[s]) = Last(samples[s]))
  BY HoldsShows DEF SamplesInv
<1>2. GetAll(chart) = LastOf(flushed)
  BY HoldsShows DEF RequestsInv
<1> QED
  BY <1>1, <1>2 DEF FiguresAddUp, ChartsAddUp, SnapshotInv, RequestsInv, SumOf

LEMMA FiguresStart ==
  ASSUME StatisticsInit PROVE SnapshotInv /\ SamplesInv /\ RequestsInv
<1>1. SnapshotInv
  <2>1. NewConn \in Trackers /\ Sent(NewConn) = 0
    BY DEF NewConn, Trackers, Sent
  <2>2. tracked = [c \in Conns |-> NewConn] /\ total = 0
        /\ snap = [step |-> "idle", left |-> {}, sum |-> 0, last |-> NoSnapshot]
    BY DEF StatisticsInit, TrafficInit
  <2>3. Units(tracked, Conns) = {}
    BY <2>1, <2>2 DEF Units
  <2>4. snap \in Snaps /\ snap.step = "idle" /\ SnapshotAddsUp
    BY <2>2 DEF Snaps, Snapshots, NoSnapshot, SnapshotAddsUp
  <2> QED
    BY <2>1, <2>2, <2>3, <2>4, FS_EmptySet DEF SnapshotInv
<1>2. SamplesInv
  BY EmptyHolds DEF StatisticsInit, TrafficInit, SamplesInv
<1>3. RequestsInv
  BY EmptyHolds, SumEmpty DEF StatisticsInit, HttpStatsInit, RequestsInv
<1> QED
  BY <1>1, <1>2, <1>3

LEMMA SnapshotStep ==
  ASSUME SnapshotInv, TrafficNext PROVE SnapshotInv'
<1>1. CASE UNCHANGED <<tracked, total, snap>>
  BY <1>1 DEF SnapshotInv, SnapshotAddsUp
<1>2. CASE Handle \/ StartCollector \/ StopCollector \/ ClearStatsCache
  BY <1>1, <1>2 DEF Handle, StartCollector, StopCollector, ClearStatsCache
<1>3. CASE SnapshotBegin \/ SnapshotEnd \/ CollectSlow
  BY <1>3, SnapshotUnits
<1>4. ASSUME NEW c \in Conns,
             (\E route \in Routes : NewTracker(c, route)) \/ Transfer(c) \/ CloseTracker(c) \/ SnapshotVisit(c)
      PROVE  SnapshotInv'
  BY <1>4, TrackerUnits, TransferUnits, VisitUnits
<1> QED
  BY <1>2, <1>3, <1>4 DEF TrafficNext

LEMMA SamplesStep ==
  ASSUME SnapshotInv, SamplesInv, TrafficNext PROVE SamplesInv'
<1>1. CASE UNCHANGED <<rings, samples>>
  BY <1>1 DEF SamplesInv
<1>2. CASE SnapshotEnd
  <2>1. total \in Nat /\ "1s" \in Scales
    BY DEF SnapshotInv, Scales
  <2>2. /\ rings' = [rings EXCEPT !["1s"] = Push(rings["1s"], total)]
        /\ samples' = [samples EXCEPT !["1s"] = Append(samples["1s"], total)]
    BY <1>2 DEF SnapshotEnd
  <2>3. Holds(Push(rings["1s"], total), Append(samples["1s"], total))
    BY <2>1, PushHolds DEF SamplesInv
  <2> QED
    BY <2>1, <2>2, <2>3 DEF SamplesInv
<1>3. CASE CollectSlow
  <2>1. snap.last.total \in Nat
    BY DEF SnapshotInv, Snaps, Snapshots
  <2>2. PICK due :
          /\ rings' = [s \in Scales |-> IF s \in due THEN Push(rings[s], snap.last.total) ELSE rings[s]]
          /\ samples' = [s \in Scales |->
                IF s \in due THEN Append(samples[s], snap.last.total) ELSE samples[s]]
    BY <1>3 DEF CollectSlow
  <2>3. ASSUME NEW s \in Scales
        PROVE  Holds(rings'[s], samples'[s])
    <3>1. Holds(rings[s], samples[s])
      BY DEF SamplesInv
    <3>2. Holds(Push(rings[s], snap.last.total), Append(samples[s], snap.last.total))
      BY <2>1, <3>1, PushHolds
    <3> QED
      BY <2>2, <3>1, <3>2
  <2> QED
    BY <2>2, <2>3 DEF SamplesInv
<1>4. CASE ClearStatsCache
  BY <1>4, EmptyHolds DEF ClearStatsCache, SamplesInv
<1>5. CASE Handle \/ StartCollector \/ StopCollector \/ SnapshotBegin
  BY <1>1, <1>5 DEF Handle, StartCollector, StopCollector, SnapshotBegin
<1>6. ASSUME NEW c \in Conns,
             (\E route \in Routes : NewTracker(c, route)) \/ Transfer(c) \/ CloseTracker(c) \/ SnapshotVisit(c)
      PROVE  SamplesInv'
  BY <1>1, <1>6 DEF NewTracker, Transfer, CloseTracker, SnapshotVisit
<1> QED
  BY <1>2, <1>3, <1>4, <1>5, <1>6 DEF TrafficNext

LEMMA RequestsStep ==
  ASSUME RequestsInv, HttpStatsNext PROVE RequestsInv'
<1>1. CASE UNCHANGED requestVars
  BY <1>1 DEF RequestsInv, requestVars
<1>2. ASSUME NEW host \in Hosts, RecordRequest(host)
      PROVE  RequestsInv'
  <2>1. /\ chart' = chart /\ flushed' = flushed /\ interval' = interval + 1 /\ requests' = requests + 1
        /\ domainTotal' \in {domainTotal, domainTotal + 1}
    BY <1>2 DEF RecordRequest
  <2>2. SumOf(flushed) \in Nat
    BY SumAppend DEF RequestsInv, Holds
  <2> QED
    BY <2>1, <2>2 DEF RequestsInv
<1>3. CASE FlushInterval
  <2>1. /\ chart' = Push(chart, interval) /\ flushed' = Append(flushed, interval) /\ interval' = 0
        /\ requests' = requests /\ domainTotal' = domainTotal
    BY <1>3 DEF FlushInterval
  <2>2. flushed \in Seq(Nat) /\ interval \in Nat
    BY DEF RequestsInv, Holds
  <2>3. SumOf(flushed) \in Nat /\ SumOf(flushed') = SumOf(flushed) + interval
    BY <2>1, <2>2, SumAppend
  <2>4. Holds(chart', flushed')
    BY <2>1, <2>2, PushHolds DEF RequestsInv
  <2> QED
    BY <2>1, <2>3, <2>4 DEF RequestsInv
<1>4. CASE ClearAll
  BY <1>4, EmptyHolds, SumEmpty DEF ClearAll, RequestsInv
<1>5. CASE Summary \/ ActivityTick \/ \E d \in TrackedDomains : RecordDetection(d)
  BY <1>1, <1>5 DEF Summary, ActivityTick, RecordDetection
<1> QED
  BY <1>2, <1>3, <1>4, <1>5 DEF HttpStatsNext

\* The snapshots, the charts and the totals of the statistics always add up: for any
\* connections, routes, hosts and bounds, whatever goroutines transfer, sample, record
\* and clear.
THEOREM FiguresAlwaysAddUp == StatisticsSpec => []FiguresAddUp
<1> DEFINE Inv == SnapshotInv /\ SamplesInv /\ RequestsInv
<1>1. StatisticsInit => Inv
  BY FiguresStart
<1>2. Inv /\ [StatisticsNext]_statisticsVars => Inv'
  <2> SUFFICES ASSUME Inv, [StatisticsNext]_statisticsVars PROVE Inv'
    OBVIOUS
  <2>1. UNCHANGED trafficVars => SnapshotInv' /\ SamplesInv'
    BY DEF SnapshotInv, SnapshotAddsUp, SamplesInv, trafficVars
  <2>2. UNCHANGED httpStatsVars => RequestsInv'
    BY DEF RequestsInv, httpStatsVars, requestVars
  <2>3. CASE TrafficNext /\ UNCHANGED httpStatsVars
    BY <2>2, <2>3, SnapshotStep, SamplesStep
  <2>4. CASE HttpStatsNext /\ UNCHANGED trafficVars
    BY <2>1, <2>4, RequestsStep
  <2>5. CASE UNCHANGED statisticsVars
    BY <2>1, <2>2, <2>5 DEF statisticsVars
  <2> QED
    BY <2>3, <2>4, <2>5 DEF StatisticsNext
<1>3. Inv => FiguresAddUp
  BY FiguresFollow
<1> HIDE DEF Inv
<1> QED
  BY <1>1, <1>2, <1>3, PTL DEF StatisticsSpec

-----------------------------------------------------------------------------
(* What Read hands on is made of what has arrived.                          *)

LEMMA OneStands ==
  ASSUME NEW u, NEW a \in Nat, NEW b \in Nat, MadeOf(u, a, b)
  PROVE  StandFor(<<u>>, a, b)
<1> DEFINE at == [i \in 0 .. 1 |-> IF i = 0 THEN a ELSE b]
<1>1. Len(<<u>>) = 1 /\ <<u>>[1] = u
  OBVIOUS
<1>2. at \in [0 .. 1 -> Nat] /\ at[0] = a /\ at[1] = b
  OBVIOUS
<1> HIDE DEF at
<1>3. ASSUME NEW i \in 1 .. 1 PROVE MadeOf(<<u>>[i], at[i - 1], at[i])
  <2>1. i = 1 /\ i - 1 = 0
    OBVIOUS
  <2> QED
    BY <1>1, <1>2, <2>1
<1> QED
  BY <1>1, <1>2, <1>3 DEF StandFor

LEMMA NoneStand == ASSUME NEW a \in Nat PROVE StandFor(<<>>, a, a)
<1> DEFINE at == [i \in 0 .. 0 |-> a]
<1>1. Len(<<>>) = 0 /\ at \in [0 .. 0 -> Nat] /\ at[0] = a
  OBVIOUS
<1> HIDE DEF at
<1>2. at \in [0 .. Len(<<>>) -> Nat] /\ at[Len(<<>>)] = a /\ 1 .. Len(<<>>) = {}
  BY <1>1
<1> QED
  BY <1>1, <1>2 DEF StandFor

LEMMA StandAfter ==
  ASSUME NEW T, NEW s \in Seq(T), NEW t \in Seq(T), NEW a, NEW b, NEW c,
         StandFor(s, a, b), StandFor(t, b, c)
  PROVE  StandFor(s \o t, a, c)
<1> DEFINE m == Len(s)
           n == Len(t)
<1>1. m \in Nat /\ n \in Nat /\ Len(s \o t) = m + n
  OBVIOUS
<1>2. \A i \in 1 .. m + n : (s \o t)[i] = IF i <= m THEN s[i] ELSE t[i - m]
  OBVIOUS
<1>3. PICK f \in [0 .. m -> Nat] : f[0] = a /\ f[m] = b /\ \A i \in 1 .. m : MadeOf(s[i], f[i - 1], f[i])
  BY DEF StandFor
<1>4. PICK g \in [0 .. n -> Nat] : g[0] = b /\ g[n] = c /\ \A i \in 1 .. n : MadeOf(t[i], g[i - 1], g[i])
  BY DEF StandFor
<1> HIDE DEF m, n
<1> DEFINE at == [i \in 0 .. m + n |-> IF i <= m THEN f[i] ELSE g[i - m]]
<1>5. at \in [0 .. m + n -> Nat] /\ at[0] = a /\ \A i \in 0 .. m : at[i] = f[i]
  BY <1>1, <1>3, <1>4
<1>6. \A i \in 0 .. n : at[m + i] = g[i]
  <2> SUFFICES ASSUME NEW i \in 0 .. n PROVE at[m + i] = g[i]
    OBVIOUS
  <2>1. CASE i = 0
    BY <1>1, <1>3, <1>4, <2>1
  <2>2. CASE i # 0
    <3>1. m + i \in 0 .. m + n /\ ~(m + i <= m) /\ (m + i) - m = i
      BY <1>1, <2>2
    <3> QED
      BY <3>1
  <2> QED
    BY <2>1, <2>2
<1> HIDE DEF at
<1>7. at[m + n] = c
  BY <1>1, <1>4, <1>6
<1>8. ASSUME NEW i \in 1 .. m + n PROVE MadeOf((s \o t)[i], at[i - 1], at[i])
  <2>1. CASE i <= m
    <3>1. i \in 1 .. m /\ i \in 0 .. m /\ i - 1 \in 0 .. m
      BY <1>1, <2>1
    <3> QED
      BY <1>2, <1>3, <1>5, <2>1, <3>1
  <2>2. CASE ~(i <= m)
    <3> DEFINE j == i - m
    <3>1. j \in 1 .. n /\ j \in 0 .. n /\ j - 1 \in 0 .. n /\ m + j = i /\ m + (j - 1) = i - 1
      BY <1>1, <2>2
    <3>2. at[i] = g[j] /\ at[i - 1] = g[j - 1]
      BY <1>6, <3>1
    <3>3. (s \o t)[i] = t[j]
      BY <1>2, <2>2
    <3> QED
      BY <1>4, <3>1, <3>2, <3>3
  <2> QED
    BY <2>1, <2>2
<1> QED
  BY <1>1, <1>5, <1>7, <1>8 DEF StandFor

\* A part of the wire stands for itself.
LEMMA CopiesStand ==
  ASSUME NEW m \in Nat, NEW n \in Nat, NEW T, NEW t \in Seq(T), Len(t) = n,
         \A i \in 1 .. n : t[i] = wire[m + i]
  PROVE  StandFor(t, m, m + n)
<1> DEFINE at == [i \in 0 .. n |-> m + i]
<1>1. at \in [0 .. n -> Nat] /\ at[0] = m /\ at[n] = m + n
  OBVIOUS
<1>2. \A i \in 0 .. n : at[i] = m + i
  OBVIOUS
<1> HIDE DEF at
<1>3. ASSUME NEW i \in 1 .. n PROVE MadeOf(t[i], at[i - 1], at[i])
  <2>1. at[i - 1] = m + (i - 1) /\ at[i] = m + i
    BY <1>2
  <2>2. at[i] = at[i - 1] + 1 /\ at[i - 1] < at[i]
    BY <2>1
  <2>3. t[i] = wire[at[i]]
    BY <2>1
  <2> QED
    BY <2>2, <2>3 DEF MadeOf, CopiesUnit
<1> QED
  BY <1>1, <1>3 DEF StandFor

-----------------------------------------------------------------------------
(* A body takes no more units than there are.                               *)

ChunkState(t) ==
  /\ t = [mode |-> "chunked", phase |-> t.phase, line |-> t.line, left |-> t.left, crlf |-> t.crlf]
  /\ t.phase \in {"SizeLine", "Data", "DataCRLF", "Trailers"}

LengthState(t) == t = [mode |-> "length", left |-> t.left] /\ t.left \in Nat

Tracking(t) == LengthState(t) \/ ChunkState(t)

ChunkResult(r, k) ==
  /\ r = [t |-> r.t, n |-> r.n, done |-> r.done, err |-> r.err]
  /\ ChunkState(r.t) /\ r.n \in Nat /\ r.n <= k

ChunkAt(phase, line, left, crlf) ==
  [mode |-> "chunked", phase |-> phase, line |-> line, left |-> left, crlf |-> crlf]

ResultOf(t, n, done, err) == [t |-> t, n |-> n, done |-> done, err |-> err]

LEMMA ThenState ==
  ASSUME NEW phase \in {"SizeLine", "Data", "DataCRLF", "Trailers"}, NEW line, NEW left, NEW crlf
  PROVE  ChunkState(ChunkAt(phase, line, left, crlf))
BY DEF ChunkState, ChunkAt

LEMMA ThenResult ==
  ASSUME NEW t, ChunkState(t), NEW k, NEW n \in Nat, n <= k, NEW done, NEW err
  PROVE  ChunkResult(ResultOf(t, n, done, err), k)
BY DEF ChunkResult, ResultOf

LEMMA ChunkStepResult ==
  ASSUME NEW r, NEW u, NEW k \in Nat, ChunkResult(r, k)
  PROVE  ChunkResult(chunkStep(r, u), k + 1)
<1>1. PICK t, n, done, err : r = ResultOf(t, n, done, err) /\ ChunkState(t) /\ n \in Nat /\ n <= k
  <2>1. r = ResultOf(r.t, r.n, r.done, r.err) /\ ChunkState(r.t) /\ r.n \in Nat /\ r.n <= k
    BY DEF ChunkResult, ResultOf
  <2> QED
    BY <2>1
<1>2. PICK phase, was, left, crlf :
          t = ChunkAt(phase, was, left, crlf) /\ phase \in {"SizeLine", "Data", "DataCRLF", "Trailers"}
  <2>1. t = ChunkAt(t.phase, t.line, t.left, t.crlf)
        /\ t.phase \in {"SizeLine", "Data", "DataCRLF", "Trailers"}
    BY <1>1 DEF ChunkState, ChunkAt
  <2> QED
    BY <2>1
<1>3. r.t = t /\ r.n = n /\ r.done = done /\ r.err = err
  BY <1>1 DEF ResultOf
<1>4. t.phase = phase /\ t.line = was /\ t.left = left /\ t.crlf = crlf
  BY <1>2 DEF ChunkAt
<1>5. /\ \A next : [r EXCEPT !.n = @ + 1, !.t = next] = ResultOf(next, n + 1, done, err)
      /\ [r EXCEPT !.err = TRUE] = ResultOf(t, n, done, TRUE)
      /\ \A next, d : [[r EXCEPT !.n = @ + 1, !.t = next] EXCEPT !.done = d] = ResultOf(next, n + 1, d, err)
  <2>1. [r EXCEPT !.n = @ + 1] = ResultOf(t, n + 1, done, err)
    BY <1>1 DEF ResultOf
  <2>2. ASSUME NEW next PROVE [ResultOf(t, n + 1, done, err) EXCEPT !.t = next] = ResultOf(next, n + 1, done, err)
    BY DEF ResultOf
  <2>3. ASSUME NEW next PROVE [r EXCEPT !.n = @ + 1, !.t = next] = [[r EXCEPT !.n = @ + 1] EXCEPT !.t = next]
    OBVIOUS
  <2>4. ASSUME NEW e PROVE [r EXCEPT !.err = e] = ResultOf(t, n, done, e)
    BY <1>1 DEF ResultOf
  <2>5. ASSUME NEW next, NEW d
        PROVE  [ResultOf(next, n + 1, done, err) EXCEPT !.done = d] = ResultOf(next, n + 1, d, err)
    BY DEF ResultOf
  <2>6. \A next : [r EXCEPT !.n = @ + 1, !.t = next] = ResultOf(next, n + 1, done, err)
    BY <2>1, <2>2, <2>3
  <2> QED
    BY <2>4, <2>5, <2>6
<1>6. /\ \A next : [t EXCEPT !.line = next] = ChunkAt(phase, next, left, crlf)
      /\ \A l, p : [t EXCEPT !.line = <<>>, !.left = l, !.phase = p] = ChunkAt(p, <<>>, l, crlf)
      /\ \A p : [t EXCEPT !.left = @ - 1, !.phase = p] = ChunkAt(p, was, left - 1, crlf)
      /\ [t EXCEPT !.crlf = 1] = ChunkAt(phase, was, left, 1)
      /\ \A p : [t EXCEPT !.crlf = 0, !.phase = p] = ChunkAt(p, was, left, 0)
  <2>1. ASSUME NEW next PROVE [t EXCEPT !.line = next] = ChunkAt(phase, next, left, crlf)
    BY <1>2 DEF ChunkAt
  <2>2. ASSUME NEW p, NEW line, NEW l, NEW c, NEW x
        PROVE  /\ [ChunkAt(p, line, l, c) EXCEPT !.phase = x] = ChunkAt(x, line, l, c)
               /\ [ChunkAt(p, line, l, c) EXCEPT !.left = x] = ChunkAt(p, line, x, c)
    BY DEF ChunkAt
  <2>3. ASSUME NEW l, NEW p
        PROVE  [t EXCEPT !.line = <<>>, !.left = l, !.phase = p] = ChunkAt(p, <<>>, l, crlf)
    <3>1. [t EXCEPT !.line = <<>>, !.left = l, !.phase = p]
            = [[[t EXCEPT !.line = <<>>] EXCEPT !.left = l] EXCEPT !.phase = p]
      OBVIOUS
    <3>2. [t EXCEPT !.line = <<>>] = ChunkAt(phase, <<>>, left, crlf)
      BY <2>1
    <3>3. [ChunkAt(phase, <<>>, left, crlf) EXCEPT !.left = l] = ChunkAt(phase, <<>>, l, crlf)
      BY DEF ChunkAt
    <3>4. [ChunkAt(phase, <<>>, l, crlf) EXCEPT !.phase = p] = ChunkAt(p, <<>>, l, crlf)
      BY <2>2
    <3> QED
      BY <3>1, <3>2, <3>3, <3>4
  <2>4. ASSUME NEW p PROVE [t EXCEPT !.left = @ - 1, !.phase = p] = ChunkAt(p, was, left - 1, crlf)
    <3>1. [t EXCEPT !.left = @ - 1, !.phase = p] = [[t EXCEPT !.left = @ - 1] EXCEPT !.phase = p]
      OBVIOUS
    <3>2. [t EXCEPT !.left = @ - 1] = ChunkAt(phase, was, left - 1, crlf)
      BY <1>2 DEF ChunkAt
    <3>3. [ChunkAt(phase, was, left - 1, crlf) EXCEPT !.phase = p] = ChunkAt(p, was, left - 1, crlf)
      BY <2>2
    <3> QED
      BY <3>1, <3>2, <3>3
  <2>5. ASSUME NEW c PROVE [t EXCEPT !.crlf = c] = ChunkAt(phase, was, left, c)
    BY <1>2 DEF ChunkAt
  <2>6. ASSUME NEW p PROVE [t EXCEPT !.crlf = 0, !.phase = p] = ChunkAt(p, was, left, 0)
    <3>1. [t EXCEPT !.crlf = 0, !.phase = p] = [[t EXCEPT !.crlf = 0] EXCEPT !.phase = p]
      OBVIOUS
    <3>2. [t EXCEPT !.crlf = 0] = ChunkAt(phase, was, left, 0)
      BY <2>5
    <3>3. [ChunkAt(phase, was, left, 0) EXCEPT !.phase = p] = ChunkAt(p, was, left, 0)
      BY <2>2
    <3> QED
      BY <3>1, <3>2, <3>3
  <2> QED
    BY <2>1, <2>3, <2>4, <2>5, <2>6
<1> DEFINE line == Append(was, u)
<1>7. n + 1 \in Nat /\ n + 1 <= k + 1 /\ n <= k + 1
  BY <1>1
<1>8. \A p \in {"SizeLine", "Data", "DataCRLF", "Trailers"} : \A next, l, c, d :
         ChunkResult(ResultOf(ChunkAt(p, next, l, c), n + 1, d, err), k + 1)
  BY <1>7, ThenState, ThenResult
<1>9. \A e : ChunkResult(ResultOf(t, n, done, e), k + 1)
  BY <1>1, <1>7, ThenResult
<1>10. ChunkResult(chunkStep(r, u), k + 1)
  <2>1. CASE done \/ err
    <3>1. chunkStep(r, u) = ResultOf(t, n, done, err)
      BY <1>1, <1>3, <2>1 DEF chunkStep
    <3> QED
      BY <1>9, <3>1
  <2>2. CASE ~(done \/ err) /\ phase = "SizeLine"
    <3>1. \/ chunkStep(r, u) = [r EXCEPT !.n = @ + 1, !.t = [t EXCEPT !.line = line]]
          \/ chunkStep(r, u) = [r EXCEPT !.err = TRUE]
          \/ chunkStep(r, u) = [r EXCEPT !.n = @ + 1, !.t = [t EXCEPT !.line = <<>>, !.left = line[1].n,
                                !.phase = IF line[1].n = 0 THEN "Trailers" ELSE "Data"]]
      BY <1>3, <1>4, <2>2 DEF chunkStep
    <3> DEFINE size == line[1].n
               next == IF size = 0 THEN "Trailers" ELSE "Data"
    <3> HIDE DEF line
    <3>2. next \in {"SizeLine", "Data", "DataCRLF", "Trailers"}
      OBVIOUS
    <3>3. chunkStep(r, u) = [r EXCEPT !.n = @ + 1, !.t = [t EXCEPT !.line = line]]
            => chunkStep(r, u) = ResultOf(ChunkAt(phase, line, left, crlf), n + 1, done, err)
      BY <1>5, <1>6
    <3>4. [t EXCEPT !.line = <<>>, !.left = size, !.phase = next] = ChunkAt(next, <<>>, size, crlf)
      BY <1>6, Zenon
    <3>5. [r EXCEPT !.n = @ + 1, !.t = ChunkAt(next, <<>>, size, crlf)]
            = ResultOf(ChunkAt(next, <<>>, size, crlf), n + 1, done, err)
      BY <1>5, Zenon
    <3>6. chunkStep(r, u) = [r EXCEPT !.n = @ + 1, !.t = [t EXCEPT !.line = <<>>, !.left = size, !.phase = next]]
            => chunkStep(r, u) = ResultOf(ChunkAt(next, <<>>, size, crlf), n + 1, done, err)
      BY <3>4, <3>5
    <3>7. chunkStep(r, u) = [r EXCEPT !.err = TRUE] => chunkStep(r, u) = ResultOf(t, n, done, TRUE)
      BY <1>5
    <3>8. \/ chunkStep(r, u) = ResultOf(ChunkAt(phase, line, left, crlf), n + 1, done, err)
          \/ chunkStep(r, u) = ResultOf(t, n, done, TRUE)
          \/ chunkStep(r, u) = ResultOf(ChunkAt(next, <<>>, size, crlf), n + 1, done, err)
      BY <3>1, <3>3, <3>6, <3>7
    <3>9. /\ ChunkResult(ResultOf(ChunkAt(next, <<>>, size, crlf), n + 1, done, err), k + 1)
          /\ ChunkResult(ResultOf(ChunkAt(phase, line, left, crlf), n + 1, done, err), k + 1)
      BY <1>2, <1>8, <3>2
    <3> QED
      BY <1>9, <3>8, <3>9
  <2>3. CASE ~(done \/ err) /\ phase = "Data"
    <3>1. chunkStep(r, u) = [r EXCEPT !.n = @ + 1, !.t =
             [t EXCEPT !.left = @ - 1, !.phase = IF left = 1 THEN "DataCRLF" ELSE "Data"]]
      BY <1>3, <1>4, <2>3 DEF chunkStep
    <3>2. chunkStep(r, u) = ResultOf(ChunkAt(IF left = 1 THEN "DataCRLF" ELSE "Data", was, left - 1, crlf),
                                     n + 1, done, err)
      BY <1>5, <1>6, <3>1
    <3> QED
      BY <1>2, <1>8, <1>9, <3>2
  <2>4. CASE ~(done \/ err) /\ phase = "DataCRLF"
    <3>1. \/ chunkStep(r, u) = [r EXCEPT !.n = @ + 1, !.t = [t EXCEPT !.crlf = 1]]
          \/ chunkStep(r, u) = [r EXCEPT !.err = TRUE]
          \/ chunkStep(r, u) = [r EXCEPT !.n = @ + 1, !.t = [t EXCEPT !.crlf = 0, !.phase = "SizeLine"]]
      BY <1>3, <1>4, <2>4 DEF chunkStep
    <3>2. \/ chunkStep(r, u) = ResultOf(ChunkAt(phase, was, left, 1), n + 1, done, err)
          \/ chunkStep(r, u) = ResultOf(t, n, done, TRUE)
          \/ chunkStep(r, u) = ResultOf(ChunkAt("SizeLine", was, left, 0), n + 1, done, err)
      BY <1>5, <1>6, <3>1
    <3> QED
      BY <1>2, <1>8, <1>9, <3>2
  <2>5. CASE ~(done \/ err) /\ phase = "Trailers"
    <3>1. \/ chunkStep(r, u) = [r EXCEPT !.n = @ + 1, !.t = [t EXCEPT !.line = line]]
          \/ chunkStep(r, u) = [[r EXCEPT !.n = @ + 1, !.t = [t EXCEPT !.line = <<>>]]
                                  EXCEPT !.done = (line = CRLF)]
      BY <1>3, <1>4, <2>5 DEF chunkStep
    <3>2. \/ chunkStep(r, u) = ResultOf(ChunkAt(phase, line, left, crlf), n + 1, done, err)
          \/ \E d : chunkStep(r, u) = ResultOf(ChunkAt(phase, <<>>, left, crlf), n + 1, d, err)
      <4> HIDE DEF line
      <4>1. ASSUME NEW d
            PROVE  [[r EXCEPT !.n = @ + 1, !.t = [t EXCEPT !.line = <<>>]] EXCEPT !.done = d]
                     = ResultOf(ChunkAt(phase, <<>>, left, crlf), n + 1, d, err)
        BY <1>5, <1>6
      <4>2. [[r EXCEPT !.n = @ + 1, !.t = [t EXCEPT !.line = <<>>]] EXCEPT !.done = (line = CRLF)]
              = ResultOf(ChunkAt(phase, <<>>, left, crlf), n + 1, (line = CRLF), err)
        BY <4>1, Zenon
      <4>3. [r EXCEPT !.n = @ + 1, !.t = [t EXCEPT !.line = line]]
              = ResultOf(ChunkAt(phase, line, left, crlf), n + 1, done, err)
        BY <1>5, <1>6
      <4> QED
        BY <3>1, <4>2, <4>3, Zenon
    <3> QED
      BY <1>2, <1>8, <1>9, <3>2
  <2> QED
    BY <1>2, <2>1, <2>2, <2>3, <2>4, <2>5
<1> QED
  BY <1>10

\* The fold, as for SumOf.
ChunkIter(it, base, s, D) ==
  it = [S \in SUBSET D |-> IF S = {} THEN base ELSE chunkStep(it[S \ {Max(S)}], s[Max(S)])]

LEMMA FoldIsIter ==
  ASSUME NEW base, NEW s
  PROVE  FoldLeft(chunkStep, base, s) = (CHOOSE it : ChunkIter(it, base, s, DOMAIN s))[DOMAIN s]
BY DEF FoldLeft, MapThenFoldSet, ChunkIter

LEMMA ChunkIterAt ==
  ASSUME NEW it, NEW base, NEW s, NEW D
  PROVE  ChunkIter(it, base, s, D) <=>
           /\ it = [S \in SUBSET D |-> it[S]]
           /\ \A S \in SUBSET D : it[S] = IF S = {} THEN base ELSE chunkStep(it[S \ {Max(S)}], s[Max(S)])
BY DEF ChunkIter

LEMMA ChunkIterExists ==
  ASSUME NEW base, NEW s, NEW n \in Nat
  PROVE  \E it : ChunkIter(it, base, s, 1 .. n)
<1> DEFINE T == {k \in Nat : \E it : ChunkIter(it, base, s, 1 .. k)}
<1>1. 0 \in T
  <2> DEFINE it == [S \in SUBSET (1 .. 0) |-> base]
  <2>1. 1 .. 0 = {}
    OBVIOUS
  <2>2. \A S \in SUBSET (1 .. 0) : S = {}
    BY <2>1
  <2>3. it = [S \in SUBSET (1 .. 0) |-> it[S]]
    OBVIOUS
  <2>4. \A S \in SUBSET (1 .. 0) : it[S] = IF S = {} THEN base ELSE chunkStep(it[S \ {Max(S)}], s[Max(S)])
    BY <2>2
  <2> HIDE DEF it
  <2>5. ChunkIter(it, base, s, 1 .. 0)
    BY <2>3, <2>4, ChunkIterAt
  <2> QED
    BY <2>5
<1>2. ASSUME NEW k \in Nat, k \in T
      PROVE  k + 1 \in T
  <2>1. PICK it : ChunkIter(it, base, s, 1 .. k)
    BY <1>2
  <2>2. \A S \in SUBSET (1 .. k) : it[S] = IF S = {} THEN base ELSE chunkStep(it[S \ {Max(S)}], s[Max(S)])
    BY <2>1, ChunkIterAt
  <2> DEFINE jt == [S \in SUBSET (1 .. k + 1) |->
                      IF k + 1 \in S THEN chunkStep(it[S \ {k + 1}], s[k + 1]) ELSE it[S]]
  <2>3. \A S \in SUBSET (1 .. k) : jt[S] = it[S]
    <3>1. \A S \in SUBSET (1 .. k) : S \in SUBSET (1 .. k + 1) /\ ~(k + 1 \in S)
      OBVIOUS
    <3> QED
      BY <3>1
  <2>4. \A S \in SUBSET (1 .. k + 1) : k + 1 \in S => jt[S] = chunkStep(it[S \ {k + 1}], s[k + 1])
    OBVIOUS
  <2>5. jt = [S \in SUBSET (1 .. k + 1) |-> jt[S]]
    OBVIOUS
  <2> HIDE DEF jt
  <2>6. ASSUME NEW S \in SUBSET (1 .. k + 1)
        PROVE  jt[S] = IF S = {} THEN base ELSE chunkStep(jt[S \ {Max(S)}], s[Max(S)])
    <3>1. CASE k + 1 \in S
      <4>1. Max(S) = k + 1
        BY <3>1, MaxOfPrefix
      <4>2. S \ {k + 1} \in SUBSET (1 .. k) /\ S # {}
        BY <3>1
      <4>3. jt[S \ {k + 1}] = it[S \ {k + 1}]
        BY <2>3, <4>2
      <4> QED
        BY <2>4, <3>1, <4>1, <4>2, <4>3
    <3>2. CASE ~(k + 1 \in S)
      <4>1. S \in SUBSET (1 .. k)
        BY <3>2
      <4>2. S \ {Max(S)} \in SUBSET (1 .. k)
        BY <4>1
      <4>3. jt[S] = it[S] /\ jt[S \ {Max(S)}] = it[S \ {Max(S)}]
        BY <2>3, <4>1, <4>2
      <4> QED
        BY <2>2, <4>1, <4>3
    <3> QED
      BY <3>1, <3>2
  <2>7. ChunkIter(jt, base, s, 1 .. k + 1)
    BY <2>5, <2>6, ChunkIterAt
  <2> QED
    BY <2>7
<1> HIDE DEF T
<1>3. n \in T
  BY <1>1, <1>2, InductionOnSets
<1> QED
  BY <1>3 DEF T

LEMMA FoldResult ==
  ASSUME NEW base, ChunkResult(base, 0), NEW s, NEW n \in Nat, DOMAIN s = 1 .. n
  PROVE  ChunkResult(FoldLeft(chunkStep, base, s), n)
<1> DEFINE it == CHOOSE it : ChunkIter(it, base, s, 1 .. n)
<1>1. ChunkIter(it, base, s, 1 .. n)
  <2>1. PICK f : ChunkIter(f, base, s, 1 .. n)
    BY ChunkIterExists
  <2> QED
    BY <2>1
<1>2. FoldLeft(chunkStep, base, s) = it[1 .. n]
  BY FoldIsIter
<1> HIDE DEF it
<1>3. \A S \in SUBSET (1 .. n) : it[S] = IF S = {} THEN base ELSE chunkStep(it[S \ {Max(S)}], s[Max(S)])
  BY <1>1, ChunkIterAt
<1> DEFINE T == {k \in Nat : k <= n => ChunkResult(it[1 .. k], k)}
<1>4. 0 \in T
  <2>1. 1 .. 0 = {} /\ 1 .. 0 \in SUBSET (1 .. n)
    OBVIOUS
  <2>2. it[1 .. 0] = base
    BY <1>3, <2>1
  <2> QED
    BY <2>2
<1>5. ASSUME NEW k \in Nat, k \in T
      PROVE  k + 1 \in T
  <2> SUFFICES ASSUME k + 1 <= n PROVE ChunkResult(it[1 .. k + 1], k + 1)
    OBVIOUS
  <2>1. ChunkResult(it[1 .. k], k)
    BY <1>5
  <2>2. 1 .. k + 1 \in SUBSET (1 .. n) /\ k + 1 \in 1 .. k + 1 /\ (1 .. k + 1) \ {k + 1} = 1 .. k
    OBVIOUS
  <2>3. Max(1 .. k + 1) = k + 1
    BY <2>2, MaxOfPrefix
  <2>4. it[1 .. k + 1] = chunkStep(it[1 .. k], s[k + 1])
    BY <1>3, <2>2, <2>3
  <2> QED
    BY <2>1, <2>4, ChunkStepResult
<1> HIDE DEF T
<1>6. n \in T
  BY <1>4, <1>5, InductionOnSets
<1> QED
  BY <1>2, <1>6 DEF T

\* consume takes at most what there is, and leaves a tracker of the same kind.
LEMMA ConsumeTakes ==
  ASSUME NEW t, Tracking(t), NEW data, NEW n \in Nat, DOMAIN data = 1 .. n, Len(data) = n
  PROVE  /\ consume(t, data).n \in Nat /\ consume(t, data).n <= n
         /\ Tracking(consume(t, data).t)
<1> DEFINE start == [t |-> t, n |-> 0, done |-> FALSE, err |-> FALSE]
           m == IF Len(data) > t.left THEN t.left ELSE Len(data)
<1>1. CASE LengthState(t)
  <2>1. t = [mode |-> "length", left |-> t.left] /\ t.left \in Nat /\ t.mode = "length"
    BY <1>1 DEF LengthState
  <2>2. m \in Nat /\ m <= n /\ t.left - m \in Nat
    BY <2>1
  <2>3. consume(t, data) = [start EXCEPT !.n = m, !.t.left = @ - m, !.done = (m = t.left)]
    BY <2>1 DEF consume
  <2> HIDE DEF m
  <2>4. consume(t, data).n = m /\ consume(t, data).t = [t EXCEPT !.left = @ - m]
    BY <2>3
  <2>5. LengthState([t EXCEPT !.left = @ - m])
    BY <2>1, <2>2 DEF LengthState
  <2> QED
    BY <2>2, <2>4, <2>5 DEF Tracking
<1>2. CASE ChunkState(t)
  <2>1. t.mode = "chunked"
    BY <1>2 DEF ChunkState
  <2>2. ChunkResult(start, 0)
    BY <1>2 DEF ChunkResult
  <2>3. consume(t, data) = FoldLeft(chunkStep, start, data)
    BY <2>1 DEF consume
  <2>4. ChunkResult(consume(t, data), n)
    BY <2>2, <2>3, FoldResult
  <2> QED
    BY <2>4 DEF ChunkResult, Tracking
<1> QED
  BY <1>1, <1>2 DEF Tracking

-----------------------------------------------------------------------------
(* What every step does to the units it takes from the buffer.              *)

\* The units that are handed on: those of the wire and new heads.
HeadersWritten == [auth : {"session", "client", "none"}, framing : {"length", "none", "frames"}]

Handed == {wire[i] : i \in 1 .. Len(wire)}
        \cup [k : {"rewritten"}, of : Nat, s : {0} \cup {wire[i].s : i \in 1 .. Len(wire)},
              es : {FALSE} \cup {wire[i].es : i \in 1 .. Len(wire)},
              host : UNION {rewriteAliangHost(wire[i].host) : i \in 1 .. Len(wire)},
              headers : HeadersWritten, frames : {1, 2}]

Taken == arrived - Len(reqBuf)
Given == out \o (pending \o HeldPreface \o preBuff)

\* The buffer is the end of what has arrived.
Buffered == Taken \in Nat /\ \A i \in 1 .. Len(reqBuf) : reqBuf[i] = wire[Taken + i]

WatcherInv ==
  /\ conversation \in Conversations
  /\ arrived \in Nat /\ arrived <= Len(wire)
  /\ out \in Seq(Handed) /\ pending \in Seq(Handed) /\ preBuff \in Seq(Handed) /\ reqBuf \in Seq(Handed)
  /\ HeldPreface \in Seq(Handed)
  /\ Buffered
  /\ proto # "http2" => preBuff = <<>>
  /\ proto = "sniff" => ~prefaceSent
  /\ h2step = "frame" => proto = "http2" /\ FrameThere
  /\ maxFrame \in {1, 2}
  /\ tracker = NoTracker \/ Tracking(tracker)
  /\ StandFor(Given, 0, Taken)

LEMMA SameWire == conversation' = conversation => wire' = wire
BY DEF wire, WireOf

LEMMA SameHanded == conversation' = conversation => Handed' = Handed
BY SameWire DEF Handed

LEMMA SameMade ==
  ASSUME UNCHANGED <<conversation, session>>, NEW u, NEW a, NEW b
  PROVE  MadeOf(u, a, b)' <=> MadeOf(u, a, b)
<1>1. wire' = wire /\ session' = session
  BY SameWire
<1>2. CopiesUnit(u, a, b)' <=> CopiesUnit(u, a, b)
  BY <1>1 DEF CopiesUnit
<1>3. RewritesHead(u, a, b)' <=> RewritesHead(u, a, b)
  BY <1>1 DEF RewritesHead, h1Headers
<1>4. RewritesBlock(u, a, b)' <=> RewritesBlock(u, a, b)
  BY <1>1 DEF RewritesBlock, h2Headers
<1> QED
  BY <1>2, <1>3, <1>4 DEF MadeOf

LEMMA SameStand ==
  ASSUME UNCHANGED <<conversation, session>>, NEW s, NEW a, NEW b
  PROVE  StandFor(s, a, b)' <=> StandFor(s, a, b)
BY SameMade DEF StandFor

LEMMA WireUnits ==
  ASSUME conversation \in Conversations
  PROVE  /\ Len(wire) \in Nat /\ DOMAIN wire = 1 .. Len(wire)
         /\ \A i \in 1 .. Len(wire) :
               /\ wire[i] \in Handed
               /\ wire[i].k = "headEnd" => wire[i].len \in Nat
               /\ wire[i].k = "pri1" => wire[i] = U("pri1")
               /\ wire[i].k = "pri2" => wire[i] = U("pri2")
<1>1. wire \in Seq({wire[i] : i \in DOMAIN wire})
  BY ConversationsAssumption DEF wire
<1>2. Len(wire) \in Nat /\ DOMAIN wire = 1 .. Len(wire)
  BY <1>1
<1>3. \A i \in DOMAIN wire : /\ wire[i].k = "headEnd" => wire[i].len \in Nat
                             /\ wire[i].k \in {"pri1", "pri2"} => wire[i] = U(wire[i].k)
  BY ConversationsAssumption DEF wire
<1>4. \A i \in 1 .. Len(wire) : wire[i] \in Handed
  BY DEF Handed
<1> QED
  BY <1>2, <1>3, <1>4

\* The buffer is the end of what has arrived.
LEMMA BufferIs ==
  ASSUME WatcherInv
  PROVE  /\ Len(reqBuf) \in Nat /\ Taken \in Nat /\ Taken = arrived - Len(reqBuf)
         /\ \A i \in 1 .. Len(reqBuf) : reqBuf[i] = wire[Taken + i]
         /\ arrived \in Nat /\ arrived <= Len(wire) /\ Len(wire) \in Nat
<1>1. reqBuf \in Seq(Handed) /\ Buffered /\ arrived \in Nat /\ arrived <= Len(wire)
  BY DEF WatcherInv
<1>2. Len(reqBuf) \in Nat
  BY <1>1
<1>3. Taken \in Nat /\ \A i \in 1 .. Len(reqBuf) : reqBuf[i] = wire[Taken + i]
  BY <1>1 DEF Buffered
<1>4. Taken = arrived - Len(reqBuf)
  BY DEF Taken
<1>5. Len(wire) \in Nat
  <2>1. conversation \in Conversations
    BY DEF WatcherInv
  <2> QED
    BY <2>1, WireUnits
<1> QED
  BY <1>1, <1>2, <1>3, <1>4, <1>5

LEMMA PartOf ==
  ASSUME NEW T, NEW s \in Seq(T), NEW j \in Nat, NEW k \in Nat, j <= k, k <= Len(s)
  PROVE  /\ SubSeq(s, j + 1, k) \in Seq(T) /\ Len(SubSeq(s, j + 1, k)) = k - j
         /\ \A i \in 1 .. k - j : SubSeq(s, j + 1, k)[i] = s[j + i]
<1> DEFINE m == j + 1
<1>1. m \in Int /\ k \in Int /\ k - m + 1 = k - j
  OBVIOUS
<1>2. \A i \in m .. k : s[i] \in T
  OBVIOUS
<1>3. m + 1 - 1 = m /\ \A i \in 1 .. k - j : m + i - 1 = j + i
  OBVIOUS
<1>4. IF m <= k THEN k - m + 1 = k - j ELSE 0 = k - j
  OBVIOUS
<1> HIDE DEF m
<1>5. /\ SubSeq(s, m, k) \in Seq(T)
      /\ Len(SubSeq(s, m, k)) = IF m <= k THEN k - m + 1 ELSE 0
      /\ \A i \in 1 .. k - m + 1 : SubSeq(s, m, k)[i] = s[m + i - 1]
  BY <1>1, <1>2, SubSeqProperties
<1>6. \A i \in 1 .. k - j : SubSeq(s, m, k)[i] = s[j + i]
  BY <1>1, <1>3, <1>5
<1> QED
  BY <1>4, <1>5, <1>6 DEF m

\* A part of the buffer stands for itself.
LEMMA PartStands ==
  ASSUME WatcherInv, NEW j \in Nat, NEW k \in Nat, j <= k, k <= Len(reqBuf)
  PROVE  /\ SubSeq(reqBuf, j + 1, k) \in Seq(Handed)
         /\ StandFor(SubSeq(reqBuf, j + 1, k), Taken + j, Taken + k)
<1> DEFINE t == SubSeq(reqBuf, j + 1, k)
           n == k - j
           m == Taken + j
<1>1. t \in Seq(Handed) /\ Len(t) = n /\ \A i \in 1 .. n : t[i] = reqBuf[j + i]
  BY PartOf DEF WatcherInv
<1>2. Taken \in Nat /\ \A i \in 1 .. Len(reqBuf) : reqBuf[i] = wire[Taken + i]
  BY DEF WatcherInv, Buffered
<1>3. Len(reqBuf) \in Nat
  BY DEF WatcherInv
<1> HIDE DEF t
<1>4. n \in Nat /\ m \in Nat /\ m + n = Taken + k
  BY <1>2
<1>5. ASSUME NEW i \in 1 .. n PROVE t[i] = wire[m + i]
  <2>1. j + i \in 1 .. Len(reqBuf) /\ Taken + (j + i) = m + i
    BY <1>2, <1>3
  <2> QED
    BY <1>1, <1>2, <2>1
<1> HIDE DEF n, m
<1>6. StandFor(t, m, m + n)
  BY <1>1, <1>4, <1>5, CopiesStand
<1> QED
  BY <1>1, <1>4, <1>6 DEF t, m

\* The whole buffer.
LEMMA AllStand ==
  ASSUME WatcherInv
  PROVE  /\ Len(reqBuf) \in Nat /\ Len(reqBuf) <= Len(reqBuf)
         /\ SubSeq(reqBuf, Len(reqBuf) + 1, Len(reqBuf)) = <<>>
         /\ StandFor(reqBuf, Taken, Taken + Len(reqBuf))
<1> DEFINE k == Len(reqBuf)
<1>1. reqBuf \in Seq(Handed) /\ k \in Nat /\ k <= Len(reqBuf)
  BY DEF WatcherInv
<1>2. SubSeq(reqBuf, k + 1, k) = <<>> /\ SubSeq(reqBuf, 1, k) = reqBuf
  BY <1>1, SubSeqEmpty
<1>3. 0 \in Nat /\ 0 <= k /\ 0 + 1 = 1 /\ Taken + 0 = Taken
  BY <1>1 DEF WatcherInv, Buffered
<1> HIDE DEF k
<1>4. StandFor(SubSeq(reqBuf, 0 + 1, k), Taken + 0, Taken + k)
  BY <1>1, <1>3, PartStands
<1>5. StandFor(reqBuf, Taken, Taken + k)
  BY <1>2, <1>3, <1>4
<1> QED
  BY <1>1, <1>2, <1>5 DEF k

\* A step that takes k units and gives what stands for them.
LEMMA Advance ==
  ASSUME WatcherInv, UNCHANGED <<conversation, session, arrived>>,
         NEW k \in Nat, k <= Len(reqBuf), reqBuf' = SubSeq(reqBuf, k + 1, Len(reqBuf)),
         NEW t \in Seq(Handed), StandFor(t, Taken, Taken + k), Given' = Given \o t
  PROVE  reqBuf' \in Seq(Handed) /\ Buffered' /\ StandFor(Given, 0, Taken)'
<1> DEFINE n == Len(reqBuf)
<1>1. n \in Nat /\ arrived \in Nat /\ Taken \in Nat /\ Taken = arrived - n
      /\ \A i \in 1 .. n : reqBuf[i] = wire[Taken + i]
  BY BufferIs
<1> HIDE DEF n
<1>2. reqBuf' \in Seq(Handed) /\ Len(reqBuf') = n - k /\ \A i \in 1 .. n - k : reqBuf'[i] = reqBuf[k + i]
  <2>1. reqBuf \in Seq(Handed) /\ n \in Nat /\ k <= n /\ n <= Len(reqBuf)
    BY <1>1 DEF WatcherInv, n
  <2>2. reqBuf' = SubSeq(reqBuf, k + 1, n)
    BY DEF n
  <2>3. reqBuf \in Seq(Handed) /\ k \in Nat /\ n \in Nat /\ k <= n /\ n <= Len(reqBuf)
    BY <2>1
  <2>4. /\ SubSeq(reqBuf, k + 1, n) \in Seq(Handed) /\ Len(SubSeq(reqBuf, k + 1, n)) = n - k
        /\ \A i \in 1 .. n - k : SubSeq(reqBuf, k + 1, n)[i] = reqBuf[k + i]
    BY ONLY <2>3, PartOf
  <2> QED
    BY ONLY <2>2, <2>4
<1>3. Taken' = arrived' - Len(reqBuf') /\ arrived' = arrived
  BY DEF Taken
<1>4. Taken' = Taken + k /\ Taken' \in Nat
  <2>1. /\ n \in Nat /\ arrived \in Nat /\ Taken \in Nat /\ Taken = arrived - n /\ k \in Nat
        /\ Taken' = arrived - (n - k) /\ k <= n
    BY <1>1, <1>2, <1>3 DEF n
  <2> QED
    BY ONLY <2>1
<1>5. ASSUME NEW i \in 1 .. Len(reqBuf') PROVE reqBuf'[i] = wire'[Taken' + i]
  <2>1. k + i \in 1 .. n /\ Taken + (k + i) = Taken' + i /\ i \in 1 .. n - k
    BY <1>1, <1>2, <1>4
  <2> QED
    BY <1>1, <1>2, <2>1, SameWire
<1>6. Given \in Seq(Handed)
  BY DEF Given, WatcherInv
<1>7. StandFor(Given \o t, 0, Taken + k)
  BY <1>6, StandAfter DEF WatcherInv
<1>8. StandFor(Given', 0, Taken')
  BY <1>4, <1>7
<1> QED
  BY <1>2, <1>4, <1>5, <1>8, SameStand DEF Buffered

\* A step that leaves the buffer alone and only moves units from one place to the next.
LEMMA Rearrange ==
  ASSUME WatcherInv, UNCHANGED <<conversation, session, arrived, reqBuf>>, Given' = Given
  PROVE  reqBuf' \in Seq(Handed) /\ Buffered' /\ StandFor(Given, 0, Taken)'
<1>1. Taken' = Taken /\ wire' = wire
  BY SameWire DEF Taken
<1> QED
  BY <1>1, SameStand DEF WatcherInv, Buffered

\* The parts of the invariant that the buffer does not matter for.
Around ==
  /\ conversation \in Conversations
  /\ arrived \in Nat /\ arrived <= Len(wire)
  /\ out \in Seq(Handed) /\ pending \in Seq(Handed) /\ preBuff \in Seq(Handed)
  /\ HeldPreface \in Seq(Handed)
  /\ proto # "http2" => preBuff = <<>>
  /\ proto = "sniff" => ~prefaceSent
  /\ h2step = "frame" => proto = "http2" /\ FrameThere
  /\ maxFrame \in {1, 2}
  /\ tracker = NoTracker \/ Tracking(tracker)

LEMMA ThenWatcherInv ==
  ASSUME UNCHANGED conversation, Around', reqBuf' \in Seq(Handed), Buffered', StandFor(Given, 0, Taken)'
  PROVE  WatcherInv'
BY SameHanded DEF WatcherInv, Around

LEMMA EmptyJoins == ASSUME NEW T PROVE <<>> \in Seq(T) /\ \A s \in Seq(T) : s \o <<>> = s /\ <<>> \o s = s
BY ConcatEmptySeq

LEMMA PrefaceSent ==
  ASSUME WatcherInv, UNCHANGED conversation,
         ~(proto' = "http2" /\ ~prefaceSent') \/ HeldPreface' = HeldPreface
  PROVE  HeldPreface' \in Seq(Handed')
<1>1. HeldPreface' \in Seq(Handed)
  <2>1. CASE HeldPreface' = HeldPreface
    BY <2>1 DEF WatcherInv
  <2>2. CASE ~(proto' = "http2" /\ ~prefaceSent')
    <3>1. HeldPreface' = <<>>
      BY <2>2 DEF HeldPreface
    <3> QED
      BY <3>1, EmptyJoins
  <2> QED
    BY <2>1, <2>2
<1> QED
  BY <1>1, SameHanded

LEMMA SniffKeeps == WatcherInv /\ sniff => WatcherInv'
<1> SUFFICES ASSUME WatcherInv, sniff PROVE WatcherInv'
  OBVIOUS
<1>1. /\ UNCHANGED <<conversation, session, arrived, pending, out, preBuff, prefaceSent, h2step,
                     maxFrame, tracker>>
      /\ proto = "sniff" /\ pending = <<>> /\ proto' = classifyBufferedProtocol(reqBuf)
      /\ reqBuf' = IF proto' = "http2" THEN SubSeq(reqBuf, 3, Len(reqBuf)) ELSE reqBuf
  BY DEF sniff, h1Vars, h2Vars
<1>2. preBuff = <<>> /\ ~prefaceSent /\ HeldPreface = <<>> /\ h2step # "frame"
  BY <1>1 DEF WatcherInv, HeldPreface
<1>3. Handed' = Handed /\ wire' = wire
  BY <1>1, SameHanded, SameWire
<1>4. ASSUME HeldPreface' \in Seq(Handed) PROVE Around'
  BY <1>1, <1>2, <1>3, <1>4 DEF WatcherInv, Around
<1>5. CASE proto' = "http2"
  <2> DEFINE t == SubSeq(reqBuf, 1, 2)
             p == <<U("pri1"), U("pri2")>>
  <2>1. Len(reqBuf) >= 2 /\ reqBuf[1].k = "pri1" /\ reqBuf[2].k = "pri2"
    BY <1>1, <1>5 DEF classifyBufferedProtocol
  <2>2. t \in Seq(Handed) /\ Len(t) = 2 /\ t[1] = reqBuf[1] /\ t[2] = reqBuf[2]
    <3>1. 0 + 1 = 1 /\ 2 - 0 = 2 /\ 0 + 2 = 2 /\ 1 \in 1 .. 2 /\ 2 \in 1 .. 2 /\ 2 <= Len(reqBuf)
      BY <2>1 DEF WatcherInv
    <3>2. reqBuf \in Seq(Handed)
      BY DEF WatcherInv
    <3> HIDE DEF t
    <3>3. /\ SubSeq(reqBuf, 0 + 1, 2) \in Seq(Handed) /\ Len(SubSeq(reqBuf, 0 + 1, 2)) = 2 - 0
          /\ \A i \in 1 .. 2 - 0 : SubSeq(reqBuf, 0 + 1, 2)[i] = reqBuf[0 + i]
      BY <3>1, <3>2, PartOf
    <3> QED
      BY <3>1, <3>3 DEF t
  <2>3. reqBuf[1] = U("pri1") /\ reqBuf[2] = U("pri2")
    <3>1. Taken \in Nat /\ Len(reqBuf) \in Nat /\ reqBuf[1] = wire[Taken + 1] /\ reqBuf[2] = wire[Taken + 2]
      BY <2>1 DEF WatcherInv, Buffered
    <3>2. Taken + 1 \in 1 .. Len(wire) /\ Taken + 2 \in 1 .. Len(wire)
      BY <2>1, <3>1, WireUnits DEF WatcherInv, Taken
    <3> QED
      BY <2>1, <3>1, <3>2, WireUnits DEF WatcherInv
  <2>4. t = p
    <3>1. U("pri1") \in Handed /\ U("pri2") \in Handed
      BY <2>2, <2>3
    <3>2. p \in Seq(Handed) /\ Len(p) = 2 /\ p[1] = U("pri1") /\ p[2] = U("pri2")
      BY <3>1
    <3> HIDE DEF p, t
    <3>3. \A i \in 1 .. Len(t) : t[i] = p[i]
      BY <2>2, <2>3, <3>2
    <3> QED
      BY <2>2, <3>2, <3>3, SeqEqual
  <2>5. HeldPreface' = p
    BY <1>1, <1>2, <1>5 DEF HeldPreface
  <2>6. StandFor(t, Taken, Taken + 2)
    <3>1. StandFor(SubSeq(reqBuf, 0 + 1, 2), Taken + 0, Taken + 2)
      BY <2>1, PartStands DEF WatcherInv
    <3>2. 0 + 1 = 1 /\ Taken + 0 = Taken
      BY DEF WatcherInv, Buffered
    <3> QED
      BY <3>1, <3>2
  <2> HIDE DEF t, p
  <2>7. Given' = Given \o t
    <3>1. Given = out /\ Given' = out \o t
      BY <1>1, <1>2, <2>2, <2>4, <2>5, EmptyJoins DEF Given, WatcherInv
    <3> QED
      BY <3>1
  <2>8. reqBuf' = SubSeq(reqBuf, 2 + 1, Len(reqBuf)) /\ 2 <= Len(reqBuf)
    BY <1>1, <1>5, <2>1 DEF WatcherInv
  <2>9. reqBuf' \in Seq(Handed) /\ Buffered' /\ StandFor(Given, 0, Taken)'
    BY <1>1, <2>2, <2>6, <2>7, <2>8, Advance
  <2> QED
    BY <1>1, <1>4, <2>2, <2>4, <2>5, <2>9, ThenWatcherInv
<1>6. CASE proto' # "http2"
  <2>1. HeldPreface' = <<>>
    BY <1>6 DEF HeldPreface
  <2>2. Given' = Given /\ reqBuf' = reqBuf
    BY <1>1, <1>2, <1>6, <2>1 DEF Given
  <2>3. reqBuf' \in Seq(Handed) /\ Buffered' /\ StandFor(Given, 0, Taken)'
    BY <1>1, <2>2, Rearrange
  <2> QED
    BY <1>1, <1>4, <2>1, <2>3, ThenWatcherInv, EmptyJoins
<1> QED
  BY <1>5, <1>6

LEMMA TailParts ==
  ASSUME NEW T, NEW s \in Seq(T), NEW j \in Nat, j <= Len(s), NEW k \in Nat, k <= Len(s) - j
  PROVE  LET body == SubSeq(s, j + 1, Len(s)) IN
         /\ body \in Seq(T) /\ Len(body) = Len(s) - j
         /\ SubSeq(body, 1, k) = SubSeq(s, j + 1, j + k)
         /\ SubSeq(body, k + 1, Len(body)) = SubSeq(s, (j + k) + 1, Len(s))
<1> DEFINE n == Len(s)
           body == SubSeq(s, j + 1, n)
<1>1. n \in Nat /\ n <= Len(s) /\ j <= n /\ k <= n - j /\ j + k \in Nat /\ j + k <= n /\ n - j \in Nat
      /\ j <= j + k /\ 0 \in Nat /\ 0 <= k
  OBVIOUS
<1> HIDE DEF n
<1>2. body \in Seq(T) /\ Len(body) = n - j /\ \A i \in 1 .. n - j : body[i] = s[j + i]
  BY <1>1, PartOf
<1> HIDE DEF body
<1>3. SubSeq(body, 1, k) = SubSeq(s, j + 1, j + k)
  <2> DEFINE p == SubSeq(body, 0 + 1, k)
             q == SubSeq(s, j + 1, j + k)
  <2>1. p \in Seq(T) /\ Len(p) = k - 0 /\ \A i \in 1 .. k - 0 : p[i] = body[0 + i]
    BY <1>1, <1>2, PartOf
  <2>2. q \in Seq(T) /\ Len(q) = (j + k) - j /\ \A i \in 1 .. (j + k) - j : q[i] = s[j + i]
    BY <1>1, PartOf
  <2>3. p = SubSeq(body, 1, k)
    OBVIOUS
  <2> HIDE DEF p, q
  <2>4. Len(p) = k /\ Len(q) = k
    BY <2>1, <2>2
  <2>5. \A i \in 1 .. k : p[i] = body[i] /\ q[i] = s[j + i] /\ i \in 1 .. n - j
    BY <1>1, <2>1, <2>2
  <2>6. p = q
    BY <1>2, <2>1, <2>2, <2>4, <2>5, SeqEqual
  <2> QED
    BY <2>3, <2>6 DEF q
<1>4. SubSeq(body, k + 1, Len(body)) = SubSeq(s, (j + k) + 1, n)
  <2> DEFINE p == SubSeq(body, k + 1, n - j)
             q == SubSeq(s, (j + k) + 1, n)
             m == (n - j) - k
  <2>1. p \in Seq(T) /\ Len(p) = m /\ \A i \in 1 .. m : p[i] = body[k + i]
    BY <1>1, <1>2, PartOf
  <2>2. q \in Seq(T) /\ Len(q) = n - (j + k) /\ \A i \in 1 .. n - (j + k) : q[i] = s[(j + k) + i]
    BY <1>1, PartOf, SMTT(30)
  <2>3. n - (j + k) = m /\ m \in Nat
    BY <1>1
  <2> HIDE DEF p, q
  <2>4. ASSUME NEW i \in 1 .. m PROVE p[i] = q[i]
    <3>1. k + i \in 1 .. n - j /\ j + (k + i) = (j + k) + i
      BY <1>1
    <3>2. body[k + i] = s[j + (k + i)]
      BY <1>2, <3>1
    <3> QED
      BY <2>1, <2>2, <2>3, <3>1, <3>2
  <2>5. p = q
    BY <2>1, <2>2, <2>3, <2>4, SeqEqual
  <2> QED
    BY <1>2, <2>5 DEF p, q
<1> QED
  BY <1>2, <1>3, <1>4 DEF body, n

LEMMA NewBodyTracker ==
  ASSUME NEW head, head.len \in Nat
  PROVE  newHTTP1BodyTracker(head) = NoTracker \/ Tracking(newHTTP1BodyTracker(head))
<1>1. CASE head.chunked
  <2>1. newHTTP1BodyTracker(head) = ChunkAt("SizeLine", <<>>, 0, 0)
    BY <1>1 DEF newHTTP1BodyTracker, ChunkAt
  <2> QED
    BY <2>1, ThenState DEF Tracking
<1>2. CASE ~head.chunked /\ head.len > 0
  <2>1. newHTTP1BodyTracker(head) = [mode |-> "length", left |-> head.len]
    BY <1>2 DEF newHTTP1BodyTracker
  <2> QED
    BY <2>1 DEF Tracking, LengthState
<1>3. CASE ~head.chunked /\ ~(head.len > 0)
  BY <1>3 DEF newHTTP1BodyTracker
<1> QED
  BY <1>1, <1>2, <1>3

LEMMA FailKeeps ==
  ASSUME WatcherInv, Fail, proto = "http1", UNCHANGED h2Vars, UNCHANGED session
  PROVE  WatcherInv'
<1>1. /\ UNCHANGED <<conversation, session, arrived, reqBuf, pending, out, preBuff, prefaceSent, h2step,
                     maxFrame, tracker>>
      /\ proto' = "failed"
  BY DEF Fail, h2Vars
<1>2. HeldPreface = <<>> /\ HeldPreface' = <<>>
  BY <1>1 DEF HeldPreface
<1>3. Given' = Given
  BY <1>1, <1>2 DEF Given
<1>4. reqBuf' \in Seq(Handed) /\ Buffered' /\ StandFor(Given, 0, Taken)'
  BY <1>1, <1>3, Rearrange
<1>5. Handed' = Handed /\ wire' = wire
  BY <1>1, SameHanded, SameWire
<1>6. Around'
  BY <1>1, <1>2, <1>5 DEF WatcherInv, Around
<1> QED
  BY <1>1, <1>4, <1>6, ThenWatcherInv

\* HTTP/1: what leaves the buffer goes to pending.
LEMMA BodyKeeps ==
  ASSUME WatcherInv, proto = "http1", pending = <<>>, UNCHANGED <<conversation, arrived, out, proto>>,
         UNCHANGED h2Vars, UNCHANGED session,
         NEW k \in Nat, k <= Len(reqBuf), reqBuf' = SubSeq(reqBuf, k + 1, Len(reqBuf)),
         pending' \in Seq(Handed), StandFor(pending', Taken, Taken + k),
         tracker' = NoTracker \/ Tracking(tracker')
  PROVE  WatcherInv'
<1>1. UNCHANGED <<preBuff, prefaceSent, h2step, maxFrame>>
  BY DEF h2Vars
<1>2. HeldPreface = <<>> /\ HeldPreface' = <<>> /\ preBuff = <<>> /\ preBuff' = <<>> /\ h2step # "frame"
  BY <1>1 DEF HeldPreface, WatcherInv
<1>3. Given = out /\ Given' = out \o pending'
  BY <1>2, EmptyJoins DEF Given, WatcherInv
<1>4. reqBuf' \in Seq(Handed) /\ Buffered' /\ StandFor(Given, 0, Taken)'
  <2> DEFINE t == pending'
  <2>1. Given' = Given \o t /\ t \in Seq(Handed) /\ StandFor(t, Taken, Taken + k)
    BY <1>3
  <2> HIDE DEF t
  <2> QED
    BY <2>1, Advance
<1>5. Handed' = Handed /\ wire' = wire
  BY SameHanded, SameWire
<1>6. Around'
  BY <1>1, <1>2, <1>5, EmptyJoins DEF WatcherInv, Around
<1> QED
  BY <1>4, <1>6, ThenWatcherInv

LEMMA ConsumeKeeps == WatcherInv /\ consumeHTTP1Body => WatcherInv'
<1> SUFFICES ASSUME WatcherInv, consumeHTTP1Body PROVE WatcherInv'
  OBVIOUS
<1> DEFINE r == consume(tracker, reqBuf)
<1>1. /\ proto = "http1" /\ pending = <<>> /\ tracker # NoTracker
      /\ UNCHANGED h2Vars /\ UNCHANGED session
      /\ IF r.err THEN Fail
         ELSE /\ pending' = SubSeq(reqBuf, 1, r.n)
              /\ reqBuf' = SubSeq(reqBuf, r.n + 1, Len(reqBuf))
              /\ tracker' = IF r.done THEN NoTracker ELSE r.t
              /\ UNCHANGED <<conversation, arrived, out, proto>>
  BY DEF consumeHTTP1Body
<1>2. CASE r.err
  BY <1>1, <1>2, FailKeeps
<1>3. CASE ~r.err
  <2>1. reqBuf \in Seq(Handed) /\ Len(reqBuf) \in Nat /\ DOMAIN reqBuf = 1 .. Len(reqBuf)
        /\ Tracking(tracker)
    BY <1>1 DEF WatcherInv
  <2>2. r.n \in Nat /\ r.n <= Len(reqBuf) /\ Tracking(r.t)
    BY <2>1, ConsumeTakes
  <2> DEFINE k == r.n
  <2>3. k \in Nat /\ 0 <= k /\ k <= Len(reqBuf) /\ 0 + 1 = 1 /\ Taken + 0 = Taken
    BY <2>2 DEF WatcherInv, Buffered
  <2>4. /\ pending' = SubSeq(reqBuf, 0 + 1, k) /\ reqBuf' = SubSeq(reqBuf, k + 1, Len(reqBuf))
        /\ tracker' = NoTracker \/ Tracking(tracker')
        /\ UNCHANGED <<conversation, arrived, out, proto>>
    BY <1>1, <1>3, <2>2
  <2> HIDE DEF k
  <2>5. pending' \in Seq(Handed) /\ StandFor(pending', Taken, Taken + k)
    <3>1. /\ SubSeq(reqBuf, 0 + 1, k) \in Seq(Handed)
          /\ StandFor(SubSeq(reqBuf, 0 + 1, k), Taken + 0, Taken + k)
      BY <2>3, PartStands
    <3> QED
      BY <2>3, <2>4, <3>1
  <2> QED
    BY <1>1, <2>3, <2>4, <2>5, BodyKeeps
<1> QED
  BY <1>2, <1>3

LEMMA NewHeadSent ==
  ASSUME NEW n \in Nat, NEW s, NEW es, NEW host, NEW headers \in HeadersWritten,
         NEW frames \in {1, 2}, NEW i \in 1 .. Len(wire), host \in rewriteAliangHost(wire[i].host),
         s = 0 \/ s = wire[i].s, es = FALSE \/ es = wire[i].es
  PROVE  NewHead(n, s, es, host, headers, frames) \in Handed
<1> DEFINE Ss == {0} \cup {wire[j].s : j \in 1 .. Len(wire)}
           Es == {FALSE} \cup {wire[j].es : j \in 1 .. Len(wire)}
           Hs == UNION {rewriteAliangHost(wire[j].host) : j \in 1 .. Len(wire)}
           Rs == [k : {"rewritten"}, of : Nat, s : Ss, es : Es, host : Hs,
                  headers : HeadersWritten, frames : {1, 2}]
<1>1. s \in Ss
  OBVIOUS
<1>2. es \in Es
  <2>1. FALSE \in Es /\ wire[i].es \in Es
    BY Zenon
  <2> QED
    BY <2>1, Zenon
<1>3. host \in Hs
  OBVIOUS
<1>4. Rs \subseteq Handed
  BY DEF Handed
<1> HIDE DEF Ss, Es, Hs
<1>5. NewHead(n, s, es, host, headers, frames) \in Rs
  BY <1>1, <1>2, <1>3 DEF NewHead
<1> HIDE DEF Rs
<1> QED
  BY <1>4, <1>5

\* The first head end of the buffer.
LEMMA FirstEnd ==
  ASSUME WatcherInv, {i \in 1 .. Len(reqBuf) : reqBuf[i].k = "headEnd"} # {}
  PROVE  LET ends == {i \in 1 .. Len(reqBuf) : reqBuf[i].k = "headEnd"}
             e == CHOOSE i \in ends : \A j \in ends : i <= j
         IN  /\ e \in 1 .. Len(reqBuf) /\ reqBuf[e].k = "headEnd"
             /\ \A i \in 1 .. Len(reqBuf) : i < e => reqBuf[i].k # "headEnd"
<1> DEFINE ends == {i \in 1 .. Len(reqBuf) : reqBuf[i].k = "headEnd"}
<1>1. ends \in SUBSET Nat /\ ends \subseteq 1 .. Len(reqBuf)
  OBVIOUS
<1>2. \A i \in 1 .. Len(reqBuf) : i \in ends <=> reqBuf[i].k = "headEnd"
  OBVIOUS
<1> HIDE DEF ends
<1>3. PICK m \in ends : \A j \in ends : m <= j
  BY <1>1, LeastNumber DEF ends
<1> DEFINE e == CHOOSE i \in ends : \A j \in ends : i <= j
<1>4. e \in ends /\ \A j \in ends : e <= j
  BY <1>3
<1> HIDE DEF e
<1>5. Len(reqBuf) \in Nat
  BY DEF WatcherInv
<1>6. ASSUME NEW i \in 1 .. Len(reqBuf), i < e PROVE reqBuf[i].k # "headEnd"
  <2>1. e \in Nat /\ i \in Nat
    BY <1>1, <1>4, <1>5
  <2>2. ~(e <= i)
    BY <1>6, <2>1
  <2> QED
    BY <1>2, <1>4, <2>2
<1> QED
  BY <1>1, <1>2, <1>4, <1>6 DEF e, ends

\* A head at the front of the buffer, and what stands for it.
LEMMA HeadStands ==
  ASSUME WatcherInv, NEW e \in 1 .. Len(reqBuf), reqBuf[e].k = "headEnd",
         \A i \in 1 .. Len(reqBuf) : i < e => reqBuf[i].k # "headEnd",
         NEW host \in rewriteAliangHost(reqBuf[e].host)
  PROVE  LET h == NewHead(e, 0, FALSE, host, h1Headers(reqBuf[e]), 1) IN
         h \in Handed /\ StandFor(<<h>>, Taken, Taken + e)
<1> DEFINE h == NewHead(e, 0, FALSE, host, h1Headers(reqBuf[e]), 1)
           a == Taken
           b == Taken + e
<1>1. Len(reqBuf) \in Nat /\ a \in Nat /\ \A i \in 1 .. Len(reqBuf) : reqBuf[i] = wire[a + i]
  BY BufferIs
<1>2. e \in Nat /\ b \in Nat /\ a < b /\ b - a = e
  BY <1>1
<1>3. a = arrived - Len(reqBuf) /\ arrived \in Nat /\ arrived <= Len(wire) /\ Len(wire) \in Nat
  BY BufferIs
<1>4. b \in 1 .. Len(wire) /\ wire[b] = reqBuf[e]
  BY <1>1, <1>2, <1>3
<1> HIDE DEF a
<1>5. ASSUME NEW i \in a + 1 .. b - 1 PROVE wire[i].k # "headEnd"
  <2>1. i - a \in 1 .. Len(reqBuf) /\ i - a < e /\ a + (i - a) = i
    BY <1>1, <1>2
  <2> QED
    BY <1>1, <2>1
<1> HIDE DEF b
<1>6. MadeOf(h, a, b)
  <2>1. h = NewHead(b - a, 0, FALSE, host, h1Headers(wire[b]), 1)
    BY <1>2, <1>4
  <2> HIDE DEF h
  <2>2. RewritesHead(h, a, b)
    BY <1>4, <1>5, <2>1 DEF RewritesHead
  <2> QED
    BY <1>2, <2>2 DEF MadeOf
<1>7. h \in Handed
  <2>1. h1Headers(reqBuf[e]) \in HeadersWritten
    BY DEF h1Headers, HeadersWritten
  <2> QED
    BY <1>2, <1>4, <2>1, NewHeadSent
<1> HIDE DEF h
<1>8. StandFor(<<h>>, a, b)
  BY <1>1, <1>2, <1>6, OneStands
<1> QED
  BY <1>7, <1>8 DEF h, a, b

LEMMA HeadersKeep == WatcherInv /\ processH1ReqHeaders => WatcherInv'
<1> SUFFICES ASSUME WatcherInv, processH1ReqHeaders PROVE WatcherInv'
  OBVIOUS
<1> DEFINE n == Len(reqBuf)
           ends == {i \in 1 .. n : reqBuf[i].k = "headEnd"}
           e == CHOOSE i \in ends : \A j \in ends : i <= j
           body == SubSeq(reqBuf, e + 1, n)
           t == newHTTP1BodyTracker(reqBuf[e])
           r == consume(t, body)
           used == IF t = NoTracker THEN 0 ELSE r.n
<1>1. /\ proto = "http1" /\ pending = <<>> /\ tracker = NoTracker
      /\ ends # {}
      /\ UNCHANGED h2Vars /\ UNCHANGED session
      /\ IF ~reqBuf[e].valid \/ (t # NoTracker /\ r.err)
         THEN Fail
         ELSE /\ \E host \in rewriteAliangHost(reqBuf[e].host) :
                    pending' = <<NewHead(e, 0, FALSE, host, h1Headers(reqBuf[e]), 1)>>
                               \o SubSeq(body, 1, used)
              /\ reqBuf' = SubSeq(body, used + 1, Len(body))
              /\ tracker' = IF t = NoTracker \/ r.done THEN NoTracker ELSE r.t
              /\ UNCHANGED <<conversation, arrived, out, proto>>
  BY DEF processH1ReqHeaders
<1>2. e \in 1 .. n /\ reqBuf[e].k = "headEnd" /\ \A i \in 1 .. n : i < e => reqBuf[i].k # "headEnd"
  BY <1>1, FirstEnd
<1> HIDE DEF e
<1>3. reqBuf \in Seq(Handed) /\ n \in Nat /\ n <= Len(reqBuf) /\ e \in Nat /\ e <= n /\ n - e \in Nat
  BY <1>2 DEF WatcherInv
<1>4. body \in Seq(Handed) /\ Len(body) = n - e /\ DOMAIN body = 1 .. n - e
  <2>1. body \in Seq(Handed) /\ Len(body) = n - e
    BY <1>3, PartOf
  <2> HIDE DEF body
  <2> QED
    BY <2>1
<1>5. t = NoTracker \/ Tracking(t)
  <2>1. Taken \in Nat /\ reqBuf[e] = wire[Taken + e]
    BY <1>2 DEF WatcherInv, Buffered
  <2>2. Taken + e \in 1 .. Len(wire)
    BY <1>2, <1>3, <2>1, WireUnits DEF WatcherInv, Taken
  <2>3. reqBuf[e].len \in Nat
    BY <1>2, <2>1, <2>2, WireUnits DEF WatcherInv
  <2> QED
    BY <2>3, NewBodyTracker
<1>6. used \in Nat /\ used <= n - e /\ (t # NoTracker => Tracking(r.t))
  <2>1. CASE t = NoTracker
    BY <1>3, <2>1
  <2>2. CASE t # NoTracker
    <3>1. Tracking(t)
      BY <1>5, <2>2
    <3> HIDE DEF t, body
    <3>2. r.n \in Nat /\ r.n <= n - e /\ Tracking(r.t)
      BY <1>3, <1>4, <3>1, ConsumeTakes
    <3> QED
      BY <2>2, <3>2
  <2> QED
    BY <2>1, <2>2
<1>7. CASE ~reqBuf[e].valid \/ (t # NoTracker /\ r.err)
  <2>1. Fail
    BY <1>1, <1>7
  <2> QED
    BY <1>1, <2>1, FailKeeps
<1>8. CASE ~(~reqBuf[e].valid \/ (t # NoTracker /\ r.err))
  <2>1. PICK host \in rewriteAliangHost(reqBuf[e].host) :
             pending' = <<NewHead(e, 0, FALSE, host, h1Headers(reqBuf[e]), 1)>> \o SubSeq(body, 1, used)
    BY <1>1, <1>8
  <2>2. /\ reqBuf' = SubSeq(body, used + 1, Len(body))
        /\ tracker' = IF t = NoTracker \/ r.done THEN NoTracker ELSE r.t
        /\ UNCHANGED <<conversation, arrived, out, proto>>
    BY <1>1, <1>8
  <2>3. tracker' = NoTracker \/ Tracking(tracker')
    BY <1>6, <2>2
  <2> HIDE DEF used, t, r
  <2>4. SubSeq(body, 1, used) = SubSeq(reqBuf, e + 1, e + used)
        /\ SubSeq(body, used + 1, Len(body)) = SubSeq(reqBuf, (e + used) + 1, n)
    BY <1>3, <1>6, TailParts
  <2> DEFINE h == NewHead(e, 0, FALSE, host, h1Headers(reqBuf[e]), 1)
             k == e + used
             rest == SubSeq(reqBuf, e + 1, k)
  <2>5. h \in Handed /\ StandFor(<<h>>, Taken, Taken + e)
    BY <1>2, HeadStands
  <2>6. k \in Nat /\ e <= k /\ k <= Len(reqBuf)
    BY <1>3, <1>6
  <2>7. pending' = <<h>> \o rest /\ reqBuf' = SubSeq(reqBuf, k + 1, Len(reqBuf))
    BY <2>1, <2>2, <2>4
  <2> HIDE DEF h, k
  <2>8. rest \in Seq(Handed) /\ StandFor(rest, Taken + e, Taken + k)
    BY <1>3, <2>6, PartStands
  <2> HIDE DEF rest
  <2>9. <<h>> \in Seq(Handed)
    BY <2>5
  <2>10. StandFor(<<h>> \o rest, Taken, Taken + k)
    BY <2>5, <2>8, <2>9, StandAfter
  <2>11. <<h>> \o rest \in Seq(Handed)
    BY <2>8, <2>9
  <2> DEFINE given == <<h>> \o rest
  <2>12. pending' \in Seq(Handed) /\ StandFor(pending', Taken, Taken + k)
    <3>1. given \in Seq(Handed) /\ StandFor(given, Taken, Taken + k) /\ pending' = given
      BY <2>7, <2>10, <2>11
    <3> QED
      BY <3>1, Zenon
  <2> QED
    BY <1>1, <2>2, <2>3, <2>6, <2>7, <2>12, BodyKeeps
<1> QED
  BY <1>7, <1>8

\* The header block at the front of the buffer.
LEMMA BlockAtFront ==
  ASSUME WatcherInv, extractCompleteHeaderSequence.n # 0
  PROVE  LET n == extractCompleteHeaderSequence.n IN
         /\ n \in Nat \ {0} /\ 2 * n <= Len(reqBuf)
         /\ FrameAt(n).eh /\ \A i \in 1 .. n - 1 : ~FrameAt(i).eh
         /\ \A i \in 2 .. n : FrameAt(i).t = "CONTINUATION" /\ FrameAt(i).s = FrameAt(1).s
<1> DEFINE there == Len(reqBuf) \div 2
           ends == {i \in 1 .. there : FrameAt(i).eh}
           wrong == {i \in 2 .. there : FrameAt(i).t # "CONTINUATION" \/ FrameAt(i).s # FrameAt(1).s}
           last == CHOOSE i \in ends : \A j \in ends : i <= j
<1>1. Len(reqBuf) \in Nat
  BY DEF WatcherInv
<1>2. there \in Nat /\ 2 * there <= Len(reqBuf)
  BY <1>1
<1>3. ends # {} /\ (\A i \in wrong : i > last) /\ extractCompleteHeaderSequence.n = last
  BY DEF extractCompleteHeaderSequence
<1> HIDE DEF there
<1>4. ends \in SUBSET Nat /\ ends \subseteq 1 .. there
      /\ \A i \in 1 .. there : i \in ends <=> FrameAt(i).eh
  BY <1>2
<1>5. \A i \in 2 .. there : i \notin wrong => FrameAt(i).t = "CONTINUATION" /\ FrameAt(i).s = FrameAt(1).s
  OBVIOUS
<1> HIDE DEF ends, wrong
<1>6. PICK m \in ends : \A j \in ends : m <= j
  BY <1>3, <1>4, LeastNumber
<1>7. last \in ends /\ \A j \in ends : last <= j
  BY <1>6
<1> HIDE DEF last
<1>8. last \in 1 .. there /\ last \in Nat \ {0} /\ 2 * last <= Len(reqBuf)
  BY <1>1, <1>2, <1>4, <1>7
<1>9. ASSUME NEW i \in 1 .. last - 1 PROVE ~FrameAt(i).eh
  <2>1. i \in 1 .. there /\ ~(last <= i)
    BY <1>2, <1>8
  <2> QED
    BY <1>4, <1>7, <2>1
<1>10. ASSUME NEW i \in 2 .. last PROVE FrameAt(i).t = "CONTINUATION" /\ FrameAt(i).s = FrameAt(1).s
  <2>1. i \in 2 .. there /\ ~(i > last)
    BY <1>2, <1>8
  <2> QED
    BY <1>3, <1>5, <2>1
<1> QED
  BY <1>3, <1>4, <1>7, <1>8, <1>9, <1>10

LEMMA BlockStands ==
  ASSUME WatcherInv, NEW n \in Nat \ {0}, 2 * n <= Len(reqBuf),
         FrameAt(1).t = "HEADERS", FrameAt(n).eh, \A i \in 1 .. n - 1 : ~FrameAt(i).eh,
         \A i \in 2 .. n : FrameAt(i).t = "CONTINUATION" /\ FrameAt(i).s = FrameAt(1).s,
         NEW host \in rewriteAliangHost(FrameAt(1).host)
  PROVE  rebuild(n, host) \in Handed /\ StandFor(<<rebuild(n, host)>>, Taken, Taken + 2 * n)
<1> DEFINE h == rebuild(n, host)
           a == Taken
           b == Taken + 2 * n
           HeaderOf(i) == wire[a + (2 * i - 1)]
<1>1. Len(reqBuf) \in Nat /\ a \in Nat /\ \A i \in 1 .. Len(reqBuf) : reqBuf[i] = wire[a + i]
  BY DEF WatcherInv, Buffered
<1>2. n \in Nat /\ n > 0 /\ b \in Nat /\ a < b
  BY <1>1
<1>3. a = arrived - Len(reqBuf) /\ arrived \in Nat /\ arrived <= Len(wire) /\ Len(wire) \in Nat
  BY WireUnits DEF WatcherInv, Taken
<1> HIDE DEF a
<1>4. ASSUME NEW i \in 1 .. n PROVE FrameAt(i) = HeaderOf(i)
  <2>1. 2 * i - 1 \in 1 .. Len(reqBuf)
    BY <1>1, <1>2
  <2> QED
    BY <1>1, <2>1 DEF FrameAt
<1>5. HeaderOf(1) = wire[a + 1] /\ a + 1 \in 1 .. Len(wire) /\ 1 \in 1 .. n /\ n \in 1 .. n
  BY <1>1, <1>2, <1>3
<1>6. FrameAt(1) = wire[a + 1]
  BY <1>4, <1>5
<1>7. h = NewHead(2 * n, FrameAt(1).s, FrameAt(1).es, host, h2Headers(FrameAt(1).initial), maxFrame)
  BY DEF rebuild
<1>8. maxFrame \in {1, 2} /\ h2Headers(FrameAt(1).initial) \in HeadersWritten
      /\ 2 * n \in Nat
  BY <1>2 DEF WatcherInv, h2Headers, HeadersWritten
<1>9. h \in Handed
  <2> DEFINE i == a + 1
             headers == h2Headers(FrameAt(1).initial)
             m == 2 * n
             s == FrameAt(1).s
             es == FrameAt(1).es
  <2>1. s = wire[i].s /\ es = wire[i].es /\ host \in rewriteAliangHost(wire[i].host) /\ i \in 1 .. Len(wire)
        /\ headers \in HeadersWritten /\ m \in Nat
    BY <1>5, <1>6, <1>8
  <2>2. h = NewHead(m, s, es, host, headers, maxFrame)
    BY <1>7
  <2> HIDE DEF h, i, headers, m, s, es
  <2> QED
    BY <1>8, <2>1, <2>2, NewHeadSent
<1>10. RewritesBlock(h, a, b)
  <2>1. wire[a + 1].t = "HEADERS" /\ HeaderOf(n).eh
    BY <1>4, <1>5, <1>6
  <2>2. ASSUME NEW i \in 1 .. n - 1 PROVE ~HeaderOf(i).eh
    <3>1. i \in 1 .. n /\ ~FrameAt(i).eh
      BY <1>2
    <3> QED
      BY <1>4, <3>1
  <2>3. ASSUME NEW i \in 2 .. n PROVE HeaderOf(i).t = "CONTINUATION" /\ HeaderOf(i).s = wire[a + 1].s
    <3>1. i \in 1 .. n
      BY <1>2
    <3> QED
      BY <1>4, <1>6, <3>1
  <2>4. /\ host \in rewriteAliangHost(wire[a + 1].host)
        /\ h = NewHead(2 * n, wire[a + 1].s, wire[a + 1].es, host, h2Headers(wire[a + 1].initial), maxFrame)
    BY <1>6, <1>7
  <2>5. n \in Nat \ {0} /\ b = a + 2 * n
    BY DEF a
  <2> HIDE DEF h, b
  <2> QED
    BY <1>8, <2>1, <2>2, <2>3, <2>4, <2>5 DEF RewritesBlock
<1> HIDE DEF h, b
<1>11. MadeOf(h, a, b)
  BY <1>2, <1>10 DEF MadeOf
<1>12. StandFor(<<h>>, a, b)
  BY <1>1, <1>2, <1>11, OneStands
<1> QED
  BY <1>9, <1>12 DEF h, a, b

\* Joining sequences, without what the solver knows of it.
JoinedTo(s, t) == s \o t
LEMMA JoinedAssoc == 
  ASSUME NEW T, NEW a \in Seq(T), NEW b \in Seq(T), NEW c \in Seq(T)
  PROVE  JoinedTo(a, b) \in Seq(T) /\ JoinedTo(JoinedTo(a, b), c) = JoinedTo(a, JoinedTo(b, c))
BY ConcatAssociative DEF JoinedTo

LEMMA JoinThree ==
  ASSUME NEW T, NEW a \in Seq(T), NEW b \in Seq(T), NEW c \in Seq(T),
         NEW x, x = a \o b, NEW y, y = a \o (b \o c)
  PROVE  y = x \o c
OBVIOUS

LEMMA JoinFour ==
  ASSUME NEW T, NEW a \in Seq(T), NEW b \in Seq(T), NEW c \in Seq(T), NEW d \in Seq(T),
         NEW x, x = a \o (b \o c), NEW y, y = a \o (b \o (c \o d))
  PROVE  y = x \o d
<1>1. x = JoinedTo(a, JoinedTo(b, c)) /\ y = JoinedTo(a, JoinedTo(b, JoinedTo(c, d)))
  BY DEF JoinedTo
<1>2. JoinedTo(b, c) \in Seq(T)
  BY JoinedAssoc
<1>3. JoinedTo(b, JoinedTo(c, d)) = JoinedTo(JoinedTo(b, c), d)
  BY JoinedAssoc
<1>4. JoinedTo(a, JoinedTo(JoinedTo(b, c), d)) = JoinedTo(JoinedTo(a, JoinedTo(b, c)), d)
  BY <1>2, JoinedAssoc
<1>5. y = JoinedTo(x, d)
  BY <1>1, <1>3, <1>4
<1> QED
  BY <1>5 DEF JoinedTo

\* HTTP/2: what leaves the buffer goes to preBuff.
LEMMA ForwardKeeps ==
  ASSUME WatcherInv, proto = "http2", NEW t \in Seq(Handed), Forward(t), UNCHANGED session,
         NEW k \in Nat, k <= Len(reqBuf), reqBuf' = SubSeq(reqBuf, k + 1, Len(reqBuf)),
         StandFor(t, Taken, Taken + k), UNCHANGED <<tracker, maxFrame>>
  PROVE  WatcherInv'
<1>1. /\ UNCHANGED <<conversation, arrived, pending, out, proto, prefaceSent>>
      /\ preBuff' = preBuff \o t /\ h2step' = "loop"
  BY DEF Forward
<1>2. HeldPreface' = HeldPreface
  BY <1>1 DEF HeldPreface
<1>3. Handed' = Handed /\ wire' = wire
  BY <1>1, SameHanded, SameWire
<1>4. Given' = Given \o t
  <2> DEFINE p == pending \o HeldPreface
  <2>1. out \in Seq(Handed) /\ p \in Seq(Handed) /\ preBuff \in Seq(Handed)
    BY DEF WatcherInv
  <2>2. Given = out \o (p \o preBuff) /\ Given' = out \o (p \o (preBuff \o t))
    BY <1>1, <1>2 DEF Given
  <2> HIDE DEF p
  <2> DEFINE x == Given
             y == Given'
  <2>3. x = out \o (p \o preBuff)
    BY <2>2
  <2>4. y = out \o (p \o (preBuff \o t))
    BY <2>2
  <2> HIDE DEF x, y
  <2>5. y = x \o t
    BY <2>1, <2>3, <2>4, JoinFour, SMTT(60)
  <2> QED
    BY <2>5 DEF x, y
<1>5. reqBuf' \in Seq(Handed) /\ Buffered' /\ StandFor(Given, 0, Taken)'
  BY <1>1, <1>4, Advance
<1>6. preBuff' \in Seq(Handed)
  BY <1>1 DEF WatcherInv
<1>7. Around'
  BY <1>1, <1>2, <1>3, <1>6 DEF WatcherInv, Around
<1> QED
  BY <1>1, <1>5, <1>7, ThenWatcherInv

LEMMA FallbackKeeps ==
  ASSUME WatcherInv, proto = "http2", pending = <<>>, fallback, UNCHANGED <<session, tracker, maxFrame>>
  PROVE  WatcherInv'
<1>1. /\ UNCHANGED <<conversation, arrived, out>>
      /\ proto' = "passthrough" /\ h2step' = "loop" /\ reqBuf' = <<>> /\ preBuff' = <<>>
      /\ pending' = HeldPreface \o preBuff \o reqBuf
  BY DEF fallback, HeldPreface
<1>2. HeldPreface' = <<>>
  BY <1>1 DEF HeldPreface
<1>3. Handed' = Handed /\ wire' = wire
  BY <1>1, SameHanded, SameWire
<1>4. out \in Seq(Handed) /\ HeldPreface \in Seq(Handed) /\ preBuff \in Seq(Handed) /\ reqBuf \in Seq(Handed)
      /\ HeldPreface \o preBuff \in Seq(Handed)
  BY DEF WatcherInv
<1>5. pending' \in Seq(Handed)
  BY <1>1, <1>4
<1>6. Given' = Given \o reqBuf
  <2> DEFINE p == HeldPreface \o preBuff
  <2>1. Given = out \o p
    BY <1>4, EmptyJoins DEF Given
  <2>2. Given' = out \o (p \o reqBuf)
    BY <1>1, <1>2, <1>4, <1>5, EmptyJoins DEF Given
  <2>3. p \in Seq(Handed)
    BY <1>4
  <2> HIDE DEF p
  <2> QED
    BY <1>4, <2>1, <2>2, <2>3, JoinThree, SMTT(30)
<1>7. reqBuf' \in Seq(Handed) /\ Buffered' /\ StandFor(Given, 0, Taken)'
  BY <1>1, <1>4, <1>6, AllStand, Advance
<1>8. Around'
  BY <1>1, <1>2, <1>3, <1>5, EmptyJoins DEF WatcherInv, Around
<1> QED
  BY <1>1, <1>7, <1>8, ThenWatcherInv

\* Steps that touch nothing the stream is made of.
LEMMA AsideKeeps ==
  ASSUME WatcherInv, UNCHANGED <<conversation, session, arrived, reqBuf, pending, out, proto, preBuff,
                                 prefaceSent, tracker>>,
         h2step' = "frame" => proto = "http2" /\ FrameThere, maxFrame' \in {1, 2}
  PROVE  WatcherInv'
<1>1. HeldPreface' = HeldPreface
  BY DEF HeldPreface
<1>2. Given' = Given
  BY <1>1 DEF Given
<1>3. reqBuf' \in Seq(Handed) /\ Buffered' /\ StandFor(Given, 0, Taken)'
  BY <1>2, Rearrange
<1>4. Handed' = Handed /\ wire' = wire
  BY SameHanded, SameWire
<1>5. Around'
  BY <1>1, <1>4 DEF WatcherInv, Around, FrameThere
<1> QED
  BY <1>3, <1>5, ThenWatcherInv

LEMMA RequestFrameKeeps == WatcherInv /\ processHttp2RequestFrame => WatcherInv'
<1> SUFFICES ASSUME WatcherInv, processHttp2RequestFrame PROVE WatcherInv'
  OBVIOUS
<1>1. /\ proto = "http2" /\ pending = <<>> /\ h2step = "frame"
      /\ IF FrameAt(1).t = "HEADERS" THEN headersFrame ELSE otherFrame
      /\ UNCHANGED <<session, tracker, maxFrame>>
  BY DEF processHttp2RequestFrame, h1Vars
<1>2. Len(reqBuf) \in Nat /\ Len(reqBuf) >= 2
  BY <1>1 DEF WatcherInv, FrameThere
<1>3. CASE FrameAt(1).t = "HEADERS" /\ fallback
  BY <1>1, <1>3, FallbackKeeps
<1>4. CASE FrameAt(1).t = "HEADERS" /\ h2step' = "parsed" /\ UNCHANGED <<connVars, prefaceSent, preBuff>>
  BY <1>1, <1>4, AsideKeeps DEF connVars, WatcherInv
<1> DEFINE n == extractCompleteHeaderSequence.n
<1>5. CASE /\ FrameAt(1).t = "HEADERS" /\ n # 0
           /\ \E host \in rewriteAliangHost(FrameAt(1).host) : Forward(<<rebuild(n, host)>>)
           /\ reqBuf' = SubSeq(reqBuf, 2 * n + 1, Len(reqBuf))
  <2>1. /\ n \in Nat \ {0} /\ 2 * n <= Len(reqBuf)
        /\ FrameAt(n).eh /\ \A i \in 1 .. n - 1 : ~FrameAt(i).eh
        /\ \A i \in 2 .. n : FrameAt(i).t = "CONTINUATION" /\ FrameAt(i).s = FrameAt(1).s
    BY <1>5, BlockAtFront
  <2>2. PICK host \in rewriteAliangHost(FrameAt(1).host) : Forward(<<rebuild(n, host)>>)
    BY <1>5
  <2> HIDE DEF n
  <2> DEFINE h == rebuild(n, host)
             k == 2 * n
  <2>3. h \in Handed /\ StandFor(<<h>>, Taken, Taken + k)
    BY <1>5, <2>1, BlockStands
  <2>4. k \in Nat /\ k <= Len(reqBuf) /\ reqBuf' = SubSeq(reqBuf, k + 1, Len(reqBuf)) /\ Forward(<<h>>)
    BY <1>5, <2>1, <2>2
  <2> HIDE DEF h, k
  <2>5. <<h>> \in Seq(Handed)
    BY <2>3
  <2> QED
    BY <1>1, <2>3, <2>4, <2>5, ForwardKeeps
<1>6. CASE FrameAt(1).t # "HEADERS" /\ otherFrame
  <2> DEFINE t == SubSeq(reqBuf, 1, 2)
  <2>1. Forward(t) /\ reqBuf' = SubSeq(reqBuf, 2 + 1, Len(reqBuf))
    BY <1>6 DEF otherFrame
  <2>2. t \in Seq(Handed) /\ StandFor(t, Taken, Taken + 2)
    <3>1. /\ SubSeq(reqBuf, 0 + 1, 2) \in Seq(Handed)
          /\ StandFor(SubSeq(reqBuf, 0 + 1, 2), Taken + 0, Taken + 2)
      BY <1>2, PartStands
    <3>2. 0 + 1 = 1 /\ Taken + 0 = Taken
      BY DEF WatcherInv, Buffered
    <3> QED
      BY <3>1, <3>2
  <2> HIDE DEF t
  <2> QED
    BY <1>1, <1>2, <2>1, <2>2, ForwardKeeps
<1>7. CASE FrameAt(1).t = "HEADERS" /\ headersFrame
  <2>1. \/ fallback
        \/ h2step' = "parsed" /\ UNCHANGED <<connVars, prefaceSent, preBuff>>
        \/ /\ n # 0
           /\ \E host \in rewriteAliangHost(FrameAt(1).host) : Forward(<<rebuild(n, host)>>)
           /\ reqBuf' = SubSeq(reqBuf, 2 * n + 1, Len(reqBuf))
    BY <1>7 DEF headersFrame
  <2> QED
    BY <1>3, <1>4, <1>5, <1>7, <2>1
<1> QED
  BY <1>1, <1>6, <1>7

LEMMA NextFrameKeeps == WatcherInv /\ http2NextFrame => WatcherInv'
<1> SUFFICES ASSUME WatcherInv, http2NextFrame PROVE WatcherInv'
  OBVIOUS
<1>1. /\ UNCHANGED <<conversation, session, arrived, reqBuf, pending, out, proto, preBuff, prefaceSent,
                     tracker, maxFrame>>
      /\ proto = "http2" /\ (h2step' = "frame" => FrameThere)
  BY DEF http2NextFrame, connVars, h1Vars
<1> QED
  BY <1>1, AsideKeeps DEF WatcherInv

LEMMA ResponseFramesKeep == WatcherInv /\ observeHTTP2ResponseFrames => WatcherInv'
<1> SUFFICES ASSUME WatcherInv, observeHTTP2ResponseFrames PROVE WatcherInv'
  OBVIOUS
<1>1. /\ UNCHANGED <<conversation, session, arrived, reqBuf, pending, out, proto, preBuff, prefaceSent,
                     tracker, h2step>>
      /\ maxFrame' = maxFrame \/ maxFrame' = 2
  BY DEF observeHTTP2ResponseFrames, applyHTTP2Setting, connVars, h1Vars
<1> QED
  BY <1>1, AsideKeeps DEF WatcherInv

LEMMA OutputKeeps == WatcherInv /\ http2Output => WatcherInv'
<1> SUFFICES ASSUME WatcherInv, http2Output PROVE WatcherInv'
  OBVIOUS
<1>1. /\ proto = "http2" /\ pending = <<>>
      /\ UNCHANGED <<conversation, session, arrived, reqBuf, out, proto, tracker, maxFrame>>
      /\ pending' = HeldPreface \o preBuff
      /\ prefaceSent' = TRUE /\ preBuff' = <<>> /\ h2step' = "loop"
  BY DEF http2Output, HeldPreface, h1Vars
<1>2. HeldPreface' = <<>>
  BY <1>1 DEF HeldPreface
<1>3. HeldPreface \in Seq(Handed) /\ preBuff \in Seq(Handed) /\ pending' \in Seq(Handed)
  BY <1>1 DEF WatcherInv
<1>4. Given' = Given
  <2>1. Given = out \o (HeldPreface \o preBuff)
    BY <1>1, <1>3, EmptyJoins DEF Given
  <2>2. Given' = out \o pending'
    BY <1>1, <1>2, <1>3, EmptyJoins DEF Given
  <2> QED
    BY <1>1, <2>1, <2>2
<1>5. reqBuf' \in Seq(Handed) /\ Buffered' /\ StandFor(Given, 0, Taken)'
  BY <1>1, <1>4, Rearrange
<1>6. Handed' = Handed /\ wire' = wire
  BY <1>1, SameHanded, SameWire
<1>7. Around'
  BY <1>1, <1>2, <1>3, <1>6, EmptyJoins DEF WatcherInv, Around
<1> QED
  BY <1>1, <1>5, <1>7, ThenWatcherInv

LEMMA PendingKeeps == WatcherInv /\ readFromPending => WatcherInv'
<1> SUFFICES ASSUME WatcherInv, readFromPending PROVE WatcherInv'
  OBVIOUS
<1>1. UNCHANGED <<conversation, session, arrived, reqBuf, proto, tracker, preBuff, prefaceSent, h2step, maxFrame>>
  BY DEF readFromPending, h1Vars, h2Vars
<1>2. PICK n \in 1 .. Len(pending) : /\ out' = out \o SubSeq(pending, 1, n)
                                    /\ pending' = SubSeq(pending, n + 1, Len(pending))
  BY DEF readFromPending
<1> DEFINE p == SubSeq(pending, 1, n)
           q == SubSeq(pending, n + 1, Len(pending))
<1>3. out \in Seq(Handed) /\ pending \in Seq(Handed) /\ HeldPreface \in Seq(Handed) /\ preBuff \in Seq(Handed)
  BY DEF WatcherInv
<1>4. p \in Seq(Handed) /\ q \in Seq(Handed)
  BY <1>3
<1>5. pending = p \o q
  BY <1>3
<1>6. out' = out \o p /\ pending' = q
  BY <1>2
<1> HIDE DEF p, q
<1>7. out' \in Seq(Handed) /\ pending' \in Seq(Handed)
  BY <1>3, <1>4, <1>6
<1>8. HeldPreface' = HeldPreface
  BY <1>1 DEF HeldPreface
<1>9. Given' = Given
  <2> DEFINE h == HeldPreface \o preBuff
             x == Given
             y == Given'
  <2>1. h \in Seq(Handed)
    BY <1>3
  <2>2. \A s \in Seq(Handed) : s \o HeldPreface \o preBuff = s \o h
    <3>1. ASSUME NEW s \in Seq(Handed) PROVE s \o HeldPreface \o preBuff = s \o h
      BY <1>3, JoinThree, SMTT(30)
    <3> QED
      BY <3>1
  <2>3. x = out \o (pending \o h)
    BY <1>3, <2>2 DEF Given
  <2>4. y = (out \o p) \o (q \o h)
    <3>1. y = out' \o (pending' \o HeldPreface \o preBuff)
      BY <1>1, <1>8 DEF Given
    <3> QED
      BY <1>4, <1>6, <2>2, <3>1
  <2> HIDE DEF x, y, h
  <2>5. x = y
    <3>1. /\ x = JoinedTo(out, JoinedTo(pending, h)) /\ pending = JoinedTo(p, q)
          /\ y = JoinedTo(JoinedTo(out, p), JoinedTo(q, h))
      BY <1>5, <2>3, <2>4 DEF JoinedTo
    <3>2. JoinedTo(q, h) \in Seq(Handed) /\ JoinedTo(pending, h) = JoinedTo(p, JoinedTo(q, h))
      BY <1>3, <1>4, <2>1, <3>1, JoinedAssoc
    <3>3. JoinedTo(out, JoinedTo(p, JoinedTo(q, h))) = JoinedTo(JoinedTo(out, p), JoinedTo(q, h))
      BY <1>3, <1>4, <3>2, JoinedAssoc
    <3> QED
      BY <3>1, <3>2, <3>3
  <2> QED
    BY <2>5 DEF x, y
<1>10. reqBuf' \in Seq(Handed) /\ Buffered' /\ StandFor(Given, 0, Taken)'
  BY <1>1, <1>9, Rearrange
<1>11. Handed' = Handed /\ wire' = wire
  BY <1>1, SameHanded, SameWire
<1>12. Around'
  BY <1>1, <1>7, <1>8, <1>11 DEF WatcherInv, Around, FrameThere
<1> QED
  BY <1>1, <1>10, <1>12, ThenWatcherInv

LEMMA PassKeeps == WatcherInv /\ passBuffered => WatcherInv'
<1> SUFFICES ASSUME WatcherInv, passBuffered PROVE WatcherInv'
  OBVIOUS
<1>1. /\ UNCHANGED <<conversation, session, arrived, out, proto, tracker, preBuff, prefaceSent, h2step, maxFrame>>
      /\ proto = "passthrough" /\ pending = <<>> /\ pending' = reqBuf /\ reqBuf' = <<>>
  BY DEF passBuffered, h1Vars, h2Vars
<1>2. HeldPreface = <<>> /\ HeldPreface' = <<>> /\ preBuff = <<>> /\ preBuff' = <<>>
  BY <1>1 DEF HeldPreface, WatcherInv
<1>3. out \in Seq(Handed) /\ reqBuf \in Seq(Handed)
  BY DEF WatcherInv
<1>4. Given' = Given \o reqBuf
  <2>1. Given = out
    BY <1>1, <1>2, <1>3, EmptyJoins DEF Given
  <2>2. Given' = out \o reqBuf
    BY <1>1, <1>2, <1>3, EmptyJoins DEF Given
  <2> QED
    BY <2>1, <2>2
<1>5. reqBuf' \in Seq(Handed) /\ Buffered' /\ StandFor(Given, 0, Taken)'
  BY <1>1, <1>3, <1>4, AllStand, Advance
<1>6. Handed' = Handed /\ wire' = wire
  BY <1>1, SameHanded, SameWire
<1>7. Around'
  BY <1>1, <1>2, <1>3, <1>6, EmptyJoins DEF WatcherInv, Around
<1> QED
  BY <1>1, <1>5, <1>7, ThenWatcherInv

LEMMA Span ==
  ASSUME NEW x \in Nat, NEW n \in Nat, n >= 1
  PROVE  x + 1 \in Int /\ x + n \in Int /\ (x + n) - (x + 1) + 1 = n /\ x + 1 <= x + n
OBVIOUS

LEMMA ReadKeeps == WatcherInv /\ connRead => WatcherInv'
<1> SUFFICES ASSUME WatcherInv, connRead PROVE WatcherInv'
  OBVIOUS
<1>1. /\ UNCHANGED <<conversation, session, pending, proto, tracker, preBuff, prefaceSent, maxFrame>>
      /\ h2step' = "loop" /\ Blocked
  BY DEF connRead, h1Vars
<1>2. PICK n \in 1 .. (Len(wire) - arrived) :
         LET read == SubSeq(wire, arrived + 1, arrived + n) IN
         /\ arrived' = arrived + n
         /\ IF proto = "passthrough" THEN out' = out \o read /\ UNCHANGED reqBuf
            ELSE reqBuf' = reqBuf \o read /\ UNCHANGED out
  BY DEF connRead
<1> DEFINE read == SubSeq(wire, arrived + 1, arrived + n)
           m == Len(reqBuf)
<1>3. /\ out \in Seq(Handed) /\ pending \in Seq(Handed) /\ preBuff \in Seq(Handed) /\ reqBuf \in Seq(Handed)
      /\ arrived \in Nat /\ m \in Nat /\ Len(wire) \in Nat /\ Taken = arrived - m /\ Taken \in Nat
      /\ \A i \in 1 .. m : reqBuf[i] = wire[Taken + i]
      /\ n \in Nat /\ n >= 1 /\ arrived + n <= Len(wire)
  <2>1. out \in Seq(Handed) /\ pending \in Seq(Handed) /\ preBuff \in Seq(Handed) /\ reqBuf \in Seq(Handed)
    BY DEF WatcherInv
  <2>2. arrived \in Nat /\ Len(wire) \in Nat
    BY BufferIs
  <2>3. n \in Nat /\ n >= 1 /\ arrived + n <= Len(wire)
    BY <2>2
  <2> QED
    BY <2>1, <2>2, <2>3, BufferIs
<1>4. read \in Seq(Handed) /\ Len(read) = n /\ \A i \in 1 .. n : read[i] = wire[arrived + i]
  <2> DEFINE j == arrived + 1
             k == arrived + n
  <2>0. arrived \in Nat /\ n \in Nat /\ n >= 1
    BY <1>3
  <2>1. j \in Int /\ k \in Int /\ k - j + 1 = n /\ j <= k
    BY <2>0, Span
  <2>2. \A i \in j .. k : wire[i] \in Handed
    <3>1. \A i \in j .. k : i \in 1 .. Len(wire)
      BY <1>3
    <3> QED
      BY <3>1, WireUnits DEF WatcherInv
  <2>3. \A i \in 1 .. n : j + i - 1 = arrived + i
    BY <1>3
  <2> HIDE DEF j, k
  <2>4. /\ SubSeq(wire, j, k) \in Seq(Handed)
        /\ Len(SubSeq(wire, j, k)) = IF j <= k THEN k - j + 1 ELSE 0
        /\ \A i \in 1 .. k - j + 1 : SubSeq(wire, j, k)[i] = wire[j + i - 1]
    BY <2>1, <2>2, SubSeqProperties
  <2> QED
    BY <2>1, <2>3, <2>4 DEF j, k
<1>5. arrived' = arrived + n
      /\ IF proto = "passthrough" THEN out' = out \o read /\ UNCHANGED reqBuf
         ELSE reqBuf' = reqBuf \o read /\ UNCHANGED out
  BY <1>2
<1> HIDE DEF read, m
<1>6. HeldPreface' = HeldPreface
  BY <1>1 DEF HeldPreface
<1>7. Handed' = Handed /\ wire' = wire
  BY <1>1, SameHanded, SameWire
<1>8. ASSUME out' \in Seq(Handed) PROVE Around'
  <2>0. arrived \in Nat /\ n \in Nat /\ arrived + n <= Len(wire) /\ arrived' = arrived + n
    BY <1>3, <1>5
  <2>1. arrived' \in Nat /\ arrived' <= Len(wire)
    BY ONLY <2>0
  <2> QED
    BY <1>1, <1>3, <1>6, <1>7, <1>8, <2>1, SMTT(40) DEF WatcherInv, Around
<1>9. CASE proto = "passthrough"
  <2>1. out' = out \o read /\ reqBuf' = reqBuf /\ out' \in Seq(Handed)
    <3>1. out' = out \o read /\ reqBuf' = reqBuf
      BY <1>5, <1>9
    <3>2. out \o read \in Seq(Handed)
      BY <1>3, <1>4
    <3> QED
      BY <3>1, <3>2
  <2>2. reqBuf = <<>> /\ pending = <<>> /\ preBuff = <<>> /\ HeldPreface = <<>>
    BY <1>1, <1>9 DEF Blocked, WatcherInv, HeldPreface
  <2>3. m = 0 /\ Taken = arrived /\ Taken' = arrived + n
    BY <1>3, <1>5, <2>1, <2>2 DEF m, Taken
  <2>4. Given = out /\ Given' = out \o read
    BY <1>1, <1>3, <1>6, <2>1, <2>2, EmptyJoins DEF Given
  <2>5. StandFor(read, arrived, arrived + n)
    BY <1>3, <1>4, CopiesStand
  <2>6. StandFor(out, 0, arrived)
    BY <2>3, <2>4 DEF WatcherInv
  <2>7. StandFor(out \o read, 0, arrived + n)
    BY <1>3, <1>4, <2>5, <2>6, StandAfter
  <2>8. StandFor(Given', 0, Taken')
    BY <2>3, <2>4, <2>7
  <2>9. StandFor(Given, 0, Taken)'
    BY <1>1, <2>8, SameStand
  <2>10. reqBuf' \in Seq(Handed) /\ Buffered'
    BY <1>3, <2>1, <2>2, <2>3 DEF Buffered
  <2> QED
    BY <1>1, <1>8, <2>1, <2>9, <2>10, ThenWatcherInv
<1>10. CASE proto # "passthrough"
  <2>1. out' = out /\ reqBuf' = reqBuf \o read
    BY <1>5, <1>10
  <2>2. reqBuf' \in Seq(Handed) /\ Len(reqBuf') = m + n
        /\ \A i \in 1 .. m + n : reqBuf'[i] = IF i <= m THEN reqBuf[i] ELSE read[i - m]
    <3>1. /\ reqBuf \o read \in Seq(Handed) /\ Len(reqBuf \o read) = Len(reqBuf) + Len(read)
          /\ \A i \in 1 .. Len(reqBuf) + Len(read) :
                (reqBuf \o read)[i] = IF i <= Len(reqBuf) THEN reqBuf[i] ELSE read[i - Len(reqBuf)]
      BY <1>3, <1>4, ConcatProperties, ZenonT(40)
    <3>2. Len(reqBuf) = m /\ Len(read) = n
      BY <1>4 DEF m
    <3> QED
      BY <2>1, <3>1, <3>2
  <2>3. Taken' = Taken
    <3>1. Taken' = (arrived + n) - (m + n)
      BY <1>5, <2>2 DEF Taken
    <3> QED
      BY <1>3, <3>1
  <2>4. ASSUME NEW i \in 1 .. Len(reqBuf') PROVE reqBuf'[i] = wire'[Taken' + i]
    <3>1. CASE i <= m
      <4>1. i \in 1 .. m /\ i \in 1 .. m + n
        BY <1>3, <2>2, <3>1
      <4> QED
        BY <1>3, <1>7, <2>2, <2>3, <3>1, <4>1
    <3>2. CASE ~(i <= m)
      <4>1. i - m \in 1 .. n /\ i \in 1 .. m + n /\ arrived + (i - m) = Taken + i
        BY <1>3, <2>2, <3>2
      <4>2. read[i - m] = wire[arrived + (i - m)]
        BY <1>4, <4>1
      <4> QED
        BY <1>7, <2>2, <2>3, <3>2, <4>1, <4>2
    <3> QED
      BY <3>1, <3>2
  <2>5. Buffered'
    BY <1>3, <2>3, <2>4 DEF Buffered
  <2>6. Given' = Given
    BY <1>1, <1>6, <2>1 DEF Given
  <2>7. StandFor(Given', 0, Taken')
    BY <2>3, <2>6 DEF WatcherInv
  <2>8. StandFor(Given, 0, Taken)'
    BY <1>1, <2>7, SameStand
  <2> QED
    BY <1>1, <1>3, <1>8, <2>1, <2>2, <2>5, <2>8, ThenWatcherInv
<1> QED
  BY <1>9, <1>10

LEMMA WatcherStarts == WatcherInit => WatcherInv
<1> SUFFICES ASSUME WatcherInit PROVE WatcherInv
  OBVIOUS
<1>1. reqBuf = <<>> /\ pending = <<>> /\ out = <<>> /\ preBuff = <<>> /\ HeldPreface = <<>> /\ arrived = 0
  BY DEF WatcherInit, HeldPreface
<1>2. Given = <<>> /\ Taken = 0
  <2>1. Len(<<>>) = 0 /\ <<>> \in Seq(Handed)
    OBVIOUS
  <2>2. <<>> \o <<>> = <<>>
    BY <2>1, EmptyJoins
  <2>3. Given = <<>> \o (<<>> \o <<>> \o <<>>)
    BY <1>1 DEF Given
  <2>4. Given = <<>>
    BY <2>2, <2>3
  <2>5. Taken = 0
    <3>1. Len(reqBuf) = 0 /\ arrived = 0
      BY <1>1
    <3> QED
      BY <3>1 DEF Taken
  <2> QED
    BY <2>4, <2>5
<1>3. StandFor(Given, 0, Taken)
  BY <1>2, NoneStand
<1>4. Buffered
  BY <1>1, <1>2 DEF Buffered
<1>5. Len(wire) \in Nat
  BY WireUnits DEF WatcherInit
<1> QED
  BY <1>1, <1>3, <1>4, <1>5, EmptyJoins DEF WatcherInit, WatcherInv

LEMMA WatcherInvKept == WatcherInv /\ [WatcherNext]_watcherVars => WatcherInv'
<1> SUFFICES ASSUME WatcherInv, [WatcherNext]_watcherVars PROVE WatcherInv'
  OBVIOUS
<1>1. CASE UNCHANGED watcherVars
  <2>1. UNCHANGED <<conversation, session, arrived, reqBuf, pending, out, proto, preBuff, prefaceSent,
                    tracker, maxFrame, h2step>>
    BY <1>1 DEF watcherVars, connVars, h1Vars, h2Vars
  <2> QED
    BY <2>1, AsideKeeps DEF WatcherInv
<1> QED
  BY <1>1, SniffKeeps, HeadersKeep, ConsumeKeeps, NextFrameKeeps, RequestFrameKeeps, OutputKeeps,
     ResponseFramesKeep, PendingKeeps, PassKeeps, ReadKeeps DEF WatcherNext

\* WatcherWrapConn, for any client, cut into any reads: every unit that has arrived is handed on or
\* held, once and in its place, and a head that is not the client's own stands for one whole head.
THEOREM StreamKept == WatcherSpec => []NothingLostOrMoved
<1>1. WatcherInv => NothingLostOrMoved
  <2> SUFFICES ASSUME WatcherInv PROVE NothingLostOrMoved
    OBVIOUS
  <2>1. /\ out \in Seq(Handed) /\ pending \in Seq(Handed) /\ preBuff \in Seq(Handed) /\ reqBuf \in Seq(Handed)
        /\ HeldPreface \in Seq(Handed) /\ Given \in Seq(Handed)
        /\ arrived \in Nat /\ Len(reqBuf) \in Nat /\ Taken \in Nat /\ Taken = arrived - Len(reqBuf)
    BY DEF WatcherInv, Given, Buffered, Taken
  <2>2. StandFor(reqBuf, Taken, arrived)
    <3>1. StandFor(reqBuf, Taken, Taken + Len(reqBuf))
      BY AllStand
    <3>2. Taken + Len(reqBuf) = arrived
      BY <2>1
    <3> QED
      BY <3>1, <3>2
  <2>3. StandFor(Given \o reqBuf, 0, arrived)
    BY <2>1, <2>2, StandAfter DEF WatcherInv
  <2>4. out \o HeldBack = Given \o reqBuf
    <3> DEFINE p == pending \o HeldPreface \o preBuff
               x == Given
               y == out \o HeldBack
    <3>1. p \in Seq(Handed)
      BY <2>1
    <3>2. x = out \o p /\ y = out \o (p \o reqBuf)
      BY DEF Given, HeldBack
    <3> HIDE DEF p, x, y
    <3>3. y = x \o reqBuf
      BY <2>1, <3>1, <3>2, JoinThree, SMTT(60)
    <3> QED
      BY <3>3 DEF x, y
  <2> QED
    BY <2>3, <2>4 DEF NothingLostOrMoved
<1> QED
  BY <1>1, WatcherStarts, WatcherInvKept, PTL DEF WatcherSpec

=============================================================================
