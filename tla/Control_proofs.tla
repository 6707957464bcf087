---------------------------- MODULE Control_proofs ----------------------------
(***************************************************************************)
(* Promises of the control plane for any bounds and any number of calls:   *)
(* the dashboard that accepts requests is the one its globals name, a tray *)
(* that insists on it quits only after a confirmed stop, an offer of a     *)
(* software update survives everything but a newer answer, leaves are      *)
(* signed by the certificate they are sent with, one installation of the   *)
(* Wintun driver runs at a time, accepted lines reach the log file and the *)
(* API shows the last entries, errors are reported within their limit, an  *)
(* uninstallation that succeeds is complete, and one configuration of a    *)
(* program is in use.  The types of each part follow what it promises.     *)
(* The parts share no state.                                               *)
(***************************************************************************)
EXTENDS SoftwareUpdate, SoftwareSync, Logger, Companion, Certificates, Wintun, SystemService,
        FiniteSetTheorems, SequenceTheorems, WellFoundedInduction, TLAPS

-----------------------------------------------------------------------------
(* The dashboard.                                                          *)

Dashboards == [server : Nat, isRunning : BOOLEAN, fresh : SUBSET Nat, serving : SUBSET Nat,
               orphaned : SUBSET Nat, live : SUBSET Nat, last : Nat]

\* An orphaned listener has its goroutine still to come; the numbers of open ones were given.
Tracked(d) ==
  /\ \A n \in d.fresh \cup d.serving : d.isRunning /\ d.server = n
  /\ \A n \in Open(d) : n <= d.last
  /\ d.fresh \cup d.orphaned \subseteq d.live
  /\ d.orphaned \cap (d.fresh \cup d.serving) = {}

\* The inductive invariant, for a value of the globals.
Sane(d) == d \in Dashboards /\ Tracked(d)

LEMMA NoDashIsSane == ASSUME NEW k \in Nat PROVE Sane([NoDash EXCEPT !.last = k])
BY DEF Sane, NoDash, Dashboards, Tracked, Open

\* A start finds orphaned listeners only: it opens one only when isRunning is not set.
LEMMA StartIsSane ==
  ASSUME NEW d, Sane(d), NEW r \in StartHttpServer(d)
  PROVE  Sane(r.dash)
<1>1. CASE r.dash = d
  BY <1>1
<1>2. CASE ~d.isRunning
  <2> DEFINE n == d.last + 1
             new == [d EXCEPT !.server = n, !.isRunning = TRUE, !.fresh = @ \cup {n},
                              !.live = @ \cup {n}, !.last = n]
  <2>1. d.serving = {} /\ d.fresh = {} /\ n \in Nat /\ d.last \in Nat
    BY <1>2 DEF Sane, Dashboards, Tracked
  <2>2. new \in Dashboards
    BY <2>1 DEF Sane, Dashboards
  <2>3. /\ new.server = n /\ new.isRunning = TRUE /\ new.fresh = {n} /\ new.serving = {}
        /\ new.orphaned = d.orphaned /\ new.live = d.live \cup {n} /\ new.last = n
    BY <2>1 DEF Sane, Dashboards
  <2>4. \A m \in d.orphaned : m \in Nat /\ m <= d.last /\ m \in d.live
    BY DEF Sane, Dashboards, Tracked, Open
  <2> HIDE DEF new
  <2>5. Sane(new)
    BY <2>1, <2>2, <2>3, <2>4 DEF Sane, Tracked, Open
  <2>6. r.dash \in {d, new}
    BY <1>2 DEF StartHttpServer, new
  <2>7. QED
    BY <2>5, <2>6
<1>3. QED
  BY <1>1, <1>2 DEF StartHttpServer

\* A stop closes the listener that is served or leaves it to its goroutine, whether or not
\* it resets the globals.
LEMMA StopIsSane ==
  ASSUME NEW d, Sane(d), NEW r \in StopHttpServer(d)
  PROVE  Sane(r.dash)
<1> DEFINE closed == [d EXCEPT !.serving = @ \ {d.server}, !.fresh = @ \ {d.server},
                               !.orphaned = @ \cup (d.fresh \cap {d.server})]
           reset == [closed EXCEPT !.server = 0, !.isRunning = FALSE]
<1>1. closed \in Dashboards /\ reset \in Dashboards
  BY DEF Sane, Dashboards
<1>2. /\ closed.fresh = {} /\ closed.serving = {} /\ closed.live = d.live /\ closed.last = d.last
      /\ closed.orphaned \subseteq d.orphaned \cup d.fresh
  BY DEF Sane, Dashboards, Tracked
<1>3. /\ reset.fresh = closed.fresh /\ reset.serving = closed.serving
      /\ reset.orphaned = closed.orphaned /\ reset.live = closed.live /\ reset.last = closed.last
  BY DEF Sane, Dashboards
<1>4. \A n \in d.orphaned \cup d.fresh : n <= d.last /\ n \in d.live
  BY DEF Sane, Tracked, Open
<1>5. r.dash \in {d, closed, reset}
  BY DEF StopHttpServer
<1> HIDE DEF closed, reset
<1>6. Sane(closed)
  BY <1>1, <1>2, <1>4 DEF Sane, Tracked, Open
<1>7. Sane(reset)
  BY <1>1, <1>2, <1>3, <1>4 DEF Sane, Tracked, Open
<1>8. QED
  BY <1>5, <1>6, <1>7

\* Whatever is asked, over the socket or over HTTP.
LEMMA RequestIsSane ==
  ASSUME NEW a, NEW p, NEW d, Sane(d), NEW r \in handleRequest(a, p, d)
  PROVE  Sane(r.dash)
<1>1. CASE a = "start_http"
  <2>1. PICK s \in StartHttpServer(d) : r = Result(p, s.dash, s.ok, "port", FALSE)
    BY <1>1 DEF handleRequest, handleStartHTTP
  <2>2. QED
    BY <2>1, StartIsSane DEF Result
<1>2. CASE a = "stop_http"
  <2>1. PICK s \in StopHttpServer(d) : r = Result(FALSE, s.dash, s.ok, "stopped", FALSE)
    BY <1>2 DEF handleRequest, handleStopHTTP
  <2>2. QED
    BY <2>1, StopIsSane DEF Result
<1>3. CASE a \notin {"start_http", "stop_http"}
  <2>1. r.dash = d
    <3>1. CASE a = "start_proxy"
      BY <3>1 DEF handleRequest, StartService, Result
    <3>2. CASE a \in {"stop_proxy", "quit_stop"}
      BY <3>2 DEF handleRequest, StopService, Result
    <3>3. CASE a = "switch_mode"
      BY <3>3 DEF handleRequest, SwitchMode, Result
    <3>4. CASE a = "get_status"
      BY <3>4 DEF handleRequest, GetStatus, Result
    <3>5. CASE a \notin {"start_proxy", "stop_proxy", "quit_stop", "switch_mode", "get_status"}
      BY <1>3, <3>5 DEF handleRequest, Result
    <3>6. QED
      BY <3>1, <3>2, <3>3, <3>4, <3>5
  <2>2. QED
    BY <2>1
<1>4. QED
  BY <1>1, <1>2, <1>3

LEMMA HttpIsSane ==
  ASSUME NEW a, NEW p, NEW d, Sane(d), NEW r \in ServeOverHttp(a, p, d)
  PROVE  Sane(r.dash)
<1>1. PICK s \in handleRequest(a, p, d) : r = [s EXCEPT !.ok = TRUE]
  BY DEF ServeOverHttp
<1>2. r.dash = s.dash
  BY <1>1
<1>3. QED
  BY <1>2, RequestIsSane

\* The steps of the core itself.
LEMMA CoreIsSane ==
  ASSUME Sane(dash), CoreSteps \/ ServeRequest
  PROVE  Sane(dash')
<1>1. CASE DashboardRequest
  <2>1. PICK a \in {"start_proxy", "stop_proxy", "switch_mode"} :
          \E r \in ServeOverHttp(a, proxy, dash) : dash' = r.dash
    BY <1>1 DEF DashboardRequest
  <2>2. QED
    BY <2>1, HttpIsSane
<1>2. ASSUME NEW n, ServeBegins(n) \/ ServeReturns(n) \/ ServeFails(n)
      PROVE  Sane(dash')
  <2>1. dash \in Dashboards /\ Tracked(dash)
    BY DEF Sane
  <2>2. CASE ServeFails(n)
    BY <2>1, <2>2 DEF ServeFails, Sane, Dashboards, Tracked, Open
  <2>3. CASE ServeReturns(n) /\ dash.server = n
    <3>1. dash.serving = {} /\ dash.fresh = {}
      BY <2>1, <2>3 DEF ServeReturns, Tracked, Open
    <3>2. dash' = [dash EXCEPT !.live = @ \ {n}, !.server = 0, !.isRunning = FALSE]
      BY <2>3 DEF ServeReturns
    <3>3. /\ dash'.fresh = {} /\ dash'.serving = {} /\ dash'.orphaned = dash.orphaned
          /\ dash'.live = dash.live \ {n} /\ dash'.last = dash.last /\ dash' \in Dashboards
      BY <2>1, <3>1, <3>2 DEF Dashboards
    <3>4. n \notin dash.orphaned
      BY <2>3 DEF ServeReturns, Open
    <3>5. Tracked(dash')
      BY <2>1, <3>3, <3>4 DEF Tracked, Open
    <3>6. QED
      BY <3>3, <3>5 DEF Sane
  <2>4. CASE ServeReturns(n) /\ dash.server # n
    BY <2>1, <2>4 DEF ServeReturns, Sane, Dashboards, Tracked, Open
  <2>5. CASE ServeBegins(n)
    BY <2>1, <2>5 DEF ServeBegins, Sane, Dashboards, Tracked, Open
  <2>6. QED
    BY <1>2, <2>2, <2>3, <2>4, <2>5
<1>3. CASE initializeCoreSubsystems
  BY <1>3 DEF initializeCoreSubsystems
<1>4. CASE ShutdownSignal
  BY <1>4, StopIsSane DEF ShutdownSignal
<1>5. CASE Gone
  <2>1. dash.last \in Nat
    BY DEF Sane, Dashboards
  <2>2. QED
    BY <1>5, <2>1, NoDashIsSane DEF Gone
<1>6. CASE ServeRequest
  BY <1>6, RequestIsSane DEF ServeRequest, handleConn
<1>7. QED
  BY <1>1, <1>2, <1>3, <1>4, <1>5, <1>6 DEF CoreSteps, ServerStopped, handleShutdown

\* The steps of the tray: its requests, and the dashboard of "aliang tray".
LEMMA TrayIsSane ==
  ASSUME Sane(dash), CompanionNext, ~(CoreSteps \/ ServeRequest)
  PROVE  Sane(dash')
<1>1. ASSUME NEW g \in Goroutines, sendHTTP(g)
      PROVE  Sane(dash')
  <2>1. \/ UNCHANGED dash
        \/ \E r \in ServeOverHttp(Head(todo[g]), proxy, dash) : dash' = r.dash
    BY <1>1 DEF sendHTTP
  <2>2. QED
    BY <2>1, HttpIsSane
<1>2. ASSUME NEW g \in Goroutines, callDirect(g)
      PROVE  Sane(dash')
  <2>1. Gone \/ \E r \in handleRequest(Head(todo[g]), proxy, dash) : dash' = r.dash
    BY <1>2 DEF callDirect
  <2>2. dash.last \in Nat
    BY DEF Sane, Dashboards
  <2>3. QED
    BY <2>1, <2>2, RequestIsSane, NoDashIsSane DEF Gone
<1>3. CASE ensureDashboardServer
  BY <1>3, StartIsSane DEF ensureDashboardServer
<1>4. ASSUME NEW g \in Goroutines, sendIPC(g) \/ recvIPC(g) \/ ipcError(g)
      PROVE  UNCHANGED dash
  BY <1>4 DEF sendIPC, recvIPC, ipcError
<1>5. ASSUME connectAndStartHTTP \/ waitForIPC \/ failStartup \/ RunCompanion \/ handleMenuEvents
             \/ syncStateLoop
      PROVE  UNCHANGED dash
  BY <1>5 DEF connectAndStartHTTP, waitForIPC, failStartup, RunCompanion, handleMenuEvents,
              syncStateLoop, coreVars
<1>6. QED
  BY <1>1, <1>2, <1>3, <1>4, <1>5 DEF CompanionNext

\* server.go, with any number of servers started and stopped by the socket, over HTTP and by
\* the tray, and any delay of the Serve goroutines before srv.Serve and after it: a dashboard
\* that accepts connections or is about to is the server which the globals name and show as
\* running, and any other open listener is that of a server shut down before its goroutine
\* came to srv.Serve, which still has to close it.
THEOREM DashboardAlwaysTracked == CompanionSpec => []DashboardTracked
<1>1. CompanionInit => Sane(dash)
  <2> SUFFICES ASSUME CompanionInit PROVE Sane(dash)
    OBVIOUS
  <2>1. Sane(NoDash)
    BY DEF Sane, NoDash, Dashboards, Tracked, Open
  <2>2. QED
    BY <2>1, StartIsSane DEF CompanionInit
<1>2. Sane(dash) /\ [CompanionNext]_companionVars => Sane(dash')
  <2> SUFFICES ASSUME Sane(dash), [CompanionNext]_companionVars PROVE Sane(dash')
    OBVIOUS
  <2>1. CASE UNCHANGED companionVars
    BY <2>1 DEF companionVars, coreVars
  <2>2. CASE CompanionNext
    BY <2>2, CoreIsSane, TrayIsSane
  <2>3. QED
    BY <2>1, <2>2
<1> DEFINE Inv == Sane(dash)
<1>3. Inv => DashboardTracked
  BY DEF Sane, Tracked, Open, DashboardTracked
<1>4. CompanionInit => Inv
  BY <1>1
<1>5. Inv /\ [CompanionNext]_companionVars => Inv'
  BY <1>2
<1> HIDE DEF Inv
<1>6. QED
  BY <1>3, <1>4, <1>5, PTL DEF CompanionSpec
-----------------------------------------------------------------------------
(* Quitting.  The answers come without their requests' names, and what is   *)
(* in flight when a quit is asked for may be taken for its confirmation.    *)

Calls == {"start_http", "start_proxy", "stop_proxy", "switch_mode", "get_status", "quit_stop",
          "stop_http"}
ResultStatuses == {"already_running", "success", "failed", "not_running", "unchanged", "switched",
             "description", "port", "stopped", "unknown"}

\* What is in the socket.
Requests == [from : Goroutines, action : Calls]
Responses == [to : Goroutines, ok : BOOLEAN, status : ResultStatuses, running : BOOLEAN]

\* What the menu goroutine may have left, and after a quit went on.
LastCalls == {<<>>, <<"stop_http">>, <<"get_status", "stop_http">>}
MenuCalls ==
  LastCalls \cup
    {<<"start_http">>, <<"get_status">>, startProxy, stopProxy, selectMode, restartProxy,
     <<"get_status", "start_proxy", "get_status">>, quitWindows, quitTray}

\* Nothing in flight tells of a start or a stop but the stop of a quit that was handled.
Tells(r) == isAcceptableQuitProxyStopResult(r)
Commands == {"start_proxy", "stop_proxy"}
Clean ==
  /\ \A i \in 1 .. Len(reqs) : reqs[i].action \notin Commands
  /\ \A i \in 1 .. Len(resps) : Tells(resps[i]) => quitStopped

\* The same of all but the first message in flight.
CleanBehind ==
  /\ \A i \in 1 .. Len(reqs) : i > 1 \/ resps # <<>> => reqs[i].action \notin Commands
  /\ \A i \in 2 .. Len(resps) : Tells(resps[i]) => quitStopped

MenuFree == todo["menu"] = <<>> \/ Head(todo["menu"]) \in {"start_http", "quit_stop", "stop_http"}
Awaited(g) == IF waiting[g] THEN 1 ELSE 0

\* A goroutine awaits every message in flight, and the menu goroutine has taken the answer
\* to its last start or stop, or one behind it, when it asks for something else.
InFlight ==
  /\ Len(reqs) + Len(resps) <= Awaited("menu") + Awaited("sync")
  /\ \A g \in Goroutines : waiting[g] => todo[g] # <<>>
  /\ done \/ MenuFree => Clean
  /\ waiting["menu"] /\ Head(todo["menu"]) = "get_status" => CleanBehind

\* Before the first call.
AllQuiet ==
  /\ reqs = <<>> /\ resps = <<>> /\ ~done
  /\ \A g \in Goroutines : todo[g] = <<>> /\ ~waiting[g]

TodoType ==
  DOMAIN todo = Goroutines /\ todo["menu"] \in MenuCalls /\ todo["sync"] \in {<<>>, <<"get_status">>}

QuitTypes ==
  /\ TodoType
  /\ waiting \in [Goroutines -> BOOLEAN] /\ reqs \in Seq(Requests) /\ resps \in Seq(Responses)
  /\ proxy \in BOOLEAN /\ done \in BOOLEAN /\ quitStopped \in BOOLEAN

QuitControl ==
  /\ done => quitStopped /\ todo["menu"] \in LastCalls
  /\ phase \in {"boot", "wait"} => AllQuiet
  /\ phase = "exited" => \A g \in Goroutines : todo[g] = <<>>
  /\ platform = "tray" => conn # "open" /\ phase \in {"ready", "exited"}

\* The inductive invariant, of the trays that insist on a confirmation.
QuitInner == QuitTypes /\ QuitControl /\ (conn = "open" => InFlight)

QuitInv == platform # "mac" => QuitInner

\* The calls of a restart are those of a stop and of a start; after the first two the start is left.
LEMMA LastTwo ==
  ASSUME NEW x, NEW y, NEW z, NEW w
  PROVE  SubSeq(<<x, y, z, w>>, 3, Len(<<x, y, z, w>>)) = <<z, w>>
<1> SUFFICES ASSUME NEW s, s = <<x, y, z, w>>
             PROVE  SubSeq(s, 3, Len(s)) = <<z, w>>
  OBVIOUS
<1> DEFINE S == {x, y, z, w}
           t == SubSeq(s, 3, 4)
<1>1. s \in Seq(S) /\ Len(s) = 4 /\ <<z, w>> \in Seq(S) /\ Len(<<z, w>>) = 2
  OBVIOUS
<1>2. s[3] = z /\ s[4] = w /\ \A i \in 3 .. 4 : s[i] \in S
  BY <1>1
<1>3. t \in Seq(S) /\ Len(t) = 2 /\ \A i \in 1 .. 2 : t[i] = s[3 + i - 1]
  <2>1. /\ t \in Seq(S) /\ Len(t) = IF 3 <= 4 THEN 4 - 3 + 1 ELSE 0
        /\ \A i \in 1 .. 4 - 3 + 1 : t[i] = s[3 + i - 1]
    BY <1>1, <1>2, SubSeqProperties
  <2> HIDE DEF t
  <2> QED
    BY <2>1
<1> HIDE DEF t
<1>4. t[1] = z /\ t[2] = w
  BY <1>2, <1>3
<1>5. t = <<z, w>>
  <2>1. \A i \in 1 .. 2 : t[i] = <<z, w>>[i]
    BY <1>4
  <2> QED
    BY <1>1, <1>3, <2>1, SeqEqual
<1> QED
  BY <1>1, <1>5 DEF t

LEMMA TwoAndTwo ==
  ASSUME NEW x, NEW y, NEW z, NEW w
  PROVE  <<x, w>> \o <<y, z>> = <<x, w, y, z>>
<1> SUFFICES ASSUME NEW s, s = <<x, w>>, NEW t, t = <<y, z>>, NEW u, u = <<x, w, y, z>>
             PROVE  s \o t = u
  OBVIOUS
<1> DEFINE S == {x, y, z, w}
<1>1. s \in Seq(S) /\ Len(s) = 2 /\ t \in Seq(S) /\ Len(t) = 2 /\ u \in Seq(S) /\ Len(u) = 4
  OBVIOUS
<1>2. s[1] = x /\ s[2] = w /\ t[1] = y /\ t[2] = z /\ u[1] = x /\ u[2] = w /\ u[3] = y /\ u[4] = z
  OBVIOUS
<1>3. s \o t \in Seq(S) /\ Len(s \o t) = 4 /\ \A i \in 1..4 : (s \o t)[i] = IF i <= 2 THEN s[i] ELSE t[i - 2]
  <2>1. \A i \in 1 .. Len(s) + Len(t) : (s \o t)[i] = IF i <= Len(s) THEN s[i] ELSE t[i - Len(s)]
    BY <1>1, ConcatProperties
  <2>2. s \o t \in Seq(S) /\ Len(s \o t) = Len(s) + Len(t)
    BY <1>1, ConcatProperties
  <2> QED
    BY <1>1, <2>1, <2>2
<1>4. \A i \in 1 .. 4 : (s \o t)[i] = u[i]
  BY <1>2, <1>3
<1> HIDE DEF S
<1> QED
  BY <1>1, <1>3, <1>4, SeqEqual

\* What is left of the menu goroutine's calls after each of them.
LEMMA MenuAfter ==
  ASSUME NEW t \in MenuCalls, t # <<>>
  PROVE  /\ Head(t) \in Calls /\ Tail(t) \in MenuCalls
         /\ Head(t) = "quit_stop" => Tail(t) \in LastCalls
         /\ t \in LastCalls => Tail(t) \in LastCalls /\ Head(t) \in {"get_status", "stop_http"}
         /\ Head(t) \in Commands \cup {"switch_mode"} =>
               /\ Tail(t) # <<>> /\ Head(Tail(t)) = "get_status"
               /\ SubSeq(t, 3, Len(t)) \in MenuCalls
<1> USE DEF MenuCalls, LastCalls, Calls, Commands, startProxy
<1>0. CASE t = <<"start_http">>
  BY <1>0
<1>1. CASE t = <<"get_status">>
  BY <1>1
<1>10. CASE t = <<"stop_http">>
  BY <1>10
<1>2. CASE t = <<"get_status", "stop_http">>
  BY <1>2
<1>3. CASE t = quitWindows
  BY <1>3 DEF quitWindows
<1>4. CASE t = quitTray
  BY <1>4 DEF quitTray
<1>5. CASE t = startProxy
  BY <1>5
<1>6. CASE t = stopProxy
  BY <1>6 DEF stopProxy
<1>7. CASE t = selectMode
  BY <1>7 DEF selectMode
<1>8. CASE t = <<"get_status", "start_proxy", "get_status">>
  BY <1>8
<1>9. CASE t = restartProxy
  <2>1. t = <<"stop_proxy", "get_status", "start_proxy", "get_status">>
    BY <1>9, TwoAndTwo DEF restartProxy, stopProxy
  <2>2. SubSeq(t, 3, Len(t)) = startProxy
    BY <2>1, LastTwo
  <2>3. Tail(t) = <<"get_status", "start_proxy", "get_status">> /\ Head(t) = "stop_proxy"
    BY <2>1
  <2> QED
    BY <2>1, <2>2, <2>3
<1> QED
  BY <1>0, <1>1, <1>2, <1>3, <1>4, <1>5, <1>6, <1>7, <1>8, <1>9, <1>10

\* The shape of an answer, and what its status tells.
IsResult(r, p, ok, s, run) == r.proxy = p /\ r.ok = ok /\ r.status = s /\ r.running = run

LEMMA ResultIs ==
  ASSUME NEW p, NEW d, NEW ok, NEW s, NEW run
  PROVE  IsResult(Result(p, d, ok, s, run), p, ok, s, run)
BY DEF Result, IsResult

LEMMA ServerAnswers ==
  ASSUME NEW d
  PROVE  /\ \A s \in StartHttpServer(d) : s.ok \in BOOLEAN
         /\ \A s \in StopHttpServer(d) : s.ok \in BOOLEAN
<1>1. ASSUME NEW s \in StartHttpServer(d)
      PROVE  s.ok \in BOOLEAN
  <2>1. PICK e : s = [dash |-> e, ok |-> TRUE] \/ s = [dash |-> e, ok |-> FALSE]
    BY <1>1 DEF StartHttpServer
  <2>2. CASE s = [dash |-> e, ok |-> TRUE]
    BY <2>2
  <2>3. CASE s = [dash |-> e, ok |-> FALSE]
    BY <2>3
  <2> QED
    BY <2>1, <2>2, <2>3
<1>2. ASSUME NEW s \in StopHttpServer(d)
      PROVE  s.ok \in BOOLEAN
  <2>1. PICK e : s = [dash |-> e, ok |-> TRUE] \/ s = [dash |-> e, ok |-> FALSE]
    BY <1>2 DEF StopHttpServer
  <2>2. CASE s = [dash |-> e, ok |-> TRUE]
    BY <2>2
  <2>3. CASE s = [dash |-> e, ok |-> FALSE]
    BY <2>3
  <2> QED
    BY <2>1, <2>2, <2>3
<1> QED
  BY <1>1, <1>2

\* The answer to a request: only a start or a stop can tell of a stop, and that of a quit does.
IsAnswer(a, r) ==
  \E q, ok, run \in BOOLEAN, s \in ResultStatuses :
    /\ IsResult(r, q, ok, s, run)
    /\ s \in {"success", "not_running"} => a \in Commands \cup {"quit_stop"}
    /\ a = "quit_stop" => s \in {"success", "not_running"} /\ ok = TRUE

LEMMA RequestResult ==
  ASSUME NEW a, NEW p, p \in BOOLEAN, NEW d, NEW r, r \in handleRequest(a, p, d)
  PROVE  IsAnswer(a, r)
<1> USE DEF ResultStatuses, Commands, IsAnswer
<1>1. CASE a = "start_http"
  <2>1. PICK s \in StartHttpServer(d) : r = Result(p, s.dash, s.ok, "port", FALSE)
    BY <1>1 DEF handleRequest, handleStartHTTP
  <2>2. s.ok \in BOOLEAN
    BY ServerAnswers
  <2> QED
    BY <1>1, <2>1, <2>2, ResultIs
<1>2. CASE a = "stop_http"
  <2>1. PICK s \in StopHttpServer(d) : r = Result(FALSE, s.dash, s.ok, "stopped", FALSE)
    BY <1>2 DEF handleRequest, handleStopHTTP
  <2>2. s.ok \in BOOLEAN
    BY ServerAnswers
  <2> QED
    BY <1>2, <2>1, <2>2, ResultIs
<1>3. CASE a = "start_proxy"
  <2>1. \/ r = Result(TRUE, d, TRUE, "already_running", FALSE)
        \/ r = Result(TRUE, d, TRUE, "success", FALSE)
        \/ r = Result(FALSE, d, FALSE, "failed", FALSE)
    BY <1>3 DEF handleRequest, StartService
  <2> QED
    BY <1>3, <2>1, ResultIs
<1>4. CASE a \in {"stop_proxy", "quit_stop"}
  <2>1. \/ r = Result(FALSE, d, TRUE, "success", FALSE)
        \/ r = Result(FALSE, d, TRUE, "not_running", FALSE)
    BY <1>4 DEF handleRequest, StopService
  <2>2. CASE r = Result(FALSE, d, TRUE, "success", FALSE)
    BY <1>4, <2>2, ResultIs
  <2>3. CASE r = Result(FALSE, d, TRUE, "not_running", FALSE)
    BY <1>4, <2>3, ResultIs
  <2> QED
    BY <2>1, <2>2, <2>3
<1>5. CASE a = "switch_mode"
  <2>1. \/ r = Result(p, d, TRUE, "unchanged", p)
        \/ r = Result(FALSE, d, TRUE, "switched", FALSE)
        \/ r = Result(p, d, FALSE, "failed", FALSE)
        \/ r = Result(FALSE, d, FALSE, "failed", FALSE)
    BY <1>5 DEF handleRequest, SwitchMode
  <2> QED
    BY <1>5, <2>1, ResultIs
<1>6. CASE a = "get_status"
  <2>1. r = Result(p, d, TRUE, "description", p)
    BY <1>6 DEF handleRequest, GetStatus
  <2> QED
    BY <1>6, <2>1, ResultIs
<1>7. CASE a \notin {"start_http", "stop_http", "start_proxy", "stop_proxy", "quit_stop", "switch_mode",
                     "get_status"}
  <2>1. r = Result(p, d, FALSE, "unknown", FALSE)
    BY <1>7 DEF handleRequest
  <2> QED
    BY <1>7, <2>1, ResultIs
<1> QED
  BY <1>1, <1>2, <1>3, <1>4, <1>5, <1>6, <1>7

LEMMA HttpResult ==
  ASSUME NEW a, NEW p, p \in BOOLEAN, NEW d, NEW r \in ServeOverHttp(a, p, d)
  PROVE  r.proxy \in BOOLEAN
<1>1. PICK s \in handleRequest(a, p, d) : r = [s EXCEPT !.ok = TRUE]
  BY DEF ServeOverHttp
<1>2. r.proxy = s.proxy
  BY <1>1
<1>3. PICK q, ok, run \in BOOLEAN, t \in ResultStatuses : IsResult(s, q, ok, t, run)
  <2>1. IsAnswer(a, s)
    BY RequestResult
  <2> QED
    BY <2>1 DEF IsAnswer
<1> QED
  BY <1>2, <1>3 DEF IsResult

\* A reader takes at least the first of the messages that are there.
LEMMA Taken ==
  ASSUME NEW S, NEW s \in Seq(S), NEW k \in 1 .. Len(s)
  PROVE  LET t == SubSeq(s, k + 1, Len(s)) IN
         /\ t \in Seq(S) /\ Len(t) < Len(s)
         /\ \A i \in 1 .. Len(t) : i + k \in 2 .. Len(s) /\ t[i] = s[i + k]
<1>1. Len(s) \in Nat /\ \A i \in k + 1 .. Len(s) : s[i] \in S
  BY ElementOfSeq, LenProperties
<1>2. /\ SubSeq(s, k + 1, Len(s)) \in Seq(S)
      /\ Len(SubSeq(s, k + 1, Len(s))) = IF k + 1 <= Len(s) THEN Len(s) - (k + 1) + 1 ELSE 0
      /\ \A i \in 1 .. Len(s) - (k + 1) + 1 : SubSeq(s, k + 1, Len(s))[i] = s[(k + 1) + i - 1]
  BY <1>1, SubSeqProperties
<1> QED
  BY <1>1, <1>2

\* What a goroutine asks for next.
LEMMA NextCall ==
  ASSUME TodoType, NEW g \in Goroutines, todo[g] # <<>>
  PROVE  /\ Head(todo[g]) \in Calls
         /\ g = "sync" => Head(todo[g]) = "get_status" /\ Tail(todo[g]) = <<>>
         /\ g = "menu" => Tail(todo[g]) \in MenuCalls
<1>1. CASE g = "sync"
  <2>1. todo[g] = <<"get_status">>
    BY <1>1 DEF TodoType
  <2> QED
    BY <1>1, <2>1 DEF Calls
<1>2. CASE g = "menu"
  BY <1>2, MenuAfter DEF TodoType
<1> QED
  BY <1>1, <1>2 DEF Goroutines

\* What an answer or an error leaves to do: a goroutine only changes its own calls unless it
\* exits, and a quit goes on after an answer that tells of a stop only.
LEMMA AnswerLeaves ==
  ASSUME TodoType, QuitControl, done \in BOOLEAN, platform # "mac",
         NEW g \in Goroutines, todo[g] # <<>>, NEW r,
         Answered(g, Head(todo[g]), r) \/ SendFailed(g, Head(todo[g]))
  PROVE  /\ TodoType' /\ done' \in BOOLEAN
         /\ done' => todo'["menu"] \in LastCalls
         /\ done' => done \/ (Head(todo[g]) = "quit_stop" /\ Tells(r))
         /\ done => Head(todo[g]) \in {"get_status", "stop_http"}
         /\ phase' \notin {"boot", "wait"}
         /\ platform = "tray" => phase' \in {"ready", "exited"}
         /\ phase' = "exited" => \A h \in Goroutines : todo'[h] = <<>>
         /\ phase' # "exited" => \A h \in Goroutines : h # g => todo'[h] = todo[h]
<1> DEFINE a == Head(todo[g])
<1>0. phase \notin {"boot", "wait", "exited"}
  BY DEF QuitControl, AllQuiet
<1>1. done => a \in {"get_status", "stop_http"} /\ todo["menu"] \in LastCalls
  BY NextCall, MenuAfter DEF QuitControl, TodoType, Goroutines
<1>2. CASE exit(g)
  <2>1. todo' = [h \in Goroutines |-> <<>>] /\ phase' = "exited" /\ done' \in BOOLEAN /\ (done' <=> done)
    BY <1>2 DEF exit
  <2>2. \A h \in Goroutines : todo'[h] = <<>>
    BY <2>1
  <2>3. TodoType' /\ todo'["menu"] \in LastCalls
    BY <2>1, <2>2 DEF TodoType, MenuCalls, LastCalls, Goroutines
  <2>4. phase' = "exited" /\ phase' \notin {"boot", "wait", "ready"}
    BY <2>1
  <2>5. done' => done
    BY <2>1
  <2> QED
    BY <1>1, <2>1, <2>2, <2>3, <2>4, <2>5
<1> DEFINE Leaves(t) ==
  /\ todo' = [todo EXCEPT ![g] = t]
  /\ \/ t \in {<<>>, <<"get_status">>, Tail(todo[g])}
     \/ a \in Commands \cup {"switch_mode"} /\ t = SubSeq(todo[g], 3, Len(todo[g]))
  /\ done' \in BOOLEAN
  /\ done' => t = Tail(todo[g]) /\ (done \/ (a = "quit_stop" /\ Tells(r)))
  /\ phase' \in {phase, "ready"} \/ (phase' = "failing" /\ platform = "windows")
<1>3. CASE \E t : Leaves(t)
  <2>1. PICK t : Leaves(t)
    BY <1>3
  <2>2. todo'[g] = t /\ \A h \in Goroutines : h # g => todo'[h] = todo[h]
    BY <2>1 DEF TodoType
  <2>3. g = "menu" => t \in MenuCalls
    BY <2>1, NextCall, MenuAfter DEF MenuCalls, LastCalls, TodoType
  <2>4. g = "sync" => t \in {<<>>, <<"get_status">>}
    BY <2>1, NextCall DEF Commands
  <2>5. TodoType'
    BY <2>1, <2>2, <2>3, <2>4 DEF TodoType, Goroutines
  <2>6. ASSUME done'
        PROVE  todo'["menu"] \in LastCalls
    <3>1. CASE g = "sync"
      BY <1>1, <2>1, <2>2, <2>6, <3>1, NextCall DEF Goroutines
    <3>2. CASE g = "menu"
      <4>1. todo'["menu"] = Tail(todo["menu"]) /\ todo["menu"] \in MenuCalls /\ todo["menu"] # <<>>
        BY <2>1, <2>2, <2>6, <3>2 DEF TodoType
      <4>2. todo["menu"] \in LastCalls \/ Head(todo["menu"]) = "quit_stop"
        BY <1>1, <2>1, <2>6, <3>2
      <4> QED
        BY <4>1, <4>2, MenuAfter
    <3> QED
      BY <3>1, <3>2 DEF Goroutines
  <2> QED
    BY <1>0, <1>1, <2>1, <2>2, <2>5, <2>6 DEF QuitControl
<1> HIDE DEF a
<1>4. CASE a = "start_http"
  <2>1. ~done
    BY <1>1, <1>4
  <2>2. \E t \in {<<>>, <<"get_status">>} : todo' = [todo EXCEPT ![g] = t]
    BY <1>4 DEF Answered, SendFailed, dashboardStarted, a
  <2>3. done' = done
    BY <1>4 DEF Answered, SendFailed, dashboardStarted, a
  <2>4. phase' \in {phase, "ready"} \/ (phase' = "failing" /\ platform = "windows")
    <3>1. phase' = "ready" \/ StartupFailed
      BY <1>4 DEF Answered, SendFailed, dashboardStarted, a
    <3> QED
      BY <3>1 DEF StartupFailed
  <2>5. PICK t \in {<<>>, <<"get_status">>} : todo' = [todo EXCEPT ![g] = t]
    BY <2>2
  <2>6. done' \in BOOLEAN /\ ~done'
    BY <2>1, <2>3
  <2>7. Leaves(t)
    BY <2>4, <2>5, <2>6
  <2> QED
    BY <1>3, <2>7
<1>5. CASE a = "quit_stop"
  <2>1. quitAnswered(g, r) \/ quitAnswered(g, [ok |-> FALSE, status |-> "failed"])
    BY <1>5 DEF Answered, SendFailed, a
  <2>2. CASE todo' = [todo EXCEPT ![g] = <<>>] /\ done' = done
    <3>1. Leaves(<<>>)
      <4>1. done' \in BOOLEAN /\ ~done' /\ phase' = phase
        BY <1>1, <1>5, <2>1, <2>2 DEF quitAnswered
      <4> QED
        BY <2>2, <4>1
    <3> QED
      BY <1>3, <3>1
  <2>3. CASE todo' = [todo EXCEPT ![g] = Tail(@)] /\ done' = TRUE /\ Tells(r)
    <3>1. Leaves(Tail(todo[g]))
      <4>1. done' \in BOOLEAN /\ phase' = phase
        BY <2>1, <2>3 DEF quitAnswered
      <4> QED
        BY <1>5, <2>3, <4>1
    <3> QED
      BY <1>3, <3>1
  <2> QED
    BY <2>1, <2>2, <2>3 DEF quitAnswered, Tells, isAcceptableQuitProxyStopResult
<1>6. CASE a = "stop_http"
  BY <1>2, <1>6 DEF Answered, SendFailed, a
<1>7. CASE a = "get_status"
  <2>1. todo' = [todo EXCEPT ![g] = Tail(@)] /\ phase' = phase /\ done' = done
    BY <1>7 DEF Answered, SendFailed, a
  <2>2. done' \in BOOLEAN /\ (done' => done)
    BY <2>1
  <2>3. Leaves(Tail(todo[g]))
    BY <2>1, <2>2
  <2> QED
    BY <1>3, <2>3
<1>8. CASE a \in Commands \cup {"switch_mode"}
  <2>1. ~done
    BY <1>1, <1>8 DEF Commands
  <2>2. \/ todo' = [todo EXCEPT ![g] = Tail(@)]
        \/ todo' = [todo EXCEPT ![g] = SubSeq(@, 3, Len(@))]
    BY <1>8 DEF Answered, SendFailed, Commands, a
  <2>3. phase' = phase /\ done' = done
    BY <1>8 DEF Answered, SendFailed, Commands, a
  <2>5. done' \in BOOLEAN /\ ~done'
    BY <2>1, <2>3
  <2>4. Leaves(Tail(todo[g])) \/ Leaves(SubSeq(todo[g], 3, Len(todo[g])))
    BY <1>8, <2>2, <2>3, <2>5
  <2> QED
    BY <1>3, <2>4
<1> QED
  BY <1>4, <1>5, <1>6, <1>7, <1>8, NextCall DEF Calls, Commands, a

\* A step that leaves the tray and the socket alone.
LEMMA QuitUnmoved ==
  ASSUME QuitInner, proxy' \in BOOLEAN, UNCHANGED <<conn, reqs, resps, clientVars>>
  PROVE  QuitInner'
<1>1. QuitTypes'
  BY DEF QuitInner, QuitTypes, TodoType, clientVars
<1>2. AllQuiet' <=> AllQuiet
  BY DEF AllQuiet, clientVars
<1>3. QuitControl'
  BY <1>2 DEF QuitInner, QuitControl, clientVars
<1>4. InFlight' <=> InFlight
  BY DEF InFlight, Clean, CleanBehind, MenuFree, Awaited, clientVars
<1> QED
  BY <1>1, <1>3, <1>4 DEF QuitInner

\* The death of the core.
LEMMA QuitGone ==
  ASSUME QuitInner, Gone, UNCHANGED clientVars
  PROVE  QuitInner'
<1>1. conn' # "open" /\ reqs' = <<>> /\ resps' = <<>> /\ proxy' \in BOOLEAN
  BY DEF Gone
<1>2. QuitTypes'
  BY <1>1 DEF QuitInner, QuitTypes, TodoType, clientVars
<1>3. AllQuiet => AllQuiet'
  BY <1>1 DEF AllQuiet, clientVars
<1>4. QuitControl'
  BY <1>1, <1>3 DEF QuitInner, QuitControl, clientVars
<1> QED
  BY <1>1, <1>2, <1>4 DEF QuitInner

LEMMA QuitCore ==
  ASSUME QuitInner, CoreSteps \/ ensureDashboardServer
  PROVE  QuitInner'
<1>1. CASE DashboardRequest /\ UNCHANGED clientVars
  <2>1. PICK a \in {"start_proxy", "stop_proxy", "switch_mode"} :
          \E r \in ServeOverHttp(a, proxy, dash) : proxy' = r.proxy
    BY <1>1 DEF DashboardRequest
  <2>2. proxy' \in BOOLEAN
    BY <2>1, HttpResult DEF QuitInner, QuitTypes
  <2> QED
    BY <1>1, <2>2, QuitUnmoved DEF DashboardRequest
<1>2. ASSUME NEW n, ServeBegins(n) \/ ServeReturns(n) \/ ServeFails(n), UNCHANGED clientVars
      PROVE  QuitInner'
  BY <1>2, QuitUnmoved DEF ServeBegins, ServeReturns, ServeFails, QuitInner, QuitTypes
<1>3. CASE initializeCoreSubsystems /\ UNCHANGED clientVars
  BY <1>3, QuitUnmoved DEF initializeCoreSubsystems, QuitInner, QuitTypes
<1>4. CASE ShutdownSignal /\ UNCHANGED clientVars
  BY <1>4, QuitUnmoved DEF ShutdownSignal
<1>5. CASE (ServerStopped \/ handleShutdown) /\ UNCHANGED clientVars
  BY <1>5, QuitGone DEF ServerStopped, handleShutdown
<1>6. CASE ensureDashboardServer
  BY <1>6, QuitUnmoved DEF ensureDashboardServer, QuitInner, QuitTypes
<1> QED
  BY <1>1, <1>2, <1>3, <1>4, <1>5, <1>6 DEF CoreSteps

\* A click, and the ticker.
LEMMA QuitMenu ==
  ASSUME QuitInner, platform # "mac", handleMenuEvents
  PROVE  QuitInner'
<1>1. PICK t : /\ todo' = [todo EXCEPT !["menu"] = t]
               /\ t \in {startProxy, stopProxy, restartProxy, selectMode, quitWindows, quitTray}
  BY DEF handleMenuEvents, quitCalls
<1>2. TodoType' /\ todo'["menu"] = t /\ t # <<>> /\ todo'["sync"] = todo["sync"]
  <2>1. t \in MenuCalls
    BY <1>1 DEF MenuCalls
  <2>2. t # <<>>
    <3>1. restartProxy # <<>>
      BY TwoAndTwo DEF restartProxy, stopProxy, startProxy
    <3>2. startProxy # <<>> /\ stopProxy # <<>> /\ selectMode # <<>>
      BY DEF startProxy, stopProxy, selectMode
    <3>3. quitWindows # <<>> /\ quitTray # <<>>
      BY DEF quitWindows, quitTray
    <3> QED
      BY <1>1, <3>1, <3>2, <3>3
  <2> QED
    BY <1>1, <2>1, <2>2 DEF QuitInner, QuitTypes, TodoType, Goroutines
<1>3. ~done /\ ~done' /\ done' \in BOOLEAN /\ todo["menu"] = <<>> /\ phase \in {"ready", "failing"}
  BY DEF handleMenuEvents, Idle, QuitInner, QuitTypes
<1>4. UNCHANGED <<coreVars, platform, phase, waiting, quitStopped>>
  BY DEF handleMenuEvents
<1>5. QuitTypes'
  BY <1>2, <1>3, <1>4 DEF QuitInner, QuitTypes, coreVars
<1>6. QuitControl'
  BY <1>3, <1>4 DEF QuitInner, QuitControl, coreVars
<1>7. ASSUME conn = "open"
      PROVE  InFlight'
  <2>1. InFlight /\ Clean /\ ~waiting["menu"]
    BY <1>3, <1>7 DEF QuitInner, InFlight, MenuFree, Goroutines
  <2>2. Clean'
    BY <2>1, <1>4 DEF Clean, coreVars
  <2> QED
    BY <1>2, <1>4, <2>1, <2>2 DEF InFlight, Awaited, Goroutines, coreVars
<1> QED
  BY <1>4, <1>5, <1>6, <1>7 DEF QuitInner, coreVars

LEMMA QuitTicker ==
  ASSUME QuitInner, syncStateLoop
  PROVE  QuitInner'
<1>1. TodoType' /\ todo'["menu"] = todo["menu"] /\ todo'["sync"] # <<>>
  BY DEF syncStateLoop, QuitInner, QuitTypes, TodoType, Goroutines
<1>2. ~done /\ ~done' /\ done' \in BOOLEAN /\ phase \in {"ready", "failing"}
  BY DEF syncStateLoop, QuitInner, QuitTypes
<1>3. UNCHANGED <<coreVars, platform, phase, waiting, quitStopped>>
  BY DEF syncStateLoop
<1>4. QuitTypes'
  BY <1>1, <1>2, <1>3 DEF QuitInner, QuitTypes, coreVars
<1>5. QuitControl'
  BY <1>2, <1>3 DEF QuitInner, QuitControl, coreVars
<1>6. InFlight => InFlight'
  BY <1>1, <1>2, <1>3 DEF InFlight, Awaited, Clean, CleanBehind, MenuFree, Goroutines, coreVars
<1> QED
  BY <1>3, <1>4, <1>5, <1>6 DEF QuitInner, coreVars

\* Starting and leaving the tray.
LEMMA QuitLife ==
  ASSUME QuitInner, platform # "mac",
         connectAndStartHTTP \/ waitForIPC \/ failStartup \/ RunCompanion
  PROVE  QuitInner'
<1>1. CASE connectAndStartHTTP
  <2>1. /\ UNCHANGED <<proxy, conn, reqs, resps, platform, todo, waiting, done, quitStopped>>
        /\ AllQuiet /\ phase' \notin {"boot", "exited"} /\ platform # "tray"
    BY <1>1 DEF connectAndStartHTTP, StartupFailed, QuitInner, QuitControl
  <2>2. AllQuiet'
    BY <2>1 DEF AllQuiet
  <2>3. QuitTypes'
    BY <2>1 DEF QuitInner, QuitTypes, TodoType
  <2>4. QuitControl'
    BY <2>1, <2>2 DEF QuitInner, QuitControl
  <2>5. InFlight => InFlight'
    BY <2>1 DEF InFlight, Awaited, Clean, CleanBehind, MenuFree
  <2> QED
    BY <2>1, <2>3, <2>4, <2>5 DEF QuitInner
<1>2. CASE waitForIPC
  <2>1. /\ UNCHANGED <<proxy, reqs, resps, platform, waiting, done, quitStopped>>
        /\ AllQuiet /\ phase' \notin {"boot", "wait", "exited"} /\ platform # "tray"
    BY <1>2 DEF waitForIPC, StartupFailed, QuitInner, QuitControl
  <2>2. todo' = todo \/ todo' = [todo EXCEPT !["menu"] = <<"start_http">>]
    BY <1>2 DEF waitForIPC
  <2>3. TodoType'
    BY <2>2 DEF QuitInner, QuitTypes, TodoType, MenuCalls, Goroutines
  <2>4. QuitTypes'
    BY <2>1, <2>3 DEF QuitInner, QuitTypes
  <2>5. QuitControl'
    BY <2>1 DEF QuitInner, QuitControl, AllQuiet
  <2>6. InFlight'
    BY <2>1 DEF InFlight, AllQuiet, Awaited, Clean, Goroutines
  <2> QED
    BY <2>4, <2>5, <2>6 DEF QuitInner
<1>3. CASE failStartup
  <2>1. /\ UNCHANGED <<proxy, reqs, resps, platform, done, quitStopped>>
        /\ conn' = "none" /\ phase' = "exited" /\ platform # "tray"
    BY <1>3 DEF failStartup, QuitInner, QuitControl
  <2>2. \A g \in Goroutines : todo'[g] = <<>>
    BY <1>3 DEF failStartup
  <2>3. TodoType'
    BY <1>3 DEF failStartup, TodoType, MenuCalls, LastCalls, Goroutines
  <2>4. waiting' \in [Goroutines -> BOOLEAN]
    BY <1>3 DEF failStartup
  <2>5. QuitTypes'
    BY <2>1, <2>3, <2>4 DEF QuitInner, QuitTypes
  <2>6. QuitControl'
    BY <2>1, <2>2 DEF QuitInner, QuitControl, LastCalls, Goroutines
  <2> QED
    BY <2>1, <2>5, <2>6 DEF QuitInner
<1>4. CASE RunCompanion
  <2>1. /\ UNCHANGED <<proxy, platform, todo>>
        /\ reqs' = <<>> /\ resps' = <<>> /\ done' = FALSE /\ quitStopped' = FALSE
        /\ phase' = "boot" /\ platform # "tray"
    BY <1>4 DEF RunCompanion
  <2>2. \A g \in Goroutines : todo[g] = <<>>
    BY <1>4 DEF RunCompanion, QuitInner, QuitControl
  <2>3. waiting' \in [Goroutines -> BOOLEAN] /\ \A g \in Goroutines : ~waiting'[g]
    BY <1>4 DEF RunCompanion
  <2>4. QuitTypes'
    <3>1. TodoType' /\ proxy' \in BOOLEAN
      BY <2>1 DEF QuitInner, QuitTypes, TodoType
    <3>2. done' \in BOOLEAN /\ quitStopped' \in BOOLEAN
      BY <2>1
    <3>3. reqs' \in Seq(Requests) /\ resps' \in Seq(Responses)
      BY <2>1
    <3> QED
      BY <2>3, <3>1, <3>2, <3>3 DEF QuitTypes
  <2>5. AllQuiet'
    BY <2>1, <2>2, <2>3 DEF AllQuiet
  <2>6. QuitControl'
    BY <2>1, <2>5 DEF QuitControl
  <2>7. InFlight'
    BY <2>1, <2>3 DEF InFlight, Awaited, Clean, Goroutines
  <2> QED
    BY <2>4, <2>6, <2>7 DEF QuitInner
<1> QED
  BY <1>1, <1>2, <1>3, <1>4

\* A request goes into the socket: one behind another message, or one that is neither
\* a start nor a stop.
LEMMA QuitSend ==
  ASSUME QuitInner, platform # "mac", NEW g \in Goroutines, sendIPC(g)
  PROVE  QuitInner'
<1> DEFINE m == [from |-> g, action |-> Head(todo[g])]
<1>1. /\ UNCHANGED <<proxy, conn, resps, platform, phase, todo, done, quitStopped>>
      /\ conn = "open" /\ ~waiting[g] /\ todo[g] # <<>> /\ platform # "tray"
      /\ phase \notin {"boot", "wait", "exited"}
  BY DEF sendIPC, Calling, Idle
<1>2. m \in Requests
  BY <1>1, NextCall DEF QuitInner, QuitTypes, Requests
<1>3. /\ reqs' \in Seq(Requests) /\ Len(reqs') = Len(reqs) + 1
      /\ \A i \in 1 .. Len(reqs) : reqs'[i] = reqs[i]
      /\ reqs'[Len(reqs) + 1].action = Head(todo[g])
  <2>1. reqs' = Append(reqs, m)
    BY DEF sendIPC
  <2>2. reqs \in Seq(Requests) /\ m.action = Head(todo[g])
    BY DEF QuitInner, QuitTypes
  <2> HIDE DEF m
  <2> QED
    BY <1>2, <2>1, <2>2
<1>4. /\ waiting' = [waiting EXCEPT ![g] = TRUE] /\ waiting' \in [Goroutines -> BOOLEAN]
      /\ waiting'[g] /\ \A h \in Goroutines : h # g => (waiting'[h] <=> waiting[h])
  BY DEF sendIPC, QuitInner, QuitTypes
<1> HIDE DEF m
<1>5. QuitTypes'
  BY <1>1, <1>3, <1>4 DEF QuitInner, QuitTypes, TodoType
<1>6. QuitControl'
  BY <1>1 DEF QuitInner, QuitControl
<1>7. InFlight /\ Len(reqs) \in Nat /\ Len(resps) \in Nat
  BY <1>1 DEF QuitInner, QuitTypes
<1>8. (Len(reqs) + Len(resps) <= Awaited("menu") + Awaited("sync"))'
  BY <1>1, <1>3, <1>4, <1>7 DEF InFlight, Awaited, Goroutines
<1>9. done \/ MenuFree => Head(todo[g]) \notin Commands
  BY <1>1, NextCall, MenuAfter DEF QuitInner, QuitTypes, TodoType, QuitControl, MenuFree, Commands, Goroutines
<1>10. ASSUME done \/ MenuFree
       PROVE  Clean'
  BY <1>1, <1>3, <1>7, <1>9, <1>10 DEF InFlight, Clean
<1>11. ASSUME waiting'["menu"], Head(todo["menu"]) = "get_status"
       PROVE  CleanBehind'
  <2>1. Head(todo[g]) \notin Commands
    BY <1>1, <1>11, NextCall DEF QuitInner, QuitTypes, Commands, Goroutines
  <2>2. CASE g = "sync"
    BY <1>1, <1>3, <1>4, <1>7, <1>11, <2>1, <2>2 DEF InFlight, CleanBehind, Goroutines
  <2>3. CASE g = "menu"
    <3>1. Len(reqs) + Len(resps) <= 1
      BY <1>1, <1>7, <2>3 DEF InFlight, Awaited
    <3> QED
      BY <1>1, <1>3, <1>7, <2>1, <3>1 DEF CleanBehind
  <2> QED
    BY <2>2, <2>3 DEF Goroutines
<1>12. InFlight'
  BY <1>1, <1>4, <1>7, <1>8, <1>10, <1>11 DEF InFlight, MenuFree, Goroutines
<1> QED
  BY <1>5, <1>6, <1>12 DEF QuitInner

\* A response is taken, with those behind it or not.
LEMMA ResponseTaken ==
  ASSUME QuitTypes, NEW k \in 1 .. Len(resps), resps' = SubSeq(resps, k + 1, Len(resps)),
         UNCHANGED <<reqs, quitStopped>>
  PROVE  /\ resps' \in Seq(Responses) /\ Len(resps') < Len(resps)
         /\ Clean => Clean'
         /\ CleanBehind => Clean' /\ CleanBehind'
<1>1. /\ resps' \in Seq(Responses) /\ Len(resps') < Len(resps)
      /\ \A i \in 1 .. Len(resps') : i + k \in 2 .. Len(resps) /\ resps'[i] = resps[i + k]
  BY Taken DEF QuitTypes
<1>2. resps # <<>> /\ Len(resps) \in Nat /\ Len(resps') \in Nat /\ k \in Nat
  BY <1>1 DEF QuitTypes
<1>3. ASSUME \A i \in 2 .. Len(resps) : Tells(resps[i]) => quitStopped
      PROVE  \A i \in 1 .. Len(resps') : Tells(resps'[i]) => quitStopped'
  BY <1>1, <1>3
<1>4. Clean => Clean'
  BY <1>2, <1>3 DEF Clean
<1>5. CleanBehind => Clean' /\ CleanBehind'
  BY <1>2, <1>3 DEF Clean, CleanBehind
<1> QED
  BY <1>1, <1>4, <1>5

LEMMA QuitReceive ==
  ASSUME QuitInner, platform # "mac", NEW g \in Goroutines, recvIPC(g)
  PROVE  QuitInner'
<1> DEFINE a == Head(todo[g])
           r == Head(resps)
<1>1. /\ UNCHANGED <<proxy, reqs, platform, quitStopped>> /\ conn = "open" /\ waiting[g]
      /\ resps # <<>> /\ Answered(g, a, r) /\ conn' = (IF phase' = "exited" THEN "none" ELSE conn)
  BY DEF recvIPC
<1>2. InFlight /\ todo[g] # <<>> /\ QuitTypes /\ QuitControl
  BY <1>1 DEF QuitInner, InFlight
<1>3. /\ TodoType' /\ done' \in BOOLEAN
      /\ done' => todo'["menu"] \in LastCalls
      /\ done' => done \/ (a = "quit_stop" /\ Tells(r))
      /\ done => a \in {"get_status", "stop_http"}
      /\ phase' \notin {"boot", "wait"}
      /\ platform = "tray" => phase' \in {"ready", "exited"}
      /\ phase' = "exited" => \A h \in Goroutines : todo'[h] = <<>>
      /\ phase' # "exited" => \A h \in Goroutines : h # g => todo'[h] = todo[h]
  BY <1>1, <1>2, AnswerLeaves DEF QuitTypes
<1>4. /\ resps' \in Seq(Responses) /\ Len(resps') < Len(resps)
      /\ Clean => Clean'
      /\ CleanBehind => Clean' /\ CleanBehind'
  BY <1>1, <1>2, ResponseTaken DEF recvIPC
<1>5. /\ waiting' \in [Goroutines -> BOOLEAN] /\ ~waiting'[g]
      /\ \A h \in Goroutines : h # g => (waiting'[h] <=> waiting[h])
  BY <1>2 DEF recvIPC, QuitTypes
<1>6. QuitTypes'
  BY <1>1, <1>2, <1>3, <1>4, <1>5 DEF QuitTypes
<1>7. g = "sync" => a = "get_status"
  BY <1>2, NextCall DEF QuitTypes
<1>8. done' => quitStopped'
  <2>1. CASE done
    BY <1>1, <1>2, <2>1 DEF QuitControl
  <2>2. CASE a = "quit_stop" /\ Tells(r)
    <3>1. g = "menu"
      BY <1>7, <2>2 DEF Goroutines
    <3>2. Clean
      BY <1>2, <2>2, <3>1 DEF InFlight, MenuFree
    <3>3. r = resps[1] /\ 1 \in 1 .. Len(resps)
      BY <1>1, <1>2 DEF QuitTypes
    <3> QED
      BY <1>1, <2>2, <3>2, <3>3 DEF Clean
  <2> QED
    BY <1>3, <2>1, <2>2
<1>9. QuitControl'
  BY <1>1, <1>2, <1>3, <1>8 DEF QuitControl
<1> HIDE DEF a, r
<1>10. ASSUME conn' = "open"
       PROVE  InFlight'
  <2>1. phase' # "exited" /\ \A h \in Goroutines : h # g => todo'[h] = todo[h]
    BY <1>1, <1>3, <1>10
  <2>2. (Len(reqs) + Len(resps) <= Awaited("menu") + Awaited("sync"))'
    <3>1. /\ Len(reqs') \in Nat /\ Len(resps') \in Nat /\ Len(resps) \in Nat
          /\ Len(reqs) = Len(reqs')
      BY <1>1, <1>4, <1>2 DEF QuitTypes
    <3> QED
      BY <1>1, <1>2, <1>4, <1>5, <3>1 DEF InFlight, Awaited, Goroutines
  <2>3. \A h \in Goroutines : waiting'[h] => todo'[h] # <<>>
    BY <1>2, <1>5, <2>1 DEF InFlight
  <2>4. CASE g = "sync"
    <3>1. todo'["menu"] = todo["menu"] /\ (waiting'["menu"] <=> waiting["menu"])
      BY <1>5, <2>1, <2>4 DEF Goroutines
    <3>2. done' => done
      BY <1>3, <1>7, <2>4
    <3> QED
      BY <1>2, <1>4, <2>2, <2>3, <3>1, <3>2 DEF InFlight, MenuFree
  <2>5. CASE g = "menu"
    <3>1. (done \/ MenuFree)' => Clean \/ CleanBehind
      <4>1. CASE a \in {"start_http", "quit_stop", "stop_http"}
        BY <1>2, <2>5, <4>1 DEF InFlight, MenuFree, a
      <4>2. CASE a = "get_status"
        BY <1>1, <1>2, <2>5, <4>2 DEF InFlight, a
      <4>3. CASE a \in Commands \cup {"switch_mode"}
        <5>1. ~done'
          BY <1>3, <4>3 DEF Commands
        <5>2. todo' = [todo EXCEPT !["menu"] = Tail(@)]
          BY <1>1, <2>5, <4>3 DEF Answered, Commands
        <5>3. /\ todo["menu"] \in MenuCalls /\ todo["menu"] # <<>>
              /\ todo'["menu"] = Tail(todo["menu"])
          BY <1>2, <2>5, <5>2 DEF QuitTypes, TodoType, Goroutines
        <5>4. todo'["menu"] # <<>> /\ Head(todo'["menu"]) = "get_status"
          BY <2>5, <4>3, <5>3, MenuAfter DEF a
        <5> QED
          BY <5>1, <5>4 DEF MenuFree
      <4> QED
        BY <1>2, <4>1, <4>2, <4>3, NextCall DEF QuitTypes, Calls, Commands, a
    <3> QED
      BY <1>4, <1>5, <2>2, <2>3, <2>5, <3>1 DEF InFlight
  <2> QED
    BY <2>4, <2>5 DEF Goroutines
<1> QED
  BY <1>6, <1>9, <1>10 DEF QuitInner

\* A call that fails on the connection.
LEMMA QuitError ==
  ASSUME QuitInner, platform # "mac", NEW g \in Goroutines, ipcError(g)
  PROVE  QuitInner'
<1> DEFINE a == Head(todo[g])
           r == [ok |-> FALSE, status |-> "failed"]
<1>1. /\ UNCHANGED <<proxy, reqs, resps, platform, quitStopped>> /\ conn' = "none"
      /\ todo[g] # <<>> /\ SendFailed(g, a) /\ platform # "tray"
  BY DEF ipcError, Idle
<1>2. waiting' \in [Goroutines -> BOOLEAN] /\ QuitTypes /\ QuitControl
  BY DEF ipcError, QuitInner, QuitTypes
<1>3. /\ TodoType' /\ done' \in BOOLEAN
      /\ done' => todo'["menu"] \in LastCalls
      /\ done' => done \/ (a = "quit_stop" /\ Tells(r))
      /\ phase' \notin {"boot", "wait"}
      /\ phase' = "exited" => \A h \in Goroutines : todo'[h] = <<>>
  BY <1>1, <1>2, AnswerLeaves DEF QuitTypes
<1>4. ~Tells(r)
  BY DEF Tells, isAcceptableQuitProxyStopResult
<1> HIDE DEF a, r
<1>5. QuitTypes'
  BY <1>1, <1>2, <1>3 DEF QuitTypes
<1>6. QuitControl'
  BY <1>1, <1>2, <1>3, <1>4 DEF QuitControl
<1> QED
  BY <1>1, <1>5, <1>6 DEF QuitInner

\* A call without the socket: the core handles it, or it fails.
LEMMA QuitDirect ==
  ASSUME QuitInner, platform # "mac", NEW g \in Goroutines, Calling(g), conn # "open",
         UNCHANGED <<conn, reqs, resps, platform, waiting>>, proxy' \in BOOLEAN,
         NEW r, Answered(g, Head(todo[g]), r) \/ SendFailed(g, Head(todo[g])),
         Handled(Head(todo[g])) \/ (quitStopped' = quitStopped /\ ~Tells(r))
  PROVE  QuitInner'
<1> DEFINE a == Head(todo[g])
<1>1. todo[g] # <<>> /\ QuitTypes /\ QuitControl
  BY DEF Calling, Idle, QuitInner
<1>2. /\ TodoType' /\ done' \in BOOLEAN
      /\ done' => todo'["menu"] \in LastCalls
      /\ done' => done \/ (a = "quit_stop" /\ Tells(r))
      /\ done => a \in {"get_status", "stop_http"}
      /\ phase' \notin {"boot", "wait"}
      /\ platform = "tray" => phase' \in {"ready", "exited"}
      /\ phase' = "exited" => \A h \in Goroutines : todo'[h] = <<>>
  BY <1>1, AnswerLeaves DEF QuitTypes
<1> HIDE DEF a
<1>3. quitStopped' \in BOOLEAN /\ (done' => quitStopped')
  <2>1. CASE quitStopped' = quitStopped /\ ~Tells(r)
    BY <1>1, <1>2, <2>1 DEF QuitTypes, QuitControl
  <2>2. CASE Handled(a)
    <3>1. quitStopped' = (a = "quit_stop" \/ (quitStopped /\ a # "start_proxy"))
      BY <2>2 DEF Handled
    <3> QED
      BY <1>1, <1>2, <3>1 DEF QuitControl
  <2> QED
    BY <2>1, <2>2 DEF a
<1>4. QuitTypes'
  BY <1>1, <1>2, <1>3 DEF QuitTypes
<1>5. QuitControl'
  BY <1>1, <1>2, <1>3 DEF QuitControl, QuitInner
<1> QED
  BY <1>4, <1>5 DEF QuitInner

LEMMA QuitHttp ==
  ASSUME QuitInner, platform # "mac", NEW g \in Goroutines, sendHTTP(g)
  PROVE  QuitInner'
<1> DEFINE a == Head(todo[g])
<1>1. Calling(g) /\ conn # "open" /\ UNCHANGED <<conn, reqs, resps, platform, waiting>>
  BY DEF sendHTTP
<1>2. CASE SendFailed(g, a) /\ UNCHANGED <<proxy, quitStopped>>
  <2> DEFINE f == [ok |-> FALSE, status |-> "failed"]
  <2>1. ~Tells(f)
    BY DEF Tells, isAcceptableQuitProxyStopResult
  <2>2. proxy' \in BOOLEAN
    BY <1>2 DEF QuitInner, QuitTypes
  <2> HIDE DEF f
  <2> QED
    BY <1>1, <1>2, <2>1, <2>2, QuitDirect
<1>3. CASE /\ \E r \in ServeOverHttp(a, proxy, dash) :
                proxy' = r.proxy /\ (Answered(g, a, r) \/ SendFailed(g, a))
           /\ Handled(a)
  <2>1. PICK r \in ServeOverHttp(a, proxy, dash) :
          proxy' = r.proxy /\ (Answered(g, a, r) \/ SendFailed(g, a))
    BY <1>3
  <2>2. proxy' \in BOOLEAN
    BY <2>1, HttpResult DEF QuitInner, QuitTypes
  <2> QED
    BY <1>1, <1>3, <2>1, <2>2, QuitDirect
<1> QED
  BY <1>2, <1>3 DEF sendHTTP

LEMMA QuitCall ==
  ASSUME QuitInner, platform # "mac", NEW g \in Goroutines, callDirect(g)
  PROVE  QuitInner'
<1> DEFINE a == Head(todo[g])
<1>1. Calling(g) /\ platform = "tray" /\ UNCHANGED <<platform, waiting>> /\ conn # "open"
  BY DEF callDirect, QuitInner, QuitControl
<1>2. CASE a = "stop_http"
  <2>1. exit(g) /\ Gone /\ UNCHANGED quitStopped
    BY <1>2 DEF callDirect
  <2>2. /\ todo' = [h \in Goroutines |-> <<>>] /\ phase' = "exited" /\ done' = done
        /\ proxy' = FALSE /\ reqs' = <<>> /\ resps' = <<>> /\ conn' = conn
    BY <1>1, <2>1 DEF exit, Gone
  <2>3. TodoType' /\ \A h \in Goroutines : todo'[h] = <<>>
    BY <2>2 DEF TodoType, MenuCalls, LastCalls, Goroutines
  <2>4. reqs' \in Seq(Requests) /\ resps' \in Seq(Responses)
    BY <2>2
  <2>5. done' \in BOOLEAN /\ quitStopped' \in BOOLEAN /\ proxy' \in BOOLEAN
    BY <2>1, <2>2 DEF QuitInner, QuitTypes
  <2>6. QuitTypes'
    BY <1>1, <2>3, <2>4, <2>5 DEF QuitInner, QuitTypes
  <2>7. QuitControl'
    BY <1>1, <2>1, <2>2, <2>3 DEF QuitInner, QuitControl, LastCalls, Goroutines
  <2> QED
    BY <1>1, <2>2, <2>6, <2>7 DEF QuitInner
<1>3. CASE a # "stop_http"
  <2>1. PICK r \in handleRequest(a, proxy, dash) : proxy' = r.proxy /\ Answered(g, a, r)
    BY <1>3 DEF callDirect
  <2>2. Handled(a) /\ UNCHANGED <<conn, reqs, resps>>
    BY <1>3 DEF callDirect
  <2>3. IsAnswer(a, r)
    <3>1. proxy \in BOOLEAN
      BY DEF QuitInner, QuitTypes
    <3> QED
      BY <2>1, <3>1, RequestResult
  <2>4. proxy' \in BOOLEAN
    BY <2>1, <2>3 DEF IsAnswer, IsResult
  <2> QED
    BY <1>1, <2>1, <2>2, <2>4, QuitDirect
<1> QED
  BY <1>2, <1>3

\* A request is taken and answered.  Of those behind it none is a start or a stop, whether or
\* not it was behind a response itself.
LEMMA QuitServe ==
  ASSUME QuitInner, platform # "mac", ServeRequest
  PROVE  QuitInner'
<1> DEFINE a == Head(reqs).action
<1>1. /\ UNCHANGED <<conn, platform, phase, todo, waiting, done>>
      /\ conn = "open" /\ reqs # <<>> /\ Handled(a)
  BY DEF ServeRequest, handleConn
<1>2. QuitTypes /\ QuitControl /\ InFlight /\ platform # "tray"
  BY <1>1 DEF QuitInner, QuitControl
<1>3. PICK k \in 1 .. Len(reqs) : reqs' = SubSeq(reqs, k + 1, Len(reqs))
  BY DEF ServeRequest, handleConn
<1>4. /\ reqs' \in Seq(Requests) /\ Len(reqs') < Len(reqs)
      /\ \A i \in 1 .. Len(reqs') : i + k \in 2 .. Len(reqs) /\ reqs'[i] = reqs[i + k]
  BY <1>2, <1>3, Taken DEF QuitTypes
<1>5. /\ Len(reqs) \in Nat /\ Len(resps) \in Nat /\ Len(reqs') \in Nat
      /\ k \in Nat /\ 1 \in 1 .. Len(reqs) /\ Head(reqs) = reqs[1]
      /\ reqs[1] \in Requests
  BY <1>1, <1>2, <1>4 DEF QuitTypes
<1>6. PICK r \in handleRequest(a, proxy, dash) :
        /\ proxy' = r.proxy
        /\ resps' = Append(resps, [to |-> Head(reqs).from, ok |-> r.ok,
                                   status |-> r.status, running |-> r.running])
  BY DEF ServeRequest, handleConn
<1>7. IsAnswer(a, r)
  <2>1. proxy \in BOOLEAN
    BY <1>2 DEF QuitTypes
  <2> QED
    BY <1>6, <2>1, RequestResult
<1>8. PICK q, ok, run \in BOOLEAN, s \in ResultStatuses :
        /\ IsResult(r, q, ok, s, run)
        /\ s \in {"success", "not_running"} => a \in Commands \cup {"quit_stop"}
  BY <1>7 DEF IsAnswer
<1> DEFINE m == [to |-> Head(reqs).from, ok |-> ok, status |-> s, running |-> run]
<1>9. resps' = Append(resps, m) /\ proxy' \in BOOLEAN
  BY <1>6, <1>8 DEF IsResult
<1>10. m \in Responses /\ (Tells(m) => a \in Commands \cup {"quit_stop"})
  BY <1>5, <1>8 DEF Responses, Requests, Tells, isAcceptableQuitProxyStopResult
<1> HIDE DEF m
<1>11. /\ resps' \in Seq(Responses) /\ Len(resps') = Len(resps) + 1
       /\ \A i \in 1 .. Len(resps) : resps'[i] = resps[i]
       /\ resps'[Len(resps) + 1] = m
  BY <1>2, <1>9, <1>10 DEF QuitTypes
<1> HIDE DEF a
<1>12. quitStopped' \in BOOLEAN /\ (quitStopped' <=> a = "quit_stop" \/ (quitStopped /\ a # "start_proxy"))
  BY <1>1 DEF Handled
<1>13. Clean => a \notin Commands /\ Clean'
  <2>1. ASSUME Clean
        PROVE  a \notin Commands
    BY <1>5, <2>1 DEF Clean, a
  <2>2. ASSUME Clean
        PROVE  \A i \in 1 .. Len(resps') : Tells(resps'[i]) => quitStopped'
    BY <1>5, <1>10, <1>11, <1>12, <2>1, <2>2 DEF Clean, Commands
  <2>3. ASSUME Clean
        PROVE  \A i \in 1 .. Len(reqs') : reqs'[i].action \notin Commands
    <3>1. \A j \in 2 .. Len(reqs) : reqs[j].action \notin Commands
      BY <1>5, <2>3 DEF Clean
    <3> QED
      BY <1>4, <3>1
  <2> QED
    BY <2>1, <2>2, <2>3 DEF Clean
<1>14. CleanBehind => CleanBehind'
  <2> SUFFICES ASSUME CleanBehind
               PROVE  CleanBehind'
    OBVIOUS
  <2>1. \A i \in 1 .. Len(reqs') : reqs'[i].action \notin Commands
    BY <1>4, <1>5, SMTT(30) DEF CleanBehind
  <2>2. CASE resps = <<>>
    BY <1>5, <1>11, <2>1, <2>2 DEF CleanBehind
  <2>3. CASE resps # <<>>
    <3>1. a \notin Commands
      BY <1>5, <2>3 DEF CleanBehind, a
    <3>2. \A i \in 2 .. Len(resps') : Tells(resps'[i]) => quitStopped'
      BY <1>5, <1>10, <1>11, <1>12, <2>3, <3>1 DEF CleanBehind, Commands
    <3> QED
      BY <2>1, <3>2 DEF CleanBehind
  <2> QED
    BY <2>2, <2>3
<1>15. QuitTypes'
  BY <1>1, <1>2, <1>4, <1>9, <1>11, <1>12 DEF QuitTypes, TodoType
<1>16. QuitControl'
  <2>1. phase \notin {"boot", "wait"}
    BY <1>1, <1>2 DEF QuitControl, AllQuiet
  <2>2. done => quitStopped'
    BY <1>2, <1>12, <1>13 DEF InFlight, QuitControl, Commands
  <2> QED
    BY <1>1, <1>2, <2>1, <2>2 DEF QuitControl
<1>17. InFlight'
  <2>1. (Len(reqs) + Len(resps) <= Awaited("menu") + Awaited("sync"))'
    BY <1>1, <1>2, <1>4, <1>5, <1>11 DEF InFlight, Awaited, QuitTypes
  <2>2. MenuFree' <=> MenuFree
    BY <1>1 DEF MenuFree
  <2> QED
    BY <1>1, <1>2, <1>13, <1>14, <2>1, <2>2 DEF InFlight
<1> QED
  BY <1>15, <1>16, <1>17 DEF QuitInner

LEMMA QuitInit == CompanionInit => QuitInner
<1> SUFFICES ASSUME CompanionInit
             PROVE  QuitInner
  OBVIOUS
<1>1. /\ todo = [g \in Goroutines |-> <<>>] /\ waiting = [g \in Goroutines |-> FALSE]
      /\ reqs = <<>> /\ resps = <<>> /\ proxy = FALSE /\ done = FALSE /\ quitStopped = FALSE
      /\ conn = "none" /\ phase = (IF platform = "tray" THEN "ready" ELSE "boot")
  BY DEF CompanionInit, CoreInit
<1>2. TodoType /\ AllQuiet
  BY <1>1 DEF TodoType, AllQuiet, MenuCalls, LastCalls, Goroutines
<1>3. waiting \in [Goroutines -> BOOLEAN] /\ reqs \in Seq(Requests) /\ resps \in Seq(Responses)
  BY <1>1
<1>4. proxy \in BOOLEAN /\ done \in BOOLEAN /\ quitStopped \in BOOLEAN
  BY <1>1
<1>5. QuitTypes
  BY <1>2, <1>3, <1>4 DEF QuitTypes
<1>6. QuitControl
  BY <1>1, <1>2 DEF QuitControl
<1> QED
  BY <1>1, <1>5, <1>6 DEF QuitInner

LEMMA QuitStep ==
  ASSUME QuitInv, [CompanionNext]_companionVars
  PROVE  QuitInv'
<1>1. platform' = platform
  BY DEF CompanionNext, CoreSteps, ServeRequest, sendIPC, recvIPC, ipcError, sendHTTP, callDirect,
         connectAndStartHTTP, waitForIPC, failStartup, RunCompanion, handleMenuEvents,
         syncStateLoop, ensureDashboardServer, clientVars, companionVars
<1>2. CASE platform = "mac"
  BY <1>1, <1>2 DEF QuitInv
<1>3. CASE platform # "mac"
  <2>1. QuitInner
    BY <1>3 DEF QuitInv
  <2>2. CASE UNCHANGED companionVars
    <3>1. UNCHANGED <<conn, reqs, resps, clientVars>> /\ proxy' = proxy
      BY <2>2 DEF companionVars, coreVars
    <3> QED
      BY <2>1, <3>1, QuitUnmoved DEF QuitInner, QuitTypes, QuitInv
  <2>3. CASE CompanionNext
    BY <1>3, <2>1, <2>3, QuitCore, QuitServe, QuitSend, QuitReceive, QuitError, QuitHttp, QuitCall,
       QuitLife, QuitMenu, QuitTicker
    DEF CompanionNext, QuitInv
  <2> QED
    BY <2>2, <2>3
<1> QED
  BY <1>2, <1>3

\* stopProxyForQuit: once quitting goes on past its confirmation on Windows and in
\* "aliang tray", the core has handled the stop of a quit and no later start of this tray,
\* whichever goroutine took which answer from the socket.
THEOREM QuitsAreConfirmed == CompanionSpec => []QuitConfirmed
<1>1. CompanionInit => QuitInv
  BY QuitInit DEF QuitInv
<1>2. QuitInv /\ [CompanionNext]_companionVars => QuitInv'
  BY QuitStep
<1>3. QuitInv => QuitConfirmed
  BY DEF QuitInv, QuitInner, QuitControl, QuitConfirmed
<1> QED
  BY <1>1, <1>2, <1>3, PTL DEF CompanionSpec

-----------------------------------------------------------------------------
(* Types of the companion.                                                  *)

\* The types of the companion and of the core.  A start of the dashboard over the socket is
\* the first call of a companion, which starts while another server is within the bound, and
\* the only one: what the dashboards count stays within their number because no start is
\* asked for, or in flight, after it.
Later == Calls \ {"start_http"}
Boards == [server : 0 .. MaxServers, isRunning : BOOLEAN, fresh : SUBSET (1 .. MaxServers),
           serving : SUBSET (1 .. MaxServers), orphaned : SUBSET (1 .. MaxServers),
           live : SUBSET (1 .. MaxServers), last : 0 .. MaxServers]

TrayTypes ==
  /\ CompanionTypeOK /\ waiting \in [Goroutines -> BOOLEAN]
  /\ reqs \in Seq(Requests) /\ resps \in Seq(Responses)

\* Before the connection.
Fresh ==
  /\ dash.last < MaxServers /\ reqs = <<>> /\ resps = <<>>
  /\ todo = [g \in Goroutines |-> <<>>] /\ waiting = [g \in Goroutines |-> FALSE]

\* The menu goroutine asks for the dashboard, its request is there, or it was handled or lost.
Starting ==
  /\ todo = [g \in Goroutines |-> IF g = "menu" THEN <<"start_http">> ELSE <<>>]
  /\ waiting["sync"] = FALSE /\ conn \in {"open", "broken"}
  /\ ~waiting["menu"] => reqs = <<>> /\ resps = <<>> /\ dash.last < MaxServers
  /\ reqs # <<>> => conn = "open" /\ Len(reqs) = 1 /\ resps = <<>> /\ dash.last < MaxServers

Started ==
  /\ todo \in [Goroutines -> Seq(Later)] /\ \A i \in 1 .. Len(reqs) : reqs[i].action # "start_http"
  /\ phase = "exited" => todo = [g \in Goroutines |-> <<>>]
  /\ conn = "open" => \A g \in Goroutines : waiting[g] => todo[g] # <<>>

TrayStages ==
  /\ platform = "tray" => phase \notin {"boot", "wait", "dash"}
  /\ phase \in {"boot", "wait"} => Fresh
  /\ phase = "dash" => Starting
  /\ phase \in {"ready", "failing", "exited"} => Started

TrayTyped == TrayTypes /\ TrayStages

LEMMA StartStays ==
  ASSUME NEW d \in Boards, d.last < MaxServers, NEW r \in StartHttpServer(d)
  PROVE  r.dash \in Boards
  <1> DEFINE n == d.last + 1
             new == [d EXCEPT !.server = n, !.isRunning = TRUE, !.fresh = @ \cup {n},
                              !.live = @ \cup {n}, !.last = n]
  <1>1. d.last \in 0 .. MaxServers /\ d.fresh \in SUBSET (1 .. MaxServers)
        /\ d.live \in SUBSET (1 .. MaxServers)
    BY DEF Boards
  <1>2. n \in 1 .. MaxServers
    BY <1>1, CoreAssumption
  <1>3. new \in Boards
    <2> HIDE DEF n
    <2>1. n \in 0 .. MaxServers
      BY <1>2, CoreAssumption
    <2>2. d.fresh \cup {n} \in SUBSET (1 .. MaxServers) /\ d.live \cup {n} \in SUBSET (1 .. MaxServers)
      BY <1>1, <1>2
    <2> QED
      BY <2>1, <2>2 DEF Boards
  <1>4. r.dash \in {d, new}
    BY DEF StartHttpServer
  <1> HIDE DEF new
  <1> QED
    BY <1>3, <1>4

LEMMA StopStays ==
  ASSUME NEW d \in Boards, NEW r \in StopHttpServer(d)
  PROVE  r.dash \in Boards /\ r.dash.last = d.last
  <1> DEFINE closed == [d EXCEPT !.serving = @ \ {d.server}, !.fresh = @ \ {d.server},
                                 !.orphaned = @ \cup (d.fresh \cap {d.server})]
             reset == [closed EXCEPT !.server = 0, !.isRunning = FALSE]
  <1>1. closed \in Boards /\ closed.last = d.last
    BY DEF Boards
  <1>2. 0 \in 0 .. MaxServers
    BY CoreAssumption
  <1>3. r.dash \in {d, closed, reset}
    BY DEF StopHttpServer
  <1> HIDE DEF closed
  <1>4. reset \in Boards /\ reset.last = d.last
    BY <1>1, <1>2 DEF Boards
  <1> HIDE DEF reset
  <1> QED
    BY <1>1, <1>3, <1>4

\* Only a start counts.
LEMMA RequestStays ==
  ASSUME NEW a, NEW p, NEW d \in Boards, NEW r \in handleRequest(a, p, d),
         a = "start_http" => d.last < MaxServers
  PROVE  r.dash \in Boards /\ (a # "start_http" => r.dash.last = d.last)
  <1>1. CASE a = "start_http"
    <2>1. PICK s \in StartHttpServer(d) : r = Result(p, s.dash, s.ok, "port", FALSE)
      BY <1>1 DEF handleRequest, handleStartHTTP
    <2> QED
      BY <1>1, <2>1, StartStays DEF Result
  <1>2. CASE a = "stop_http"
    <2>1. PICK s \in StopHttpServer(d) : r = Result(FALSE, s.dash, s.ok, "stopped", FALSE)
      BY <1>2 DEF handleRequest, handleStopHTTP
    <2> QED
      BY <2>1, StopStays DEF Result
  <1>3. CASE a \notin {"start_http", "stop_http"}
    <2>1. CASE a = "start_proxy"
      BY <2>1 DEF handleRequest, StartService, Result
    <2>2. CASE a \in {"stop_proxy", "quit_stop"}
      BY <2>2 DEF handleRequest, StopService, Result
    <2>3. CASE a = "switch_mode"
      BY <2>3 DEF handleRequest, SwitchMode, Result
    <2>4. CASE a = "get_status"
      BY <2>4 DEF handleRequest, GetStatus, Result
    <2>5. CASE a \notin {"start_proxy", "stop_proxy", "quit_stop", "switch_mode", "get_status"}
      BY <1>3, <2>5 DEF handleRequest, Result
    <2> QED
      BY <2>1, <2>2, <2>3, <2>4, <2>5
  <1> QED
    BY <1>1, <1>2, <1>3

LEMMA HttpStays ==
  ASSUME NEW a, a # "start_http", NEW p \in BOOLEAN, NEW d \in Boards, NEW r \in ServeOverHttp(a, p, d)
  PROVE  r.dash \in Boards /\ r.dash.last = d.last /\ r.proxy \in BOOLEAN /\ r.running \in BOOLEAN
  <1>1. PICK s \in handleRequest(a, p, d) : r = [s EXCEPT !.ok = TRUE]
    BY DEF ServeOverHttp
  <1>2. s.dash \in Boards /\ s.dash.last = d.last
    BY RequestStays
  <1>4. s.running \in BOOLEAN
    <2>1. IsAnswer(a, s)
      BY RequestResult
    <2> QED
      BY <2>1 DEF IsAnswer, IsResult
  <1>3. r.dash = s.dash /\ r.running = s.running
    BY <1>1
  <1> QED
    BY <1>2, <1>3, <1>4, HttpResult

\* What a goroutine has left after an answer or an error; whoever exits takes the other along.
GoesOnWith(g) ==
  /\ todo' \in [Goroutines -> Seq(Later)] /\ phase' \in {"ready", "failing", "exited"}
  /\ phase' = "exited" => todo' = [h \in Goroutines |-> <<>>]
  /\ phase' # "exited" => \A h \in Goroutines \ {g} : todo'[h] = todo[h]

ShownTyped ==
  /\ phase' \in {"boot", "wait", "dash", "ready", "failing", "exited"}
  /\ reconnectSeq' \in 0 .. (MaxRestarts + 1) /\ menu' \in {"start", "stop", "off"}
  /\ isRunning' \in BOOLEAN

LEMMA ShortLists == <<>> \in Seq(Later) /\ <<"get_status">> \in Seq(Later)
  BY DEF Later, Calls

LEMMA AnswerTyped ==
  ASSUME CompanionTypeOK, NEW g \in Goroutines, NEW a, NEW r, r.running \in BOOLEAN, Answered(g, a, r)
  PROVE  ShownTyped
  <1>t. /\ phase \in {"boot", "wait", "dash", "ready", "failing", "exited"}
        /\ reconnectSeq \in 0 .. (MaxRestarts + 1) /\ menu \in {"start", "stop", "off"}
        /\ isRunning \in BOOLEAN
    BY DEF CompanionTypeOK
  <1>1. CASE a = "start_http"
    BY <1>1, <1>t DEF ShownTyped, Answered, dashboardStarted, StartupFailed, applyUnavailableState
  <1>2. CASE a = "quit_stop"
    BY <1>2, <1>t DEF ShownTyped, Answered, quitAnswered
  <1>3. CASE a = "stop_http"
    BY <1>3, <1>t DEF ShownTyped, Answered, exit
  <1>4. CASE a = "get_status"
    <2>1. phase' = phase /\ showStatus(r)
      BY <1>4 DEF Answered
    <2>2. reconnectSeq' \in {0, reconnectSeq}
      BY <2>1 DEF showStatus, syncState, syncStateWindows
    <2>3. syncProxyState(r) \/ applyUnavailableState
      BY <2>1 DEF showStatus, syncState, syncStateWindows
    <2>4. menu' \in {"start", "stop", "off"} /\ isRunning' \in BOOLEAN
      BY <1>t, <2>3 DEF syncProxyState, applyUnavailableState
    <2>5. 0 \in 0 .. (MaxRestarts + 1)
      BY DEF MaxRestarts
    <2> QED
      BY <1>t, <2>1, <2>2, <2>4, <2>5 DEF ShownTyped
  <1>5. CASE a \notin {"start_http", "quit_stop", "stop_http", "get_status"}
    BY <1>5, <1>t DEF ShownTyped, Answered
  <1> QED
    BY <1>1, <1>2, <1>3, <1>4, <1>5

LEMMA FailureTyped ==
  ASSUME CompanionTypeOK, NEW g \in Goroutines, NEW a, SendFailed(g, a)
  PROVE  ShownTyped
  <1>t. /\ phase \in {"boot", "wait", "dash", "ready", "failing", "exited"}
        /\ reconnectSeq \in 0 .. (MaxRestarts + 1) /\ menu \in {"start", "stop", "off"}
        /\ isRunning \in BOOLEAN
    BY DEF CompanionTypeOK
  <1>1. CASE a = "start_http"
    BY <1>1, <1>t DEF ShownTyped, SendFailed, StartupFailed, applyUnavailableState
  <1>2. CASE a = "quit_stop"
    BY <1>2, <1>t DEF ShownTyped, SendFailed, quitAnswered
  <1>3. CASE a = "stop_http"
    BY <1>3, <1>t DEF ShownTyped, SendFailed, exit
  <1>4. CASE a = "get_status"
    <2>1. /\ applyUnavailableState /\ phase' = phase
          /\ reconnectSeq' = IF platform = "mac" /\ reconnectSeq <= MaxRestarts
                                THEN reconnectSeq + 1 ELSE reconnectSeq
      BY <1>4 DEF SendFailed
    <2>2. reconnectSeq' \in 0 .. (MaxRestarts + 1)
      BY <1>t, <2>1 DEF MaxRestarts
    <2>3. menu' \in {"start", "stop", "off"} /\ isRunning' \in BOOLEAN
      BY <1>t, <2>1 DEF applyUnavailableState
    <2> QED
      BY <1>t, <2>1, <2>2, <2>3 DEF ShownTyped
  <1>5. CASE a \notin {"start_http", "quit_stop", "stop_http", "get_status"}
    BY <1>5, <1>t DEF ShownTyped, SendFailed, applyUnavailableState
  <1> QED
    BY <1>1, <1>2, <1>3, <1>4, <1>5

LEMMA AnswerGoesOn ==
  ASSUME todo \in [Goroutines -> Seq(Later)], phase \in {"ready", "failing"}, NEW g \in Goroutines,
         todo[g] # <<>>, NEW r,
         \/ Answered(g, Head(todo[g]), r)
         \/ SendFailed(g, Head(todo[g]))
  PROVE  GoesOnWith(g)
  <1> DEFINE a == Head(todo[g])
             rest == Tail(todo[g])
             third == SubSeq(todo[g], 3, Len(todo[g]))
  <1>1. todo[g] \in Seq(Later) /\ Len(todo[g]) \in Nat
    OBVIOUS
  <1>2. rest \in Seq(Later) /\ a \in Later
    BY <1>1
  <1>3. third \in Seq(Later)
    <2>1. \A i \in 3 .. Len(todo[g]) : todo[g][i] \in Later
      BY <1>1
    <2> QED
      BY <1>1, <2>1, SubSeqProperties
  <1>4. Answered(g, a, r) \/ SendFailed(g, a)
    OBVIOUS
  <1>5. a # "start_http"
    BY <1>2 DEF Later
  <1> HIDE DEF a
  <1>6. \/ phase' = "exited" /\ todo' = [h \in Goroutines |-> <<>>]
        \/ phase' = phase /\ (\/ todo' = [todo EXCEPT ![g] = <<>>]
                              \/ todo' = [todo EXCEPT ![g] = rest]
                              \/ todo' = [todo EXCEPT ![g] = third])
    <2>1. CASE a = "quit_stop"
      BY <1>4, <2>1 DEF Answered, SendFailed, quitAnswered
    <2>2. CASE a = "stop_http"
      BY <1>4, <2>2 DEF Answered, SendFailed, exit
    <2>3. CASE a = "get_status"
      BY <1>4, <2>3 DEF Answered, SendFailed
    <2>4. CASE a \notin {"start_http", "quit_stop", "stop_http", "get_status"}
      BY <1>4, <2>4 DEF Answered, SendFailed
    <2> QED
      BY <1>5, <2>1, <2>2, <2>3, <2>4
  <1> HIDE DEF rest, third
  <1> QED
    BY <1>2, <1>3, <1>6, ShortLists DEF GoesOnWith

\* A step of the core: it leaves the socket alone or takes it along, and no server is started.
LEMMA CoreStays ==
  ASSUME TrayTyped, UNCHANGED clientVars, core' \in {"down", "init", "up", "draining"},
         proxy' \in BOOLEAN, dash' \in Boards, dash'.last = dash.last,
         \/ UNCHANGED <<conn, reqs, resps>>
         \/ /\ reqs' = <<>> /\ resps' = <<>>
            /\ conn' = IF conn = "open" THEN "broken" ELSE conn
  PROVE  TrayTyped'
  <1>t. UNCHANGED <<platform, phase, todo, waiting, menu, isRunning, reconnectSeq>>
    BY DEF clientVars
  <1>e. <<>> \in Seq(Requests) /\ <<>> \in Seq(Responses) /\ Len(<<>>) = 0
    OBVIOUS
  <1>1. TrayTypes'
    BY <1>t, <1>e DEF TrayTyped, TrayTypes, CompanionTypeOK, CoreTypeOK, Boards
  <1>2. Fresh => Fresh'
    BY <1>t DEF Fresh
  <1>3. Starting => Starting'
    BY <1>t DEF Starting
  <1>4. Started => Started'
    BY <1>t, <1>e DEF Started
  <1> HIDE DEF TrayTypes, Fresh, Starting, Started
  <1> QED
    BY <1>t, <1>1, <1>2, <1>3, <1>4 DEF TrayTyped, TrayStages

LEMMA EndStays ==
  ASSUME dash \in Boards
  PROVE  /\ [NoDash EXCEPT !.last = dash.last] \in Boards
         /\ [NoDash EXCEPT !.last = dash.last].last = dash.last
  <1>1. 0 \in 0 .. MaxServers /\ dash.last \in 0 .. MaxServers
    BY CoreAssumption DEF Boards
  <1> QED
    BY <1>1 DEF NoDash, Boards

LEMMA CoreTyped ==
  ASSUME TrayTyped, CoreSteps
  PROVE  TrayTyped'
  <1>t. /\ dash \in Boards /\ proxy \in BOOLEAN /\ core \in {"down", "init", "up", "draining"}
        /\ UNCHANGED clientVars
    BY DEF TrayTyped, TrayTypes, CompanionTypeOK, CoreTypeOK, Boards, CoreSteps
  <1>1. CASE DashboardRequest
    <2>3. PICK a \in {"start_proxy", "stop_proxy", "switch_mode"} :
            \E r \in ServeOverHttp(a, proxy, dash) :
              proxy' = r.proxy /\ dash' = r.dash /\ UNCHANGED <<core, conn, reqs, resps>>
      BY <1>1 DEF DashboardRequest
    <2>1. PICK r \in ServeOverHttp(a, proxy, dash) :
            proxy' = r.proxy /\ dash' = r.dash /\ UNCHANGED <<core, conn, reqs, resps>>
      BY <2>3
    <2>2. r.dash \in Boards /\ r.dash.last = dash.last /\ r.proxy \in BOOLEAN
      BY <1>t, <2>1, HttpStays
    <2> QED
      BY <1>t, <2>1, <2>2, CoreStays
  <1>2. ASSUME NEW n \in 1 .. MaxServers, ServeBegins(n) \/ ServeReturns(n) \/ ServeFails(n)
        PROVE  TrayTyped'
    <2>1. dash' \in Boards /\ dash'.last = dash.last
      <3>0. 0 \in 0 .. MaxServers
        BY CoreAssumption
      <3>1. CASE ServeFails(n)
        BY <1>t, <3>1 DEF ServeFails, Boards
      <3>2. CASE ServeReturns(n)
        BY <1>t, <3>0, <3>2 DEF ServeReturns, Boards
      <3>3. CASE ServeBegins(n)
        BY <1>t, <3>3 DEF ServeBegins, Boards
      <3> QED
        BY <1>2, <3>1, <3>2, <3>3
    <2>2. UNCHANGED <<core, proxy, conn, reqs, resps>>
      BY <1>2 DEF ServeBegins, ServeReturns, ServeFails
    <2> QED
      BY <1>t, <2>1, <2>2, CoreStays
  <1>3. CASE initializeCoreSubsystems
    BY <1>3, <1>t, CoreStays DEF initializeCoreSubsystems
  <1>4. CASE ShutdownSignal
    <2>1. PICK r \in StopHttpServer(dash) : dash' = r.dash
      BY <1>4 DEF ShutdownSignal
    <2>2. dash' \in Boards /\ dash'.last = dash.last
      BY <1>t, <2>1, StopStays
    <2> QED
      BY <1>4, <1>t, <2>2, CoreStays DEF ShutdownSignal
  <1>5. CASE Gone
    BY <1>5, <1>t, CoreStays, EndStays DEF Gone
  <1> QED
    BY <1>1, <1>2, <1>3, <1>4, <1>5 DEF CoreSteps, ServerStopped, handleShutdown

\* The stages of a companion from its types.
LEMMA StageTyped ==
  ASSUME TrayTyped
  PROVE  /\ dash \in Boards /\ proxy \in BOOLEAN /\ core \in {"down", "init", "up", "draining"}
         /\ conn \in {"none", "open", "broken"} /\ waiting \in [Goroutines -> BOOLEAN]
         /\ phase \in {"boot", "wait", "dash", "ready", "failing", "exited"}
         /\ reqs \in Seq(Requests) /\ resps \in Seq(Responses) /\ CompanionTypeOK
  BY DEF TrayTyped, TrayTypes, CompanionTypeOK, CoreTypeOK, Boards

\* The core takes a start from the socket only while one more server is within the bound.
LEMMA ServeTyped ==
  ASSUME TrayTyped, ServeRequest
  PROVE  TrayTyped'
  <1> DEFINE a == Head(reqs).action
             next(r) == [to |-> Head(reqs).from, ok |-> r.ok, status |-> r.status, running |-> r.running]
  <1>t. /\ dash \in Boards /\ proxy \in BOOLEAN /\ core \in {"down", "init", "up", "draining"}
        /\ reqs \in Seq(Requests) /\ resps \in Seq(Responses)
        /\ phase \in {"boot", "wait", "dash", "ready", "failing", "exited"}
    BY StageTyped
  <1>u. /\ conn = "open" /\ reqs # <<>>
        /\ UNCHANGED <<core, conn, platform, phase, todo, waiting, menu, isRunning, reconnectSeq>>
    BY DEF ServeRequest, handleConn
  <1>1. PICK k \in 1 .. Len(reqs) : reqs' = SubSeq(reqs, k + 1, Len(reqs))
    BY DEF ServeRequest, handleConn
  <1>2. /\ reqs' \in Seq(Requests) /\ Len(reqs') < Len(reqs)
        /\ \A i \in 1 .. Len(reqs') : i + k \in 2 .. Len(reqs) /\ reqs'[i] = reqs[i + k]
    BY <1>t, <1>1, Taken
  <1>3. PICK r \in handleRequest(a, proxy, dash) :
          proxy' = r.proxy /\ dash' = r.dash /\ resps' = Append(resps, next(r))
    BY DEF ServeRequest, handleConn
  <1>4. phase \in {"dash", "ready", "failing", "exited"}
    BY <1>t, <1>u DEF TrayTyped, TrayStages, Fresh
  <1>5. a = "start_http" => phase = "dash"
    <2>1. Head(reqs) = reqs[1] /\ 1 \in 1 .. Len(reqs)
      BY <1>t, <1>u, EmptySeq
    <2> QED
      BY <1>4, <2>1 DEF TrayTyped, TrayStages, Started
  <1>6. phase = "dash" => dash.last < MaxServers /\ Len(reqs) = 1 /\ waiting["menu"]
    BY <1>t, <1>u, StageTyped DEF TrayTyped, TrayStages, Starting, Goroutines
  <1>7. dash' \in Boards
    BY <1>t, <1>3, <1>5, <1>6, RequestStays
  <1>8. proxy' \in BOOLEAN /\ resps' \in Seq(Responses)
    <2>1. IsAnswer(a, r)
      BY <1>t, <1>3, RequestResult
    <2>2. r.proxy \in BOOLEAN /\ r.ok \in BOOLEAN /\ r.status \in ResultStatuses /\ r.running \in BOOLEAN
      BY <2>1 DEF IsAnswer, IsResult
    <2>3. Head(reqs) \in Requests
      BY <1>t, <1>u
    <2>4. next(r) \in Responses
      BY <2>2, <2>3 DEF Requests, Responses
    <2> HIDE DEF next
    <2> QED
      BY <1>t, <1>3, <2>2, <2>4, AppendProperties
  <1>9. TrayTypes'
    BY <1>u, <1>2, <1>7, <1>8 DEF TrayTyped, TrayTypes, CompanionTypeOK, CoreTypeOK, Boards
  <1>10. phase = "dash" => Starting'
    <2> SUFFICES ASSUME phase = "dash" PROVE Starting'
      OBVIOUS
    <2>3. Len(reqs') \in Nat
      BY <1>2
    <2>1. Len(reqs') = 0
      <3> DEFINE m == Len(reqs')
      <3> HIDE DEF m
      <3>1. m \in Nat /\ m < 1
        BY <1>2, <1>6, <2>3 DEF m
      <3> QED
        BY <3>1 DEF m
    <2>2. reqs' = <<>>
      BY <1>2, <2>1, EmptySeq
    <2> QED
      BY <1>u, <1>6, <2>2 DEF TrayTyped, TrayStages, Starting
  <1>11. phase \in {"ready", "failing", "exited"} => Started'
    <2> SUFFICES ASSUME phase \in {"ready", "failing", "exited"} PROVE Started'
      OBVIOUS
    <2>1. \A i \in 1 .. Len(reqs) : reqs[i].action # "start_http"
      BY DEF TrayTyped, TrayStages, Started
    <2>2. \A i \in 1 .. Len(reqs') : reqs'[i].action # "start_http"
      <3> SUFFICES ASSUME NEW i \in 1 .. Len(reqs') PROVE reqs'[i].action # "start_http"
        OBVIOUS
      <3>1. i + k \in 1 .. Len(reqs) /\ reqs'[i] = reqs[i + k]
        BY <1>2
      <3> QED
        BY <2>1, <3>1
    <2> QED
      BY <1>u, <2>2 DEF TrayTyped, TrayStages, Started
  <1> HIDE DEF a, next
  <1> QED
    BY <1>4, <1>u, <1>9, <1>10, <1>11 DEF TrayTyped, TrayStages

\* The calls of the tray.
LEMMA AskTyped ==
  ASSUME TrayTyped, NEW g \in Goroutines, sendIPC(g)
  PROVE  TrayTyped'
  <1> DEFINE new == [from |-> g, action |-> Head(todo[g])]
  <1>t. reqs \in Seq(Requests) /\ waiting \in [Goroutines -> BOOLEAN]
    BY StageTyped
  <1>u. /\ phase \in {"dash", "ready", "failing"} /\ todo[g] # <<>> /\ ~waiting[g] /\ conn = "open"
        /\ reqs' = Append(reqs, new) /\ waiting' = [waiting EXCEPT ![g] = TRUE]
        /\ UNCHANGED <<core, proxy, dash, conn, resps, platform, phase, todo, menu, isRunning,
                       reconnectSeq>>
    BY DEF sendIPC, Calling, Idle
  <1>1. CASE phase = "dash"
    <2>1. /\ todo = [h \in Goroutines |-> IF h = "menu" THEN <<"start_http">> ELSE <<>>]
          /\ ~waiting["menu"] => reqs = <<>> /\ resps = <<>> /\ dash.last < MaxServers
          /\ waiting["sync"] = FALSE
      BY <1>1 DEF TrayTyped, TrayStages, Starting
    <2>2. g = "menu"
      BY <1>u, <2>1 DEF Goroutines
    <2>3. new \in Requests
      <3>1. todo[g] = <<"start_http">>
        BY <2>1, <2>2
      <3> QED
        BY <3>1 DEF Requests, Calls
    <2>4. reqs' \in Seq(Requests) /\ Len(reqs') = 1
      <3>1. reqs = <<>> /\ Len(reqs) = 0
        BY <1>u, <2>1, <2>2
      <3> HIDE DEF new
      <3> QED
        BY <1>t, <1>u, <2>3, <3>1, AppendProperties
    <2>5. TrayTypes'
      BY <1>t, <1>u, <2>4 DEF TrayTyped, TrayTypes, CompanionTypeOK, CoreTypeOK
    <2>6. Starting'
      BY <1>t, <1>u, <2>1, <2>2, <2>4 DEF Starting, Goroutines
    <2> QED
      BY <1>1, <1>u, <2>5, <2>6 DEF TrayTyped, TrayStages
  <1>2. CASE phase \in {"ready", "failing"}
    <2>1. Started
      BY <1>2 DEF TrayTyped, TrayStages
    <2>2. Head(todo[g]) \in Later
      <3>1. todo[g] \in Seq(Later)
        BY <2>1 DEF Started
      <3> QED
        BY <1>u, <3>1
    <2>3. new \in Requests /\ new.action # "start_http"
      BY <2>2 DEF Requests, Later
    <2>4. reqs' \in Seq(Requests) /\ \A i \in 1 .. Len(reqs') : reqs'[i].action # "start_http"
      <3>1. \A i \in 1 .. Len(reqs) : reqs[i].action # "start_http"
        BY <2>1 DEF Started
      <3> HIDE DEF new
      <3>2. /\ reqs' \in Seq(Requests) /\ Len(reqs') = Len(reqs) + 1 /\ Len(reqs) \in Nat
            /\ \A i \in 1 .. Len(reqs) : reqs'[i] = reqs[i]
            /\ reqs'[Len(reqs) + 1] = new
        BY <1>t, <1>u, <2>3, AppendProperties, LenProperties
      <3> QED
        BY <2>3, <3>1, <3>2
    <2>5. TrayTypes'
      BY <1>t, <1>u, <2>4 DEF TrayTyped, TrayTypes, CompanionTypeOK, CoreTypeOK
    <2>6. Started'
      BY <1>t, <1>u, <1>2, <2>1, <2>4 DEF Started
    <2> QED
      BY <1>2, <1>u, <2>5, <2>6 DEF TrayTyped, TrayStages
  <1> QED
    BY <1>1, <1>2, <1>u

\* An answer or an error ends the start.
LEMMA StartEnds ==
  ASSUME phase = "dash", Starting, NEW g \in Goroutines, g = "menu", NEW r,
         \/ Answered(g, Head(todo[g]), r)
         \/ SendFailed(g, Head(todo[g]))
  PROVE  GoesOnWith(g)
  <1>1. /\ todo = [h \in Goroutines |-> IF h = "menu" THEN <<"start_http">> ELSE <<>>]
        /\ Head(todo[g]) = "start_http"
    <2>1. todo = [h \in Goroutines |-> IF h = "menu" THEN <<"start_http">> ELSE <<>>]
      BY DEF Starting
    <2>2. todo[g] = <<"start_http">>
      BY <2>1
    <2> QED
      BY <2>1, <2>2
  <1>2. phase' \in {"ready", "failing"} /\ \E s \in {<<>>, <<"get_status">>} : todo' = [todo EXCEPT ![g] = s]
    BY <1>1 DEF Answered, SendFailed, dashboardStarted, StartupFailed
  <1>3. todo' \in [Goroutines -> Seq(Later)]
    <2>1. PICK s \in {<<>>, <<"get_status">>} : todo' = [todo EXCEPT ![g] = s]
      BY <1>2
    <2>2. s \in Seq(Later)
      BY ShortLists
    <2>3. \A h \in Goroutines : todo'[h] = IF h = "menu" THEN s ELSE <<>>
      BY <1>1, <2>1
    <2>4. todo' = [h \in Goroutines |-> IF h = "menu" THEN s ELSE <<>>]
      BY <1>1, <2>1
    <2> HIDE DEF Goroutines
    <2> QED
      BY <2>2, <2>4, ShortLists
  <1> QED
    BY <1>1, <1>2, <1>3 DEF GoesOnWith

\* What a call that is over leaves of the socket.
LEMMA ReceiveTyped ==
  ASSUME TrayTyped, NEW g \in Goroutines, recvIPC(g)
  PROVE  TrayTyped'
  <1> DEFINE a == Head(todo[g])
             r == Head(resps)
  <1>t. /\ reqs \in Seq(Requests) /\ resps \in Seq(Responses) /\ waiting \in [Goroutines -> BOOLEAN]
        /\ phase \in {"boot", "wait", "dash", "ready", "failing", "exited"} /\ CompanionTypeOK
    BY StageTyped
  <1>u. /\ waiting[g] /\ conn = "open" /\ resps # <<>> /\ Answered(g, a, r)
        /\ waiting' = [waiting EXCEPT ![g] = FALSE]
        /\ conn' = IF phase' = "exited" THEN "none" ELSE conn
        /\ UNCHANGED <<core, proxy, dash, reqs, platform>>
    BY DEF recvIPC
  <1>1. r \in Responses /\ r.running \in BOOLEAN
    <2>1. r \in Responses
      BY <1>t, <1>u
    <2> QED
      BY <2>1 DEF Responses
  <1>2. resps' \in Seq(Responses)
    <2>1. PICK k \in 1 .. Len(resps) : resps' = SubSeq(resps, k + 1, Len(resps))
      BY DEF recvIPC
    <2> QED
      BY <1>t, <2>1, Taken
  <1>3. ShownTyped
    BY <1>t, <1>u, <1>1, AnswerTyped
  <1>4. TrayTypes'
    BY <1>t, <1>u, <1>2, <1>3 DEF ShownTyped, TrayTyped, TrayTypes, CompanionTypeOK, CoreTypeOK
  <1>5. phase \in {"dash", "ready", "failing"} /\ GoesOnWith(g)
    <2>1. CASE phase = "dash"
      <3>1. Starting
        BY <2>1 DEF TrayTyped, TrayStages
      <3>2. g = "menu"
        BY <1>u, <3>1 DEF Starting, Goroutines
      <3> QED
        BY <1>u, <2>1, <3>1, <3>2, StartEnds
    <2>2. CASE phase \in {"ready", "failing", "exited"}
      <3>1. Started
        BY <2>2 DEF TrayTyped, TrayStages
      <3>2. todo \in [Goroutines -> Seq(Later)] /\ todo[g] # <<>>
        BY <1>u, <3>1 DEF Started
      <3>3. phase # "exited"
        BY <3>1, <3>2 DEF Started
      <3> QED
        BY <1>u, <2>2, <3>2, <3>3, AnswerGoesOn
    <2>3. CASE phase \in {"boot", "wait"}
      BY <1>u, <2>3 DEF TrayTyped, TrayStages, Fresh
    <2> QED
      BY <1>t, <2>1, <2>2, <2>3
  <1>6. \A i \in 1 .. Len(reqs) : reqs[i].action # "start_http"
    <2>1. CASE phase = "dash"
      <3>1. reqs = <<>>
        BY <1>u, <2>1 DEF TrayTyped, TrayStages, Starting
      <3> QED
        BY <3>1
    <2>2. CASE phase \in {"ready", "failing"}
      BY <2>2 DEF TrayTyped, TrayStages, Started
    <2> QED
      BY <1>5, <2>1, <2>2
  <1>7. phase' # "exited" => \A h \in Goroutines : waiting'[h] => todo'[h] # <<>>
    <2> SUFFICES ASSUME phase' # "exited", NEW h \in Goroutines, waiting'[h] PROVE todo'[h] # <<>>
      OBVIOUS
    <2>1. h # g /\ waiting[h]
      BY <1>t, <1>u
    <2>2. todo'[h] = todo[h]
      BY <1>5, <2>1 DEF GoesOnWith
    <2>3. CASE phase = "dash"
      BY <1>u, <2>1, <2>3 DEF TrayTyped, TrayStages, Starting, Goroutines
    <2>4. CASE phase \in {"ready", "failing"}
      BY <1>u, <2>1, <2>2, <2>4 DEF TrayTyped, TrayStages, Started
    <2> QED
      BY <1>5, <2>3, <2>4
  <1>8. Started'
    BY <1>u, <1>5, <1>6, <1>7 DEF Started, GoesOnWith
  <1> HIDE DEF a, r
  <1> QED
    BY <1>4, <1>5, <1>8 DEF TrayTyped, TrayStages, GoesOnWith

\* A call that failed on the socket: nothing of it stays there.
LEMMA ErrorTyped ==
  ASSUME TrayTyped, NEW g \in Goroutines, ipcError(g)
  PROVE  TrayTyped'
  <1> DEFINE a == Head(todo[g])
  <1>t. /\ reqs \in Seq(Requests) /\ resps \in Seq(Responses) /\ waiting \in [Goroutines -> BOOLEAN]
        /\ phase \in {"boot", "wait", "dash", "ready", "failing", "exited"} /\ CompanionTypeOK
        /\ core \in {"down", "init", "up", "draining"}
    BY StageTyped
  <1>u. /\ conn = "broken" \/ (waiting[g] /\ conn = "none")
        /\ todo[g] # <<>> /\ SendFailed(g, a) /\ conn' = "none"
        /\ waiting' = [waiting EXCEPT ![g] = FALSE]
        /\ core' \in CoreAfterFailure(a)
        /\ UNCHANGED <<proxy, dash, reqs, resps, platform>>
    BY DEF ipcError, Idle
  <1>1. ShownTyped
    BY <1>t, <1>u, FailureTyped
  <1>2. core' \in {"down", "init", "up", "draining"}
    BY <1>t, <1>u DEF CoreAfterFailure, handleCoreUnavailable, KickstartCoreService
  <1>3. TrayTypes'
    BY <1>t, <1>u, <1>1, <1>2 DEF ShownTyped, TrayTyped, TrayTypes, CompanionTypeOK, CoreTypeOK
  <1>4. phase \in {"dash", "ready", "failing"} /\ GoesOnWith(g)
    <2>1. CASE phase = "dash"
      <3>1. Starting
        BY <2>1 DEF TrayTyped, TrayStages
      <3>2. g = "menu"
        BY <1>u, <3>1 DEF Starting, Goroutines
      <3> QED
        BY <1>u, <2>1, <3>1, <3>2, StartEnds
    <2>2. CASE phase \in {"ready", "failing", "exited"}
      <3>1. Started
        BY <2>2 DEF TrayTyped, TrayStages
      <3>2. todo \in [Goroutines -> Seq(Later)] /\ phase # "exited"
        BY <1>u, <3>1 DEF Started
      <3> QED
        BY <1>u, <2>2, <3>2, AnswerGoesOn
    <2>3. CASE phase \in {"boot", "wait"}
      BY <1>u, <2>3 DEF TrayTyped, TrayStages, Fresh
    <2> QED
      BY <1>t, <2>1, <2>2, <2>3
  <1>5. \A i \in 1 .. Len(reqs) : reqs[i].action # "start_http"
    <2>1. CASE phase = "dash"
      <3>1. reqs = <<>>
        BY <1>u, <2>1 DEF TrayTyped, TrayStages, Starting
      <3> QED
        BY <3>1
    <2>2. CASE phase \in {"ready", "failing"}
      BY <2>2 DEF TrayTyped, TrayStages, Started
    <2> QED
      BY <1>4, <2>1, <2>2
  <1>6. Started'
    BY <1>u, <1>4, <1>5 DEF Started, GoesOnWith
  <1> HIDE DEF a
  <1> QED
    BY <1>3, <1>4, <1>6 DEF TrayTyped, TrayStages, GoesOnWith

\* A call over HTTP, or by "aliang tray" itself: it is not the first start.
LEMMA HttpTyped ==
  ASSUME TrayTyped, NEW g \in Goroutines, sendHTTP(g)
  PROVE  TrayTyped'
  <1> DEFINE a == Head(todo[g])
  <1>t. /\ reqs \in Seq(Requests) /\ resps \in Seq(Responses) /\ waiting \in [Goroutines -> BOOLEAN]
        /\ phase \in {"boot", "wait", "dash", "ready", "failing", "exited"} /\ CompanionTypeOK
        /\ core \in {"down", "init", "up", "draining"} /\ dash \in Boards /\ proxy \in BOOLEAN
    BY StageTyped
  <1>u. /\ phase \in {"dash", "ready", "failing"} /\ todo[g] # <<>> /\ conn = "none"
        /\ UNCHANGED <<conn, reqs, resps, platform, waiting>>
    BY DEF sendHTTP, Calling, Idle
  <1>1. phase \in {"ready", "failing"} /\ Started
    BY <1>u DEF TrayTyped, TrayStages, Starting
  <1>2. todo \in [Goroutines -> Seq(Later)]
    BY <1>1 DEF Started
  <1>3. CASE \E r \in ServeOverHttp(a, proxy, dash) :
               /\ a # "start_http" /\ proxy' = r.proxy /\ dash' = r.dash /\ UNCHANGED core
               /\ Answered(g, a, r) \/ SendFailed(g, a)
    <2>1. PICK r \in ServeOverHttp(a, proxy, dash) :
               /\ a # "start_http" /\ proxy' = r.proxy /\ dash' = r.dash /\ UNCHANGED core
               /\ Answered(g, a, r) \/ SendFailed(g, a)
      BY <1>3
    <2>2. r.dash \in Boards /\ r.proxy \in BOOLEAN /\ r.running \in BOOLEAN
      BY <1>t, <2>1, HttpStays
    <2>3. ShownTyped
      BY <1>t, <2>1, <2>2, AnswerTyped, FailureTyped
    <2>4. GoesOnWith(g)
      BY <1>1, <1>2, <1>u, <2>1, AnswerGoesOn
    <2>5. TrayTypes'
      BY <1>t, <1>u, <2>1, <2>2, <2>3 DEF ShownTyped, TrayTyped, TrayTypes, CompanionTypeOK, CoreTypeOK, Boards
    <2> HIDE DEF a
    <2>6. Started'
      BY <1>1, <1>u, <2>4 DEF Started, GoesOnWith
    <2> QED
      BY <2>4, <2>5, <2>6 DEF TrayTyped, TrayStages, GoesOnWith
  <1>4. CASE SendFailed(g, a) /\ core' \in CoreAfterFailure(a) /\ UNCHANGED <<proxy, dash>>
    <2>1. core' \in {"down", "init", "up", "draining"}
      BY <1>t, <1>4 DEF CoreAfterFailure, handleCoreUnavailable, KickstartCoreService
    <2>2. ShownTyped
      BY <1>t, <1>4, FailureTyped
    <2>3. GoesOnWith(g)
      BY <1>1, <1>2, <1>u, <1>4, AnswerGoesOn
    <2>4. TrayTypes'
      BY <1>t, <1>u, <1>4, <2>1, <2>2 DEF ShownTyped, TrayTyped, TrayTypes, CompanionTypeOK, CoreTypeOK, Boards
    <2> HIDE DEF a
    <2>5. Started'
      BY <1>1, <1>u, <2>3 DEF Started, GoesOnWith
    <2> QED
      BY <2>3, <2>4, <2>5 DEF TrayTyped, TrayStages, GoesOnWith
  <1> QED
    BY <1>3, <1>4 DEF sendHTTP

LEMMA DirectTyped ==
  ASSUME TrayTyped, NEW g \in Goroutines, callDirect(g)
  PROVE  TrayTyped'
  <1> DEFINE a == Head(todo[g])
  <1>t. /\ reqs \in Seq(Requests) /\ resps \in Seq(Responses) /\ waiting \in [Goroutines -> BOOLEAN]
        /\ phase \in {"boot", "wait", "dash", "ready", "failing", "exited"} /\ CompanionTypeOK
        /\ conn \in {"none", "open", "broken"} /\ dash \in Boards /\ proxy \in BOOLEAN
    BY StageTyped
  <1>u. /\ phase \in {"dash", "ready", "failing"} /\ platform = "tray" /\ todo[g] # <<>> /\ ~waiting[g]
        /\ UNCHANGED <<platform, waiting>>
    BY DEF callDirect, Calling, Idle
  <1>1. phase \in {"ready", "failing"} /\ Started
    BY <1>u DEF TrayTyped, TrayStages
  <1>2. todo \in [Goroutines -> Seq(Later)] /\ a \in Later /\ a # "start_http"
    <2>1. todo \in [Goroutines -> Seq(Later)]
      BY <1>1 DEF Started
    <2>2. todo[g] \in Seq(Later)
      BY <2>1
    <2>3. a \in Later
      BY <1>u, <2>2
    <2> QED
      BY <2>1, <2>3 DEF Later
  <1>3. CASE a = "stop_http"
    <2>1. exit(g) /\ Gone
      BY <1>3 DEF callDirect
    <2>2. dash' \in Boards
      BY <1>t, <2>1, EndStays DEF Gone
    <2>3. /\ phase' = "exited" /\ todo' = [h \in Goroutines |-> <<>>] /\ conn' # "open"
          /\ reqs' = <<>> /\ resps' = <<>> /\ conn' \in {"none", "open", "broken"}
          /\ core' = "down" /\ proxy' = FALSE
      BY <1>t, <2>1 DEF exit, Gone
    <2>4. <<>> \in Seq(Requests) /\ <<>> \in Seq(Responses) /\ Len(<<>>) = 0
      OBVIOUS
    <2>5. UNCHANGED <<menu, isRunning, reconnectSeq>>
      BY <2>1 DEF exit
    <2>6. TrayTypes'
      BY <1>t, <1>u, <2>2, <2>3, <2>4, <2>5 DEF TrayTypes, CompanionTypeOK, CoreTypeOK, Boards
    <2>7. todo' \in [Goroutines -> Seq(Later)]
      BY <2>3, ShortLists
    <2>8. Started'
      BY <2>3, <2>4, <2>7 DEF Started
    <2> QED
      BY <2>3, <2>6, <2>8 DEF TrayTyped, TrayStages
  <1>4. CASE a # "stop_http"
    <2>1. PICK r \in handleRequest(a, proxy, dash) :
               /\ proxy' = r.proxy /\ dash' = r.dash /\ Answered(g, a, r)
               /\ UNCHANGED <<core, conn, reqs, resps>>
      BY <1>4 DEF callDirect
    <2>2. r.dash \in Boards
      BY <1>t, <1>2, <2>1, RequestStays
    <2>3. r.proxy \in BOOLEAN /\ r.running \in BOOLEAN
      <3>1. IsAnswer(a, r)
        BY <1>t, <2>1, RequestResult
      <3> QED
        BY <3>1 DEF IsAnswer, IsResult
    <2>4. ShownTyped
      BY <1>t, <2>1, <2>3, AnswerTyped
    <2>5. GoesOnWith(g)
      BY <1>1, <1>2, <1>u, <2>1, AnswerGoesOn
    <2>6. TrayTypes'
      BY <1>t, <1>u, <2>1, <2>2, <2>3, <2>4 DEF ShownTyped, TrayTyped, TrayTypes, CompanionTypeOK, CoreTypeOK, Boards
    <2>7. conn' = "open" => \A h \in Goroutines : waiting'[h] => todo'[h] # <<>>
      <3> SUFFICES ASSUME conn' = "open", NEW h \in Goroutines, waiting'[h] PROVE todo'[h] # <<>>
        OBVIOUS
      <3>1. h # g /\ todo[h] # <<>>
        BY <1>1, <1>u, <2>1 DEF Started
      <3>2. phase' # "exited"
        BY <1>1, <1>2, <1>4, <2>1 DEF Answered, dashboardStarted, quitAnswered, Later, Calls
      <3> QED
        BY <2>5, <3>1, <3>2 DEF GoesOnWith
    <2> HIDE DEF a
    <2>8. Started'
      BY <1>1, <1>u, <2>1, <2>5, <2>7 DEF Started, GoesOnWith
    <2> QED
      BY <2>5, <2>6, <2>8 DEF TrayTyped, TrayStages, GoesOnWith
  <1> QED
    BY <1>3, <1>4

\* The life of the companion, its menu and its ticker.
LEMMA LifeTyped ==
  ASSUME TrayTyped, connectAndStartHTTP \/ waitForIPC \/ failStartup \/ RunCompanion
  PROVE  TrayTyped'
  <1>t. /\ reqs \in Seq(Requests) /\ resps \in Seq(Responses) /\ waiting \in [Goroutines -> BOOLEAN]
        /\ phase \in {"boot", "wait", "dash", "ready", "failing", "exited"} /\ CompanionTypeOK
        /\ core \in {"down", "init", "up", "draining"} /\ conn \in {"none", "open", "broken"}
    BY StageTyped
  <1>e. <<>> \in Seq(Requests) /\ <<>> \in Seq(Responses) /\ Len(<<>>) = 0
    OBVIOUS
  <1>s. ASSUME StartupFailed PROVE phase' \in {"ready", "failing"} /\ menu' = "off" /\ isRunning' \in BOOLEAN
    BY <1>s, <1>t DEF StartupFailed, applyUnavailableState, CompanionTypeOK
  <1>l. Fresh => todo \in [Goroutines -> Seq(Later)]
    BY ShortLists DEF Fresh
  <1>1. CASE connectAndStartHTTP
    <2>1. Fresh /\ platform # "tray" /\ UNCHANGED <<proxy, dash, conn, reqs, resps, platform, todo, waiting, reconnectSeq>>
      BY <1>1 DEF TrayTyped, TrayStages, connectAndStartHTTP
    <2>2. CASE StartupFailed /\ UNCHANGED core
      <3>1. TrayTypes'
        BY <1>t, <1>s, <2>1, <2>2 DEF TrayTypes, TrayTyped, CompanionTypeOK, CoreTypeOK
      <3>2. Started'
        BY <1>e, <1>l, <1>s, <2>1, <2>2 DEF Fresh, Started
      <3> QED
        BY <1>s, <2>2, <3>1, <3>2 DEF TrayTyped, TrayStages
    <2>3. CASE phase' = "wait" /\ core' \in KickstartCoreService(core) /\ UNCHANGED <<menu, isRunning>>
      <3>1. TrayTypes'
        BY <1>t, <2>1, <2>3 DEF TrayTypes, TrayTyped, CompanionTypeOK, CoreTypeOK, KickstartCoreService
      <3>2. Fresh'
        BY <2>1 DEF Fresh
      <3> QED
        BY <2>1, <2>3, <3>1, <3>2 DEF TrayTyped, TrayStages
    <2> QED
      BY <1>1, <2>2, <2>3 DEF connectAndStartHTTP
  <1>2. CASE waitForIPC
    <2>1. Fresh /\ platform # "tray" /\ UNCHANGED <<core, proxy, dash, reqs, resps, platform, waiting, reconnectSeq>>
      BY <1>2 DEF TrayTyped, TrayStages, waitForIPC
    <2>2. CASE StartupFailed /\ UNCHANGED <<conn, todo>>
      <3>1. TrayTypes'
        BY <1>t, <1>s, <2>1, <2>2 DEF TrayTypes, TrayTyped, CompanionTypeOK, CoreTypeOK
      <3>2. Started'
        BY <1>e, <1>l, <1>s, <2>1, <2>2 DEF Fresh, Started
      <3> QED
        BY <1>s, <2>2, <3>1, <3>2 DEF TrayTyped, TrayStages
    <2>3. CASE /\ conn' = "open" /\ phase' = "dash" /\ todo' = [todo EXCEPT !["menu"] = <<"start_http">>]
               /\ UNCHANGED <<menu, isRunning>>
      <3>1. TrayTypes'
        BY <1>t, <2>1, <2>3 DEF TrayTypes, TrayTyped, CompanionTypeOK, CoreTypeOK
      <3>2. Starting'
        BY <2>1, <2>3 DEF Fresh, Starting, Goroutines
      <3> QED
        BY <2>3, <3>1, <3>2, <2>1 DEF TrayTyped, TrayStages
    <2> QED
      BY <1>2, <2>2, <2>3 DEF waitForIPC
  <1>3. CASE failStartup
    <2>1. /\ phase = "failing" /\ phase' = "exited" /\ todo' = [g \in Goroutines |-> <<>>]
          /\ waiting' = [g \in Goroutines |-> FALSE] /\ conn' = "none"
          /\ UNCHANGED <<core, proxy, dash, reqs, resps, platform, menu, isRunning, reconnectSeq>>
      BY <1>3 DEF failStartup
    <2>2. TrayTypes'
      BY <1>t, <2>1 DEF TrayTypes, TrayTyped, CompanionTypeOK, CoreTypeOK
    <2>3. todo' \in [Goroutines -> Seq(Later)]
      BY <2>1, ShortLists
    <2>4. Started'
      BY <2>1, <2>3 DEF TrayTyped, TrayStages, Started
    <2> QED
      BY <2>1, <2>2, <2>4 DEF TrayTyped, TrayStages
  <1>4. CASE RunCompanion
    <2>1. /\ phase = "exited" /\ platform # "tray" /\ dash.last < MaxServers
          /\ phase' = "boot" /\ reqs' = <<>> /\ resps' = <<>>
          /\ waiting' = [g \in Goroutines |-> FALSE] /\ menu' = "start" /\ isRunning' = FALSE
          /\ reconnectSeq' = 0 /\ UNCHANGED <<core, proxy, dash, conn, platform, todo>>
      BY <1>4 DEF RunCompanion
    <2>2. TrayTypes'
      <3>1. 0 \in 0 .. (MaxRestarts + 1)
        BY DEF MaxRestarts
      <3>2. waiting' \in [Goroutines -> BOOLEAN] /\ reqs' \in Seq(Requests) /\ resps' \in Seq(Responses)
        BY <1>e, <2>1
      <3>3. CompanionTypeOK'
        BY <1>t, <2>1, <3>1 DEF CompanionTypeOK, CoreTypeOK
      <3> QED
        BY <3>2, <3>3 DEF TrayTypes
    <2>3. Fresh'
      BY <2>1 DEF TrayTyped, TrayStages, Started, Fresh
    <2> QED
      BY <2>1, <2>2, <2>3 DEF TrayTyped, TrayStages
  <1> QED
    BY <1>1, <1>2, <1>3, <1>4

LEMMA MenuLists ==
  ASSUME NEW s, s \in {startProxy, stopProxy, selectMode, restartProxy, quitCalls}
  PROVE  s \in Seq(Later) /\ s # <<>>
  <1>l. {"start_proxy", "stop_proxy", "switch_mode", "get_status", "quit_stop", "stop_http"} \subseteq Later
    BY DEF Later, Calls
  <1>1. CASE s \in {startProxy, stopProxy, selectMode}
    <2>1. CASE s = startProxy
      BY <1>l, <2>1 DEF startProxy
    <2>2. CASE s = stopProxy
      BY <1>l, <2>2 DEF stopProxy
    <2>3. CASE s = selectMode
      BY <1>l, <2>3 DEF selectMode
    <2> QED
      BY <1>1, <2>1, <2>2, <2>3
  <1>2. CASE s = restartProxy
    <2>1. s = <<"stop_proxy", "get_status", "start_proxy", "get_status">>
      BY <1>2, TwoAndTwo DEF restartProxy, stopProxy, startProxy
    <2> QED
      BY <1>l, <2>1
  <1>3. CASE s = quitCalls
    <2>1. CASE s = quitWindows
      BY <1>l, <2>1 DEF quitWindows
    <2>3. CASE s = quitTray
      BY <1>l, <2>3 DEF quitTray
    <2>2. CASE s = quit
      <3> DEFINE p == IF isRunning THEN <<"quit_stop">> ELSE <<>>
                 q == <<"stop_http">>
      <3>1. p \in Seq(Later) /\ q \in Seq(Later) /\ Len(p) \in Nat /\ Len(q) = 1
        BY <1>l
      <3>2. s = p \o q
        BY <2>2 DEF quit
      <3> HIDE DEF p, q
      <3>3. s \in Seq(Later) /\ Len(s) = Len(p) + Len(q)
        BY <3>1, <3>2, ConcatProperties
      <3> QED
        BY <3>1, <3>3, EmptySeq
    <2> QED
      BY <1>3, <2>1, <2>2, <2>3 DEF quitCalls
  <1> QED
    BY <1>1, <1>2, <1>3

LEMMA ClickTyped ==
  ASSUME TrayTyped, handleMenuEvents \/ syncStateLoop
  PROVE  TrayTyped'
  <1>1. /\ phase \in {"ready", "failing"} /\ \E g \in Goroutines, s \in Seq(Later) :
             s # <<>> /\ todo' = [todo EXCEPT ![g] = s]
    <2>1. CASE syncStateLoop
      <3>1. <<"get_status">> # <<>>
        OBVIOUS
      <3> QED
        BY <2>1, <3>1, ShortLists DEF syncStateLoop, Goroutines
    <2>2. CASE handleMenuEvents
      <3>1. PICK s \in {startProxy, stopProxy, selectMode, restartProxy, quitCalls} :
              todo' = [todo EXCEPT !["menu"] = s]
        BY <2>2 DEF handleMenuEvents
      <3>2. s \in Seq(Later) /\ s # <<>>
        BY <3>1, MenuLists
      <3> QED
        BY <2>2, <3>1, <3>2 DEF handleMenuEvents, Goroutines
    <2> QED
      BY <2>1, <2>2
  <1>2. UNCHANGED <<core, proxy, dash, conn, reqs, resps, platform, phase, waiting, menu, isRunning, reconnectSeq>>
    BY DEF handleMenuEvents, syncStateLoop, coreVars
  <1>3. TrayTypes'
    BY <1>2 DEF TrayTyped, TrayTypes, CompanionTypeOK, CoreTypeOK
  <1>4. Started
    BY <1>1 DEF TrayTyped, TrayStages
  <1>5. Started'
    <2>1. PICK g \in Goroutines, s \in Seq(Later) : s # <<>> /\ todo' = [todo EXCEPT ![g] = s]
      BY <1>1
    <2>2. todo' \in [Goroutines -> Seq(Later)]
      BY <1>4, <2>1 DEF Started
    <2>3. \A h \in Goroutines : todo[h] # <<>> => todo'[h] # <<>>
      BY <1>4, <2>1 DEF Started
    <2> QED
      BY <1>1, <1>2, <1>4, <2>2, <2>3 DEF Started
  <1> QED
    BY <1>1, <1>2, <1>3, <1>5 DEF TrayTyped, TrayStages

LEMMA DashboardTyped ==
  ASSUME TrayTyped, ensureDashboardServer
  PROVE  TrayTyped'
  <1>1. /\ phase = "ready" /\ dash.last < MaxServers /\ \E r \in StartHttpServer(dash) : dash' = r.dash
        /\ UNCHANGED <<core, proxy, conn, reqs, resps>>
        /\ UNCHANGED <<platform, phase, todo, waiting, menu, isRunning, reconnectSeq>>
    BY DEF ensureDashboardServer, clientVars
  <1>2. dash' \in Boards
    BY <1>1, StartStays, StageTyped
  <1>3. TrayTypes'
    BY <1>1, <1>2 DEF TrayTyped, TrayTypes, CompanionTypeOK, CoreTypeOK, Boards
  <1>4. Started'
    BY <1>1 DEF TrayTyped, TrayStages, Started
  <1> QED
    BY <1>1, <1>3, <1>4 DEF TrayTyped, TrayStages

\* The companion in its three forms and the core, with any number of dashboard servers: their
\* globals, what the tray shows and where its start-up stands keep their types.
THEOREM CompanionTypeCorrect == CompanionSpec => []CompanionTypeOK
  <1>1. CompanionInit => TrayTyped
    <2> SUFFICES ASSUME CompanionInit PROVE TrayTyped
      OBVIOUS
    <2>1. NoDash \in Boards /\ NoDash.last = 0 /\ 0 < MaxServers /\ 0 \in 0 .. MaxServers
      BY CoreAssumption DEF NoDash, Boards
    <2>2. dash \in Boards /\ (platform # "tray" => dash.last < MaxServers)
      BY <2>1, StartStays DEF CompanionInit
    <2>3. /\ todo = [g \in Goroutines |-> <<>>] /\ waiting = [g \in Goroutines |-> FALSE]
          /\ reqs = <<>> /\ resps = <<>> /\ conn = "none" /\ proxy = FALSE
          /\ menu = "start" /\ isRunning = FALSE /\ reconnectSeq = 0
          /\ core \in {"down", "init", "up", "draining"}
          /\ phase = IF platform = "tray" THEN "ready" ELSE "boot"
      BY DEF CompanionInit, CoreInit
    <2>4. <<>> \in Seq(Requests) /\ <<>> \in Seq(Responses) /\ Len(<<>>) = 0
      OBVIOUS
    <2>5. TrayTypes
      <3>1. 0 \in 0 .. (MaxRestarts + 1)
        BY DEF MaxRestarts
      <3>2. waiting \in [Goroutines -> BOOLEAN] /\ reqs \in Seq(Requests) /\ resps \in Seq(Responses)
        BY <2>3, <2>4
      <3>3. CompanionTypeOK
        BY <2>2, <2>3, <3>1 DEF CompanionTypeOK, CoreTypeOK, Boards
      <3> QED
        BY <3>2, <3>3 DEF TrayTypes
    <2>6. platform # "tray" => Fresh
      BY <2>2, <2>3 DEF Fresh
    <2>7. todo \in [Goroutines -> Seq(Later)]
      BY <2>3, ShortLists
    <2>8. platform = "tray" => Started
      BY <2>3, <2>4, <2>7 DEF Started
    <2> QED
      BY <2>3, <2>5, <2>6, <2>8 DEF TrayTyped, TrayStages
  <1>2. TrayTyped /\ [CompanionNext]_companionVars => TrayTyped'
    <2> SUFFICES ASSUME TrayTyped, [CompanionNext]_companionVars PROVE TrayTyped'
      OBVIOUS
    <2>1. CASE UNCHANGED companionVars
      BY <2>1 DEF companionVars, coreVars, clientVars, TrayTyped, TrayTypes, TrayStages, CompanionTypeOK,
         CoreTypeOK, Fresh, Starting, Started
    <2>2. CASE CompanionNext
      BY <2>2, CoreTyped, ServeTyped, AskTyped, ReceiveTyped, ErrorTyped, HttpTyped, DirectTyped, LifeTyped,
         ClickTyped, DashboardTyped DEF CompanionNext
    <2> QED
      BY <2>1, <2>2
  <1>3. TrayTyped => CompanionTypeOK
    BY DEF TrayTyped, TrayTypes
  <1> QED
    BY <1>1, <1>2, <1>3, PTL DEF CompanionSpec

-----------------------------------------------------------------------------
(* The offer of an update.                                                 *)

\* What the steps read of the snapshot: an offer has a date, the number of a check, and a
\* check that is under way has a number above 0.
OfferInv ==
  /\ snapshot \in [latest : Versions \cup {NoVersion}, needs : BOOLEAN, force : BOOLEAN,
                   status : {"none", "error", "force_update", "update_available", "up_to_date"},
                   first : Nat]
  /\ snapshot.needs => snapshot.first # 0
  /\ checks \in Nat
  /\ checker \in {"fetching", "storing"} => checks # 0
  /\ answer \in Answers
  /\ version \in Versions \cup {NoVersion}

\* One step of the property.
OfferKept ==
  /\ (snapshot.needs /\ ~(checker = "storing" /\ answer.ok)) =>
        /\ snapshot'.needs /\ snapshot'.force = snapshot.force
        /\ snapshot'.latest = snapshot.latest /\ snapshot'.first = snapshot.first
  /\ (snapshot.needs /\ snapshot'.needs /\ snapshot'.latest = snapshot.latest) =>
        snapshot'.first = snapshot.first

Good == [latest : Versions \cup {NoVersion}, needs : BOOLEAN, force : BOOLEAN, ok : {TRUE}]

LEMMA NotFailure == \A a \in Answers : a.ok => a \in Good
<1>1. Failure.ok = FALSE
  BY DEF Failure
<1>2. QED
  BY <1>1, Zenon DEF Answers, Good

LEMMA OfferStarts == UpdateInit => OfferInv
BY DEF UpdateInit, OfferInv, NoSnapshot, Answers

\* Storing the outcome of a check.
LEMMA StoreStep ==
  ASSUME OfferInv, RefreshNow
  PROVE  OfferInv' /\ OfferKept
<1>1. checks # 0 /\ checks \in Nat
  BY DEF OfferInv, RefreshNow
<1>2. CASE UNCHANGED snapshot
  BY <1>2 DEF OfferInv, OfferKept, RefreshNow
<1>3. CASE answer.ok /\ snapshot' = NewSnapshot(answer)
  <2>1. /\ answer.latest \in Versions \cup {NoVersion} /\ answer.needs \in BOOLEAN
        /\ answer.force \in BOOLEAN
    <3>1. answer \in Good
      BY <1>3, NotFailure DEF OfferInv
    <3>2. QED
      BY <3>1 DEF Good
  <2>2. /\ firstSeenAt(answer) \in Nat
        /\ answer.needs => firstSeenAt(answer) # 0
        /\ (answer.needs /\ snapshot.needs /\ snapshot.latest = answer.latest)
             => firstSeenAt(answer) = snapshot.first
    BY <1>1, <2>1 DEF firstSeenAt, OfferInv
  <2>3. softwareUpdateStatusLabel(answer.needs, answer.force) \in
          {"force_update", "update_available", "up_to_date"}
    BY DEF softwareUpdateStatusLabel
  <2>4. OfferInv'
    BY <1>3, <2>1, <2>2, <2>3 DEF OfferInv, NewSnapshot, RefreshNow
  <2>5. OfferKept
    BY <1>3, <2>2 DEF OfferKept, NewSnapshot, RefreshNow
  <2>6. QED
    BY <2>4, <2>5
<1>4. CASE ~answer.ok /\ snapshot' = persistFailureState
  <2>1. CASE snapshot = NoSnapshot
    BY <1>4, <2>1 DEF OfferInv, OfferKept, RefreshNow, persistFailureState, NoSnapshot
  <2>2. CASE snapshot # NoSnapshot
    BY <1>4, <2>2 DEF OfferInv, OfferKept, RefreshNow, persistFailureState
  <2>3. QED
    BY <2>1, <2>2
<1>5. QED
  BY <1>2, <1>3, <1>4 DEF RefreshNow

LEMMA OfferStep == OfferInv /\ [UpdateNext]_updateVars => OfferInv' /\ OfferKept
<1> SUFFICES ASSUME OfferInv, [UpdateNext]_updateVars PROVE OfferInv' /\ OfferKept
  OBVIOUS
<1>1. CASE UNCHANGED updateVars
  BY <1>1 DEF updateVars, OfferInv, OfferKept
<1>2. CASE RefreshNow
  BY <1>2, StoreStep
<1>3. CASE BeginRefresh
  BY <1>3 DEF BeginRefresh, OfferInv, OfferKept, Answers
<1>4. CASE fetchRemoteUpdate
  <2>1. PICK a \in Answers :
          answer' = IF a.ok THEN normalizeSoftwareUpdateRemotePayload(a) ELSE a
    BY <1>4 DEF fetchRemoteUpdate
  <2>2. answer' \in Answers
    <3>1. CASE ~a.ok
      BY <2>1, <3>1
    <3>2. CASE a.ok
      <4>1. a \in Good
        BY <3>2, NotFailure
      <4>2. answer' \in [latest : Versions \cup {NoVersion}, needs : BOOLEAN, force : BOOLEAN, ok : {TRUE}]
        BY <2>1, <3>2, <4>1 DEF OfferInv, Good, normalizeSoftwareUpdateRemotePayload
      <4>3. QED
        BY <4>2 DEF Answers
    <3>3. QED
      BY <3>1, <3>2
  <2>3. QED
    BY <1>4, <2>2 DEF fetchRemoteUpdate, OfferInv, OfferKept
<1>5. CASE StartChecker
  BY <1>5 DEF StartChecker, OfferInv, OfferKept
<1>6. CASE RestartWithVersion
  BY <1>6 DEF RestartWithVersion, OfferInv, OfferKept, Answers
<1>7. ASSUME NEW c \in Viewers,
             \/ ReadSnapshot(c, "status") \/ ReadSnapshot(c, "dismiss") \/ StoreFails(c)
             \/ GetFrontendStatus(c) \/ DismissCurrentUpdate(c)
      PROVE  OfferInv' /\ OfferKept
  <2>1. UNCHANGED <<version, snapshot, checker, answer, checks>>
    BY <1>7 DEF ReadSnapshot, StoreFails, GetFrontendStatus, DismissCurrentUpdate
  <2>2. QED
    BY <2>1 DEF OfferInv, OfferKept
<1>8. QED
  BY <1>1, <1>2, <1>3, <1>4, <1>5, <1>6, <1>7 DEF UpdateNext

\* SoftwareUpdateService, for any versions, any number of checks and of frontend calls: failed
\* checks, lost writes, dismissals and restarts leave an offer, forced or not, as it is, and
\* a version that stays on offer keeps the date since when it is.
THEOREM OfferSurvives == UpdateSpec => OfferOutlivesFailures
<1>1. UpdateInit => OfferInv
  BY OfferStarts
<1>2. OfferInv /\ [UpdateNext]_updateVars => OfferInv'
  BY OfferStep
<1>3. OfferInv /\ [UpdateNext]_updateVars => [OfferKept]_updateVars
  BY OfferStep
<1>4. UpdateSpec => [][OfferKept]_updateVars
  BY <1>1, <1>2, <1>3, PTL DEF UpdateSpec
<1>5. QED
  BY <1>4 DEF OfferOutlivesFailures, OfferKept

\* What an offer names: a snapshot that offers an update, the answer it comes from and the
\* snapshots frontend calls have read all name a version of the server or the running one.
Named(s) == s \in Snapshots /\ (s.needs => s.latest \in Versions)

UpdateTyped ==
  /\ UpdateTypeOK
  /\ Named(snapshot)
  /\ \A c \in Viewers : Named(viewers[c].read)
  /\ DOMAIN viewers = Viewers
  /\ checker = "fetching" => version \in Versions
  /\ checker = "storing" /\ answer.ok => answer.latest \in Versions

LEMMA NoneNamed == Named(NoSnapshot)
BY UpdateAssumption DEF Named, Snapshots, NoSnapshot

LEMMA UpdateStartsTyped == UpdateInit => UpdateTyped
<1> SUFFICES ASSUME UpdateInit PROVE UpdateTyped
  OBVIOUS
<1>1. \A c \in Viewers : viewers[c].read = NoSnapshot
  BY DEF UpdateInit, NoView
<1>2. NoSnapshot \in Snapshots
  BY NoneNamed DEF Named
<1>3. checks \in 0 .. MaxChecks /\ Failure \in Answers
  BY UpdateAssumption DEF UpdateInit, Answers
<1> QED
  BY <1>1, <1>2, <1>3, NoneNamed DEF UpdateInit, UpdateTyped, UpdateTypeOK

\* A frontend call moves on with a snapshot it has read before or reads now.
LEMMA ViewerTyped ==
  ASSUME UpdateTyped, NEW c \in Viewers, NEW v, Named(v.read), viewers' = [viewers EXCEPT ![c] = v],
         UNCHANGED <<version, snapshot, trigger, checker, answer, checks>>, dismissals' \subseteq Versions
  PROVE  UpdateTyped'
<1>1. DOMAIN viewers' = Viewers
  BY DEF UpdateTyped
<1>2. ASSUME NEW x \in Viewers PROVE Named(viewers'[x].read)
  <2>1. CASE x = c
    BY <2>1 DEF UpdateTyped
  <2>2. CASE x # c
    <3>1. viewers'[x] = viewers[x]
      BY <2>2 DEF UpdateTyped
    <3> QED
      BY <3>1 DEF UpdateTyped
  <2> QED
    BY <2>1, <2>2
<1>3. \A x \in Viewers : viewers'[x].read \in Snapshots
  BY <1>2 DEF Named
<1>4. UpdateTypeOK'
  BY <1>3 DEF UpdateTyped, UpdateTypeOK, Snapshots
<1> QED
  BY <1>1, <1>2, <1>4 DEF UpdateTyped, Named, Snapshots

\* The loop and restarts: calls keep what they have read or forget it.
LEMMA LoopTyped ==
  ASSUME UpdateTyped, viewers' = viewers \/ viewers' = [c \in Viewers |-> NoView],
         version' \in Versions \cup {NoVersion}, Named(snapshot'), dismissals' = dismissals,
         trigger' \in BOOLEAN, checker' \in {"stopped", "waiting", "fetching", "storing"},
         answer' \in Answers, checks' \in 0 .. MaxChecks,
         checker' = "fetching" => version' \in Versions,
         checker' = "storing" /\ answer'.ok => answer'.latest \in Versions
  PROVE  UpdateTyped'
<1>1. \A c \in Viewers : Named(viewers'[c].read)
  BY NoneNamed DEF UpdateTyped, NoView
<1>2. DOMAIN viewers' = Viewers
  BY DEF UpdateTyped
<1>3. snapshot' \in Snapshots /\ \A c \in Viewers : viewers'[c].read \in Snapshots
  BY <1>1 DEF Named
<1>4. UpdateTypeOK'
  BY <1>3 DEF UpdateTyped, UpdateTypeOK, Snapshots, Answers
<1> QED
  BY <1>1, <1>2, <1>4 DEF UpdateTyped, Named, Snapshots

LEMMA StoredTyped ==
  ASSUME UpdateTyped, RefreshNow
  PROVE  Named(snapshot')
<1>c. checks \in 0 .. MaxChecks /\ snapshot \in Snapshots /\ Named(snapshot)
  BY DEF UpdateTyped, UpdateTypeOK
<1>1. CASE UNCHANGED snapshot
  BY <1>1, <1>c
<1>2. CASE answer.ok /\ snapshot' = NewSnapshot(answer)
  <2>1. answer \in Good
    BY <1>2, NotFailure DEF UpdateTyped, UpdateTypeOK
  <2>2. /\ answer.latest \in Versions /\ answer.needs \in BOOLEAN /\ answer.force \in BOOLEAN
    BY <1>2, <2>1 DEF Good, UpdateTyped, RefreshNow
  <2>3. firstSeenAt(answer) \in 0 .. MaxChecks
    BY <1>c, UpdateAssumption DEF firstSeenAt, Snapshots
  <2>4. softwareUpdateStatusLabel(answer.needs, answer.force) \in
          {"force_update", "update_available", "up_to_date"}
    BY DEF softwareUpdateStatusLabel
  <2> QED
    BY <1>2, <2>2, <2>3, <2>4 DEF Named, Snapshots, NewSnapshot
<1>3. CASE ~answer.ok /\ snapshot' = persistFailureState
  <2>1. CASE snapshot = NoSnapshot
    <3>1. version \in Versions \cup {NoVersion} /\ 0 \in 0 .. MaxChecks
      BY UpdateAssumption DEF UpdateTyped, UpdateTypeOK
    <3> QED
      BY <1>3, <2>1, <3>1 DEF Named, Snapshots, NoSnapshot, persistFailureState
  <2>2. CASE snapshot # NoSnapshot
    BY <1>3, <2>2, <1>c DEF Named, Snapshots, persistFailureState
  <2> QED
    BY <2>1, <2>2
<1> QED
  BY <1>1, <1>2, <1>3 DEF RefreshNow

LEMMA UpdateStepTyped == UpdateTyped /\ [UpdateNext]_updateVars => UpdateTyped'
<1> SUFFICES ASSUME UpdateTyped, [UpdateNext]_updateVars PROVE UpdateTyped'
  OBVIOUS
<1>t. /\ version \in Versions \cup {NoVersion} /\ dismissals \subseteq Versions /\ trigger \in BOOLEAN
      /\ checker \in {"stopped", "waiting", "fetching", "storing"}
      /\ answer \in Answers /\ checks \in 0 .. MaxChecks /\ Named(snapshot)
  BY DEF UpdateTyped, UpdateTypeOK
<1>f. Failure \in Answers /\ Failure.ok = FALSE
  BY DEF Answers, Failure
<1>1. CASE UNCHANGED updateVars
  <2>1. /\ checker' = "fetching" => version' \in Versions
        /\ checker' = "storing" /\ answer'.ok => answer'.latest \in Versions
    BY <1>1 DEF updateVars, UpdateTyped
  <2> QED
    BY <1>1, <1>t, <2>1, LoopTyped DEF updateVars
<1>2. CASE StartChecker
  BY <1>2, <1>t, LoopTyped DEF StartChecker
<1>3. CASE BeginRefresh
  <2>1. checks' \in 0 .. MaxChecks
    BY <1>3, <1>t, UpdateAssumption DEF BeginRefresh
  <2>2. /\ version' = version /\ snapshot' = snapshot /\ dismissals' = dismissals /\ viewers' = viewers
        /\ trigger' \in BOOLEAN /\ answer' = Failure
        /\ checker' \in {"fetching", "storing"} /\ (checker' = "fetching" => version # NoVersion)
    BY <1>3, <1>t DEF BeginRefresh
  <2> QED
    BY <1>t, <1>f, <2>1, <2>2, LoopTyped
<1>4. CASE fetchRemoteUpdate
  <2>1. PICK a \in Answers :
          answer' = IF a.ok THEN normalizeSoftwareUpdateRemotePayload(a) ELSE a
    BY <1>4 DEF fetchRemoteUpdate
  <2>2. answer' \in Answers /\ (answer'.ok => answer'.latest \in Versions)
    <3>1. CASE ~a.ok
      BY <2>1, <3>1
    <3>2. CASE a.ok
      <4>1. a \in Good
        BY <3>2, NotFailure
      <4>2. version \in Versions
        BY <1>4 DEF fetchRemoteUpdate, UpdateTyped
      <4>3. answer' \in Good /\ answer'.latest \in Versions
        BY <2>1, <3>2, <4>1, <4>2 DEF Good, normalizeSoftwareUpdateRemotePayload
      <4>4. answer' \in Answers
        BY <4>3 DEF Answers, Good
      <4> QED
        BY <4>3, <4>4
    <3> QED
      BY <3>1, <3>2
  <2> QED
    BY <1>4, <1>t, <2>2, LoopTyped DEF fetchRemoteUpdate
<1>5. CASE RefreshNow
  BY <1>5, <1>t, StoredTyped, LoopTyped DEF RefreshNow
<1>6. CASE RestartWithVersion
  BY <1>6, <1>t, <1>f, LoopTyped DEF RestartWithVersion
<1>7. ASSUME NEW c \in Viewers, NEW op, ReadSnapshot(c, op) PROVE UpdateTyped'
  <2> DEFINE v == IF version = NoVersion THEN [NoView EXCEPT !.result = ErrorStatus]
                  ELSE [NoView EXCEPT !.op = op, !.step = "read", !.read = snapshot]
  <2>1. v.read \in {NoSnapshot, snapshot}
    BY DEF NoView
  <2>2. Named(v.read)
    BY <1>t, <2>1, NoneNamed
  <2>3. viewers' = [viewers EXCEPT ![c] = v]
    BY <1>7 DEF ReadSnapshot
  <2>4. UNCHANGED <<version, snapshot, dismissals, trigger, checker, answer, checks>>
    BY <1>7 DEF ReadSnapshot
  <2> HIDE DEF v
  <2> QED
    BY <1>t, <2>2, <2>3, <2>4, ViewerTyped
<1>8. ASSUME NEW c \in Viewers, StoreFails(c) \/ GetFrontendStatus(c) PROVE UpdateTyped'
  <2>1. PICK r : viewers' = [viewers EXCEPT ![c] = [NoView EXCEPT !.result = r]]
    BY <1>8 DEF StoreFails, GetFrontendStatus
  <2>2. [NoView EXCEPT !.result = r].read = NoSnapshot
    BY DEF NoView
  <2>3. UNCHANGED <<version, snapshot, dismissals, trigger, checker, answer, checks>>
    BY <1>8 DEF StoreFails, GetFrontendStatus
  <2> DEFINE v == [NoView EXCEPT !.result = r]
  <2>4. Named(v.read) /\ viewers' = [viewers EXCEPT ![c] = v]
    BY <2>1, <2>2, NoneNamed
  <2>5. UNCHANGED <<version, snapshot, trigger, checker, answer, checks>> /\ dismissals' \subseteq Versions
    BY <1>t, <2>3
  <2> HIDE DEF v
  <2> QED
    BY <2>4, <2>5, ViewerTyped
<1>9. ASSUME NEW c \in Viewers, DismissCurrentUpdate(c) PROVE UpdateTyped'
  <2>1. viewers[c].read \in Snapshots /\ (viewers[c].read.needs => viewers[c].read.latest \in Versions)
    BY DEF UpdateTyped, Named
  <2>2. dismissals' \subseteq Versions
    BY <1>9, <1>t, <2>1 DEF DismissCurrentUpdate
  <2>3. \/ viewers' = [viewers EXCEPT ![c] = NoView]
        \/ viewers' = [viewers EXCEPT ![c] = [NoView EXCEPT !.step = "again"]]
    BY <1>9 DEF DismissCurrentUpdate
  <2>4. NoView.read = NoSnapshot /\ [NoView EXCEPT !.step = "again"].read = NoSnapshot
    BY DEF NoView
  <2>5. UNCHANGED <<version, snapshot, trigger, checker, answer, checks>>
    BY <1>9 DEF DismissCurrentUpdate
  <2>6. PICK v \in {NoView, [NoView EXCEPT !.step = "again"]} : viewers' = [viewers EXCEPT ![c] = v]
    BY <2>3
  <2>7. Named(v.read)
    BY <2>4, NoneNamed
  <2> QED
    BY <2>2, <2>5, <2>6, <2>7, ViewerTyped
<1> QED
  BY <1>1, <1>2, <1>3, <1>4, <1>5, <1>6, <1>7, <1>8, <1>9 DEF UpdateNext

\* SoftwareUpdateService keeps its types, for any versions and calls; in particular only
\* versions the server has offered, or that ran, are dismissed, and no date is in the future.
THEOREM UpdateTypeCorrect == UpdateSpec => []UpdateTypeOK
<1>1. UpdateTyped => UpdateTypeOK
  BY DEF UpdateTyped
<1> QED
  BY <1>1, UpdateStartsTyped, UpdateStepTyped, PTL DEF UpdateSpec

-----------------------------------------------------------------------------
(* The certificates shown to intercepted clients.  The files may hold the  *)
(* certificate of one generation and the key of another; memory never      *)
(* does, since a pair enters it through LoadX509KeyPair only.              *)

Pairs == [cert : Serials, key : Serials] \cup {[cert |-> 0, key |-> 0]}
Leaves == [chain : 0..MaxSerial, signer : 0..MaxSerial]

\* The pair in memory belongs together, and is there for those who use it.
MemoryPaired ==
  /\ defaultCertificate \in Pairs
  /\ defaultCertificate.cert = defaultCertificate.key
  /\ \A c \in CertCallers : certCall[c].at \in {"loaded", "sign"} => defaultCertificate.cert \in Serials

LeafTypes ==
  /\ certCache \in [Hosts -> Leaves]
  /\ \A h \in Hosts : certCache[h].signer = certCache[h].chain

\* The inductive invariant.
CertInv == DOMAIN certCall = CertCallers /\ MemoryPaired /\ LeafTypes

LEMMA NoCallIsIdle == NoCertCall.at = "idle"
BY DEF NoCertCall

\* A step that leaves memory alone, and brings nobody to a place where memory is used.
LEMMA MemoryKept ==
  ASSUME CertInv, KeepMemory, NEW c \in CertCallers, NEW call,
         certCall' = [certCall EXCEPT ![c] = call],
         call.at \in {"loaded", "sign"} => defaultCertificate.cert \in Serials
  PROVE  CertInv'
BY DEF CertInv, KeepMemory, MemoryPaired, LeafTypes

\* The place each step goes to.
LEMMA FinishedKeeps ==
  ASSUME CertInv, KeepMemory, NEW c \in CertCallers, Finished(c)
  PROVE  CertInv'
BY MemoryKept, NoCallIsIdle DEF Finished

LEMMA GotoKeeps ==
  ASSUME CertInv, KeepMemory, NEW c \in CertCallers, NEW p, Goto(c, p),
         p \in {"loaded", "sign"} => defaultCertificate.cert \in Serials
  PROVE  CertInv'
BY DEF CertInv, KeepMemory, MemoryPaired, LeafTypes, Goto

\* The place of a call some of whose other fields change with it.
LEMMA PlaceOf ==
  ASSUME NEW r, NEW p, NEW v
  PROVE  /\ [r EXCEPT !.at = p, !.mine = v].at \in {p, r.at}
         /\ [r EXCEPT !.at = p, !.bytes = v].at \in {p, r.at}
OBVIOUS

\* Requests begin elsewhere.
LEMMA RequestStep ==
  ASSUME CertInv, NEW c \in CertCallers, CertRequest(c) \/ CreateTlsConfigForHost(c)
  PROVE  CertInv'
<1>1. KeepMemory
  BY DEF CertRequest, CreateTlsConfigForHost
<1>2. CASE CreateTlsConfigForHost(c)
  <2>1. PICK h \in Hosts : certCall' = [certCall EXCEPT ![c] =
            [NoCertCall EXCEPT !.op = "host", !.host = h, !.at = "loadmem"]]
    BY <1>2 DEF CreateTlsConfigForHost
  <2>2. [NoCertCall EXCEPT !.op = "host", !.host = h, !.at = "loadmem"].at = "loadmem"
    BY DEF NoCertCall
  <2>3. QED
    BY <1>1, <2>1, <2>2, MemoryKept
<1>3. CASE CertRequest(c)
  <2> DEFINE place(op, t) == CASE op \in {"export", "install"} -> ExportCert(t)
                               [] op = "generate" -> "create"
                               [] OTHER -> getCertBytes(t)
  <2>1. PICK op \in {"status", "download", "remove", "export", "install", "generate"},
             t \in CertTypes :
               certCall' = [certCall EXCEPT ![c] =
                 [NoCertCall EXCEPT !.op = op, !.type = t, !.at = place(op, t)]]
    BY <1>3 DEF CertRequest
  <2>2. place(op, t) \in {"act", "create", "read", "loadmem"}
    BY DEF ExportCert, getCertBytes
  <2> HIDE DEF place
  <2>3. [NoCertCall EXCEPT !.op = op, !.type = t, !.at = place(op, t)].at = place(op, t)
    BY DEF NoCertCall
  <2>4. QED
    BY <1>1, <2>1, <2>2, <2>3, MemoryKept
<1>4. QED
  BY <1>2, <1>3

\* The pair is loaded from the files, if they belong together.
LEMMA LoadStep ==
  ASSUME CertInv, NEW c \in CertCallers, LoadFiles(c)
  PROVE  CertInv'
<1>1. CASE \E p \in LoadX509KeyPair("mitm-ca") : defaultCertificate' = p /\ Goto(c, "loaded")
  <2>1. /\ defaultCertificate' \in [cert : Serials, key : Serials]
        /\ defaultCertificate'.cert = defaultCertificate'.key
        /\ defaultCertificate'.cert \in Serials
    BY <1>1 DEF LoadX509KeyPair
  <2>2. DOMAIN certCall' = CertCallers /\ certCache' = certCache
    BY <1>1 DEF Goto, CertInv, LoadFiles
  <2>3. QED
    BY <2>1, <2>2 DEF CertInv, MemoryPaired, LeafTypes, Pairs
<1>2. CASE Finished(c) /\ UNCHANGED defaultCertificate
  BY <1>2, FinishedKeeps DEF LoadFiles, KeepMemory
<1>3. QED
  BY <1>1, <1>2 DEF LoadFiles

\* A host certificate is signed with the pair in memory.
LEMMA SignStep ==
  ASSUME CertInv, NEW c \in CertCallers, creatCertForHost(c)
  PROVE  CertInv'
<1> DEFINE leaf == [chain |-> defaultCertificate.cert, signer |-> defaultCertificate.key]
<1>1. leaf \in Leaves /\ leaf.signer = leaf.chain
  <2>1. defaultCertificate.cert \in 0..MaxSerial /\ defaultCertificate.key \in 0..MaxSerial
    BY CertAssumption DEF CertInv, MemoryPaired, Pairs, Serials
  <2>2. QED
    BY <2>1 DEF CertInv, MemoryPaired, Leaves
<1>2. certCache' = [certCache EXCEPT ![certCall[c].host] = leaf] /\ UNCHANGED defaultCertificate
  BY DEF creatCertForHost
<1> HIDE DEF leaf
<1>3. LeafTypes'
  BY <1>1, <1>2 DEF CertInv, LeafTypes
<1>4. DOMAIN certCall' = CertCallers /\ MemoryPaired'
  BY <1>2, NoCallIsIdle DEF CertInv, MemoryPaired, creatCertForHost, Finished
<1>5. QED
  BY <1>3, <1>4 DEF CertInv

\* The steps that do not touch memory.
LEMMA OtherStep ==
  ASSUME CertInv, NEW c \in CertCallers,
         \/ ReadCert(c) \/ CreateCertFile(c) \/ EncodeCert(c) \/ WriteKey(c)
         \/ LoadMitmCACertificate(c) \/ Loaded(c)
         \/ GetCertStatus(c) \/ DownloadCert(c) \/ InstallCert(c) \/ RemoveCert(c) \/ EndRequest(c)
  PROVE  CertInv'
<1>1. KeepMemory
  BY DEF ReadCert, CreateCertFile, EncodeCert, WriteKey, LoadMitmCACertificate, Loaded,
         GetCertStatus, DownloadCert, InstallCert, RemoveCert, EndRequest
<1>2. CASE Finished(c)
  BY <1>1, <1>2, FinishedKeeps
<1>3. CASE LoadMitmCACertificate(c)
  <2>1. PICK p \in {"loaded", "create", "load"} :
           Goto(c, p) /\ (p = "loaded" => defaultCertificate.cert # 0)
    BY <1>3 DEF LoadMitmCACertificate
  <2>2. defaultCertificate.cert # 0 => defaultCertificate.cert \in Serials
    BY DEF CertInv, MemoryPaired, Pairs
  <2>3. QED
    BY <1>1, <2>1, <2>2, GotoKeeps
<1>4. CASE Loaded(c)
  <2>1. defaultCertificate.cert \in Serials
    BY <1>4 DEF Loaded, At, CertInv, MemoryPaired
  <2>2. DOMAIN certCall' = CertCallers
    BY <1>4 DEF Loaded, CertInv
  <2>3. QED
    BY <1>1, <2>1, <2>2 DEF CertInv, MemoryPaired, LeafTypes, KeepMemory
<1>5. CASE CreateCertFile(c) /\ ~Finished(c)
  <2> DEFINE call == [certCall[c] EXCEPT !.at = "encode", !.mine = serial + 1]
  <2>1. certCall' = [certCall EXCEPT ![c] = call]
    BY <1>5 DEF CreateCertFile, CertInv
  <2>2. call.at \in {"encode", "create"}
    BY <1>5, PlaceOf DEF CreateCertFile, At
  <2> HIDE DEF call
  <2>3. QED
    BY <1>1, <2>1, <2>2, MemoryKept
<1>6. CASE EncodeCert(c) /\ ~Finished(c)
  BY <1>1, <1>6, GotoKeeps DEF EncodeCert
<1>7. CASE WriteKey(c) /\ ~Finished(c)
  <2>1. PICK p \in {"done", "act", "load", "read"} : Goto(c, p)
    BY <1>7 DEF WriteKey, AfterGeneration
  <2>2. QED
    BY <1>1, <2>1, GotoKeeps
<1>8. CASE ReadCert(c) /\ ~Finished(c)
  <2> DEFINE call == [certCall[c] EXCEPT !.at = "act", !.bytes = certFile[certCall[c].type]]
  <2>1. certCall' = [certCall EXCEPT ![c] = call]
    BY <1>8 DEF ReadCert, CertInv
  <2>2. call.at \in {"act", "read"}
    BY <1>8, PlaceOf DEF ReadCert, At
  <2> HIDE DEF call
  <2>3. QED
    BY <1>1, <2>1, <2>2, MemoryKept
<1>9. CASE GetCertStatus(c)
  <2>1. PICK p \in Statuses : Goto(c, p)
    BY <1>9 DEF GetCertStatus, GetTrustStatus, Statuses
  <2>2. QED
    BY <1>1, <2>1, GotoKeeps DEF Statuses
<1>10. CASE DownloadCert(c) \/ InstallCert(c) \/ RemoveCert(c) \/ EndRequest(c)
  BY <1>1, <1>10, FinishedKeeps DEF DownloadCert, InstallCert, RemoveCert, EndRequest
<1>11. QED
  BY <1>2, <1>3, <1>4, <1>5, <1>6, <1>7, <1>8, <1>9, <1>10

LEMMA RestartForgets == CertInv /\ CertRestart => CertInv'
<1> SUFFICES ASSUME CertInv, CertRestart PROVE CertInv'
  OBVIOUS
<1>1. \A c \in CertCallers : certCall'[c].at = "idle"
  BY NoCallIsIdle DEF CertRestart
<1>2. LeafTypes'
  BY CertAssumption DEF CertRestart, LeafTypes, Leaves
<1>3. QED
  BY <1>1, <1>2 DEF CertRestart, CertInv, MemoryPaired, Pairs

\* For any callers, hosts and number of generations, with a crash between any two writes of
\* the files: a host certificate is signed with the key of the certificate it is sent with.
THEOREM LeavesAreSigned == CertSpec => []LeafSignedByChain
<1>1. CertInit => CertInv
  <2> SUFFICES ASSUME CertInit PROVE CertInv
    OBVIOUS
  <2>1. \A c \in CertCallers : certCall[c].at = "idle"
    BY NoCallIsIdle DEF CertInit
  <2>2. LeafTypes
    BY CertAssumption DEF CertInit, LeafTypes, Leaves
  <2>3. QED
    BY <2>1, <2>2 DEF CertInit, CertInv, MemoryPaired, Pairs
<1>2. CertInv /\ [CertNext]_certVars => CertInv'
  <2> SUFFICES ASSUME CertInv, [CertNext]_certVars PROVE CertInv'
    OBVIOUS
  <2>1. CASE UNCHANGED certVars
    BY <2>1 DEF certVars, CertInv, MemoryPaired, LeafTypes
  <2>2. CASE CertRestart
    BY <2>2, RestartForgets
  <2>3. ASSUME NEW c \in CertCallers, CertRequest(c) \/ CreateTlsConfigForHost(c)
        PROVE  CertInv'
    BY <2>3, RequestStep
  <2>4. ASSUME NEW c \in CertCallers, LoadFiles(c) \/ creatCertForHost(c)
        PROVE  CertInv'
    BY <2>4, LoadStep, SignStep
  <2>5. ASSUME NEW c \in CertCallers,
               \/ ReadCert(c) \/ CreateCertFile(c) \/ EncodeCert(c) \/ WriteKey(c)
               \/ LoadMitmCACertificate(c) \/ Loaded(c) \/ GetCertStatus(c)
               \/ DownloadCert(c) \/ InstallCert(c) \/ RemoveCert(c) \/ EndRequest(c)
        PROVE  CertInv'
    BY <2>5, OtherStep
  <2>6. QED
    BY <2>1, <2>2, <2>3, <2>4, <2>5 DEF CertNext
<1>3. CertInv => LeafSignedByChain
  BY DEF CertInv, MemoryPaired, LeafTypes, LeafSignedByChain, At
<1>4. QED
  BY <1>1, <1>2, <1>3, PTL DEF CertSpec

\* What a call carries: the certificate it has begun to write, and the bytes it has read.
CertCalls ==
  [op : {"none", "status", "download", "remove", "export", "install", "generate", "host"},
   at : {"idle", "create", "encode", "key", "loadmem", "load", "loaded", "read", "act", "sign", "done"}
        \cup Statuses,
   type : CertTypes, host : Hosts \cup {CHOOSE h \in Hosts : TRUE},
   mine : 0..MaxSerial, bytes : 0..NotPem]

\* An installation finds a certificate: files are written, cut off and replaced, but never
\* go away, and it does not come here from memory.
FindsAmong(call, files) ==
  /\ call.at \in {"encode", "key"} => call.mine \in Serials /\ files[call.type] # 0
  /\ call.op \in {"install", "export"} =>
       /\ call.at \notin {"loadmem", "load", "loaded", "read"}
       /\ call.at = "act" => files[call.type] # 0

FindsFile(call) == FindsAmong(call, certFile)

CertTyped ==
  /\ CertTypeOK
  /\ osName \in {"darwin", "linux", "windows"}
  /\ certCall \in [CertCallers -> CertCalls]
  /\ \A c \in CertCallers : FindsFile(certCall[c])

LEMMA NoCallTyped == /\ NoCertCall \in CertCalls /\ FindsFile(NoCertCall)
                     /\ \A files : FindsAmong(NoCertCall, files)
BY CertAssumption DEF CertCalls, FindsAmong, FindsFile, NoCertCall, NotPem, Statuses

\* One call moves, and files may come but do not go.
LEMMA CertMoves ==
  ASSUME CertTyped, NEW c \in CertCallers, NEW call \in CertCalls, certCall' = [certCall EXCEPT ![c] = call],
         CertTypeOK', osName' = osName,
         \A t \in CertTypes : certFile[t] # 0 => certFile'[t] # 0, FindsAmong(call, certFile')
  PROVE  CertTyped'
<1>1. certCall' \in [CertCallers -> CertCalls]
  BY DEF CertTyped
<1>2. ASSUME NEW x \in CertCallers PROVE FindsFile(certCall[x])'
  <2>1. CASE x = c
    <3>1. certCall'[x] = call
      BY <2>1 DEF CertTyped
    <3> QED
      BY <3>1 DEF FindsAmong, FindsFile
  <2>2. CASE x # c
    <3>1. certCall'[x] = certCall[x] /\ FindsFile(certCall[x]) /\ certCall[x].type \in CertTypes
      BY <2>2 DEF CertTyped, CertCalls
    <3> QED
      BY <3>1 DEF FindsAmong, FindsFile
  <2> QED
    BY <2>1, <2>2
<1>3. (osName \in {"darwin", "linux", "windows"})'
  BY DEF CertTyped
<1> QED
  BY <1>1, <1>2, <1>3 DEF CertTyped

\* The disk stays as it is.
LEMMA SameDisk ==
  ASSUME CertTyped, UNCHANGED <<osName, certFile, keyFile, serial, store>>, NEW c \in CertCallers,
         NEW call \in CertCalls, certCall' = [certCall EXCEPT ![c] = call], FindsFile(call)
  PROVE  CertTyped'
<1>1. CertTypeOK' /\ FindsAmong(call, certFile') /\ \A t \in CertTypes : certFile[t] # 0 => certFile'[t] # 0
  BY DEF CertTyped, CertTypeOK, FindsAmong, FindsFile
<1> QED
  BY <1>1, CertMoves

\* A request ends where it stands.
LEMMA CertEnds ==
  ASSUME CertTyped, CertTypeOK', osName' = osName, NEW c \in CertCallers, Finished(c),
         \A t \in CertTypes : certFile[t] # 0 => certFile'[t] # 0
  PROVE  CertTyped'
BY NoCallTyped, CertMoves DEF Finished

LEMMA CertEndsThere ==
  ASSUME CertTyped, NEW c \in CertCallers, Finished(c), KeepFiles, UNCHANGED store
  PROVE  CertTyped'
BY NoCallTyped, SameDisk DEF Finished, KeepFiles

\* The call goes to another place of its function.
LEMMA MovedCall ==
  ASSUME NEW call \in CertCalls,
         NEW p \in {"idle", "create", "encode", "key", "loadmem", "load", "loaded", "read", "act", "sign",
                    "done"} \cup Statuses
  PROVE  /\ [call EXCEPT !.at = p] \in CertCalls
         /\ [call EXCEPT !.at = p].at = p
         /\ [call EXCEPT !.at = p].op = call.op
         /\ [call EXCEPT !.at = p].type = call.type
         /\ [call EXCEPT !.at = p].mine = call.mine
BY DEF CertCalls

\* The call has made a certificate.
LEMMA MadeCall ==
  ASSUME NEW call \in CertCalls, NEW n \in 0..MaxSerial
  PROVE  /\ [call EXCEPT !.mine = n] \in CertCalls
         /\ [call EXCEPT !.mine = n].mine = n
         /\ [call EXCEPT !.mine = n].at = call.at
         /\ [call EXCEPT !.mine = n].op = call.op
         /\ [call EXCEPT !.mine = n].type = call.type
BY DEF CertCalls

LEMMA CertGoes ==
  ASSUME CertTyped, NEW c \in CertCallers, KeepFiles, UNCHANGED store,
         NEW p \in {"create", "load", "loaded", "done"} \cup Statuses, Goto(c, p),
         certCall[c].op \notin {"install", "export"} \/ p \notin {"load", "loaded"}
  PROVE  CertTyped'
<1> DEFINE call == [certCall[c] EXCEPT !.at = p]
<1>1. certCall[c] \in CertCalls
  BY DEF CertTyped
<1>2. certCall' = [certCall EXCEPT ![c] = call]
  BY DEF Goto
<1>3. call \in CertCalls /\ call.at = p /\ call.op = certCall[c].op
  BY <1>1, MovedCall
<1> HIDE DEF call
<1>4. FindsFile(call)
  BY <1>3 DEF FindsAmong, FindsFile, Statuses
<1> QED
  BY <1>2, <1>3, <1>4, SameDisk DEF KeepFiles

\* A generation: the certificate file, then the key file.
LEMMA CreateTyped ==
  ASSUME CertTyped, NEW c \in CertCallers, CreateCertFile(c)
  PROVE  CertTyped'
<1>t. certCall[c] \in CertCalls /\ certCall[c].type \in CertTypes /\ serial \in 0..MaxSerial
      /\ certFile \in [CertTypes -> 0..Torn]
  BY DEF CertTyped, CertCalls, CertTypeOK
<1>1. CASE Finished(c) /\ UNCHANGED <<serial, certFile>>
  BY <1>1, CertEndsThere DEF CreateCertFile, KeepFiles
<1>2. CASE /\ serial' = serial + 1
           /\ certFile' = [certFile EXCEPT ![certCall[c].type] = Torn]
           /\ certCall' = [certCall EXCEPT ![c].at = "encode", ![c].mine = serial + 1]
  <2> DEFINE call == [[certCall[c] EXCEPT !.at = "encode"] EXCEPT !.mine = serial + 1]
  <2>1. serial + 1 \in Serials /\ Torn \in 0..Torn /\ Torn # 0
    BY <1>t, CertAssumption DEF CreateCertFile, Serials, Torn
  <2>2. certCall' = [certCall EXCEPT ![c] = call]
    BY <1>2
  <2>3. call \in CertCalls /\ call.type = certCall[c].type /\ call.op = certCall[c].op
        /\ call.at = "encode" /\ call.mine = serial + 1
    <3>1. serial + 1 \in 0..MaxSerial
      BY <2>1, CertAssumption DEF Serials
    <3> DEFINE moved == [certCall[c] EXCEPT !.at = "encode"]
    <3>2. /\ moved \in CertCalls /\ moved.at = "encode"
          /\ moved.type = certCall[c].type /\ moved.op = certCall[c].op
      BY <1>t, MovedCall
    <3>3. call = [moved EXCEPT !.mine = serial + 1]
      OBVIOUS
    <3> HIDE DEF moved, call
    <3> QED
      BY <3>1, <3>2, <3>3, MadeCall
  <2>4. certFile' \in [CertTypes -> 0..Torn] /\ certFile'[certCall[c].type] = Torn
        /\ \A t \in CertTypes : certFile[t] # 0 => certFile'[t] # 0
    BY <1>2, <1>t, <2>1
  <2>5. CertTypeOK'
    BY <1>2, <2>1, <2>4, CertAssumption DEF CreateCertFile, CertTyped, CertTypeOK, Serials
  <2> HIDE DEF call
  <2>6. FindsAmong(call, certFile')
    BY <2>1, <2>3, <2>4 DEF FindsAmong, FindsFile
  <2> QED
    BY <2>2, <2>3, <2>4, <2>5, <2>6, CertMoves DEF CreateCertFile
<1> QED
  BY <1>1, <1>2 DEF CreateCertFile

LEMMA EncodeTyped ==
  ASSUME CertTyped, NEW c \in CertCallers, EncodeCert(c)
  PROVE  CertTyped'
<1>t. certCall[c] \in CertCalls /\ certCall[c].type \in CertTypes
      /\ certFile \in [CertTypes -> 0..Torn] /\ certCall[c].mine \in Serials
  BY DEF CertTyped, CertCalls, CertTypeOK, FindsAmong, FindsFile, EncodeCert, At
<1>1. CASE Finished(c) /\ UNCHANGED certFile
  BY <1>1, CertEndsThere DEF EncodeCert, KeepFiles
<1>2. CASE certFile' = [certFile EXCEPT ![certCall[c].type] = certCall[c].mine] /\ Goto(c, "key")
  <2> DEFINE call == [certCall[c] EXCEPT !.at = "key"]
  <2>1. certCall[c].mine \in 0..Torn /\ certCall[c].mine # 0
    BY <1>t, CertAssumption DEF Serials, Torn
  <2>2. certCall' = [certCall EXCEPT ![c] = call]
    BY <1>2 DEF Goto
  <2>3. call \in CertCalls /\ call.type = certCall[c].type /\ call.op = certCall[c].op
        /\ call.at = "key" /\ call.mine = certCall[c].mine
    BY <1>t, MovedCall
  <2>4. certFile' \in [CertTypes -> 0..Torn] /\ certFile'[certCall[c].type] # 0
        /\ \A t \in CertTypes : certFile[t] # 0 => certFile'[t] # 0
    BY <1>2, <1>t, <2>1
  <2>5. CertTypeOK'
    BY <1>2, <2>4 DEF EncodeCert, CertTyped, CertTypeOK
  <2> HIDE DEF call
  <2>6. FindsAmong(call, certFile')
    BY <1>t, <2>3, <2>4 DEF FindsAmong, FindsFile
  <2> QED
    BY <2>2, <2>3, <2>4, <2>5, <2>6, CertMoves DEF EncodeCert
<1> QED
  BY <1>1, <1>2 DEF EncodeCert

LEMMA KeyTyped ==
  ASSUME CertTyped, NEW c \in CertCallers, WriteKey(c)
  PROVE  CertTyped'
<1>t. certCall[c] \in CertCalls /\ certCall[c].type \in CertTypes
      /\ keyFile \in [CertTypes -> 0..MaxSerial] /\ certCall[c].mine \in Serials
      /\ certFile[certCall[c].type] # 0
  BY DEF CertTyped, CertCalls, CertTypeOK, FindsAmong, FindsFile, WriteKey, At
<1>1. CASE Finished(c) /\ UNCHANGED keyFile
  BY <1>1, CertEndsThere DEF WriteKey, KeepFiles
<1>2. CASE /\ keyFile' = [keyFile EXCEPT ![certCall[c].type] = certCall[c].mine]
           /\ Goto(c, AfterGeneration(certCall[c]))
  <2> DEFINE p == AfterGeneration(certCall[c])
             call == [certCall[c] EXCEPT !.at = p]
  <2>1. p \in {"done", "act", "load", "read"} /\ (certCall[c].op \in {"install", "export"} => p = "act")
    BY DEF AfterGeneration
  <2>2. certCall' = [certCall EXCEPT ![c] = call]
    BY <1>2 DEF Goto
  <2> HIDE DEF p
  <2>3. call \in CertCalls /\ call.type = certCall[c].type /\ call.op = certCall[c].op /\ call.at = p
    BY <1>t, <2>1, MovedCall
  <2>4. keyFile' \in [CertTypes -> 0..MaxSerial]
    BY <1>2, <1>t DEF Serials
  <2>5. CertTypeOK' /\ certFile' = certFile
    BY <1>2, <2>4 DEF WriteKey, CertTyped, CertTypeOK
  <2> HIDE DEF call
  <2>6. FindsAmong(call, certFile')
    BY <1>t, <2>1, <2>3, <2>5 DEF FindsAmong, FindsFile
  <2> QED
    BY <2>2, <2>3, <2>5, <2>6, CertMoves DEF WriteKey
<1> QED
  BY <1>1, <1>2 DEF WriteKey

\* Bytes are read, from the file or from memory.
LEMMA BytesTyped ==
  ASSUME CertTyped, NEW c \in CertCallers, KeepFiles, UNCHANGED store,
         NEW p \in {"sign", "act"}, NEW b \in 0..NotPem,
         certCall' = [certCall EXCEPT ![c].at = p, ![c].bytes = b],
         certCall[c].op \notin {"install", "export"}
  PROVE  CertTyped'
<1> DEFINE call == [certCall[c] EXCEPT !.at = p, !.bytes = b]
<1>1. certCall[c] \in CertCalls
  BY DEF CertTyped
<1>2. certCall' = [certCall EXCEPT ![c] = call]
  OBVIOUS
<1>3. call \in CertCalls /\ call.at = p /\ call.op = certCall[c].op
  BY <1>1 DEF CertCalls
<1> HIDE DEF call
<1>4. FindsFile(call)
  BY <1>3 DEF FindsAmong, FindsFile
<1> QED
  BY <1>2, <1>3, <1>4, SameDisk DEF KeepFiles

\* Requests begin.
LEMMA CertBegins ==
  ASSUME CertTyped, NEW c \in CertCallers, CertRequest(c) \/ CreateTlsConfigForHost(c)
  PROVE  CertTyped'
<1>1. CASE CreateTlsConfigForHost(c)
  <2>1. PICK h \in Hosts : certCall' = [certCall EXCEPT ![c] =
            [NoCertCall EXCEPT !.op = "host", !.host = h, !.at = "loadmem"]]
    BY <1>1 DEF CreateTlsConfigForHost
  <2> DEFINE call == [NoCertCall EXCEPT !.op = "host", !.host = h, !.at = "loadmem"]
  <2>2. call \in CertCalls /\ call.op = "host" /\ call.at = "loadmem"
    BY NoCallTyped DEF CertCalls
  <2>3. certCall' = [certCall EXCEPT ![c] = call]
    BY <2>1
  <2> HIDE DEF call
  <2>4. FindsFile(call)
    BY <2>2 DEF FindsAmong, FindsFile
  <2> QED
    BY <1>1, <2>2, <2>3, <2>4, SameDisk DEF CreateTlsConfigForHost, KeepFiles
<1>2. CASE CertRequest(c)
  <2> DEFINE place(op, t) == CASE op \in {"export", "install"} -> ExportCert(t)
                               [] op = "generate" -> "create"
                               [] OTHER -> getCertBytes(t)
  <2>1. PICK op \in {"status", "download", "remove", "export", "install", "generate"},
             t \in CertTypes :
               certCall' = [certCall EXCEPT ![c] =
                 [NoCertCall EXCEPT !.op = op, !.type = t, !.at = place(op, t)]]
    BY <1>2 DEF CertRequest
  <2>2. /\ place(op, t) \in {"act", "create", "read", "loadmem"}
        /\ op \in {"export", "install"} =>
             place(op, t) \in {"act", "create"} /\ (place(op, t) = "act" => certFile[t] # 0)
    BY DEF ExportCert, getCertBytes
  <2> HIDE DEF place
  <2> DEFINE call == [NoCertCall EXCEPT !.op = op, !.type = t, !.at = place(op, t)]
  <2>3. call \in CertCalls /\ call.op = op /\ call.type = t /\ call.at = place(op, t)
    BY <2>2, NoCallTyped DEF CertCalls
  <2>4. certCall' = [certCall EXCEPT ![c] = call]
    BY <2>1
  <2> HIDE DEF call
  <2>5. FindsFile(call)
    BY <2>2, <2>3 DEF FindsAmong, FindsFile
  <2> QED
    BY <1>2, <2>3, <2>4, <2>5, SameDisk DEF CertRequest, KeepFiles
<1> QED
  BY <1>1, <1>2

\* What the installers leave of the store.
StoreType == {"keychain", "system", "user", "CurrentUser", "LocalMachine"} \X CertTypes \X (1..NotPem)

LEMMA InstallTyped ==
  ASSUME CertTyped, NEW t \in CertTypes, NEW b \in 1..NotPem
  PROVE  \A r \in Install(t, b) : r \subseteq StoreType
<1>s. store \subseteq StoreType
  BY DEF CertTyped, CertTypeOK, StoreType
<1>1. \A p \in {"keychain", "system", "user", "CurrentUser", "LocalMachine"} : <<p, t, b>> \in StoreType
  BY DEF StoreType
<1>2. CASE osName = "darwin"
  BY <1>2, <1>s, <1>1 DEF Install, DarwinInstall
<1>3. CASE osName = "linux"
  <2>1. Placed("system", t, b) \subseteq StoreType /\ Placed("user", t, b) \subseteq StoreType
    BY <1>s, <1>1 DEF Placed
  <2>2. Install(t, b) = LinuxInstall(t, b)
    BY <1>3 DEF Install
  <2> QED
    BY <2>1, <2>2, <1>s, <1>1 DEF LinuxInstall
<1>4. CASE osName = "windows"
  <2>1. Places = {"CurrentUser", "LocalMachine"}
    BY <1>4 DEF Places
  <2>2. Install(t, b) = WindowsInstall(t, b)
    BY <1>4 DEF Install
  <2> QED
    BY <2>1, <2>2, <1>s, <1>1 DEF WindowsInstall
<1> QED
  BY <1>2, <1>3, <1>4 DEF CertTyped

LEMMA RemoveTyped ==
  ASSUME CertTyped, NEW t, NEW b
  PROVE  \A r \in RemoveFromStores(t, b) : r \subseteq StoreType
<1>s. store \subseteq StoreType
  BY DEF CertTyped, CertTypeOK, StoreType
<1>1. CASE osName = "darwin"
  BY <1>1, <1>s DEF RemoveFromStores, DarwinRemove
<1>2. CASE osName = "linux"
  BY <1>2, <1>s DEF RemoveFromStores, LinuxRemove
<1>3. CASE osName = "windows"
  BY <1>3, <1>s DEF RemoveFromStores, WindowsRemove
<1> QED
  BY <1>1, <1>2, <1>3 DEF CertTyped

LEMMA StoreTyped ==
  ASSUME CertTyped, NEW c \in CertCallers, InstallCert(c) \/ RemoveCert(c)
  PROVE  CertTyped'
<1>t. certCall[c].type \in CertTypes /\ FindsFile(certCall[c]) /\ certFile \in [CertTypes -> 0..Torn]
  BY DEF CertTyped, CertCalls, CertTypeOK
<1>1. store' \subseteq StoreType
  <2>1. CASE InstallCert(c)
    <3>1. certFile[certCall[c].type] \in 1..NotPem
      BY <1>t, <2>1, CertAssumption DEF InstallCert, At, FindsAmong, FindsFile, Torn, NotPem
    <3> QED
      BY <1>t, <2>1, <3>1, InstallTyped DEF InstallCert
  <2>2. CASE RemoveCert(c)
    BY <2>2, RemoveTyped DEF RemoveCert
  <2> QED
    BY <2>1, <2>2
<1>2. Finished(c) /\ UNCHANGED <<osName, certFile, keyFile, serial>>
  BY DEF InstallCert, RemoveCert, KeepFiles
<1>3. CertTypeOK'
  BY <1>1, <1>2 DEF CertTyped, CertTypeOK, StoreType
<1> QED
  BY <1>2, <1>3, CertEnds

LEMMA CertStepTyped == CertTyped /\ [CertNext]_certVars => CertTyped'
<1> SUFFICES ASSUME CertTyped, [CertNext]_certVars PROVE CertTyped'
  OBVIOUS
<1>1. CASE UNCHANGED certVars
  BY <1>1 DEF certVars, CertTyped, CertTypeOK, FindsAmong, FindsFile
<1>2. CASE CertRestart
  <2>1. CertTypeOK' /\ osName' = osName
    BY <1>2 DEF CertRestart, KeepFiles, CertTyped, CertTypeOK
  <2>2. certCall' \in [CertCallers -> CertCalls] /\ \A c \in CertCallers : certCall'[c] = NoCertCall
    BY <1>2, NoCallTyped DEF CertRestart
  <2>3. \A c \in CertCallers : FindsFile(certCall[c])'
    BY <2>2, NoCallTyped DEF FindsFile
  <2> QED
    BY <2>1, <2>2, <2>3 DEF CertTyped
<1>3. ASSUME NEW c \in CertCallers, CertRequest(c) \/ CreateTlsConfigForHost(c) PROVE CertTyped'
  BY <1>3, CertBegins
<1>4. ASSUME NEW c \in CertCallers, ReadCert(c) PROVE CertTyped'
  <2>t. certCall[c] \in CertCalls /\ FindsFile(certCall[c]) /\ certFile \in [CertTypes -> 0..Torn]
    BY DEF CertTyped, CertTypeOK
  <2>1. CASE Finished(c)
    BY <1>4, <2>1, CertEndsThere DEF ReadCert
  <2>2. CASE certCall' = [certCall EXCEPT ![c].at = "act", ![c].bytes = certFile[certCall[c].type]]
    <3>1. certFile[certCall[c].type] \in 0..NotPem
      BY <2>t, CertAssumption DEF CertCalls, Torn, NotPem
    <3>2. certCall[c].op \notin {"install", "export"}
      BY <1>4, <2>t DEF ReadCert, At, FindsAmong, FindsFile
    <3> QED
      BY <1>4, <2>2, <3>1, <3>2, BytesTyped DEF ReadCert
  <2> QED
    BY <1>4, <2>1, <2>2 DEF ReadCert
<1>5. ASSUME NEW c \in CertCallers, CreateCertFile(c) \/ EncodeCert(c) \/ WriteKey(c) PROVE CertTyped'
  BY <1>5, CreateTyped, EncodeTyped, KeyTyped
<1>6. ASSUME NEW c \in CertCallers, LoadMitmCACertificate(c) PROVE CertTyped'
  <2>1. PICK p \in {"loaded", "create", "load"} : Goto(c, p)
    BY <1>6 DEF LoadMitmCACertificate
  <2>2. certCall[c].op \notin {"install", "export"}
    BY <1>6 DEF LoadMitmCACertificate, At, CertTyped, FindsAmong, FindsFile
  <2> QED
    BY <1>6, <2>1, <2>2, CertGoes DEF LoadMitmCACertificate
<1>7. ASSUME NEW c \in CertCallers, LoadFiles(c) PROVE CertTyped'
  <2>1. Goto(c, "loaded") \/ Finished(c)
    BY <1>7 DEF LoadFiles
  <2>2. certCall[c].op \notin {"install", "export"}
    BY <1>7 DEF LoadFiles, At, CertTyped, FindsAmong, FindsFile
  <2> QED
    BY <1>7, <2>1, <2>2, CertGoes, CertEndsThere DEF LoadFiles
<1>8. ASSUME NEW c \in CertCallers, Loaded(c) PROVE CertTyped'
  <2>1. PICK p \in {"sign", "act"} : certCall' = [certCall EXCEPT ![c].at = p, ![c].bytes = NotPem]
    BY <1>8 DEF Loaded
  <2>2. certCall[c].op \notin {"install", "export"}
    BY <1>8 DEF Loaded, At, CertTyped, FindsAmong, FindsFile
  <2>3. NotPem \in 0..NotPem
    BY CertAssumption DEF NotPem
  <2> QED
    BY <1>8, <2>1, <2>2, <2>3, BytesTyped DEF Loaded
<1>9. ASSUME NEW c \in CertCallers, creatCertForHost(c) \/ DownloadCert(c) \/ EndRequest(c) PROVE CertTyped'
  BY <1>9, CertEndsThere DEF creatCertForHost, DownloadCert, EndRequest
<1>10. ASSUME NEW c \in CertCallers, GetCertStatus(c) PROVE CertTyped'
  <2>1. GetTrustStatus(certCall[c].type, certCall[c].bytes) \in Statuses
    BY DEF GetTrustStatus, Statuses
  <2> DEFINE p == GetTrustStatus(certCall[c].type, certCall[c].bytes)
  <2>2. Goto(c, p)
    BY <1>10 DEF GetCertStatus
  <2> HIDE DEF p
  <2>3. p \in Statuses /\ p \notin {"load", "loaded"}
    BY <2>1 DEF p, Statuses
  <2> QED
    BY <1>10, <2>2, <2>3, CertGoes DEF GetCertStatus
<1>11. ASSUME NEW c \in CertCallers, InstallCert(c) \/ RemoveCert(c) PROVE CertTyped'
  BY <1>11, StoreTyped
<1> QED
  BY <1>1, <1>2, <1>3, <1>4, <1>5, <1>6, <1>7, <1>8, <1>9, <1>10, <1>11 DEF CertNext

\* Certificates keep their types: in particular what enters a trust store is the file of a
\* certificate that was there, never that of a missing one.
THEOREM CertTypeCorrect == CertSpec => []CertTypeOK
<1>1. CertInit => CertTyped
  <2> SUFFICES ASSUME CertInit PROVE CertTyped
    OBVIOUS
  <2>1. CertTypeOK
    BY CertAssumption DEF CertInit, CertTypeOK, Torn
  <2>2. certCall \in [CertCallers -> CertCalls] /\ \A c \in CertCallers : certCall[c] = NoCertCall
    BY NoCallTyped DEF CertInit
  <2> QED
    BY <2>1, <2>2, NoCallTyped DEF CertInit, CertTyped
<1>2. CertTyped => CertTypeOK
  BY DEF CertTyped
<1> QED
  BY <1>1, <1>2, CertStepTyped, PTL DEF CertSpec

-----------------------------------------------------------------------------
(* The installations of the Wintun driver: the status says that one runs   *)
(* exactly while one does.                                                 *)

\* What the steps read and write of the status and of the goroutines.
TrackTypes ==
  /\ wintun.installing \in BOOLEAN
  /\ DOMAIN installer = Installs

\* The inductive invariant: the property with these types.
TrackInv == TrackTypes /\ InstallTracked

\* A goroutine that goes from one place to another inside the installation, while the status
\* goes on saying that one runs.
LEMMA GoesOn ==
  ASSUME TrackInv, NEW i \in Installs, i \in Running, NEW to, to \notin {"none", "ended"},
         installer' = [installer EXCEPT ![i] = to],
         wintun' = wintun \/ wintun'.installing = TRUE
  PROVE  TrackInv'
<1>1. wintun.installing = TRUE
  BY DEF TrackInv, TrackTypes, InstallTracked
<1>2. wintun'.installing = TRUE
  BY <1>1
<1>3. Running' = Running
  BY DEF Running, TrackInv, TrackTypes
<1>4. TrackTypes'
  BY <1>2 DEF TrackInv, TrackTypes
<1>5. InstallTracked'
  BY <1>1, <1>2, <1>3 DEF TrackInv, InstallTracked
<1>6. QED
  BY <1>4, <1>5 DEF TrackInv

\* Only the status changes, and not in what it says about an installation.
LEMMA StatusOnly ==
  ASSUME TrackInv, installer' = installer, wintun'.installing = wintun.installing
  PROVE  TrackInv'
<1>1. Running' = Running
  BY DEF Running
<1>2. QED
  BY <1>1 DEF TrackInv, TrackTypes, InstallTracked

LEMMA StatusOfRefresh == ASSUME TrackInv PROVE refreshLocked(wintun).installing = wintun.installing
BY DEF refreshLocked

\* A call that starts an installation finds none, and is the only one then.
LEMMA StartStep == ASSUME TrackInv, StartInstall PROVE TrackInv'
<1>1. CASE wintun.installing /\ UNCHANGED <<wintun, installer>>
  BY <1>1, StatusOnly
<1>2. CASE ~wintun.installing /\ wintun' = refreshLocked(wintun) /\ UNCHANGED installer
  BY <1>2, StatusOnly, StatusOfRefresh
<1>3. ASSUME ~wintun.installing, NEW i \in Installs, Queued(i)
      PROVE  TrackInv'
  <2>1. Running = {}
    BY <1>3 DEF TrackInv, InstallTracked
  <2>2. Running' = {i}
    BY <1>3, <2>1 DEF Queued, Running, TrackInv, TrackTypes
  <2>3. wintun'.installing = TRUE
    BY <1>3 DEF Queued
  <2>4. QED
    BY <1>3, <2>2, <2>3 DEF TrackInv, TrackTypes, InstallTracked, Queued
<1>4. QED
  BY <1>1, <1>2, <1>3 DEF StartInstall

\* The end of an installation, and the end of the process.
LEMMA EndStep == ASSUME TrackInv, NEW i \in Installs, InstallEnds(i) PROVE TrackInv'
<1>1. i \in Running /\ wintun.installing
  BY DEF InstallEnds, Running, TrackInv, InstallTracked
<1>2. Running = {i}
  BY <1>1 DEF TrackInv, InstallTracked
<1>3. Running' = {}
  BY <1>2 DEF InstallEnds, Running, TrackInv, TrackTypes
<1>4. wintun'.installing = FALSE
  BY DEF InstallEnds
<1>5. QED
  BY <1>3, <1>4 DEF InstallEnds, TrackInv, TrackTypes, InstallTracked

LEMMA CrashStep == ASSUME TrackInv, Crash PROVE TrackInv'
<1>1. Running' = {}
  BY DEF Crash, Running
<1>2. wintun'.installing = FALSE /\ DOMAIN installer' = Installs
  BY DEF Crash
<1>3. QED
  BY <1>1, <1>2 DEF TrackInv, TrackTypes, InstallTracked

LEMMA ProgressRuns == ASSUME NEW state, updateProgress(state) PROVE wintun'.installing = TRUE
BY DEF updateProgress

\* The steps of installWintun.
LEMMA WorkStep ==
  ASSUME TrackInv, NEW i \in Installs,
         \/ BeginInstall(i) \/ MirrorDownload(i) \/ MirrorInstall(i) \/ DetectAgain(i)
         \/ Download(i) \/ extractZipArchive(i) \/ installWintunDLL(i)
  PROVE  TrackInv'
<1>1. wintun' = wintun \/ wintun'.installing = TRUE
  <2>1. wintun' = wintun \/ \E state \in States : updateProgress(state)
    BY DEF BeginInstall, MirrorDownload, MirrorInstall, DetectAgain, Download, extractZipArchive,
           installWintunDLL, States
  <2>2. QED
    BY <2>1, ProgressRuns
<1>2. PICK to \in {"mirror", "copyDirect", "again", "download", "extract", "copy", "ok",
                   "install_failed", "uac_cancelled"} :
         installer' = [installer EXCEPT ![i] = to]
  BY DEF BeginInstall, MirrorDownload, MirrorInstall, DetectAgain, Download, extractZipArchive,
         installWintunDLL, Goes
<1>3. i \in Running
  BY DEF BeginInstall, MirrorDownload, MirrorInstall, DetectAgain, Download, extractZipArchive,
         installWintunDLL, Goes, Running
<1>4. QED
  BY <1>1, <1>2, <1>3, GoesOn

\* However many installations are asked for, refreshed, failed, cancelled or cut off by the
\* end of the process: the status says that one runs exactly while one goroutine runs it.
THEOREM InstallationsTracked == WintunSpec => []InstallTracked
<1>1. WintunInit => TrackInv
  <2> SUFFICES ASSUME WintunInit PROVE TrackInv
    OBVIOUS
  <2>1. wintun.installing = FALSE /\ DOMAIN installer = Installs
    BY DEF WintunInit
  <2>2. Running = {}
    BY DEF WintunInit, Running
  <2>3. QED
    BY <2>1, <2>2 DEF TrackInv, TrackTypes, InstallTracked
<1>2. TrackInv /\ [WintunNext]_wintunVars => TrackInv'
  <2> SUFFICES ASSUME TrackInv, [WintunNext]_wintunVars PROVE TrackInv'
    OBVIOUS
  <2>1. CASE UNCHANGED wintunVars
    BY <2>1, StatusOnly DEF wintunVars
  <2>2. CASE Refresh
    BY <2>2, StatusOnly, StatusOfRefresh DEF Refresh
  <2>3. CASE StartInstall
    BY <2>3, StartStep
  <2>4. CASE Elsewhere
    BY <2>4, StatusOnly DEF Elsewhere
  <2>5. CASE Crash
    BY <2>5, CrashStep
  <2>6. ASSUME NEW i \in Installs,
               \/ BeginInstall(i) \/ MirrorDownload(i) \/ MirrorInstall(i) \/ DetectAgain(i)
               \/ Download(i) \/ extractZipArchive(i) \/ installWintunDLL(i)
        PROVE  TrackInv'
    BY <2>6, WorkStep
  <2>7. ASSUME NEW i \in Installs, InstallEnds(i)
        PROVE  TrackInv'
    BY <2>7, EndStep
  <2>8. QED
    BY <2>1, <2>2, <2>3, <2>4, <2>5, <2>6, <2>7 DEF WintunNext
<1>3. TrackInv => InstallTracked
  BY DEF TrackInv
<1>4. QED
  BY <1>1, <1>2, <1>3, PTL DEF WintunSpec

\* The status of an installation under way.
ProgressAt(state) == [installing |-> TRUE, available |-> FALSE, state |-> state, code |-> ""]

LEMMA ProgressTyped ==
  ASSUME NEW s \in States
  PROVE  ProgressAt(s) \in [installing : BOOLEAN, available : BOOLEAN, state : States, code : Codes]
BY DEF ProgressAt, Codes

LEMMA RefreshedTyped ==
  ASSUME WintunTypeOK
  PROVE  refreshLocked(wintun) \in [installing : BOOLEAN, available : BOOLEAN, state : States, code : Codes]
BY DEF WintunTypeOK, refreshLocked, detectInstalledWintun, States, Codes

LEMMA WintunStepTyped == WintunTypeOK /\ [WintunNext]_wintunVars => WintunTypeOK'
<1> SUFFICES ASSUME WintunTypeOK, [WintunNext]_wintunVars PROVE WintunTypeOK'
  OBVIOUS
<1> DEFINE StatusType == [installing : BOOLEAN, available : BOOLEAN, state : States, code : Codes]
           PlaceType == {"none", "begin", "mirror", "copyDirect", "again", "download",
                       "extract", "copy", "ok", "install_failed", "uac_cancelled", "ended"}
           FileType == {"direct", "archive", "extracted"}
<1>t. /\ wintun \in StatusType /\ installer \in [Installs -> PlaceType] /\ tempFiles \subseteq FileType
      /\ dll \in BOOLEAN /\ isRoot \in BOOLEAN /\ hasMirror \in BOOLEAN
  BY DEF WintunTypeOK
<1>g. ASSUME NEW i \in Installs, NEW from, NEW to \in PlaceType, Goes(i, from, to)
      PROVE  installer' \in [Installs -> PlaceType]
  BY <1>g, <1>t DEF Goes
<1>p. ASSUME NEW s \in States, updateProgress(s) PROVE wintun' \in StatusType
  BY <1>p, ProgressTyped DEF updateProgress, ProgressAt
<1>o. ASSUME wintun' \in StatusType, installer' \in [Installs -> PlaceType], tempFiles' \subseteq FileType,
             dll' \in BOOLEAN, UNCHANGED <<isRoot, hasMirror>>
      PROVE  WintunTypeOK'
  BY <1>o, <1>t DEF WintunTypeOK
<1>1. CASE UNCHANGED wintunVars
  BY <1>1, <1>t, <1>o DEF wintunVars
<1>2. CASE Refresh
  BY <1>2, <1>t, <1>o, RefreshedTyped DEF Refresh, KeepHost
<1>3. CASE StartInstall
  <2>1. wintun' \in StatusType /\ installer' \in [Installs -> PlaceType]
    <3>1. CASE \E i \in Installs : Queued(i)
      <4>1. wintun' = ProgressAt("queued") /\ \E i \in Installs : installer' = [installer EXCEPT ![i] = "begin"]
        BY <3>1 DEF Queued, ProgressAt
      <4>2. wintun' \in StatusType
        BY <4>1, ProgressTyped DEF States
      <4>3. installer' \in [Installs -> PlaceType]
        BY <4>1, <1>t
      <4> QED
        BY <4>2, <4>3
    <3>2. CASE wintun' \in {wintun, refreshLocked(wintun)} /\ UNCHANGED installer
      BY <3>2, <1>t, RefreshedTyped
    <3> QED
      BY <1>3, <3>1, <3>2 DEF StartInstall
  <2> QED
    BY <1>3, <2>1, <1>t, <1>o DEF StartInstall, KeepHost
<1>4. CASE Elsewhere
  BY <1>4, <1>t, <1>o DEF Elsewhere, KeepHost
<1>5. CASE Crash
  <2>1. dll' \in BOOLEAN
    BY <1>5, <1>t DEF Crash
  <2>2. wintun' \in StatusType
    BY <1>5, <2>1 DEF Crash, States, Codes
  <2>3. installer' \in [Installs -> PlaceType]
    BY <1>5, <1>t DEF Crash
  <2> QED
    BY <1>5, <2>1, <2>2, <2>3, <1>t, <1>o DEF Crash, KeepHost
<1>6. ASSUME NEW i \in Installs, BeginInstall(i) PROVE WintunTypeOK'
  <2>1. wintun' \in StatusType
    BY <1>6, <1>t, <1>p DEF BeginInstall, States
  <2>2. installer' \in [Installs -> PlaceType]
    BY <1>6, <1>g DEF BeginInstall
  <2> QED
    BY <1>6, <2>1, <2>2, <1>t, <1>o DEF BeginInstall, KeepHost
<1>7. ASSUME NEW i \in Installs, MirrorDownload(i) PROVE WintunTypeOK'
  <2>1. wintun' \in StatusType
    BY <1>7, <1>t, <1>p DEF MirrorDownload, States
  <2>2. installer' \in [Installs -> PlaceType]
    BY <1>7, <1>g DEF MirrorDownload
  <2> QED
    BY <1>7, <2>1, <2>2, <1>t, <1>o DEF MirrorDownload, KeepHost
<1>8. ASSUME NEW i \in Installs, MirrorInstall(i) PROVE WintunTypeOK'
  <2>1. wintun' \in StatusType
    BY <1>8, <1>t, <1>p DEF MirrorInstall, States
  <2>2. installer' \in [Installs -> PlaceType]
    BY <1>8, <1>g DEF MirrorInstall
  <2>3. dll' \in BOOLEAN
    BY <1>8, <1>t DEF MirrorInstall, copyFile, copyFileElevated
  <2> QED
    BY <1>8, <2>1, <2>2, <2>3, <1>t, <1>o DEF MirrorInstall, KeepHost
<1>9. ASSUME NEW i \in Installs, DetectAgain(i) PROVE WintunTypeOK'
  <2>1. wintun' \in StatusType
    BY <1>9, <1>t, <1>p DEF DetectAgain, States
  <2>2. installer' \in [Installs -> PlaceType]
    BY <1>9, <1>g DEF DetectAgain
  <2> QED
    BY <1>9, <2>1, <2>2, <1>t, <1>o DEF DetectAgain, KeepHost
<1>10. ASSUME NEW i \in Installs, Download(i) PROVE WintunTypeOK'
  <2>1. wintun' \in StatusType
    BY <1>10, <1>t, <1>p DEF Download, States
  <2>2. installer' \in [Installs -> PlaceType]
    BY <1>10, <1>g DEF Download
  <2> QED
    BY <1>10, <2>1, <2>2, <1>t, <1>o DEF Download, KeepHost
<1>11. ASSUME NEW i \in Installs, extractZipArchive(i) PROVE WintunTypeOK'
  <2>1. wintun' \in StatusType
    BY <1>11, <1>t, <1>p DEF extractZipArchive, States
  <2>2. installer' \in [Installs -> PlaceType]
    BY <1>11, <1>g DEF extractZipArchive
  <2> QED
    BY <1>11, <2>1, <2>2, <1>t, <1>o DEF extractZipArchive, KeepHost
<1>12. ASSUME NEW i \in Installs, installWintunDLL(i) PROVE WintunTypeOK'
  <2>1. installer' \in [Installs -> PlaceType]
    BY <1>12, <1>g DEF installWintunDLL
  <2>2. dll' \in BOOLEAN
    BY <1>12, <1>t DEF installWintunDLL, copyFile, copyFileElevated
  <2> QED
    BY <1>12, <2>1, <2>2, <1>t, <1>o DEF installWintunDLL, KeepHost
<1>13. ASSUME NEW i \in Installs, InstallEnds(i) PROVE WintunTypeOK'
  <2>1. wintun' \in StatusType
    BY <1>13, <1>t DEF InstallEnds, States, Codes
  <2>2. installer' \in [Installs -> PlaceType]
    BY <1>13, <1>t DEF InstallEnds
  <2> QED
    BY <1>13, <2>1, <2>2, <1>t, <1>o DEF InstallEnds, KeepHost
<1> QED
  BY <1>1, <1>2, <1>3, <1>4, <1>5, <1>6, <1>7, <1>8, <1>9, <1>10, <1>11, <1>12, <1>13 DEF WintunNext

\* The controller's status, the installations and their files keep their types.
THEOREM WintunTypeCorrect == WintunSpec => []WintunTypeOK
<1>1. WintunInit => WintunTypeOK
  <2> SUFFICES ASSUME WintunInit PROVE WintunTypeOK
    OBVIOUS
  <2>1. dll \in BOOLEAN /\ isRoot \in BOOLEAN /\ hasMirror \in BOOLEAN
    BY DEF WintunInit
  <2>2. wintun \in [installing : BOOLEAN, available : BOOLEAN, state : States, code : Codes]
    BY <2>1 DEF WintunInit, States, Codes
  <2>3. installer \in [Installs -> {"none", "begin", "mirror", "copyDirect", "again", "download",
                          "extract", "copy", "ok", "install_failed", "uac_cancelled", "ended"}]
    BY DEF WintunInit
  <2> QED
    BY <2>1, <2>2, <2>3 DEF WintunInit, WintunTypeOK
<1> QED
  BY <1>1, WintunStepTyped, PTL DEF WintunSpec

-----------------------------------------------------------------------------
(* The logger, for any sizes of the queue and of the ring, any number of      *)
(* goroutines, and any throttle.                                              *)

\* Lines are numbered in the order of their writes: the file holds the first ones,
\* the queue the others, and flush items between them.
SinkInv ==
    /\ accepted \in Seq(Nat) /\ logFile \in Seq(Nat) /\ Len(logFile) <= Len(accepted)
    /\ \A i \in 1 .. Len(accepted) : accepted[i] = i
    /\ \A i \in 1 .. Len(logFile) : logFile[i] = i
    /\ logQueue \in Seq(Nat \cup LogCallers)
    /\ \A x \in Len(logFile) + 1 .. Len(accepted) : \E i \in DOMAIN logQueue : logQueue[i] = x
    /\ \A i \in DOMAIN logQueue :
          logQueue[i] \notin LogCallers => logQueue[i] \in Len(logFile) + 1 .. Len(accepted)
    /\ \A i, j \in DOMAIN logQueue :
          (i < j /\ logQueue[i] \notin LogCallers /\ logQueue[j] \notin LogCallers)
              => logQueue[i] < logQueue[j]
    /\ closer = "done" => runEnded
    /\ runEnded => queueClosed /\ logQueue = <<>>

LEMMA SinkSound == SinkInv => LinesReachFile
  <1> SUFFICES ASSUME SinkInv PROVE LinesReachFile
    OBVIOUS
  <1>1. Len(logFile) \in Nat /\ Len(accepted) \in Nat /\ DOMAIN logQueue \subseteq Nat
        /\ \A i \in DOMAIN logQueue : logQueue[i] \in Nat \cup LogCallers
    BY DEF SinkInv
  <1>2. \A i \in 1 .. Len(logFile) : logFile[i] = accepted[i]
    BY <1>1 DEF SinkInv
  <1>3. {accepted[i] : i \in Len(logFile) + 1 .. Len(accepted)} = Len(logFile) + 1 .. Len(accepted)
    <2>1. \A i \in Len(logFile) + 1 .. Len(accepted) : i \in 1 .. Len(accepted)
      BY <1>1
    <2>2. \A i \in Len(logFile) + 1 .. Len(accepted) : accepted[i] = i
      BY <2>1 DEF SinkInv
    <2> QED
      BY <2>2
  <1>4. {logQueue[i] : i \in DOMAIN logQueue} \ LogCallers = Len(logFile) + 1 .. Len(accepted)
    <2>1. \A x \in Len(logFile) + 1 .. Len(accepted) : x \notin LogCallers
      BY <1>1, LoggerAssumption
    <2> QED
      BY <2>1 DEF SinkInv
  <1>5. closer = "done" => logFile = accepted
    <2> SUFFICES ASSUME closer = "done" PROVE logFile = accepted
      OBVIOUS
    <2>1. DOMAIN logQueue = {}
      BY DEF SinkInv
    <2>2. Len(logFile) = Len(accepted)
      <3>1. Len(logFile) + 1 \notin Len(logFile) + 1 .. Len(accepted)
        BY <2>1 DEF SinkInv
      <3> QED
        BY <1>1, <3>1 DEF SinkInv
    <2> QED
      BY <1>2, <2>2, SeqEqual DEF SinkInv
  <1> QED
    BY <1>2, <1>3, <1>4, <1>5 DEF LinesReachFile, SinkInv

\* A write: the line is the last of the queue and the greatest.
LEMMA WriteKeepsOrder ==
  ASSUME SinkInv, NEW g \in LogCallers, Write(g) PROVE SinkInv'
  <1>1. CASE queueClosed
    BY <1>1 DEF Write, SinkInv
  <1>2. CASE ~queueClosed
    <2> DEFINE n == Len(accepted) + 1
    <2>1. /\ logQueue' = Append(logQueue, n) /\ accepted' = Append(accepted, n)
          /\ UNCHANGED <<queueClosed, logFile, closer, runEnded>>
      BY <1>2 DEF Write, LineCount
    <2>2. n \in Nat /\ Len(accepted) \in Nat /\ Len(logFile) \in Nat /\ Len(logQueue) \in Nat
      BY DEF SinkInv
    <2>3. n \notin LogCallers
      BY <2>2, LoggerAssumption
    <2>4. /\ accepted' \in Seq(Nat) /\ Len(accepted') = n
          /\ \A i \in 1 .. Len(accepted) : accepted'[i] = accepted[i]
          /\ accepted'[n] = n
      BY <2>1, <2>2 DEF SinkInv
    <2>5. /\ logQueue' \in Seq(Nat \cup LogCallers)
          /\ Len(logQueue') = Len(logQueue) + 1
          /\ \A i \in 1 .. Len(logQueue) : logQueue'[i] = logQueue[i]
          /\ logQueue'[Len(logQueue) + 1] = n
      BY <2>1, <2>2 DEF SinkInv
    <2>6. /\ DOMAIN logQueue = 1 .. Len(logQueue) /\ DOMAIN logQueue' = 1 .. (Len(logQueue) + 1)
      BY <2>5 DEF SinkInv
    <2> HIDE DEF n
    <2>7. n = Len(accepted) + 1
      BY DEF n
    <2>8. ASSUME NEW i \in 1 .. Len(accepted') PROVE accepted'[i] = i
      <3>1. i \in 1 .. Len(accepted) \/ i = n
        BY <2>2, <2>4, <2>7
      <3>2. \A j \in 1 .. Len(accepted) : accepted[j] = j
        BY DEF SinkInv
      <3> QED
        BY <2>4, <3>1, <3>2
    <2>9. ASSUME NEW x \in Len(logFile) + 1 .. n PROVE \E i \in DOMAIN logQueue' : logQueue'[i] = x
      <3>1. CASE x = n
        BY <2>2, <2>5, <2>6, <3>1
      <3>2. CASE x # n
        <4>1. x \in Len(logFile) + 1 .. Len(accepted)
          BY <2>2, <2>7, <2>9, <3>2
        <4>2. PICK i \in DOMAIN logQueue : logQueue[i] = x
          BY <4>1 DEF SinkInv
        <4> QED
          BY <2>2, <2>5, <2>6, <4>2
      <3> QED
        BY <3>1, <3>2
    <2>10. ASSUME NEW i \in DOMAIN logQueue', logQueue'[i] \notin LogCallers
           PROVE  /\ logQueue'[i] \in Len(logFile) + 1 .. n
                  /\ i \in DOMAIN logQueue => logQueue'[i] = logQueue[i] /\ logQueue[i] < n
                  /\ i \notin DOMAIN logQueue => logQueue'[i] = n /\ i = Len(logQueue) + 1
      <3>1. CASE i \in DOMAIN logQueue
        BY <2>2, <2>5, <2>6, <2>7, <2>10, <3>1 DEF SinkInv
      <3>2. CASE i = Len(logQueue) + 1
        BY <2>2, <2>5, <2>6, <2>7, <3>2 DEF SinkInv
      <3> QED
        BY <2>2, <2>6, <3>1, <3>2
    <2>11. ASSUME NEW i \in DOMAIN logQueue', NEW j \in DOMAIN logQueue',
                  i < j, logQueue'[i] \notin LogCallers, logQueue'[j] \notin LogCallers
           PROVE  logQueue'[i] < logQueue'[j]
      <3>1. i \in DOMAIN logQueue
        BY <2>2, <2>6, <2>11
      <3>2. logQueue'[i] = logQueue[i] /\ logQueue[i] < n
        BY <2>10, <2>11, <3>1
      <3>3. CASE j \in DOMAIN logQueue
        BY <2>10, <2>11, <3>1, <3>2, <3>3 DEF SinkInv
      <3>4. CASE j \notin DOMAIN logQueue
        BY <2>10, <2>11, <3>2, <3>4
      <3> QED
        BY <3>3, <3>4
    <2>12. ~runEnded
      BY <1>2 DEF SinkInv
    <2>13. /\ logFile' = logFile /\ logFile \in Seq(Nat) /\ Len(logFile) <= n
           /\ \A i \in 1 .. Len(logFile) : logFile[i] = i
           /\ ~runEnded' /\ closer' # "done"
      BY <2>1, <2>2, <2>7, <2>12 DEF SinkInv
    <2> QED
      BY <2>4, <2>5, <2>8, <2>9, <2>10, <2>11, <2>13 DEF SinkInv
  <1> QED
    BY <1>1, <1>2

LEMMA FlushKeepsOrder ==
  ASSUME SinkInv, NEW g \in LogCallers, Flush(g) PROVE SinkInv'
  <1>1. CASE queueClosed
    BY <1>1 DEF Flush, SinkInv
  <1>2. CASE ~queueClosed
    <2>1. /\ logQueue' = Append(logQueue, g)
          /\ UNCHANGED <<queueClosed, accepted, logFile, closer, runEnded>>
      BY <1>2 DEF Flush
    <2>2. Len(logQueue) \in Nat
      BY DEF SinkInv
    <2>3. /\ logQueue' \in Seq(Nat \cup LogCallers)
          /\ Len(logQueue') = Len(logQueue) + 1
          /\ \A i \in 1 .. Len(logQueue) : logQueue'[i] = logQueue[i]
          /\ logQueue'[Len(logQueue) + 1] = g
      BY <2>1, <2>2 DEF SinkInv
    <2>4. /\ DOMAIN logQueue = 1 .. Len(logQueue) /\ DOMAIN logQueue' = 1 .. (Len(logQueue) + 1)
      BY <2>3 DEF SinkInv
    <2>5. ASSUME NEW i \in DOMAIN logQueue', logQueue'[i] \notin LogCallers
          PROVE  i \in DOMAIN logQueue /\ logQueue'[i] = logQueue[i]
      BY <2>2, <2>3, <2>4, <2>5
    <2>6. \A i \in DOMAIN logQueue : i \in DOMAIN logQueue' /\ logQueue'[i] = logQueue[i]
      BY <2>2, <2>3, <2>4
    <2>7. ~runEnded
      BY <1>2 DEF SinkInv
    <2>8. \A x \in Len(logFile) + 1 .. Len(accepted) : \E i \in DOMAIN logQueue' : logQueue'[i] = x
      BY <2>6 DEF SinkInv
    <2>9. \A i \in DOMAIN logQueue' :
             logQueue'[i] \notin LogCallers => logQueue'[i] \in Len(logFile) + 1 .. Len(accepted)
      BY <2>5 DEF SinkInv
    <2>10. \A i, j \in DOMAIN logQueue' :
             (i < j /\ logQueue'[i] \notin LogCallers /\ logQueue'[j] \notin LogCallers)
                 => logQueue'[i] < logQueue'[j]
      BY <2>5 DEF SinkInv
    <2> QED
      BY <2>1, <2>3, <2>7, <2>8, <2>9, <2>10 DEF SinkInv
  <1> QED
    BY <1>1, <1>2

\* The line that run takes from the queue is the one that follows those in the file.
LEMMA RunItemKeepsOrder == SinkInv /\ RunItem => SinkInv'
  <1> SUFFICES ASSUME SinkInv, RunItem PROVE SinkInv'
    OBVIOUS
  <1>1. /\ logQueue # <<>> /\ ~runEnded /\ logQueue' = Tail(logQueue)
        /\ UNCHANGED <<queueClosed, accepted, closer, runEnded>>
    BY DEF RunItem
  <1>2. Len(logQueue) \in Nat /\ Len(logQueue) > 0 /\ Head(logQueue) = logQueue[1]
        /\ Len(logFile) \in Nat /\ Len(accepted) \in Nat
    BY <1>1 DEF SinkInv
  <1>3. /\ logQueue' \in Seq(Nat \cup LogCallers) /\ Len(logQueue') = Len(logQueue) - 1
        /\ \A i \in 1 .. Len(logQueue') : logQueue'[i] = logQueue[i + 1]
    BY <1>1, <1>2 DEF SinkInv
  <1>4. DOMAIN logQueue = 1 .. Len(logQueue) /\ DOMAIN logQueue' = 1 .. (Len(logQueue) - 1)
    BY <1>3 DEF SinkInv
  <1>5. \A i \in DOMAIN logQueue' : i + 1 \in DOMAIN logQueue /\ logQueue'[i] = logQueue[i + 1]
    BY <1>2, <1>3, <1>4
  <1>6. \A i \in DOMAIN logQueue : i # 1 => i - 1 \in DOMAIN logQueue' /\ logQueue'[i - 1] = logQueue[i]
    BY <1>2, <1>3, <1>4
  <1>7. \A i, j \in DOMAIN logQueue' :
          (i < j /\ logQueue'[i] \notin LogCallers /\ logQueue'[j] \notin LogCallers)
              => logQueue'[i] < logQueue'[j]
    <2> SUFFICES ASSUME NEW i \in DOMAIN logQueue', NEW j \in DOMAIN logQueue',
                        i < j, logQueue'[i] \notin LogCallers, logQueue'[j] \notin LogCallers
                 PROVE  logQueue'[i] < logQueue'[j]
      OBVIOUS
    <2>1. i + 1 < j + 1
      BY <1>2, <1>4
    <2> QED
      BY <1>5, <2>1 DEF SinkInv
  <1>8. CASE logQueue[1] \in LogCallers
    <2>1. logFile' = logFile
      BY <1>2, <1>8 DEF RunItem
    <2>2. ASSUME NEW x \in Len(logFile) + 1 .. Len(accepted)
          PROVE  \E i \in DOMAIN logQueue' : logQueue'[i] = x
      <3>1. PICK i \in DOMAIN logQueue : logQueue[i] = x
        BY DEF SinkInv
      <3>2. x \notin LogCallers
        BY <1>2, LoggerAssumption
      <3>3. i # 1
        BY <1>8, <3>1, <3>2
      <3> QED
        BY <1>6, <3>1, <3>3
    <2>3. \A i \in DOMAIN logQueue' :
             logQueue'[i] \notin LogCallers => logQueue'[i] \in Len(logFile) + 1 .. Len(accepted)
      BY <1>5 DEF SinkInv
    <2> QED
      BY <1>1, <1>3, <1>7, <2>1, <2>2, <2>3 DEF SinkInv
  <1>9. CASE logQueue[1] \notin LogCallers
    <2> DEFINE k == Len(logFile) + 1
    <2>1. logFile' = Append(logFile, logQueue[1])
      BY <1>2, <1>9 DEF RunItem
    <2>2. logQueue[1] \in k .. Len(accepted) /\ 1 \in DOMAIN logQueue
      <3>1. 1 \in DOMAIN logQueue
        BY <1>2, <1>4
      <3> QED
        BY <1>9, <3>1 DEF SinkInv
    <2>3. k \in k .. Len(accepted)
      BY <1>2, <2>2
    <2>4. PICK i \in DOMAIN logQueue : logQueue[i] = k
      BY <2>3 DEF SinkInv
    <2>5. k \notin LogCallers /\ k \in Nat
      BY <1>2, LoggerAssumption
    <2>6. logQueue[1] = k
      <3>1. i # 1 => logQueue[1] < logQueue[i]
        <4>1. i # 1 => 1 < i
          BY <1>2, <1>4
        <4>2. logQueue[i] \notin LogCallers
          BY <2>4, <2>5
        <4> QED
          BY <1>9, <2>2, <4>1, <4>2 DEF SinkInv
      <3> QED
        BY <1>2, <2>2, <2>4, <3>1
    <2>7. /\ logFile' \in Seq(Nat) /\ Len(logFile') = k /\ k <= Len(accepted)
          /\ \A j \in 1 .. Len(logFile) : logFile'[j] = logFile[j]
          /\ logFile'[k] = k
      BY <1>2, <2>1, <2>2, <2>5, <2>6 DEF SinkInv
    <2>8. ASSUME NEW j \in 1 .. Len(logFile') PROVE logFile'[j] = j
      <3>1. j \in 1 .. Len(logFile) \/ j = k
        BY <1>2, <2>7
      <3>2. \A i0 \in 1 .. Len(logFile) : logFile[i0] = i0
        BY DEF SinkInv
      <3> QED
        BY <2>7, <3>1, <3>2
    <2>9. ASSUME NEW x \in Len(logFile') + 1 .. Len(accepted)
          PROVE  \E j \in DOMAIN logQueue' : logQueue'[j] = x
      <3>1. x \in Len(logFile) + 1 .. Len(accepted) /\ x # k
        BY <1>2, <2>7
      <3>2. PICK j \in DOMAIN logQueue : logQueue[j] = x
        BY <3>1 DEF SinkInv
      <3> QED
        BY <1>6, <2>6, <3>1, <3>2
    <2>10. ASSUME NEW j \in DOMAIN logQueue', logQueue'[j] \notin LogCallers
           PROVE  logQueue'[j] \in Len(logFile') + 1 .. Len(accepted)
      <3>1. j + 1 \in DOMAIN logQueue /\ logQueue'[j] = logQueue[j + 1] /\ 1 < j + 1
        BY <1>2, <1>4, <1>5
      <3>2. logQueue[j + 1] \in Len(logFile) + 1 .. Len(accepted) /\ logQueue[1] < logQueue[j + 1]
        BY <1>9, <2>2, <2>10, <3>1 DEF SinkInv
      <3> QED
        BY <1>2, <2>6, <2>7, <3>1, <3>2
    <2> HIDE DEF k
    <2> QED
      BY <1>1, <1>3, <1>7, <2>7, <2>8, <2>9, <2>10 DEF SinkInv
  <1> QED
    BY <1>8, <1>9

LEMMA SinkStep == SinkInv /\ [SinkNext]_sinkVars => SinkInv'
  <1> SUFFICES ASSUME SinkInv, [SinkNext]_sinkVars PROVE SinkInv'
    OBVIOUS
  <1>0. ASSUME UNCHANGED <<logQueue, logFile, accepted>>, queueClosed => queueClosed',
               runEnded' => queueClosed /\ logQueue = <<>>, closer' = "done" => runEnded'
        PROVE  SinkInv'
    BY <1>0 DEF SinkInv
  <1>1. CASE RunEnd
    BY <1>0, <1>1 DEF RunEnd, SinkInv
  <1>2. ASSUME NEW g \in LogCallers, WriteCheck(g) \/ FlushCheck(g) PROVE SinkInv'
    BY <1>0, <1>2 DEF WriteCheck, FlushCheck, SinkInv
  <1>3. ASSUME NEW g \in LogCallers, CloseBegin(g) PROVE SinkInv'
    BY <1>0, <1>3, LoggerAssumption DEF CloseBegin, SinkInv
  <1>4. ASSUME NEW g \in LogCallers, CloseQueue(g) \/ CloseEnd(g) PROVE SinkInv'
    BY <1>0, <1>4 DEF CloseQueue, CloseEnd, SinkInv
  <1>5. CASE UNCHANGED sinkVars
    BY <1>0, <1>5 DEF sinkVars, SinkInv
  <1> QED
    BY <1>1, <1>2, <1>3, <1>4, <1>5, WriteKeepsOrder, FlushKeepsOrder, RunItemKeepsOrder
    DEF SinkNext

LogEntries == [level : Nat, source : {"main", "http", "none"}, n : Nat]

\* Where the i-th entry from head on is.
Slot(h, i) == IF h + i - 1 < RingSize THEN h + i - 1 ELSE h + i - 1 - RingSize

\* The ring holds the last entries of the history, the oldest of them at head.
RingInv ==
    /\ ring \in [0 .. RingSize - 1 -> LogEntries]
    /\ head \in 0 .. RingSize - 1 /\ tail \in 0 .. RingSize - 1 /\ isFull \in BOOLEAN
    /\ history \in Seq(LogEntries)
    /\ isFull => /\ head = tail /\ Len(history) >= RingSize
                 /\ \A i \in 1 .. RingSize : ring[Slot(head, i)] = history[Len(history) - RingSize + i]
    /\ ~isFull => /\ head = 0 /\ tail = Len(history) /\ Len(history) < RingSize
                  /\ \A i \in 1 .. Len(history) : ring[i - 1] = history[i]

\* Positions wrap around at most once.
LEMMA Wraps ==
  ASSUME NEW h \in 0 .. RingSize - 1, NEW i \in 1 .. RingSize
  PROVE  (h + i - 1) % RingSize = Slot(h, i) /\ Slot(h, i) \in 0 .. RingSize - 1
  <1>1. \A x \in Nat : x < RingSize => x % RingSize = x
    BY LoggerAssumption
  <1>2. \A x \in Nat : RingSize <= x /\ x < 2 * RingSize => x % RingSize = x - RingSize
    BY LoggerAssumption
  <1>3. h + i - 1 \in Nat /\ h + i - 1 < 2 * RingSize
    BY LoggerAssumption
  <1> QED
    BY <1>1, <1>2, <1>3, LoggerAssumption DEF Slot

LEMMA NextSlot ==
  ASSUME NEW t \in 0 .. RingSize - 1
  PROVE  (t + 1) % RingSize = (IF t + 1 < RingSize THEN t + 1 ELSE 0)
  <1>1. \A x \in Nat : x < RingSize => x % RingSize = x
    BY LoggerAssumption
  <1>2. RingSize % RingSize = 0
    BY LoggerAssumption
  <1> QED
    BY <1>1, <1>2, LoggerAssumption

LEMMA AppendKeepsRing ==
  ASSUME RingInv, NEW e \in LogEntries, AppendEntry(e), history' = Append(history, e)
  PROVE  RingInv'
  <1> DEFINE R == RingSize
             L == Len(history)
             t1 == IF tail + 1 < R THEN tail + 1 ELSE 0
  <1>1. R \in Nat \ {0} /\ L \in Nat /\ tail \in 0 .. R - 1 /\ head \in 0 .. R - 1
    BY LoggerAssumption DEF RingInv
  <1>2. /\ ring' = [ring EXCEPT ![tail] = e] /\ tail' = t1
        /\ isFull' = (isFull \/ t1 = head)
    BY <1>1, NextSlot DEF AppendEntry
  <1>3. /\ history' \in Seq(LogEntries) /\ Len(history') = L + 1 /\ history'[L + 1] = e
        /\ \A i \in 1 .. L : history'[i] = history[i]
    BY <1>1 DEF RingInv
  <1>4. ring' \in [0 .. R - 1 -> LogEntries] /\ ring'[tail] = e
        /\ \A p \in 0 .. R - 1 : p # tail => ring'[p] = ring[p]
    BY <1>1, <1>2 DEF RingInv
  <1>5. tail' \in 0 .. R - 1 /\ isFull' \in BOOLEAN
    BY <1>1, <1>2
  <1>6. CASE isFull
    <2>1. head = tail /\ L >= R /\ \A i \in 1 .. R : ring[Slot(head, i)] = history[L - R + i]
      BY <1>6 DEF RingInv
    <2>2. head' = t1 /\ isFull'
      BY <1>1, <1>2, <1>6, <2>1, NextSlot DEF AppendEntry
    <2>3. ASSUME NEW i \in 1 .. R PROVE ring'[Slot(head', i)] = history'[L + 1 - R + i]
      <3>1. CASE i = R
        <4>1. Slot(head', i) = tail /\ L + 1 - R + i = L + 1
          BY <1>1, <2>1, <2>2, <3>1 DEF Slot
        <4> QED
          BY <1>3, <1>4, <4>1
      <3>2. CASE i < R
        <4>1. i + 1 \in 1 .. R /\ Slot(head', i) = Slot(head, i + 1)
          BY <1>1, <2>1, <2>2, <3>2 DEF Slot
        <4>2. Slot(head, i + 1) # tail /\ Slot(head, i + 1) \in 0 .. R - 1
          BY <1>1, <2>1, <3>2 DEF Slot
        <4>3. ring'[Slot(head', i)] = history[L - R + (i + 1)]
          BY <1>4, <2>1, <4>1, <4>2
        <4>4. L - R + (i + 1) = L + 1 - R + i /\ L + 1 - R + i \in 1 .. L
          BY <1>1, <2>1, <3>2
        <4> QED
          BY <1>3, <4>3, <4>4
      <3>3. i = R \/ i < R
        BY <1>1
      <3> QED
        BY <3>1, <3>2, <3>3
    <2>4. Len(history') >= R /\ \A i \in 1 .. R : ring'[Slot(head', i)] = history'[Len(history') - R + i]
      <3>1. Len(history') >= R
        BY <1>1, <1>3, <2>1
      <3>2. ASSUME NEW i \in 1 .. R PROVE Len(history') - R + i = L + 1 - R + i
        BY <1>1, <1>3
      <3>3. ASSUME NEW i \in 1 .. R PROVE ring'[Slot(head', i)] = history'[Len(history') - R + i]
        BY <2>3, <3>2
      <3> QED
        BY <3>1, <3>3
    <2>5. head' = tail' /\ head' \in 0 .. R - 1
      BY <1>2, <1>5, <2>2
    <2> QED
      BY <1>3, <1>4, <1>5, <2>2, <2>4, <2>5 DEF RingInv
  <1>7. CASE ~isFull
    <2>1. head = 0 /\ tail = L /\ L < R /\ \A i \in 1 .. L : ring[i - 1] = history[i]
      BY <1>7 DEF RingInv
    <2>2. head' = 0
      BY <1>7, <2>1 DEF AppendEntry
    <2>3. ASSUME NEW i \in 1 .. L + 1 PROVE ring'[i - 1] = history'[i]
      <3>1. CASE i = L + 1
        BY <1>1, <1>3, <1>4, <2>1, <3>1
      <3>2. CASE i \in 1 .. L
        <4>1. i - 1 \in 0 .. R - 1 /\ i - 1 # tail
          BY <1>1, <2>1, <3>2
        <4> QED
          BY <1>3, <1>4, <2>1, <3>2, <4>1
      <3> QED
        BY <1>1, <3>1, <3>2
    <2>4. CASE t1 = 0
      <3>0. isFull' /\ tail' = 0
        BY <1>2, <2>1, <2>4
      <3>1. L + 1 = R
        BY <1>1, <2>1, <2>4
      <3>2. \A i \in 1 .. R : Slot(0, i) = i - 1 /\ L + 1 - R + i = i
        BY <1>1, <3>1 DEF Slot
      <3>3. \A i \in 1 .. R : ring'[Slot(head', i)] = history'[Len(history') - R + i]
        BY <1>3, <2>2, <2>3, <3>1, <3>2
      <3>4. head' = tail' /\ head' \in 0 .. R - 1 /\ Len(history') >= R
        BY <1>1, <1>3, <1>5, <2>2, <3>0, <3>1
      <3> QED
        BY <1>3, <1>4, <1>5, <3>0, <3>3, <3>4 DEF RingInv
    <2>5. CASE t1 # 0
      <3>1. ~isFull' /\ L + 1 < R /\ tail' = L + 1
        BY <1>1, <1>2, <1>7, <2>1, <2>5
      <3>2. \A i \in 1 .. Len(history') : ring'[i - 1] = history'[i]
        BY <1>3, <2>3
      <3>3. head' \in 0 .. R - 1 /\ tail' = Len(history') /\ Len(history') < R
        BY <1>1, <1>3, <2>2, <3>1
      <3> QED
        BY <1>3, <1>4, <1>5, <2>2, <3>1, <3>2, <3>3 DEF RingInv
    <2> QED
      BY <2>4, <2>5
  <1> QED
    BY <1>6, <1>7

LEMMA NewRing ==
  ASSUME ring = [i \in 0 .. RingSize - 1 |-> NoEntry], head = 0, tail = 0, isFull = FALSE, history = <<>>
  PROVE  RingInv
  <1>1. NoEntry \in LogEntries
    BY DEF NoEntry, LogEntries
  <1>2. ring \in [0 .. RingSize - 1 -> LogEntries] /\ 0 \in 0 .. RingSize - 1
    BY <1>1, LoggerAssumption
  <1>3. history \in Seq(LogEntries) /\ Len(history) = 0
    OBVIOUS
  <1>4. 0 < RingSize /\ \A i \in 1 .. 0 : ring[i - 1] = history[i]
    BY LoggerAssumption
  <1> QED
    BY <1>2, <1>3, <1>4 DEF RingInv

LEMMA RingStep == RingInv /\ [RingNext]_ringVars => RingInv'
  <1> SUFFICES ASSUME RingInv, [RingNext]_ringVars PROVE RingInv'
    OBVIOUS
  <1>1. ASSUME NEW l \in LogLevels, NEW s \in {"main", "http"}, logf(l, s) PROVE RingInv'
    <2> DEFINE e == [level |-> l, source |-> s, n |-> Len(history) + 1]
    <2>1. e \in LogEntries
      <3>1. l \in Nat /\ s \in {"main", "http", "none"} /\ Len(history) + 1 \in Nat
        BY LoggerAssumption DEF RingInv
      <3> QED
        BY <3>1 DEF LogEntries
    <2>2. AppendEntry(e) /\ history' = Append(history, e)
      BY <1>1 DEF logf
    <2> HIDE DEF e
    <2> QED
      BY <2>1, <2>2, AppendKeepsRing
  <1>2. CASE ClearLogs
    <2>1. NoEntry \in LogEntries
      BY DEF NoEntry, LogEntries
    <2>2. ring' \in [0 .. RingSize - 1 -> LogEntries]
      BY <1>2, <2>1 DEF ClearLogs
    <2>3. head' = 0 /\ tail' = 0 /\ isFull' = FALSE /\ history' = <<>>
      BY <1>2 DEF ClearLogs
    <2>4. 0 \in 0 .. RingSize - 1 /\ 0 < RingSize
      BY LoggerAssumption
    <2>5. <<>> \in Seq(LogEntries) /\ Len(<<>>) = 0 /\ ~\E i \in 1 .. 0 : TRUE
      OBVIOUS
    <2> QED
      BY <2>2, <2>3, <2>4, <2>5 DEF RingInv
  <1>3. ASSUME UNCHANGED <<ring, head, tail, isFull, history>> PROVE RingInv'
    BY <1>3 DEF RingInv
  <1>4. ASSUME NEW l \in LogLevels, NEW a \in BOOLEAN, UpdateLogLevelWithOverride(l, a) PROVE RingInv'
    BY <1>3, <1>4 DEF UpdateLogLevelWithOverride
  <1>5. ASSUME NEW l \in LogLevels, NEW g \in BOOLEAN, NEW r \in BOOLEAN, NEW a \in BOOLEAN,
               UpdateConfigWithOverride(l, g, r, a)
        PROVE  RingInv'
    BY <1>3, <1>5 DEF UpdateConfigWithOverride
  <1>6. CASE UNCHANGED ringVars
    BY <1>3, <1>6 DEF ringVars
  <1> QED
    BY <1>1, <1>2, <1>4, <1>5, <1>6 DEF RingNext

LEMMA RingSound == RingInv => RecentWindow
  <1> SUFFICES ASSUME RingInv PROVE Contents = LastOf(history, RingSize)
    BY DEF RecentWindow, Get
  <1> DEFINE R == RingSize
             L == Len(history)
  <1>1. R \in Nat \ {0} /\ L \in Nat /\ history \in Seq(LogEntries) /\ head \in 0 .. R - 1
    BY LoggerAssumption DEF RingInv
  <1>2. CASE isFull
    <2>1. L >= R /\ \A i \in 1 .. R : ring[Slot(head, i)] = history[L - R + i]
      BY <1>2 DEF RingInv
    <2>2. \A i \in 1 .. R : (head + i - 1) % R = Slot(head, i)
      BY <1>1, Wraps
    <2>3. Contents = [i \in 1 .. R |-> history[L - R + i]]
      BY <1>2, <2>1, <2>2 DEF Contents
    <2>4. CASE L > R
      <3>1. LastOf(history, R) = SubSeq(history, L - R + 1, L)
        BY <1>1, <2>4 DEF LastOf
      <3>2. /\ SubSeq(history, L - R + 1, L) \in Seq(LogEntries)
            /\ Len(SubSeq(history, L - R + 1, L)) = R
            /\ \A i \in 1 .. R : SubSeq(history, L - R + 1, L)[i] = history[L - R + i]
        <4>1. L - R + 1 \in 1 .. L + 1 /\ L \in L - R .. L
          BY <1>1, <2>4
        <4>2. /\ SubSeq(history, L - R + 1, L) \in Seq(LogEntries)
              /\ Len(SubSeq(history, L - R + 1, L)) = L - (L - R + 1) + 1
              /\ \A i \in 1 .. L - (L - R + 1) + 1 :
                   SubSeq(history, L - R + 1, L)[i] = history[(L - R + 1) + i - 1]
          BY <1>1, <2>4
        <4>3. L - (L - R + 1) + 1 = R /\ \A i \in 1 .. R : (L - R + 1) + i - 1 = L - R + i
          BY <1>1
        <4> QED
          BY <4>2, <4>3
      <3>3. Contents \in Seq(LogEntries) /\ Len(Contents) = R
        <4>1. \A i \in 1 .. R : L - R + i \in 1 .. L
          BY <1>1, <2>4
        <4>2. \A i \in 1 .. R : history[L - R + i] \in LogEntries
          BY <1>1, <4>1
        <4>3. Contents \in [1 .. R -> LogEntries]
          BY <2>3, <4>2
        <4> QED
          BY <1>1, <4>3
      <3>4. \A i \in 1 .. R : Contents[i] = history[L - R + i]
        BY <2>3
      <3> QED
        BY <3>1, <3>2, <3>3, <3>4, SeqEqual, ZenonT(40)
    <2>5. CASE L = R
      <3>1. \A i \in 1 .. R : L - R + i = i
        BY <1>1, <2>5
      <3>2. Contents = [i \in 1 .. R |-> history[i]]
        BY <2>3, <3>1
      <3>3. LastOf(history, R) = history
        BY <1>1, <2>5 DEF LastOf
      <3> QED
        BY <1>1, <2>5, <3>2, <3>3
    <2> QED
      BY <1>1, <2>1, <2>4, <2>5
  <1>3. CASE ~isFull
    <2>1. tail = L /\ L < R /\ \A i \in 1 .. L : ring[i - 1] = history[i]
      BY <1>3 DEF RingInv
    <2>2. Contents = [i \in 1 .. L |-> history[i]]
      BY <1>3, <2>1 DEF Contents
    <2>3. LastOf(history, R) = history
      BY <1>1, <2>1 DEF LastOf
    <2> QED
      BY <1>1, <2>2, <2>3
  <1> QED
    BY <1>2, <1>3

\* The reports of the entry that errorCache holds are the last ones sent, and all others
\* were sent more than a window before its first one.
ErrorInv ==
    /\ logClock \in Nat /\ sent \in Seq(Nat)
    /\ errorCache \in [count : 0 .. MaxErrorCount, first : Nat, last : Nat]
    /\ errorCache.count <= Len(sent)
    /\ errorCache.count = 0 => \A i \in 1 .. Len(sent) : sent[i] + ErrorWindow < logClock
    /\ errorCache.count > 0 =>
          /\ errorCache.last <= logClock /\ errorCache.first <= errorCache.last
          /\ \A i \in 1 .. Len(sent) :
                /\ sent[i] <= errorCache.last
                /\ i <= Len(sent) - errorCache.count => sent[i] + ErrorWindow < errorCache.first
                /\ i > Len(sent) - errorCache.count => sent[i] >= errorCache.first
    /\ ReportsThrottled

LEMMA ErrorStep == ErrorInv /\ [ErrorNext]_errorVars => ErrorInv'
  <1> SUFFICES ASSUME ErrorInv, [ErrorNext]_errorVars PROVE ErrorInv'
    OBVIOUS
  <1>0. /\ MaxErrorCount \in Nat \ {0} /\ ErrorWindow \in Nat /\ Len(sent) \in Nat
        /\ logClock \in Nat /\ sent \in Seq(Nat)
        /\ errorCache.count \in 0 .. MaxErrorCount /\ errorCache.first \in Nat /\ errorCache.last \in Nat
        /\ errorCache \in [count : 0 .. MaxErrorCount, first : Nat, last : Nat]
    BY LoggerAssumption DEF ErrorInv
  <1>1. CASE shouldSendError
    <2> DEFINE e == errorCache
               new == e.count = 0
               again == logClock - e.first <= ErrorWindow /\ e.count < MaxErrorCount
    <2>1. logClock' = logClock
      BY <1>1 DEF shouldSendError
    <2>2. CASE ~new /\ ~again
      <3>1. sent' = sent /\ errorCache' = [e EXCEPT !.last = logClock]
        BY <1>1, <2>2 DEF shouldSendError
      <3>2. /\ errorCache' \in [count : 0 .. MaxErrorCount, first : Nat, last : Nat]
            /\ errorCache'.count = e.count /\ errorCache'.first = e.first /\ errorCache'.last = logClock
        BY <1>0, <3>1
      <3>3. ReportsThrottled'
        BY <3>1 DEF ReportsThrottled, ErrorInv
      <3>4. e.count > 0 /\ e.last <= logClock
        BY <1>0, <2>2 DEF ErrorInv
      <3>5. \A i \in 1 .. Len(sent) : sent[i] <= logClock
        BY <1>0, <3>4 DEF ErrorInv
      <3> QED
        BY <1>0, <2>1, <3>1, <3>2, <3>3, <3>4, <3>5 DEF ErrorInv
    <2>3. CASE new \/ again
      <3> DEFINE first == IF new THEN logClock ELSE e.first
                 n == Len(sent)
                 c == e.count + 1
      <3>1. sent' = Append(sent, logClock)
        BY <1>1, <2>3 DEF shouldSendError
      <3>2. /\ errorCache' \in [count : 0 .. MaxErrorCount, first : Nat, last : Nat]
            /\ errorCache'.count = c /\ errorCache'.first = first /\ errorCache'.last = logClock
            /\ c <= MaxErrorCount
        <4>1. CASE new
          <5>1. errorCache' = [count |-> 1, first |-> logClock, last |-> logClock]
            BY <1>1, <4>1 DEF shouldSendError
          <5>2. 1 \in 0 .. MaxErrorCount /\ c = 1 /\ first = logClock
            BY <1>0, <4>1
          <5> QED
            BY <1>0, <5>1, <5>2
        <4>2. CASE ~new
          <5>1. again
            BY <2>3, <4>2
          <5>2. errorCache' = [e EXCEPT !.last = logClock, !.count = c]
            BY <1>1, <4>2, <5>1 DEF shouldSendError
          <5>3. c \in 0 .. MaxErrorCount /\ c <= MaxErrorCount /\ first = e.first
            BY <1>0, <4>2, <5>1
          <5> HIDE DEF c, first
          <5>4. /\ errorCache' \in [count : 0 .. MaxErrorCount, first : Nat, last : Nat]
                /\ errorCache'.count = c /\ errorCache'.first = e.first /\ errorCache'.last = logClock
            BY <1>0, <5>2, <5>3
          <5> QED
            BY <5>3, <5>4
        <4> QED
          BY <4>1, <4>2
      <3>3. /\ sent' \in Seq(Nat) /\ Len(sent') = n + 1 /\ sent'[n + 1] = logClock
            /\ \A i \in 1 .. n : sent'[i] = sent[i]
        BY <1>0, <3>1
      <3>4. first \in Nat /\ first <= logClock
        BY <1>0, <2>3 DEF ErrorInv
      <3>5. ASSUME NEW i \in 1 .. n
            PROVE  /\ sent[i] \in Nat /\ sent[i] <= logClock
                   /\ i <= n + 1 - c => sent[i] + ErrorWindow < first
                   /\ i > n + 1 - c => sent[i] >= first
        <4>1. n + 1 - c = n - e.count /\ sent[i] \in Nat
          BY <1>0
        <4>2. CASE new
          BY <1>0, <4>1, <4>2 DEF ErrorInv
        <4>3. CASE ~new
          BY <1>0, <4>1, <4>3 DEF ErrorInv
        <4> QED
          BY <4>2, <4>3
      <3> HIDE DEF first, c, n
      <3>6. n \in Nat /\ c \in Nat /\ c > 0 /\ c <= n + 1 /\ n = Len(sent)
        BY <1>0 DEF c, n, ErrorInv
      <3>7. ASSUME NEW i \in 1 .. n + 1
            PROVE  /\ sent'[i] <= logClock
                   /\ i <= n + 1 - c => sent'[i] + ErrorWindow < first
                   /\ i > n + 1 - c => sent'[i] >= first
        <4>1. CASE i = n + 1
          BY <1>0, <3>3, <3>4, <3>6, <4>1
        <4>2. CASE i \in 1 .. n
          BY <3>3, <3>5, <4>2
        <4> QED
          BY <3>6, <4>1, <4>2
      <3>8. ASSUME NEW i \in 1 .. n + 1, NEW j \in 1 .. n + 1, i <= j, sent'[j] - sent'[i] < ErrorWindow
            PROVE  j - i < MaxErrorCount
        <4>1. CASE j \in 1 .. n
          <5>1. i \in 1 .. n
            BY <3>6, <3>8, <4>1
          <5>2. sent[j] - sent[i] < ErrorWindow
            BY <3>3, <3>8, <4>1, <5>1
          <5> QED
            BY <3>6, <3>8, <4>1, <5>1, <5>2 DEF ErrorInv, ReportsThrottled
        <4>2. CASE j = n + 1
          <5>1. sent'[i] \in Nat /\ logClock - sent'[i] < ErrorWindow
            BY <3>3, <3>6, <3>8, <4>2
          <5>2. i > n + 1 - c
            <6>1. i <= n + 1 - c => sent'[i] + ErrorWindow < first
              BY <3>7
            <6>2. ~(sent'[i] + ErrorWindow < first)
              BY <1>0, <3>4, <5>1
            <6> QED
              BY <3>6, <6>1, <6>2
          <5> QED
            BY <1>0, <3>2, <3>6, <4>2, <5>2
        <4> QED
          BY <3>6, <4>1, <4>2
      <3>9. ReportsThrottled'
        BY <3>3, <3>8 DEF ReportsThrottled
      <3> QED
        BY <1>0, <2>1, <3>2, <3>3, <3>4, <3>6, <3>7, <3>9 DEF ErrorInv
    <2> QED
      BY <2>2, <2>3
  <1>2. CASE cleanupExpiredErrors
    <2>1. /\ errorCache' = NoError /\ sent' = sent /\ logClock' = logClock
          /\ errorCache.count > 0 /\ logClock - errorCache.last > ErrorWindow
      BY <1>2 DEF cleanupExpiredErrors
    <2>2. \A i \in 1 .. Len(sent) : sent[i] + ErrorWindow < logClock
      BY <1>0, <2>1 DEF ErrorInv
    <2>3. NoError \in [count : 0 .. MaxErrorCount, first : Nat, last : Nat] /\ NoError.count = 0
      BY <1>0 DEF NoError
    <2>4. ReportsThrottled'
      BY <2>1 DEF ErrorInv, ReportsThrottled
    <2> QED
      BY <1>0, <2>1, <2>2, <2>3, <2>4 DEF ErrorInv
  <1>3. CASE LogTick
    <2>1. logClock' = logClock + 1 /\ sent' = sent /\ errorCache' = errorCache
      BY <1>3 DEF LogTick
    <2>2. ReportsThrottled'
      BY <2>1 DEF ErrorInv, ReportsThrottled
    <2>3. \A i \in 1 .. Len(sent) : sent[i] \in Nat
      BY <1>0
    <2> QED
      BY <1>0, <2>1, <2>2, <2>3 DEF ErrorInv
  <1>4. CASE UNCHANGED errorVars
    BY <1>4 DEF errorVars, ErrorInv, ReportsThrottled
  <1> QED
    BY <1>1, <1>2, <1>3, <1>4 DEF ErrorNext

\* What the logger keeps at every step of every part.
LEMMA LoggerInductive == LoggerSpec => [](SinkInv /\ RingInv /\ ErrorInv)
  <1> DEFINE Inv == SinkInv /\ RingInv /\ ErrorInv
  <1>1. LoggerInit => Inv
    <2> SUFFICES ASSUME LoggerInit PROVE Inv
      OBVIOUS
    <2>1. SinkInv
      BY DEF LoggerInit, SinkInit, SinkInv
    <2>2. RingInv
      BY NewRing DEF LoggerInit, NewLogBuffer
    <2>3. ErrorInv
      BY LoggerAssumption DEF LoggerInit, ErrorInv, NoError, ReportsThrottled
    <2> QED
      BY <2>1, <2>2, <2>3
  <1>2. Inv /\ [LoggerNext]_loggerVars => Inv'
    <2> SUFFICES ASSUME Inv, [LoggerNext]_loggerVars PROVE Inv'
      OBVIOUS
    <2>1. [SinkNext]_sinkVars /\ [RingNext]_ringVars /\ [ErrorNext]_errorVars
      BY DEF LoggerNext, loggerVars
    <2> QED
      BY <2>1, SinkStep, RingStep, ErrorStep
  <1> QED
    BY <1>1, <1>2, PTL DEF LoggerSpec

\* However writers, flushes and Close overlap and however often the ring wraps around:
\* every line that Write took is in the file or queued for it, in order, all of them are
\* in the file once Close has returned, and the API shows the last entries logged.
THEOREM LogsAreComplete == LoggerSpec => []LogsComplete
  <1>1. SinkInv /\ RingInv /\ ErrorInv => LogsComplete
    BY SinkSound, RingSound DEF LogsComplete
  <1> QED
    BY <1>1, LoggerInductive, PTL

\* Whenever the message occurs and its entry expires: it is reported at most MaxErrorCount
\* times in an ErrorWindow.
THEOREM ReportsAreThrottled == LoggerSpec => []ReportsThrottled
  <1>1. SinkInv /\ RingInv /\ ErrorInv => ReportsThrottled
    BY DEF ErrorInv
  <1> QED
    BY <1>1, LoggerInductive, PTL


-----------------------------------------------------------------------------
(* Types of the logger.                                                       *)

CallerSteps == {"idle", "writing", "flushing", "waiting", "closing", "draining"}
StreamRecords == [state : {"none", "open", "draining", "closed"}, chan : 0 .. StreamBuffer]

\* What the other invariants do not say: the queue is within its size.
SinkTyped ==
    /\ Len(logQueue) <= QueueSize /\ caller \in [LogCallers -> CallerSteps]
    /\ closer \in LogCallers \cup {"none", "done"}

StreamsTyped == streams \in [Streams -> StreamRecords]

LEMMA SinkStepTyped == SinkInv /\ SinkTyped /\ [SinkNext]_sinkVars => SinkTyped'
  <1> SUFFICES ASSUME SinkInv, SinkTyped, [SinkNext]_sinkVars PROVE SinkTyped'
    OBVIOUS
  <1>q. logQueue \in Seq(Nat \cup LogCallers) /\ accepted \in Seq(Nat) /\ Len(accepted) \in Nat
    BY DEF SinkInv
  <1>a. /\ \A x \in Nat \cup LogCallers : Len(Append(logQueue, x)) = Len(logQueue) + 1
        /\ logQueue # <<>> => Len(Tail(logQueue)) = Len(logQueue) - 1
        /\ Len(logQueue) \in Nat /\ QueueSize \in Nat
    BY <1>q, LoggerAssumption
  <1>c. \A g \in LogCallers : AfterFlush(g) \in CallerSteps
    BY DEF AfterFlush, CallerSteps
  <1>m. ASSUME NEW g \in LogCallers, NEW p \in CallerSteps, caller' = [caller EXCEPT ![g] = p],
               logQueue' = logQueue, closer' \in LogCallers \cup {"none", "done"}
        PROVE  SinkTyped'
    BY <1>m DEF SinkTyped
  <1>1. CASE RunItem
    <2>1. Len(logQueue') <= QueueSize
      BY <1>1, <1>a DEF RunItem, SinkTyped
    <2>2. caller' \in [LogCallers -> CallerSteps]
      BY <1>1, <1>c DEF RunItem, SinkTyped
    <2> QED
      BY <1>1, <2>1, <2>2 DEF RunItem, SinkTyped
  <1>2. CASE RunEnd \/ UNCHANGED sinkVars
    BY <1>2 DEF RunEnd, sinkVars, SinkTyped
  <1>3. ASSUME NEW g \in LogCallers, WriteCheck(g) \/ FlushCheck(g) PROVE SinkTyped'
    <2>1. \E p \in CallerSteps : caller' = [caller EXCEPT ![g] = p]
      BY <1>3 DEF WriteCheck, FlushCheck, CallerSteps
    <2> QED
      BY <1>3, <1>m, <2>1 DEF WriteCheck, FlushCheck, SinkTyped
  <1>4. ASSUME NEW g \in LogCallers, Write(g) PROVE SinkTyped'
    <2>1. Len(logQueue') <= QueueSize
      <3>1. LineCount + 1 \in Nat
        BY <1>q DEF LineCount
      <3> QED
        BY <1>4, <1>a, <3>1 DEF Write, SinkTyped
    <2>2. caller' \in [LogCallers -> CallerSteps]
      BY <1>4 DEF Write, SinkTyped, CallerSteps
    <2> QED
      BY <1>4, <2>1, <2>2 DEF Write, SinkTyped
  <1>5. ASSUME NEW g \in LogCallers, Flush(g) PROVE SinkTyped'
    <2>1. Len(logQueue') <= QueueSize
      BY <1>5, <1>a DEF Flush, SinkTyped
    <2>2. caller' \in [LogCallers -> CallerSteps]
      BY <1>5, <1>c DEF Flush, SinkTyped, CallerSteps
    <2> QED
      BY <1>5, <2>1, <2>2 DEF Flush, SinkTyped
  <1>6. ASSUME NEW g \in LogCallers, CloseBegin(g) \/ CloseQueue(g) \/ CloseEnd(g) PROVE SinkTyped'
    <2>1. \E p \in CallerSteps : caller' = [caller EXCEPT ![g] = p]
      BY <1>6 DEF CloseBegin, CloseQueue, CloseEnd, CallerSteps
    <2> QED
      BY <1>6, <1>m, <2>1 DEF CloseBegin, CloseQueue, CloseEnd, SinkTyped
  <1> QED
    BY <1>1, <1>2, <1>3, <1>4, <1>5, <1>6 DEF SinkNext

LEMMA LevelTyped == logLevel \in 0 .. 6 /\ [RingNext]_ringVars => (logLevel \in 0 .. 6)'
  <1> SUFFICES ASSUME logLevel \in 0 .. 6, [RingNext]_ringVars PROVE logLevel' \in 0 .. 6
    OBVIOUS
  <1>1. \A l \in 0 .. 6 : \A a : normalizeLogLevel(l, a) \in 0 .. 6
    BY DEF normalizeLogLevel
  <1>2. ASSUME NEW l \in LogLevels, NEW a \in BOOLEAN, UpdateLogLevelWithOverride(l, a)
        PROVE  logLevel' \in 0 .. 6
    BY <1>1, <1>2, LoggerAssumption DEF UpdateLogLevelWithOverride
  <1>3. ASSUME NEW l \in LogLevels, NEW g \in BOOLEAN, NEW r \in BOOLEAN, NEW a \in BOOLEAN,
               UpdateConfigWithOverride(l, g, r, a)
        PROVE  logLevel' \in 0 .. 6
    BY <1>1, <1>3, LoggerAssumption DEF UpdateConfigWithOverride
  <1>4. CASE logLevel' = logLevel
    BY <1>4
  <1> QED
    BY <1>2, <1>3, <1>4 DEF RingNext, logf, ClearLogs, ringVars

LEMMA RecordTyped ==
  ASSUME NEW r \in StreamRecords, NEW n \in 0 .. StreamBuffer, NEW p \in {"none", "open", "draining", "closed"}
  PROVE  /\ [r EXCEPT !.chan = n] \in StreamRecords /\ [r EXCEPT !.state = p] \in StreamRecords
         /\ [[r EXCEPT !.chan = n] EXCEPT !.state = p] \in StreamRecords
  BY DEF StreamRecords

LEMMA StreamStepTyped == StreamsTyped /\ [StreamNext]_streamVars => StreamsTyped'
  <1> SUFFICES ASSUME StreamsTyped, [StreamNext]_streamVars PROVE StreamsTyped'
    OBVIOUS
  <1>b. StreamBuffer \in Nat
    BY LoggerAssumption
  <1>m. ASSUME NEW s \in Streams, NEW r \in StreamRecords, streams' = [streams EXCEPT ![s] = r]
        PROVE  StreamsTyped'
    BY <1>m DEF StreamsTyped
  <1>1. CASE streams' = streams
    BY <1>1 DEF StreamsTyped
  <1>2. ASSUME NEW s \in Streams, SubscribeLogStream(s) \/ HandleLogStream(s) \/ Cleanup(s)
        PROVE  StreamsTyped'
    <2>1. streams[s] \in StreamRecords /\ streams[s].chan \in 0 .. StreamBuffer
      BY DEF StreamsTyped, StreamRecords
    <2>2. \A p \in {"none", "open", "draining", "closed"} : [streams[s] EXCEPT !.state = p] \in StreamRecords
      BY <2>1, RecordTyped
    <2>3. streams[s].chan > 0 =>
            /\ [streams[s] EXCEPT !.chan = streams[s].chan - 1] \in StreamRecords
            /\ [[streams[s] EXCEPT !.chan = streams[s].chan - 1] EXCEPT !.state = "draining"] \in StreamRecords
      <3>1. streams[s].chan > 0 => streams[s].chan - 1 \in 0 .. StreamBuffer
        BY <1>b, <2>1
      <3> QED
        BY <2>1, <3>1, RecordTyped
    <2>4. CASE SubscribeLogStream(s)
      BY <1>m, <2>2, <2>4 DEF SubscribeLogStream
    <2>5. CASE HandleLogStream(s)
      <3>1. \/ streams' = [streams EXCEPT ![s] = [streams[s] EXCEPT !.chan = streams[s].chan - 1]]
            \/ streams' = [streams EXCEPT ![s] =
                             [[streams[s] EXCEPT !.chan = streams[s].chan - 1] EXCEPT !.state = "draining"]]
        <4>1. CASE streams' = [streams EXCEPT ![s].chan = @ - 1]
          BY <4>1
        <4>2. CASE streams' = [streams EXCEPT ![s].chan = @ - 1, ![s].state = "draining"]
          BY <4>2 DEF StreamsTyped
        <4> QED
          BY <2>5, <4>1, <4>2 DEF HandleLogStream
      <3> QED
        BY <1>m, <2>3, <2>5, <3>1 DEF HandleLogStream
    <2>6. CASE Cleanup(s)
      <3>1. \/ /\ streams[s].chan > 0
               /\ streams' = [streams EXCEPT ![s] = [streams[s] EXCEPT !.chan = streams[s].chan - 1]]
            \/ streams' = [streams EXCEPT ![s] = [streams[s] EXCEPT !.state = "closed"]]
        BY <2>6 DEF Cleanup
      <3> QED
        BY <1>m, <2>2, <2>3, <3>1
    <2> QED
      BY <1>2, <2>4, <2>5, <2>6
  <1>3. ASSUME NEW s \in Streams, ObserverSend(s) PROVE StreamsTyped'
    <2>1. streams[s] \in StreamRecords /\ streams[s].chan \in 0 .. StreamBuffer
      BY DEF StreamsTyped, StreamRecords
    <2>2. streams[s].chan < StreamBuffer => [streams[s] EXCEPT !.chan = @ + 1] \in StreamRecords
      BY <1>b, <2>1 DEF StreamRecords
    <2>3. \/ /\ streams[s].chan < StreamBuffer
             /\ streams' = [streams EXCEPT ![s] = [streams[s] EXCEPT !.chan = @ + 1]]
          \/ streams' = streams
      BY <1>3 DEF ObserverSend
    <2> QED
      BY <1>1, <1>m, <2>2, <2>3
  <1> QED
    BY <1>1, <1>2, <1>3 DEF StreamNext, Notify, ObserverCheck, streamVars

\* The queue, the ring, the throttle and the channels of the streams stay within their
\* sizes, whoever writes, flushes and sends at the same time.
THEOREM LoggerTypeCorrect == LoggerSpec => []LoggerTypeOK
  <1> DEFINE Typed == SinkTyped /\ logLevel \in 0 .. 6 /\ StreamsTyped
             Sound == SinkInv /\ RingInv /\ ErrorInv
  <1>1. LoggerInit => Typed
    <2> SUFFICES ASSUME LoggerInit PROVE Typed
      OBVIOUS
    <2>1. SinkTyped
      BY LoggerAssumption DEF LoggerInit, SinkInit, SinkTyped, CallerSteps
    <2>2. StreamsTyped
      BY LoggerAssumption DEF LoggerInit, StreamsTyped, StreamRecords
    <2> QED
      BY <2>1, <2>2 DEF LoggerInit
  <1>2. Typed /\ Sound /\ [LoggerNext]_loggerVars => Typed'
    <2> SUFFICES ASSUME Typed, Sound, [LoggerNext]_loggerVars PROVE Typed'
      OBVIOUS
    <2>1. [SinkNext]_sinkVars /\ [RingNext]_ringVars /\ [StreamNext]_streamVars
      BY DEF LoggerNext, loggerVars
    <2> QED
      BY <2>1, SinkStepTyped, LevelTyped, StreamStepTyped
  <1>3. Typed /\ Sound => LoggerTypeOK
    <2> SUFFICES ASSUME Typed, Sound PROVE LoggerTypeOK
      OBVIOUS
    <2>1. errorCache.count \in 0 .. MaxErrorCount /\ head \in 0 .. RingSize - 1 /\ tail \in 0 .. RingSize - 1
      BY DEF ErrorInv, RingInv
    <2>2. \A s \in Streams : streams[s].chan \in 0 .. StreamBuffer
      BY DEF StreamsTyped, StreamRecords
    <2> QED
      BY <2>1, <2>2 DEF SinkTyped, CallerSteps, LoggerTypeOK
  <1> QED
    BY <1>1, <1>2, <1>3, LoggerInductive, PTL DEF LoggerSpec

-----------------------------------------------------------------------------
(* The service of the operating system, on each system and in each scope.     *)

SvcSteps == {"prepare", "check", "register", "unregister", "waitRemoval", "removeExe", "removeOld",
             "require", "start", "stop", "status", "core", "uncore", "tray", "untray", "oldTray"}
SvcRecords == [via : {"api", "cli"},
               op : {"none", "install", "uninstall", "start", "stop", "restart", "status"},
               scope : Scopes, todo : Seq(SvcSteps), exe : {"elsewhere", "managed", "service"},
               root : BOOLEAN, warned : BOOLEAN, answer : SvcAnswers]

\* Is the step among those that are left?
Left(steps, step) == \E i \in 1 .. Len(steps) : steps[i] = step
LeftNow(step) == Left(svcCall.todo, step)

UninstallSteps == {"require", "unregister", "waitRemoval", "removeExe", "untray", "uncore", "oldTray"}

SvcFiles ==
  /\ hostOS \in {"linux", "darwin", "windows"} /\ reg \in [Scopes -> Registrations]
  /\ managed \in BOOLEAN /\ trayAgent \in BOOLEAN /\ coreJob \in BOOLEAN

SvcTypes ==
  /\ SvcFiles /\ svcCall \in SvcRecords
  /\ svcCall.todo # <<>> => svcCall.answer = "none"

\* A step that is no longer left has been done, or the call has warned of it.
UninstallSoFar ==
  /\ \A step \in SvcSteps : LeftNow(step) => step \in UninstallSteps
  /\ ~LeftNow("unregister") /\ ~LeftNow("waitRemoval") => reg[svcKey] = "absent"
  /\ svcCall.scope = "system" /\ ~LeftNow("removeExe") => ~managed
  /\ hostOS = "darwin" /\ ~svcCall.warned /\ svcCall.via = "api" /\ ~LeftNow("untray") => ~trayAgent
  /\ hostOS = "darwin" /\ ~svcCall.warned /\ svcCall.via = "cli" /\ ~LeftNow("uncore") => ~coreJob

SvcInv ==
  /\ SvcTypes
  /\ svcCall.op = "uninstall" /\ svcCall.answer \in {"none", "ok"} => UninstallSoFar

LEMMA LeftTail ==
  ASSUME NEW s \in Seq(SvcSteps), s # <<>>
  PROVE  /\ Tail(s) \in Seq(SvcSteps) /\ Head(s) \in SvcSteps
         /\ \A x : Left(s, x) <=> (Head(s) = x \/ Left(Tail(s), x))
  <1>1. /\ Len(s) \in Nat \ {0} /\ Head(s) = s[1] /\ Tail(s) \in Seq(SvcSteps) /\ s[1] \in SvcSteps
        /\ Len(Tail(s)) = Len(s) - 1 /\ \A i \in 1 .. Len(s) - 1 : Tail(s)[i] = s[i + 1]
    BY EmptySeq, HeadTailProperties
  <1>2. ASSUME NEW x, Left(s, x) PROVE Head(s) = x \/ Left(Tail(s), x)
    <2>1. PICK i \in 1 .. Len(s) : s[i] = x
      BY <1>2 DEF Left
    <2>2. CASE i = 1
      BY <1>1, <2>1, <2>2
    <2>3. CASE i # 1
      <3>1. i - 1 \in 1 .. Len(s) - 1 /\ (i - 1) + 1 = i
        BY <1>1, <2>3
      <3> QED
        BY <1>1, <2>1, <3>1 DEF Left
    <2> QED
      BY <2>2, <2>3
  <1>3. ASSUME NEW x, Head(s) = x \/ Left(Tail(s), x) PROVE Left(s, x)
    <2>1. CASE Head(s) = x
      <3>1. 1 \in 1 .. Len(s)
        BY <1>1
      <3> QED
        BY <1>1, <2>1, <3>1 DEF Left
    <2>2. CASE Left(Tail(s), x)
      <3>1. PICK i \in 1 .. Len(s) - 1 : Tail(s)[i] = x
        BY <1>1, <2>2 DEF Left
      <3>2. i + 1 \in 1 .. Len(s) /\ s[i + 1] = x
        BY <1>1, <3>1
      <3> QED
        BY <3>2 DEF Left
    <2> QED
      BY <1>3, <2>1, <2>2
  <1> QED
    BY <1>1, <1>2, <1>3

LEMMA LeftConcat ==
  ASSUME NEW s \in Seq(SvcSteps), NEW t \in Seq(SvcSteps)
  PROVE  s \o t \in Seq(SvcSteps) /\ \A x : Left(s \o t, x) <=> (Left(s, x) \/ Left(t, x))
  <1>1. /\ s \o t \in Seq(SvcSteps) /\ Len(s \o t) = Len(s) + Len(t) /\ Len(s) \in Nat /\ Len(t) \in Nat
        /\ \A i \in 1 .. Len(s) + Len(t) : (s \o t)[i] = IF i <= Len(s) THEN s[i] ELSE t[i - Len(s)]
    BY ConcatProperties, LenProperties
  <1>2. ASSUME NEW x, Left(s \o t, x) PROVE Left(s, x) \/ Left(t, x)
    <2>1. PICK i \in 1 .. Len(s) + Len(t) : (s \o t)[i] = x
      BY <1>1, <1>2 DEF Left
    <2>2. CASE i <= Len(s)
      <3>1. i \in 1 .. Len(s) /\ s[i] = x
        BY <1>1, <2>1, <2>2
      <3> QED
        BY <3>1 DEF Left
    <2>3. CASE ~(i <= Len(s))
      <3>1. i - Len(s) \in 1 .. Len(t) /\ t[i - Len(s)] = x
        BY <1>1, <2>1, <2>3
      <3> QED
        BY <3>1 DEF Left
    <2> QED
      BY <2>2, <2>3
  <1>3. ASSUME NEW x, Left(s, x) PROVE Left(s \o t, x)
    <2>1. PICK i \in 1 .. Len(s) : s[i] = x
      BY <1>3 DEF Left
    <2>2. i \in 1 .. Len(s) + Len(t) /\ i <= Len(s)
      BY <1>1
    <2>3. (s \o t)[i] = x
      BY <1>1, <2>1, <2>2
    <2> QED
      BY <1>1, <2>2, <2>3 DEF Left
  <1>4. ASSUME NEW x, Left(t, x) PROVE Left(s \o t, x)
    <2>1. PICK i \in 1 .. Len(t) : t[i] = x
      BY <1>4 DEF Left
    <2>2. Len(s) + i \in 1 .. Len(s) + Len(t) /\ ~(Len(s) + i <= Len(s)) /\ Len(s) + i - Len(s) = i
      BY <1>1
    <2>3. (s \o t)[Len(s) + i] = x
      BY <1>1, <2>1, <2>2
    <2> QED
      BY <1>1, <2>2, <2>3 DEF Left
  <1> QED
    BY <1>1, <1>2, <1>3, <1>4

LEMMA LeftNothing == <<>> \in Seq(SvcSteps) /\ \A x : ~Left(<<>>, x)
  BY DEF Left

LEMMA LeftOne ==
  ASSUME NEW a \in SvcSteps
  PROVE  <<a>> \in Seq(SvcSteps) /\ \A x : Left(<<a>>, x) <=> x = a
  BY DEF Left

LEMMA LeftTwo ==
  ASSUME NEW a \in SvcSteps, NEW b \in SvcSteps
  PROVE  <<a, b>> \in Seq(SvcSteps) /\ \A x : Left(<<a, b>>, x) <=> x \in {a, b}
  BY DEF Left

LEMMA LeftThree ==
  ASSUME NEW a \in SvcSteps, NEW b \in SvcSteps, NEW c \in SvcSteps
  PROVE  <<a, b, c>> \in Seq(SvcSteps)
  OBVIOUS

LEMMA LeftOptional ==
  ASSUME NEW s \in Seq(SvcSteps), NEW scope
  PROVE  /\ OnDarwin(s) \in Seq(SvcSteps) /\ SystemWide(scope, s) \in Seq(SvcSteps)
         /\ \A x : Left(OnDarwin(s), x) <=> (hostOS = "darwin" /\ Left(s, x))
         /\ \A x : Left(SystemWide(scope, s), x) <=> (scope = "system" /\ Left(s, x))
  BY LeftNothing DEF OnDarwin, SystemWide

\* What the steps of a call leave of its record.
LEMMA Proceeds ==
  ASSUME SvcTypes, svcCall.todo # <<>>, NEW w \in BOOLEAN, Proceed(w)
  PROVE  /\ svcCall' \in SvcRecords /\ svcCall'.todo = Tail(svcCall.todo)
         /\ svcCall'.via = svcCall.via /\ svcCall'.op = svcCall.op /\ svcCall'.scope = svcCall.scope
         /\ svcCall'.warned = (svcCall.warned \/ w)
         /\ svcCall'.todo # <<>> => svcCall'.answer = "none"
  <1> DEFINE a == IF Tail(svcCall.todo) = <<>> THEN "ok" ELSE "none"
             t == Tail(svcCall.todo)
             v == svcCall.warned \/ w
  <1>1. a \in SvcAnswers /\ t \in Seq(SvcSteps) /\ v \in BOOLEAN /\ (t # <<>> => a = "none")
    BY LeftTail DEF SvcTypes, SvcRecords, SvcAnswers
  <1>2. svcCall' = [svcCall EXCEPT !.todo = t, !.warned = v, !.answer = a]
    BY DEF Proceed
  <1> HIDE DEF a, t, v
  <1>3. svcCall' \in SvcRecords /\ svcCall'.todo = t /\ svcCall'.warned = v /\ svcCall'.answer = a
        /\ svcCall'.via = svcCall.via /\ svcCall'.op = svcCall.op /\ svcCall'.scope = svcCall.scope
    BY <1>1, <1>2 DEF SvcTypes, SvcRecords
  <1> QED
    BY <1>1, <1>3 DEF t, v

LEMMA Stops ==
  ASSUME SvcTypes, SvcFiles', Fail \/ CutOff
  PROVE  SvcInv'
  <1>1. <<>> \in Seq(SvcSteps) /\ "failed" \in SvcAnswers /\ "cut" \in SvcAnswers
    BY DEF SvcAnswers
  <1>2. svcCall' \in SvcRecords /\ svcCall'.answer \in {"failed", "cut"} /\ svcCall'.todo = <<>>
    BY <1>1 DEF SvcTypes, SvcRecords, Fail, CutOff
  <1> QED
    BY <1>2 DEF SvcInv, SvcTypes

\* A call that is no uninstallation only has its types to keep.
LEMMA OtherCall ==
  ASSUME SvcFiles', svcCall' \in SvcRecords, svcCall'.todo # <<>> => svcCall'.answer = "none",
         svcCall'.op # "uninstall"
  PROVE  SvcInv'
  BY DEF SvcInv, SvcTypes

\* A step of an uninstallation has done what it is there for, has warned, or is for something else.
Settles(w) ==
  /\ \/ reg'[svcKey] = "absent"
     \/ Head(svcCall.todo) \notin {"unregister", "waitRemoval"} /\ reg'[svcKey] = reg[svcKey]
  /\ ~managed' \/ (Head(svcCall.todo) # "removeExe" /\ managed' = managed)
  /\ w \/ ~trayAgent' \/ (Head(svcCall.todo) # "untray" /\ trayAgent' = trayAgent)
  /\ w \/ ~coreJob' \/ (Head(svcCall.todo) # "uncore" /\ coreJob' = coreJob)

LEMMA UninstallGoesOn ==
  ASSUME SvcInv, svcCall.todo # <<>>, NEW w \in BOOLEAN, Proceed(w), SvcFiles', hostOS' = hostOS,
         Settles(w)
  PROVE  SvcInv'
  <1>1. /\ svcCall' \in SvcRecords /\ svcCall'.todo = Tail(svcCall.todo)
        /\ svcCall'.via = svcCall.via /\ svcCall'.op = svcCall.op /\ svcCall'.scope = svcCall.scope
        /\ svcCall'.warned = (svcCall.warned \/ w)
        /\ svcCall'.todo # <<>> => svcCall'.answer = "none"
    BY Proceeds DEF SvcInv
  <1>2. svcKey' = svcKey
    BY <1>1 DEF svcKey, Key
  <1>3. svcCall.todo \in Seq(SvcSteps) /\ svcCall.answer = "none" /\ svcCall.warned \in BOOLEAN
    BY DEF SvcInv, SvcTypes, SvcRecords
  <1>4. \A x : LeftNow(x) <=> (Head(svcCall.todo) = x \/ LeftNow(x)')
    BY <1>1, <1>3, LeftTail DEF LeftNow
  <1>5. CASE svcCall.op # "uninstall"
    BY <1>1, <1>5, OtherCall
  <1>6. CASE svcCall.op = "uninstall" /\ svcCall.answer = "none"
    <2>1. UninstallSoFar
      BY <1>6 DEF SvcInv
    <2>2. \A step \in SvcSteps : LeftNow(step)' => step \in UninstallSteps
      BY <1>4, <2>1 DEF UninstallSoFar
    <2>3. ~LeftNow("unregister")' /\ ~LeftNow("waitRemoval")' => reg'[svcKey] = "absent"
      BY <1>4, <1>6, <2>1 DEF UninstallSoFar, Settles
    <2>4. svcCall.scope = "system" /\ ~LeftNow("removeExe")' => ~managed'
      BY <1>4, <1>6, <2>1 DEF UninstallSoFar, Settles
    <2>5. hostOS = "darwin" /\ ~svcCall'.warned /\ svcCall.via = "api" /\ ~LeftNow("untray")' => ~trayAgent'
      BY <1>1, <1>3, <1>4, <1>6, <2>1 DEF UninstallSoFar, Settles
    <2>6. hostOS = "darwin" /\ ~svcCall'.warned /\ svcCall.via = "cli" /\ ~LeftNow("uncore")' => ~coreJob'
      BY <1>1, <1>3, <1>4, <1>6, <2>1 DEF UninstallSoFar, Settles
    <2>7. UninstallSoFar'
      BY <1>1, <1>2, <2>2, <2>3, <2>4, <2>5, <2>6 DEF UninstallSoFar
    <2> QED
      BY <1>1, <2>7 DEF SvcInv, SvcTypes
  <1> QED
    BY <1>3, <1>5, <1>6

\* The four lists of steps that a call can begin with, and the other ones.
LEMMA UninstallLists ==
  ASSUME NEW scope \in Scopes
  PROVE  /\ ApiUninstall \in Seq(SvcSteps) /\ runServiceUninstall(scope) \in Seq(SvcSteps)
         /\ \A x : Left(ApiUninstall, x) <=>
                     (x \in {"unregister", "removeExe"} \/ (hostOS = "darwin" /\ x = "untray"))
         /\ \A x : Left(runServiceUninstall(scope), x) <=>
                     \/ x \in {"require", "unregister"}
                     \/ scope = "system" /\ x = "removeExe"
                     \/ hostOS = "darwin" /\ x \in {"uncore", "oldTray"}
  <1>0. {"require", "unregister", "removeExe", "untray", "uncore", "oldTray"} \subseteq SvcSteps
    BY DEF SvcSteps
  <1> DEFINE a1 == <<"unregister">>
             a2 == OnDarwin(<<"untray">>)
             a3 == <<"removeExe">>
             c1 == <<"require", "unregister">>
             c2 == SystemWide(scope, <<"removeExe">>)
             c3 == OnDarwin(<<"uncore", "oldTray">>)
  <1>1. /\ a1 \in Seq(SvcSteps) /\ \A x : Left(a1, x) <=> x = "unregister"
        /\ a3 \in Seq(SvcSteps) /\ \A x : Left(a3, x) <=> x = "removeExe"
    BY <1>0, LeftOne
  <1>2. a2 \in Seq(SvcSteps) /\ \A x : Left(a2, x) <=> (hostOS = "darwin" /\ x = "untray")
    <2>1. <<"untray">> \in Seq(SvcSteps) /\ \A x : Left(<<"untray">>, x) <=> x = "untray"
      BY <1>0, LeftOne
    <2> QED
      BY <2>1, LeftOptional
  <1>3. c1 \in Seq(SvcSteps) /\ \A x : Left(c1, x) <=> x \in {"require", "unregister"}
    BY <1>0, LeftTwo
  <1>4. c2 \in Seq(SvcSteps) /\ \A x : Left(c2, x) <=> (scope = "system" /\ x = "removeExe")
    <2>1. <<"removeExe">> \in Seq(SvcSteps) /\ \A x : Left(<<"removeExe">>, x) <=> x = "removeExe"
      BY <1>0, LeftOne
    <2> QED
      BY <2>1, LeftOptional
  <1>5. c3 \in Seq(SvcSteps) /\ \A x : Left(c3, x) <=> (hostOS = "darwin" /\ x \in {"uncore", "oldTray"})
    <2>1. /\ <<"uncore", "oldTray">> \in Seq(SvcSteps)
          /\ \A x : Left(<<"uncore", "oldTray">>, x) <=> x \in {"uncore", "oldTray"}
      BY <1>0, LeftTwo
    <2> QED
      BY <2>1, LeftOptional
  <1>6. ApiUninstall = (a1 \o a2) \o a3 /\ runServiceUninstall(scope) = (c1 \o c2) \o c3
    BY DEF ApiUninstall, runServiceUninstall
  <1> HIDE DEF a1, a2, a3, c1, c2, c3
  <1>7. a1 \o a2 \in Seq(SvcSteps) /\ \A x : Left(a1 \o a2, x) <=> (Left(a1, x) \/ Left(a2, x))
    BY <1>1, <1>2, LeftConcat
  <1>8. (a1 \o a2) \o a3 \in Seq(SvcSteps)
        /\ \A x : Left((a1 \o a2) \o a3, x) <=> (Left(a1 \o a2, x) \/ Left(a3, x))
    BY <1>1, <1>7, LeftConcat
  <1>9. c1 \o c2 \in Seq(SvcSteps) /\ \A x : Left(c1 \o c2, x) <=> (Left(c1, x) \/ Left(c2, x))
    BY <1>3, <1>4, LeftConcat
  <1>10. (c1 \o c2) \o c3 \in Seq(SvcSteps)
        /\ \A x : Left((c1 \o c2) \o c3, x) <=> (Left(c1 \o c2, x) \/ Left(c3, x))
    BY <1>5, <1>9, LeftConcat
  <1>11. \A x : Left(ApiUninstall, x) <=>
                     (x \in {"unregister", "removeExe"} \/ (hostOS = "darwin" /\ x = "untray"))
    BY <1>1, <1>2, <1>6, <1>7, <1>8
  <1>12. \A x : Left(runServiceUninstall(scope), x) <=>
                     \/ x \in {"require", "unregister"}
                     \/ scope = "system" /\ x = "removeExe"
                     \/ hostOS = "darwin" /\ x \in {"uncore", "oldTray"}
    BY <1>3, <1>4, <1>5, <1>6, <1>9, <1>10
  <1> QED
    BY <1>6, <1>8, <1>10, <1>11, <1>12

LEMMA OtherLists ==
  /\ ApiInstall \in Seq(SvcSteps)
  /\ \A startNow \in BOOLEAN : runServiceInstall(startNow) \in Seq(SvcSteps)
  /\ \A op \in {"start", "stop", "restart", "status"} : ControlSteps(op) \in Seq(SvcSteps)
  <1>0. {"prepare", "check", "register", "tray", "status", "core", "oldTray", "start", "stop", "require"}
          \subseteq SvcSteps
    BY DEF SvcSteps
  <1>1. /\ <<"prepare", "check", "register">> \in Seq(SvcSteps)
        /\ <<"check", "prepare", "register">> \in Seq(SvcSteps)
        /\ <<"require", "stop", "start">> \in Seq(SvcSteps)
    BY <1>0, LeftThree
  <1>2. /\ <<"tray">> \in Seq(SvcSteps) /\ <<"status">> \in Seq(SvcSteps) /\ <<"start">> \in Seq(SvcSteps)
        /\ <<"core", "oldTray">> \in Seq(SvcSteps) /\ <<"require", "start">> \in Seq(SvcSteps)
        /\ <<"require", "stop">> \in Seq(SvcSteps) /\ <<>> \in Seq(SvcSteps)
    BY <1>0, LeftOne, LeftTwo
  <1>3. OnDarwin(<<"tray">>) \in Seq(SvcSteps) /\ OnDarwin(<<"core", "oldTray">>) \in Seq(SvcSteps)
    BY <1>2, LeftOptional
  <1>4. ApiInstall \in Seq(SvcSteps)
    BY <1>1, <1>2, <1>3, LeftConcat DEF ApiInstall
  <1>5. \A startNow \in BOOLEAN : runServiceInstall(startNow) \in Seq(SvcSteps)
    <2> TAKE startNow \in BOOLEAN
    <2> DEFINE last == IF startNow THEN <<"start">> ELSE <<>>
    <2>1. last \in Seq(SvcSteps)
      BY <1>2
    <2> HIDE DEF last
    <2>2. <<"check", "prepare", "register">> \o OnDarwin(<<"core", "oldTray">>) \in Seq(SvcSteps)
      BY <1>1, <1>3, LeftConcat
    <2>3. (<<"check", "prepare", "register">> \o OnDarwin(<<"core", "oldTray">>)) \o last \in Seq(SvcSteps)
      BY <2>1, <2>2, LeftConcat
    <2> QED
      BY <2>3 DEF runServiceInstall, last
  <1>6. \A op \in {"start", "stop", "restart", "status"} : ControlSteps(op) \in Seq(SvcSteps)
    BY <1>1, <1>2 DEF ControlSteps
  <1> QED
    BY <1>4, <1>5, <1>6

\* A call begins.  Of an uninstallation, what has to be done is in its list.
LEMMA CallStep ==
  ASSUME SvcInv, NEW via \in {"api", "cli"}, NEW scope \in Scopes,
         NEW op \in {"install", "uninstall", "start", "stop", "restart", "status"},
         NEW steps \in Seq(SvcSteps), Call(via, op, scope, steps),
         op = "uninstall" => \/ via = "api" /\ steps = ApiUninstall
                             \/ via = "cli" /\ steps = runServiceUninstall(scope)
  PROVE  SvcInv'
  <1>1. SvcFiles'
    BY DEF SvcInv, SvcTypes, SvcFiles, Call, KeepFilesOfService, KeepJobs
  <1>2. CASE /\ svcCall'.answer = "failed" /\ svcCall' \in SvcRecords /\ svcCall'.todo = <<>>
    BY <1>1, <1>2 DEF SvcInv, SvcTypes
  <1>3. ASSUME NEW exe \in {"elsewhere", "managed", "service"}, NEW root \in BOOLEAN,
               svcCall' = [via |-> via, op |-> op, scope |-> scope, todo |-> steps,
                           exe |-> exe, root |-> root, warned |-> FALSE, answer |-> "none"]
        PROVE  SvcInv'
    <2>1. /\ svcCall' \in SvcRecords /\ svcCall'.answer = "none" /\ svcCall'.op = op
          /\ svcCall'.todo = steps /\ svcCall'.via = via /\ svcCall'.scope = scope
      BY <1>3 DEF SvcRecords, SvcAnswers
    <2>2. CASE op # "uninstall"
      BY <1>1, <2>1, <2>2, OtherCall
    <2>3. CASE op = "uninstall"
      <3>1. hostOS' = hostOS
        BY DEF Call, KeepFilesOfService
      <3>2. /\ \A x : Left(steps, x) => x \in UninstallSteps
            /\ Left(steps, "unregister") /\ (scope = "system" => Left(steps, "removeExe"))
            /\ hostOS = "darwin" /\ via = "api" => Left(steps, "untray")
            /\ hostOS = "darwin" /\ via = "cli" => Left(steps, "uncore")
        <4>1. CASE via = "api" /\ steps = ApiUninstall
          BY <4>1, UninstallLists DEF UninstallSteps
        <4>2. CASE via = "cli" /\ steps = runServiceUninstall(scope)
          BY <4>2, UninstallLists DEF UninstallSteps
        <4> QED
          BY <2>3, <4>1, <4>2
      <3>3. UninstallSoFar'
        BY <2>1, <3>1, <3>2 DEF UninstallSoFar, LeftNow
      <3> QED
        BY <1>1, <2>1, <3>3 DEF SvcInv, SvcTypes
    <2> QED
      BY <2>2, <2>3
  <1>4. ASSUME svcCall' = [NoSvcCall EXCEPT !.op = op, !.via = via, !.scope = scope, !.answer = "failed"]
        PROVE  SvcInv'
    <2>1. <<>> \in Seq(SvcSteps)
      OBVIOUS
    <2>2. svcCall' \in SvcRecords /\ svcCall'.answer = "failed" /\ svcCall'.todo = <<>>
      BY <1>4, <2>1 DEF SvcRecords, NoSvcCall, SvcAnswers, Scopes
    <2> QED
      BY <1>2, <2>2
  <1> QED
    BY <1>3, <1>4 DEF Call

\* Steps of an installation, and of the commands that control a service.
LEMMA InstallSteps ==
  ASSUME SvcInv, \/ Prepare \/ Register \/ StartOfService \/ StopOfService \/ StatusOfService
                 \/ InstallMacOSCoreService \/ InstallMacOSTrayAgent
  PROVE  SvcInv'
  <1>1. SvcTypes /\ svcCall.todo # <<>> /\ svcCall.todo \in Seq(SvcSteps) /\ svcCall.answer = "none"
    BY DEF SvcInv, SvcTypes, SvcRecords, Due, Prepare, Register, StartOfService, StopOfService,
           StatusOfService, InstallMacOSCoreService, InstallMacOSTrayAgent
  <1>2. Head(svcCall.todo) \in {"prepare", "register", "start", "stop", "status", "core", "tray"}
    BY DEF Due, Prepare, Register, StartOfService, StopOfService, StatusOfService,
           InstallMacOSCoreService, InstallMacOSTrayAgent
  <1>3. svcCall.op # "uninstall"
    <2>1. LeftNow(Head(svcCall.todo)) /\ Head(svcCall.todo) \in SvcSteps
      BY <1>1, LeftTail DEF LeftNow
    <2> QED
      BY <1>1, <1>2, <2>1 DEF SvcInv, UninstallSoFar, UninstallSteps
  <1>4. SvcFiles'
    <2>1. managed' \in BOOLEAN
      <3>1. CASE Prepare
        <4>1. managed' = managed \/ \E e \in ensureManagedExecutable : managed' = e[1]
          BY <3>1 DEF Prepare
        <4>2. ASSUME NEW e \in ensureManagedExecutable PROVE e[1] \in BOOLEAN
          <5>1. \/ e = <<TRUE, TRUE>> \/ e = <<managed, FALSE>> \/ e = <<FALSE, FALSE>>
                \/ e = <<managed, TRUE>>
            BY DEF ensureManagedExecutable, copyExecutableFile
          <5>2. managed \in BOOLEAN
            BY <1>1 DEF SvcTypes, SvcFiles
          <5>3. CASE e = <<TRUE, TRUE>>
            BY <5>3
          <5>4. CASE e = <<managed, FALSE>>
            BY <5>2, <5>4
          <5>5. CASE e = <<FALSE, FALSE>>
            BY <5>5
          <5>6. CASE e = <<managed, TRUE>>
            BY <5>2, <5>6
          <5> QED
            BY <5>1, <5>3, <5>4, <5>5, <5>6
        <4> QED
          BY <1>1, <4>1, <4>2 DEF SvcTypes, SvcFiles
      <3>2. CASE ~Prepare
        BY <1>1, <3>2 DEF Register, StartOfService, StopOfService, StatusOfService, SvcTypes, SvcFiles,
                InstallMacOSCoreService, InstallMacOSTrayAgent, KeepFilesOfService
      <3> QED
        BY <3>1, <3>2
    <2>2. hostOS' = hostOS /\ trayAgent' \in BOOLEAN /\ coreJob' \in BOOLEAN
      BY <1>1 DEF Prepare, Register, StartOfService, StopOfService, StatusOfService, SvcTypes, SvcFiles,
              InstallMacOSCoreService, InstallMacOSTrayAgent, KeepFilesOfService, KeepJobs
    <2>3. reg' \in [Scopes -> Registrations]
      <3>1. CASE Register
        BY <1>1, <3>1 DEF Register, RegisterLinux, RegisterDarwin, RegisterWindows, ExecutablePath,
                SvcTypes, SvcFiles, Registrations
      <3>2. CASE ~Register
        BY <1>1, <3>2 DEF Prepare, StartOfService, StopOfService, StatusOfService, SvcTypes, SvcFiles,
                InstallMacOSCoreService, InstallMacOSTrayAgent
      <3> QED
        BY <3>1, <3>2
    <2> QED
      BY <1>1, <2>1, <2>2, <2>3 DEF SvcTypes, SvcFiles
  <1>5. Fail \/ \E w \in BOOLEAN : Proceed(w)
    BY DEF Prepare, Register, StartOfService, StopOfService, StatusOfService,
           InstallMacOSCoreService, InstallMacOSTrayAgent
  <1>6. CASE Fail
    BY <1>1, <1>4, <1>6, Stops
  <1>7. ASSUME NEW w \in BOOLEAN, Proceed(w) PROVE SvcInv'
    BY <1>1, <1>3, <1>4, <1>7, Proceeds, OtherCall
  <1> QED
    BY <1>5, <1>6, <1>7

\* A reinstallation puts the removal of the service before what is left.
LEMMA CheckStep ==
  ASSUME SvcInv, CheckInstalled
  PROVE  SvcInv'
  <1>1. /\ SvcTypes /\ svcCall.todo # <<>> /\ svcCall.todo \in Seq(SvcSteps) /\ svcCall.answer = "none"
        /\ Head(svcCall.todo) = "check"
    BY DEF SvcInv, SvcTypes, SvcRecords, Due, CheckInstalled
  <1>2. svcCall.op # "uninstall"
    <2>1. LeftNow(Head(svcCall.todo)) /\ Head(svcCall.todo) \in SvcSteps
      BY <1>1, LeftTail DEF LeftNow
    <2> QED
      BY <1>1, <2>1 DEF SvcInv, UninstallSoFar, UninstallSteps
  <1>3. SvcFiles'
    BY <1>1 DEF SvcTypes, SvcFiles, CheckInstalled, KeepFilesOfService, KeepJobs
  <1> DEFINE before == IF IsServiceInstalled THEN <<"unregister">> \o SystemWide(svcCall.scope, <<"removeOld">>)
                       ELSE <<>>
             t == Tail(svcCall.todo)
             ahead == before \o t
  <1>4. ahead \in Seq(SvcSteps)
    <2>1. <<"unregister">> \in Seq(SvcSteps) /\ <<"removeOld">> \in Seq(SvcSteps) /\ <<>> \in Seq(SvcSteps)
      BY LeftOne, LeftNothing DEF SvcSteps
    <2>2. SystemWide(svcCall.scope, <<"removeOld">>) \in Seq(SvcSteps)
      BY <2>1, LeftOptional
    <2>3. <<"unregister">> \o SystemWide(svcCall.scope, <<"removeOld">>) \in Seq(SvcSteps)
      BY <2>1, <2>2, LeftConcat
    <2>4. before \in Seq(SvcSteps) /\ t \in Seq(SvcSteps)
      BY <1>1, <2>1, <2>3, LeftTail
    <2> HIDE DEF before, t
    <2> QED
      BY <2>4, LeftConcat
  <1>5. svcCall' = [svcCall EXCEPT !.todo = ahead]
    BY DEF CheckInstalled
  <1> HIDE DEF ahead
  <1>6. svcCall' \in SvcRecords /\ svcCall'.answer = "none" /\ svcCall'.op = svcCall.op
    BY <1>1, <1>4, <1>5 DEF SvcTypes, SvcRecords
  <1> QED
    BY <1>2, <1>3, <1>6, OtherCall

\* The steps that an uninstallation has too.
LEMMA RemovalSteps ==
  ASSUME SvcInv, \/ removeManagedExecutable \/ RequireInstalled \/ waitForServiceRemoval
                 \/ UninstallMacOSCoreService \/ UninstallMacOSTrayAgent
  PROVE  SvcInv'
  <1>1. SvcTypes /\ SvcFiles /\ svcCall.todo # <<>>
    BY DEF SvcInv, SvcTypes, Due, removeManagedExecutable, RequireInstalled, waitForServiceRemoval,
           UninstallMacOSCoreService, UninstallMacOSTrayAgent
  <1>2. CASE removeManagedExecutable
    <2>1. SvcFiles' /\ hostOS' = hostOS /\ UNCHANGED <<reg, trayAgent, coreJob>>
          /\ Head(svcCall.todo) \in {"removeExe", "removeOld"}
      BY <1>1, <1>2 DEF removeManagedExecutable, SvcFiles, KeepJobs, Due
    <2>2. CASE managed' = FALSE /\ Proceed(FALSE)
      <3>1. Settles(FALSE)
        BY <1>1, <2>1, <2>2 DEF Settles
      <3> QED
        BY <1>1, <2>1, <2>2, <3>1, UninstallGoesOn
    <2>3. CASE managed' = managed /\ Due("removeOld") /\ Proceed(TRUE)
      <3>1. Settles(TRUE)
        BY <1>1, <2>1, <2>3 DEF Settles, Due
      <3> QED
        BY <1>1, <2>1, <2>3, <3>1, UninstallGoesOn
    <2>4. CASE Fail
      BY <1>1, <2>1, <2>4, Stops
    <2> QED
      BY <1>2, <2>2, <2>3, <2>4 DEF removeManagedExecutable
  <1>3. CASE RequireInstalled
    <2>1. SvcFiles' /\ hostOS' = hostOS /\ UNCHANGED <<reg, managed, trayAgent, coreJob>>
          /\ Head(svcCall.todo) = "require"
      BY <1>1, <1>3 DEF RequireInstalled, SvcFiles, KeepJobs, KeepFilesOfService, Due
    <2>2. CASE Proceed(FALSE)
      <3>1. Settles(FALSE)
        BY <1>1, <2>1, <2>2 DEF Settles
      <3> QED
        BY <1>1, <2>1, <2>2, <3>1, UninstallGoesOn
    <2>3. CASE Fail
      BY <1>1, <2>1, <2>3, Stops
    <2> QED
      BY <1>3, <2>2, <2>3 DEF RequireInstalled
  <1>4. CASE waitForServiceRemoval
    <2>1. SvcFiles' /\ hostOS' = hostOS /\ UNCHANGED <<reg, managed, trayAgent, coreJob>>
          /\ Head(svcCall.todo) = "waitRemoval"
      BY <1>1, <1>4 DEF waitForServiceRemoval, SvcFiles, KeepJobs, KeepFilesOfService, Due
    <2>2. CASE reg[svcKey] = "absent" /\ Proceed(FALSE)
      <3>1. Settles(FALSE)
        BY <1>1, <2>1, <2>2 DEF Settles
      <3> QED
        BY <1>1, <2>1, <2>2, <3>1, UninstallGoesOn
    <2>3. CASE Fail
      BY <1>1, <2>1, <2>3, Stops
    <2> QED
      BY <1>4, <2>2, <2>3 DEF waitForServiceRemoval
  <1>5. CASE UninstallMacOSCoreService
    <2>1. SvcFiles' /\ hostOS' = hostOS /\ UNCHANGED <<reg, managed, trayAgent>>
          /\ Head(svcCall.todo) = "uncore"
      BY <1>1, <1>5 DEF UninstallMacOSCoreService, SvcFiles, KeepFilesOfService, Due
    <2>2. CASE Proceed(TRUE)
      <3>1. Settles(TRUE)
        BY <1>1, <2>1, <2>2 DEF Settles
      <3> QED
        BY <1>1, <2>1, <2>2, <3>1, UninstallGoesOn
    <2>3. CASE coreJob' = FALSE /\ Proceed(FALSE)
      <3>1. Settles(FALSE)
        BY <1>1, <2>1, <2>3 DEF Settles
      <3> QED
        BY <1>1, <2>1, <2>3, <3>1, UninstallGoesOn
    <2> QED
      BY <1>5, <2>2, <2>3 DEF UninstallMacOSCoreService
  <1>6. CASE UninstallMacOSTrayAgent
    <2>1. SvcFiles' /\ hostOS' = hostOS /\ UNCHANGED <<reg, managed, coreJob>>
          /\ Head(svcCall.todo) \in {"untray", "oldTray"}
      BY <1>1, <1>6 DEF UninstallMacOSTrayAgent, SvcFiles, KeepFilesOfService, Due
    <2>2. CASE trayAgent' = FALSE /\ Proceed(FALSE)
      <3>1. Settles(FALSE)
        BY <1>1, <2>1, <2>2 DEF Settles
      <3> QED
        BY <1>1, <2>1, <2>2, <3>1, UninstallGoesOn
    <2>3. CASE trayAgent' = trayAgent /\ Due("untray") /\ Proceed(Due("untray"))
      <3>1. Proceed(TRUE)
        BY <2>3 DEF Proceed, Due
      <3>2. Settles(TRUE)
        BY <1>1, <2>1, <3>1 DEF Settles
      <3> QED
        BY <1>1, <2>1, <3>1, <3>2, UninstallGoesOn
    <2>4. CASE trayAgent' = trayAgent /\ ~Due("untray") /\ Proceed(Due("untray"))
      <3>1. Proceed(FALSE) /\ Head(svcCall.todo) # "untray"
        BY <1>1, <2>4 DEF Proceed, Due
      <3>2. Settles(FALSE)
        BY <1>1, <2>1, <2>4, <3>1 DEF Settles
      <3> QED
        BY <1>1, <2>1, <3>1, <3>2, UninstallGoesOn
    <2> QED
      BY <1>6, <2>2, <2>3, <2>4 DEF UninstallMacOSTrayAgent
  <1> QED
    BY <1>2, <1>3, <1>4, <1>5, <1>6

\* The removal of the registration; on Windows the wait for it comes next.
LEMMA UnregisterStep ==
  ASSUME SvcInv, Unregister
  PROVE  SvcInv'
  <1>1. /\ SvcTypes /\ SvcFiles /\ svcCall.todo # <<>> /\ svcCall.todo \in Seq(SvcSteps)
        /\ Head(svcCall.todo) = "unregister" /\ svcCall.answer = "none"
    BY DEF SvcInv, SvcTypes, SvcRecords, Due, Unregister
  <1>2. hostOS' = hostOS /\ UNCHANGED <<managed, trayAgent, coreJob>>
    BY DEF Unregister, KeepFilesOfService, KeepJobs
  <1>3. svcKey \in Scopes
    BY <1>1 DEF svcKey, Key, Scopes, SvcTypes, SvcRecords
  <1>4. \/ reg' = reg \/ reg' = [reg EXCEPT ![svcKey] = "absent"] \/ reg' = [reg EXCEPT ![svcKey] = "marked"]
    BY DEF Unregister, UnregisterLinux, UnregisterDarwin, UnregisterWindows
  <1>5. SvcFiles'
    BY <1>1, <1>2, <1>4 DEF SvcFiles, Registrations
  <1>6. CASE Fail \/ CutOff
    BY <1>1, <1>5, <1>6, Stops
  <1>7. CASE reg' = [reg EXCEPT ![svcKey] = "absent"] /\ Proceed(FALSE)
    <2>1. reg'[svcKey] = "absent"
      BY <1>1, <1>3, <1>7 DEF SvcFiles
    <2>2. Settles(FALSE)
      BY <1>1, <1>2, <2>1 DEF Settles
    <2> QED
      BY <1>1, <1>2, <1>5, <1>7, <2>2, UninstallGoesOn
  <1>8. CASE svcCall' = [svcCall EXCEPT !.todo = <<"waitRemoval">> \o Tail(@)]
    <2> DEFINE t == Tail(svcCall.todo)
               ahead == <<"waitRemoval">> \o t
    <2>1. t \in Seq(SvcSteps) /\ \A x : LeftNow(x) <=> ("unregister" = x \/ Left(t, x))
      BY <1>1, LeftTail DEF LeftNow
    <2>2. /\ <<"waitRemoval">> \in Seq(SvcSteps)
          /\ \A x : Left(<<"waitRemoval">>, x) <=> x = "waitRemoval"
      BY LeftOne DEF SvcSteps
    <2> HIDE DEF t
    <2>3. ahead \in Seq(SvcSteps) /\ \A x : Left(ahead, x) <=> (x = "waitRemoval" \/ Left(t, x))
      BY <2>1, <2>2, LeftConcat
    <2>4. svcCall' = [svcCall EXCEPT !.todo = ahead]
      BY <1>8 DEF t
    <2> HIDE DEF ahead
    <2>5. /\ svcCall' \in SvcRecords /\ svcCall'.todo = ahead /\ svcCall'.answer = "none"
          /\ svcCall'.op = svcCall.op /\ svcCall'.via = svcCall.via /\ svcCall'.scope = svcCall.scope
          /\ svcCall'.warned = svcCall.warned
      BY <1>1, <2>3, <2>4 DEF SvcTypes, SvcRecords
    <2>6. CASE svcCall.op # "uninstall"
      BY <1>5, <2>5, <2>6, OtherCall
    <2>7. CASE svcCall.op = "uninstall"
      <3>1. UninstallSoFar
        BY <1>1, <2>7 DEF SvcInv
      <3>2. \A x : LeftNow(x)' <=> (x = "waitRemoval" \/ Left(t, x))
        BY <2>3, <2>5 DEF LeftNow
      <3>3. \A x \in SvcSteps : LeftNow(x)' => x \in UninstallSteps
        BY <2>1, <3>1, <3>2 DEF UninstallSoFar, UninstallSteps
      <3>4. /\ LeftNow("waitRemoval")'
            /\ \A x \in {"removeExe", "untray", "uncore"} : LeftNow(x)' <=> LeftNow(x)
        BY <2>1, <3>2
      <3>5. UninstallSoFar'
        BY <1>2, <2>5, <3>1, <3>3, <3>4 DEF UninstallSoFar
      <3> QED
        BY <1>5, <2>5, <3>5 DEF SvcInv, SvcTypes
    <2> QED
      BY <2>6, <2>7
  <1> QED
    BY <1>6, <1>7, <1>8 DEF Unregister, UnregisterLinux, UnregisterDarwin, UnregisterWindows

\* The operating system starts and ends processes, and drops what is marked for deletion.
LEMMA ProcessStep ==
  ASSUME SvcInv, NEW scope \in Scopes, ServiceProcess(scope)
  PROVE  SvcInv'
  <1>1. UNCHANGED <<hostOS, managed, trayAgent, coreJob>> /\ SvcTypes /\ SvcFiles
    BY DEF ServiceProcess, KeepFilesOfService, KeepJobs, SvcInv, SvcTypes
  <1>2. reg' = reg \/ reg' = [reg EXCEPT ![scope] = "absent"]
    BY DEF ServiceProcess
  <1>3. SvcFiles'
    BY <1>1, <1>2 DEF SvcFiles, Registrations
  <1>4. CASE CutOff
    BY <1>1, <1>3, <1>4, Stops
  <1>5. CASE svcCall' = svcCall
    <2>1. svcKey' = svcKey /\ svcKey \in Scopes
      BY <1>1, <1>5 DEF svcKey, Key, Scopes, SvcTypes, SvcRecords
    <2>2. reg[svcKey] = "absent" => reg'[svcKey] = "absent"
      BY <1>1, <1>2, <2>1 DEF SvcFiles
    <2>3. UninstallSoFar => UninstallSoFar'
      BY <1>1, <1>5, <2>1, <2>2 DEF UninstallSoFar, LeftNow
    <2> QED
      BY <1>3, <1>5, <2>3 DEF SvcInv, SvcTypes
  <1> QED
    BY <1>4, <1>5 DEF ServiceProcess

\* Every call and every step of it keeps the invariant.
LEMMA SvcInductive == SvcSpec => []SvcInv
  <1>1. SvcInit => SvcInv
    <2> SUFFICES ASSUME SvcInit PROVE SvcInv
      OBVIOUS
    <2>1. <<>> \in Seq(SvcSteps)
      OBVIOUS
    <2>2. svcCall \in SvcRecords /\ svcCall.op = "none" /\ svcCall.todo = <<>>
      BY <2>1 DEF SvcInit, NoSvcCall, SvcRecords, SvcAnswers, Scopes
    <2> QED
      BY <2>2 DEF SvcInit, SvcInv, SvcTypes, SvcFiles, Registrations
  <1>2. SvcInv /\ [SvcNext]_svcVars => SvcInv'
    <2> SUFFICES ASSUME SvcInv, [SvcNext]_svcVars PROVE SvcInv'
      OBVIOUS
    <2>1. CASE UNCHANGED svcVars
      BY <2>1 DEF svcVars, SvcInv, SvcTypes, SvcFiles, UninstallSoFar, LeftNow, svcKey, Key
    <2>2. ASSUME NEW via \in {"api", "cli"}, NEW scope \in Scopes,
                 Call(via, "status", scope, ControlSteps("status"))
          PROVE  SvcInv'
      BY <2>2, OtherLists, CallStep
    <2>3. CASE Call("api", "install", "system", ApiInstall)
      BY <2>3, OtherLists, CallStep DEF Scopes
    <2>4. CASE Call("api", "uninstall", "system", ApiUninstall)
      BY <2>4, UninstallLists, CallStep DEF Scopes
    <2>5. ASSUME NEW scope \in Scopes, NEW startNow \in BOOLEAN,
                 Call("cli", "install", scope, runServiceInstall(startNow))
          PROVE  SvcInv'
      BY <2>5, OtherLists, CallStep
    <2>6. ASSUME NEW scope \in Scopes, Call("cli", "uninstall", scope, runServiceUninstall(scope))
          PROVE  SvcInv'
      BY <2>6, UninstallLists, CallStep
    <2>7. ASSUME NEW op \in {"start", "stop", "restart"}, NEW scope \in Scopes,
                 Call("cli", op, scope, ControlSteps(op))
          PROVE  SvcInv'
      BY <2>7, OtherLists, CallStep
    <2>8. ASSUME NEW scope \in Scopes, ServiceProcess(scope) PROVE SvcInv'
      BY <2>8, ProcessStep
    <2> QED
      BY <2>1, <2>2, <2>3, <2>4, <2>5, <2>6, <2>7, <2>8, InstallSteps, CheckStep, RemovalSteps,
         UnregisterStep DEF SvcNext
  <1> QED
    BY <1>1, <1>2, PTL DEF SvcSpec

\* Whatever calls came before it, on whichever system and in whichever scope: an
\* uninstallation that is answered with success has removed what it is there to remove.
THEOREM UninstallsAreComplete == SvcSpec => []UninstallComplete
  <1>1. SvcInv => UninstallComplete
    <2> SUFFICES ASSUME SvcInv, svcCall.op = "uninstall", svcCall.answer = "ok"
                 PROVE  /\ reg[svcKey] = "absent"
                        /\ svcCall.scope = "system" => ~managed
                        /\ (hostOS = "darwin" /\ ~svcCall.warned) =>
                             IF svcCall.via = "api" THEN ~trayAgent ELSE ~coreJob
      BY DEF UninstallComplete
    <2>1. svcCall.todo = <<>> /\ UninstallSoFar /\ svcCall.via \in {"api", "cli"}
      BY DEF SvcInv, SvcTypes, SvcRecords
    <2>2. \A x : ~LeftNow(x)
      BY <2>1, LeftNothing DEF LeftNow
    <2> QED
      BY <2>1, <2>2 DEF UninstallSoFar
  <1> QED
    BY <1>1, SvcInductive, PTL

\* A call is not left with nothing to do and no answer: what a check leaves is not empty.
LastIsNoCheck(s) == s # <<>> => s[Len(s)] # "check"

CallTyped == (svcCall.answer = "none" => svcCall.todo # <<>>) /\ LastIsNoCheck(svcCall.todo)

SvcTyped ==
  /\ CallTyped /\ managedConfig \in BOOLEAN
  /\ proc \in [Scopes -> {"stopped", "activating", "running"}]

LEMMA NothingLeft == ASSUME NEW s \in Seq(SvcSteps) PROVE s = <<>> <=> Len(s) = 0
  BY EmptySeq

LEMMA LastOfTail ==
  ASSUME NEW s \in Seq(SvcSteps), s # <<>>, LastIsNoCheck(s)
  PROVE  LastIsNoCheck(Tail(s)) /\ (Head(s) = "check" => Tail(s) # <<>>)
  <1>1. /\ Len(s) \in Nat \ {0} /\ Head(s) = s[1] /\ Tail(s) \in Seq(SvcSteps)
        /\ Len(Tail(s)) = Len(s) - 1 /\ \A i \in 1 .. Len(s) - 1 : Tail(s)[i] = s[i + 1]
    BY EmptySeq, HeadTailProperties
  <1>2. CASE Len(s) = 1
    <2> DEFINE t == Tail(s)
    <2>0. t \in Seq(SvcSteps) /\ Len(t) = 0
      BY <1>1, <1>2
    <2> HIDE DEF t
    <2>1. t = <<>>
      BY <2>0, NothingLeft
    <2> USE DEF t
    <2> QED
      BY <1>1, <1>2, <2>1 DEF LastIsNoCheck
  <1>3. CASE Len(s) # 1
    <2>1. Len(s) - 1 \in 1 .. Len(s) - 1 /\ (Len(s) - 1) + 1 = Len(s)
      BY <1>1, <1>3
    <2>2. Tail(s)[Len(Tail(s))] = s[Len(s)] /\ Len(Tail(s)) # 0
      BY <1>1, <2>1
    <2>3. Tail(s) # <<>>
      BY <1>1, <2>2, NothingLeft
    <2> QED
      BY <2>2, <2>3 DEF LastIsNoCheck
  <1> QED
    BY <1>2, <1>3

LEMMA LastOfConcat ==
  ASSUME NEW s \in Seq(SvcSteps), NEW t \in Seq(SvcSteps)
  PROVE  /\ t # <<>> /\ LastIsNoCheck(t) => LastIsNoCheck(s \o t) /\ s \o t # <<>>
         /\ LastIsNoCheck(s) /\ LastIsNoCheck(t) => LastIsNoCheck(s \o t)
         /\ s # <<>> => s \o t # <<>>
  <1>1. /\ s \o t \in Seq(SvcSteps) /\ Len(s \o t) = Len(s) + Len(t) /\ Len(s) \in Nat /\ Len(t) \in Nat
        /\ \A i \in 1 .. Len(s) + Len(t) : (s \o t)[i] = IF i <= Len(s) THEN s[i] ELSE t[i - Len(s)]
    BY ConcatProperties, LenProperties
  <1>2. CASE t = <<>>
    <2>1. s \o t = s
      BY <1>2, ConcatEmptySeq
    <2> QED
      BY <1>2, <2>1
  <1>3. CASE t # <<>>
    <2>1. Len(t) # 0
      BY <1>3, NothingLeft
    <2>2. /\ Len(s) + Len(t) \in 1 .. Len(s) + Len(t) /\ ~(Len(s) + Len(t) <= Len(s))
          /\ Len(s) + Len(t) - Len(s) = Len(t) /\ Len(s) + Len(t) # 0
      BY <1>1, <2>1
    <2>3. (s \o t)[Len(s \o t)] = t[Len(t)] /\ Len(s \o t) # 0
      BY <1>1, <2>2
    <2>4. s \o t # <<>>
      BY <1>1, <2>3, NothingLeft
    <2> QED
      BY <1>3, <2>3, <2>4 DEF LastIsNoCheck
  <1> QED
    BY <1>2, <1>3

\* No list of steps ends with the check, and none is empty.
LEMMA ListsEnd ==
  /\ LastIsNoCheck(ApiInstall) /\ ApiInstall # <<>>
  /\ LastIsNoCheck(ApiUninstall) /\ ApiUninstall # <<>>
  /\ \A startNow \in BOOLEAN : LastIsNoCheck(runServiceInstall(startNow)) /\ runServiceInstall(startNow) # <<>>
  /\ \A scope \in Scopes : LastIsNoCheck(runServiceUninstall(scope)) /\ runServiceUninstall(scope) # <<>>
  /\ \A op \in {"start", "stop", "restart", "status"} :
        LastIsNoCheck(ControlSteps(op)) /\ ControlSteps(op) # <<>>
  <1>0. <<>> \in Seq(SvcSteps) /\ LastIsNoCheck(<<>>)
    BY DEF LastIsNoCheck
  <1>s. /\ {"prepare", "check", "register", "unregister", "removeExe", "require", "start", "stop"}
             \subseteq SvcSteps
        /\ {"status", "core", "uncore", "tray", "untray", "oldTray"} \subseteq SvcSteps
    BY DEF SvcSteps
  <1>1. ASSUME NEW a \in SvcSteps, a # "check"
        PROVE  <<a>> \in Seq(SvcSteps) /\ LastIsNoCheck(<<a>>) /\ <<a>> # <<>>
    BY <1>1 DEF LastIsNoCheck
  <1>2. ASSUME NEW a \in SvcSteps, NEW b \in SvcSteps, b # "check"
        PROVE  <<a, b>> \in Seq(SvcSteps) /\ LastIsNoCheck(<<a, b>>) /\ <<a, b>> # <<>>
    BY <1>2 DEF LastIsNoCheck
  <1>3. ASSUME NEW a \in SvcSteps, NEW b \in SvcSteps, NEW c \in SvcSteps, c # "check"
        PROVE  <<a, b, c>> \in Seq(SvcSteps) /\ LastIsNoCheck(<<a, b, c>>) /\ <<a, b, c>> # <<>>
    BY <1>3 DEF LastIsNoCheck
  <1>4. ASSUME NEW s \in Seq(SvcSteps), LastIsNoCheck(s), NEW scope
        PROVE  /\ OnDarwin(s) \in Seq(SvcSteps) /\ LastIsNoCheck(OnDarwin(s))
               /\ SystemWide(scope, s) \in Seq(SvcSteps) /\ LastIsNoCheck(SystemWide(scope, s))
    BY <1>0, <1>4 DEF OnDarwin, SystemWide
  <1>5. ASSUME NEW s \in Seq(SvcSteps), LastIsNoCheck(s), NEW t \in Seq(SvcSteps), LastIsNoCheck(t)
        PROVE  /\ s \o t \in Seq(SvcSteps) /\ LastIsNoCheck(s \o t)
               /\ (s # <<>> \/ t # <<>>) => s \o t # <<>>
    BY <1>5, LastOfConcat, LeftConcat
  <1>6. LastIsNoCheck(ApiInstall) /\ ApiInstall # <<>>
    <2> DEFINE a == <<"prepare", "check", "register">>
               b == OnDarwin(<<"tray">>)
               c == <<"status">>
    <2>1. a \in Seq(SvcSteps) /\ LastIsNoCheck(a) /\ a # <<>> /\ c \in Seq(SvcSteps) /\ LastIsNoCheck(c)
      BY <1>1, <1>3, <1>s
    <2>2. <<"tray">> \in Seq(SvcSteps) /\ LastIsNoCheck(<<"tray">>)
      BY <1>1, <1>s
    <2>3. b \in Seq(SvcSteps) /\ LastIsNoCheck(b)
      BY <1>4, <2>2
    <2>4. ApiInstall = (a \o b) \o c
      BY DEF ApiInstall
    <2> HIDE DEF a, b, c
    <2>5. a \o b \in Seq(SvcSteps) /\ LastIsNoCheck(a \o b) /\ a \o b # <<>>
      BY <1>5, <2>1, <2>3
    <2> QED
      BY <1>5, <2>1, <2>4, <2>5
  <1>7. LastIsNoCheck(ApiUninstall) /\ ApiUninstall # <<>>
    <2> DEFINE a == <<"unregister">>
               b == OnDarwin(<<"untray">>)
               c == <<"removeExe">>
    <2>1. a \in Seq(SvcSteps) /\ LastIsNoCheck(a) /\ a # <<>> /\ c \in Seq(SvcSteps) /\ LastIsNoCheck(c)
      BY <1>1, <1>s
    <2>2. <<"untray">> \in Seq(SvcSteps) /\ LastIsNoCheck(<<"untray">>)
      BY <1>1, <1>s
    <2>3. b \in Seq(SvcSteps) /\ LastIsNoCheck(b)
      BY <1>4, <2>2
    <2>4. ApiUninstall = (a \o b) \o c
      BY DEF ApiUninstall
    <2> HIDE DEF a, b, c
    <2>5. a \o b \in Seq(SvcSteps) /\ LastIsNoCheck(a \o b) /\ a \o b # <<>>
      BY <1>5, <2>1, <2>3
    <2> QED
      BY <1>5, <2>1, <2>4, <2>5
  <1>8. ASSUME NEW startNow \in BOOLEAN
        PROVE  LastIsNoCheck(runServiceInstall(startNow)) /\ runServiceInstall(startNow) # <<>>
    <2> DEFINE a == <<"check", "prepare", "register">>
               b == OnDarwin(<<"core", "oldTray">>)
               c == IF startNow THEN <<"start">> ELSE <<>>
    <2>1. a \in Seq(SvcSteps) /\ LastIsNoCheck(a) /\ a # <<>>
      BY <1>3, <1>s
    <2>2. <<"core", "oldTray">> \in Seq(SvcSteps) /\ LastIsNoCheck(<<"core", "oldTray">>)
      BY <1>2, <1>s
    <2>3. b \in Seq(SvcSteps) /\ LastIsNoCheck(b)
      BY <1>4, <2>2
    <2>4. <<"start">> \in Seq(SvcSteps) /\ LastIsNoCheck(<<"start">>)
      BY <1>1, <1>s
    <2>5. c \in Seq(SvcSteps) /\ LastIsNoCheck(c)
      BY <1>0, <2>4
    <2>6. runServiceInstall(startNow) = (a \o b) \o c
      BY DEF runServiceInstall
    <2> HIDE DEF a, b, c
    <2>7. a \o b \in Seq(SvcSteps) /\ LastIsNoCheck(a \o b) /\ a \o b # <<>>
      BY <1>5, <2>1, <2>3
    <2> QED
      BY <1>5, <2>5, <2>6, <2>7
  <1>9. ASSUME NEW scope \in Scopes
        PROVE  LastIsNoCheck(runServiceUninstall(scope)) /\ runServiceUninstall(scope) # <<>>
    <2> DEFINE a == <<"require", "unregister">>
               b == SystemWide(scope, <<"removeExe">>)
               c == OnDarwin(<<"uncore", "oldTray">>)
    <2>1. a \in Seq(SvcSteps) /\ LastIsNoCheck(a) /\ a # <<>>
      BY <1>2, <1>s
    <2>2. <<"uncore", "oldTray">> \in Seq(SvcSteps) /\ LastIsNoCheck(<<"uncore", "oldTray">>)
      BY <1>2, <1>s
    <2>3. <<"removeExe">> \in Seq(SvcSteps) /\ LastIsNoCheck(<<"removeExe">>)
      BY <1>1, <1>s
    <2>4. b \in Seq(SvcSteps) /\ LastIsNoCheck(b) /\ c \in Seq(SvcSteps) /\ LastIsNoCheck(c)
      BY <1>4, <2>2, <2>3
    <2>5. runServiceUninstall(scope) = (a \o b) \o c
      BY DEF runServiceUninstall
    <2> HIDE DEF a, b, c
    <2>6. a \o b \in Seq(SvcSteps) /\ LastIsNoCheck(a \o b) /\ a \o b # <<>>
      BY <1>5, <2>1, <2>4
    <2> QED
      BY <1>5, <2>4, <2>5, <2>6
  <1>10. ASSUME NEW op \in {"start", "stop", "restart", "status"}
         PROVE  LastIsNoCheck(ControlSteps(op)) /\ ControlSteps(op) # <<>>
    <2>1. ControlSteps(op) \in {<<"require", "start">>, <<"require", "stop">>,
                                <<"require", "stop", "start">>, <<"status">>}
      BY DEF ControlSteps
    <2>2. /\ LastIsNoCheck(<<"require", "start">>) /\ <<"require", "start">> # <<>>
          /\ LastIsNoCheck(<<"require", "stop">>) /\ <<"require", "stop">> # <<>>
      BY <1>2, <1>s
    <2>3. LastIsNoCheck(<<"require", "stop", "start">>) /\ <<"require", "stop", "start">> # <<>>
      BY <1>3, <1>s
    <2>4. LastIsNoCheck(<<"status">>) /\ <<"status">> # <<>>
      BY <1>1, <1>s
    <2> QED
      BY <2>1, <2>2, <2>3, <2>4
  <1> QED
    BY <1>6, <1>7, <1>8, <1>9, <1>10

\* A step of a call.
LEMMA CallMoves ==
  ASSUME SvcInv, CallTyped,
         \/ svcCall' = svcCall
         \/ svcCall.todo # <<>> /\ (Fail \/ CutOff \/ \E w \in BOOLEAN : Proceed(w))
  PROVE  CallTyped'
  <1>0. SvcTypes /\ svcCall \in SvcRecords /\ svcCall.todo \in Seq(SvcSteps)
    BY DEF SvcInv, SvcTypes, SvcRecords
  <1>1. CASE svcCall' = svcCall
    BY <1>1 DEF CallTyped
  <1>2. CASE Fail \/ CutOff
    BY <1>0, <1>2 DEF Fail, CutOff, CallTyped, LastIsNoCheck, SvcRecords
  <1>3. ASSUME svcCall.todo # <<>>, NEW w \in BOOLEAN, Proceed(w) PROVE CallTyped'
    <2>1. svcCall'.todo = Tail(svcCall.todo)
      BY <1>0, <1>3, Proceeds
    <2>2. svcCall'.answer = IF Tail(svcCall.todo) = <<>> THEN "ok" ELSE "none"
      BY <1>0, <1>3 DEF Proceed, SvcRecords
    <2>3. LastIsNoCheck(Tail(svcCall.todo))
      BY <1>0, <1>3, LastOfTail DEF CallTyped
    <2> QED
      BY <2>1, <2>2, <2>3 DEF CallTyped
  <1> QED
    BY <1>1, <1>2, <1>3

\* A step that puts others before what is left.
LEMMA CallPrepends ==
  ASSUME SvcInv, CallTyped, svcCall.todo # <<>>, NEW before \in Seq(SvcSteps), LastIsNoCheck(before),
         before # <<>> \/ Tail(svcCall.todo) # <<>>,
         svcCall' = [svcCall EXCEPT !.todo = before \o Tail(svcCall.todo)]
  PROVE  CallTyped'
  <1>0. svcCall \in SvcRecords /\ svcCall.todo \in Seq(SvcSteps)
    BY DEF SvcInv, SvcTypes, SvcRecords
  <1>1. Tail(svcCall.todo) \in Seq(SvcSteps) /\ LastIsNoCheck(Tail(svcCall.todo))
    BY <1>0, LeftTail, LastOfTail DEF CallTyped
  <1> DEFINE ahead == before \o Tail(svcCall.todo)
  <1>2. ahead # <<>> /\ LastIsNoCheck(ahead)
    BY <1>1, LastOfConcat
  <1> HIDE DEF ahead
  <1>3. svcCall'.todo = ahead
    BY <1>0 DEF ahead, SvcRecords
  <1> QED
    BY <1>2, <1>3 DEF CallTyped

\* A call begins.
LEMMA CallBegins ==
  ASSUME NEW via, NEW scope, NEW op, NEW steps, Call(via, op, scope, steps), LastIsNoCheck(steps), steps # <<>>
  PROVE  CallTyped'
  <1>1. CASE \E exe, root : svcCall' = [via |-> via, op |-> op, scope |-> scope, todo |-> steps,
                                        exe |-> exe, root |-> root, warned |-> FALSE, answer |-> "none"]
    BY <1>1 DEF CallTyped
  <1>2. CASE svcCall' = [NoSvcCall EXCEPT !.op = op, !.via = via, !.scope = scope, !.answer = "failed"]
    <2>1. svcCall'.todo = <<>> /\ svcCall'.answer = "failed"
      BY <1>2 DEF NoSvcCall
    <2> QED
      BY <2>1 DEF CallTyped, LastIsNoCheck
  <1> QED
    BY <1>1, <1>2 DEF Call

\* The steps of a call but those that put others before what is left.
LEMMA PlainSteps ==
  ASSUME SvcInv, SvcTyped,
         \/ Prepare \/ removeManagedExecutable \/ RequireInstalled \/ Register \/ waitForServiceRemoval
         \/ StartOfService \/ StopOfService \/ StatusOfService
         \/ InstallMacOSCoreService \/ UninstallMacOSCoreService
         \/ InstallMacOSTrayAgent \/ UninstallMacOSTrayAgent
  PROVE  SvcTyped'
  <1>0. /\ svcKey \in Scopes /\ managedConfig \in BOOLEAN
        /\ proc \in [Scopes -> {"stopped", "activating", "running"}]
    BY DEF SvcInv, SvcTypes, SvcRecords, svcKey, Key, Scopes, SvcTyped
  <1>1. svcCall.todo # <<>> /\ (Fail \/ \E w \in BOOLEAN : Proceed(w))
    <2>1. svcCall.todo # <<>>
      BY DEF Due, Prepare, removeManagedExecutable, RequireInstalled, Register, waitForServiceRemoval,
             StartOfService, StopOfService, StatusOfService, InstallMacOSCoreService,
             UninstallMacOSCoreService, InstallMacOSTrayAgent, UninstallMacOSTrayAgent
    <2>2. Proceed(FALSE) \/ Proceed(TRUE) => \E w \in BOOLEAN : Proceed(w)
      OBVIOUS
    <2>3. CASE \/ Prepare \/ removeManagedExecutable \/ RequireInstalled \/ Register
               \/ waitForServiceRemoval
      <3>1. Fail \/ Proceed(FALSE) \/ Proceed(TRUE)
        BY <2>3 DEF Prepare, removeManagedExecutable, RequireInstalled, Register, waitForServiceRemoval
      <3> QED
        BY <2>1, <2>2, <3>1
    <2>4. CASE \/ StartOfService \/ StopOfService \/ StatusOfService \/ InstallMacOSCoreService
               \/ UninstallMacOSCoreService \/ InstallMacOSTrayAgent
      <3>1. Fail \/ Proceed(FALSE) \/ Proceed(TRUE)
        BY <2>4 DEF StartOfService, StopOfService, StatusOfService, InstallMacOSCoreService,
               UninstallMacOSCoreService, InstallMacOSTrayAgent
      <3> QED
        BY <2>1, <2>2, <3>1
    <2>5. CASE UninstallMacOSTrayAgent
      <3>1. CASE Due("untray")
        <4>1. Proceed(TRUE) \/ Proceed(FALSE)
          BY <2>5, <3>1 DEF UninstallMacOSTrayAgent, Proceed, Due
        <4> QED
          BY <2>1, <2>2, <4>1
      <3>2. CASE ~Due("untray")
        <4>1. Proceed(FALSE)
          BY <2>5, <3>2 DEF UninstallMacOSTrayAgent, Proceed, Due
        <4> QED
          BY <2>1, <2>2, <4>1
      <3> QED
        BY <3>1, <3>2
    <2> QED
      BY <2>1, <2>3, <2>4, <2>5
  <1>2. CallTyped'
    BY <1>1, CallMoves DEF SvcTyped
  <1>3. managedConfig' \in BOOLEAN
    <2>1. CASE Prepare
      <3>1. managedConfig' = managedConfig \/ \E c \in ensureManagedSystemServiceConfigPath : managedConfig' = c[1]
        BY <2>1 DEF Prepare
      <3>2. ASSUME NEW c \in ensureManagedSystemServiceConfigPath PROVE c[1] \in BOOLEAN
        <4>1. c = <<TRUE, TRUE>> \/ c = <<FALSE, TRUE>> \/ c = <<FALSE, FALSE>>
          BY DEF ensureManagedSystemServiceConfigPath
        <4>2. CASE c = <<TRUE, TRUE>>
          BY <4>2
        <4>3. CASE c = <<FALSE, TRUE>>
          BY <4>3
        <4>4. CASE c = <<FALSE, FALSE>>
          BY <4>4
        <4> QED
          BY <4>1, <4>2, <4>3, <4>4
      <3> QED
        BY <1>0, <3>1, <3>2
    <2>2. CASE ~Prepare
      BY <1>0, <2>2 DEF removeManagedExecutable, RequireInstalled, Register, waitForServiceRemoval,
         StartOfService, StopOfService, StatusOfService, InstallMacOSCoreService, KeepFilesOfService,
         UninstallMacOSCoreService, InstallMacOSTrayAgent, UninstallMacOSTrayAgent
    <2> QED
      BY <2>1, <2>2
  <1>4. proc' \in [Scopes -> {"stopped", "activating", "running"}]
    <2>1. CASE proc' = proc
      BY <1>0, <2>1
    <2>2. CASE Register
      BY <1>0, <2>2 DEF Register, RegisterLinux, RegisterDarwin, RegisterWindows
    <2>3. CASE StartOfService
      BY <1>0, <2>3 DEF StartOfService
    <2>4. CASE StopOfService
      BY <1>0, <2>4 DEF StopOfService, Stopped
    <2> QED
      BY <2>1, <2>2, <2>3, <2>4 DEF Prepare, removeManagedExecutable, RequireInstalled, waitForServiceRemoval,
         StatusOfService, InstallMacOSCoreService, UninstallMacOSCoreService, InstallMacOSTrayAgent,
         UninstallMacOSTrayAgent
  <1> QED
    BY <1>2, <1>3, <1>4 DEF SvcTyped

LEMMA UnregisterTyped ==
  ASSUME SvcInv, SvcTyped, Unregister
  PROVE  SvcTyped'
  <1>0. /\ svcKey \in Scopes /\ managedConfig' \in BOOLEAN /\ svcCall.todo # <<>>
        /\ proc \in [Scopes -> {"stopped", "activating", "running"}] /\ CallTyped
    BY DEF SvcInv, SvcTypes, SvcRecords, svcKey, Key, Scopes, SvcTyped, Unregister, KeepFilesOfService, Due
  <1>1. proc' = proc \/ Stopped(svcKey)
    BY DEF Unregister, UnregisterLinux, UnregisterDarwin, UnregisterWindows
  <1>2. proc' \in [Scopes -> {"stopped", "activating", "running"}]
    BY <1>0, <1>1 DEF Stopped
  <1>3. \/ Fail \/ CutOff \/ \E w \in BOOLEAN : Proceed(w)
        \/ svcCall' = [svcCall EXCEPT !.todo = <<"waitRemoval">> \o Tail(@)]
    BY DEF Unregister, UnregisterLinux, UnregisterDarwin, UnregisterWindows
  <1>4. CallTyped'
    <2>1. CASE Fail \/ CutOff \/ \E w \in BOOLEAN : Proceed(w)
      BY <1>0, <2>1, CallMoves
    <2>2. CASE svcCall' = [svcCall EXCEPT !.todo = <<"waitRemoval">> \o Tail(@)]
      <3> DEFINE before == <<"waitRemoval">>
      <3>1. before \in Seq(SvcSteps) /\ LastIsNoCheck(before) /\ before # <<>>
        BY DEF SvcSteps, LastIsNoCheck
      <3>2. svcCall' = [svcCall EXCEPT !.todo = before \o Tail(svcCall.todo)]
        BY <2>2
      <3> HIDE DEF before
      <3> QED
        BY <1>0, <3>1, <3>2, CallPrepends
    <2> QED
      BY <1>3, <2>1, <2>2
  <1> QED
    BY <1>0, <1>2, <1>4 DEF SvcTyped

LEMMA CheckTyped ==
  ASSUME SvcInv, SvcTyped, CheckInstalled
  PROVE  SvcTyped'
  <1>0. /\ svcCall.todo # <<>> /\ svcCall.todo \in Seq(SvcSteps) /\ Head(svcCall.todo) = "check" /\ CallTyped
    BY DEF SvcInv, SvcTypes, SvcRecords, SvcTyped, CheckInstalled, Due
  <1> DEFINE before == IF IsServiceInstalled THEN <<"unregister">> \o SystemWide(svcCall.scope, <<"removeOld">>)
                       ELSE <<>>
  <1>1. before \in Seq(SvcSteps) /\ LastIsNoCheck(before)
    <2>1. /\ <<"unregister">> \in Seq(SvcSteps) /\ <<"removeOld">> \in Seq(SvcSteps) /\ <<>> \in Seq(SvcSteps)
          /\ LastIsNoCheck(<<"unregister">>) /\ LastIsNoCheck(<<"removeOld">>) /\ LastIsNoCheck(<<>>)
      BY DEF SvcSteps, LastIsNoCheck
    <2>2. /\ SystemWide(svcCall.scope, <<"removeOld">>) \in Seq(SvcSteps)
          /\ LastIsNoCheck(SystemWide(svcCall.scope, <<"removeOld">>))
      BY <2>1 DEF SystemWide
    <2> QED
      BY <2>1, <2>2, LeftConcat, LastOfConcat
  <1>2. Tail(svcCall.todo) # <<>>
    BY <1>0, LastOfTail DEF CallTyped
  <1>3. svcCall' = [svcCall EXCEPT !.todo = before \o Tail(svcCall.todo)]
    BY DEF CheckInstalled
  <1> HIDE DEF before
  <1>4. CallTyped'
    BY <1>0, <1>1, <1>2, <1>3, CallPrepends
  <1> QED
    BY <1>4 DEF SvcTyped, CheckInstalled, KeepFilesOfService

LEMMA ProcessTyped ==
  ASSUME SvcInv, SvcTyped, NEW scope \in Scopes, ServiceProcess(scope)
  PROVE  SvcTyped'
  <1>1. CallTyped'
    BY CallMoves DEF ServiceProcess, SvcTyped
  <1>2. proc' \in [Scopes -> {"stopped", "activating", "running"}]
    BY DEF ServiceProcess, SvcTyped, Stopped
  <1> QED
    BY <1>1, <1>2 DEF ServiceProcess, SvcTyped, KeepFilesOfService

LEMMA SvcStepTyped == SvcInv /\ SvcTyped /\ [SvcNext]_svcVars => SvcTyped'
  <1> SUFFICES ASSUME SvcInv, SvcTyped, [SvcNext]_svcVars PROVE SvcTyped'
    OBVIOUS
  <1>c. ASSUME NEW via, NEW scope, NEW op, NEW steps, Call(via, op, scope, steps),
               LastIsNoCheck(steps), steps # <<>>
        PROVE  SvcTyped'
    BY <1>c, CallBegins DEF SvcTyped, Call, KeepFilesOfService
  <1>1. CASE UNCHANGED svcVars
    BY <1>1 DEF svcVars, SvcTyped, CallTyped
  <1>2. ASSUME NEW via, NEW scope, Call(via, "status", scope, ControlSteps("status"))
        PROVE  SvcTyped'
    BY <1>c, <1>2, ListsEnd
  <1>3. CASE Call("api", "install", "system", ApiInstall)
    BY <1>c, <1>3, ListsEnd
  <1>4. CASE Call("api", "uninstall", "system", ApiUninstall)
    BY <1>c, <1>4, ListsEnd
  <1>5. ASSUME NEW scope \in Scopes, NEW startNow \in BOOLEAN,
               Call("cli", "install", scope, runServiceInstall(startNow))
        PROVE  SvcTyped'
    BY <1>c, <1>5, ListsEnd
  <1>6. ASSUME NEW scope \in Scopes, Call("cli", "uninstall", scope, runServiceUninstall(scope))
        PROVE  SvcTyped'
    BY <1>c, <1>6, ListsEnd
  <1>7. ASSUME NEW op \in {"start", "stop", "restart"}, NEW scope \in Scopes,
               Call("cli", op, scope, ControlSteps(op))
        PROVE  SvcTyped'
    BY <1>c, <1>7, ListsEnd
  <1>8. ASSUME NEW scope \in Scopes, ServiceProcess(scope) PROVE SvcTyped'
    BY <1>8, ProcessTyped
  <1> QED
    BY <1>1, <1>2, <1>3, <1>4, <1>5, <1>6, <1>7, <1>8, PlainSteps, UnregisterTyped, CheckTyped
    DEF SvcNext

\* A call of the service is under way exactly as long as it has no answer, whatever steps its
\* checks and removals put before what is left, and every part keeps its type.
THEOREM ServiceTypeCorrect == SvcSpec => []SvcTypeOK
  <1>1. SvcInit => SvcTyped
    BY DEF SvcInit, SvcTyped, CallTyped, LastIsNoCheck, NoSvcCall
  <1>2. SvcInv /\ SvcTyped => SvcTypeOK
    <2> SUFFICES ASSUME SvcInv, SvcTyped PROVE SvcTypeOK
      OBVIOUS
    <2>1. /\ svcCall.root \in BOOLEAN /\ svcCall.warned \in BOOLEAN /\ svcCall.answer \in SvcAnswers
          /\ SvcTypes /\ SvcFiles
      BY DEF SvcInv, SvcTypes, SvcRecords
    <2> QED
      BY <2>1 DEF SvcTypes, SvcFiles, SvcTyped, CallTyped, SvcTypeOK
  <1> QED
    BY <1>1, <1>2, SvcInductive, SvcStepTyped, PTL DEF SvcSpec

-----------------------------------------------------------------------------
(* The configurations of other programs.                                      *)

Less == {p \in Nat \X Nat : p[1] < p[2]}

LEMMA LessWellFounded == IsWellFoundedOn(Less, Nat)
  <1>1. OpToRel(<, Nat) = Less
    BY DEF OpToRel, Less
  <1> QED
    BY <1>1, NatLessThanWellFounded, Zenon

\* Induction over the rows of a batch: a set with 0 and the successors of its members.
LEMMA InductionOnSets ==
  ASSUME NEW T, 0 \in T, \A n \in Nat : n \in T => n + 1 \in T
  PROVE  Nat \subseteq T
  <1> DEFINE U == Nat \ T
  <1>1. ASSUME U # {}
        PROVE  FALSE
    <2>1. PICK m \in U : \A k \in U : ~(<<k, m>> \in Less)
      <3>1. U \in SUBSET Nat
        OBVIOUS
      <3> HIDE DEF U
      <3> QED
        BY <1>1, <3>1, WFMin, LessWellFounded
    <2>2. \A j, k \in Nat : j < k => <<j, k>> \in Less
      BY DEF Less
    <2>3. m \in Nat /\ m # 0 /\ m - 1 \in Nat /\ m - 1 < m /\ (m - 1) + 1 = m
      BY <2>1
    <2>4. <<m - 1, m>> \in Less
      BY <2>2, <2>3
    <2>5. m - 1 \in T
      BY <2>1, <2>3, <2>4
    <2> QED
      BY <2>1, <2>3, <2>5
  <1> QED
    BY <1>1

SyncRows == [software : Softwares \cup {"none"}, inUse : BOOLEAN, selected : BOOLEAN, updated : Nat]
Tables == [Uuids -> SyncRows]

\* At most one row of a program is in use, for a value of the table.
OneUse(t) ==
  \A u, v \in Uuids :
    (t[u].inUse /\ t[v].inUse /\ t[u].software = t[v].software) => u = v

SyncInv ==
  /\ rows \in Tables /\ OneUse(rows) /\ cloud \in Tables /\ syncClock \in Nat
  /\ DOMAIN syncs = SyncCalls /\ \A c \in SyncCalls : syncs[c].batch \in Tables

LEMMA NoRowType == NoRow \in SyncRows /\ NoRow.inUse = FALSE /\ NoTable \in Tables /\ OneUse(NoTable)
  <1>1. NoRow \in SyncRows /\ NoRow.inUse = FALSE
    BY DEF NoRow, SyncRows
  <1>2. NoTable \in Tables /\ \A u \in Uuids : NoTable[u] = NoRow
    BY <1>1 DEF NoTable, Tables
  <1> QED
    BY <1>1, <1>2 DEF OneUse

LEMMA StampType ==
  ASSUME syncClock \in Nat, NEW r \in SyncRows
  PROVE  Stamp(r) \in SyncRows /\ Stamp(r).inUse = r.inUse /\ Stamp(r).software = r.software
  BY DEF Stamp, SyncRows

\* A row is written: it is in use only if no other of its program is.
LEMMA RowWritten ==
  ASSUME NEW t \in Tables, OneUse(t), NEW u \in Uuids, NEW r \in SyncRows,
         r.inUse => \A v \in Uuids \ {u} : ~(t[v].inUse /\ t[v].software = r.software)
  PROVE  [t EXCEPT ![u] = r] \in Tables /\ OneUse([t EXCEPT ![u] = r])
  <1> DEFINE s == [t EXCEPT ![u] = r]
  <1>1. s \in Tables /\ s[u] = r /\ \A v \in Uuids \ {u} : s[v] = t[v]
    BY DEF Tables
  <1> HIDE DEF s
  <1>2. ASSUME NEW v \in Uuids, NEW w \in Uuids, s[v].inUse, s[w].inUse, s[v].software = s[w].software
        PROVE  v = w
    <2>1. CASE v = u /\ w # u
      BY <1>1, <1>2, <2>1
    <2>2. CASE v # u /\ w = u
      BY <1>1, <1>2, <2>2
    <2>3. CASE v # u /\ w # u
      BY <1>1, <1>2, <2>3 DEF OneUse
    <2> QED
      BY <2>1, <2>2, <2>3
  <1>3. OneUse(s)
    BY <1>2 DEF OneUse
  <1> QED
    BY <1>1, <1>3 DEF s

LEMMA Cleared ==
  ASSUME syncClock \in Nat, NEW t \in Tables, OneUse(t), NEW s
  PROVE  /\ ClearInUse(t, s) \in Tables /\ OneUse(ClearInUse(t, s))
         /\ \A v \in Uuids : ~(ClearInUse(t, s)[v].inUse /\ ClearInUse(t, s)[v].software = s)
  <1> DEFINE x == ClearInUse(t, s)
  <1>1. ASSUME NEW v \in Uuids
        PROVE  /\ x[v] \in SyncRows /\ x[v].software = t[v].software
               /\ x[v].inUse => t[v].inUse /\ t[v].software # s
    <2>1. t[v] \in SyncRows
      BY DEF Tables
    <2>2. CASE t[v].inUse /\ t[v].software = s
      <3> DEFINE off == [t[v] EXCEPT !.inUse = FALSE]
      <3>1. off \in SyncRows /\ off.inUse = FALSE /\ off.software = t[v].software
        BY <2>1 DEF SyncRows
      <3>2. x[v] = Stamp(off)
        BY <2>2 DEF ClearInUse
      <3> HIDE DEF off
      <3> QED
        BY <3>1, <3>2, StampType
    <2>3. CASE ~(t[v].inUse /\ t[v].software = s)
      <3>1. x[v] = t[v]
        BY <2>3 DEF ClearInUse
      <3> QED
        BY <2>1, <2>3, <3>1
    <2> QED
      BY <2>2, <2>3
  <1>2. x = [v \in Uuids |-> x[v]]
    BY DEF ClearInUse
  <1> HIDE DEF x
  <1>3. x \in Tables
    BY <1>1, <1>2 DEF Tables
  <1>4. OneUse(x)
    BY <1>1 DEF OneUse
  <1>5. \A v \in Uuids : ~(x[v].inUse /\ x[v].software = s)
    BY <1>1
  <1> QED
    BY <1>3, <1>4, <1>5 DEF x

\* What a pulled row leaves of the table.
LEMMA MergeKeepsOne ==
  ASSUME syncClock \in Nat, NEW t \in Tables, OneUse(t), NEW u \in Uuids, NEW r \in SyncRows
  PROVE  MergeOne(t, u, r) \in Tables /\ OneUse(MergeOne(t, u, r))
  <1> DEFINE x == IF r.inUse THEN ClearInUse(t, r.software) ELSE t
  <1>1. /\ x \in Tables /\ OneUse(x)
        /\ r.inUse => \A v \in Uuids : ~(x[v].inUse /\ x[v].software = r.software)
    BY Cleared
  <1>2. MergeOne(t, u, r) \in {[x EXCEPT ![u] = r], [x EXCEPT ![u] = Stamp(r)], t}
    BY DEF MergeOne
  <1> HIDE DEF x
  <1>3. [x EXCEPT ![u] = r] \in Tables /\ OneUse([x EXCEPT ![u] = r])
    BY <1>1, RowWritten
  <1>4. [x EXCEPT ![u] = Stamp(r)] \in Tables /\ OneUse([x EXCEPT ![u] = Stamp(r)])
    BY <1>1, RowWritten, StampType
  <1> QED
    BY <1>2, <1>3, <1>4

\* f[n] is the table after n rows of the batch, up to the m-th.
MergeStep(f, n, t, batch, order) ==
  f[n] = IF n = 0 THEN t ELSE MergeOne(f[n - 1], order[n], batch[order[n]])

MergeLoop(f, m, t, batch, order) ==
  f = [n \in 0 .. m |-> IF n = 0 THEN t ELSE MergeOne(f[n - 1], order[n], batch[order[n]])]

LEMMA MergeLoopSteps ==
  ASSUME NEW t, NEW batch, NEW order, NEW m \in Nat, NEW f, MergeLoop(f, m, t, batch, order)
  PROVE  \A n \in 0 .. m : MergeStep(f, n, t, batch, order)
  BY Zenon DEF MergeLoop, MergeStep

\* The recursion is well-founded: it defines a function.
LEMMA MergeLoopExists ==
  ASSUME NEW t, NEW batch, NEW order, NEW m \in Nat
  PROVE  \E f : MergeLoop(f, m, t, batch, order)
  <1> DEFINE T == {n \in Nat : \E f : MergeLoop(f, n, t, batch, order)}
  <1>1. 0 \in T
    <2>1. MergeLoop([n \in 0 .. 0 |-> t], 0, t, batch, order)
      BY DEF MergeLoop
    <2> QED
      BY <2>1
  <1>2. ASSUME NEW n \in Nat, n \in T
        PROVE  n + 1 \in T
    <2>1. PICK f : MergeLoop(f, n, t, batch, order)
      BY <1>2
    <2>2. \A k \in 0 .. n : MergeStep(f, k, t, batch, order)
      BY <2>1, MergeLoopSteps
    <2> DEFINE g == [k \in 0 .. n + 1 |-> IF k <= n THEN f[k] ELSE MergeOne(f[n], order[k], batch[order[k]])]
    <2>3. \A k \in 0 .. n : g[k] = f[k]
      OBVIOUS
    <2>4. g[n + 1] = MergeOne(g[n], order[n + 1], batch[order[n + 1]])
      OBVIOUS
    <2>5. g = [k \in 0 .. n + 1 |-> g[k]]
      OBVIOUS
    <2> HIDE DEF g
    <2>6. ASSUME NEW k \in 0 .. n + 1
          PROVE  MergeStep(g, k, t, batch, order)
      <3>1. CASE k = n + 1
        <4>1. k # 0 /\ k - 1 = n
          BY <3>1
        <4> QED
          BY <3>1, <4>1, <2>4 DEF MergeStep
      <3>2. CASE k = 0
        BY <3>2, <2>2, <2>3 DEF MergeStep
      <3>3. CASE k \in 1 .. n
        <4>1. k \in 0 .. n /\ k - 1 \in 0 .. n
          BY <3>3
        <4> QED
          BY <3>3, <4>1, <2>2, <2>3 DEF MergeStep
      <3> QED
        BY <3>1, <3>2, <3>3
    <2>7. MergeLoop(g, n + 1, t, batch, order)
      BY <2>5, <2>6 DEF MergeLoop, MergeStep
    <2> QED
      BY <2>7
  <1> HIDE DEF T
  <1>3. Nat \subseteq T
    BY <1>1, <1>2, InductionOnSets
  <1> QED
    BY <1>3 DEF T

\* The whole batch, in whatever order the cloud sent it: what each row keeps, it keeps.
LEMMA BatchKeeps ==
  ASSUME NEW K, NEW t \in K, NEW batch, NEW order \in Seq(Uuids),
         \A s \in K, n \in 1 .. Len(order) : MergeOne(s, order[n], batch[order[n]]) \in K
  PROVE  MergeByLatest(t, batch, order) \in K
  <1> DEFINE m == Len(order)
             f == CHOOSE f : MergeLoop(f, m, t, batch, order)
  <1>1. m \in Nat
    OBVIOUS
  <1>2. MergeByLatest(t, batch, order) = f[m]
    BY DEF MergeByLatest, MergeLoop
  <1>3. MergeLoop(f, m, t, batch, order)
    BY <1>1, MergeLoopExists
  <1> HIDE DEF f
  <1>4. \A n \in 0 .. m : MergeStep(f, n, t, batch, order)
    BY <1>1, <1>3, MergeLoopSteps
  <1>s. \A s \in K, n \in 1 .. m : MergeOne(s, order[n], batch[order[n]]) \in K
    OBVIOUS
  <1> HIDE DEF m
  <1> DEFINE T == {n \in Nat : n <= m => f[n] \in K}
  <1>5. 0 \in T
    <2>1. 0 \in 0 .. m
      BY <1>1
    <2>2. f[0] = t
      BY <1>4, <2>1 DEF MergeStep
    <2> QED
      BY <2>2
  <1>6. ASSUME NEW n \in Nat, n \in T
        PROVE  n + 1 \in T
    <2>1. CASE n + 1 <= m
      <3>1. n <= m /\ n + 1 \in 0 .. m /\ n + 1 \in 1 .. m /\ (n + 1) - 1 = n /\ n + 1 # 0
        BY <1>1, <2>1
      <3>2. f[n + 1] = MergeOne(f[n], order[n + 1], batch[order[n + 1]])
        BY <1>4, <3>1 DEF MergeStep
      <3>3. f[n] \in K
        BY <1>6, <3>1
      <3>4. f[n + 1] \in K
        BY <1>s, <3>1, <3>2, <3>3
      <3> QED
        BY <3>4
    <2> QED
      BY <2>1
  <1> HIDE DEF T
  <1>7. m \in T
    BY <1>1, <1>5, <1>6, InductionOnSets
  <1> QED
    BY <1>1, <1>2, <1>7 DEF T

LEMMA BatchKeepsOne ==
  ASSUME syncClock \in Nat, NEW t \in Tables, OneUse(t), NEW batch \in Tables,
         NEW order \in Seq(Uuids)
  PROVE  MergeByLatest(t, batch, order) \in Tables /\ OneUse(MergeByLatest(t, batch, order))
  <1> DEFINE K == {s \in Tables : OneUse(s)}
  <1>1. ASSUME NEW s \in K, NEW n \in 1 .. Len(order)
        PROVE  MergeOne(s, order[n], batch[order[n]]) \in K
    <2>1. order[n] \in Uuids
      OBVIOUS
    <2>2. batch[order[n]] \in SyncRows
      BY <2>1 DEF Tables
    <2> QED
      BY <2>1, <2>2, MergeKeepsOne
  <1>2. t \in K
    OBVIOUS
  <1> HIDE DEF K
  <1>3. MergeByLatest(t, batch, order) \in K
    BY <1>1, <1>2, BatchKeeps
  <1> QED
    BY <1>3 DEF K

\* Requests that stay on this machine.
LEMMA LocalStep ==
  ASSUME SyncInv, SaveInUse \subseteq {FALSE}, HandleSave \/ HandleActivate \/ HandleDelete \/ HandleSelect
  PROVE  rows' \in Tables /\ OneUse(rows')
  <1>0. rows \in Tables /\ OneUse(rows) /\ syncClock \in Nat /\ \A u \in Uuids : rows[u] \in SyncRows
    BY DEF SyncInv, Tables
  <1>1. ASSUME NEW s \in Softwares, NEW i \in BOOLEAN, NEW x \in BOOLEAN
        PROVE  /\ normalizeSaveRequest(s, i, x) \in SyncRows
               /\ normalizeSaveRequest(s, i, x).inUse = i /\ normalizeSaveRequest(s, i, x).software = s
    BY <1>0 DEF normalizeSaveRequest, SyncRows
  <1>2. ASSUME NEW t \in Tables, OneUse(t), NEW u \in Uuids, NEW r \in SyncRows,
               r.inUse => \A v \in Uuids \ {u} : ~(t[v].inUse /\ t[v].software = r.software)
        PROVE  Upsert(t, u, r) \in Tables /\ OneUse(Upsert(t, u, r))
    <2>1. Upsert(t, u, r) \in {[t EXCEPT ![u] = r], [t EXCEPT ![u] = Stamp(r)]}
      BY DEF Upsert
    <2>2. [t EXCEPT ![u] = r] \in Tables /\ OneUse([t EXCEPT ![u] = r])
      BY <1>2, RowWritten
    <2>3. [t EXCEPT ![u] = Stamp(r)] \in Tables /\ OneUse([t EXCEPT ![u] = Stamp(r)])
      BY <1>0, <1>2, RowWritten, StampType
    <2> QED
      BY <2>1, <2>2, <2>3
  <1>3. CASE HandleSave
    <2>1. PICK u \in Uuids, s \in Softwares, i \in SaveInUse, x \in BOOLEAN :
             rows' = Upsert(rows, u, normalizeSaveRequest(s, i, x))
      BY <1>3 DEF HandleSave
    <2>2. i = FALSE /\ i \in BOOLEAN
      OBVIOUS
    <2>3. normalizeSaveRequest(s, i, x) \in SyncRows /\ ~normalizeSaveRequest(s, i, x).inUse
      BY <1>1, <2>2
    <2> QED
      BY <1>0, <1>2, <2>1, <2>3
  <1>4. CASE HandleActivate
    <2>1. PICK u \in Uuids, s \in Softwares : rows' = ActivateRow(rows, u, normalizeActivateRequest(s))
      BY <1>4 DEF HandleActivate
    <2> DEFINE r == normalizeSaveRequest(s, TRUE, FALSE)
               on == [r EXCEPT !.inUse = TRUE]
    <2>2. r \in SyncRows /\ r.software = s
      BY <1>1
    <2>3. rows' = Upsert(ClearInUse(rows, r.software), u, on)
      BY <2>1 DEF ActivateRow, normalizeActivateRequest
    <2> HIDE DEF r
    <2>4. on \in SyncRows /\ on.software = s
      BY <2>2 DEF SyncRows
    <2> HIDE DEF on
    <2> QED
      BY <1>0, <1>2, <2>2, <2>3, <2>4, Cleared
  <1>5. CASE HandleDelete
    <2>1. PICK u \in Uuids : rows' = [rows EXCEPT ![u] = NoRow]
      BY <1>5 DEF HandleDelete, Present
    <2> QED
      BY <1>0, <2>1, NoRowType, RowWritten
  <1>6. CASE HandleSelect
    <2>1. PICK u \in Uuids, x \in BOOLEAN : rows' = [rows EXCEPT ![u] = Stamp([rows[u] EXCEPT !.selected = x])]
      BY <1>6 DEF HandleSelect, Present
    <2> DEFINE r == [rows[u] EXCEPT !.selected = x]
    <2>2. r \in SyncRows /\ r.inUse = rows[u].inUse /\ r.software = rows[u].software
      BY <1>0 DEF SyncRows
    <2> HIDE DEF r
    <2>3. Stamp(r) \in SyncRows /\ Stamp(r).inUse = rows[u].inUse /\ Stamp(r).software = rows[u].software
      BY <1>0, <2>2, StampType
    <2>4. rows' = [rows EXCEPT ![u] = Stamp(r)]
      BY <2>1 DEF r
    <2>5. rows[u].inUse => \A v \in Uuids \ {u} : ~(rows[v].inUse /\ rows[v].software = rows[u].software)
      BY <1>0 DEF OneUse
    <2> QED
      BY <1>0, <2>3, <2>4, <2>5, RowWritten
  <1> QED
    BY <1>3, <1>4, <1>5, <1>6

\* Requests to the cloud, and what other devices push there.
LEMMA CloudStep ==
  ASSUME SyncInv, NEW c \in SyncCalls,
         \/ HandlePushToCloud(c) \/ HandlePushSelectedToCloud(c) \/ PushToCloud(c)
         \/ fetchCloudBatch(c) \/ HandlePullFromCloud(c) \/ BeginCompare(c) \/ CompareWithCloud(c)
  PROVE  SyncInv'
  <1>0. /\ rows \in Tables /\ OneUse(rows) /\ cloud \in Tables /\ syncClock \in Nat
        /\ DOMAIN syncs = SyncCalls /\ \A d \in SyncCalls : syncs[d].batch \in Tables
    BY DEF SyncInv
  <1>1. ASSUME NEW call, call.batch \in Tables, syncs' = [syncs EXCEPT ![c] = call],
               rows' \in Tables, OneUse(rows'), cloud' \in Tables, syncClock' = syncClock
        PROVE  SyncInv'
    <2>1. DOMAIN syncs' = SyncCalls /\ \A d \in SyncCalls : syncs'[d] = IF d = c THEN call ELSE syncs[d]
      BY <1>0, <1>1
    <2>2. \A d \in SyncCalls : syncs'[d].batch \in Tables
      BY <1>0, <1>1, <2>1
    <2> QED
      BY <1>0, <1>1, <2>1, <2>2 DEF SyncInv
  <1>2. ASSUME NEW op, NEW batch \in Tables
        PROVE  [NoCall EXCEPT !.op = op, !.batch = batch].batch \in Tables
    BY DEF NoCall
  <1>3. \A a : SyncAnswered(a).batch \in Tables
    BY NoRowType DEF SyncAnswered, NoCall
  <1>4. ASSUME NEW x, BeginPush(c, x) PROVE SyncInv'
    <2>1. PICK ids \in SUBSET Uuids :
            LET batch == selectPushCandidates(ids, x)
            IN  syncs' = [syncs EXCEPT ![c] = IF batch = NoTable THEN SyncAnswered("ok")
                                              ELSE [NoCall EXCEPT !.op = "push", !.batch = batch]]
      BY <1>4 DEF BeginPush
    <2> DEFINE batch == selectPushCandidates(ids, x)
               call == IF batch = NoTable THEN SyncAnswered("ok")
                       ELSE [NoCall EXCEPT !.op = "push", !.batch = batch]
    <2>2. batch \in Tables
      BY <1>0, NoRowType DEF selectPushCandidates, Tables
    <2>3. syncs' = [syncs EXCEPT ![c] = call]
      BY <2>1
    <2> HIDE DEF batch
    <2>4. call.batch \in Tables
      BY <1>2, <1>3, <2>2
    <2> HIDE DEF call
    <2>5. rows' = rows /\ cloud' = cloud /\ syncClock' = syncClock
      BY <1>4 DEF BeginPush
    <2> QED
      BY <1>0, <1>1, <2>3, <2>4, <2>5
  <1>5. CASE PushToCloud(c)
    <2>1. CloudTakes(syncs[c].batch) \in Tables
      BY <1>0 DEF CloudTakes, Tables
    <2>2. cloud' \in Tables /\ rows' = rows /\ syncClock' = syncClock
      BY <1>0, <1>5, <2>1 DEF PushToCloud
    <2>3. \E a : syncs' = [syncs EXCEPT ![c] = SyncAnswered(a)]
      BY <1>5 DEF PushToCloud
    <2> QED
      BY <1>0, <1>1, <1>3, <2>2, <2>3
  <1>6. CASE fetchCloudBatch(c)
    <2>1. /\ syncs' = [syncs EXCEPT ![c] = [NoCall EXCEPT !.op = "pull", !.batch = cloud]]
          /\ rows' = rows /\ cloud' = cloud /\ syncClock' = syncClock
      BY <1>6 DEF fetchCloudBatch
    <2> QED
      BY <1>0, <1>1, <1>2, <2>1
  <1>7. CASE HandlePullFromCloud(c)
    <2> DEFINE b == syncs[c].batch
               P == Present(b)
    <2>1. b \in Tables /\ P \subseteq Uuids
      BY <1>0 DEF Present
    <2>2. IsFiniteSet(P) /\ Cardinality(P) \in Nat
      BY <2>1, SyncAssumption, FS_Subset, FS_CardinalityType
    <2>3. ASSUME NEW order \in SetToSeqs(P) PROVE order \in Seq(Uuids)
      <3> HIDE DEF P
      <3>1. order \in [1 .. Cardinality(P) -> P]
        BY <2>3 DEF SetToSeqs
      <3>2. order \in [1 .. Cardinality(P) -> Uuids]
        BY <2>1, <3>1
      <3> QED
        BY <2>2, <3>2
    <2>4. \/ \E order \in SetToSeqs(P) : rows' = MergeByLatest(rows, b, order)
          \/ rows' = rows
      BY <1>7 DEF HandlePullFromCloud
    <2> HIDE DEF b, P
    <2>5. rows' \in Tables /\ OneUse(rows')
      BY <1>0, <2>1, <2>3, <2>4, BatchKeepsOne
    <2>6. /\ \E a : syncs' = [syncs EXCEPT ![c] = SyncAnswered(a)]
          /\ cloud' = cloud /\ syncClock' = syncClock
      BY <1>7 DEF HandlePullFromCloud
    <2> QED
      BY <1>0, <1>1, <1>3, <2>5, <2>6
  <1>8. CASE BeginCompare(c)
    <2>1. /\ syncs' = [syncs EXCEPT ![c] = [NoCall EXCEPT !.op = "compare", !.batch = rows]]
          /\ rows' = rows /\ cloud' = cloud /\ syncClock' = syncClock
      BY <1>8 DEF BeginCompare
    <2> QED
      BY <1>0, <1>1, <1>2, <2>1
  <1>9. CASE CompareWithCloud(c)
    <2>1. /\ \E a : syncs' = [syncs EXCEPT ![c] = SyncAnswered(a)]
          /\ rows' = rows /\ cloud' = cloud /\ syncClock' = syncClock
      BY <1>9 DEF CompareWithCloud
    <2> QED
      BY <1>0, <1>1, <1>3, <2>1
  <1> QED
    BY <1>4, <1>5, <1>6, <1>7, <1>8, <1>9 DEF HandlePushToCloud, HandlePushSelectedToCloud

\* Whatever is activated, deleted and selected here, and in whatever order batches are pulled
\* that other devices filled: a program has at most one configuration in use, as long as a
\* save does not ask for it (the user interface never does).
THEOREM OneIsInUse == ASSUME SaveInUse \subseteq {FALSE} PROVE SyncSpec => []OneInUse
  <1>1. SyncInit => SyncInv
    <2> SUFFICES ASSUME SyncInit PROVE SyncInv
      OBVIOUS
    <2>1. rows = NoTable /\ cloud = NoTable /\ syncClock = 1 /\ syncs = [c \in SyncCalls |-> NoCall]
      BY DEF SyncInit
    <2>2. NoCall.batch = NoTable
      BY DEF NoCall
    <2> QED
      BY <2>1, <2>2, NoRowType DEF SyncInv
  <1>2. SyncInv /\ [SyncNext]_syncVars => SyncInv'
    <2> SUFFICES ASSUME SyncInv, [SyncNext]_syncVars PROVE SyncInv'
      OBVIOUS
    <2>1. CASE UNCHANGED syncVars
      BY <2>1 DEF syncVars, SyncInv
    <2>2. CASE HandleSave \/ HandleActivate \/ HandleDelete \/ HandleSelect
      <3>1. UNCHANGED <<cloud, syncs, syncClock>>
        BY <2>2 DEF HandleSave, HandleActivate, HandleDelete, HandleSelect
      <3>2. rows' \in Tables /\ OneUse(rows')
        BY <2>2, LocalStep
      <3> QED
        BY <3>1, <3>2 DEF SyncInv
    <2>3. CASE OtherDevicePushes
      <3>1. UNCHANGED <<rows, syncs, syncClock>>
        BY <2>3 DEF OtherDevicePushes
      <3>2. PICK u \in Uuids, s \in Softwares, i \in BOOLEAN :
              cloud' = [cloud EXCEPT ![u] = [normalizeSaveRequest(s, i, FALSE) EXCEPT !.inUse = i]]
        BY <2>3 DEF OtherDevicePushes
      <3>3. [normalizeSaveRequest(s, i, FALSE) EXCEPT !.inUse = i] \in SyncRows
        BY DEF SyncInv, normalizeSaveRequest, SyncRows
      <3>4. cloud' \in Tables
        BY <3>2, <3>3 DEF SyncInv, Tables
      <3> QED
        BY <3>1, <3>4 DEF SyncInv
    <2>4. CASE SyncTick
      BY <2>4 DEF SyncTick, SyncInv
    <2> QED
      BY <2>1, <2>2, <2>3, <2>4, CloudStep DEF SyncNext
  <1>3. SyncInv => OneInUse
    BY DEF SyncInv, OneUse, OneInUse, Present
  <1> QED
    BY <1>1, <1>2, <1>3, PTL DEF SyncSpec

\* The types of the tables: a row is absent or one of a program, dated in the past.
Stored == [software : Softwares, inUse : BOOLEAN, selected : BOOLEAN, updated : 1 .. SyncHorizon]
StoredTables == [Uuids -> Rows]

SyncTyped ==
  /\ rows \in StoredTables /\ cloud \in StoredTables /\ syncClock \in 1 .. SyncHorizon
  /\ DOMAIN syncs = SyncCalls
  /\ \A c \in SyncCalls : syncs[c].op \in {"none", "push", "pull", "compare"} /\ syncs[c].batch \in StoredTables

LEMMA RowIs == Rows = {NoRow} \cup Stored /\ NoTable \in StoredTables
  BY DEF Rows, Stored, NoTable, StoredTables

LEMMA StampStored ==
  ASSUME syncClock \in 1 .. SyncHorizon, NEW r \in Stored
  PROVE  Stamp(r) \in Stored
  BY DEF Stamp, Stored

LEMMA ClearedStored ==
  ASSUME syncClock \in 1 .. SyncHorizon, NEW t \in StoredTables, NEW s
  PROVE  ClearInUse(t, s) \in StoredTables
  <1>1. ASSUME NEW u \in Uuids, t[u].inUse PROVE Stamp([t[u] EXCEPT !.inUse = FALSE]) \in Rows
    <2>1. t[u] \in Stored
      BY <1>1, RowIs DEF StoredTables, NoRow
    <2> DEFINE off == [t[u] EXCEPT !.inUse = FALSE]
    <2>2. off \in Stored
      BY <2>1 DEF Stored
    <2> HIDE DEF off
    <2>3. Stamp(off) \in Rows
      BY <2>2, StampStored, RowIs
    <2> QED
      BY <2>3 DEF off
  <1> QED
    BY <1>1 DEF ClearInUse, StoredTables

LEMMA UpsertStored ==
  ASSUME syncClock \in 1 .. SyncHorizon, NEW t \in StoredTables, NEW u \in Uuids, NEW r \in Stored
  PROVE  Upsert(t, u, r) \in StoredTables
  BY StampStored, RowIs DEF Upsert, StoredTables

\* A row that is newer than another is not absent.
LEMMA MergeStored ==
  ASSUME syncClock \in 1 .. SyncHorizon, NEW t \in StoredTables, NEW u \in Uuids, NEW r \in Rows
  PROVE  MergeOne(t, u, r) \in StoredTables
  <1> DEFINE x == IF r.inUse THEN ClearInUse(t, r.software) ELSE t
  <1>1. x \in StoredTables
    BY ClearedStored
  <1>2. MergeOne(t, u, r) = IF t[u] = NoRow THEN [x EXCEPT ![u] = r]
                            ELSE IF r.updated > t[u].updated THEN [x EXCEPT ![u] = Stamp(r)] ELSE t
    BY DEF MergeOne
  <1> HIDE DEF x
  <1>3. [x EXCEPT ![u] = r] \in StoredTables
    BY <1>1 DEF StoredTables
  <1>4. ASSUME r.updated > t[u].updated PROVE [x EXCEPT ![u] = Stamp(r)] \in StoredTables
    <2>1. t[u].updated \in Nat
      <3>1. t[u] \in Rows
        BY DEF StoredTables
      <3>2. NoRow.updated \in Nat /\ \A y \in Stored : y.updated \in Nat
        BY SyncAssumption DEF NoRow, Stored
      <3> QED
        BY <3>1, <3>2, RowIs
    <2>2. r # NoRow
      BY <1>4, <2>1 DEF NoRow
    <2>3. Stamp(r) \in Rows
      BY <2>2, RowIs, StampStored
    <2> QED
      BY <1>1, <2>3 DEF StoredTables
  <1> QED
    BY <1>2, <1>3, <1>4

LEMMA LocalTyped ==
  ASSUME SyncTyped, HandleSave \/ HandleActivate \/ HandleDelete \/ HandleSelect
  PROVE  rows' \in StoredTables
  <1>0. rows \in StoredTables /\ syncClock \in 1 .. SyncHorizon
    BY DEF SyncTyped
  <1>1. ASSUME NEW s \in Softwares, NEW i \in BOOLEAN, NEW x \in BOOLEAN
        PROVE  normalizeSaveRequest(s, i, x) \in Stored
    BY <1>0 DEF normalizeSaveRequest, Stored
  <1>2. CASE HandleSave
    BY <1>0, <1>1, <1>2, UpsertStored, SyncAssumption DEF HandleSave
  <1>3. CASE HandleActivate
    <2>1. PICK u \in Uuids, s \in Softwares : rows' = ActivateRow(rows, u, normalizeActivateRequest(s))
      BY <1>3 DEF HandleActivate
    <2> DEFINE r == normalizeSaveRequest(s, TRUE, FALSE)
               on == [r EXCEPT !.inUse = TRUE]
    <2>2. r \in Stored
      BY <1>1
    <2>3. rows' = Upsert(ClearInUse(rows, r.software), u, on)
      BY <2>1 DEF ActivateRow, normalizeActivateRequest
    <2> HIDE DEF r
    <2>4. on \in Stored
      BY <2>2 DEF Stored
    <2> HIDE DEF on
    <2> QED
      BY <1>0, <2>3, <2>4, ClearedStored, UpsertStored
  <1>4. CASE HandleDelete
    BY <1>0, <1>4, RowIs DEF HandleDelete, Present, StoredTables
  <1>5. CASE HandleSelect
    <2>1. PICK u \in Present(rows), x \in BOOLEAN : rows' = [rows EXCEPT ![u] = Stamp([rows[u] EXCEPT !.selected = x])]
      BY <1>5 DEF HandleSelect
    <2> DEFINE r == [rows[u] EXCEPT !.selected = x]
    <2>2. u \in Uuids /\ rows[u] \in Stored
      BY <1>0, <2>1, RowIs DEF Present, StoredTables
    <2>3. r \in Stored
      BY <2>2 DEF Stored
    <2>4. rows' = [rows EXCEPT ![u] = Stamp(r)]
      BY <2>1
    <2> HIDE DEF r
    <2>5. Stamp(r) \in Rows
      BY <1>0, <2>3, StampStored, RowIs
    <2> QED
      BY <1>0, <2>2, <2>4, <2>5 DEF StoredTables
  <1> QED
    BY <1>2, <1>3, <1>4, <1>5

LEMMA CloudTyped ==
  ASSUME SyncTyped, NEW c \in SyncCalls,
         \/ HandlePushToCloud(c) \/ HandlePushSelectedToCloud(c) \/ PushToCloud(c)
         \/ fetchCloudBatch(c) \/ HandlePullFromCloud(c) \/ BeginCompare(c) \/ CompareWithCloud(c)
  PROVE  SyncTyped'
  <1>0. /\ rows \in StoredTables /\ cloud \in StoredTables /\ syncClock \in 1 .. SyncHorizon
        /\ DOMAIN syncs = SyncCalls /\ syncs[c].batch \in StoredTables
    BY DEF SyncTyped
  <1>1. ASSUME NEW call, call.batch \in StoredTables, call.op \in {"none", "push", "pull", "compare"},
               syncs' = [syncs EXCEPT ![c] = call],
               rows' \in StoredTables, cloud' \in StoredTables, syncClock' = syncClock
        PROVE  SyncTyped'
    BY <1>0, <1>1 DEF SyncTyped
  <1>2. ASSUME NEW op, NEW batch
        PROVE  /\ [NoCall EXCEPT !.op = op, !.batch = batch].batch = batch
               /\ [NoCall EXCEPT !.op = op, !.batch = batch].op = op
    BY DEF NoCall
  <1>3. \A a : SyncAnswered(a).batch \in StoredTables /\ SyncAnswered(a).op = "none"
    BY RowIs DEF SyncAnswered, NoCall
  <1>4. ASSUME NEW x, BeginPush(c, x) PROVE SyncTyped'
    <2>1. PICK ids \in SUBSET Uuids :
            LET batch == selectPushCandidates(ids, x)
            IN  syncs' = [syncs EXCEPT ![c] = IF batch = NoTable THEN SyncAnswered("ok")
                                              ELSE [NoCall EXCEPT !.op = "push", !.batch = batch]]
      BY <1>4 DEF BeginPush
    <2> DEFINE batch == selectPushCandidates(ids, x)
               call == IF batch = NoTable THEN SyncAnswered("ok")
                       ELSE [NoCall EXCEPT !.op = "push", !.batch = batch]
    <2>2. batch \in StoredTables
      BY <1>0, RowIs DEF selectPushCandidates, StoredTables
    <2>3. syncs' = [syncs EXCEPT ![c] = call]
      BY <2>1
    <2> HIDE DEF batch
    <2>4. call.batch \in StoredTables /\ call.op \in {"none", "push"}
      BY <1>2, <1>3, <2>2
    <2> HIDE DEF call
    <2>5. rows' = rows /\ cloud' = cloud /\ syncClock' = syncClock
      BY <1>4 DEF BeginPush
    <2> QED
      BY <1>0, <1>1, <2>3, <2>4, <2>5
  <1>5. CASE PushToCloud(c)
    <2>1. CloudTakes(syncs[c].batch) \in StoredTables
      BY <1>0 DEF CloudTakes, StoredTables
    <2>2. cloud' \in StoredTables /\ rows' = rows /\ syncClock' = syncClock
      BY <1>0, <1>5, <2>1 DEF PushToCloud
    <2>3. \E a : syncs' = [syncs EXCEPT ![c] = SyncAnswered(a)]
      BY <1>5 DEF PushToCloud
    <2> QED
      BY <1>0, <1>1, <1>3, <2>2, <2>3
  <1>6. CASE fetchCloudBatch(c)
    <2> DEFINE call == [NoCall EXCEPT !.op = "pull", !.batch = cloud]
    <2>1. /\ syncs' = [syncs EXCEPT ![c] = call]
          /\ rows' = rows /\ cloud' = cloud /\ syncClock' = syncClock
      BY <1>6 DEF fetchCloudBatch
    <2>2. call.batch \in StoredTables /\ call.op = "pull"
      BY <1>0, <1>2
    <2> HIDE DEF call
    <2> QED
      BY <1>0, <1>1, <2>1, <2>2
  <1>7. CASE HandlePullFromCloud(c)
    <2> DEFINE b == syncs[c].batch
               P == Present(b)
    <2>1. b \in StoredTables /\ P \subseteq Uuids
      BY <1>0 DEF Present
    <2>2. IsFiniteSet(P) /\ Cardinality(P) \in Nat
      BY <2>1, SyncAssumption, FS_Subset, FS_CardinalityType
    <2>3. ASSUME NEW order \in SetToSeqs(P) PROVE order \in Seq(Uuids)
      <3> HIDE DEF P
      <3>1. order \in [1 .. Cardinality(P) -> P]
        BY <2>3 DEF SetToSeqs
      <3>2. order \in [1 .. Cardinality(P) -> Uuids]
        BY <2>1, <3>1
      <3> QED
        BY <2>2, <3>2
    <2>4. \/ \E order \in SetToSeqs(P) : rows' = MergeByLatest(rows, b, order)
          \/ rows' = rows
      BY <1>7 DEF HandlePullFromCloud
    <2> HIDE DEF b, P
    <2>5. ASSUME NEW order \in Seq(Uuids) PROVE MergeByLatest(rows, b, order) \in StoredTables
      <3>1. ASSUME NEW s \in StoredTables, NEW n \in 1 .. Len(order)
            PROVE  MergeOne(s, order[n], b[order[n]]) \in StoredTables
        <4>1. order[n] \in Uuids
          OBVIOUS
        <4>2. b[order[n]] \in Rows
          BY <2>1, <4>1 DEF StoredTables
        <4> QED
          BY <1>0, <4>1, <4>2, MergeStored
      <3> QED
        BY <1>0, <3>1, BatchKeeps
    <2>6. /\ \E a : syncs' = [syncs EXCEPT ![c] = SyncAnswered(a)]
          /\ cloud' = cloud /\ syncClock' = syncClock
      BY <1>7 DEF HandlePullFromCloud
    <2>7. rows' \in StoredTables
      BY <1>0, <2>3, <2>4, <2>5
    <2> QED
      BY <1>0, <1>1, <1>3, <2>6, <2>7
  <1>8. CASE BeginCompare(c)
    <2> DEFINE call == [NoCall EXCEPT !.op = "compare", !.batch = rows]
    <2>1. /\ syncs' = [syncs EXCEPT ![c] = call]
          /\ rows' = rows /\ cloud' = cloud /\ syncClock' = syncClock
      BY <1>8 DEF BeginCompare
    <2>2. call.batch \in StoredTables /\ call.op = "compare"
      BY <1>0, <1>2
    <2> HIDE DEF call
    <2> QED
      BY <1>0, <1>1, <2>1, <2>2
  <1>9. CASE CompareWithCloud(c)
    <2>1. /\ \E a : syncs' = [syncs EXCEPT ![c] = SyncAnswered(a)]
          /\ rows' = rows /\ cloud' = cloud /\ syncClock' = syncClock
      BY <1>9 DEF CompareWithCloud
    <2> QED
      BY <1>0, <1>1, <1>3, <2>1
  <1> QED
    BY <1>4, <1>5, <1>6, <1>7, <1>8, <1>9 DEF HandlePushToCloud, HandlePushSelectedToCloud

\* Rows keep their types here and in the cloud: in particular a row that is stamped or merged
\* is one that was there, never an absent one with a date.
THEOREM SyncTypeCorrect == SyncSpec => []SyncTypeOK
  <1>1. SyncInit => SyncTyped
    <2> SUFFICES ASSUME SyncInit PROVE SyncTyped
      OBVIOUS
    <2>1. rows = NoTable /\ cloud = NoTable /\ syncClock = 1 /\ syncs = [c \in SyncCalls |-> NoCall]
      BY DEF SyncInit
    <2>2. NoCall.batch = NoTable /\ NoCall.op = "none"
      BY DEF NoCall
    <2> QED
      BY <2>1, <2>2, RowIs, SyncAssumption DEF SyncTyped
  <1>2. SyncTyped /\ [SyncNext]_syncVars => SyncTyped'
    <2> SUFFICES ASSUME SyncTyped, [SyncNext]_syncVars PROVE SyncTyped'
      OBVIOUS
    <2>1. CASE UNCHANGED syncVars
      BY <2>1 DEF syncVars, SyncTyped
    <2>2. CASE HandleSave \/ HandleActivate \/ HandleDelete \/ HandleSelect
      <3>1. UNCHANGED <<cloud, syncs, syncClock>>
        BY <2>2 DEF HandleSave, HandleActivate, HandleDelete, HandleSelect
      <3>2. rows' \in StoredTables
        BY <2>2, LocalTyped
      <3> QED
        BY <3>1, <3>2 DEF SyncTyped
    <2>3. CASE OtherDevicePushes
      <3>1. UNCHANGED <<rows, syncs, syncClock>>
        BY <2>3 DEF OtherDevicePushes
      <3>2. PICK u \in Uuids, s \in Softwares, i \in BOOLEAN :
              cloud' = [cloud EXCEPT ![u] = [normalizeSaveRequest(s, i, FALSE) EXCEPT !.inUse = i]]
        BY <2>3 DEF OtherDevicePushes
      <3>3. [normalizeSaveRequest(s, i, FALSE) EXCEPT !.inUse = i] \in Rows
        BY RowIs DEF SyncTyped, normalizeSaveRequest, Stored
      <3>4. cloud' \in StoredTables
        BY <3>2, <3>3 DEF SyncTyped, StoredTables
      <3> QED
        BY <3>1, <3>4 DEF SyncTyped
    <2>4. CASE SyncTick
      BY <2>4, SyncAssumption DEF SyncTick, SyncTyped
    <2> QED
      BY <2>1, <2>2, <2>3, <2>4, CloudTyped DEF SyncNext
  <1>3. SyncTyped => SyncTypeOK
    BY DEF SyncTyped, SyncTypeOK, StoredTables
  <1> QED
    BY <1>1, <1>2, <1>3, PTL DEF SyncSpec

===============================================================================
