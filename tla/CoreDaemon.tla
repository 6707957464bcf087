----------------------------- MODULE CoreDaemon -----------------------------
(***************************************************************************)
(* The core process as the shell sees it: its life under the service       *)
(* manager (cmd/core.go, cmd/windows_service_windows.go), the dashboard     *)
(* HTTP server (app/http/server.go) and the requests it answers, over the   *)
(* IPC socket (internal/ipc/server.go) and over HTTP.                       *)
(*                                                                         *)
(* The proxy is the flag of the run service only: RunService has the rest. *)
(* One connection is modelled, that of the companion.  A message is never   *)
(* split, but json.NewDecoder reads what is there: a reader that finds two  *)
(* messages in the socket takes both and uses the first.                    *)
(***************************************************************************)
EXTENDS Naturals, Sequences

CONSTANT MaxServers     \* bound: dashboard servers started in one behaviour

ASSUME CoreAssumption == MaxServers \in Nat \ {0}

VARIABLES
  core,     \* "down" | "init" (IPC answers, nothing loaded) | "up" | "draining"
  proxy,    \* RunService.isRunning
  dash,     \* the globals of app/http/server.go, see NoDash
  conn,     \* the companion's connection: "none" | "open" | "broken"
  reqs,     \* requests in the socket
  resps     \* responses in the socket

coreVars == <<core, proxy, dash, conn, reqs, resps>>

-----------------------------------------------------------------------------
(* The dashboard server.                                                   *)

\* server and isRunning of server.go.  A listener is open from net.Listen on: of
\* the servers in fresh the Serve goroutine has not come to srv.Serve, those in
\* serving accept connections, and those in orphaned were shut down while they
\* were fresh.  live are the goroutines that have not run their last lines yet.
NoDash == [server |-> 0, isRunning |-> FALSE, fresh |-> {}, serving |-> {}, orphaned |-> {},
           live |-> {}, last |-> 0]

StartHttpServer(d) ==
  IF d.isRunning THEN {[dash |-> d, ok |-> TRUE]}
  ELSE LET n == d.last + 1 IN
       {[dash |-> d, ok |-> FALSE],
        [dash |-> [d EXCEPT !.server = n, !.isRunning = TRUE, !.fresh = @ \cup {n},
                            !.live = @ \cup {n}, !.last = n], ok |-> TRUE]}

\* Shutdown of a server that serves closes the listener first and may then run out
\* of time, which leaves the globals to the Serve goroutine.  A fresh one has no
\* listener registered yet and no connection to wait for: nothing is closed.
StopHttpServer(d) ==
  IF ~d.isRunning \/ d.server = 0 THEN {[dash |-> d, ok |-> TRUE]}
  ELSE LET closed == [d EXCEPT !.serving = @ \ {d.server}, !.fresh = @ \ {d.server},
                               !.orphaned = @ \cup (d.fresh \cap {d.server})]
           reset == [dash |-> [closed EXCEPT !.server = 0, !.isRunning = FALSE], ok |-> TRUE] IN
       IF d.server \in d.fresh THEN {reset} ELSE {[dash |-> closed, ok |-> FALSE], reset}

\* The Serve goroutine comes to srv.Serve, which closes the listener when the
\* server has been shut down.
ServeBegins(n) ==
  /\ n \in dash.fresh \cup dash.orphaned
  /\ dash' = [dash EXCEPT !.serving = @ \cup (dash.fresh \cap {n}),
                          !.fresh = @ \ {n}, !.orphaned = @ \ {n}]
  /\ UNCHANGED <<core, proxy, conn, reqs, resps>>

Open(d) == d.fresh \cup d.serving \cup d.orphaned

\* Variant for checking the properties: the goroutine resets the globals of whichever server there is.
ServeReturnsAnyServer(n) ==
  /\ n \in dash.live \ Open(dash)
  /\ dash' = [dash EXCEPT !.live = @ \ {n}, !.server = 0, !.isRunning = FALSE]
  /\ UNCHANGED <<core, proxy, conn, reqs, resps>>

\* The end of the Serve goroutine.
ServeReturns(n) ==
  /\ n \in dash.live \ Open(dash)
  /\ dash' = IF dash.server = n
               THEN [dash EXCEPT !.live = @ \ {n}, !.server = 0, !.isRunning = FALSE]
               ELSE [dash EXCEPT !.live = @ \ {n}]
  /\ UNCHANGED <<core, proxy, conn, reqs, resps>>

\* Accept fails for good.
ServeFails(n) ==
  /\ n \in dash.serving
  /\ dash' = [dash EXCEPT !.serving = @ \ {n}]
  /\ UNCHANGED <<core, proxy, conn, reqs, resps>>

-----------------------------------------------------------------------------
(* The requests.  A result is the new proxy flag and dashboard with the    *)
(* answer: ok and the fields status and is_running of its data.            *)

Result(p, d, ok, status, running) ==
  [proxy |-> p, dash |-> d, ok |-> ok, status |-> status, running |-> running]

StartService(p, d) ==
  IF p THEN {Result(TRUE, d, TRUE, "already_running", FALSE)}
  ELSE {Result(TRUE, d, TRUE, "success", FALSE), Result(FALSE, d, FALSE, "failed", FALSE)}

StopService(p, d) ==
  {Result(FALSE, d, TRUE, IF p THEN "success" ELSE "not_running", FALSE)}

SwitchMode(p, d) ==
  {Result(p, d, TRUE, "unchanged", p), Result(FALSE, d, TRUE, "switched", FALSE)}
    \cup {Result(q, d, FALSE, "failed", FALSE) : q \in {p, FALSE}}

GetStatus(p, d) == {Result(p, d, TRUE, "description", p)}

handleStartHTTP(p, d) ==
  {Result(p, r.dash, r.ok, "port", FALSE) : r \in StartHttpServer(d)}

\* The proxy is stopped before the dashboard.
handleStopHTTP(p, d) ==
  {Result(FALSE, r.dash, r.ok, "stopped", FALSE) : r \in StopHttpServer(d)}

\* "quit_stop" is the stop_proxy request of a quit.
handleRequest(action, p, d) ==
  CASE action = "start_http" -> handleStartHTTP(p, d)
    [] action = "stop_http" -> handleStopHTTP(p, d)
    [] action = "start_proxy" -> StartService(p, d)
    [] action \in {"stop_proxy", "quit_stop"} -> StopService(p, d)
    [] action = "switch_mode" -> SwitchMode(p, d)
    [] action = "get_status" -> GetStatus(p, d)
    [] OTHER -> {Result(p, d, FALSE, "unknown", FALSE)}

\* The HTTP handlers answer 200 whatever the service says.
ServeOverHttp(action, p, d) == {[r EXCEPT !.ok = TRUE] : r \in handleRequest(action, p, d)}

\* Actions that other clients (the dashboard in a browser) may ask for.
DashboardRequest ==
  /\ core # "down" /\ dash.serving # {}
  /\ \E a \in {"start_proxy", "stop_proxy", "switch_mode"} :
       \E r \in ServeOverHttp(a, proxy, dash) : proxy' = r.proxy /\ dash' = r.dash
  /\ UNCHANGED <<core, conn, reqs, resps>>

\* handleConn: decode one request of those that are there, handle it, answer.
handleConn ==
  /\ core # "down" /\ conn = "open" /\ reqs # <<>>
  /\ \E k \in 1..Len(reqs) : reqs' = SubSeq(reqs, k + 1, Len(reqs))
  /\ \E r \in handleRequest(Head(reqs).action, proxy, dash) :
       /\ proxy' = r.proxy /\ dash' = r.dash
       /\ resps' = Append(resps, [to |-> Head(reqs).from, ok |-> r.ok,
                                  status |-> r.status, running |-> r.running])
  /\ UNCHANGED <<core, conn>>

-----------------------------------------------------------------------------
(* The life of the process.                                                *)

Gone ==
  /\ core' = "down" /\ proxy' = FALSE /\ reqs' = <<>> /\ resps' = <<>>
  /\ dash' = [NoDash EXCEPT !.last = dash.last]
  /\ conn' = IF conn = "open" THEN "broken" ELSE conn

\* initializeCoreSubsystems, after the IPC server was started: on an error the
\* IPC server is stopped, which waits for its connections.
initializeCoreSubsystems ==
  /\ core = "init" /\ core' \in {"up", "draining"}
  /\ UNCHANGED <<proxy, dash, conn, reqs, resps>>

\* The signal or the service manager's stop: the dashboard, the proxy, the
\* token refresh and the IPC listener are stopped in this order.
ShutdownSignal ==
  /\ core = "up" /\ core' = "draining"
  /\ proxy' = FALSE
  /\ \E r \in StopHttpServer(dash) : dash' = r.dash
  /\ UNCHANGED <<conn, reqs, resps>>

\* ipcServer.Stop returns when no connection is left.
ServerStopped == core = "draining" /\ conn # "open" /\ Gone

\* handleShutdown for another client, a crash, or a kill by the service manager.
handleShutdown == core # "down" /\ Gone

\* The service manager starts the process; runCoreWithContext starts the IPC server first.
KickstartCoreService(c) == IF c = "down" THEN {"down", "init"} ELSE {c}

CoreInit == proxy = FALSE /\ conn = "none" /\ reqs = <<>> /\ resps = <<>>

CoreTypeOK ==
  /\ core \in {"down", "init", "up", "draining"} /\ proxy \in BOOLEAN
  /\ dash \in [server : 0..MaxServers, isRunning : BOOLEAN, fresh : SUBSET (1..MaxServers),
               serving : SUBSET (1..MaxServers), orphaned : SUBSET (1..MaxServers),
               live : SUBSET (1..MaxServers), last : 0..MaxServers]
  /\ conn \in {"none", "open", "broken"}

\* The globals of server.go, with any delay of the Serve goroutines at either end:
\* a dashboard that accepts connections, or is about to, is the current server with
\* isRunning set, so that a stop reaches it and a start opens no second one; a stop
\* that comes before srv.Serve leaves the port open behind reset globals, but only
\* until its own goroutine comes to srv.Serve, which then refuses to accept.
DashboardTracked ==
  /\ \A n \in Open(dash) : (dash.isRunning /\ dash.server = n) \/ n \in dash.orphaned
  /\ dash.orphaned \subseteq dash.live \ dash.serving
=============================================================================
