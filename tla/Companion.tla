------------------------------ MODULE Companion ------------------------------
(***************************************************************************)
(* The tray in its three forms: the companion of macOS and Linux            *)
(* (app/tray/companion.go), the companion of Windows                        *)
(* (app/tray/companion_windows.go), both over internal/ipc/client.go, and   *)
(* the tray of "aliang tray" (app/tray/tray.go), which calls the run         *)
(* service of its own process.                                              *)
(*                                                                         *)
(* Two goroutines use one client: the menu goroutine and the ticker         *)
(* goroutine.  todo[g] are the calls of Client.Send that g has left; a       *)
(* restart is a stop, a status, a start and a status.  Clicks while the     *)
(* menu goroutine is busy are dropped by the menu library.  Titles, icons   *)
(* and the check marks of the mode items are left out.                      *)
(***************************************************************************)
EXTENDS CoreDaemon

VARIABLES
  platform,     \* "mac" | "windows" | "tray"
  phase,        \* "boot" | "wait" | "dash" | "ready" | "failing" | "exited"
  todo,         \* per goroutine
  waiting,      \* per goroutine: in Decode of sendIPC
  menu,         \* enabled items: "start" | "stop" (and restart) | "off"
  isRunning,    \* as the tray believes
  reconnectSeq,
  done,         \* the channel is closed
  quitStopped   \* history: the core has handled the stop of a quit, and no start of the tray since

clientVars == <<platform, phase, todo, waiting, menu, isRunning, reconnectSeq, done,
                quitStopped>>
companionVars == <<coreVars, clientVars>>

Goroutines == {"menu", "sync"}
MaxRestarts == 3

Idle(g) == todo[g] = <<>>

-----------------------------------------------------------------------------
(* What the answers do.                                                    *)

applyUnavailableState ==
  /\ menu' = "off"
  /\ isRunning' = IF platform = "mac" THEN FALSE ELSE isRunning

\* A failed start: the Windows companion gives up after a message box.
StartupFailed ==
  /\ applyUnavailableState
  /\ phase' = IF platform = "windows" THEN "failing" ELSE "ready"

\* Variant for checking the properties: any answer confirms the stop.
isAcceptableQuitProxyStopResultAny(r) == TRUE

isAcceptableQuitProxyStopResult(r) == r.status \in {"success", "not_running"}

\* The items that a status enables: the same in the three forms.
syncProxyState(r) ==
  isRunning' = r.running /\ menu' = (IF r.running THEN "stop" ELSE "start")

\* syncState of the Windows companion after an answer.
syncStateWindows(r) ==
  /\ IF r.ok THEN syncProxyState(r) ELSE applyUnavailableState
  /\ UNCHANGED reconnectSeq

\* syncState of the macOS companion: any answer shows that the core is there.
syncState(r) ==
  /\ reconnectSeq' = 0
  /\ IF r.ok THEN syncProxyState(r) ELSE applyUnavailableState

showStatus(r) == IF platform = "mac" THEN syncState(r) ELSE syncStateWindows(r)

\* connectAndStartHTTP after the answer to start_http.
dashboardStarted(g, r) ==
  /\ IF r.ok THEN phase' = "ready" /\ UNCHANGED <<menu, isRunning>> ELSE StartupFailed
  /\ todo' = [todo EXCEPT ![g] = IF r.ok /\ platform = "windows" THEN <<"get_status">> ELSE <<>>]
  /\ UNCHANGED <<reconnectSeq, done>>

\* quit after the answer to its stop: Windows insists on a confirmation.
quitAnswered(g, r) ==
  /\ IF platform # "mac" /\ ~(r.ok /\ isAcceptableQuitProxyStopResult(r))
       THEN todo' = [todo EXCEPT ![g] = <<>>] /\ UNCHANGED done
       ELSE todo' = [todo EXCEPT ![g] = Tail(@)] /\ done' = TRUE
  /\ UNCHANGED <<phase, menu, isRunning, reconnectSeq>>

\* systray.Quit and os.Exit.
exit(g) ==
  /\ phase' = "exited" /\ todo' = [h \in Goroutines |-> <<>>]
  /\ UNCHANGED <<menu, isRunning, reconnectSeq, done>>

\* Goroutine g goes on with response r to the call a.
Answered(g, a, r) ==
  CASE a = "start_http" -> dashboardStarted(g, r)
    [] a = "quit_stop" -> quitAnswered(g, r)
    [] a = "stop_http" -> exit(g)
    [] a = "get_status" -> /\ showStatus(r)
                           /\ todo' = [todo EXCEPT ![g] = Tail(@)]
                           /\ UNCHANGED <<phase, done>>
    [] OTHER -> /\ todo' = [todo EXCEPT ![g] = Tail(@)]
                /\ UNCHANGED <<phase, menu, isRunning, reconnectSeq, done>>

\* handleCoreUnavailable: the core is started again at most MaxRestarts times in a row.
handleCoreUnavailable(c) ==
  IF platform = "mac" /\ reconnectSeq + 1 <= MaxRestarts THEN KickstartCoreService(c) ELSE {c}

\* Send returned an error for the call a.  A failed start, stop or switch
\* returns before its syncState, so the status request behind it goes too.
SendFailed(g, a) ==
  CASE a = "start_http" -> /\ StartupFailed /\ todo' = [todo EXCEPT ![g] = <<>>]
                           /\ UNCHANGED <<reconnectSeq, done>>
    [] a = "quit_stop" -> quitAnswered(g, [ok |-> FALSE, status |-> "failed"])
    [] a = "stop_http" -> exit(g)
    [] a = "get_status" -> /\ applyUnavailableState
                           /\ reconnectSeq' = IF platform = "mac" /\ reconnectSeq <= MaxRestarts
                                                THEN reconnectSeq + 1 ELSE reconnectSeq
                           /\ todo' = [todo EXCEPT ![g] = Tail(@)]
                           /\ UNCHANGED <<phase, done>>
    [] OTHER -> /\ applyUnavailableState
                /\ todo' = [todo EXCEPT ![g] = SubSeq(@, 3, Len(@))]
                /\ UNCHANGED <<phase, reconnectSeq, done>>

\* The core after a failed call a: only a failed status restarts it.
CoreAfterFailure(a) == IF a = "get_status" THEN handleCoreUnavailable(core) ELSE {core}
\* The core has handled a call a of the tray.
Handled(a) == quitStopped' = (a = "quit_stop" \/ (quitStopped /\ a # "start_proxy"))
-----------------------------------------------------------------------------
(* Client.Send.                                                            *)

Calling(g) ==
  phase \in {"dash", "ready", "failing"} /\ ~Idle(g) /\ ~waiting[g]

\* sendIPC writes the request and waits for a response without holding the lock.
sendIPC(g) ==
  /\ Calling(g) /\ conn = "open" /\ platform # "tray"
  /\ reqs' = Append(reqs, [from |-> g, action |-> Head(todo[g])])
  /\ waiting' = [waiting EXCEPT ![g] = TRUE]
  /\ UNCHANGED <<core, proxy, dash, conn, resps, platform, phase, todo, menu, isRunning,
                 reconnectSeq, done, quitStopped>>

\* The decoder returns the first response there is; nobody compares its id.
recvIPC(g) ==
  /\ waiting[g] /\ conn = "open" /\ resps # <<>>
  /\ \E k \in 1..Len(resps) : resps' = SubSeq(resps, k + 1, Len(resps))
  /\ Answered(g, Head(todo[g]), Head(resps))
  /\ waiting' = [waiting EXCEPT ![g] = FALSE]
  /\ conn' = IF phase' = "exited" THEN "none" ELSE conn
  /\ UNCHANGED <<core, proxy, dash, reqs, platform, quitStopped>>

\* The write or the read fails: the connection is given up for good.
ipcError(g) ==
  /\ conn = "broken" \/ (waiting[g] /\ conn = "none")
  /\ ~Idle(g) /\ platform # "tray"
  /\ conn' = "none" /\ waiting' = [waiting EXCEPT ![g] = FALSE]
  /\ SendFailed(g, Head(todo[g]))
  /\ core' \in CoreAfterFailure(Head(todo[g]))
  /\ UNCHANGED <<proxy, dash, reqs, resps, platform, quitStopped>>

\* sendHTTP without a connection; start_http and stop_http have no URL.  The
\* client may give up on a request that the core handles.
sendHTTP(g) ==
  /\ Calling(g) /\ conn = "none" /\ platform # "tray"
  /\ LET a == Head(todo[g]) IN
       \/ /\ a \notin {"start_http", "stop_http"} /\ core # "down" /\ dash.serving # {}
          /\ \E r \in ServeOverHttp(a, proxy, dash) :
               /\ proxy' = r.proxy /\ dash' = r.dash
               /\ Answered(g, a, r) \/ SendFailed(g, a)
          /\ Handled(a)
          /\ UNCHANGED core
       \/ /\ SendFailed(g, a)
          /\ core' \in CoreAfterFailure(a)
          /\ UNCHANGED <<proxy, dash, quitStopped>>
  /\ UNCHANGED <<conn, reqs, resps, platform, waiting>>

\* TrayApp calls the run service itself; its last call stops the dashboard only.
callDirect(g) ==
  /\ Calling(g) /\ platform = "tray"
  /\ LET a == Head(todo[g]) IN
       IF a = "stop_http"
         THEN /\ exit(g) /\ Gone /\ UNCHANGED quitStopped
         ELSE /\ \E r \in handleRequest(a, proxy, dash) :
                   /\ proxy' = r.proxy /\ dash' = r.dash
                   /\ Answered(g, a, r)
              /\ Handled(a)
              /\ UNCHANGED <<core, conn, reqs, resps>>
  /\ UNCHANGED <<platform, waiting>>

\* The core handles a request of the companion.
ServeRequest ==
  /\ handleConn /\ Handled(Head(reqs).action)
  /\ UNCHANGED <<platform, phase, todo, waiting, menu, isRunning, reconnectSeq, done>>
-----------------------------------------------------------------------------
(* Starting the companion, its menu and its ticker.                        *)

\* The service is not installed, cannot be started, or is started if need be.
connectAndStartHTTP ==
  /\ phase = "boot"
  /\ \/ StartupFailed /\ UNCHANGED core
     \/ phase' = "wait" /\ core' \in KickstartCoreService(core) /\ UNCHANGED <<menu, isRunning>>
  /\ UNCHANGED <<proxy, dash, conn, reqs, resps, platform, todo, waiting, reconnectSeq, done,
                 quitStopped>>

waitForIPC ==
  /\ phase = "wait"
  /\ \/ /\ core \in {"init", "up"} /\ conn' = "open" /\ phase' = "dash"
        /\ todo' = [todo EXCEPT !["menu"] = <<"start_http">>]
        /\ UNCHANGED <<menu, isRunning>>
     \/ StartupFailed /\ UNCHANGED <<conn, todo>>
  /\ UNCHANGED <<core, proxy, dash, reqs, resps, platform, waiting, reconnectSeq, done,
                 quitStopped>>

\* failStartup exits after its message box.
failStartup ==
  /\ phase = "failing"
  /\ phase' = "exited" /\ todo' = [g \in Goroutines |-> <<>>]
  /\ waiting' = [g \in Goroutines |-> FALSE] /\ conn' = "none"
  /\ UNCHANGED <<core, proxy, dash, reqs, resps, platform, menu, isRunning, reconnectSeq, done,
                 quitStopped>>

\* What the menu goroutine does for a click, in calls of Send.
startProxy == <<"start_proxy", "get_status">>
stopProxy == <<"stop_proxy", "get_status">>
selectMode == <<"switch_mode", "get_status">>
restartProxy == stopProxy \o startProxy
\* Quitting the macOS companion stops the proxy if the tray believes that it runs.
quit == (IF isRunning THEN <<"quit_stop">> ELSE <<>>) \o <<"stop_http">>
quitWindows == <<"quit_stop", "stop_http">>
quitTray == <<"quit_stop", "get_status", "stop_http">>
quitCalls ==
  CASE platform = "mac" -> quit [] platform = "windows" -> quitWindows [] OTHER -> quitTray

handleMenuEvents ==
  /\ phase \in {"ready", "failing"} /\ Idle("menu") /\ ~done
  /\ \/ /\ \/ menu = "start" /\ todo' = [todo EXCEPT !["menu"] = startProxy]
           \/ menu = "stop" /\ todo' = [todo EXCEPT !["menu"] = stopProxy]
           \/ menu = "stop" /\ todo' = [todo EXCEPT !["menu"] = restartProxy]
           \/ menu # "off" /\ todo' = [todo EXCEPT !["menu"] = selectMode]
        /\ UNCHANGED done
     \/ /\ todo' = [todo EXCEPT !["menu"] = quitCalls]
        /\ done' = (platform = "mac")
  /\ UNCHANGED <<coreVars, platform, phase, waiting, menu, isRunning, reconnectSeq,
                 quitStopped>>

syncStateLoop ==
  /\ phase \in {"ready", "failing"} /\ Idle("sync") /\ ~done
  /\ todo' = [todo EXCEPT !["sync"] = <<"get_status">>]
  /\ UNCHANGED <<coreVars, platform, phase, waiting, menu, isRunning, reconnectSeq, done,
                 quitStopped>>

\* TrayApp.openDashboard and the goroutine of onReady.
ensureDashboardServer ==
  /\ platform = "tray" /\ phase = "ready" /\ dash.last < MaxServers
  /\ \E r \in StartHttpServer(dash) : dash' = r.dash
  /\ UNCHANGED <<core, proxy, conn, reqs, resps, clientVars>>

-----------------------------------------------------------------------------

CompanionInit ==
  /\ CoreInit
  /\ todo = [g \in Goroutines |-> <<>>] /\ waiting = [g \in Goroutines |-> FALSE]
  /\ menu = "start" /\ isRunning = FALSE /\ reconnectSeq = 0 /\ done = FALSE
  /\ quitStopped = FALSE
  /\ platform \in {"mac", "windows", "tray"}
  /\ IF platform = "tray"
       THEN core = "up" /\ dash \in {r.dash : r \in {r \in StartHttpServer(NoDash) : r.ok}}
       ELSE core \in {"down", "init"} /\ dash = NoDash
  /\ phase = IF platform = "tray" THEN "ready" ELSE "boot"

\* The companion is started again; the core has gone on without it.
RunCompanion ==
  /\ phase = "exited" /\ platform # "tray" /\ dash.last < MaxServers
  /\ phase' = "boot" /\ reqs' = <<>> /\ resps' = <<>>
  /\ waiting' = [g \in Goroutines |-> FALSE] /\ menu' = "start" /\ isRunning' = FALSE
  /\ reconnectSeq' = 0 /\ done' = FALSE /\ quitStopped' = FALSE
  /\ UNCHANGED <<core, proxy, dash, conn, platform, todo>>

CoreSteps ==
  /\ \/ DashboardRequest
     \/ \E n \in 1..MaxServers : ServeBegins(n) \/ ServeReturns(n) \/ ServeFails(n)
     \/ platform # "tray" /\ (initializeCoreSubsystems \/ ShutdownSignal \/ ServerStopped
                              \/ handleShutdown)
  /\ UNCHANGED clientVars

CompanionNext ==
  \/ CoreSteps \/ ServeRequest
  \/ \E g \in Goroutines : sendIPC(g) \/ recvIPC(g) \/ ipcError(g) \/ sendHTTP(g) \/ callDirect(g)
  \/ connectAndStartHTTP \/ waitForIPC \/ failStartup
  \/ RunCompanion \/ handleMenuEvents \/ syncStateLoop \/ ensureDashboardServer

CompanionSpec == CompanionInit /\ [][CompanionNext]_companionVars

CompanionTypeOK ==
  /\ CoreTypeOK
  /\ phase \in {"boot", "wait", "dash", "ready", "failing", "exited"}
  /\ reconnectSeq \in 0..(MaxRestarts + 1)
  /\ menu \in {"start", "stop", "off"} /\ isRunning \in BOOLEAN

\* stopProxyForQuit: once quitting goes on past the confirmation (the done
\* channel is closed) on Windows and in "aliang tray", the core has handled the
\* stop of a quit and no later start of this tray, though the responses can be
\* swapped between the two goroutines, lost with a connection, or come over HTTP.
QuitConfirmed == platform # "mac" /\ done => quitStopped

=============================================================================
