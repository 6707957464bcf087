------------------------------ MODULE TunRunner ------------------------------
(***************************************************************************)
(* inbound/tun/runner and inbound/tun/engine: bringing the TUN device up   *)
(* in steps, undoing the steps when one fails, and taking it down on a     *)
(* signal.  RunService is seen from here: it begins a startup when its     *)
(* flag is down, waits for one result per startup, and its StopService     *)
(* calls engine.Stop at any moment, also in the middle of a startup.       *)
(*                                                                         *)
(* The operating system is modelled by what the code relies on: one device *)
(* name (Linux and Windows), so a second open of the name fails; addresses *)
(* and routes belong to the device and vanish with it; a route through the *)
(* TUN gateway can be added only while the device has its address.  Every  *)
(* command may fail during startup; the cleanup commands fail only in the  *)
(* scenarios that say so.  Each member of Runs is one call of Start.       *)
(***************************************************************************)
EXTENDS Naturals, Sequences, FiniteSets

CONSTANTS Runs,        \* calls of runner.Start
          Stops,       \* calls of RunService.StopService in TUN mode
          NRoutes,     \* number of route commands
          Scenarios,   \* records [calls, overlap, faults]
          None         \* no device

ASSUME RunnerAssumption ==
    /\ Runs \cap Stops = {} /\ None \notin Runs
    /\ NRoutes \in Nat \ {0}
    /\ Scenarios \subseteq [calls : SUBSET (Runs \cup Stops), overlap : BOOLEAN, faults : BOOLEAN]

VARIABLES
    overlap, faults,   \* rigid: startups may overlap; cleanup commands may fail
    pc,                \* where each Start and StopService call stands
    started,           \* StartupState of each Start: the steps completed
    added,             \* route commands of each Start that have succeeded
    device, stack,     \* _defaultDevice and _defaultStack, named by their Start
    open,              \* devices whose descriptor is open
    bound,             \* the device that owns the interface name
    attached,          \* devices a running stack reads from
    address, routes,   \* the interface is configured; routes installed
    httpPending, httpUp,  \* `go StartMitmHttp()` not run yet; the proxy serves
    progress,          \* StartupProgress.Status
    RunStatusChan,     \* capacity 1
    TunSignal,         \* capacity 1
    notified,          \* signal.Notify(TunSignal, ...) has been called
    running, waiting   \* RunService.isRunning; startTUN calls without a result

scenario == <<overlap, faults>>
engineVars == <<device, stack, open, attached>>
osVars == <<bound, address, routes>>
httpVars == <<httpPending, httpUp>>
chanVars == <<RunStatusChan, TunSignal, notified>>
serviceVars == <<running, waiting>>
vars == <<scenario, pc, started, added, engineVars, osVars, httpVars, progress, chanVars, serviceVars>>

Calls == Runs \cup Stops
Route == 1..NRoutes
\* The steps of startWithRollback, of rollbackStartup and of stopTun.
Working == {"requested", "engine", "gateway", "interface", "ready", "clearRoutes", "addRoutes", "proxy", "complete"}
Undoing == {"failed", "undoRoutes", "undoInterface", "undoEngine", "panicked"}
Reporting == {"announce", "report", "reportPanic"}
Up == {"notify", "wait", "stopHttp", "stopRoutes", "stopInterface"}
\* "down": failed and rolled back; "dead": failed by a panic; "done": stopped
Pcs == Working \cup Undoing \cup Reporting \cup Up
       \cup {"absent", "idle", "stopping", "down", "dead", "done"}

TypeOK ==
    /\ overlap \in BOOLEAN /\ faults \in BOOLEAN
    /\ pc \in [Calls -> Pcs]
    /\ started \in [Runs -> SUBSET {"engine", "interface", "routes"}]
    /\ added \in [Runs -> 0..NRoutes]
    /\ device \in Runs \cup {None} /\ stack \in Runs \cup {None}
    /\ open \subseteq Runs /\ attached \subseteq open
    /\ bound \in Runs \cup {None}
    /\ address \in BOOLEAN /\ routes \subseteq Route
    /\ httpPending \subseteq Runs /\ httpUp \in BOOLEAN
    /\ progress \in {"idle", "starting", "success", "failed"}
    /\ RunStatusChan \in Seq({"success", "failed"}) /\ Len(RunStatusChan) <= 1
    /\ TunSignal \in Seq({"SIGTERM"}) /\ Len(TunSignal) <= 1
    /\ notified \in BOOLEAN /\ running \in BOOLEAN
    /\ waiting \in 0..Cardinality(Runs)

Init ==
    /\ \E s \in Scenarios :
         /\ overlap = s.overlap /\ faults = s.faults
         /\ pc = [c \in Calls |-> IF c \in s.calls THEN "idle" ELSE "absent"]
    /\ started = [r \in Runs |-> {}]
    /\ added = [r \in Runs |-> 0]
    /\ device = None /\ stack = None /\ open = {} /\ attached = {}
    /\ bound = None /\ address = FALSE /\ routes = {}
    /\ httpPending = {} /\ httpUp = FALSE
    /\ progress = "idle"
    /\ RunStatusChan = <<>> /\ TunSignal = <<>> /\ notified = FALSE
    /\ running = FALSE /\ waiting = 0

Go(r, p) == pc' = [pc EXCEPT ![r] = p]
\* The step from p to q of Start r.
At(r, p, q) == pc[r] = p /\ Go(r, q)
Complete(r, step) == started' = [started EXCEPT ![r] = @ \cup {step}]
\* UpdateStartupProgress("starting", ...) begins every step of startWithRollback:
\* of two startups that overlap, the later one sets back what the other settled.
Starting == progress' = "starting"
\* The attempts to create the device say so too, and the permission requests.
MaySayStarting == progress' \in {progress, "starting"}

-----------------------------------------------------------------------------
(* RunService *)

\* StartService in TUN mode, or a switch that restarts it: refused while the
\* flag is up.  Without overlap a startup begins only when no other is under way.
Begin(r) ==
    /\ ~running
    /\ overlap \/ (waiting = 0 /\ \A s \in Stops : pc[s] # "stopping")
    /\ At(r, "idle", "requested")
    /\ running' = TRUE /\ waiting' = waiting + 1
    /\ Starting
    /\ UNCHANGED <<scenario, added, started, engineVars, osVars, httpVars, chanVars>>

\* startTUN and handleTUNStartResultLocked: the result decides the flag.
Receive ==
    /\ waiting > 0 /\ RunStatusChan # <<>>
    /\ running' = (Head(RunStatusChan) = "success")
    /\ RunStatusChan' = Tail(RunStatusChan)
    /\ waiting' = waiting - 1
    /\ UNCHANGED <<scenario, added, pc, started, engineVars, osVars, httpVars, progress, TunSignal, notified>>

StopCommit(s) ==
    /\ running
    /\ At(s, "idle", "stopping")
    /\ running' = FALSE
    /\ UNCHANGED <<scenario, added, started, engineVars, osVars, httpVars, progress, chanVars, waiting>>

-----------------------------------------------------------------------------
(* The engine, under _engineMu *)

\* The device disappears from the system, with its address and its routes.
Vanish(d) ==
    IF bound = d THEN bound' = None /\ address' = FALSE /\ routes' = {}
                 ELSE UNCHANGED osVars

\* stop: what the two globals name is closed, and they are cleared.
engineStop ==
    /\ open' = open \ {device}
    /\ attached' = attached \ {device, stack}
    /\ device' = None /\ stack' = None
    /\ Vanish(device)

StopEngine(s) ==
    /\ At(s, "stopping", "done")
    /\ engineStop
    /\ UNCHANGED <<scenario, added, started, httpVars, progress, chanVars, serviceVars>>

\* startWithRollback up to engine.Start.
PrepareEngine(r) ==
    /\ At(r, "requested", "engine")
    /\ Starting
    /\ UNCHANGED <<scenario, added, started, engineVars, osVars, httpVars, chanVars, serviceVars>>

\* Variant for checking the properties: the error of CreateStack is not returned.
EngineStartsUnread(r) ==
    /\ At(r, "engine", "gateway")
    /\ bound = None
    /\ device' = r /\ stack' = None /\ bound' = r
    /\ open' = open \cup {r} /\ UNCHANGED attached
    /\ Complete(r, "engine") /\ Starting
    /\ UNCHANGED <<scenario, added, address, routes, httpVars, chanVars, serviceVars>>

\* general and netstack succeed.
EngineStarts(r) ==
    /\ At(r, "engine", "gateway")
    /\ bound = None
    /\ device' = r /\ stack' = r /\ bound' = r
    /\ open' = open \cup {r} /\ attached' = attached \cup {r}
    /\ Complete(r, "engine") /\ Starting
    /\ UNCHANGED <<scenario, added, address, routes, httpVars, chanVars, serviceVars>>

\* general fails (nothing was touched), or parseDevice does: its nil device is
\* assigned to the global all the same.
EngineRefuses(r) ==
    /\ At(r, "engine", "failed")
    /\ device' \in {device, None}
    /\ MaySayStarting
    /\ UNCHANGED <<scenario, added, started, stack, open, attached, osVars, httpVars,
                   chanVars, serviceVars>>

\* The device was created and a later step fails: the endpoint (the global is
\* nil) or the stack (the global is the device).  Nobody closes it.
EngineFailsLate(r) ==
    /\ At(r, "engine", "failed")
    /\ bound = None
    /\ bound' = r /\ open' = open \cup {r}
    /\ \/ device' = None /\ UNCHANGED stack
       \/ device' = r /\ stack' = None
    /\ MaySayStarting
    /\ UNCHANGED <<scenario, added, started, attached, address, routes, httpVars,
                   chanVars, serviceVars>>

-----------------------------------------------------------------------------
(* The other steps of startWithRollback; each may fail *)

Fails(r, p) ==
    /\ At(r, p, "failed")
    /\ IF p = "interface" THEN MaySayStarting ELSE UNCHANGED progress
    /\ UNCHANGED <<scenario, added, started, engineVars, osVars, httpVars, chanVars, serviceVars>>

ResolveGateway(r) ==
    /\ At(r, "gateway", "interface")
    /\ Starting
    /\ UNCHANGED <<scenario, added, started, engineVars, osVars, httpVars, chanVars, serviceVars>>

\* PowerShell answers with nothing and out[0] is out of range; on Windows the
\* route step asks for the gateway again.
GatewayPanics(r) ==
    /\ \E p \in {"gateway", "clearRoutes"} : At(r, p, "panicked")
    /\ UNCHANGED <<scenario, added, started, engineVars, osVars, httpVars, progress, chanVars, serviceVars>>

ConfigureTunInterface(r) ==
    /\ At(r, "interface", "ready")
    /\ bound # None
    /\ address' = TRUE
    /\ Complete(r, "interface") /\ Starting
    /\ UNCHANGED <<scenario, added, engineVars, bound, routes, httpVars, chanVars, serviceVars>>

\* A later command fails after the one that set the address.
InterfaceHalfDone(r) ==
    /\ At(r, "interface", "failed")
    /\ bound # None
    /\ address' = TRUE
    /\ MaySayStarting
    /\ UNCHANGED <<scenario, added, started, engineVars, bound, routes, httpVars,
                   chanVars, serviceVars>>

waitForTunDeviceReady(r) ==
    /\ At(r, "ready", "clearRoutes")
    /\ address
    /\ Starting
    /\ UNCHANGED <<scenario, added, started, engineVars, osVars, httpVars, chanVars, serviceVars>>

\* ConfigureTunRoute: the old routes are deleted, errors ignored ...
ClearRoutes(r) ==
    /\ At(r, "clearRoutes", "addRoutes")
    /\ routes' \in SUBSET routes
    /\ MaySayStarting
    /\ UNCHANGED <<scenario, added, started, engineVars, bound, address, httpVars,
                   chanVars, serviceVars>>

\* ... and the new ones are added one by one; the step counts when all are in.
AddRoute(r) ==
    LET i == added[r] + 1 IN
    /\ pc[r] = "addRoutes"
    /\ address /\ i \notin routes
    /\ routes' = routes \cup {i}
    /\ added' = [added EXCEPT ![r] = i]
    /\ IF i = NRoutes THEN Go(r, "proxy") /\ Complete(r, "routes") /\ Starting
                      ELSE UNCHANGED <<pc, started, progress>>
    /\ UNCHANGED <<scenario, engineVars, bound, address, httpVars, chanVars, serviceVars>>

startHTTPProxyForTUN(r) ==
    /\ At(r, "proxy", "complete")
    /\ httpPending' = httpPending \cup {r}
    /\ UNCHANGED <<scenario, added, started, engineVars, osVars, httpUp, progress, chanVars, serviceVars>>

\* StartMitmHttp runs; a second one finds the proxy running.
HttpRuns(r) ==
    /\ r \in httpPending
    /\ httpPending' = httpPending \ {r}
    /\ httpUp' = TRUE
    /\ UNCHANGED <<scenario, added, pc, started, engineVars, osVars, progress, chanVars, serviceVars>>

\* CompleteStartupProgress
Succeed(r) ==
    /\ At(r, "complete", "announce")
    /\ progress' = "success"
    /\ UNCHANGED <<scenario, added, started, engineVars, osVars, httpVars, chanVars, serviceVars>>

-----------------------------------------------------------------------------
(* Failure: rollbackStartup undoes the completed steps, the last one first *)

\* FailStartupProgress, then the rollback.  A panic is recovered in Start, which
\* reports it and rolls nothing back.
Fail(r) ==
    /\ \/ At(r, "failed", "undoRoutes")
       \/ At(r, "panicked", "reportPanic")
    /\ progress' = "failed"
    /\ UNCHANGED <<scenario, added, started, engineVars, osVars, httpVars, chanVars, serviceVars>>

\* CleanupTunRoute: each deletion that fails is ignored.
CleanupTunRoute ==
    /\ routes' \in IF faults THEN SUBSET routes ELSE {{}}
    /\ UNCHANGED <<bound, address>>

\* CleanupTunInterface: taking the interface down drops its routes; Linux deletes
\* it, Windows keeps it.
CleanupTunInterface ==
    \/ /\ bound' \in {bound, None}
       /\ address' = FALSE /\ routes' = {}
    \/ faults /\ UNCHANGED osVars

UndoRoutes(r) ==
    /\ At(r, "undoRoutes", "undoInterface")
    /\ IF "routes" \in started[r] THEN CleanupTunRoute ELSE UNCHANGED osVars
    /\ UNCHANGED <<scenario, added, started, engineVars, httpVars, progress, chanVars, serviceVars>>

UndoInterface(r) ==
    /\ At(r, "undoInterface", "undoEngine")
    /\ IF "interface" \in started[r] THEN CleanupTunInterface ELSE UNCHANGED osVars
    /\ UNCHANGED <<scenario, added, started, engineVars, httpVars, progress, chanVars, serviceVars>>

\* Variant for checking the properties: the engine is stopped only when the
\* interface had been configured as well.
UndoEngineTooLate(r) ==
    /\ At(r, "undoEngine", "report")
    /\ IF "interface" \in started[r] THEN engineStop ELSE UNCHANGED <<engineVars, osVars>>
    /\ UNCHANGED <<scenario, added, started, httpVars, progress, chanVars, serviceVars>>

UndoEngine(r) ==
    /\ At(r, "undoEngine", "report")
    /\ IF "engine" \in started[r] THEN engineStop ELSE UNCHANGED <<engineVars, osVars>>
    /\ UNCHANGED <<scenario, added, started, httpVars, progress, chanVars, serviceVars>>

\* RunStatusChan <- result blocks while the slot is taken.
Report(r) ==
    /\ RunStatusChan = <<>>
    /\ \/ At(r, "announce", "notify") /\ RunStatusChan' = <<"success">>
       \/ At(r, "report", "down") /\ RunStatusChan' = <<"failed">>
       \/ At(r, "reportPanic", "dead") /\ RunStatusChan' = <<"failed">>
    /\ UNCHANGED <<scenario, added, started, engineVars, osVars, httpVars, progress,
                   TunSignal, notified, serviceVars>>

-----------------------------------------------------------------------------
(* Waiting for a signal, and stopTun *)

Notify(r) ==
    /\ At(r, "notify", "wait")
    /\ notified' = TRUE
    /\ UNCHANGED <<scenario, added, started, engineVars, osVars, httpVars, progress,
                   RunStatusChan, TunSignal, serviceVars>>

\* The operating system delivers a signal; os/signal drops it when the slot is taken.
Signal ==
    /\ notified
    /\ TunSignal' = <<"SIGTERM">>
    /\ UNCHANGED <<scenario, added, pc, started, engineVars, osVars, httpVars, progress,
                   RunStatusChan, notified, serviceVars>>

\* Variant for checking the properties: Start returns without stopTun.
TakeSignalReturns(r) ==
    /\ At(r, "wait", "done")
    /\ TunSignal # <<>>
    /\ TunSignal' = <<>>
    /\ UNCHANGED <<scenario, added, started, engineVars, osVars, httpVars, progress,
                   RunStatusChan, notified, serviceVars>>

\* One of the Starts that wait takes the signal.
TakeSignal(r) ==
    /\ At(r, "wait", "stopHttp")
    /\ TunSignal # <<>>
    /\ TunSignal' = <<>>
    /\ UNCHANGED <<scenario, added, started, engineVars, osVars, httpVars, progress,
                   RunStatusChan, notified, serviceVars>>

StopHttp(r) ==
    /\ At(r, "stopHttp", "stopRoutes")
    /\ httpUp' = FALSE
    /\ UNCHANGED <<scenario, added, started, engineVars, osVars, httpPending, progress,
                   chanVars, serviceVars>>

StopRoutes(r) ==
    /\ At(r, "stopRoutes", "stopInterface")
    /\ CleanupTunRoute
    /\ UNCHANGED <<scenario, added, started, engineVars, httpVars, progress, chanVars, serviceVars>>

\* The engine itself is left to the end of the process.
StopInterface(r) ==
    /\ At(r, "stopInterface", "done")
    /\ CleanupTunInterface
    /\ UNCHANGED <<scenario, added, started, engineVars, httpVars, progress, chanVars, serviceVars>>

-----------------------------------------------------------------------------
EngineStep(r) == PrepareEngine(r) \/ EngineStarts(r) \/ EngineRefuses(r) \/ EngineFailsLate(r)
Configure(r) ==
    \/ ResolveGateway(r) \/ GatewayPanics(r)
    \/ ConfigureTunInterface(r) \/ InterfaceHalfDone(r)
    \/ waitForTunDeviceReady(r) \/ ClearRoutes(r) \/ AddRoute(r)
    \/ \E p \in {"gateway", "interface", "ready", "clearRoutes", "addRoutes"} : Fails(r, p)
    \/ startHTTPProxyForTUN(r) \/ Succeed(r)
Undo(r) == Fail(r) \/ UndoRoutes(r) \/ UndoInterface(r) \/ UndoEngine(r)
Down(r) == Notify(r) \/ TakeSignal(r) \/ StopHttp(r) \/ StopRoutes(r) \/ StopInterface(r)
Step(r) == EngineStep(r) \/ Configure(r) \/ Undo(r) \/ Report(r) \/ Down(r)

Next ==
    \/ \E r \in Runs : Begin(r) \/ Step(r) \/ HttpRuns(r)
    \/ \E s \in Stops : StopCommit(s) \/ StopEngine(s)
    \/ Receive
    \/ Signal

\* Goroutines that can run do run, and the commands they start return; startTUN
\* receives what is there.  Nobody owes a start, a stop or a signal.
Spec ==
    /\ Init /\ [][Next]_vars
    /\ \A r \in Runs : WF_vars(Step(r)) /\ WF_vars(HttpRuns(r))
    /\ \A s \in Stops : WF_vars(StopEngine(s))
    /\ WF_vars(Receive)

-----------------------------------------------------------------------------
(* Properties *)

\* As long as startups do not overlap, traffic is routed into the device only
\* while a stack reads from it: whatever step fails, whichever cleanup command
\* fails, and whenever StopService or a signal comes in between.
RoutesHaveReader == ~overlap /\ routes # {} => bound \in attached

\* As long as startups do not overlap, a startup that has reported an error owns
\* no open device, unless engine.Start itself failed after it had created one
\* (engine.go forgets it) or a panic was recovered, which rolls nothing back; and
\* even then no traffic is routed into what it left, now or after a later startup.
FailureRollsBack ==
    ~overlap => \A r \in Runs :
        /\ pc[r] \in {"report", "down"} /\ r \in open => "engine" \notin started[r]
        /\ pc[r] \in {"report", "down", "panicked", "reportPanic", "dead"} /\ bound = r => routes = {}

\* The progress the user interface polls never stays at "starting", although each
\* step of each startup says so again: it does only while some startup is under
\* way, panics and overlapping startups included.
ProgressSettles ==
    progress = "starting" => \E r \in Runs : pc[r] \in Working \cup {"failed", "panicked"}

\* When the cleanup commands work, a signal that was delivered ends in a system
\* without routes into the device, also when it comes while a later startup is
\* under way.
SignalClearsRoutes == (~faults /\ TunSignal # <<>>) ~> (routes = {})

=============================================================================
