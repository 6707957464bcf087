--------------------------- MODULE TunRunner_proofs ---------------------------
(***************************************************************************)
(* For any number of startups, stops and routes: as long as startups do    *)
(* not overlap, traffic is routed only into a device that a stack reads,   *)
(* and a startup that fails leaves a device open only by a panic or by a   *)
(* failure inside engine.Start, and never one that carries routes.         *)
(*                                                                         *)
(* The argument.  Only the one startup under way may configure the device, *)
(* and it does so while _defaultDevice and _defaultStack still name it     *)
(* (Owned, Configured); so engine.Stop takes address and routes away with  *)
(* the device.  A startup begins only when the device has no address or    *)
(* was left by a panic (AddressHasService, FailedIsBare), which no later   *)
(* startup can configure (Owned) and which carries no route (Unrouted); so *)
(* the nil that a refused engine start assigns to _defaultDevice loses     *)
(* nothing that carries routes.                                            *)
(*                                                                         *)
(* The progress the user interface polls settles whether or not startups   *)
(* overlap; that invariant stands by itself.                               *)
(***************************************************************************)
EXTENDS TunRunner, TLAPS

Startup == Working \cup Undoing \cup Reporting

Types ==
    /\ overlap \in BOOLEAN /\ running \in BOOLEAN /\ address \in BOOLEAN
    /\ pc \in [Calls -> Pcs]
    /\ started \in [Runs -> SUBSET {"engine", "interface", "routes"}]
    /\ device \in Runs \cup {None} /\ stack \in Runs \cup {None} /\ bound \in Runs \cup {None}
    /\ open \subseteq Runs /\ attached \subseteq Runs
    /\ RunStatusChan \in {<<>>, <<"success">>, <<"failed">>}
    /\ waiting \in Nat

(* One startup at a time, with its result still to come.                   *)
OneStartup ==
    /\ \A r, q \in Runs : pc[r] \in Startup /\ pc[q] \in Startup => r = q
    /\ \A r \in Runs : pc[r] \in Startup => waiting # 0 /\ RunStatusChan = <<>>
    /\ RunStatusChan # <<>> => waiting # 0

Reads == device = bound /\ stack = bound /\ bound \in attached

(* A recovered panic ends a startup without any rollback.                  *)
Abandons(r) == pc[r] \in {"panicked", "reportPanic", "dead"}

(* There is no address, or it is the leftover of a panic.                  *)
Bare == address => bound # None /\ Abandons(bound)

(* What carries routes is read; what carries an address is, or was left    *)
(* behind by a panic.                                                      *)
Configured ==
    /\ bound # None => bound \in open
    /\ routes # {} => address /\ Reads
    /\ address => bound # None /\ (Reads \/ Abandons(bound))

(* From engine.Start to its routes, the startup has the device to itself   *)
(* or has lost it to a stop.                                               *)
Owned ==
    \A r \in Runs :
        /\ pc[r] \in {"gateway", "interface"} => bound = None \/ Reads
        /\ pc[r] \in {"gateway", "interface", "ready", "clearRoutes", "addRoutes"}
             => bound \in {None, r}

(* No route is there before the startup adds one, nor in what a failed one *)
(* has left behind.                                                        *)
Unrouted ==
    \A r \in Runs :
        /\ pc[r] \in {"requested", "engine", "gateway", "interface", "ready", "clearRoutes"}
             => routes = {}
        /\ (pc[r] \in {"report", "down"} \/ Abandons(r)) /\ bound = r => routes = {}

(* An address belongs to a service RunService knows of.                    *)
AddressHasService ==
    Bare \/ running \/ waiting # 0 \/ \E s \in Stops : pc[s] = "stopping"

(* A startup that has not configured the interface yet, or has failed and  *)
(* reports it, left no address behind unless by a panic.                   *)
FailedIsBare ==
    /\ \A r \in Runs :
         /\ pc[r] \in {"requested", "engine", "panicked", "report", "reportPanic"} => Bare
         /\ pc[r] = "gateway" => ~address
         /\ pc[r] \in {"failed", "undoRoutes", "undoInterface", "undoEngine"}
              => "engine" \in started[r] \/ Bare
         /\ pc[r] \in {"gateway", "interface", "ready", "clearRoutes", "addRoutes"}
              => "engine" \in started[r]
         /\ pc[r] \in {"idle", "requested", "engine"} => "engine" \notin started[r]
    /\ RunStatusChan = <<"failed">> => Bare

(* The engine's device is the startup's own, or the startup's is closed.   *)
Closable ==
    \A r \in Runs :
        /\ pc[r] \in Startup \ {"panicked", "reportPanic", "report"} /\ "engine" \in started[r]
             => device = r \/ r \notin open
        /\ pc[r] \in {"report", "down"} /\ "engine" \in started[r] => r \notin open

Safe == /\ OneStartup /\ Configured /\ Owned /\ Unrouted
        /\ AddressHasService /\ FailedIsBare /\ Closable

IInv == Types /\ (~overlap => Safe)

-----------------------------------------------------------------------------

(* Nothing is open or configured before the first startup.                 *)
LEMMA InitInv == Init => IInv
<1> SUFFICES ASSUME Init PROVE IInv
  OBVIOUS
<1> USE DEF Init
<1>1. PICK s \in Scenarios :
        /\ overlap = s.overlap
        /\ pc = [c \in Calls |-> IF c \in s.calls THEN "idle" ELSE "absent"]
  OBVIOUS
<1>2. s.overlap \in BOOLEAN
  BY RunnerAssumption
<1>3. \A c \in Calls : pc[c] \in {"idle", "absent"}
  BY <1>1
<1>4. pc \in [Calls -> Pcs]
  BY <1>1 DEF Pcs
<1>5. Types
  BY <1>1, <1>2, <1>4 DEF Types
<1>6. \A r \in Runs : pc[r] \in {"idle", "absent"} /\ started[r] = {}
  BY <1>3 DEF Calls
<1>7. OneStartup /\ Owned /\ FailedIsBare /\ Closable
  BY <1>6 DEF OneStartup, Owned, FailedIsBare, Closable, Startup, Working, Undoing, Reporting, Bare
<1>8. Configured /\ Unrouted /\ AddressHasService
  BY DEF Configured, Unrouted, AddressHasService, Bare
<1> QED
  BY <1>5, <1>7, <1>8 DEF IInv, Safe

(* What startTUN receives when one result is in the channel.               *)
LEMMA ResultTaken == \A x : Head(<<x>>) = x /\ Tail(<<x>>) = <<>>
OBVIOUS

(* Every step keeps the types.                                             *)
LEMMA TypesInv == Types /\ [Next]_vars => Types'
<1> SUFFICES ASSUME Types, [Next]_vars PROVE Types'
  OBVIOUS
<1>g. \A c \in Calls, p \in Pcs : [pc EXCEPT ![c] = p] \in [Calls -> Pcs]
  BY DEF Types
<1> USE DEF Types, At, Go, Complete, Calls, Pcs, Starting, MaySayStarting, Startup, Working, Undoing, Reporting, Up,
        scenario, engineVars, osVars, httpVars, chanVars, serviceVars
<1>1. ASSUME NEW r \in Runs, Begin(r) PROVE Types'
  BY <1>1, <1>g DEF Begin
<1>31. ASSUME NEW r \in Runs, PrepareEngine(r) PROVE Types'
  BY <1>31, <1>g DEF PrepareEngine
<1>2. ASSUME NEW r \in Runs, EngineStarts(r) PROVE Types'
  BY <1>2, <1>g DEF EngineStarts
<1>3. ASSUME NEW r \in Runs, EngineRefuses(r) PROVE Types'
  BY <1>3, <1>g DEF EngineRefuses
<1>4. ASSUME NEW r \in Runs, EngineFailsLate(r) PROVE Types'
  BY <1>4, <1>g DEF EngineFailsLate
<1>5. ASSUME NEW r \in Runs, ResolveGateway(r) PROVE Types'
  BY <1>5, <1>g DEF ResolveGateway
<1>6. ASSUME NEW r \in Runs, GatewayPanics(r) PROVE Types'
  BY <1>6, <1>g DEF GatewayPanics
<1>7. ASSUME NEW r \in Runs, ConfigureTunInterface(r) PROVE Types'
  BY <1>7, <1>g DEF ConfigureTunInterface
<1>8. ASSUME NEW r \in Runs, InterfaceHalfDone(r) PROVE Types'
  BY <1>8, <1>g DEF InterfaceHalfDone
<1>9. ASSUME NEW r \in Runs, waitForTunDeviceReady(r) PROVE Types'
  BY <1>9, <1>g DEF waitForTunDeviceReady
<1>10. ASSUME NEW r \in Runs, ClearRoutes(r) PROVE Types'
  BY <1>10, <1>g DEF ClearRoutes
<1>11. ASSUME NEW r \in Runs, AddRoute(r) PROVE Types'
  BY <1>11, <1>g DEF AddRoute
<1>12. ASSUME NEW r \in Runs, startHTTPProxyForTUN(r) PROVE Types'
  BY <1>12, <1>g DEF startHTTPProxyForTUN
<1>13. ASSUME NEW r \in Runs, Succeed(r) PROVE Types'
  BY <1>13, <1>g DEF Succeed
<1>14. ASSUME NEW r \in Runs, Fail(r) PROVE Types'
  BY <1>14, <1>g DEF Fail
<1>15. ASSUME NEW r \in Runs, UndoRoutes(r) PROVE Types'
  BY <1>15, <1>g DEF UndoRoutes, CleanupTunRoute
<1>16. ASSUME NEW r \in Runs, UndoInterface(r) PROVE Types'
  BY <1>16, <1>g DEF UndoInterface, CleanupTunInterface
<1>17. ASSUME NEW r \in Runs, UndoEngine(r) PROVE Types'
  BY <1>17, <1>g DEF UndoEngine, engineStop, Vanish
<1>18. ASSUME NEW r \in Runs, Report(r) PROVE Types'
  BY <1>18, <1>g DEF Report
<1>19. ASSUME NEW r \in Runs, Notify(r) PROVE Types'
  BY <1>19, <1>g DEF Notify
<1>20. ASSUME NEW r \in Runs, TakeSignal(r) PROVE Types'
  BY <1>20, <1>g DEF TakeSignal
<1>21. ASSUME NEW r \in Runs, StopHttp(r) PROVE Types'
  BY <1>21, <1>g DEF StopHttp
<1>22. ASSUME NEW r \in Runs, StopRoutes(r) PROVE Types'
  BY <1>22, <1>g DEF StopRoutes, CleanupTunRoute
<1>23. ASSUME NEW r \in Runs, StopInterface(r) PROVE Types'
  BY <1>23, <1>g DEF StopInterface, CleanupTunInterface
<1>24. ASSUME NEW r \in Runs, HttpRuns(r) PROVE Types'
  BY <1>24, <1>g DEF HttpRuns
<1>25. ASSUME NEW r \in Runs, NEW p \in {"gateway", "interface", "ready", "clearRoutes", "addRoutes"},
             Fails(r, p) PROVE Types'
  BY <1>25, <1>g DEF Fails
<1>26. ASSUME NEW s \in Stops, StopCommit(s) PROVE Types'
  BY <1>26, <1>g DEF StopCommit
<1>27. ASSUME NEW s \in Stops, StopEngine(s) PROVE Types'
  BY <1>27, <1>g DEF StopEngine, engineStop, Vanish
<1>28. CASE Receive
  <2>1. RunStatusChan' = <<>>
    BY <1>28, ResultTaken DEF Receive
  <2>2. running' \in BOOLEAN /\ waiting' \in Nat
    BY <1>28 DEF Receive
  <2> QED
    BY <1>28, <2>1, <2>2 DEF Receive
<1>29. CASE Signal
  BY <1>29, <1>g DEF Signal
<1>30. CASE UNCHANGED vars
  BY <1>30, <1>g DEF vars
<1> HIDE DEF Types, At, Go, Complete, Calls, Pcs, Startup, Working, Undoing, Reporting, Up,
         scenario, engineVars, osVars, httpVars, chanVars, serviceVars
<1> QED
  BY <1>1, <1>2, <1>3, <1>4, <1>5, <1>6, <1>7, <1>8, <1>9, <1>10, <1>11, <1>12,
     <1>13, <1>14, <1>15, <1>16, <1>17, <1>18, <1>19, <1>20, <1>21, <1>22, <1>23,
     <1>24, <1>25, <1>26, <1>27, <1>28, <1>29, <1>30, <1>31
  DEF Next, Step, EngineStep, Configure, Undo, Down

(* Without overlap, every step keeps what the rollback relies on.          *)
LEMMA SafeInv == Types /\ Safe /\ ~overlap /\ [Next]_vars => Safe'
<1> SUFFICES ASSUME Types, Safe, ~overlap, [Next]_vars PROVE Safe'
  OBVIOUS
<1> USE DEF Types, At, Go, Complete, Calls, Startup, Working, Undoing, Reporting,
        scenario, engineVars, osVars, httpVars, chanVars, serviceVars,
        Safe, OneStartup, Configured, Owned, Unrouted, AddressHasService, FailedIsBare, Closable,
        Reads, Bare, Abandons
<1>1. ASSUME NEW r \in Runs, Begin(r) PROVE Safe'
  BY <1>1, RunnerAssumption DEF Begin
<1>31. ASSUME NEW r \in Runs, PrepareEngine(r) PROVE Safe'
  BY <1>31, RunnerAssumption DEF PrepareEngine
<1>2. ASSUME NEW r \in Runs, EngineStarts(r) PROVE Safe'
  BY <1>2, RunnerAssumption DEF EngineStarts
<1>3. ASSUME NEW r \in Runs, EngineRefuses(r) PROVE Safe'
  BY <1>3, RunnerAssumption DEF EngineRefuses
<1>4. ASSUME NEW r \in Runs, EngineFailsLate(r) PROVE Safe'
  BY <1>4, RunnerAssumption DEF EngineFailsLate
<1>5. ASSUME NEW r \in Runs, ResolveGateway(r) PROVE Safe'
  BY <1>5, RunnerAssumption DEF ResolveGateway
<1>6. ASSUME NEW r \in Runs, GatewayPanics(r) PROVE Safe'
  BY <1>6, RunnerAssumption DEF GatewayPanics
<1>7. ASSUME NEW r \in Runs, ConfigureTunInterface(r) PROVE Safe'
  BY <1>7, RunnerAssumption DEF ConfigureTunInterface
<1>8. ASSUME NEW r \in Runs, InterfaceHalfDone(r) PROVE Safe'
  BY <1>8, RunnerAssumption DEF InterfaceHalfDone
<1>9. ASSUME NEW r \in Runs, waitForTunDeviceReady(r) PROVE Safe'
  BY <1>9, RunnerAssumption DEF waitForTunDeviceReady
<1>10. ASSUME NEW r \in Runs, ClearRoutes(r) PROVE Safe'
  BY <1>10, RunnerAssumption DEF ClearRoutes
<1>11. ASSUME NEW r \in Runs, AddRoute(r) PROVE Safe'
  BY <1>11, RunnerAssumption DEF AddRoute
<1>12. ASSUME NEW r \in Runs, startHTTPProxyForTUN(r) PROVE Safe'
  BY <1>12, RunnerAssumption DEF startHTTPProxyForTUN
<1>13. ASSUME NEW r \in Runs, Succeed(r) PROVE Safe'
  BY <1>13, RunnerAssumption DEF Succeed
<1>14. ASSUME NEW r \in Runs, Fail(r) PROVE Safe'
  BY <1>14, RunnerAssumption DEF Fail
<1>15. ASSUME NEW r \in Runs, UndoRoutes(r) PROVE Safe'
  BY <1>15, RunnerAssumption DEF UndoRoutes, CleanupTunRoute
<1>16. ASSUME NEW r \in Runs, UndoInterface(r) PROVE Safe'
  BY <1>16, RunnerAssumption DEF UndoInterface, CleanupTunInterface
<1>17. ASSUME NEW r \in Runs, UndoEngine(r) PROVE Safe'
  BY <1>17, RunnerAssumption DEF UndoEngine, engineStop, Vanish
<1>18. ASSUME NEW r \in Runs, Report(r) PROVE Safe'
  BY <1>18, RunnerAssumption DEF Report
<1>19. ASSUME NEW r \in Runs, Notify(r) PROVE Safe'
  BY <1>19, RunnerAssumption DEF Notify
<1>20. ASSUME NEW r \in Runs, TakeSignal(r) PROVE Safe'
  BY <1>20, RunnerAssumption DEF TakeSignal
<1>21. ASSUME NEW r \in Runs, StopHttp(r) PROVE Safe'
  BY <1>21, RunnerAssumption DEF StopHttp
<1>22. ASSUME NEW r \in Runs, StopRoutes(r) PROVE Safe'
  BY <1>22, RunnerAssumption DEF StopRoutes, CleanupTunRoute
<1>23. ASSUME NEW r \in Runs, StopInterface(r) PROVE Safe'
  BY <1>23, RunnerAssumption DEF StopInterface, CleanupTunInterface
<1>24. ASSUME NEW r \in Runs, HttpRuns(r) PROVE Safe'
  BY <1>24, RunnerAssumption DEF HttpRuns
<1>25. ASSUME NEW r \in Runs, NEW p \in {"gateway", "interface", "ready", "clearRoutes", "addRoutes"},
             Fails(r, p) PROVE Safe'
  BY <1>25, RunnerAssumption DEF Fails
<1>26. ASSUME NEW s \in Stops, StopCommit(s) PROVE Safe'
  BY <1>26, RunnerAssumption DEF StopCommit
<1>27. ASSUME NEW s \in Stops, StopEngine(s) PROVE Safe'
  BY <1>27, RunnerAssumption DEF StopEngine, engineStop, Vanish
<1>28. CASE Receive
  <2>1. RunStatusChan' = <<>>
    BY <1>28, ResultTaken DEF Receive
  <2>2. UNCHANGED <<pc, started, device, stack, open, attached, bound, address, routes>>
    BY <1>28 DEF Receive
  <2>3. \A r \in Runs : pc[r] \notin Startup
    BY <1>28 DEF Receive
  <2>4. Bare \/ RunStatusChan = <<"success">>
    BY <1>28 DEF Receive
  <2>5. Bare \/ running'
    BY <1>28, <2>4, ResultTaken DEF Receive
  <2>6. OneStartup' /\ Owned' /\ FailedIsBare' /\ Closable'
    BY <2>1, <2>2, <2>3
  <2>7. Configured' /\ Unrouted' /\ AddressHasService'
    BY <2>2, <2>5
  <2> QED
    BY <2>6, <2>7
<1>29. CASE Signal
  BY <1>29, RunnerAssumption DEF Signal
<1>30. CASE UNCHANGED vars
  BY <1>30, RunnerAssumption DEF vars
<1> HIDE DEF Types, At, Go, Complete, Calls, Startup, Working, Undoing, Reporting,
         scenario, engineVars, osVars, httpVars, chanVars, serviceVars,
         Safe, OneStartup, Configured, Owned, Unrouted, AddressHasService, FailedIsBare, Closable,
        Reads, Bare, Abandons
<1> QED
  BY <1>1, <1>2, <1>3, <1>4, <1>5, <1>6, <1>7, <1>8, <1>9, <1>10, <1>11, <1>12,
     <1>13, <1>14, <1>15, <1>16, <1>17, <1>18, <1>19, <1>20, <1>21, <1>22, <1>23,
     <1>24, <1>25, <1>26, <1>27, <1>28, <1>29, <1>30, <1>31
  DEF Next, Step, EngineStep, Configure, Undo, Down

(* Whether startups overlap does not change.                               *)
LEMMA RigidOverlap == [Next]_vars => overlap' = overlap
BY DEF Next, vars, Step, EngineStep, Configure, Undo, Down, Begin, PrepareEngine, EngineStarts, EngineRefuses,
   EngineFailsLate, ResolveGateway, GatewayPanics, ConfigureTunInterface, InterfaceHalfDone,
   waitForTunDeviceReady, ClearRoutes, AddRoute, Fails, startHTTPProxyForTUN, Succeed, Fail,
   UndoRoutes, UndoInterface, UndoEngine, Report, Notify, TakeSignal, StopHttp, StopRoutes,
   StopInterface, HttpRuns, StopCommit, StopEngine, Receive, Signal, scenario

(* The inductive invariant holds throughout.                               *)
LEMMA Inductive == Spec => []IInv
<1>1. IInv /\ [Next]_vars => IInv'
  <2> SUFFICES ASSUME IInv, [Next]_vars PROVE IInv'
    OBVIOUS
  <2>1. Types'
    BY TypesInv DEF IInv
  <2>2. overlap' = overlap
    BY RigidOverlap
  <2> QED
    BY <2>1, <2>2, SafeInv DEF IInv
<1> QED
  BY InitInv, <1>1, PTL DEF Spec

(* Traffic is routed into the device only while a stack reads from it, as  *)
(* long as startups do not overlap: whichever step of startWithRollback or *)
(* of the cleanup fails, and whenever StopService or a signal interferes.  *)
THEOREM RoutesRead == Spec => []RoutesHaveReader
<1>1. IInv => RoutesHaveReader
  BY DEF IInv, Types, Safe, Configured, Reads, RoutesHaveReader
<1> QED
  BY Inductive, <1>1, PTL

(* A startup that has reported an error, as long as startups do not        *)
(* overlap, has closed its device if engine.Start had returned, and what a *)
(* recovered panic or a failure inside engine.Start leaves open carries no *)
(* routes, then or later.                                                  *)
THEOREM FailureCloses == Spec => []FailureRollsBack
<1>1. IInv => FailureRollsBack
  BY DEF IInv, Types, Safe, Closable, Unrouted, Abandons, FailureRollsBack
<1> QED
  BY Inductive, <1>1, PTL

(* Only the step that settles the progress leaves the startup: the         *)
(* property is inductive by itself.                                        *)
LEMMA ProgressInv == Types /\ ProgressSettles /\ [Next]_vars => ProgressSettles'
<1> SUFFICES ASSUME Types, ProgressSettles, [Next]_vars PROVE ProgressSettles'
  OBVIOUS
<1> USE DEF Types, ProgressSettles, At, Go, Calls, Working, Starting, MaySayStarting
<1>1. ASSUME NEW r \in Runs, Begin(r) PROVE ProgressSettles'
  BY <1>1 DEF Begin
<1>31. ASSUME NEW r \in Runs, PrepareEngine(r) PROVE ProgressSettles'
  BY <1>31 DEF PrepareEngine
<1>2. ASSUME NEW r \in Runs, EngineStarts(r) PROVE ProgressSettles'
  BY <1>2 DEF EngineStarts
<1>3. ASSUME NEW r \in Runs, EngineRefuses(r) PROVE ProgressSettles'
  BY <1>3 DEF EngineRefuses
<1>4. ASSUME NEW r \in Runs, EngineFailsLate(r) PROVE ProgressSettles'
  BY <1>4 DEF EngineFailsLate
<1>5. ASSUME NEW r \in Runs, ResolveGateway(r) PROVE ProgressSettles'
  BY <1>5 DEF ResolveGateway
<1>6. ASSUME NEW r \in Runs, GatewayPanics(r) PROVE ProgressSettles'
  BY <1>6 DEF GatewayPanics
<1>7. ASSUME NEW r \in Runs, ConfigureTunInterface(r) PROVE ProgressSettles'
  BY <1>7 DEF ConfigureTunInterface
<1>8. ASSUME NEW r \in Runs, InterfaceHalfDone(r) PROVE ProgressSettles'
  BY <1>8 DEF InterfaceHalfDone
<1>9. ASSUME NEW r \in Runs, waitForTunDeviceReady(r) PROVE ProgressSettles'
  BY <1>9 DEF waitForTunDeviceReady
<1>10. ASSUME NEW r \in Runs, ClearRoutes(r) PROVE ProgressSettles'
  BY <1>10 DEF ClearRoutes
<1>11. ASSUME NEW r \in Runs, AddRoute(r) PROVE ProgressSettles'
  BY <1>11 DEF AddRoute
<1>12. ASSUME NEW r \in Runs, startHTTPProxyForTUN(r) PROVE ProgressSettles'
  BY <1>12 DEF startHTTPProxyForTUN
<1>13. ASSUME NEW r \in Runs, Succeed(r) PROVE ProgressSettles'
  BY <1>13 DEF Succeed
<1>14. ASSUME NEW r \in Runs, Fail(r) PROVE ProgressSettles'
  BY <1>14 DEF Fail
<1>15. ASSUME NEW r \in Runs, UndoRoutes(r) PROVE ProgressSettles'
  BY <1>15 DEF UndoRoutes
<1>16. ASSUME NEW r \in Runs, UndoInterface(r) PROVE ProgressSettles'
  BY <1>16 DEF UndoInterface
<1>17. ASSUME NEW r \in Runs, UndoEngine(r) PROVE ProgressSettles'
  BY <1>17 DEF UndoEngine
<1>18. ASSUME NEW r \in Runs, Report(r) PROVE ProgressSettles'
  BY <1>18 DEF Report
<1>19. ASSUME NEW r \in Runs, Notify(r) PROVE ProgressSettles'
  BY <1>19 DEF Notify
<1>20. ASSUME NEW r \in Runs, TakeSignal(r) PROVE ProgressSettles'
  BY <1>20 DEF TakeSignal
<1>21. ASSUME NEW r \in Runs, StopHttp(r) PROVE ProgressSettles'
  BY <1>21 DEF StopHttp
<1>22. ASSUME NEW r \in Runs, StopRoutes(r) PROVE ProgressSettles'
  BY <1>22 DEF StopRoutes
<1>23. ASSUME NEW r \in Runs, StopInterface(r) PROVE ProgressSettles'
  BY <1>23 DEF StopInterface
<1>24. ASSUME NEW r \in Runs, HttpRuns(r) PROVE ProgressSettles'
  BY <1>24 DEF HttpRuns
<1>25. ASSUME NEW r \in Runs, NEW p \in {"gateway", "interface", "ready", "clearRoutes", "addRoutes"},
             Fails(r, p) PROVE ProgressSettles'
  BY <1>25 DEF Fails
<1>26. ASSUME NEW s \in Stops, StopCommit(s) PROVE ProgressSettles'
  BY <1>26 DEF StopCommit
<1>27. ASSUME NEW s \in Stops, StopEngine(s) PROVE ProgressSettles'
  BY <1>27 DEF StopEngine
<1>28. CASE Receive
  BY <1>28 DEF Receive
<1>29. CASE Signal
  BY <1>29 DEF Signal
<1>30. CASE UNCHANGED vars
  BY <1>30 DEF vars
<1> HIDE DEF Types, ProgressSettles, At, Go, Calls, Working, Starting, MaySayStarting
<1> QED
  BY <1>1, <1>2, <1>3, <1>4, <1>5, <1>6, <1>7, <1>8, <1>9, <1>10, <1>11, <1>12,
     <1>13, <1>14, <1>15, <1>16, <1>17, <1>18, <1>19, <1>20, <1>21, <1>22, <1>23,
     <1>24, <1>25, <1>26, <1>27, <1>28, <1>29, <1>30, <1>31
  DEF Next, Step, EngineStep, Configure, Undo, Down

(* The progress that the user interface polls says "starting" only while   *)
(* some startup is under way, although every step of every startup says so *)
(* again: with overlapping startups and panics too.                        *)
THEOREM ProgressReported == Spec => []ProgressSettles
<1>1. Init => ProgressSettles
  BY DEF Init, ProgressSettles
<1>2. IInv => Types
  BY DEF IInv
<1> QED
  BY Inductive, <1>1, <1>2, ProgressInv, PTL DEF Spec

=============================================================================
