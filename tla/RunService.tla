----------------------------- MODULE RunService -----------------------------
(***************************************************************************)
(* RunService of app/http/services/run.go: the one place that starts,      *)
(* stops and switches the proxy.  Its callers (HTTP handlers, the tray,    *)
(* the IPC server, the authentication-expired hook) run concurrently.      *)
(*                                                                         *)
(* modeChangeMutex is a lock held across several steps only by SwitchMode; *)
(* the other critical sections are one step each.  The HTTP proxy server   *)
(* and the TUN runner are seen from here: a `go StartMitmHttp()` takes     *)
(* effect some time after it was spawned, a TUN startup brings the engine  *)
(* up and then succeeds or fails, and sends its result on RunStatusChan.   *)
(* HttpProxyServer and TunRunner model them step by step.                  *)
(*                                                                         *)
(* Each member of Starts, Stops, Switches and Writes is one call.          *)
(***************************************************************************)
EXTENDS Naturals, Sequences, FiniteSets

CONSTANTS
    Starts, Stops, Switches,   \* calls of StartService, StopService, SwitchMode
    Writes,                    \* POST /api/config/routing with its own ingress mode
    Scenarios,                 \* the sets of calls that may be made together
    Free                       \* value of lock when nobody holds modeChangeMutex

ASSUME CallsDisjoint ==
    /\ Starts \cap Stops = {} /\ Starts \cap Switches = {} /\ Stops \cap Switches = {}
    /\ Writes \cap (Starts \cup Stops \cup Switches) = {}
    /\ Free \notin Switches
ASSUME ScenariosAssumption ==
    Scenarios \subseteq SUBSET (Starts \cup Stops \cup Switches \cup Writes)

VARIABLES
    isRunning, currentMode,    \* fields of RunService
    lock,                      \* the Switch that holds modeChangeMutex, or Free
    snapshotMode,              \* ingress mode of the active routing snapshot
    persistedMode,             \* the run-mode snapshot in the software-config store
    startAllowed,              \* startup status READY/CONFIGURED and no forced update
    pc,                        \* where each call stands
    mode,                      \* stoppedMode (Stops), previousMode (Switches)
    target, wasRunning,        \* SwitchMode's locals
    waiter,                    \* startTUN: waiting for and handling the TUN result
    runner,                    \* runner.Start spawned by this call
    RunStatusChan,             \* results sent and not yet received (capacity 1)
    httpPending,               \* `go StartMitmHttp()` goroutines that have not run yet
    httpUp, tunUp              \* the HTTP server accepts; the TUN device is open

coreVars == <<isRunning, currentMode, snapshotMode, persistedMode>>
tunVars  == <<waiter, runner, RunStatusChan>>
srvVars  == <<httpPending, httpUp, tunUp>>
locals   == <<mode, target, wasRunning>>
vars == <<coreVars, lock, startAllowed, pc, locals, tunVars, srvVars>>

Modes == {"http", "tun"}
NoMode == "none"
Launchers == Starts \cup Switches
Calls == Launchers \cup Stops \cup Writes
\* "absent": never made; "broken": SwitchMode whose rollback failed as well
Pcs == {"absent", "idle", "checked", "expired", "stopping", "apply", "persist",
        "rollback", "done", "broken"}
RunnerStates == {"none", "spawned", "engine", "sendOk", "sendFail", "done"}
WaiterStates == {"none", "wait", "ok", "failed", "done"}

TypeOK ==
    /\ isRunning \in BOOLEAN
    /\ currentMode \in Modes
    /\ lock \in Switches \cup {Free}
    /\ snapshotMode \in Modes \cup {NoMode}
    /\ persistedMode \in Modes \cup {NoMode}
    /\ startAllowed \in BOOLEAN
    /\ pc \in [Calls -> Pcs]
    /\ mode \in [Stops \cup Switches -> Modes \cup {NoMode}]
    /\ target \in [Switches -> Modes \cup {NoMode}]
    /\ wasRunning \in [Switches -> BOOLEAN]
    /\ waiter \in [Launchers -> WaiterStates]
    /\ runner \in [Launchers -> RunnerStates]
    /\ RunStatusChan \in Seq({"ok", "failed"}) /\ Len(RunStatusChan) <= 1
    /\ httpPending \subseteq Launchers
    /\ httpUp \in BOOLEAN
    /\ tunUp \in BOOLEAN

\* restorePersistedMode: the stored mode, or the HTTP default.
RestoredMode == IF persistedMode = NoMode THEN "http" ELSE persistedMode

\* A fresh process: no routing snapshot is active and nothing serves.
Init ==
    /\ persistedMode \in Modes \cup {NoMode}
    /\ isRunning = FALSE
    /\ currentMode = RestoredMode
    /\ lock = Free
    /\ snapshotMode = NoMode
    /\ startAllowed \in BOOLEAN
    /\ \E made \in Scenarios : pc = [c \in Calls |-> IF c \in made THEN "idle" ELSE "absent"]
    /\ mode = [c \in Stops \cup Switches |-> NoMode]
    /\ target = [c \in Switches |-> NoMode]
    /\ wasRunning = [c \in Switches |-> FALSE]
    /\ waiter = [c \in Launchers |-> "none"]
    /\ runner = [c \in Launchers |-> "none"]
    /\ RunStatusChan = <<>>
    /\ httpPending = {}
    /\ httpUp = FALSE
    /\ tunUp = FALSE

\* resolveAuthoritativeModeLocked: the active snapshot overrides currentMode.
AuthoritativeMode == IF snapshotMode # NoMode THEN snapshotMode ELSE currentMode

\* Spawning the service of mode m on behalf of call c: a goroutine that runs
\* StartMitmHttp, or runner.Start with startTUN waiting for its result.
Launch(c, m) ==
    /\ httpPending' = IF m = "http" THEN httpPending \cup {c} ELSE httpPending
    /\ runner' = IF m = "tun" THEN [runner EXCEPT ![c] = "spawned"] ELSE runner
    /\ waiter' = IF m = "tun" THEN [waiter EXCEPT ![c] = "wait"] ELSE waiter

\* StopHttpProxy or engine.Stop, whichever mode m names.
StopRunner(m) ==
    /\ httpUp' = (httpUp /\ m # "http")
    /\ tunUp' = (tunUp /\ m # "tun")

-----------------------------------------------------------------------------
(* StartService *)

\* The startup-status and forced-update gates are read before the lock is taken.
StartGate(c) ==
    /\ pc[c] = "idle"
    /\ pc' = [pc EXCEPT ![c] = IF startAllowed THEN "checked" ELSE "done"]
    /\ UNCHANGED <<coreVars, lock, startAllowed, locals, tunVars, srvVars>>

StartAlreadyRunning(c) ==
    /\ pc[c] = "checked" /\ lock = Free
    /\ isRunning
    /\ pc' = [pc EXCEPT ![c] = "done"]
    /\ UNCHANGED <<coreVars, lock, startAllowed, locals, tunVars, srvVars>>

\* TUN without a usable wintun.dll: refused, but the mode has been resolved.
StartNoWintun(c) ==
    /\ pc[c] = "checked" /\ lock = Free
    /\ ~isRunning
    /\ AuthoritativeMode = "tun"
    /\ currentMode' = AuthoritativeMode
    /\ pc' = [pc EXCEPT ![c] = "done"]
    /\ UNCHANGED <<isRunning, snapshotMode, persistedMode, lock, startAllowed,
                   locals, tunVars, srvVars>>

StartLaunch(c) ==
    /\ pc[c] = "checked" /\ lock = Free
    /\ ~isRunning
    /\ isRunning' = TRUE
    /\ currentMode' = AuthoritativeMode
    /\ Launch(c, AuthoritativeMode)
    /\ pc' = [pc EXCEPT ![c] = "done"]
    /\ UNCHANGED <<snapshotMode, persistedMode, lock, startAllowed, locals,
                   RunStatusChan, httpUp, tunUp>>

\* startTUN / defaultStartTUN: <-RunStatusChan takes whichever result comes first ...
TunReceive(c) ==
    /\ waiter[c] = "wait"
    /\ RunStatusChan # <<>>
    /\ waiter' = [waiter EXCEPT ![c] = Head(RunStatusChan)]
    /\ RunStatusChan' = Tail(RunStatusChan)
    /\ UNCHANGED <<coreVars, lock, startAllowed, pc, locals, runner, srvVars>>

\* ... and handleTUNStartResultLocked overwrites isRunning with it.
TunHandle(c) ==
    /\ waiter[c] \in {"ok", "failed"} /\ lock = Free
    /\ isRunning' = (waiter[c] = "ok")
    /\ waiter' = [waiter EXCEPT ![c] = "done"]
    /\ UNCHANGED <<currentMode, snapshotMode, persistedMode, lock, startAllowed, pc,
                   locals, runner, RunStatusChan, srvVars>>

-----------------------------------------------------------------------------
(* StopService, called directly or by handleAuthExpired *)

\* handleAuthExpired first makes the startup state UNCONFIGURED ...
AuthExpired(c) ==
    /\ pc[c] = "idle"
    /\ startAllowed' = FALSE
    /\ pc' = [pc EXCEPT ![c] = "expired"]
    /\ UNCHANGED <<coreVars, lock, locals, tunVars, srvVars>>

\* ... and does nothing more when IsRunning answers false; otherwise it calls
\* StopService, which takes the lock again.
AuthExpiredIdle(c) ==
    /\ pc[c] = "expired" /\ lock = Free
    /\ ~isRunning
    /\ pc' = [pc EXCEPT ![c] = "done"]
    /\ UNCHANGED <<coreVars, lock, startAllowed, locals, tunVars, srvVars>>

StopNotRunning(c) ==
    /\ pc[c] = "idle" /\ lock = Free
    /\ ~isRunning
    /\ pc' = [pc EXCEPT ![c] = "done"]
    /\ UNCHANGED <<coreVars, lock, startAllowed, locals, tunVars, srvVars>>

\* The critical section: stoppedMode is the field, not the authoritative mode.
StopCommit(c) ==
    /\ pc[c] \in {"idle", "expired"} /\ lock = Free
    /\ isRunning
    /\ isRunning' = FALSE
    /\ mode' = [mode EXCEPT ![c] = currentMode]
    /\ pc' = [pc EXCEPT ![c] = "stopping"]
    /\ UNCHANGED <<currentMode, snapshotMode, persistedMode, lock, startAllowed,
                   target, wasRunning, tunVars, srvVars>>

\* httpStopRunner or tunStopRunner, outside the lock.
StopRun(c) ==
    /\ pc[c] = "stopping"
    /\ StopRunner(mode[c])
    /\ pc' = [pc EXCEPT ![c] = "done"]
    /\ UNCHANGED <<coreVars, lock, startAllowed, locals, tunVars, httpPending>>

-----------------------------------------------------------------------------
(* SwitchMode holds the lock from its first step to its last *)

\* wintun missing, or the target is already the authoritative mode: nothing but
\* the resolution of currentMode happens.  (An invalid target changes nothing.)
SwitchUnchanged(c, m) ==
    /\ pc[c] = "idle" /\ lock = Free
    /\ m = "tun" \/ m = AuthoritativeMode
    /\ currentMode' = AuthoritativeMode
    /\ pc' = [pc EXCEPT ![c] = "done"]
    /\ UNCHANGED <<isRunning, snapshotMode, persistedMode, lock, startAllowed,
                   locals, tunVars, srvVars>>

\* The running service of the previous mode is stopped under the lock.
SwitchBegin(c, m) ==
    /\ pc[c] = "idle" /\ lock = Free
    /\ m # AuthoritativeMode
    /\ lock' = c
    /\ currentMode' = AuthoritativeMode
    /\ mode' = [mode EXCEPT ![c] = AuthoritativeMode]
    /\ target' = [target EXCEPT ![c] = m]
    /\ wasRunning' = [wasRunning EXCEPT ![c] = isRunning]
    /\ isRunning' = FALSE
    /\ IF isRunning THEN StopRunner(AuthoritativeMode) ELSE UNCHANGED <<httpUp, tunUp>>
    /\ pc' = [pc EXCEPT ![c] = "apply"]
    /\ UNCHANGED <<snapshotMode, persistedMode, startAllowed, tunVars, httpPending>>

\* applyIngressModeUpdater(target)
SwitchApply(c) ==
    /\ pc[c] = "apply"
    /\ \/ /\ snapshotMode' = target[c]
          /\ currentMode' = target[c]
          /\ pc' = [pc EXCEPT ![c] = "persist"]
       \/ /\ pc' = [pc EXCEPT ![c] = "rollback"]
          /\ UNCHANGED <<snapshotMode, currentMode>>
    /\ UNCHANGED <<isRunning, persistedMode, lock, startAllowed, locals, tunVars, srvVars>>

\* persistModeLocked(target)
SwitchPersist(c) ==
    /\ pc[c] = "persist"
    /\ \/ /\ persistedMode' = target[c]
          /\ lock' = Free
          /\ pc' = [pc EXCEPT ![c] = "done"]
       \/ /\ pc' = [pc EXCEPT ![c] = "rollback"]
          /\ UNCHANGED <<persistedMode, lock>>
    /\ UNCHANGED <<isRunning, currentMode, snapshotMode, startAllowed, locals,
                   tunVars, srvVars>>

\* Variant for checking the properties: the previous ingress mode is not re-applied.
SwitchRollbackForgets(c) ==
    /\ pc[c] = "rollback"
    /\ currentMode' = AuthoritativeMode
    /\ isRunning' = wasRunning[c]
    /\ IF wasRunning[c] THEN Launch(c, mode[c]) ELSE UNCHANGED <<runner, waiter, httpPending>>
    /\ lock' = Free
    /\ pc' = [pc EXCEPT ![c] = "done"]
    /\ UNCHANGED <<snapshotMode, persistedMode, startAllowed, locals, RunStatusChan,
                   httpUp, tunUp>>

\* rollbackToPreviousModeLocked(previousMode, wasRunning), and the reply, which
\* resolves the authoritative mode once more.
SwitchRollback(c) ==
    /\ pc[c] = "rollback"
    /\ \/ snapshotMode' = mode[c] /\ pc' = [pc EXCEPT ![c] = "done"]
       \/ UNCHANGED snapshotMode /\ pc' = [pc EXCEPT ![c] = "broken"]
    /\ currentMode' = IF snapshotMode' = NoMode THEN mode[c] ELSE snapshotMode'
    /\ isRunning' = wasRunning[c]
    /\ IF wasRunning[c] THEN Launch(c, mode[c]) ELSE UNCHANGED <<runner, waiter, httpPending>>
    /\ lock' = Free
    /\ UNCHANGED <<persistedMode, startAllowed, locals, RunStatusChan, httpUp, tunUp>>

-----------------------------------------------------------------------------
(* The spawned goroutines *)

\* StartMitmHttp: a second one finds the server running and returns.
HttpRun(c) ==
    /\ c \in httpPending
    /\ httpPending' = httpPending \ {c}
    /\ httpUp' = TRUE
    /\ UNCHANGED <<coreVars, lock, startAllowed, pc, locals, tunVars, tunUp>>

\* runner.Start: engine.Start ...
TunEngine(c) ==
    /\ runner[c] = "spawned"
    /\ \/ /\ runner' = [runner EXCEPT ![c] = "engine"]
          /\ tunUp' = TRUE
       \/ /\ runner' = [runner EXCEPT ![c] = "sendFail"]
          /\ UNCHANGED tunUp
    /\ UNCHANGED <<coreVars, lock, startAllowed, pc, locals, waiter, RunStatusChan,
                   httpPending, httpUp>>

\* ... the remaining steps succeed, the last one spawning the HTTP proxy, or
\* rollbackStartup stops the engine.
TunRest(c) ==
    /\ runner[c] = "engine"
    /\ \/ /\ runner' = [runner EXCEPT ![c] = "sendOk"]
          /\ httpPending' = httpPending \cup {c}
          /\ UNCHANGED tunUp
       \/ /\ runner' = [runner EXCEPT ![c] = "sendFail"]
          /\ tunUp' = FALSE
          /\ UNCHANGED httpPending
    /\ UNCHANGED <<coreVars, lock, startAllowed, pc, locals, waiter, RunStatusChan, httpUp>>

\* Variant for checking the properties: a failed startup reports nothing.
TunSendOnlyOk(c) ==
    /\ runner[c] \in {"sendOk", "sendFail"}
    /\ Len(RunStatusChan) < 1
    /\ RunStatusChan' = IF runner[c] = "sendOk" THEN Append(RunStatusChan, "ok")
                                                ELSE RunStatusChan
    /\ runner' = [runner EXCEPT ![c] = "done"]
    /\ UNCHANGED <<coreVars, lock, startAllowed, pc, locals, waiter, srvVars>>

\* RunStatusChan <- result blocks while the channel's one slot is taken.  (After
\* a success the goroutine then waits for a signal that RunService never sends.)
TunSend(c) ==
    /\ runner[c] \in {"sendOk", "sendFail"}
    /\ Len(RunStatusChan) < 1
    /\ RunStatusChan' = Append(RunStatusChan,
                               IF runner[c] = "sendOk" THEN "ok" ELSE "failed")
    /\ runner' = [runner EXCEPT ![c] = "done"]
    /\ UNCHANGED <<coreVars, lock, startAllowed, pc, locals, waiter, srvVars>>

-----------------------------------------------------------------------------
(* The environment *)

\* Login, logout and update checks change the answer of StartService's gates.
GateChanges ==
    /\ startAllowed' = ~startAllowed
    /\ UNCHANGED <<coreVars, lock, pc, locals, tunVars, srvVars>>

\* POST /api/config/routing applies a snapshot with its own ingress mode; it does
\* not take modeChangeMutex.
ConfigApply(c, m) ==
    /\ pc[c] = "idle"
    /\ snapshotMode' = m
    /\ pc' = [pc EXCEPT ![c] = "done"]
    /\ UNCHANGED <<isRunning, currentMode, persistedMode, lock, startAllowed,
                   locals, tunVars, srvVars>>

\* The process ends and starts again: only the persisted mode survives, and the
\* calls in flight are lost with it (NewRunService, restorePersistedMode).
Restart ==
    /\ isRunning' = FALSE
    /\ currentMode' = RestoredMode
    /\ snapshotMode' = NoMode
    /\ lock' = Free
    /\ pc' = [c \in Calls |-> IF pc[c] \in {"idle", "absent"} THEN pc[c] ELSE "done"]
    /\ waiter' = [c \in Launchers |-> "none"]
    /\ runner' = [c \in Launchers |-> "none"]
    /\ RunStatusChan' = <<>>
    /\ httpPending' = {}
    /\ httpUp' = FALSE
    /\ tunUp' = FALSE
    /\ UNCHANGED <<persistedMode, startAllowed, locals>>

-----------------------------------------------------------------------------
StartNext(c) ==
    StartGate(c) \/ StartAlreadyRunning(c) \/ StartNoWintun(c) \/ StartLaunch(c)
StopNext(c) ==
    \/ AuthExpired(c) \/ AuthExpiredIdle(c)
    \/ StopNotRunning(c) \/ StopCommit(c) \/ StopRun(c)
SwitchEnter(c) == \E m \in Modes : SwitchUnchanged(c, m) \/ SwitchBegin(c, m)
SwitchStep(c) == SwitchApply(c) \/ SwitchPersist(c) \/ SwitchRollback(c)
TunStep(c) == TunEngine(c) \/ TunRest(c) \/ TunSend(c)
WaiterStep(c) == TunReceive(c) \/ TunHandle(c)

Next ==
    \/ \E c \in Starts : StartNext(c)
    \/ \E c \in Stops : StopNext(c)
    \/ \E c \in Switches : SwitchEnter(c) \/ SwitchStep(c)
    \/ \E c \in Launchers : HttpRun(c) \/ TunStep(c) \/ WaiterStep(c)
    \/ GateChanges
    \/ \E c \in Writes, m \in Modes : ConfigApply(c, m)
    \/ Restart

Spec == Init /\ [][Next]_vars

\* Goroutines that can run do run, and a mutex or channel operation that stays
\* possible is granted: a call that was made keeps taking steps.  The environment
\* owes nothing.
Fairness ==
    /\ \A c \in Starts : WF_vars(pc[c] = "checked" /\ StartNext(c))
    /\ \A c \in Stops : WF_vars(pc[c] # "idle" /\ StopNext(c))
    /\ \A c \in Switches : WF_vars(SwitchStep(c))
    /\ \A c \in Launchers : WF_vars(HttpRun(c)) /\ WF_vars(TunStep(c)) /\ WF_vars(WaiterStep(c))

FairSpec == Spec /\ Fairness

-----------------------------------------------------------------------------
(* Properties *)

InStartup(c) == runner[c] \in {"spawned", "engine", "sendOk", "sendFail"}

\* RunStatusChan is shared by all TUN startups and has one slot; still there is
\* exactly one result, sent or to be sent, for each startTUN that waits: nobody
\* waits for a result that never comes and no stale result is left for the next.
OneResultPerWaiter ==
    Cardinality({c \in Launchers : waiter[c] = "wait"})
        = Cardinality({c \in Launchers : InStartup(c)}) + Len(RunStatusChan)

NoWrites == \A c \in Writes : pc[c] # "done"
Settled(c) == pc[c] \notin {"apply", "persist", "rollback", "broken"}

\* As long as only SwitchMode changes the ingress mode and its rollback succeeds,
\* the mode in force whenever no switch is under way is the one a restart would
\* bring back, whichever step of the switch failed.
ModeSurvivesRestart ==
    NoWrites /\ (\A c \in Switches : Settled(c)) => AuthoritativeMode = RestoredMode

\* Every TUN start is answered: whatever stops, switches and further starts are
\* under way, nobody waits on RunStatusChan for ever.
StartAnswered == []<>(\A c \in Launchers : waiter[c] # "wait")

=============================================================================
