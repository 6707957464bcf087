-------------------------- MODULE RunService_proofs ---------------------------
(***************************************************************************)
(* For any number of concurrent starts, stops, switches and configuration  *)
(* writes, with restarts at any time: every startTUN that waits on the     *)
(* shared RunStatusChan has exactly one result coming, and the mode in     *)
(* force is the one a restart would bring back.                            *)
(*                                                                         *)
(* The first needs that a call launches at most once (Unlaunched), the     *)
(* second what SwitchMode knows at each of its steps while it holds        *)
(* modeChangeMutex (Switching).                                            *)
(***************************************************************************)
EXTENDS RunService, FiniteSetTheorems, TLAPS

Waiting == {c \in Launchers : waiter[c] = "wait"}
Starting == {c \in Launchers : InStartup(c)}

\* A call launches the service in its last step.
Unlaunched ==
    \A c \in Launchers : pc[c] \notin {"done", "broken"} => waiter[c] = "none" /\ runner[c] = "none"

Counted ==
    /\ IsFiniteSet(Waiting) /\ IsFiniteSet(Starting)
    /\ Cardinality(Waiting) = Cardinality(Starting) + Len(RunStatusChan)

UnderWay == {"apply", "persist", "rollback"}

\* A switch under way knows two real modes, the previous one and the target.
Targeted ==
    \A c \in Switches : pc[c] \in UnderWay => mode[c] \in Modes /\ target[c] \in Modes

Typed == TypeOK /\ Targeted

RInv == Typed /\ Unlaunched /\ Counted

\* modeChangeMutex is held by a switch exactly from its first step to its last.
Locked == \A c \in Switches : pc[c] \in UnderWay <=> lock = c

Unspoilt == NoWrites /\ \A c \in Switches : pc[c] # "broken"

\* What a switch under way knows: the mode to return to is the stored one, and once
\* applied the target is in force.
Switching ==
    /\ lock = Free => AuthoritativeMode = RestoredMode
    /\ \A c \in Switches : pc[c] \in UnderWay =>
          /\ mode[c] = RestoredMode
          /\ pc[c] = "persist" => snapshotMode = target[c]

MInv == Typed /\ Locked /\ (Unspoilt => Switching)

-----------------------------------------------------------------------------
(* Types *)

LEMMA LaunchTypes ==
  ASSUME TypeOK, NEW c \in Launchers, NEW m, Launch(c, m)
  PROVE  /\ httpPending' \subseteq Launchers
         /\ runner' \in [Launchers -> RunnerStates]
         /\ waiter' \in [Launchers -> WaiterStates]
BY DEF TypeOK, Launch, RunnerStates, WaiterStates

LEMMA ModesResolve ==
  ASSUME TypeOK
  PROVE  AuthoritativeMode \in Modes /\ RestoredMode \in Modes
BY DEF TypeOK, AuthoritativeMode, RestoredMode, Modes, NoMode

LEMMA Members == /\ Starts \subseteq Calls /\ Stops \subseteq Calls /\ Switches \subseteq Calls
                 /\ Writes \subseteq Calls /\ Launchers \subseteq Calls
                 /\ Starts \subseteq Launchers /\ Switches \subseteq Launchers
BY DEF Calls, Launchers

LEMMA TypeInit == Init => Typed
<1> SUFFICES ASSUME Init
             PROVE  Typed
  OBVIOUS
<1>1. currentMode \in Modes
  BY DEF Init, RestoredMode, Modes, NoMode
<1>2. pc \in [Calls -> Pcs] /\ \A c \in Calls : pc[c] \in {"idle", "absent"}
  <2>1. PICK made \in Scenarios : pc = [c \in Calls |-> IF c \in made THEN "idle" ELSE "absent"]
    BY DEF Init
  <2> QED
    BY <2>1 DEF Pcs
<1>3. RunStatusChan \in Seq({"ok", "failed"}) /\ Len(RunStatusChan) <= 1
  BY DEF Init
<1>4. /\ waiter \in [Launchers -> WaiterStates] /\ runner \in [Launchers -> RunnerStates]
      /\ mode \in [Stops \cup Switches -> Modes \cup {NoMode}]
      /\ target \in [Switches -> Modes \cup {NoMode}]
      /\ wasRunning \in [Switches -> BOOLEAN]
  BY DEF Init, WaiterStates, RunnerStates
<1>5. Targeted
  BY <1>2, Members DEF Targeted, UnderWay
<1> QED
  BY <1>1, <1>2, <1>3, <1>4, <1>5 DEF Init, Typed, TypeOK

LEMMA TypeStep == Typed /\ [Next]_vars => Typed'
<1> SUFFICES ASSUME Typed, [Next]_vars
             PROVE  Typed'
  OBVIOUS
<1> USE Members, ModesResolve DEF TypeOK, Typed, Targeted, UnderWay, coreVars, tunVars, srvVars, locals, Pcs
<1>1. ASSUME NEW c \in Starts, StartNext(c)
      PROVE  Typed'
  <2>1. CASE StartGate(c)
    BY <2>1 DEF StartGate
  <2>2. CASE StartAlreadyRunning(c)
    BY <2>2 DEF StartAlreadyRunning
  <2>3. CASE StartNoWintun(c)
    BY <2>3 DEF StartNoWintun
  <2>4. CASE StartLaunch(c)
    BY <2>4, LaunchTypes DEF StartLaunch
  <2> QED
    BY <1>1, <2>1, <2>2, <2>3, <2>4 DEF StartNext
<1>2. ASSUME NEW c \in Stops, StopNext(c)
      PROVE  Typed'
  <2>1. CASE AuthExpired(c)
    BY <2>1 DEF AuthExpired
  <2>2. CASE AuthExpiredIdle(c)
    BY <2>2 DEF AuthExpiredIdle
  <2>3. CASE StopNotRunning(c)
    BY <2>3 DEF StopNotRunning
  <2>4. CASE StopCommit(c)
    BY <2>4 DEF StopCommit
  <2>5. CASE StopRun(c)
    BY <2>5 DEF StopRun, StopRunner
  <2> QED
    BY <1>2, <2>1, <2>2, <2>3, <2>4, <2>5 DEF StopNext
<1>3. ASSUME NEW c \in Switches, SwitchEnter(c) \/ SwitchStep(c)
      PROVE  Typed'
  <2>1. ASSUME NEW m \in Modes, SwitchUnchanged(c, m)
        PROVE  Typed'
    BY <2>1 DEF SwitchUnchanged
  <2>2. ASSUME NEW m \in Modes, SwitchBegin(c, m)
        PROVE  Typed'
    <3>1. httpUp' \in BOOLEAN /\ tunUp' \in BOOLEAN
      BY <2>2 DEF SwitchBegin, StopRunner
    <3> QED
      BY <2>2, <3>1 DEF SwitchBegin
  <2>3. CASE SwitchApply(c)
    <3>1. snapshotMode' \in Modes \cup {NoMode}
      BY <2>3 DEF SwitchApply
    <3>2. currentMode' \in Modes
      BY <2>3 DEF SwitchApply
    <3> QED
      BY <2>3, <3>1, <3>2 DEF SwitchApply
  <2>4. CASE SwitchPersist(c)
    BY <2>4 DEF SwitchPersist
  <2>5. CASE SwitchRollback(c)
    <3>1. mode[c] \in Modes /\ snapshotMode' \in Modes \cup {NoMode} /\ currentMode' \in Modes
      BY <2>5 DEF SwitchRollback
    <3>2. /\ httpPending' \subseteq Launchers
          /\ runner' \in [Launchers -> RunnerStates]
          /\ waiter' \in [Launchers -> WaiterStates]
      BY <2>5, LaunchTypes DEF SwitchRollback
    <3> QED
      BY <2>5, <3>1, <3>2 DEF SwitchRollback
  <2> QED
    BY <1>3, <2>1, <2>2, <2>3, <2>4, <2>5 DEF SwitchEnter, SwitchStep
<1>4. ASSUME NEW c \in Launchers, HttpRun(c) \/ TunStep(c) \/ WaiterStep(c)
      PROVE  Typed'
  <2>1. CASE HttpRun(c)
    BY <2>1 DEF HttpRun
  <2>2. CASE TunEngine(c)
    BY <2>2 DEF TunEngine, RunnerStates
  <2>3. CASE TunRest(c)
    BY <2>3 DEF TunRest, RunnerStates
  <2>4. CASE TunSend(c)
    BY <2>4 DEF TunSend, RunnerStates
  <2>5. CASE TunReceive(c)
    BY <2>5 DEF TunReceive, WaiterStates
  <2>6. CASE TunHandle(c)
    BY <2>6 DEF TunHandle, WaiterStates
  <2> QED
    BY <1>4, <2>1, <2>2, <2>3, <2>4, <2>5, <2>6 DEF TunStep, WaiterStep
<1>5. CASE GateChanges
  BY <1>5 DEF GateChanges
<1>6. ASSUME NEW c \in Writes, NEW m \in Modes, ConfigApply(c, m)
      PROVE  Typed'
  BY <1>6 DEF ConfigApply
<1>7. CASE Restart
  <2>1. pc' \in [Calls -> Pcs] /\ \A c \in Calls : pc'[c] \in {"idle", "absent", "done"}
    BY <1>7 DEF Restart
  <2>2. RunStatusChan' \in Seq({"ok", "failed"}) /\ Len(RunStatusChan') <= 1
    BY <1>7 DEF Restart
  <2> QED
    BY <1>7, <2>1, <2>2 DEF Restart, WaiterStates, RunnerStates
<1>8. CASE UNCHANGED vars
  BY <1>8 DEF vars
<1> QED
  BY <1>1, <1>2, <1>3, <1>4, <1>5, <1>6, <1>7, <1>8 DEF Next

-----------------------------------------------------------------------------
(* One result for each wait on RunStatusChan *)

\* Nothing else moves a call into or out of either set.
LEMMA OtherCounts ==
  ASSUME Counted, RunStatusChan' = RunStatusChan, Waiting' = Waiting, Starting' = Starting
  PROVE  Counted'
BY DEF Counted

\* A call that has not launched yet waits for nothing and starts nothing: launching
\* the service adds it to both sets, or to neither.
LEMMA LaunchCounts ==
  ASSUME Typed, Counted, NEW c \in Launchers, NEW m, Launch(c, m), RunStatusChan' = RunStatusChan,
         waiter[c] = "none", runner[c] = "none"
  PROVE  Counted'
<1>1. CASE m = "tun"
  <2>1. Waiting' = Waiting \cup {c} /\ c \notin Waiting
    BY <1>1 DEF Launch, WaiterStates, Typed, TypeOK, Waiting, Starting, InStartup
  <2>2. Starting' = Starting \cup {c} /\ c \notin Starting
    BY <1>1 DEF Launch, RunnerStates, Typed, TypeOK, Waiting, Starting, InStartup
  <2>3. IsFiniteSet(Waiting') /\ Cardinality(Waiting') = Cardinality(Waiting) + 1
    BY <2>1, FS_AddElement DEF Counted
  <2>4. IsFiniteSet(Starting') /\ Cardinality(Starting') = Cardinality(Starting) + 1
    BY <2>2, FS_AddElement DEF Counted
  <2>5. Cardinality(Waiting) \in Nat /\ Cardinality(Starting) \in Nat /\ Len(RunStatusChan) \in Nat
    BY FS_CardinalityType DEF Counted, Typed, TypeOK
  <2> QED
    BY <2>3, <2>4, <2>5 DEF Counted
<1>2. CASE m # "tun"
  BY <1>2, OtherCounts DEF Launch, Waiting, Starting, InStartup
<1> QED
  BY <1>1, <1>2

\* Taking a result off the channel ends one wait.
LEMMA ReceiveCounts ==
  ASSUME Typed, Counted, NEW c \in Launchers, TunReceive(c)
  PROVE  Counted'
<1>1. Waiting' = Waiting \ {c} /\ c \in Waiting
  <2>1. Head(RunStatusChan) # "wait"
    BY DEF Typed, TypeOK, TunReceive
  <2> QED
    BY <2>1 DEF WaiterStates, TunReceive, Typed, TypeOK, Waiting, Starting, InStartup
<1>2. Starting' = Starting
  BY DEF TunReceive, Starting, InStartup
<1>3. IsFiniteSet(Waiting') /\ Cardinality(Waiting') = Cardinality(Waiting) - 1
  BY <1>1, FS_RemoveElement DEF Counted
<1>4. Len(RunStatusChan') = Len(RunStatusChan) - 1
  BY DEF TunReceive, Typed, TypeOK
<1>5. Cardinality(Waiting) \in Nat /\ Cardinality(Starting) \in Nat /\ Len(RunStatusChan) \in Nat
  BY FS_CardinalityType DEF Counted, Typed, TypeOK
<1> QED
  BY <1>2, <1>3, <1>4, <1>5 DEF Counted

\* Sending the result ends the startup that owes it.
LEMMA SendCounts ==
  ASSUME Typed, Counted, NEW c \in Launchers, TunSend(c)
  PROVE  Counted'
<1>1. Starting' = Starting \ {c} /\ c \in Starting
  BY DEF TunSend, RunnerStates, Typed, TypeOK, Waiting, Starting, InStartup
<1>2. Waiting' = Waiting
  BY DEF TunSend, Waiting
<1>3. IsFiniteSet(Starting') /\ Cardinality(Starting') = Cardinality(Starting) - 1
  BY <1>1, FS_RemoveElement DEF Counted
<1>4. Len(RunStatusChan') = Len(RunStatusChan) + 1
  BY DEF TunSend, Typed, TypeOK
<1>5. Cardinality(Waiting) \in Nat /\ Cardinality(Starting) \in Nat /\ Len(RunStatusChan) \in Nat
  BY FS_CardinalityType DEF Counted, Typed, TypeOK
<1> QED
  BY <1>2, <1>3, <1>4, <1>5 DEF Counted

LEMMA RInvStep == RInv /\ [Next]_vars => RInv'
<1> SUFFICES ASSUME RInv, [Next]_vars
             PROVE  Unlaunched' /\ Counted'
  BY TypeStep DEF RInv
<1> Typed /\ TypeOK
  BY DEF RInv, Typed
<1> USE Members DEF Unlaunched, Waiting, Starting, coreVars, tunVars, srvVars, locals
<1>1. ASSUME NEW c \in Starts, StartNext(c)
      PROVE  Unlaunched' /\ Counted'
  <2>1. CASE StartGate(c)
    BY <2>1, OtherCounts DEF StartGate, RInv, InStartup, TypeOK
  <2>2. CASE StartAlreadyRunning(c)
    BY <2>2, OtherCounts DEF StartAlreadyRunning, RInv, InStartup, TypeOK
  <2>3. CASE StartNoWintun(c)
    BY <2>3, OtherCounts DEF StartNoWintun, RInv, InStartup, TypeOK
  <2>4. CASE StartLaunch(c)
    <3>1. waiter[c] = "none" /\ runner[c] = "none" /\ Counted
      BY <2>4 DEF StartLaunch, RInv
    <3>2. Counted'
      BY <2>4, <3>1, LaunchCounts DEF StartLaunch
    <3> QED
      BY <2>4, <3>2 DEF StartLaunch, Launch, RInv, TypeOK
  <2> QED
    BY <1>1, <2>1, <2>2, <2>3, <2>4 DEF StartNext
<1>2. ASSUME NEW c \in Stops, StopNext(c)
      PROVE  Unlaunched' /\ Counted'
  <2>1. UNCHANGED tunVars /\ \A d \in Launchers : pc'[d] = pc[d]
    BY <1>2, CallsDisjoint DEF StopNext, AuthExpired, AuthExpiredIdle, StopNotRunning, StopCommit,
                               StopRun, TypeOK, Launchers
  <2> QED
    BY <2>1, OtherCounts DEF RInv, InStartup
<1>3. ASSUME NEW c \in Switches, SwitchEnter(c) \/ SwitchStep(c)
      PROVE  Unlaunched' /\ Counted'
  <2>1. ASSUME NEW m \in Modes, SwitchUnchanged(c, m)
        PROVE  Unlaunched' /\ Counted'
    BY <2>1, OtherCounts DEF SwitchUnchanged, RInv, InStartup, TypeOK
  <2>2. ASSUME NEW m \in Modes, SwitchBegin(c, m)
        PROVE  Unlaunched' /\ Counted'
    BY <2>2, OtherCounts DEF SwitchBegin, RInv, InStartup, TypeOK
  <2>3. CASE SwitchApply(c)
    BY <2>3, OtherCounts DEF SwitchApply, RInv, InStartup, TypeOK
  <2>4. CASE SwitchPersist(c)
    BY <2>4, OtherCounts DEF SwitchPersist, RInv, InStartup, TypeOK
  <2>5. CASE SwitchRollback(c)
    <3>1. waiter[c] = "none" /\ runner[c] = "none" /\ Counted
      BY <2>5 DEF SwitchRollback, RInv
    <3>2. CASE wasRunning[c]
      <4>1. Counted'
        BY <2>5, <3>1, <3>2, LaunchCounts DEF SwitchRollback
      <4> QED
        BY <2>5, <3>2, <4>1 DEF SwitchRollback, Launch, RInv, TypeOK
    <3>3. CASE ~wasRunning[c]
      BY <2>5, <3>3, OtherCounts DEF SwitchRollback, RInv, InStartup, TypeOK
    <3> QED
      BY <3>2, <3>3
  <2> QED
    BY <1>3, <2>1, <2>2, <2>3, <2>4, <2>5 DEF SwitchEnter, SwitchStep
<1>4. ASSUME NEW c \in Launchers, HttpRun(c) \/ TunStep(c) \/ WaiterStep(c)
      PROVE  Unlaunched' /\ Counted'
  <2>1. CASE HttpRun(c)
    BY <2>1, OtherCounts DEF HttpRun, RInv, InStartup, TypeOK
  <2>2. CASE TunEngine(c)
    BY <2>2, OtherCounts DEF TunEngine, RInv, InStartup, TypeOK, RunnerStates
  <2>3. CASE TunRest(c)
    BY <2>3, OtherCounts DEF TunRest, RInv, InStartup, TypeOK, RunnerStates
  <2>4. CASE TunSend(c)
    <3>1. Counted'
      BY <2>4, SendCounts DEF RInv
    <3> QED
      BY <2>4, <3>1 DEF TunSend, RInv, TypeOK
  <2>5. CASE TunReceive(c)
    <3>1. Counted'
      BY <2>5, ReceiveCounts DEF RInv
    <3> QED
      BY <2>5, <3>1 DEF TunReceive, RInv, TypeOK
  <2>6. CASE TunHandle(c)
    BY <2>6, OtherCounts DEF TunHandle, RInv, InStartup, TypeOK
  <2> QED
    BY <1>4, <2>1, <2>2, <2>3, <2>4, <2>5, <2>6 DEF TunStep, WaiterStep
<1>5. CASE GateChanges
  BY <1>5, OtherCounts DEF GateChanges, RInv, InStartup
<1>6. ASSUME NEW c \in Writes, NEW m \in Modes, ConfigApply(c, m)
      PROVE  Unlaunched' /\ Counted'
  <2>1. UNCHANGED tunVars /\ \A d \in Launchers : pc'[d] = pc[d]
    BY <1>6, CallsDisjoint DEF ConfigApply, TypeOK, Launchers
  <2> QED
    BY <2>1, OtherCounts DEF RInv, InStartup
<1>7. CASE Restart
  <2>1. Waiting' = {} /\ Starting' = {} /\ RunStatusChan' = <<>>
    BY <1>7 DEF Restart, InStartup
  <2>2. Counted'
    <3> HIDE DEF Waiting, Starting
    <3> QED
      BY <2>1, FS_EmptySet DEF Counted
  <2> QED
    BY <1>7, <2>2 DEF Restart
<1>8. CASE UNCHANGED vars
  BY <1>8, OtherCounts DEF vars, RInv, InStartup
<1> QED
  BY <1>1, <1>2, <1>3, <1>4, <1>5, <1>6, <1>7, <1>8 DEF Next

\* However many TUN startups share RunStatusChan, and whatever stops, switches and
\* restarts happen meanwhile, every startTUN that waits has exactly one result coming.
THEOREM ResultForEveryWaiter == Spec => []OneResultPerWaiter
<1>1. Init => RInv
  <2> SUFFICES ASSUME Init
               PROVE  RInv
    OBVIOUS
  <2>1. Waiting = {} /\ Starting = {} /\ RunStatusChan = <<>>
    BY DEF Init, Waiting, Starting, InStartup
  <2>2. Counted
    BY <2>1, FS_EmptySet DEF Counted
  <2> QED
    BY <2>2, TypeInit DEF Init, RInv, Unlaunched
<1>2. RInv /\ [Next]_vars => RInv'
  BY RInvStep
<1>3. RInv => OneResultPerWaiter
  BY DEF RInv, Counted, Waiting, Starting, OneResultPerWaiter
<1> QED
  BY <1>1, <1>2, <1>3, PTL DEF Spec

-----------------------------------------------------------------------------
(* The mode a restart brings back *)

\* The lock passes only between Free and the switch that takes or releases it.
LEMMA LockedStep == Typed /\ Locked /\ [Next]_vars => Locked'
<1> SUFFICES ASSUME Typed, Locked, [Next]_vars
             PROVE  Locked'
  OBVIOUS
<1> USE Members, CallsDisjoint DEF Locked, UnderWay, Typed, TypeOK, coreVars, tunVars, srvVars, locals
<1>1. ASSUME NEW c \in Starts, StartNext(c)
      PROVE  Locked'
  BY <1>1 DEF StartNext, StartGate, StartAlreadyRunning, StartNoWintun, StartLaunch
<1>2. ASSUME NEW c \in Stops, StopNext(c)
      PROVE  Locked'
  BY <1>2 DEF StopNext, AuthExpired, AuthExpiredIdle, StopNotRunning, StopCommit, StopRun
<1>3. ASSUME NEW c \in Switches, SwitchEnter(c) \/ SwitchStep(c)
      PROVE  Locked'
  BY <1>3 DEF SwitchEnter, SwitchStep, SwitchUnchanged, SwitchBegin, SwitchApply, SwitchPersist,
              SwitchRollback
<1>4. ASSUME NEW c \in Launchers, HttpRun(c) \/ TunStep(c) \/ WaiterStep(c)
      PROVE  Locked'
  BY <1>4 DEF HttpRun, TunStep, TunEngine, TunRest, TunSend, WaiterStep, TunReceive, TunHandle
<1>5. CASE GateChanges
  BY <1>5 DEF GateChanges
<1>6. ASSUME NEW c \in Writes, NEW m \in Modes, ConfigApply(c, m)
      PROVE  Locked'
  BY <1>6 DEF ConfigApply
<1>7. CASE Restart
  BY <1>7 DEF Restart
<1>8. CASE UNCHANGED vars
  BY <1>8 DEF vars
<1> QED
  BY <1>1, <1>2, <1>3, <1>4, <1>5, <1>6, <1>7, <1>8 DEF Next

\* Writes and broken rollbacks are never forgotten.
LEMMA UnspoiltBefore ==
  ASSUME Typed, [Next]_vars, Unspoilt', ~Restart
  PROVE  Unspoilt
<1> USE Members, CallsDisjoint
    DEF Unspoilt, NoWrites, Typed, TypeOK, coreVars, tunVars, srvVars, locals
<1>1. ASSUME NEW c \in Starts, StartNext(c)
      PROVE  Unspoilt
  BY <1>1 DEF StartNext, StartGate, StartAlreadyRunning, StartNoWintun, StartLaunch
<1>2. ASSUME NEW c \in Stops, StopNext(c)
      PROVE  Unspoilt
  BY <1>2 DEF StopNext, AuthExpired, AuthExpiredIdle, StopNotRunning, StopCommit, StopRun
<1>3. ASSUME NEW c \in Switches, SwitchEnter(c) \/ SwitchStep(c)
      PROVE  Unspoilt
  BY <1>3 DEF SwitchEnter, SwitchStep, SwitchUnchanged, SwitchBegin, SwitchApply, SwitchPersist,
              SwitchRollback
<1>4. ASSUME NEW c \in Launchers, HttpRun(c) \/ TunStep(c) \/ WaiterStep(c)
      PROVE  Unspoilt
  BY <1>4 DEF HttpRun, TunStep, TunEngine, TunRest, TunSend, WaiterStep, TunReceive, TunHandle
<1>5. CASE GateChanges
  BY <1>5 DEF GateChanges
<1>6. ASSUME NEW c \in Writes, NEW m \in Modes, ConfigApply(c, m)
      PROVE  Unspoilt
  BY <1>6 DEF ConfigApply
<1>8. CASE UNCHANGED vars
  BY <1>8 DEF vars
<1> QED
  BY <1>1, <1>2, <1>3, <1>4, <1>5, <1>6, <1>8 DEF Next

\* Without a configuration write, only a switch that holds the lock and a restart
\* touch what the mode is resolved from.
LEMMA SwitchingStep ==
  ASSUME Typed, Typed', Locked, Locked', Unspoilt => Switching, Unspoilt', [Next]_vars
  PROVE  Switching'
<1>0. CASE Restart
  <2>1. AuthoritativeMode' = RestoredMode'
    BY <1>0 DEF Restart, AuthoritativeMode, RestoredMode, NoMode
  <2>2. \A c \in Switches : pc'[c] \notin UnderWay
    BY <1>0, Members DEF Restart, UnderWay
  <2> QED
    BY <2>1, <2>2 DEF Switching
<1> SUFFICES ASSUME ~Restart, Switching
             PROVE  Switching'
  BY <1>0, UnspoiltBefore
<1> USE Members, CallsDisjoint DEF Switching, UnderWay, Typed, TypeOK, coreVars, tunVars, srvVars, locals,
        AuthoritativeMode, RestoredMode
<1>1. ASSUME NEW c \in Starts, StartNext(c)
      PROVE  Switching'
  BY <1>1 DEF StartNext, StartGate, StartAlreadyRunning, StartNoWintun, StartLaunch
<1>2. ASSUME NEW c \in Stops, StopNext(c)
      PROVE  Switching'
  BY <1>2 DEF StopNext, AuthExpired, AuthExpiredIdle, StopNotRunning, StopCommit, StopRun
<1>3. ASSUME NEW c \in Switches, SwitchEnter(c) \/ SwitchStep(c)
      PROVE  Switching'
  <2>1. ASSUME NEW m \in Modes, SwitchUnchanged(c, m)
        PROVE  Switching'
    BY <2>1 DEF SwitchUnchanged
  <2>2. ASSUME NEW m \in Modes, SwitchBegin(c, m)
        PROVE  Switching'
    BY <2>2 DEF SwitchBegin, Locked
  <2>3. CASE SwitchApply(c)
    BY <2>3 DEF SwitchApply, Locked
  <2>4. CASE SwitchPersist(c)
    BY <2>4 DEF SwitchPersist, Locked, Targeted, Modes, NoMode
  <2>5. CASE SwitchRollback(c)
    BY <2>5 DEF SwitchRollback, Locked, Unspoilt, Targeted, Modes, NoMode
  <2> QED
    BY <1>3, <2>1, <2>2, <2>3, <2>4, <2>5 DEF SwitchEnter, SwitchStep
<1>4. ASSUME NEW c \in Launchers, HttpRun(c) \/ TunStep(c) \/ WaiterStep(c)
      PROVE  Switching'
  BY <1>4 DEF HttpRun, TunStep, TunEngine, TunRest, TunSend, WaiterStep, TunReceive, TunHandle
<1>5. CASE GateChanges
  BY <1>5 DEF GateChanges
<1>6. ASSUME NEW c \in Writes, NEW m \in Modes, ConfigApply(c, m)
      PROVE  FALSE
  BY <1>6 DEF ConfigApply, Unspoilt, NoWrites
<1>8. CASE UNCHANGED vars
  BY <1>8 DEF vars
<1> QED
  BY <1>1, <1>2, <1>3, <1>4, <1>5, <1>6, <1>8 DEF Next

\* Whichever step of a switch fails, and whatever starts, stops and crashes come
\* between its steps: with no switch under way, the mode in force is the stored one.
THEOREM ModeKept == Spec => []ModeSurvivesRestart
<1>1. Init => MInv
  <2> SUFFICES ASSUME Init
               PROVE  MInv
    OBVIOUS
  <2>1. \A c \in Calls : pc[c] \in {"idle", "absent"}
    BY DEF Init
  <2>2. AuthoritativeMode = RestoredMode
    BY DEF Init, AuthoritativeMode
  <2> QED
    BY <2>1, <2>2, TypeInit, Members, CallsDisjoint DEF Init, MInv, Locked, Switching, UnderWay
<1>2. MInv /\ [Next]_vars => MInv'
  BY TypeStep, LockedStep, SwitchingStep DEF MInv
<1>3. MInv => ModeSurvivesRestart
  <2> SUFFICES ASSUME MInv, NoWrites, \A c \in Switches : Settled(c)
               PROVE  AuthoritativeMode = RestoredMode
    BY DEF ModeSurvivesRestart
  <2>1. Unspoilt /\ \A c \in Switches : pc[c] \notin UnderWay
    BY DEF Unspoilt, Settled, UnderWay
  <2>2. lock = Free
    BY <2>1 DEF MInv, Typed, TypeOK, Locked
  <2> QED
    BY <2>1, <2>2 DEF MInv, Switching
<1> QED
  BY <1>1, <1>2, <1>3, PTL DEF Spec

=============================================================================
