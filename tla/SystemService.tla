---------------------------- MODULE SystemService ----------------------------
(***************************************************************************)
(* The client as a service of the operating system: systemd units, launchd *)
(* jobs and Windows services (processor/setup), the commands "aliang       *)
(* service ..." (cmd/service.go) and the calls of the API                  *)
(* (app/http/services/system_service.go).  Both run the same steps, in     *)
(* different orders: a call is the sequence of the steps it has left.      *)
(***************************************************************************)
EXTENDS Naturals, Sequences, FiniteSets

Scopes == {"system", "user"}

VARIABLES
  hostOS,         \* "linux" | "darwin" | "windows"
  reg,            \* per scope: what the registration runs, if any
  proc,           \* per scope: the process of the service
  managed,        \* the managed copy of the executable is there
  managedConfig,  \* config.json is in the data directory
  coreJob, trayAgent,   \* darwin: the plists of the core service and of the menu bar companion
  svcCall         \* the call under way, or the last one and its answer

svcVars == <<hostOS, reg, proc, managed, managedConfig, coreJob, trayAgent, svcCall>>

Registrations == {"absent", "managed", "current", "marked"}
KeepFilesOfService == UNCHANGED <<hostOS, managed, managedConfig>>
KeepJobs == UNCHANGED <<coreJob, trayAgent>>

\* A Windows service has no scope.
Key(scope) == IF hostOS = "windows" THEN "system" ELSE scope

-----------------------------------------------------------------------------
(* The calls and their steps.                                              *)

\* Steps for macOS only, and for the managed executable, which the system's scope only has.
OnDarwin(steps) == IF hostOS = "darwin" THEN steps ELSE <<>>
SystemWide(scope, steps) == IF scope = "system" THEN steps ELSE <<>>

\* SystemServiceService.Install and Uninstall, the calls of the API
ApiInstall == <<"prepare", "check", "register">> \o OnDarwin(<<"tray">>) \o <<"status">>
ApiUninstall == <<"unregister">> \o OnDarwin(<<"untray">>) \o <<"removeExe">>

\* the commands
runServiceInstall(startNow) ==
  <<"check", "prepare", "register">> \o OnDarwin(<<"core", "oldTray">>)
    \o (IF startNow THEN <<"start">> ELSE <<>>)
runServiceUninstall(scope) ==
  <<"require", "unregister">> \o SystemWide(scope, <<"removeExe">>)
    \o OnDarwin(<<"uncore", "oldTray">>)

ControlSteps(op) ==
  CASE op = "start" -> <<"require", "start">>
    [] op = "stop" -> <<"require", "stop">>
    [] op = "restart" -> <<"require", "stop", "start">>
    [] op = "status" -> <<"status">>

SvcAnswers == {"none", "ok", "failed", "cut"}
NoSvcCall == [via |-> "cli", op |-> "none", scope |-> "user", todo |-> <<>>, exe |-> "elsewhere",
              root |-> FALSE, warned |-> FALSE, answer |-> "ok"]

Due(step) == svcCall.todo # <<>> /\ Head(svcCall.todo) = step
svcKey == Key(svcCall.scope)

Proceed(warned) ==
  svcCall' = [svcCall EXCEPT !.todo = Tail(@), !.warned = @ \/ warned,
                             !.answer = IF Tail(svcCall.todo) = <<>> THEN "ok" ELSE "none"]
Fail == svcCall' = [svcCall EXCEPT !.todo = <<>>, !.answer = "failed"]

\* A system-wide change needs privileges.  The caller is another binary, the managed executable or
\* the service itself.
Call(via, op, scope, steps) ==
  /\ svcCall.todo = <<>>
  /\ via = "api" => scope = "system"
  /\ \E exe \in {"elsewhere", "managed", "service"}, root \in BOOLEAN :
       /\ exe = "managed" => managed
       /\ exe = "service" => root /\ proc["system"] = "running" /\ via = "api"
       /\ IF op \in {"install", "uninstall"} /\ scope = "system" /\ ~root
          THEN svcCall' = [NoSvcCall EXCEPT !.op = op, !.via = via, !.scope = scope,
                                            !.answer = "failed"]
          ELSE svcCall' = [via |-> via, op |-> op, scope |-> scope, todo |-> steps,
                           exe |-> exe, root |-> root, warned |-> FALSE, answer |-> "none"]
  /\ UNCHANGED <<reg, proc>> /\ KeepFilesOfService /\ KeepJobs

-----------------------------------------------------------------------------
(* The managed executable and the configuration.                           *)

\* The target is removed before the rename: a failure there leaves none.  Each outcome is what is
\* there afterwards and whether the call succeeded.
copyExecutableFile == {<<TRUE, TRUE>>, <<managed, FALSE>>, <<FALSE, FALSE>>}

\* The managed executable is not copied to itself.
ensureManagedExecutable ==
  IF svcCall.exe # "elsewhere" THEN {<<managed, TRUE>>} ELSE copyExecutableFile

\* An existing target is kept; no source at all is no error; the copy may fail.
ensureManagedSystemServiceConfigPath ==
  IF managedConfig THEN {<<TRUE, TRUE>>} ELSE {<<TRUE, TRUE>>, <<FALSE, TRUE>>, <<FALSE, FALSE>>}

\* buildManagedSystemServiceInstallOptions; in the user's scope nothing is copied.
Prepare ==
  /\ Due("prepare")
  /\ \/ svcCall.scope = "user" /\ Proceed(FALSE) /\ UNCHANGED <<managed, managedConfig>>
     \/ /\ svcCall.scope = "system"
        /\ \E e \in ensureManagedExecutable :
             /\ managed' = e[1]
             /\ IF ~e[2] THEN Fail /\ UNCHANGED managedConfig
                ELSE \E c \in ensureManagedSystemServiceConfigPath :
                       managedConfig' = c[1] /\ IF c[2] THEN Proceed(FALSE) ELSE Fail
  /\ UNCHANGED <<hostOS, reg, proc>> /\ KeepJobs

\* removeManagedExecutable; on Windows retries and an elevated removal come before the failure.
removeManagedExecutable ==
  /\ Due("removeExe") \/ Due("removeOld")
  /\ \/ managed' = FALSE /\ Proceed(FALSE)
     \/ managed /\ UNCHANGED managed /\ IF Due("removeOld") THEN Proceed(TRUE) ELSE Fail
  /\ UNCHANGED <<hostOS, managedConfig, reg, proc>> /\ KeepJobs

-----------------------------------------------------------------------------
(* The service managers.                                                   *)

IsServiceInstalled == reg[svcKey] # "absent"

\* What the caller's registration runs.
ExecutablePath == IF svcCall.scope = "system" THEN "managed" ELSE "current"
ExecutableThere(kind) == kind = "managed" => managed

\* A service that exists is removed first.
CheckInstalled ==
  /\ Due("check")
  /\ svcCall' = [svcCall EXCEPT !.todo =
       (IF IsServiceInstalled THEN <<"unregister">> \o SystemWide(svcCall.scope, <<"removeOld">>)
        ELSE <<>>) \o Tail(@)]
  /\ UNCHANGED <<reg, proc>> /\ KeepFilesOfService /\ KeepJobs

RequireInstalled ==
  /\ Due("require")
  /\ IF IsServiceInstalled THEN Proceed(FALSE) ELSE Fail
  /\ UNCHANGED <<reg, proc>> /\ KeepFilesOfService /\ KeepJobs

\* Install: the unit or plist is written and loaded, and removed again when the load fails; launchd
\* starts the job at once.  A service marked for deletion still counts as installed.
RegisterLinux == reg' = [reg EXCEPT ![svcKey] = ExecutablePath] /\ UNCHANGED proc
RegisterDarwin ==
  /\ reg' = [reg EXCEPT ![svcKey] = ExecutablePath]
  /\ proc' = [proc EXCEPT ![svcKey] = IF ExecutableThere(ExecutablePath) THEN "activating" ELSE @]
RegisterWindows == reg' = [reg EXCEPT ![svcKey] = ExecutablePath] /\ UNCHANGED proc

Register ==
  /\ Due("register")
  /\ \/ Fail /\ UNCHANGED <<reg, proc>>
     \/ /\ ~IsServiceInstalled /\ (svcCall.scope = "system" \/ hostOS = "windows" => svcCall.root)
        /\ Proceed(FALSE)
        /\ \/ hostOS = "linux" /\ RegisterLinux
           \/ hostOS = "darwin" /\ RegisterDarwin
           \/ hostOS = "windows" /\ RegisterWindows
  /\ KeepFilesOfService /\ KeepJobs

\* The service that makes the call ends when it is stopped, and the call with it.
Cut(key) == svcCall.exe = "service" /\ key = "system"
Stopped(key) == proc' = [proc EXCEPT ![key] = "stopped"]
CutOff == svcCall' = [svcCall EXCEPT !.todo = <<>>, !.answer = "cut"]

\* systemctl is-active does not say "active" of a unit that is starting: it is not stopped.
LinuxIsRunning == proc[svcKey] = "running"

\* disable and remove may fail; the reload may fail after the unit is gone.
UnregisterLinux ==
  /\ IF LinuxIsRunning THEN Stopped(svcKey) ELSE UNCHANGED proc
  /\ IF LinuxIsRunning /\ Cut(svcKey) THEN CutOff /\ UNCHANGED reg
     ELSE \/ Fail /\ UNCHANGED reg
          \/ reg' = [reg EXCEPT ![svcKey] = "absent"] /\ (Proceed(FALSE) \/ Fail)

\* launchctl list knows the job, running or only loaded.
DarwinIsLoaded == proc[svcKey] # "stopped"

\* unload and the removal of the plist may fail.
UnregisterDarwin ==
  \/ Fail /\ UNCHANGED <<reg, proc>>
  \/ /\ Stopped(svcKey)
     /\ IF DarwinIsLoaded /\ Cut(svcKey) THEN CutOff /\ UNCHANGED reg
        ELSE \/ Fail /\ UNCHANGED reg
             \/ reg' = [reg EXCEPT ![svcKey] = "absent"] /\ Proceed(FALSE)

\* The service is told to stop and marked for deletion; it disappears when its process has ended.
UnregisterWindows ==
  \/ Fail /\ UNCHANGED <<reg, proc>>
  \/ /\ reg' = [reg EXCEPT ![svcKey] = "marked"] /\ UNCHANGED proc
     /\ svcCall' = [svcCall EXCEPT !.todo = <<"waitRemoval">> \o Tail(@)]

Unregister ==
  /\ Due("unregister")
  /\ IF ~IsServiceInstalled THEN Fail /\ UNCHANGED <<reg, proc>>
     ELSE \/ hostOS = "linux" /\ UnregisterLinux
          \/ hostOS = "darwin" /\ UnregisterDarwin
          \/ hostOS = "windows" /\ UnregisterWindows
  /\ KeepFilesOfService /\ KeepJobs

\* Variant for checking the properties: the timeout of the wait is no failure.
waitForServiceRemovalGivesUp ==
  /\ Due("waitRemoval")
  /\ Proceed(reg[svcKey] # "absent")
  /\ UNCHANGED <<reg, proc>> /\ KeepFilesOfService /\ KeepJobs

waitForServiceRemoval ==
  /\ Due("waitRemoval")
  /\ \/ reg[svcKey] = "absent" /\ Proceed(FALSE)
     \/ reg[svcKey] # "absent" /\ Fail
  /\ UNCHANGED <<reg, proc>> /\ KeepFilesOfService /\ KeepJobs

\* The start after an installation only warns when it fails.
StartOfService ==
  /\ Due("start")
  /\ \/ IF svcCall.op = "install" THEN Proceed(TRUE) /\ UNCHANGED proc ELSE Fail /\ UNCHANGED proc
     \/ /\ ExecutableThere(reg[svcKey]) /\ IsServiceInstalled /\ reg[svcKey] # "marked" /\ Proceed(FALSE)
        /\ proc' = [proc EXCEPT ![svcKey] = IF @ = "stopped" THEN "activating" ELSE @]
  /\ UNCHANGED reg /\ KeepFilesOfService /\ KeepJobs

StopOfService ==
  /\ Due("stop")
  /\ \/ Fail /\ UNCHANGED proc
     \/ IsServiceInstalled /\ Stopped(svcKey) /\ Proceed(FALSE)
  /\ UNCHANGED reg /\ KeepFilesOfService /\ KeepJobs

\* GetStatus at the end of a call, and the status commands: it may fail, and changes nothing.
StatusOfService ==
  /\ Due("status")
  /\ \/ Proceed(FALSE)
     \/ hostOS = "windows" /\ Fail
  /\ UNCHANGED <<reg, proc>> /\ KeepFilesOfService /\ KeepJobs

-----------------------------------------------------------------------------
(* macOS: the core service and the menu bar companion.                     *)

\* A failure after the plist is written leaves it.
InstallMacOSCoreService ==
  /\ Due("core")
  /\ \/ Proceed(TRUE) /\ UNCHANGED coreJob
     \/ svcCall.root /\ coreJob' = TRUE /\ (Proceed(FALSE) \/ Proceed(TRUE))
  /\ UNCHANGED <<reg, proc, trayAgent>> /\ KeepFilesOfService

UninstallMacOSCoreService ==
  /\ Due("uncore")
  /\ \/ Proceed(TRUE) /\ UNCHANGED coreJob
     \/ svcCall.root /\ coreJob' = FALSE /\ Proceed(FALSE)
  /\ UNCHANGED <<reg, proc, trayAgent>> /\ KeepFilesOfService

InstallMacOSTrayAgent ==
  /\ Due("tray")
  /\ \/ Proceed(TRUE) /\ trayAgent' \in {trayAgent, TRUE}
     \/ Proceed(FALSE) /\ trayAgent' = TRUE
  /\ UNCHANGED <<reg, proc, coreJob>> /\ KeepFilesOfService

\* The failure warns in the API and is only logged by the commands.
UninstallMacOSTrayAgent ==
  /\ Due("untray") \/ Due("oldTray")
  /\ \/ trayAgent /\ UNCHANGED trayAgent /\ Proceed(Due("untray"))
     \/ trayAgent' = FALSE /\ Proceed(FALSE)
  /\ UNCHANGED <<reg, proc, coreJob>> /\ KeepFilesOfService

-----------------------------------------------------------------------------
(* The operating system.                                                   *)

\* A registered service is started (at boot, or again after it ended) when its executable is there;
\* it comes up, or ends.  A marked service disappears with its process.
ServiceProcess(scope) ==
  /\ \/ /\ proc[scope] = "stopped" /\ reg[scope] \in {"managed", "current"} /\ ExecutableThere(reg[scope])
        /\ proc' = [proc EXCEPT ![scope] = "activating"] /\ UNCHANGED <<reg, svcCall>>
     \/ /\ proc[scope] = "activating" /\ UNCHANGED <<reg, svcCall>>
        /\ proc' = [proc EXCEPT ![scope] = "running"]
     \/ /\ proc[scope] # "stopped" /\ Stopped(scope) /\ UNCHANGED reg
        /\ IF Cut(scope) /\ svcCall.todo # <<>> THEN CutOff ELSE UNCHANGED svcCall
     \/ /\ reg[scope] = "marked" /\ proc[scope] = "stopped" /\ UNCHANGED <<proc, svcCall>>
        /\ reg' = [reg EXCEPT ![scope] = "absent"]
  /\ KeepFilesOfService /\ KeepJobs

SvcInit ==
  /\ hostOS \in {"linux", "darwin", "windows"}
  /\ reg = [s \in Scopes |-> "absent"] /\ proc = [s \in Scopes |-> "stopped"]
  /\ managed = FALSE /\ managedConfig \in BOOLEAN
  /\ coreJob = FALSE /\ trayAgent = FALSE
  /\ svcCall = NoSvcCall

SvcNext ==
  \/ \E via \in {"api", "cli"}, scope \in Scopes :
       Call(via, "status", scope, ControlSteps("status"))
  \/ Call("api", "install", "system", ApiInstall) \/ Call("api", "uninstall", "system", ApiUninstall)
  \/ \E scope \in Scopes :
       \/ \E startNow \in BOOLEAN : Call("cli", "install", scope, runServiceInstall(startNow))
       \/ Call("cli", "uninstall", scope, runServiceUninstall(scope))
  \/ \E op \in {"start", "stop", "restart"}, scope \in Scopes : Call("cli", op, scope, ControlSteps(op))
  \/ Prepare \/ removeManagedExecutable \/ CheckInstalled \/ RequireInstalled \/ Register \/ Unregister
  \/ waitForServiceRemoval \/ StartOfService \/ StopOfService \/ StatusOfService
  \/ InstallMacOSCoreService \/ UninstallMacOSCoreService
  \/ InstallMacOSTrayAgent \/ UninstallMacOSTrayAgent
  \/ \E scope \in Scopes : ServiceProcess(scope)

SvcSpec == SvcInit /\ [][SvcNext]_svcVars

-----------------------------------------------------------------------------

\* Types of the registrations, the files and the call.
SvcTypeOK ==
  /\ reg \in [Scopes -> Registrations]
  /\ proc \in [Scopes -> {"stopped", "activating", "running"}]
  /\ {managed, managedConfig, coreJob, trayAgent, svcCall.root, svcCall.warned} \subseteq BOOLEAN
  /\ svcCall.answer \in SvcAnswers /\ (svcCall.answer = "none" <=> svcCall.todo # <<>>)

\* An uninstallation that was answered with success, by the command or by the API, has removed the
\* registration (on Windows also a service that was only marked for deletion) and the managed
\* executable, and on macOS, unless it warned, the companion that its own installation had added.
UninstallComplete ==
  (svcCall.op = "uninstall" /\ svcCall.answer = "ok") =>
    /\ reg[svcKey] = "absent"
    /\ svcCall.scope = "system" => ~managed
    /\ (hostOS = "darwin" /\ ~svcCall.warned) =>
         IF svcCall.via = "api" THEN ~trayAgent ELSE ~coreJob

\* "failed to clean previous managed executable": a reinstallation from another binary removes the
\* executable of the previous installation, so that the registration it answers with success runs
\* a file that exists.
RegisteredServiceRuns ==
  (svcCall.op = "install" /\ svcCall.answer = "ok" /\ svcCall.exe = "elsewhere")
    => ExecutableThere(reg[svcKey])
=============================================================================
