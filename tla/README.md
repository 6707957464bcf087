# Verification of the aliang gateway client

This directory is a TLA+ development kept beside the Go client. It models
the program component by component, checks the models with TLC on small
instances, shows that two of them implement an abstract specification, and
proves the properties that matter most with TLAPS for every value of the
constants. The code is the reference: every definition names, in
`PROJECT.json` under `map`, the lines it stands for.

1. [The system](#1-the-system): the parts, what each keeps and what can go wrong
2. [Modules](#2-modules-and-how-they-correspond-to-the-code): how models and code correspond
3. [Runs](#3-runs): what TLC checks, with which bounds
4. [Fairness](#4-fairness)
5. [Proofs](#5-proofs): what TLAPS proves and along which argument
6. [Behaviours found](#6-behaviours-found): where the code does not do what one would expect
7. [Not modelled](#7-not-modelled)
8. [Plan](#8-plan)

## 1. The system

The client is one process (`cmd`) with an HTTP API (`app/http`), driven by a
web page, a tray program and the command line. It captures the traffic of the
machine in one of two *ingress modes*: an HTTP CONNECT proxy
(`inbound/http`), or a TUN device with a user-space network stack
(`inbound/tun`). Every captured TCP connection goes through one handler
(`processor/tcp`), which finds out the host name, decides a route (Aliang,
SOCKS upstream, direct), possibly intercepts TLS, dials and relays. An account
session (`processor/auth`) gates the whole; configurations
(`processor/config`, `app/http/services`) are stored in files and SQLite.

```
   web page, tray (Companion), CLI
        │  HTTP API, IPC (CoreDaemon)
        ├──► RunService ──► HttpProxyServer ───────────────┐
        │        │  └─────► TunRunner ──► TunTunnel ───────┤
        │        ├─ blocked by SoftwareUpdate              ▼
        │        └─ needs Wintun (Windows)            TcpHandler ──► Routing
        ├──► AuthSession ──expired──► RunService        │  │  └───► IpDomainCache
        ├──► ConfigCommit ──config──► TcpHandler        │  └──► Outbound
        ├──► SoftwareSync ──activation──► ConfigCommit  ├──► Relay, UdpSession
        ├──► Certificates ──host certificates──►        ├──► HttpWatcher, Http1Relay
        ├──► SystemService                              └──► Statistics
        └──► Logger (every component logs)         DnsResolver (not read by anyone)
```

### Components modelled

| Component | State it keeps | Operations | Interacts by | What is hard | What makes it correct |
|---|---|---|---|---|---|
| HTTP CONNECT proxy server (`inbound/http/server.go`) | package variables `isHttpRunning`, `httpCtx`, `httpCancel`, `httpListener` | `StartMitmHttp` with its accept loop, `StopHttpProxy` | spawned by RunService and the TUN runner as goroutines | starts and stops overlap; the mutex is dropped around `Listen`, `Close` and `Accept` | a server gets out of reach of a stop only through the flag; the flag is true only for a live server; a stopped loop ends |
| Run service (`app/http/services/run.go`) | `isRunning`, `currentMode`, the stored mode, `modeChangeMutex`, `RunStatusChan` | `StartService`, `StopService`, `SwitchMode`, the session-expired hook, restart | calls of API handlers; a channel with the TUN runner | one result slot shared by all startups; rollback of a failed switch; configuration written behind its back | each waiting start gets exactly one result; the mode in force is the one a restart restores; `IsRunning` tells the truth |
| Auth session (`processor/auth`, `auth_service.go`) | the session in SQLite and in `currentUserInfo`, `refreshSessionMu`, the refresher flag, the startup status | login, refresh, tick, restore, logout, profile update, clearing after a 401 | the account server; the expiry hook of RunService | two copies written one after the other; the server rotates tokens; only some writers hold the mutex | a rotated token is never sent again; both copies stay usable; every call returns |
| Configuration commit (`runtime_commit_coordinator.go` and three services) | active and committed snapshot, files, snapshot rows, global configuration | core update, customer update, activation for another program, restart | one coordinator shared by three services | a stage fails after another succeeded; crash between stages; base read outside the mutex | between commits snapshot, database and memory agree; a rollback restores the committed file |
| TCP connection handler (`processor/tcp/handler.go`, `tls.go`) | per connection: name, route, interception, buffered bytes | naming, decision, interception, dialling | cache, global configuration, routing snapshot, registry, all changing meanwhile | four reads of shared state at four moments | Aliang traffic leaves through Aliang or not at all; a name from the cache is unambiguous; sniffed bytes are replayed |
| Domain binding cache (`processor/cache`) | forward index, LRU list, reverse index | `Set`, `Get`, `GetByIP`, delete, clear, cleanup, eviction | connections and the API | expiry, eviction and moved addresses touch three structures | bounded; what is in the forward index is in the reverse index |
| Routing (`processor/routing`, `processor/rules`, `processor/geoip`, `processor/config/routing_*.go`) | applied schema, compiled snapshot, rule engine, decision cache, GeoIP database and its cache | normalise, validate and apply a schema, switch the mode, decide, look up | TcpHandler, RunService, the API | two applications prepared outside the lock; defaults for what a schema leaves out | a decision never names an egress that its own snapshot has closed |
| TCP relay (`processor/tcp/relay.go`) | two copying goroutines, flags, deadlines | the three teardowns | one per connection | each goroutine tears down while the other copies | no live direction is closed; a deadline only after the other direction ended; relays of peers that read end |
| TUN tunnel (`inbound/tun/tunnel`) | two bounded queues, two worker pools | `HandleTCP`, `HandleUDP`, workers, panics | the stack; TcpHandler, Relay, UDP sessions | full queues; workers held by relays; panics | workers are lost only to panics, no connection is lost or served twice |
| UDP sessions (`inbound/tun/tunnel/udp.go`) | two read deadlines per session | packets, timeouts | the tunnel's UDP workers | a deadline renewed by the other direction | a timeout means the session was quiet, but for the packet being handed on; sessions end |
| TUN runner and engine (`inbound/tun/runner`, `inbound/tun/engine`) | `_defaultDevice`, `_defaultStack`, steps completed, `RunStatusChan`, `TunSignal`, progress; in the system: device, address, routes | startup in steps, rollback, engine stop, signal teardown | RunService, operating-system commands | any step fails; stops in the middle; globals shared by startups | no routes into an unread device; a failed startup closes its device, or at least leaves it without routes; progress settles; a signal clears the routes |
| HTTP watcher (`processor/watcher`) | protocol, partial heads and frames, body trackers, HTTP/2 stream table | sniffing, HTTP/1 framing, HTTP/2 frames, rewriting of request heads; the relay of HTTP/1 request by request | TcpHandler | reads cut anywhere; undecodable blocks after frames were consumed; a stream removed by the response side meanwhile | what is forwarded is what the client sent, with rewritten heads; a response goes to its request; a finished stream does not come back |
| DNS resolvers (`processor/dns`) | four caches of a hybrid resolver | lookups, preloading, clean-up, clearing | none at present | four caches that expire apart; answers stored late | an answer is never older than the longest lifetime |
| Statistics (`processor/statistic`) | totals, per-connection counters, rings, chart, recent requests, AI activity | transfers, snapshot, sampling, recording | relay, watcher, API | lock-free counters read one by one | figures shown together add up |
| Outbounds (`outbound`) | registry, link status, one connection per dial | dialling each protocol by stages, probing | TcpHandler | a stage fails after the connection is open | a failed dial leaves no connection open (SOCKS5 and VLESS do, see section 6); the link shows "connecting" only while someone connects |
| Software update | snapshot and dismissals in SQLite, trigger channel | check, store, show, dismiss, restart | RunService, the page | a check that fails while a forced update is known | a failed check does not take an offer away |
| Software configurations | rows in SQLite, the cloud's rows | save, activate, select, delete, push, pull, compare | ConfigCommit, the cloud | an answer merged after local changes | one configuration of a program is in use |
| Logger (`common/logger`) | asynchronous queue, ring of entries, level, error windows, streams | write, flush, close, configure, report, stream | every component | a close among writers; a full queue | accepted lines reach the file in order; the ring is the newest entries; reports are throttled |
| IPC and tray (`internal/ipc`, `app/tray`, `cmd/core.go`) | socket, dashboard server, proxy flag; the tray's menu and belief | requests of the tray, start and stop of the dashboard, quitting, restart of the core | RunService | two goroutines on one connection; answers lost or swapped | the dashboard's globals name the server that accepts; a Windows quit goes on only after a stop was handled |
| Certificates (`processor/cert`, `cert_service.go`) | files, trust stores, signing pair and host certificates in memory | generate, load, sign, install, remove, status, download | TcpHandler, API | test, generation and load without a lock; crash between two files | a host certificate is signed by the certificate it is sent with |
| Wintun dependency | one status, one installation in the background | status, refresh, install | RunService, API | requests while the installation fails | "installing" exactly while one runs |
| System service and installers (`processor/setup`, `cmd/service.go`, `system_service.go`) | registration, process, managed copy, jobs | install, uninstall, start, stop, status, by API and command | the operating system | the same steps in different orders, each failing | an uninstallation that succeeds leaves nothing |

The token refresher loop and the command line are modelled only where they
touch these components (one tick of the refresher, loading the configuration
at a start, the service commands).

### Components not modelled

| Component | Why |
|---|---|
| TUN device, dialer, options | adapters over the system and gVisor without control of their own |
| Single instance, runtime paths | a file lock and path computation, decided by the operating system |
| Quick setup, scan for conflicting adapters | texts for other programs and a warning that no other component uses |
| HTTP API layer, web user interface | decoding and encoding around the services; each request is a call of a modelled service |

The hazards of the code, each at its line and with the properties that cover
it, are in `PROJECT.json`.

## 2. Modules and how they correspond to the code

A call, connection or startup is a member of a constant set, used once; its
program counter says where in the function it stands. A critical section, a
system call or a request is one action; everything the Go code does between
two of them without touching shared state belongs to the action before it.
*Scenarios* (a constant) list which calls are made together; the choice is
made in `Init` and kept in variables that never change.

**HttpProxyServer.** `StartClaim`, `Listen`, `Publish`, `AcceptError`, and the
loop's three ways on (`LoopDone`, `LoopExit`, `LoopContinue`) are
`StartMitmHttp`; `StopCancel`, `StopClose`, `StopFinish` are `StopHttpProxy`,
which drops the mutex in between. A member of `Starts` names the context and
the listener its call creates. `Fatal` is the `logger.Fatal` when the listener
cannot be created. `LostOnlyToFlag` is about what the guard of `StopHttpProxy` looks at:
a server whose listener is open is of no use to a stop that returns because
`isHttpRunning` is false (section 6).

**RunService.** The mutex is a variable because `SwitchMode` holds it over
several steps; `StartService` reads the startup status before it takes it. The
HTTP server and the TUN runner are reduced to what RunService sees of them.
`ConfigApply` is the routing API, which writes the ingress mode past
RunService; `Restart` brings back what the store holds.

**AuthSession.** Sessions are refresh tokens, numbered as the server issues
them. The server (external) rotates: `valid` and `superseded` are its state.
`harsh` scenarios let a request time out after the server has acted, and let
SQLite fail.

**ConfigCommit.** A document maps its sections to the call that wrote them
last, which is enough to see whose content a file holds; decoding a foreign
document as a `Config` loses it (`AsConfig`). A failing file write leaves the
file truncated (`Torn`). `Restart` reads the sources in the order of
`cmd/config.go`.

**ConfigRegister** is what the coordinator promises to its callers: a register
that a commit changes in one step to a snapshot its call has written to,
together with the configuration and the database, or not at all, and that a
restart forgets. ConfigCommit implements it
(`Register == INSTANCE ConfigRegister WITH ...`, `ImplementsRegister`): the
register is the active snapshot outside a commit and the committed one during
it, so that the mapping hides what the stages do to the active snapshot while
the mutex keeps every other commit out; configuration and database are mapped as
they are.

**IpDomainCache** is one record and an operator per method; every method holds
the cache's lock throughout. **TcpHandler** extends it: it names a connection
(`TlsPreset`, `TlsSni`, `TlsLookup`, `PlainHttp`, `ReverseLookup`, ...), decides with
the global configuration, executes with the applied schema and the registry,
and stores the binding at the end of a good relay. Contents of a connection
are a *profile*: port class, address, preset name, what its first bytes show. The history
`seen` holds, for every binding that was stored, the name, the address and the
source: what a client showed is told from what the resolver answered.

**Relay** and **UdpSession** hold the two goroutines of a TCP connection and of
a UDP session, one action per call on a connection: reads and writes of a relay are apart
(`ReadSome`, `WriteSome`), as are in a session the two renewals of a deadline around each packet
(`RenewSource`, `ReadPacket`, `WritePacket`, `RenewTarget`), so that either direction may
time out or be torn down while the other stands between them; **TunTunnel** extends both and adds queues and workers, so that
a relay occupies a worker for as long as it runs. A profile says what the
handler of a connection does: fails, panics, or relays in one of the modes.

**Pool** is what the tunnel promises to the stack that hands it connections: a bag
in which each connection is served at most once, never more of one protocol at a time than
workers are left for it, and only a connection whose handler panics takes a worker with it.
TunTunnel implements it (`ConnPool == INSTANCE Pool WITH ...`, `ImplementsPool`):
a connection waits while `HandleTCP` is blocked and while it is queued (`Stages`), the workers
lost are those that are dead, and the faulty connections are the ones whose profile
says so. Queues, their order, workers, relays and timers are hidden.

**TunRunner.** One action per step of `startWithRollback`, `rollbackStartup`
and `stopTun`, and per critical section of the engine. Every step begins by saying
"starting" (`Starting`), and the attempts to create the device and the permission
requests may say it again (`MaySayStarting`). The operating system is
modelled by what the code relies on: a device name is taken by one device,
address and routes vanish with the device, a route through the device needs
its address.

**HttpWatcher.** The client's bytes are a sequence of *units*, runs of bytes
that the parsers treat alike, and a read ends at any unit boundary. Heads,
bodies by length and by chunks, and HTTP/2 frames are consumed as the wrappers
do; a block HPACK refuses makes the connection fall back to raw copying. The
stream table is shared with the response side (`observeHTTP2ResponseFrames`
interleaves between the two locks of a header frame). `ForwardsRewrittenStream` compares what
has left with what a rewriting of the whole conversation would give; `NothingLostOrMoved`
relates what has left and what is held back to what has arrived, unit by unit. Of the
headers of a rewritten head, `Authorization-Inner` and the one that frames the body are
told apart (`h1Headers`, `h2Headers`).
**Http1Relay** is the other way an intercepted HTTP/1 connection is relayed:
three goroutines, a pipe, a 504 after the timeout.

**Routing.** `Normalized` and `Validate` are the normalisation of a schema,
`CompileRuntimeSnapshot` and `DecideRouteFromSnapshot` the decision; an application of a schema is two
steps because the schema is prepared before the lock of the store is taken.
The rule engine and the GeoIP service follow, with their caches.

**DnsResolver** has four caches because a hybrid resolver is four resolvers;
an address is its family and the time it was obtained, so that staleness can
be seen. **Statistics** models one direction of traffic in units of a write;
`ring` buffers, the chart and the recent requests are their contents.
**Outbound** gives every protocol its list of stages; what a failing stage does
to the open connection is the protocol's own.

**SoftwareUpdate**, **SoftwareSync**: one action per transaction and per request
to a server; an answer may be lost after the server has acted, a transaction
may fail as a whole. **Logger** has four parts that share nothing: the
asynchronous writer, the ring, the throttle and the streams. **CoreDaemon** is
the core process as its clients see it, and **Companion** extends it with the
tray in three forms: requests and responses are two queues of one socket, on
which the menu goroutine and the ticker goroutine read and write without a lock. The
dashboard's listener is open before its goroutine comes to `srv.Serve` (`fresh`, then `serving`
by `ServeBegins`); a shutdown in between closes nothing (`orphaned`).

**Certificates.** A certificate is its serial number. Files may be absent, torn
or of different generations; `LoadX509KeyPair` refuses a pair that does not
belong together. The trust stores of macOS, Linux and Windows are one set with
the comparison each installer makes. **Wintun**: one installation is one
goroutine, `Crash` leaves its files behind. **SystemService**: API and command
run the same steps in different orders, so a call is the sequence of the steps
it has left, put together from what its scope and the platform ask for
(`SystemWide`, `OnDarwin`); each may fail, and on Windows a service may stay marked for
deletion.

`MCInbounds`, `MCDataPlane` and `MCControlPlane` extend the modules of the two inbounds,
those that carry traffic and those that manage the client. The parts share no variable, so a behaviour is one
of a single part (`part`, chosen in `Init`) and the others keep one initial
value: an interleaving of two of them would show nothing that the parts do not
show alone.

`*_proofs` modules hold the theorems of the module they extend; `MC*` modules
hold the scenarios of the runs. Operators commented *"Variant for checking the
properties"* are plausible bugs; with one in the place of the definition that
follows it, TLC finds the property violated, which shows that the property
depends on that code.

## 3. Runs

Runs that pass:

| Run | Instance | Properties |
|---|---|---|
| `run_service` | sets of three calls out of 2 starts, 1 stop, 2 switches, 1 configuration write, each step failing, restarts at any time | `OneResultPerWaiter`, `ModeSurvivesRestart`, `StartAnswered` |
| `auth_session` | a process that starts with a session or logged out; 2 refreshes, a tick and a login with failing requests; three harsh mixes with restore, logout, profile update, revocation | `RotatedTokenNotReused`, `SessionUsable`, `CallsReturn` |
| `config_commit` | 2 core updates, a customer update and an activation with failing files; 2 + 2 updates without; failing database and restarts (1.07 million states) | `CommittedOnDisk`, `ImplementsRegister` (refinement) |
| `tcp_handler` | 3 connections in six mixes, 4 names, 3 addresses, a cache of 2, lifetimes of 2; changing configuration and schema, API calls on the cache | `CacheConsistent`, `CachedNameIsSafe`, `AliangOrNothing` |
| `inbounds` | two parts. Tunnel: 2 TCP workers and 1 UDP worker, queues of 1; each teardown, panics that empty the pool, queueing sessions. HTTP proxy: 2 starts, 2 stops, so that a restart overlaps the old accept loop and a stop both (50 thousand states) | `WorkersAccounted`, `NoLiveStreamClosed`, `DeadlineOnlyAfterOpposite`, `UdpTimeoutMeansQuiet`, `ImplementsPool` (refinement), `RelayEnds`; `LostOnlyToFlag`, `FlagNeverStuck`, `LoopEnds` |
| `tun_runner` | 2 startups, up to 2 stops, 2 route commands; with failing cleanup commands; with overlapping startups; a panic wherever the gateway is asked for (208 thousand states) | `RoutesHaveReader`, `FailureRollsBack`, `SignalClearsRoutes` |
| `data_plane` | eight parts: nine conversations of HTTP/1, HTTP/2 and neither, cut into reads in every way; 3 requests through the HTTP/1 relay; 2 applications of schemas that are open, closed, partial, legacy or unreadable; 2 GeoIP lookups on a cache of 1; 2 callers of the resolvers; 2 connections, samples and intervals past the capacity of the rings; a dial of every protocol beside one of Aliang or VLESS (0.7 million states) | `ForwardsRewrittenStream`, `FinishedStreamStaysRemoved`, `ResponsesInOrder`, `DecisionsAreOpen`, `DnsAnswersFresh`, `FiguresAddUp`, `FailedDialsSettle`, `TypeOK` |
| `control_plane` | ten parts: 3 checks of 2 versions; 2 configurations and a cloud; 3 goroutines on a queue of 2, a ring of 2, a window of 2; the core with its tray on 3 platforms; any certificate call beside one that signs or generates, 2 generations on 3 systems; 2 installations; any sequence of service calls (0.66 million states) | `OfferOutlivesFailures`, `OneInUse`, `LogsComplete`, `ReportsThrottled`, `DashboardTracked`, `QuitConfirmed`, `LeafSignedByChain`, `InstallTracked`, `UninstallComplete` |

`data_plane` checks the type invariants of its six modules. Those of the modules of
`control_plane` are proved for any bounds (section 5), so that its run spends its time on
what they promise; so is `HttpTypeOK`. The other older modules keep theirs as
definitions, and their proofs carry what is needed of them.

Runs that refute what the repository says of the program:

| Run | Statement | What the counterexample shows |
|---|---|---|
| `http_server_stop` | "This is a blocking function that runs until stopped" (`inbound/http/server.go:29`), "StopHttpProxy stops the HTTP proxy server" (83) | `StopEndsServer`: one start and one stop. The stop comes before the listener is published, closes nothing, clears the flag and returns; the server then accepts, and no later stop gets past its guard |
| `auth_session_update` | "Reuse the newest local session to avoid sending an already-invalidated refresh token again" (`token_activate.go:200`) | `NoSupersededTokenSent`: a profile update overlapping a refresh writes the old token back; the next refresh sends it and logs the user out |
| `tcp_handler_panic` | "If we can't read an explicit hostname or SNI, we bypass MITM and route direct" (`handler.go:466`) | `HandlerSurvives`: with nothing buffered a typed nil reaches the diagnostics and panics |
| `service_reinstall` | "failed to clean previous managed executable" (`system_service.go:93`) | `RegisteredServiceRuns`: installing over the API what is installed removes the executable just copied; the service is registered without it |

### Why the bounds are enough

Calls are one-shot, so a run explores every interleaving of the calls it is
given. Each hazard needs two actors and at most one more to observe the
damage: two starts and two stops for the HTTP server, three calls for RunService and AuthSession. `MaxToken` is never
reached by the scenarios, so no behaviour is cut; `MaxTime` = 2 is long enough
for a binding to expire and to be renewed; `MaxEntries` = 2 with four names
makes eviction and shared addresses meet. Rings and queues of two entries meet
three and more values, so that each wraps around or fills up; two generations of
a certificate are what it takes to mix the files; two callers, dials or
installations are what it takes to meet in shared state. Where the second actor
would only repeat the first, the composite runs keep it to the operations that
touch what is shared: fallback lookups, the Aliang link and the VLESS lock, the
certificate files, and (for the rows and the counters) one that stays unselected
and one that is never direct. Queues of one and two workers make
"full" and "all busy" reachable with three connections. Two route commands are
the least for a step to fail half-way. `CHECK_DEADLOCK FALSE` is used
throughout because a behaviour ends when all its calls have returned.

What the safety theorems of section 5 cover does not depend on these bounds.

## 4. Fairness

Fairness is weak and only for steps of goroutines that are under way: the Go
scheduler runs them, and mutex and channel operations that stay possible are
granted. Requests have a timeout and commands return, so their outcomes are
steps of the caller. Nobody owes a call, a signal, a packet, a close by a peer,
or a revocation by the server. Timers expire (`Clock` in TunTunnel). Nobody owes the reading of what
was written either: `RelayEnds` has it as a hypothesis (`PeersRead`), since a `Write` is
under no deadline. In
TunTunnel fairness is per relay and not per direction, which is weaker than
the scheduler gives and suffices.

`StartAnswered`, `CallsReturn`, `LoopEnds`, `RelayEnds` and
`SignalClearsRoutes` are the liveness properties. `RelayEnds` promises an end
of the *direct* teardown only when both peers have closed, and of any relay only if its peers
read what is written to them, and
`SignalClearsRoutes` assumes cleanup commands that work: the code gives no
more.

## 5. Proofs

TLAPS checks the following for every value of the constants that satisfies the
named assumptions. These say that sets of calls are disjoint and sizes are
natural numbers, that markers (`Free`, `Nil`, `Idle`, `Dead`, `NoEntry`, `NoName`) are
none of the things they stand beside, and that scenarios, profiles, payloads and
configurations have the fields the code reads. Five of them carry something more:
`NamesAssumption` of TcpHandler says that no rule matches the empty name, which
`MatchDomain` guarantees (`processor/rules/allowlist.go:10`); `SchemasAssumption` of Routing
that a payload which was read as a canonical schema is one; `SyncAssumption` that the table of
configurations is finite and that there is a time for a first row; `ConversationsAssumption` of
HttpWatcher that a `Content-Length` is a number and that the preface carries nothing else;
`OutboundAssumption` that a protocol is one of the
registered ones. `OneIsInUse` has a hypothesis of its own: no save asks for
`in_use`, which the page never does (section 6 tells what happens otherwise).

A theorem about a part of a composite run is about the part's own
specification (`OutboundSpec`, `Http1Spec`, `DnsSpec`, `RoutingSpec`, `LoggerSpec`, `SvcSpec`,
`SyncSpec`, `CertSpec`, ...): the composition only adds steps that leave
the part alone. `DataPlane_proofs` also holds the theorems of HttpProxyServer.

### One component each

**DataPlane_proofs, the HTTP server** — `TypeCorrect`, `OnlyFlagLosesServers`
(`LostOnlyToFlag`, an action property), `FlagHonest` (`FlagNeverStuck`). Neither follows
from the types alone. The invariant adds that the port has at most one
listener (`OneListener`), that a call about to publish has its listener still
open (`PublishesOpen`), and why: `StopHttpProxy` closes only a listener it has
read from the package variable, and such a listener was published
(`SeenWasPublished`). So no stop can close a listener under a start that is
about to publish it, and a published one is overwritten only after it was
closed, since the port admits no second listener. Hence, of all the steps of the two functions,
only those that clear `isHttpRunning` can take an open listener out of the reach of
`StopHttpProxy`: one statement (`FlagCleared`) for `StopFinish`, `LoopExit` and
`ListenFails`. That they do is no theorem but the run `http_server_stop`.

**RunService_proofs** — `ResultForEveryWaiter` (`OneResultPerWaiter`), `ModeKept`
(`ModeSurvivesRestart`). The first counts: `Counted` says that the waiting calls
and the startups under way are finite sets whose sizes differ by what the
channel holds; `Unlaunched` says that a call launches in its last step, so that it
enters each set once. The second needs what `SwitchMode` knows between its steps:
`Locked` (a switch holds `modeChangeMutex` exactly while it is under way) and
`Switching` (the mode it would return to is the stored one; once applied, the target
is in force).

**AuthSession_proofs** — `TypeInvariance`, `NoTokenReused`
(`RotatedTokenNotReused`), `SessionKept` (`SessionUsable`), for a process that
started with a session and any number of overlapping refreshes, ticks and
logins. `Control` says that `refreshSessionMu` is held exactly between the second
look and the last store, `Good` that what is being sent or stored is accepted by
the server, `Unshared` that the token of a login which is not stored yet is in
nobody else's hands: logins take no mutex, and only because nobody can see their
token before they have stored it can nobody rotate it away. The attempt to
prove this without the condition `began` failed for a good reason
(section 6, *Auth session*).

**ConfigCommit_proofs** — `RegisterImplemented` (`ImplementsRegister`): the
commit coordinator implements the atomic register, for any set of calls, any
failures and any restarts. Initial states map to initial states, and every step
to a step of the register or to a stutter; the mapping needs what the mutex
holds together, so the proof carries the invariant `CommitInv`: `Exclusive` (the
call that holds the mutex is the one between its first stage and its answer),
`Prepared` (such a call has a snapshot it has written to, and that of an update
holds nothing foreign) and `Snapshots` (outside a commit the active snapshot is the
committed one; inside, it is the new one until the rollback has put the old one
back), with `Types`. The linearisation point of a commit is its last database
stage; the file stage that succeeds, a database stage that fails and the
preparation are stutters, and the end of the rollback is the refusal.
`CommittedIsOnDisk` (`CommittedOnDisk`) adds `DiskInv`: the file is right except
between its write and the end of the commit, where the new configuration is in its
own file, which is what the rollback and the database stage rely on.

**TcpHandler_proofs** — `CacheAlwaysConsistent` (`CacheConsistent`),
`InterceptedNamesAreSafe` (`CachedNameIsSafe`), `AliangKept` (`AliangOrNothing`). `Sound`
says of the cache that the LRU list holds its keys, each once, that an entry is stored under
its own domain and is among the bindings of its address, and that these are one for each
domain; every method preserves it, the eviction of the oldest included.
`Witnessed` adds that a binding, also one that the clean-up has dropped from the forward
index, was put there with the source it names: shown by a client on that address, or
answered by the resolver for it. `NameInv` then says what the name of a connection
rests on and `RouteInv` how far its route was decided, intercepted and followed:
the configuration and the registry may change between any two of these steps, so
everything a later step needs is in the connection's own record.

**TunTunnel_proofs** — `TeardownSafe` (`NoLiveStreamClosed`),
`DeadlineJustified` (`DeadlineOnlyAfterOpposite`), `QueuedOnce`, `TimeoutMeansQuiet`
(`UdpTimeoutMeansQuiet`), `PoolAccounted` (`WorkersAccounted`). `Sound` says
of one relay that a copying direction has open sockets and that a deadline is
there only in a half-closing mode after the opposite direction has ended;
lemmas show that each operator of Relay (start, end of a direction, each
teardown, the completion tracker, a peer's close or reset) preserves it.
`Untouched` says that a relay is as created until its connection is handled.
`QInv` says that the queues hold waiting connections of their kind, each once:
a connection that some worker handles is in no queue any more. `WInv` spells out the
sets that `WorkersAccounted` counts: a worker has a busy connection, no two have the
same, every busy connection has one, and the workers lost are as many as the
handlers that panicked. `UInv` says that the deadline of a UDP connection that is being
read and the time since the last packet add up to at least the timeout, unless the other
direction has still to renew that deadline.
`PoolImplemented` (`ImplementsPool`): the tunnel implements the abstract pool. Handing
over, the start of a handler and its end map to the pool's four actions, everything a relay or a
session does in between to a stutter. That a worker is left for whom it
serves (`RoomToServe`) is a matter of counting: by `WInv` the connections being served
map one to one into the workers that are neither dead nor the one that takes another, so
that they and the dead ones are fewer than the workers (`KInv` keeps the sets finite).
The workers of each protocol are assumed to be finitely many.

**TunRunner_proofs** — `RoutesRead` (`RoutesHaveReader`), `FailureCloses`
(`FailureRollsBack`), `ProgressReported` (`ProgressSettles`). The first two hold
as long as startups do not overlap. `OneStartup` says that there is then one
startup under way, with its result still to come, and RunService still
waiting for it. `Configured` says that an interface with routes is the
device both globals name, and is read, and that one with an address is so too
or is the leftover of a panic (`Abandons`); `Owned` carries that through the steps
before the address is set; so `engine.Stop`, whenever it comes, takes address
and routes away with the device. `AddressHasService` and `FailedIsBare` show
that a startup begins only when no address is left but that of such a leftover
(`Bare`), so that the `nil` a
refused engine start assigns to `_defaultDevice` loses nothing that carries
routes. `Unrouted` says that there are no routes before the startup under way adds its
own, nor any into what a failed one left. `Closable` says that the engine's device is the
startup's own or is closed already, as long as a rollback can come to it.
`ProgressSettles` is inductive with the
types: whoever says "starting" is itself under way.

### The data plane (DataPlane_proofs)

*HTTP/1 relay* — `InOrder` (`ResponsesInOrder`). `InStep` says that at most one
request is ahead of the responses and none is read while it is written or
answered; `Consecutive` that the responses received, the one in the pipe and those still
to be read answer consecutive requests. Both hold until the relay returns, whatever
times out.

*Routing* — `DecisionsOpen` (`DecisionsAreOpen`). `RoutingInv` says that the schema
in force, and every one that a call has prepared outside the lock and is about to
store, passes `Validate`. The rest is one lemma about decisions: in a snapshot whose
rules and default lead to open branches (`SnapshotSound`) the first rule that
matches exists, since positions are numbers, and its branch is the decision.

*DNS resolvers* — `AnswersFresh` (`DnsAnswersFresh`). An entry is of the family
of its key and expires within `MaxTTL` of when it was obtained (`EntrySound`); an answer
about to be stored has just arrived (`CallSound`), so that clearing, disabling and
cleaning meanwhile do not matter.

*Outbounds* — `DialsSettle` (`FailedDialsSettle`). Inductive once a dial under way has
a stage left to go through (`OutboundInv`), since the last stage settles it.

*HTTP watcher* — `FinishedStreamsStayRemoved` (`FinishedStreamStaysRemoved`, an action
property). `StreamStep` goes through every step of both sides: an entry that is not in
the table comes into it only with the first look at a frame of its stream. All writes
made later for that frame, after the mapping of its header block, set an entry only
where one is.

`StreamKept` (`NothingLostOrMoved`): for any conversation of any length, however it is cut
into reads, and through both parsers, whatever falls back to raw copying included: what was
forwarded, followed by what is held, is what has arrived, in order and without a gap, but for
heads, each rewritten from one whole head of the client. `WatcherInv` says that the
buffer is the end of what has arrived and that what was given stands for what was taken in front
of it, position by position; each parser takes from the front and no more than there is, which
for `consume` is an induction on the function its fold chooses. The property quantifies over
the functions from positions to positions, which TLC cannot enumerate: it was
checked on small conversations with the positions computed instead.

*Statistics* — `FiguresAlwaysAddUp` (`FiguresAddUp`). A snapshot is not atomic, so its
invariant (`SnapshotInv`) is about what it has still to visit: the sum so far and what
the connections left have transferred stay below the total, and a transfer adds to the
total before it adds to a connection. What some connections have transferred is the
size of a set of units (`Units`), which leaves the sum over connections to the
library's theorems on finite sets. `Holds` relates a ring with what was pushed since it
was cleared: the positions wrap around at most once, so the lemmas on positions
(`SlotNext`, `SlotBefore`, `SlotsDiffer`) are case distinctions. `RequestsInv` counts
the requests in the chart; that `FoldLeft` over a longer sequence adds its last element
(`SumAppend`) is an induction on the function that the fold chooses.

### The control plane (Control_proofs)

*Dashboard and offers* — `DashboardAlwaysTracked` (`DashboardTracked`) and
`OfferSurvives` (`OfferOutlivesFailures`). For the dashboard the property, read as
a predicate on a value of the globals (`Sane`), is inductive; lemmas show that
each request, and the beginning and the end of each goroutine, preserves it: a start opens
a listener only when the globals name none, a shutdown before `srv.Serve` leaves an
orphan that its goroutine closes, and the last lines of that goroutine reset the globals
only of their own server.
For the offer `OfferInv` adds that an offer has a date other than 0 and that a
check under way has a number, without which the same offer could be dated
twice.

*Types* — `CompanionTypeCorrect`, `UpdateTypeCorrect`, `CertTypeCorrect`,
`WintunTypeCorrect`, `LoggerTypeCorrect`, `ServiceTypeCorrect`, `SyncTypeCorrect`. Most of these
need more than the types. The dashboard's globals stay within the servers that were started
because a companion asks for one over the socket in its first call and never again
(`TrayStages`: nothing in flight before the connection, one start until its answer
or its loss, none afterwards in any list of calls or request under way). An offer, wherever it
is kept, names a version (`Named`). An installation of a certificate that comes to
its command has found a file, since files are cut off and replaced but never go
away while a call is under way (`FindsFile`). A call about the service is answered
exactly when nothing is left of it, since its check is never its last step
(`CallTyped`). A row that was stamped or merged is one that was there, or the cloud's, for which
`BatchKeeps` repeats the induction on the merge for any set of tables it keeps. The logger's
queue and streams are within their sizes because room is tested in the step that
fills them.

*Certificates* — `LeavesAreSigned` (`LeafSignedByChain`). `MemoryPaired`
says that the pair in memory belongs together and that whoever is past the load
finds one; nothing is assumed of the files, which really may hold a
certificate and a key of different generations: only `LoadX509KeyPair` stands
between them and memory.

*Wintun* — `InstallationsTracked` (`InstallTracked`). The property is
inductive with the types of the two variables; the lemmas say what a step
inside an installation, its end, a reader and a crash do to the set of running
goroutines.

*Logger* — `LogsAreComplete` (`LogsComplete`), `ReportsAreThrottled`
(`ReportsThrottled`). `SinkInv` numbers the accepted lines: the file holds the first
ones, the queue the others in order with flush items anywhere between, and a goroutine
that has ended left nothing behind. `RingInv` says where in the ring each of the last
entries is; positions wrap around at most once, so the remainder is a case distinction.
`ErrorInv` says that the reports of the entry held by the cache of errors are the last
ones sent, and that all the others were sent more than a window before its first
one, which is why an entry that expires, or is cleaned up, and is made again does not
double the rate.

*System service* — `UninstallsAreComplete` (`UninstallComplete`). A call is the list of
steps it has left, so the invariant (`UninstallSoFar`) is about that list: a step that is
no longer in it has been done, or the call has warned of it. It holds for both orders
in which API and command uninstall, and for the waiting that Windows inserts.

*Quitting* — `QuitsAreConfirmed` (`QuitConfirmed`). One socket carries the requests of
all goroutines and answers them in order, without a number that pairs them, so the
invariant (`QuitInv`) is about what is in flight: there is a waiting goroutine for
every message. When the goroutine of the menu is free to ask for a start or a quit, or
has its quit confirmed, nothing in flight asks for a start or a stop, and nothing tells of
one but the stop of a quit that was handled (`Clean`); while it waits for a status, the
first message may still do so, and none behind it (`CleanBehind`). `QuitControl` says
what is left of a quit that was confirmed.

*Software configurations* — `OneIsInUse` (`OneInUse`). `OneUse` is the property
of a table; each transaction preserves it. A pull merges row after row in an order it does
not choose, so the merge is a recursive function and its lemma an induction.

### Induction on recursive functions

The library's induction theorems take the claim as an operator, which the provers
cannot instantiate. Where a recursive function has to be reasoned about (`Kept` in
IpDomainCache, the merge in SoftwareSync, and the least number that a decision
chooses) the proof takes the *set* of the numbers for which the claim fails
and its least member, which the well-foundedness of `<` on the naturals
provides (`NatLessThanWellFounded`, `WFMin`).

### Only model-checked

All liveness (`LoopEnds`, `StartAnswered`, `CallsReturn`, `RelayEnds`,
`SignalClearsRoutes`), which is out of these provers' reach, and the refuting runs. The
type invariants of the modules of `data_plane`, which restate bounds. Of the safety
properties, `ForwardsRewrittenStream` alone. `StreamKept` proves of it that nothing is lost,
repeated or moved. What stays with TLC is that exactly the right heads are
rewritten, that framing goes through both parsers as the client meant it, and that
nothing is held back for ever: what a parser makes of a stream of any length
is an induction over data. Every other safety property of a passing run has a theorem.

## 6. Behaviours found

Four are runs (section 3). The following were seen while modelling; no
statement of the repository denies them, or another run's states already show
them.

*HTTP server.* `StopHttpProxy` between `isHttpRunning = true` and the
publication of `httpListener` closes nothing and clears the flag: the server starts
accepting after it was stopped, and as every later `StopHttpProxy` returns at its guard
(`inbound/http/server.go:88`) nothing but the end of the process closes its port; a later
`StartMitmHttp` cannot listen and ends the process (run `http_server_stop`). The last
lines of a `StopHttpProxy`, or of an accept loop, do the same to a server that was started
meanwhile (113, 68): these are the exceptions in `LostOnlyToFlag`. After a quick
restart the old accept loop tests the *new* context and spins on its closed
listener.

*Run service.* `StopService` during a TUN startup lowers the flag, so a second
startup can begin beside the first (`run.go:185`). After a routing
configuration was posted, a `SwitchMode` that answers "unchanged" re-resolves
`currentMode`, and `StopService` stops the mode that does not run
(`run.go:247`). `runner.Stop` and `TunSignal` are not used by RunService, so
the goroutine of a stopped TUN service waits for a signal for ever, and one
signal is taken by one of the waiting goroutines. A stop can overtake the
spawned HTTP goroutine: the proxy then serves while `IsRunning` says that it
does not, and it cannot be stopped (`run.go:122`). The startup status is read
before the mutex is taken, so a session may expire in between (`run.go:139`).
`SwitchMode` may lose an update of the routing configuration (`run.go:581`).

*Auth session.* A logout that overlaps a refresh leaves the status READY
without a session (`auth_service.go:134`); a tick under way saves the rotated
session after the logout deleted it (`auth_service.go:168`). A request that
times out after the server has rotated loses the session; no client-side order
can prevent that. In a process that started logged out, memory is empty while a
login writes SQLite, so an overlapping call loads the login's token, and may
rotate it away, before the login, or another load that read the row earlier,
puts it into memory (`token_activate.go:193`); found when the proof of
`RotatedTokenNotReused` failed, and the reason why that property speaks of a
process that started with a session (`Orderly`). `startTokenRefresh` tests and replaces the global refresher
without a lock, so two loops may run (`token_activate.go:404`).

*Configuration.* A failed commit may leave a trace in the file of another path
(`runtime_commit_coordinator.go:104`). Of two overlapping updates the later
commit writes back the sections the earlier one changed, because the base is
read outside the mutex (`customer_config_service.go:89`,
`core_config_service.go:81`). The row of a failed activation stays in use
(`software_config_service.go:103`), and a failing core update rolls back over the
file of another program that was activated before. Customer updates are written
to the home file while a start prefers `./config.json` (`cmd/config.go:48`);
`WriteFile` truncates before it writes (`global.go:47`).

*TCP handler and cache.* A name taken from the cache is stored again at the
end of the relay with the lifetime it had left, and lives on with use. The
reverse index is cleaned only by deletion and is not bounded. A binding is
stored only at the end of a relay. A name that was in the resolver's answer is cached like one that
a client showed (`SetHostName`, `handler.go:757-799`), and a later TLS connection to that
address without a name of its own is intercepted under it (`handler.go:529-586`), although the
comment at `handler.go:466-468` says that only identifiers observed on the current connection
are trusted; `CachedNameIsSafe` therefore speaks of both sources. For plain connections the reverse lookup
takes the first cached name even of a shared address. The route is decided on
the global configuration and executed on the applied schema: when they
disagree the connection is refused. The upstream type `http` has no registered
proxy. A CONNECT whose name did not resolve dials an invalid address. A
connection to a DoH provider is closed although the comment speaks of a direct
route.

*Relay and tunnel.* The direct teardown forwards no end of stream and sets no
deadline, so a worker stays with a half-closed connection until both peers
close. The deadline of a half-close is one absolute deadline of five minutes.
Deadlines are for reads only (`relay.go:206`, `263`): a peer that stops reading blocks
the `Write` of `io.CopyBuffer`, and with it a worker, until its connection is reset. Between `WriteTo`
and the new deadline of a UDP connection (`udp.go:115`, `118`) the opposite direction may time out
under the old one, although the session is not quiet.
A worker lost to a panic is never replaced (the recover is outside its loop).
`HandleTCP` and `HandleUDP` block when the queue is full.

*TUN runner.* When a step inside `engine.Start` fails after the device was
opened, nobody closes it: the rollback skips the engine step, and its name
stays taken, so that later starts fail. A failing `parseDevice` overwrites
`_defaultDevice` with nil (`engine.go:184`). A panic in
`GetDefaultGatewayWithPowerShell` (`device_config.go:139`), in the gateway step or, on Windows, in
the route step, is recovered (`start.go:29-36`) without
a rollback: the error is reported with the device open. `FailureRollsBack` shows that neither
leftover ever carries routes. Each step reports "starting" anew, so of two overlapping
startups the later one sets back what the other has settled. When startups overlap, the nil of the second makes the rollback of
the first close the stack and not the device, and routes may lead into a
device nobody reads; this is why `RoutesHaveReader` and `FailureRollsBack`
assume that they do not overlap.

*HTTP watcher.* `http.ReadRequest` takes `Transfer-Encoding` and `Trailer` out of
`req.Header`, and `serializeHTTPRequestHead` writes only that (`http1_wrapper.go:57-71`): a
chunked body is forwarded as it came, behind a head that no longer announces it, so that the
server takes it for the next request. `inbound/http/handler.go:279-295` adds the header again
for plain requests, the watcher does not. `ForwardsRewrittenStream` states the bytes that
are sent (`h1Headers`), not what a server makes of them. Fewer than 24 bytes of a protocol that is not HTTP are held back
until more come, and the limit of 8192 bytes for the sniffing is not reached. A
fallback to raw copying after a rewritten header block leaves the HPACK tables
of the two sides apart; settings are applied to the encoder from the writing
goroutine while the reading one uses it. `AIRules` is a map: when two providers
match, either may win. A client's GOAWAY names stream 0 and empties the stream
table; a WINDOW_UPDATE after END_STREAM makes an entry again. Without a session
HTTP/1 keeps a client's own `Authorization-Inner` and HTTP/2 strips it. An
interim response is relayed in the place of the final one, and the context is
not observed while a response is awaited.

*Routing.* The applied schema decides the ingress mode only: TCP decisions use
the global configuration and the defaults of the switches, whose setters have no
caller. The start enables `toSocks` when a server is configured, whether or not
it is enabled. `RuleEngine.EvaluateRoute` and the legacy decision have no
caller, `matchGeoIP` of the latter is a stub, and the GeoIP cache counts its
hits under a read lock.

*DNS.* Embedding is not inheritance: the lookups through a dialer are never
reached, though comments describe them, and clearing a hybrid resolver clears
one of four caches. A lookup under way stores its answer after the clearing.
`PreloadDomains` with a limit of 0, as in every configuration but the default,
waits for ever. Each start of TUN mode leaves four clean-up goroutines behind.
Literal addresses are looked up by `ResolveWithFallback`.

*Statistics.* `Manager.handle` loads and then stores, so an increment in between
is lost. A collector started after a stop ends at once, and a second stop would
close a closed channel; neither happens today.

*Outbounds.* A failing SOCKS5 or VLESS handshake leaves its connection open: in
SOCKS5 `return nil, err` clears the result that the deferred close would close.
The reply of SOCKS5 and HTTP proxies is read through a buffered reader that is
dropped with what it has read ahead. SOCKS5 takes an unoffered method for "no
authentication". ShadowTLS dials without the context and the protected dialer.
Nothing puts a connection into the Aliang pool.

*Software update.* After an upgrade to the forced version the old snapshot
blocks `StartService` until a check succeeds; a database error blocks nothing.

*Software configurations.* Every write stamps `updated_at`, also one that only
selects or pulls, so the newest edit can lose against an older one
(`docs/cloud-config-sync-api-reference.md:291`) and a comparison right after a
pull reports local changes. A save with `in_use` set, which the page never
sends, gives two rows in use (`SaveInUse` of the run leaves it out).

*Logger.* `Shutdown` has no caller: queued lines are lost at the end of the
process. A recurring error stays suppressed as long as it keeps coming. A
refused configuration leaves its earlier fields changed. Observers are never
removed, and a log stream can send on a channel its handler has closed
(`handlers/logger_service.go:72`).

*IPC and tray.* `Send` holds no lock over write and read and compares no
identifiers, so two goroutines may take each other's answers, and a decoder's
read-ahead drops a second message, for which its `Send` then waits without a
deadline. A quit that was cancelled by a swapped answer can be confirmed later
by the answer to its own stop. After one error the tray uses HTTP for good,
where `start_http` and `stop_http` are refused. `ipcServer.Stop` waits for the
open connection, whose requests are still served, so that a proxy may start
after the shutdown began; and IPC answers before the configuration is loaded. A
`StopHttpServer` that comes before the goroutine's `srv.Serve` finds no listener registered:
it resets the globals and returns while the port stays open until the goroutine runs, and a
start meanwhile takes another port (`app/http/server.go:66-108`, `302-308`). A
`StopHttpServer` that times out leaves `isRunning` set, and a start in between is
answered with success. On macOS a quit relies on a stale `isRunning`.

*Certificates.* Two generations, or a crash between two writes, leave a
certificate and a key that do not belong together; the file exists, so nothing
generates them again and every load fails. Generating by the API leaves the
signing certificate, the host certificates and the trust store on the old one.
macOS compares only the common name, which all types share; Linux searches PEM
text for a hexadecimal fingerprint and never finds it; Windows reports success
when no store could be opened. `getMitmCACert` returns DER on its first call.

*Wintun.* Every reader refreshes first when nothing is installing, so "failed",
"uac_cancelled" and "verification_failed" are overwritten before anyone sees them.
`copyFile` removes the old DLL before the rename. The elevation prompt waits
without a limit.

*System service.* The command, run from the managed executable, deletes itself
and registers a missing file. A call served by the service itself is cut off
when it stops that service. `ensureManagedCertificateAssets` never copies. Linux
does not stop a unit that is still activating. The API's uninstallation leaves
the macOS job that the command had installed. A copy that fails between removal
and rename leaves a registered service without executable.

## 7. Not modelled

Besides the components of section 1: bytes, key material, formats, HPACK tables,
log texts, payload capture in the relay and the parsing of payloads for models
and tokens; macOS device names (every startup picks a new one); daemon mode
(both configuration paths are one file); the packet framing of Shadowsocks UDP;
the ticker goroutine of the token refresher; and code without a caller in the
running program (`SetCurrentMode`, `SetRunning`, `Tunnel.Close`, the routing
switches, DNS queries through a dialer, the legacy rule format). gVisor,
SQLite, the account, download and cloud servers, the operating system with its
service managers and trust stores, and `os/signal` are external and modelled by
what the code relies on.

## 8. Plan

1. *Compositions.* RunService with AuthSession: the running proxy against a
   session that expires between `run.go:139` and `isRunning`. RunService over
   HttpProxyServer and TunRunner in place of its abstract servers, and below
   CoreDaemon in place of its flag.
2. *Abstract specifications.* `Startup`: a TUN start ends up or leaves the system
   bare; TunRunner implements it when startups do not overlap.
3. *Theorems*: the refinement of item 2, as `RegisterImplemented` and `PoolImplemented`
   do for the configuration and the tunnel; the types of the modules of `data_plane`; and of
   `ForwardsRewrittenStream` the part about one message: that its head is the one
   that is rewritten.
