\* The components that manage the client, each on its own.
SPECIFICATION Spec
CONSTANTS
  u1 = u1
  u2 = u2
  c1 = c1
  c2 = c2
  Versions = {"v1", "v2"}
  Viewers = {w1}
  MaxChecks = 3
  Uuids = {u1, u2}
  Softwares = {"s"}
  SyncCalls = {y1}
  SaveInUse = {FALSE}
  SyncHorizon = 2
  LogCallers = {g1, g2, g3}
  QueueSize = 2
  MaxLines = 4
  RingSize = 2
  LogLevels = {0, 2, 4}
  MaxErrorCount = 2
  ErrorWindow = 2
  LogHorizon = 7
  Streams = {s1}
  StreamBuffer = 2
  MaxServers = 2
  CertCallers = {c1, c2}
  CertTypes = {"mitm-ca"}
  Hosts = {h1}
  MaxSerial = 2
  StoreLimit = 1
  MaxInstalls = 2
CHECK_DEADLOCK FALSE
INVARIANTS OneInUse LogsComplete ReportsThrottled DashboardTracked QuitConfirmed LeafSignedByChain
  InstallTracked UninstallComplete
PROPERTY OfferOutlivesFailures
