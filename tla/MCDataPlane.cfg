\* The components that carry traffic, each on its own.
SPECIFICATION Spec
CONSTANTS
  g1 = g1
  g2 = g2
  o1 = o1
  o2 = o2
  c2 = c2
  Conversations <- MCConversations
  StreamIds = {1, 3, 5}
  MaxRecent = 2
  AIRules <- MCAIRules
  Requests = 3
  Payloads <- MCPayloads
  Configs <- MCConfigs
  ApplyCalls = {p1, m1}
  ModeSwitches = {m1}
  Lookups = {l1, l2}
  Domains <- MCDomains
  Addresses <- MCAddresses
  GeoCacheSize = 1
  NoSchema = NoSchema
  Callers = {g1, g2}
  Names = {n1, lit}
  Literals = {lit}
  Methods = {"LookupA", "LookupAAAA", "ResolveIP", "ResolveWithFallback", "Preload"}
  MaxTTL = 0
  Horizon = 1
  ConcurrentLimit = 1
  FallbackDialer = FALSE
  SystemDNSEnabled = FALSE
  Conns = {c1, c2}
  Routes = {"RouteToALiang", "RouteDirect"}
  MaxBytes = 1
  RingCapacity = 2
  Period <- MCPeriod
  MaxSamples = 3
  Hosts = {d1, h1}
  TrackedDomains = {d1}
  RecentCapacity = 2
  MaxRequests = 3
  MaxFlushes = 3
  ActivityTTL = 1
  ActivityHorizon = 6
  Dials = {o1, o2}
  Protocols = {"direct", "http", "socks5", "shadowsocks", "shadowtls", "vless", "aliang"}
  Credentials = {"none", "both"}
CHECK_DEADLOCK FALSE
INVARIANTS TypeOK ForwardsRewrittenStream ResponsesInOrder DecisionsAreOpen DnsAnswersFresh
  FiguresAddUp FailedDialsSettle
PROPERTY FinishedStreamStaysRemoved
