SPECIFICATION Spec
CONSTANTS
  c1 = c1
  c2 = c2
  c3 = c3
  a = a
  b = b
  d = d
  g = g
  x = x
  l = l
  inv = inv
  Conns = {c1, c2, c3}
  Domains = {a, b, d, g}
  IPs = {x, l, inv}
  MaxEntries = 2
  MaxTime = 2
  NoEntry = NoEntry
  NoName = NoName
  Invalid = inv
  DoH = {g}
  Local = {l}
  Profiles <- MCProfiles
  Scenarios <- MCScenarios
  Configs <- MCConfigs
  Schemas <- MCSchemas
CHECK_DEADLOCK FALSE
INVARIANT HandlerSurvives
