SPECIFICATION Spec
CONSTANTS
  r1 = r1
  r2 = r2
  s1 = s1
  s2 = s2
  Runs = {r1, r2}
  Stops = {s1, s2}
  NRoutes = 2
  None = None
  Scenarios <- MCScenarios
CHECK_DEADLOCK FALSE
INVARIANTS RoutesHaveReader FailureRollsBack
PROPERTY SignalClearsRoutes
