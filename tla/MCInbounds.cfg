\* The two inbounds, each on its own.
SPECIFICATION InboundsSpec
CONSTANTS
  c1 = c1
  c2 = c2
  c3 = c3
  u1 = u1
  u2 = u2
  w1 = w1
  w2 = w2
  w3 = w3
  Conns = {c1, c2, c3}
  Sessions = {u1, u2}
  Units = 1
  Packets = 1
  Timeout = 2
  Attempts = 1
  Idle = Idle
  Dead = Dead
  Workers <- MCWorkers
  QueueSize <- MCQueueSize
  Scenarios <- MCScenarios
  Starts = {s1, s2}
  Stops = {p1, p2}
  NoCall = NoCall
CHECK_DEADLOCK FALSE
INVARIANTS WorkersAccounted NoLiveStreamClosed DeadlineOnlyAfterOpposite FlagNeverStuck
PROPERTY UdpTimeoutMeansQuiet ImplementsPool RelayEnds LostOnlyToFlag LoopEnds
