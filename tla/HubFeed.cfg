\* Four tuples around a ring of two, so that tuples are evicted and return; five
\* generations and two epochs, so that both counters run out.
SPECIFICATION FeedSpec
CONSTANTS
  k1 = k1
  k2 = k2
  k3 = k3
  k4 = k4
  Tuples <- MCTuples
  NoTuple = NoTuple
  Routes <- MCRoutes
  NoRoute = NoRoute
  Schedules <- MCSchedules
  NoSchedule = NoSchedule
  Limit = 2
  MaxGeneration = 5
  MaxEpoch = 1
  Topics <- MCTopics
  Wire <- MCWire
  Locals <- MCLocals
  Offsets <- MCOffsets
SYMMETRY Symmetry
INVARIANTS
  TokenIdentifies
  CanResynchronize
  GateFollowsTheWire
PROPERTIES
  TokenNeverRunsBack
  KeepsLedger
