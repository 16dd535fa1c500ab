\* Commands of two sessions: leases, replays, timeouts, expiry. No events.
SPECIFICATION Spec
CONSTANTS
  SessionIds = {s1, s2}
  Externals = {e1, e2}
  Commands = {c1, c2, c3}
  Bindings = {b1, b2}
  Backends = {k1}
  None = None
  MaxSessions = 2
  MaxPending = 2
  MaxEvents = 0
  MaxEventsPerReport = 0
  MaxResultsPerReport = 1
  MaxCommandsPerReport = 1
  SequenceBound = 2
  EventBound = 0
SYMMETRY Symmetry
INVARIANTS
  TypeOK
  LeaseConservation
  ReplayRecoversLeases
  UnboundHoldsNothing
  LimitsRespected
  SnapshotCountsExact
  AnswersComeFromHome

PROPERTY ImplementsCommandLeases
