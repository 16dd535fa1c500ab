\* Three external ids for two places, two bindings, and the event ring.
SPECIFICATION Spec
CONSTANTS
  SessionIds = {s1, s2, s3}
  Externals = {e1, e2, e3}
  Commands = {}
  Bindings = {b1, b2}
  Backends = {k1}
  None = None
  MaxSessions = 2
  MaxPending = 1
  MaxEvents = 2
  MaxEventsPerReport = 2
  MaxResultsPerReport = 1
  MaxCommandsPerReport = 1
  SequenceBound = 1
  EventBound = 4
SYMMETRY Symmetry
INVARIANTS
  SessionIndexConsistent
  EventRingAccounting
PROPERTY IdentityStable
