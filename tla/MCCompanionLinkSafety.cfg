\* A plugin, its daemon, a second Studio window and every loss, delay, copy,
\* retry, expiry and restart in between. Without commands nobody needs a
\* session to be bound.
SPECIFICATION LinkSpec
CONSTANTS
  SessionIds = {s1, s2, s3}
  Externals = {e1, e2}
  Self = e1
  Commands = {}
  Bindings = {}
  Backends = {k1}
  None = None
  MaxSessions = 2
  MaxPending = 1
  MaxEvents = 0
  MaxEventsPerReport = 2
  MaxResultsPerReport = 1
  MaxCommandsPerReport = 1
  SequenceBound = 3
  EventBound = 3
  MaxQueuedEvents = 2
  MaxCachedResults = 1
  RestartBound = 1
SYMMETRY Symmetry
INVARIANTS
  LinkTypeOK
  IngestedOnceInOrder
  SequencesAgree
