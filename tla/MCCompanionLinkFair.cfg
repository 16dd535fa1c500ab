\* One plugin alone with its daemon: whatever is lost, late, refused for a
\* stale token or forgotten in a restart, the callers end and the link
\* recovers, unless a late registration has swept its session.
SPECIFICATION LinkFairSpec
CONSTANTS
  SessionIds = {s1, s2}
  Externals = {e1}
  Self = e1
  Commands = {c1}
  Bindings = {b1}
  Backends = {k1}
  None = None
  MaxSessions = 1
  MaxPending = 1
  MaxEvents = 0
  MaxEventsPerReport = 2
  MaxResultsPerReport = 1
  MaxCommandsPerReport = 1
  SequenceBound = 2
  EventBound = 0
  MaxQueuedEvents = 1
  MaxCachedResults = 1
  RestartBound = 1
PROPERTIES
  RecoversUnlessSwept
  CallsSettle
