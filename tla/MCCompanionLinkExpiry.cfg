\* Two plugins. One is silent for longer than the TTL but keeps its token;
\* the other one's registration sweeps its session.
SPECIFICATION LinkFairSpec
CONSTANTS
  SessionIds = {s1, s2}
  Externals = {e1, e2}
  Self = e1
  Commands = {}
  Bindings = {b1}
  Backends = {k1}
  None = None
  MaxSessions = 2
  MaxPending = 1
  MaxEvents = 1
  MaxEventsPerReport = 1
  MaxResultsPerReport = 1
  MaxCommandsPerReport = 1
  SequenceBound = 2
  EventBound = 1
  MaxQueuedEvents = 1
  MaxCachedResults = 1
  RestartBound = 0
PROPERTY ReportsRecover
