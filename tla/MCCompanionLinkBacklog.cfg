\* The controller queues more events than one report may carry: MAX_EVENTS
\* is 2048 and max_events_per_report is 512 by default.
SPECIFICATION LinkFairSpec
CONSTANTS
  SessionIds = {s1, s2}
  Externals = {e1}
  Self = e1
  Commands = {}
  Bindings = {b1}
  Backends = {k1}
  None = None
  MaxSessions = 1
  MaxPending = 1
  MaxEvents = 1
  MaxEventsPerReport = 1
  MaxResultsPerReport = 1
  MaxCommandsPerReport = 1
  SequenceBound = 2
  EventBound = 2
  MaxQueuedEvents = 2
  MaxCachedResults = 1
  RestartBound = 0
PROPERTY ReportsRecover
