\* One plugin and its daemon; two commands in one response, and a cache that
\* holds one result.
SPECIFICATION LinkSpec
CONSTANTS
  SessionIds = {s1, s2}
  Externals = {e1}
  Self = e1
  Commands = {c1, c2}
  Bindings = {b1}
  Backends = {k1}
  None = None
  MaxSessions = 1
  MaxPending = 2
  MaxEvents = 0
  MaxEventsPerReport = 0
  MaxResultsPerReport = 2
  MaxCommandsPerReport = 2
  SequenceBound = 3
  EventBound = 0
  MaxQueuedEvents = 1
  MaxCachedResults = 1
  RestartBound = 0
SYMMETRY Symmetry
VIEW WithoutTaken
PROPERTY ExecutedExactly
