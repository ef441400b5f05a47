SPECIFICATION Spec
CONSTANTS
  Requests = {r1, r2}
  ClientIds = {own}
  NoId = NoId
  f = f
  fn = fn
  other = other
  NoNamespace = NoNamespace
  Segments = {f, fn, other, NoNamespace}
  Called <- MCCalled
  DefaultNamespace = fn
  Deployed <- MCDeployed
  ProviderCounts = {7}
  UpstreamCodes = {404}
  MaxReconnect = 1
  MaxChunks = 2
INVARIANT PathTypeOK
INVARIANT CountersTellStatus
INVARIANT AcceptedIsTraceable
INVARIANT ListedCountsAreReal
INVARIANT LogsAreWhole
PROPERTY EveryCallAnswered
PROPERTY CopierEnds
CHECK_DEADLOCK FALSE
