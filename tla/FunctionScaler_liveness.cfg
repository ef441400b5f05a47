SPECIFICATION FairSpec
CONSTANTS
  DefaultMinReplicas = 0
  DefaultMaxReplicas = 50
  DefaultScalingFactor = 10
  UintModulus = 256
  NotNumber = NotNumber
  CeilRoundsUp <- NoRounding
  Functions = {f1}
  LabelChoices <- PlainOnly
  Requests = {r1, r2}
  MaxPollCount = 1
  SetScaleRetries = 2
INVARIANT TypeOK
INVARIANT ForwardedWasReady
INVARIANT NoOrphanedCall
INVARIANT AsksForReplicas
PROPERTY EveryRequestAnswered
PROPERTY KeepsPromise
PROPERTY SharesQueries
