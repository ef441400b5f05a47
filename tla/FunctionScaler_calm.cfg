SPECIFICATION CalmSpec
CONSTANTS
  DefaultMinReplicas = 0
  DefaultMaxReplicas = 50
  DefaultScalingFactor = 10
  UintModulus = 256
  NotNumber = NotNumber
  CeilRoundsUp <- NoRounding
  Functions = {f1}
  LabelChoices <- PlainOrTwo
  Requests = {r1, r2}
  MaxPollCount = 2
  SetScaleRetries = 1
INVARIANT CalmForwardsToReady
PROPERTY ScaledFromZero
