SPECIFICATION CalmSpec
CONSTANTS
  DefaultMinReplicas = 0
  DefaultMaxReplicas = 50
  DefaultScalingFactor = 10
  UintModulus = 256
  NotNumber = NotNumber
  CeilRoundsUp <- NoRounding
  Functions = {f1}
  LabelChoices <- PlainOnly
  Requests = {r1}
  MaxPollCount = 1
  SetScaleRetries = 1
INVARIANT ForwardedOnlyIfReady
