SPECIFICATION SystemSpec
CONSTANTS
  DefaultMinReplicas = 0
  DefaultMaxReplicas = 2
  DefaultScalingFactor = 10
  UintModulus = 128
  NotNumber = NotNumber
  CeilRoundsUp <- NoRounding
  f1 = f1
  Functions = {f1}
  LabelChoices <- OneLabel
  Requests = {r1}
  MaxPollCount = 1
  SetScaleRetries = 1
  Handlers = {h1}
  Batches <- UpOrDown
  Unnamed = Unnamed
  Requested <- ByHand
PROPERTY ScaleFromZeroNeverShrinks
