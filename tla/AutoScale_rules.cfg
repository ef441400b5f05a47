SPECIFICATION RampSpec
CONSTANTS
  DefaultMinReplicas = 0
  DefaultMaxReplicas = 50
  DefaultScalingFactor = 10
  UintModulus = 256
  NotNumber = NotNumber
  CeilRoundsUp <- Float64Ceil
  Functions = {f1}
  LabelChoices <- AllLabels
  Requested <- ByHand
INVARIANT FullRampWithinFactor
INVARIANT WithinCeiling
