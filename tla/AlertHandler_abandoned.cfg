SPECIFICATION AlertsOnlySpec
CONSTANTS
  DefaultMinReplicas = 0
  DefaultMaxReplicas = 50
  DefaultScalingFactor = 10
  UintModulus = 256
  NotNumber = NotNumber
  CeilRoundsUp <- Float64Ceil
  f1 = f1
  f2 = f2
  Functions = {f1, f2}
  Unnamed = Unnamed
  Handlers = {h1}
  LabelChoices <- SomeLabels
  Batches <- SomeBatches
INVARIANT WholeBatchAttempted
