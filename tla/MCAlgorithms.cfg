CONSTANTS
  Spelling <- Spellings
  Noise <- NoiseValues
  Undisclosed = {"redacted"}
  Alphabet <- Places
  MinLabelled = 2
  MinPositive = 1
  Root = "acme.com"
  WhoisRecords <- WhoisValues
  Intels <- IntelValues
  ModelOutputs <- Outputs
  Thresholds = {40, 75, 90}
  TopKs = {1, 3}
  Verifications = {3}
  PlanSettings <- SettingsValues
  Registry <- DefaultRegistry
  Environments <- Envs
  PivotMixes <- Mixes
  Graphs <- GraphValues
  Cases <- Consistent
SPECIFICATION AlgorithmsSpec
INVARIANTS
  SkippingYieldsPivots
  AllocationServesGaps
  PlanMissesLookUpsOnly
  UnwarnedRunFits
  ImprovementIsReal
CHECK_DEADLOCK FALSE
