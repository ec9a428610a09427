SPECIFICATION FairSpec
CONSTANTS
  N = 2
  MaxCalls = 2
  Spawner = spawner
  Resumers = {resumer}
  Gated = {1}
  Overlap = FALSE
  MaxResumes = 2
  MaxCrashes = 1
  MaxErrs = 1
  MaxCancels = 1
INVARIANTS TypeOK DoneMeansAllDone CallsBudgeted NoRunStranded
PROPERTIES CheckpointsKept 
CHECK_DEADLOCK FALSE
