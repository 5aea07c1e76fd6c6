SPECIFICATION ServicesSpec
CONSTANTS
  Experience = {b}
  MaxTries = 2
  MaxEvents = 3
  Worker = {w1}
  MaxWrites = 2
  MaxMishaps = 3
  MaxRestarts = 2
  MaxUpsets = 2
  weights = weights
  tokenizer = tokenizer
  Artifacts <- MCArtifacts
  Hashed = {weights}
  MaxFaults = 2
  Load = {l1, l2}
INVARIANTS
  VouchesForWhole
  EnsureRepairs
  SessionServed
PROPERTIES
  TitleKept
  TitlesServed
  LiveShown
  Recovers
CHECK_DEADLOCK FALSE
