\* A target halts, leaves the targets file, comes back and is retried.
CONSTANTS
  Targets = {1, 2, 3}
  Nodes = {1, 2}
  Groups = {"a", "b"}
  Images = {"a", "b"}
  Digests = {1, 2}
  NoDigest = 0
  Files <- Leavings
  InitialFile <- ApartFile
  W <- MCW
  Budget <- UpToOne
  StrategyOf <- OnlyWide
  DefaultPolicy <- Automated
  RolloutIds = {1, 2}
  Selectors <- Nothing
  Policies <- Nothing
  Verbs = {"reload", "retry"}
  Faults = {"update"}
SPECIFICATION Spec
INVARIANTS BudgetHeld
