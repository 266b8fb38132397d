\* The targets file changes under running rollouts and syncs: targets leave, change group or node, and are suspended.
CONSTANTS
  Targets = {1, 3}
  Nodes = {1, 2}
  Groups = {"a", "b"}
  Images = {"a"}
  Digests = {1, 2}
  NoDigest = 0
  Files <- Reloads
  InitialFile <- PairFile
  W <- MCW
  Budget <- UpToHalf
  StrategyOf <- OnlyWide
  DefaultPolicy <- Automated
  RolloutIds = {1, 2}
  Selectors <- ById
  Policies <- Nothing
  Verbs = {"reload", "sync", "suspend", "lapse"}
  Faults = {}
SPECIFICATION Spec
INVARIANTS OneProgramPerTarget
PROPERTIES ImplementsLedger
