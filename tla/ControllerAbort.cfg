\* One group on two nodes: aborts, syncs, pins, manual groups and a second strategy, and a tag that moves back and forth while updates land.
CONSTANTS
  Targets = {1, 3}
  Nodes = {1, 2}
  Groups = {"a"}
  Images = {"a"}
  Digests = {1, 2}
  NoDigest = 0
  Files <- JustPair
  InitialFile <- PairFile
  W <- MCW
  Budget <- UpToOne
  StrategyOf <- WideAndCanary
  DefaultPolicy <- Automated
  RolloutIds = {1, 2}
  Selectors <- Nothing
  Policies <- SomePolicies
  Verbs = {"abort", "sync", "rollback", "policy", "strategy"}
  Faults = {}
SPECIFICATION Spec
INVARIANTS TypeOK AbortHolds LandingAccounted UpdatesForDesired OneActivePerGroup
PROPERTIES FinishedStaysFinished
