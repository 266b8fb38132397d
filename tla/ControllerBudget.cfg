\* Two groups on a shared node compete for a budget of one node and soak between batches: checks and programs fail, deadlines pass, people retry and force.
CONSTANTS
  Targets = {1, 2, 3}
  Nodes = {1, 2}
  Groups = {"a", "b"}
  Images = {"a", "b"}
  Digests = {1, 2}
  NoDigest = 0
  Files <- JustSoak
  InitialFile <- SoakFile
  W <- MCW
  Budget <- UpToOne
  StrategyOf <- OnlyStrict
  DefaultPolicy <- Automated
  RolloutIds = {1, 2}
  Selectors <- Nothing
  Policies <- Nothing
  Verbs = {"retry", "sync", "force"}
  Faults = {"soak", "late", "ready"}
SPECIFICATION Spec
INVARIANTS BudgetHeld HaltedQuarantined Shaped
PROPERTIES ImplementsLedger
