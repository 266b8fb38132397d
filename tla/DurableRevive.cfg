\* Aborts and syncs over a store that refuses writes in one step and a process that stops twice.
CONSTANTS
  Targets = {1}
  Nodes = {1}
  Groups = {"a"}
  Images = {"a"}
  Digests = {1, 2}
  NoDigest = 0
  Files <- JustSolo
  InitialFile <- SoloFile
  W <- MCW
  Budget <- UpToOne
  StrategyOf <- OnlyWatched
  DefaultPolicy <- Automated
  RolloutIds = {1, 2}
  Selectors <- Nothing
  Policies <- Nothing
  Verbs = {"abort", "sync"}
  Faults = {}
  MaxFailures = 1
  MaxCrashes = 2
SPECIFICATION DurableSpec
INVARIANTS PlannedAlone
