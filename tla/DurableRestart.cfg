\* One target with a soak: aborts, syncs, halts and retries over a store that refuses writes in one step and a process that stops once.
CONSTANTS
  Targets = {1}
  Nodes = {1}
  Groups = {"a"}
  Images = {"a"}
  Digests = {1, 2}
  NoDigest = 0
  Files <- JustSolo
  InitialFile <- SoloFile
  W <- MCW
  Budget <- UpToOne
  StrategyOf <- OnlyWatched
  DefaultPolicy <- Automated
  RolloutIds = {1, 2}
  Selectors <- Nothing
  Policies <- Nothing
  Verbs = {"abort", "sync", "retry"}
  Faults = {"soak", "inspect"}
  MaxFailures = 1
  MaxCrashes = 1
SPECIFICATION DurableSpec
INVARIANTS DiskTypeOK CleanSaved
PROPERTIES AbortSurvives
