\* Two groups compete for a budget of one node, one of them with soaks between its batches.
CONSTANTS
  Targets = {1, 2, 3}
  Nodes = {1, 2}
  Groups = {"a", "b"}
  Images = {"a", "b"}
  Digests = {1, 2}
  NoDigest = 0
  Files <- JustSoak
  InitialFile <- SoakFile
  W <- MCW
  Budget <- UpToOne
  StrategyOf <- OnlySlow
  DefaultPolicy <- Automated
  RolloutIds = {1, 2}
  Selectors <- Nothing
  Policies <- Nothing
  Verbs = {}
  Faults = {}
SPECIFICATION FairSpec
PROPERTIES Converges
