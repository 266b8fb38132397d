\* One group in two waves over three nodes: a canary batch, pauses, promotes and a failing environment.
CONSTANTS
  Targets = {1, 2, 3}
  Nodes = {1, 2, 3}
  Groups = {"a"}
  Images = {"a"}
  Digests = {1, 2, 3}
  NoDigest = 0
  Files <- JustWave
  InitialFile <- WaveFile
  W <- MCW
  Budget <- UpToTwo
  StrategyOf <- OnlyCanary
  DefaultPolicy <- Automated
  RolloutIds = {1, 2}
  Selectors <- Nothing
  Policies <- Nothing
  Verbs = {"pause", "retry"}
  Faults = {"update", "env"}
SPECIFICATION Spec
INVARIANTS WavesInOrder
PROPERTIES QuarantineLifted PauseHonoured ImplementsLifecycle
