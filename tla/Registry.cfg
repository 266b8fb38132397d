\* A tag that moves while the tick and a sync scan, two faults, a process that stops once.
CONSTANTS
  Images = {"i"}
  LastDigest = 2
  Indexes = {2}
  Syncs = {"s"}
  MaxFaults = 2
  MaxCrashes = 1
SPECIFICATION FairSpec
INVARIANTS TypeOK RevisionMatches SyncIsCurrent RefreshKept DigestsSaved
PROPERTIES NeverBack CatchesUp
