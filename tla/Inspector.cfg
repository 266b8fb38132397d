\* A directory of two files that are edited while they are read, and inspections that overtake each other.
CONSTANTS
  Targets = {1}
  Paths = {1, 2}
  Contents <- FewContents
  Broken = Broken
  MaxUpsets = 2
  MaxClock = 2
SPECIFICATION FairSpec
INVARIANTS TypeOK LoadedOrReported Forgotten
PROPERTIES NewerWins Follows
