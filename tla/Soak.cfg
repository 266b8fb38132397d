\* Two batches of two programs, a check every unit of time for two, one failure allowed; a retry and a process that stops once.
CONSTANTS
  Programs = {"p", "q"}
  Unsteady = {"p"}
  Interval = 1
  Duration = 2
  FailureLimit = 1
  MaxBatches = 2
  MaxSoaks = 2
  MaxCrashes = 1
SPECIFICATION FairSpec
INVARIANTS EverySoakKept
PROPERTIES PassedOnEvidence HaltsOnFailures SoakEnds
