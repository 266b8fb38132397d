\* Two clients that fall behind, leave and come back, over a store that fails and a process that restarts.
CONSTANTS
  Clients = {"c", "d"}
  MaxEvents = 3
  Buffer = 1
  Page = 3
  Faults = {"append", "query", "leave", "crash"}
SPECIFICATION MCSpec
INVARIANTS TypeOK ClosedOnce
PROPERTIES NoneLost CatchesUp
