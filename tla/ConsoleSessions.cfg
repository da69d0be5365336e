SPECIFICATION FairSpec
CONSTANTS
  VMs = {v1}
  Sessions = {s1, s2}
  Goroutines = {g1, g2, g3}
  Faults = {"close", "blocking"}
  NoVM = NoVM
  NoSession = NoSession
  Free = Free
INVARIANTS TypeOK TableMatchesDevices MutexHeldForIO
PROPERTIES CallsReturn ClosesReturn CloseFreesCallers
