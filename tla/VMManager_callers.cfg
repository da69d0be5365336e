SPECIFICATION FairSpec
CONSTANTS
  Names = {v1}
  Objs = {o1, o2}
  Procs = {p1}
  Goroutines = {g1, g2}
  Ops = {"Create", "Start", "Stop", "Destroy", "Query", "Shutdown"}
  Faults = {"signal", "vmm", "crash", "reboot"}
  NoName = NoName
  NoObj = NoObj
  NoProc = NoProc
  Free = Free
INVARIANTS TransientUnderLock RunningHasProcess ProcessOwnedOnce
PROPERTIES CallsReturn
CHECK_DEADLOCK FALSE
