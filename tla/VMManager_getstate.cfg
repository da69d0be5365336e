SPECIFICATION Spec
CONSTANTS
  Names = {v1}
  Objs = {o1}
  Procs = {p1}
  Goroutines = {g1}
  Ops = {"Create", "Start", "Stop", "Destroy", "Query", "Shutdown"}
  Faults = {}
  NoName = NoName
  NoObj = NoObj
  NoProc = NoProc
  Free = Free
PROPERTIES RunningReportedAlive
CHECK_DEADLOCK FALSE
