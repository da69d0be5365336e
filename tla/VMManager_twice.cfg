SPECIFICATION Spec
CONSTANTS
  Names = {v1}
  Objs = {o1, o2}
  Procs = {p1, p2}
  Goroutines = {g1, g2}
  Ops = {"Create", "Start", "Stop", "Destroy", "Query", "Shutdown"}
  Faults = {}
  NoName = NoName
  NoObj = NoObj
  NoProc = NoProc
  Free = Free
INVARIANTS OneProcessPerVM
CHECK_DEADLOCK FALSE
