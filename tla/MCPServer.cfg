SPECIFICATION MCPSpec
CONSTANTS
  Names = {v1, v2}
  Objs = {o1, o2}
  Procs = {p1, p2}
  Goroutines = {main}
  Main = main
  Ops = {"Create", "Start", "Stop", "Destroy", "Query"}
  Faults = {"vmm", "crash", "reboot"}
  Edits <- MCEdits
  MaxDisplays = 2
  NoName = NoName
  NoObj = NoObj
  NoProc = NoProc
  Free = Free
SYMMETRY Symmetry
INVARIANTS MCPTypeOK AnswersTrue DisplaysApart DevicesApart NoUnmanagedProcess HandleFollowsState NoOrphanKernelObject ConfigOutlivesVM
PROPERTIES ImplementsLifecycle
