SPECIFICATION Spec
CONSTANTS
  Switches = {s1, s2}
  Ports = {re0}
  Taps = {tap0}
  Goroutines = {g1, g2}
  Exclusive = TRUE
  Faults = {"addm", "deletem", "up", "destroy"}
  NoSwitch = NoSwitch
  NoIface = NoIface
SYMMETRY Symmetry
INVARIANTS TypeOK NoHalfSwitch
PROPERTIES UpUntilDeleted
