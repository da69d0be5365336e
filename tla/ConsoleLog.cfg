SPECIFICATION Spec
CONSTANTS
  Half = 16
  Kilo = 2
  Inodes = {f1, f2, f3, f4}
  MaxLogFiles = 2
  Configured <- MCConfigured
  DefaultSize = 3
  Goroutines = {g1, g2}
  Asked <- MCAsked
  MaxLines = 4
  Faults = {"crash", "rename"}
  NoFile = NoFile
SYMMETRY Symmetry
INVARIANTS TypeOK KeepsTheNewest LogBounded ReadsTheTail
PROPERTIES ForgetsTheOldest RotatedWhenFull
