SPECIFICATION Spec
CONSTANTS
  Images = {i1, i2}
  Volumes = {v1, v2, v3}
  MaxSize = 1
  Half = 8
  Kilo = 2
  Requested <- MCRequested
  Goroutines = {g1, g2}
  Faults = {"zfs", "file"}
  NoDisk = NoDisk
SYMMETRY Symmetry
INVARIANTS TypeOK RawSizesAsAsked CloneKeepsSnapshot
