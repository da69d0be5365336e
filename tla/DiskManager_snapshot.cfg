SPECIFICATION Spec
CONSTANTS
  Images = {i1, i2}
  Volumes = {v1, v2}
  MaxSize = 1
  Half = 8
  Kilo = 2
  Requested <- MCRequested
  Goroutines = {g1}
  Faults = {}
  NoDisk = NoDisk
INVARIANTS SnapshotDestroyed
