SPECIFICATION FairSpec
CONSTANTS
  DBs = {isos, templates}
  Records = {r1}
  Goroutines = {g1, g2}
  Faults = {"save", "crash"}
  NoDB = NoDB
  Free = Free
INVARIANTS TypeOK AcknowledgedUpdatesSurvive MarshallerUndisturbed
PROPERTIES ImplementsDurableStore UpdatesReturn
