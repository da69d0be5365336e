SPECIFICATION FairSpec
CONSTANTS
  Names = {n1, n2}
  Exclusive = {n1}
  a = a
  b = b
  Sources <- Bodies
  Chunks = 2
  Length <- BodyLength
  Announced <- WithLength
  MaxSize = 1
  Inodes = {i1, i2}
  Goroutines = {g1, g2}
  Faults = {"crash", "remove"}
  NoName = NoName
  NoSum = NoSum
  NoInode = NoInode
  Hole = Hole
INVARIANTS TypeOK AvailableAsVerified
PROPERTIES NoStrayPart DownloadsReturn
