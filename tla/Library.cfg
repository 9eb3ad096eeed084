SPECIFICATION AllSpec
CONSTANTS
  Parts = {"shapes", "records", "counts", "rings", "strings", "natives", "definitions", "modules", "streams"}
  Bits = 1
  HashLen = 3
  Hashes = 7
  ShapeKeys = {0, 1, 2, 4}
  MaxShapes = 5
  RecordKeys = {0, 3, 7}
  Sizes = {0, 1, 4, 5}
  Cats = {2}
  MaxRecords = 4
  Objects = {1, 2, 3, 4}
  Byte = 2
  MostCount = 4
  TableCap = 4
  Address <- AddressGiven
  Word = 8
  RingCap = 2
  LastCap = 4
  Values = {1, 2}
  Jobs = {j1, j2}
  BytesMade <- BytesGiven
  MaxHeld = 2
  MaxStrings = 2
  MostGraphemes = 3
  Messages = {m1}
  Types = {t1, t2}
  MaxDefs = 3
  Users = {u1, u2}
  Roots <- RootsGiven
  Files <- FilesGiven
  Requests <- RequestsGiven
  Needs <- NeedsGiven
  MaxLoads = 2
  Fibers = {f1, f2}
  BufferSize = 4
  Wants = {0, 2, 5}
  Lengths = {0, 2}
  MostIn = 6
  MaxCalls = 3
INVARIANTS ShapesHold RecordsKeep CountsHold RingIsSequence ValueIsText   OneInstance 
CHECK_DEADLOCK FALSE
