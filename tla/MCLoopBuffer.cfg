SPECIFICATION Spec
CONSTANTS
  BufferSize = 6
  Reserve = 1
  BackMargin = 1
  FillMargin = 2
  BlockReadSize = 3
  BackLimit = 1
  MaxReadSeek = 3
  IntLimit = 4
  FileSize = 10
  Source <- mcSource
  ReadSize <- mcReadSize
  MaxTitle = 1
INVARIANTS TypeOK RingHolds SeekLands
PROPERTIES StreamSpec CallsReturn
