SPECIFICATION MCSpec
CONSTANTS
  FramesCount = 6
  None = None
  PageSize = 2
  BitsPerByte = 2
  Maps <- SortedMaps
  Nothing = Nothing
  Bounds = {0, 1, 4, 5, 12, 13, 16, 21}
  BitmapArea = 10
  BitsPerBlock = 4
  Width = 64
  Sizes <- AllSizes
  RTC_CENTURY = 2000
  YearMax = 99
  TxCount = 3
  RxCount = 3
  RingLen = 5
  RingPad = 2
  Wrap = 10
  PacketSizes = {2, 3}
  MaxPackets = 5
  MaxFaults = 2
  Addr = {a1, a2}
  BufferSize = 2
  Lengths = {1, 2, 3}
  Devices = {0, 1, 8}
INVARIANTS
  MapIsRight
  Covers
  DateCounts
PROPERTIES
  ImplementsFramePool
  StopsWhenStable
  Delivered
  CallsAnswered
  InterruptsServed
CHECK_DEADLOCK FALSE
