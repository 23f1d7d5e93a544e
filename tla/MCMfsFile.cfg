SPECIFICATION RoomSpec
CONSTANTS
  Name = {n1, n2}
  Handle = {h1}
  Byte = {x, y}
  Capacity = 2
  Blocks = {1, 2, 3, 4}
  Bufs <- ShortAndLong
  MaxSize = 4
  NoFile = NoFile
  Closed = Closed
  Blank = Blank
INVARIANT
  ResumeIsThere
PROPERTY
  ImplementsFileStore
SYMMETRY Interchangeable
