SPECIFICATION Spec
CONSTANTS
  Name = {n1, n2}
  Handle = {h1}
  Byte = {x}
  Capacity = 2
  Blocks = {1, 2, 3}
  Bufs <- ShortAndLonger
  MaxSize = 5
  NoFile = NoFile
  Closed = Closed
  Blank = Blank
INVARIANT
  ChainsHold
SYMMETRY Interchangeable
