SPECIFICATION FullSpec
CONSTANTS
  Name = {n1, n2}
  Handle = {h1, h2}
  Byte = {x, y}
  Capacity = 2
  Blocks = {1, 2, 3}
  Bufs <- ShortAndLonger
  MaxSize = 6
  NoFile = NoFile
  Closed = Closed
  Blank = Blank
PROPERTY
  AppendsAtEnd
