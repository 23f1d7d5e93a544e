SPECIFICATION Spec
CONSTANTS
  a = a
  b = b
  c = c
  d = d
  Name = {a, b, c, d}
  EntryLen <- Exact
  Cap = 5
  Blocks = {1, 2, 3, 4, 5, 6}
  Size = {0, 1}
PROPERTY
  CreatedIsFound
SYMMETRY SameLength
