SPECIFICATION Spec
CONSTANTS
  First = 5
  BlockCount = 8
  BitsPerBlock = 4
  Root = root
  File = {root, f1, f2}
  MaxCrashes = 2
INVARIANTS
  Consistent
  FullIsFull
PROPERTY
  NeverHandedOutTwice
