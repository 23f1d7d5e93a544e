SPECIFICATION Spec
CONSTANTS
  BlockCount = 2
  LbaLimit = 4
  CountMax = 2
  Version = {1}
  Blank = Blank
  MAX_PROCS = 3
  MAX_HANDLES = 2
  Reserved = 1
  FileSize = 1
  Dirs = {"/"}
  Pipe = {p1}
  PipeMax = 2
  Drives = 2
  Seeds <- MCSeeds
  Welcome = "bienvenida.txt"
  UserFiles = {"notas.txt"}
  BlockLen = 2
  SampleLen = 2
  BDL = 3
  HeaderLen = 1
  PieceMax = 5
  LengthMax = 5
  GivenMax = 9
INVARIANTS
  MovesTheBlock
  ComesUpWhole
PROPERTIES
  ResumedAsLeft
  PipeKeeps
  CallEnds
  SoundServed
