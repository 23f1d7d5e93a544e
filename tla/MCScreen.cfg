SPECIFICATION MCSpec
CONSTANTS
  WIDTH = 4
  HEIGHT = 1
  SCROLL_HEIGHT = 2
  Keys = {"a"}
  PromptText <- MCPromptText
  Completer <- MCCompleter
  HistoryLimit = 2
  Loaded <- MCLoaded
  MaxInputs = 2
  Chars <- MCChars
  Numerics = {"1"}
  Spaces = {}
  Letters = {"a"}
  Patterns <- MCPatterns
  Texts <- MCTexts
  Symbols <- MCSymbols
  Cols = 3
  Rows = 2
  BufferRows = 4
  MaxSymbols = 6
  Name <- Paths
  Handle = {in, out}
  In = in
  Out = out
  Byte = {"x", "y"}
  Capacity = 2
  Blocks = {1, 2, 3, 4}
  Bufs <- Contents
  MaxSize = 4
  NoFile = NoFile
  Closed = Closed
  Blank = Blank
  Root = "/"
  Parent <- ParentOf
  Piece = 3
  Idle = Idle
  Printables = {"p", "q"}
  RawKeys <- Pressable
  COMMANDS <- CommandNames
  Runs <- RunsLine
  QueueMax = 2
  MaxInput = 2
  MaxLog = 2
  RedrawTicks = 2
  Wrap = 4
  MaxHistory = 2
  MaxKeys = 4
INVARIANTS
  ScreenShowsLine
  ScreenIsWindow
  FoundAsMeant
  DockFollows
  SeenWhenHalted
  CommandsKeep
PROPERTY
  ScrolledOffStays
CHECK_DEADLOCK FALSE
