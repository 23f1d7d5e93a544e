SPECIFICATION ProcessSpec
CONSTANTS
  FramesCount = 13
  None = None
  MAX_PROCS = 4
  code = code
  stack = stack
  args = args
  t1 = t1
  t2 = t2
  t3 = t3
  Page = {code, stack, args}
  ArgsPage = args
  Table = {t1, t2, t3}
  TablesOf <- Paths
  Binaries <- Every
  KernelFrames = 1
INVARIANTS
  FramesOwned
  Nested
  AllGivenBack
PROPERTY
  SpawnRestores
CHECK_DEADLOCK FALSE
