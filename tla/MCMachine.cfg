SPECIFICATION MachineSpec
CONSTANTS
  MAX_INPUT = 2
  Keys = {"c", "nl", "del", "lctrl", "lalt"}
  CtrlKeys = {"lctrl"}
  ShiftKeys = {}
  AltKeys = {"lalt"}
  Decode <- MCDecode
  DecodedChars = {"c", "etx", "nl", "del"}
  Letters = {"c", "etx"}
  CsiKeys = {}
  SerialChars = {"bs"}
  ControllerSize = 2
  HandledMax = 2
  Base = 2
  SleepMax = 1
  TicksMax = 2
  BlockCount = 4
  CacheSize = 3
  ReadAhead = 2
  Zero = zero
  Block = {zero, b1}
  NoEntry = NoEntry
INVARIANTS
  Coherent
  InputHolds
  NoStuckModifier
  RtcReadsATime
PROPERTIES
  ImplementsBlockStore
  InputServed
  SleepEnds
CHECK_DEADLOCK FALSE
