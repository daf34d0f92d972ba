SPECIFICATION PnpSpec
CONSTANTS
  MaxChips = 2
  Channels = 1
  NoPort = NoPort
  NoWindow = NoWindow
  MaxStarts = 2
  MaxHandles = 1
INVARIANTS InterruptIsSafe
CHECK_DEADLOCK FALSE
