SPECIFICATION BoardSpec
CONSTANTS
  Runs = {"pairing"}
  Stride = 2
  Width = 3
  MaxCounter = 8
  Initiator = I
  Responder = R
  kHsMaxAttempts = 2
  Reboots = {R}
  Reconnects = {R}
  Faults = {"loss"}
  OnlyMet = TRUE
  MaxDisturb = 2
  MaxFault = 3
  RINGCAP = 2
  Modes = {0, 1}
  Roles = {TRUE, FALSE}
  Lo <- BandLo
  Hi <- BandHi
  PwrMax = 1
  KeepMax = 1
  Freqs = {1, 3}
  FirstMode = 0
  Rows <- ModeRows
  Pair = {"A", "B"}
  Mac <- MacOrder
  kDiscConfirm = 1
  kPairResends = 1
  MaxLost = 1
  MaxCuts = 1
  MaxCommands = 1
  AirCap = 2
  kScroll = 4
  kRows = 2
  kCols = 2
  kRingSz = 3
  MaxChars = 11
  kAutoFast = 4
  Numbers = {"txctr"}
  Names = {"name"}
  Bytes = {0, 1}
  WIDTH = 2
  LONGEST = 2
INVARIANTS PairedHasRole
CHECK_DEADLOCK FALSE
