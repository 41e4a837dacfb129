CONSTANTS
  Initiator = Initiator
  Responder = Responder
  MAXWIN = 2
  SEQMOD = 6
  RINGCAP = 1
  EPOCHS = 4
  Windows = {2}
  LoadInitiator = 3
  LoadResponder = 0
  Load <- MCLoad
  Done = 0
  AIRCAP = 2
  MaxLoss = 0
  MaxEarly = 0
  MaxRetune = 0
  Reconnects = {Responder}
  Reboots = {}
  MaxReset = 1
  EpochRepeats = FALSE
SPECIFICATION ResetSpec
INVARIANTS NothingStale

