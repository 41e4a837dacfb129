CONSTANTS
  Initiator = Initiator
  Responder = Responder
  MAXWIN = 2
  SEQMOD = 6
  RINGCAP = 1
  EPOCHS = 4
  Windows = {1}
  LoadInitiator = 3
  LoadResponder = 0
  Load <- MCLoad
  Done = 0
  AIRCAP = 2
  MaxLoss = 0
  MaxEarly = 0
  MaxRetune = 0
  Reconnects = {Initiator}
  Reboots = {Initiator}
  MaxReset = 1
  EpochRepeats = FALSE
SPECIFICATION ResetFair
PROPERTIES StillDrains
