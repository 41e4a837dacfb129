CONSTANTS
  Initiator = Initiator
  Responder = Responder
  MAXWIN = 2
  SEQMOD = 6
  RINGCAP = 1
  EPOCHS = 2
  Windows = {2}
  LoadInitiator = 2
  LoadResponder = 0
  Load <- MCLoad
  Done = 0
  AIRCAP = 2
  MaxLoss = 1
  MaxEarly = 1
  MaxRetune = 0
SPECIFICATION FairSpec
PROPERTIES ImplementsPipes WindowDrains TurnsContinue
