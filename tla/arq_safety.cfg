CONSTANTS
  Initiator = Initiator
  Responder = Responder
  MAXWIN = 2
  SEQMOD = 6
  RINGCAP = 1
  EPOCHS = 2
  Windows = {1, 2}
  LoadInitiator = 7
  LoadResponder = 0
  Load <- MCLoad
  Done = 4
  AIRCAP = 2
  MaxLoss = 1
  MaxEarly = 1
  MaxRetune = 1
SPECIFICATION Spec
INVARIANTS IInv InOrder AckedIsHeld
