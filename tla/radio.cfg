SPECIFICATION RadioSpec
CONSTANTS
  SLOTS = 3
  Frames = {f1, f2}
  NoFrame = NoFrame
  far = far
  ludicrous = ludicrous
  LoraModes <- MCLora
  Gfsk = ludicrous
  Toa <- MCToa
  MAXWIN = 16
  STORM = 2
SYMMETRY FrameSymmetry
INVARIANTS
  RadioInv
  NoSharedSlot
  ArmedIsTrue
  NoLostWakeup
  OnePhy
PROPERTIES
  ImplementsFifo
  TxUndisturbed
  RecoveryRevives
