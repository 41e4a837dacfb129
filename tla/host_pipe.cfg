SPECIFICATION FairSpec
CONSTANTS
  CAP = 4
  LOWFREE = 0
  BULK = 2
  PLUSES = 2
  LINE = 1
  HOSTTX = 4
  HEADROOM = 2
  MARGIN = 1
  REPLY = 2
  USB = 2
  CDC = 1
  LINK = 1
  TEST = 2
  Policies <- KeepAllOrTwo
  Commands <- AnyCommand
  MaxTyped = 5
INVARIANTS TypeOK StreamKept
PROPERTIES PolicyKept Served
