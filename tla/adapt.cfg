SPECIFICATION AdaptSpec
CONSTANTS
  Runs = {"rate", "powers", "recovery"}
  Modes = {0, 1, 2, 3}
  Fsk = {3}
  Floor <- SnrFloor
  Margin = 12
  RendezvousMode = 1
  BootMode = 1
  UpStable = 2
  DownRetx = 25
  UpMaxRetx = 8
  SwitchTimeout = 1
  Cooldown = 1
  Penalty = 6
  Rendezvous = 2
  Probation = 2
  MaxWraps = 1
  LastPeriods = 4
  Readings <- ReadingSet
  BestReading <- Strong
  Retxs = {0, 10, 30}
  MinDbm <- LowestDbm
  MaxDbm = 5
  SavedDbm = {5, 4}
  MarginLo = 6
  MarginHi = 12
  NoSignal <- Deaf
  MaxFaults = 2
  ApSilent = 2
  Paths <- PathSet
  Boards = {"A", "B"}
  Meeting = 1
  SavedMode = 1
  Stuck <- StuckTicks
  Apart <- ApartTicks
  Lost <- LostTicks
  MaxUpsets = 2
INVARIANTS AdaptTypeOK SwitchEnds NoBootLoop
PROPERTIES NoClimbBack ReachesTop StaysLinked Settles Recovers
