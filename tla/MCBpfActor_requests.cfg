CONSTANTS
  Bits = {0, 1}
  Byte = {0, 1}
  Tasks = {t1, t2, t3}
  None = None
  Requests <- MCRequests
  ChannelCapacity = 2
  Opts <- Opt
  Nics <- AnyNic
  MaxStarts = 1
SYMMETRY TaskSymmetry
SPECIFICATION Spec
INVARIANTS
  TypeOK
  ModeJustified
  NothingDropped
  NothingOvertakes
  LastWordWins
CHECK_DEADLOCK FALSE
