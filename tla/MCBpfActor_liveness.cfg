CONSTANTS
  Bits = {0, 1}
  Byte = {0, 1}
  Tasks = {t1, t2, t3}
  None = None
  Requests <- FewRequests
  ChannelCapacity = 2
  Opts <- OneOpt
  Nics <- DriverMode
  MaxStarts = 2
SPECIFICATION FairSpec
INVARIANT ConfigOfThisProcess
PROPERTIES
  ImplementsStore
  EveryCallEnds
  AckedIsApplied
CHECK_DEADLOCK FALSE
