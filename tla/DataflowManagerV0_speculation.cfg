CONSTANTS
  NAREGS = 3
  NPREGS = 5
  NSNAPSHOTS = 2
  MAXINFLIGHT = 4
SPECIFICATION SpecSpeculation
INVARIANT NoDoubleAllocation
INVARIANT ReadyTracksProducer
VIEW DeadDataView
