CONSTANTS
  NAREGS = 3
  NPREGS = 5
  NSNAPSHOTS = 2
  NSTORE = 1
  MAXINFLIGHT = 3
  MAXUPDATED = 1
SPECIFICATION MCSpec
INVARIANT NoRegLeak
VIEW DeadDataView
