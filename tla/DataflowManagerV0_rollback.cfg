CONSTANTS
  NAREGS = 3
  NPREGS = 5
  NSNAPSHOTS = 2
  MAXINFLIGHT = 4
SPECIFICATION Spec
INVARIANT NoDoubleAllocation
VIEW DeadDataView
