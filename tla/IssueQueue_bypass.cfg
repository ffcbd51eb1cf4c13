CONSTANTS
  NSLOTS = 3
  NTAGS = 1
  NNOTIFY = 1
  Branches = {b1}
  NoKill = NoKill
  BYPASS_READY = TRUE
  ORDERED = TRUE
  MAXADDS = 3
SPECIFICATION Spec
INVARIANTS QueueHoldsPendingInOrder SelectsOldestEligible OrderedIssue
PROPERTY ImplementsScheduler
VIEW LiveSlotsView
