CONSTANTS
  NSLOTS = 3
  NTAGS = 1
  NNOTIFY = 1
  Branches = {}
  NoKill = NoKill
  BYPASS_READY = FALSE
  ORDERED = TRUE
  MAXADDS = 3
SPECIFICATION Spec
PROPERTY Compaction
VIEW LiveSlotsView
