CONSTANTS
  XLEN = 4
  ILEN_BYTES = 4
  Targets = {4, 8}
  NoRedirect = NoRedirect
  INSTRS_CAP = 1
  MAXREDIRECTS = 2
  DECODED_CAP = 1
  Program <- MCProgram
SPECIFICATION FSpec
PROPERTY FollowsControlFlow
