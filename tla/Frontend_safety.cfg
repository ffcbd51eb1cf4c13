\* 4-bit addresses (pc wraps at 16), two redirect targets, two redirects,
\* one slot in instrs_q and decoded_q, one word that does not decode: a
\* redirect can meet an outstanding request, a waiting stale response and
\* a waiting fetch packet, with the two xticks in either order.
CONSTANTS
  XLEN = 4
  ILEN_BYTES = 4
  Targets = {4, 8}
  NoRedirect = NoRedirect
  INSTRS_CAP = 1
  MAXREDIRECTS = 2
  DECODED_CAP = 1
  Program <- MCProgram
SPECIFICATION FairFSpec
INVARIANT TypeOK
INVARIANT PacketMatchesPc
PROPERTY KeepsFetching
PROPERTY DecodesOnlyCurrentPath
PROPERTY KeepsDecoding
