\* Decoder: every opcode and funct3, bits 31:25 in {0, 1, 24, 32, 33, 127}
\* (the funct7 values of the tables, a 64-bit shift amount >= 32, the
\* SYSTEM immediate 0x302 of MRET, and one no table has), rs2 in 0..2
\* (ECALL, EBREAK, 0x302), rs1 and rd zero or not.  Divider: 4-bit
\* operands in 2 cycles of 2 steps; the W forms of MulDiv take 2-bit
\* operands.  Branch stage: 4-bit values and pcs, 3-bit immediates, one
\* instruction per behaviour (the stage keeps nothing between calls).
CONSTANTS
  DATALEN = 4
  NCYCLES = 2
  HALF = 2
  IMMLEN = 3
  MAXPROC = 1
  FUNCT7S = {0, 1, 24, 32, 33, 127}
  RS2S = {0, 1, 2}
  REGS = {0, 1}
SPECIFICATION ExecSpec
INVARIANT DecodesLegalLikeRV64
INVARIANT DivideMatchesRiscV
INVARIANT MulDivMatchesRiscV
INVARIANT BranchResolvesLikeRiscV
