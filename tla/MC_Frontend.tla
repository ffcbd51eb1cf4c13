---------------------------- MODULE MC_Frontend ----------------------------
(* Model-checking instance of Frontend: a program of four words at the    *)
(* four fetch addresses, one of them with an opcode the decoder lacks.    *)
EXTENDS Frontend

Word32(opc, f3, f7, r2, r1, d) ==
  [opcode |-> opc, funct3 |-> f3, funct7 |-> f7, rs2 |-> r2, rs1 |-> r1, rd |-> d]

\* addi x1, x1, 1; beq x1, x0; csrrw x1, csr 0x302, x1; an AMO word.
MCProgram ==
  [a \in Addr |-> CASE a % 16 = 0 -> Word32("OP_IMM", 0, 0, 1, 1, 1)
                    [] a % 16 = 4 -> Word32("BRANCH", 0, 0, 0, 1, 0)
                    [] a % 16 = 8 -> Word32("SYSTEM", 1, 24, 2, 1, 1)
                    [] OTHER      -> Word32("AMO", 2, 0, 0, 1, 1)]
=============================================================================
