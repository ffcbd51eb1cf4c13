---------------------------- MODULE DecodeTable ----------------------------
(***************************************************************************)
(* The instruction tables of DecodeUnitCL (lizard/core/cl/decode.py): the  *)
(* opmap dispatch of xtick on the opcode and the dec_* handler of each     *)
(* opcode, which look funct3, funct7 and the immediate up in Python dicts; *)
(* a missing key raises KeyError, which xtick turns into an illegal-       *)
(* instruction packet.  An instruction word is a record of its fields      *)
(* (opcode by name, funct3, funct7, rs2, rs1, rd); the fields that overlap *)
(* are derived as RVInstMask slices them: I_IMM is bits 31:20 (funct7 and *)
(* rs2), FUNCT7_SHFT64 bits 31:26, SHAMT64 bits 25:20, SHAMT32 bits 24:20. *)
(* The immediates of the S, B, U and J formats are assembled from bits the *)
(* record does not carry and are left at 0.                               *)
(***************************************************************************)
EXTENDS Integers, TLC

Opcodes == {"OP_IMM", "OP", "SYSTEM", "BRANCH", "JAL", "JALR", "LUI", "AUIPC",
            "LOAD", "STORE", "MISC_MEM", "OP_IMM_32", "OP_32"}

I_IMM(w)         == w.funct7 * 32 + w.rs2
FUNCT7_SHFT64(w) == w.funct7 \div 2
SHAMT64(w)       == (w.funct7 % 2) * 32 + w.rs2
SHAMT32(w)       == w.rs2

\* sext(x, DECODED_IMM_LEN) of a 12-bit field, as an integer.
sext12(x) == IF x >= 2048 THEN x - 4096 ELSE x

KeyError == [valid |-> FALSE]

NoInstr == "none"   \* instr_d before the handler sets it

\* The fields a handler sets on the packet; the others keep their reset 0.
Pkt(ins, r1, r2, rd, imm) ==
  [valid |-> TRUE, instr_d |-> ins, rs1_valid |-> r1, rs2_valid |-> r2,
   rd_valid |-> rd, imm |-> imm, csr_valid |-> FALSE, unique |-> FALSE,
   is_control_flow |-> FALSE]

Jump(p) == [p EXCEPT !.is_control_flow = TRUE]

\* res.instr_d = tbl[k] on the packet p the handler fills, or the KeyError
\* that aborts the handler.
Lookup(tbl, k, p) ==
  IF k \in DOMAIN tbl THEN [p EXCEPT !.instr_d = tbl[k]] ELSE KeyError

\* Fault variant: the shift looked up by funct7 (bits 31:25) instead of
\* bits 31:26, as the 32-bit shifts are.
dec_op_imm_funct7(w) ==
  LET shamts  == (1 :> (0 :> "SLLI")) @@ (5 :> ((0 :> "SRLI") @@ (16 :> "SRAI")))
      nshamts == (0 :> "ADDI") @@ (2 :> "SLTI") @@ (3 :> "SLTIU") @@
                 (4 :> "XORI") @@ (6 :> "ORI") @@ (7 :> "ANDI")
      Shift == Pkt(NoInstr, TRUE, FALSE, TRUE, SHAMT64(w))
      NShift == Pkt(NoInstr, TRUE, FALSE, TRUE, sext12(I_IMM(w)))
  IN IF w.funct3 \in DOMAIN shamts
     THEN Lookup(shamts[w.funct3], w.funct7, Shift)
     ELSE Lookup(nshamts, w.funct3, NShift)

\* A shift takes its amount from bits 25:20 and is keyed by bits 31:26;
\* the other funct3 values take the sign-extended I immediate.
dec_op_imm(w) ==
  LET shamts  == (1 :> (0 :> "SLLI")) @@ (5 :> ((0 :> "SRLI") @@ (16 :> "SRAI")))
      nshamts == (0 :> "ADDI") @@ (2 :> "SLTI") @@ (3 :> "SLTIU") @@
                 (4 :> "XORI") @@ (6 :> "ORI") @@ (7 :> "ANDI")
      Shift == Pkt(NoInstr, TRUE, FALSE, TRUE, SHAMT64(w))
      NShift == Pkt(NoInstr, TRUE, FALSE, TRUE, sext12(I_IMM(w)))
  IN IF w.funct3 \in DOMAIN shamts
     THEN Lookup(shamts[w.funct3], FUNCT7_SHFT64(w), Shift)
     ELSE Lookup(nshamts, w.funct3, NShift)

OpTable ==
  (<<0, 0>> :> "ADD") @@ (<<0, 32>> :> "SUB") @@ (<<1, 0>> :> "SLL") @@
  (<<2, 0>> :> "SLT") @@ (<<3, 0>> :> "SLTU") @@ (<<4, 0>> :> "XOR") @@
  (<<5, 0>> :> "SRL") @@ (<<5, 32>> :> "SRA") @@ (<<6, 0>> :> "OR") @@
  (<<7, 0>> :> "AND") @@ (<<0, 1>> :> "MUL") @@ (<<1, 1>> :> "MULH") @@
  (<<2, 1>> :> "MULHSU") @@ (<<3, 1>> :> "MULHU") @@ (<<4, 1>> :> "DIV") @@
  (<<5, 1>> :> "DIVU") @@ (<<6, 1>> :> "REM") @@ (<<7, 1>> :> "REMU")

Op32Table ==
  (<<0, 0>> :> "ADDW") @@ (<<0, 32>> :> "SUBW") @@ (<<1, 0>> :> "SLLW") @@
  (<<5, 0>> :> "SRLW") @@ (<<5, 32>> :> "SRAW") @@ (<<0, 1>> :> "MULW") @@
  (<<4, 1>> :> "DIVW") @@ (<<5, 1>> :> "DIVUW") @@ (<<6, 1>> :> "REMW") @@
  (<<7, 1>> :> "REMUW")

RType == Pkt(NoInstr, TRUE, TRUE, TRUE, 0)

dec_op(w)   == Lookup(OpTable, <<w.funct3, w.funct7>>, RType)

dec_op_32(w) == Lookup(Op32Table, <<w.funct3, w.funct7>>, RType)

dec_op_imm32(w) ==
  LET Shift == Pkt(NoInstr, TRUE, FALSE, TRUE, SHAMT32(w))
  IN IF w.funct3 = 0
     THEN Pkt("ADDIW", TRUE, FALSE, TRUE, sext12(I_IMM(w)))
     ELSE Lookup((<<1, 0>> :> "SLLIW") @@ (<<5, 0>> :> "SRLIW") @@
                 (<<5, 32>> :> "SRAIW"), <<w.funct3, w.funct7>>, Shift)

\* A CSR instruction takes rs1 (funct3 < 4) or the zero-extended rs1 field
\* as its operand, names a CSR and is unique; otherwise the I immediate
\* selects ECALL or EBREAK.
dec_system(w) ==
  LET csrs == (1 :> "CSRRW") @@ (2 :> "CSRRS") @@ (3 :> "CSRRC") @@
              (5 :> "CSRRWI") @@ (6 :> "CSRRSI") @@ (7 :> "CSRRCI")
      Csr(ins) ==
        [Pkt(ins, w.funct3 \div 4 = 0, FALSE, TRUE,
             IF w.funct3 \div 4 = 0 THEN 0 ELSE w.rs1)
           EXCEPT !.csr_valid = TRUE, !.unique = TRUE]
      Env == Pkt(NoInstr, FALSE, FALSE, FALSE, 0)
  IN IF w.funct3 \in DOMAIN csrs
     THEN Csr(csrs[w.funct3])
     ELSE Lookup((0 :> "ECALL") @@ (1 :> "EBREAK"), I_IMM(w), Env)

dec_branch(w) ==
  LET Br == Jump(Pkt(NoInstr, TRUE, TRUE, FALSE, 0))
  IN Lookup((0 :> "BEQ") @@ (1 :> "BNE") @@ (4 :> "BLT") @@ (5 :> "BGE") @@
            (6 :> "BLTU") @@ (7 :> "BGEU"), w.funct3, Br)

dec_jal(w)   == Jump(Pkt("JAL", FALSE, FALSE, TRUE, 0))

\* JALR is not looked up by funct3: any funct3 is a JALR.
dec_jalr(w)  == Jump(Pkt("JALR", TRUE, FALSE, TRUE, sext12(I_IMM(w))))

dec_lui(w)   == Pkt("LUI", FALSE, FALSE, TRUE, 0)

dec_auipc(w) == Pkt("AUIPC", FALSE, FALSE, TRUE, 0)

dec_load(w) ==
  LET Ld == Pkt(NoInstr, TRUE, FALSE, TRUE, sext12(I_IMM(w)))
  IN Lookup((0 :> "LB") @@ (1 :> "LH") @@ (2 :> "LW") @@ (3 :> "LD") @@
            (4 :> "LBU") @@ (5 :> "LHU") @@ (6 :> "LWU"), w.funct3, Ld)

dec_store(w) ==
  LET St == Pkt(NoInstr, TRUE, TRUE, FALSE, 0)
  IN Lookup((0 :> "SB") @@ (1 :> "SH") @@ (2 :> "SW") @@ (3 :> "SD"),
            w.funct3, St)

dec_misc_mem(w) ==
  LET Fence == Pkt(NoInstr, FALSE, FALSE, FALSE, 0)
  IN Lookup((0 :> "FENCE") @@ (1 :> "FENCE_I"), w.funct3, Fence)

\* opmap[opcode](inst, out), with the KeyError of an opcode opmap lacks or
\* of a handler's lookup caught: the packet is then invalid.
DecodeWord(w) ==
  CASE w.opcode = "OP_IMM"    -> dec_op_imm(w)
    [] w.opcode = "OP"        -> dec_op(w)
    [] w.opcode = "SYSTEM"    -> dec_system(w)
    [] w.opcode = "BRANCH"    -> dec_branch(w)
    [] w.opcode = "JAL"       -> dec_jal(w)
    [] w.opcode = "JALR"      -> dec_jalr(w)
    [] w.opcode = "LUI"       -> dec_lui(w)
    [] w.opcode = "AUIPC"     -> dec_auipc(w)
    [] w.opcode = "LOAD"      -> dec_load(w)
    [] w.opcode = "STORE"     -> dec_store(w)
    [] w.opcode = "MISC_MEM"  -> dec_misc_mem(w)
    [] w.opcode = "OP_IMM_32" -> dec_op_imm32(w)
    [] w.opcode = "OP_32"     -> dec_op_32(w)
    [] OTHER                  -> KeyError

-----------------------------------------------------------------------------
(***************************************************************************)
(* RV64I with M, Zicsr and Zifencei, written from the encoding tables of   *)
(* the RISC-V unprivileged ISA manual: an encoding fixes the opcode and    *)
(* funct3 and, by format, funct7 (R and 32-bit shifts), bits 31:26 (64-bit *)
(* shifts), or the whole I immediate with rs1 = rd = 0 (ECALL, EBREAK);    *)
(* JALR has funct3 0.  Every other word is reserved: an illegal            *)
(* instruction.                                                            *)
(***************************************************************************)
AnyF3 == -1   \* the U and J formats have no funct3

Enc(ins, fmt, opc, f3, f7) ==
  [ins |-> ins, fmt |-> fmt, opcode |-> opc, f3 |-> f3, f7 |-> f7]

RV64 ==
  {Enc(n[1], "R", "OP", n[2], n[3]) : n \in
     {<<"ADD", 0, 0>>, <<"SUB", 0, 32>>, <<"SLL", 1, 0>>, <<"SLT", 2, 0>>,
      <<"SLTU", 3, 0>>, <<"XOR", 4, 0>>, <<"SRL", 5, 0>>, <<"SRA", 5, 32>>,
      <<"OR", 6, 0>>, <<"AND", 7, 0>>, <<"MUL", 0, 1>>, <<"MULH", 1, 1>>,
      <<"MULHSU", 2, 1>>, <<"MULHU", 3, 1>>, <<"DIV", 4, 1>>,
      <<"DIVU", 5, 1>>, <<"REM", 6, 1>>, <<"REMU", 7, 1>>}}
  \cup
  {Enc(n[1], "R", "OP_32", n[2], n[3]) : n \in
     {<<"ADDW", 0, 0>>, <<"SUBW", 0, 32>>, <<"SLLW", 1, 0>>, <<"SRLW", 5, 0>>,
      <<"SRAW", 5, 32>>, <<"MULW", 0, 1>>, <<"DIVW", 4, 1>>,
      <<"DIVUW", 5, 1>>, <<"REMW", 6, 1>>, <<"REMUW", 7, 1>>}}
  \cup
  {Enc(n[1], "I", "OP_IMM", n[2], 0) : n \in
     {<<"ADDI", 0>>, <<"SLTI", 2>>, <<"SLTIU", 3>>, <<"XORI", 4>>,
      <<"ORI", 6>>, <<"ANDI", 7>>}}
  \cup {Enc("SLLI", "SH64", "OP_IMM", 1, 0), Enc("SRLI", "SH64", "OP_IMM", 5, 0),
        Enc("SRAI", "SH64", "OP_IMM", 5, 16), Enc("ADDIW", "I", "OP_IMM_32", 0, 0),
        Enc("SLLIW", "SH32", "OP_IMM_32", 1, 0), Enc("SRLIW", "SH32", "OP_IMM_32", 5, 0),
        Enc("SRAIW", "SH32", "OP_IMM_32", 5, 32)}
  \cup
  {Enc(n[1], "I", "LOAD", n[2], 0) : n \in
     {<<"LB", 0>>, <<"LH", 1>>, <<"LW", 2>>, <<"LD", 3>>, <<"LBU", 4>>,
      <<"LHU", 5>>, <<"LWU", 6>>}}
  \cup
  {Enc(n[1], "S", "STORE", n[2], 0) : n \in
     {<<"SB", 0>>, <<"SH", 1>>, <<"SW", 2>>, <<"SD", 3>>}}
  \cup
  {Enc(n[1], "B", "BRANCH", n[2], 0) : n \in
     {<<"BEQ", 0>>, <<"BNE", 1>>, <<"BLT", 4>>, <<"BGE", 5>>, <<"BLTU", 6>>,
      <<"BGEU", 7>>}}
  \cup {Enc("JAL", "J", "JAL", AnyF3, 0), Enc("JALR", "JR", "JALR", 0, 0),
        Enc("LUI", "U", "LUI", AnyF3, 0), Enc("AUIPC", "U", "AUIPC", AnyF3, 0),
        Enc("FENCE", "F", "MISC_MEM", 0, 0), Enc("FENCE_I", "F", "MISC_MEM", 1, 0),
        Enc("ECALL", "E", "SYSTEM", 0, 0), Enc("EBREAK", "E", "SYSTEM", 0, 1)}
  \cup
  {Enc(n[1], n[3], "SYSTEM", n[2], 0) : n \in
     {<<"CSRRW", 1, "C">>, <<"CSRRS", 2, "C">>, <<"CSRRC", 3, "C">>,
      <<"CSRRWI", 5, "CI">>, <<"CSRRSI", 6, "CI">>, <<"CSRRCI", 7, "CI">>}}

Matches(e, w) ==
  /\ w.opcode = e.opcode
  /\ e.f3 \in {AnyF3, w.funct3}
  /\ e.fmt \in {"R", "SH32"} => w.funct7 = e.f7
  /\ e.fmt = "SH64" => FUNCT7_SHFT64(w) = e.f7
  /\ e.fmt = "E" => I_IMM(w) = e.f7 /\ w.rs1 = 0 /\ w.rd = 0

\* The decoded record the ISA gives an encoding: the register operands of
\* its format, its immediate, and whether it names a CSR or jumps.
RefPacket(e, w) ==
  [valid           |-> TRUE,
   instr_d         |-> e.ins,
   rs1_valid       |-> e.fmt \in {"R", "I", "SH64", "SH32", "S", "B", "JR", "C"},
   rs2_valid       |-> e.fmt \in {"R", "S", "B"},
   rd_valid        |-> e.fmt \in {"R", "I", "SH64", "SH32", "U", "J", "JR", "C", "CI"},
   imm             |-> CASE e.fmt \in {"I", "JR"} -> sext12(I_IMM(w))
                         [] e.fmt = "SH64"        -> SHAMT64(w)
                         [] e.fmt = "SH32"        -> SHAMT32(w)
                         [] e.fmt = "CI"          -> w.rs1
                         [] OTHER                 -> 0,
   csr_valid       |-> e.fmt \in {"C", "CI"},
   unique          |-> e.fmt \in {"C", "CI"},
   is_control_flow |-> e.fmt \in {"B", "J", "JR"}]

RV64Encoding(w) == {e \in RV64 : Matches(e, w)}
=============================================================================
