------------------------------- MODULE MulDiv -------------------------------
(***************************************************************************)
(* The results MulDivUnitCL.xtick (lizard/core/cl/muldiv.py) computes:    *)
(* Result(ins, a, b) is its if/elif chain on an issued instruction, and    *)
(* RefResult the RISC-V M-extension result it must equal.  Register values *)
(* are naturals below 2^XLEN; HALF stands for the 32 of the W forms, so    *)
(* that a small XLEN keeps their truncation and sign extension.  The unit's *)
(* queues and delay pipe are left out; MC_Isa runs these operators on       *)
(* every pair of operands the RTL divider is given.                        *)
(***************************************************************************)
EXTENDS Integers

CONSTANTS
  XLEN,   \* register width
  HALF    \* width of the W forms' operands (32 in the code)

ASSUME XLEN >= 2 /\ HALF >= 1 /\ HALF < XLEN

Word == 0..(2^XLEN - 1)

\* The chain's instructions; the second REMU branch is shadowed by the first.
Instrs == {"MUL", "MULH", "MULHU", "MULHSU", "DIV", "DIVU", "REM", "REMU",
           "MULW", "DIVW", "DIVUW", "REMW", "REMUW"}

\* Bits(w, v, trunc=True), .int() and .uint() of a w-bit value, sext.
Trunc(v, w) == v % 2^w
SInt(x, w) == IF x >= 2^(w - 1) THEN x - 2^w ELSE x
Low(x) == x % 2^HALF
SExt(x) == Trunc(SInt(x, HALF), XLEN)
AbsVal(x) == IF x < 0 THEN -x ELSE x
sign(x) == IF x > 0 THEN 1 ELSE IF x < 0 THEN -1 ELSE 0

-----------------------------------------------------------------------------
\* MUL, MULH, MULHU, MULHSU: Python's >> on the full product floors.
MulResult(ins, a, b) ==
  CASE ins = "MUL"    -> Trunc(SInt(a, XLEN) * SInt(b, XLEN), XLEN)
    [] ins = "MULH"   -> Trunc((SInt(a, XLEN) * SInt(b, XLEN)) \div 2^XLEN, XLEN)
    [] ins = "MULHU"  -> Trunc((a * b) \div 2^XLEN, XLEN)
    [] ins = "MULHSU" -> Trunc((SInt(a, XLEN) * b) \div 2^XLEN, XLEN)

\* Fault variant: REM takes the sign of the quotient, as DIV does.
DivResult_remquotsign(ins, a, b) ==
  LET s1 == SInt(a, XLEN)
      s2 == SInt(b, XLEN)
  IN CASE ins = "DIV" ->
            IF s2 = 0 THEN 2^XLEN - 1
            ELSE IF s1 = -2^(XLEN - 1) /\ s2 = -1 THEN a
            ELSE Trunc(sign(s1) * sign(s2) * (AbsVal(s1) \div AbsVal(s2)), XLEN)
       [] ins = "DIVU" -> IF b = 0 THEN 2^XLEN - 1 ELSE a \div b
       [] ins = "REM" ->
            IF s2 = 0 THEN a
            ELSE IF s1 = -2^(XLEN - 1) /\ s2 = -1 THEN 0
            ELSE Trunc(sign(s1) * sign(s2) * (AbsVal(s1) % AbsVal(s2)), XLEN)
       [] ins = "REMU" -> IF b = 0 THEN a ELSE a % b

\* DIV, DIVU, REM, REMU: division by zero and the most-negative / -1
\* overflow first, then magnitudes with the sign put back.
DivResult(ins, a, b) ==
  LET s1 == SInt(a, XLEN)
      s2 == SInt(b, XLEN)
  IN CASE ins = "DIV" ->
            IF s2 = 0 THEN 2^XLEN - 1
            ELSE IF s1 = -2^(XLEN - 1) /\ s2 = -1 THEN a
            ELSE Trunc(sign(s1) * sign(s2) * (AbsVal(s1) \div AbsVal(s2)), XLEN)
       [] ins = "DIVU" -> IF b = 0 THEN 2^XLEN - 1 ELSE a \div b
       [] ins = "REM" ->
            IF s2 = 0 THEN a
            ELSE IF s1 = -2^(XLEN - 1) /\ s2 = -1 THEN 0
            ELSE Trunc(sign(s1) * (AbsVal(s1) % AbsVal(s2)), XLEN)
       [] ins = "REMU" -> IF b = 0 THEN a ELSE a % b

\* The W forms: operands are the low HALF bits, results are sign-extended.
WResult(ins, a, b) ==
  LET s1 == SInt(Low(a), HALF)
      s2 == SInt(Low(b), HALF)
      u1 == Low(a)
      u2 == Low(b)
  IN CASE ins = "MULW" -> SExt(Trunc(s1 * s2, HALF))
       [] ins = "DIVW" ->
            IF s2 = 0 THEN 2^XLEN - 1
            ELSE IF s1 = -2^(HALF - 1) /\ s2 = -1 THEN Trunc(s1, XLEN)
            ELSE SExt(Trunc(sign(s1) * sign(s2) * (AbsVal(s1) \div AbsVal(s2)), HALF))
       [] ins = "DIVUW" -> IF u2 = 0 THEN 2^XLEN - 1 ELSE SExt(Trunc(u1 \div u2, HALF))
       [] ins = "REMW" ->
            IF s2 = 0 THEN SExt(Trunc(s1, HALF))
            ELSE IF s1 = -2^(HALF - 1) /\ s2 = -1 THEN 0
            ELSE SExt(Trunc(sign(s1) * (AbsVal(s1) % AbsVal(s2)), HALF))
       [] ins = "REMUW" -> IF u2 = 0 THEN SExt(u1) ELSE SExt(u1 % u2)

Result(ins, a, b) ==
  CASE ins \in {"MUL", "MULH", "MULHU", "MULHSU"} -> MulResult(ins, a, b)
    [] ins \in {"DIV", "DIVU", "REM", "REMU"}      -> DivResult(ins, a, b)
    [] OTHER                                       -> WResult(ins, a, b)

-----------------------------------------------------------------------------
(***************************************************************************)
(* The RISC-V M-extension, stated by what the results satisfy rather than *)
(* how they are computed: the quotient q and remainder r of x by y       *)
(* (y # 0) meet x = q * y + r with |r| < |y| and r zero or of x's sign;   *)
(* division by zero gives all ones and x; a high product h is the h with *)
(* h * 2^w <= P < (h + 1) * 2^w.                                          *)
(***************************************************************************)
QuotRem(x, y) ==
  IF y = 0 THEN <<-1, x>>
  ELSE LET q == CHOOSE q \in -(2^XLEN)..2^XLEN :
                  LET r == x - q * y
                  IN AbsVal(r) < AbsVal(y) /\ (r = 0 \/ (r < 0) = (x < 0))
       IN <<q, x - q * y>>

High(p, w) == CHOOSE h \in -(2^w)..2^w : h * 2^w <= p /\ p < (h + 1) * 2^w

\* The architectural result of ins at width w on x and y, before the W
\* forms' sign extension.
RefAt(ins, w, x, y) ==
  CASE ins \in {"MUL", "MULW"}   -> Trunc(SInt(x, w) * SInt(y, w), w)
    [] ins = "MULH"              -> Trunc(High(SInt(x, w) * SInt(y, w), w), w)
    [] ins = "MULHU"             -> Trunc(High(x * y, w), w)
    [] ins = "MULHSU"            -> Trunc(High(SInt(x, w) * y, w), w)
    [] ins \in {"DIV", "DIVW"}   -> Trunc(QuotRem(SInt(x, w), SInt(y, w))[1], w)
    [] ins \in {"DIVU", "DIVUW"} -> Trunc(QuotRem(x, y)[1], w)
    [] ins \in {"REM", "REMW"}   -> Trunc(QuotRem(SInt(x, w), SInt(y, w))[2], w)
    [] ins \in {"REMU", "REMUW"} -> Trunc(QuotRem(x, y)[2], w)

WForms == {"MULW", "DIVW", "DIVUW", "REMW", "REMUW"}

RefResult(ins, a, b) ==
  IF ins \in WForms THEN SExt(RefAt(ins, HALF, Low(a), Low(b)))
  ELSE RefAt(ins, XLEN, a, b)


=============================================================================
