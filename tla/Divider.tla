------------------------------ MODULE Divider ------------------------------
(***************************************************************************)
(* NonRestoringDivider (lizard/util/rtl/divide.py), one step per clock     *)
(* cycle.  The registers are acc (DataLen + 1 bits), divisor, dividend,    *)
(* negate, negate_rem, counter and busy; the inputs of a cycle are the    *)
(* div, result and preempt calls.  NonRestoringDividerStep's loop of      *)
(* nsteps iterations is the RECURSIVE operator Steps.  Every value is a   *)
(* natural number below 2^width, and every operation wraps as the         *)
(* fixed-width Bits of the code do.                                       *)
(***************************************************************************)
EXTENDS Integers

CONSTANTS
  DATALEN,   \* DivideInterface.DataLen
  NCYCLES    \* ncycles: cycles per division

ASSUME DATALEN >= 1 /\ NCYCLES >= 1 /\ DATALEN % NCYCLES = 0

NSTEPS == DATALEN \div NCYCLES
END    == DATALEN - 1
AEND   == DATALEN

Word    == 0..(2^DATALEN - 1)
AccWord == 0..(2^(DATALEN + 1) - 1)

\* Bit i of x, and ~x + 1 in a w-bit register.
Bit(x, i) == (x \div 2^i) % 2
Negate(x, w) == (2^w - x) % 2^w

VARIABLES
  acc, divisor, dividend, negate, negate_rem, counter, busy,
  op   \* history: the operands of the latest div call

vars == <<acc, divisor, dividend, negate, negate_rem, counter, busy, op>>

\* Registers without a reset value start at 0; busy resets to 0.
Init ==
  /\ acc = 0 /\ divisor = 0 /\ dividend = 0
  /\ negate = FALSE /\ negate_rem = FALSE
  /\ counter = 0 /\ busy = FALSE
  /\ op = [dividend |-> 0, divisor |-> 0, signed |-> FALSE]

-----------------------------------------------------------------------------
(* NonRestoringDividerStep.eval: k iterations on <<acc, dividend>>; the    *)
(* shifted accumulator gets the dividend's top bit; a negative            *)
(* accumulator adds the divisor, a non-negative one subtracts it; the     *)
(* quotient bit shifted into the dividend is 1 when the result is         *)
(* non-negative.                                                          *)
RECURSIVE Steps(_, _, _, _)
Steps(a, d, dvs, k) ==
  IF k = 0 THEN <<a, d>>
  ELSE LET shift == (2 * a + Bit(d, END)) % 2^(AEND + 1)
           a2    == IF Bit(a, AEND) = 1 THEN (shift + dvs) % 2^(AEND + 1)
                                        ELSE (shift - dvs + 2^(AEND + 1)) % 2^(AEND + 1)
           d2    == (2 * d + (1 - Bit(a2, AEND))) % 2^DATALEN
       IN Steps(a2, d2, dvs, k - 1)

\* handle_calls: the ready signals of div and result.
DivRdy(rc) == ~busy \/ rc
ResultRdy == busy /\ counter = 0

\* Fault variant: the last cycle skips the remainder's restoring add.
FinalAcc_nocorrect(an) ==
  IF negate_rem THEN Negate(an, AEND + 1) ELSE an

\* set_div_regs, last cycle: a negative remainder is restored by adding
\* the divisor, then complemented if the dividend was negative.
FinalAcc(an) ==
  LET r == IF Bit(an, AEND) = 1 THEN (an + divisor) % 2^(AEND + 1) ELSE an
  IN IF negate_rem THEN Negate(r, AEND + 1) ELSE r

\* set_div_regs, last cycle: the quotient is complemented when the signs
\* differed, unless the divisor is zero.
FinalDividend(dn) ==
  IF negate /\ divisor # 0 THEN Negate(dn, DATALEN) ELSE dn

\* A div call: magnitudes of signed operands, sign flags, counter loaded.
Load(a, b, sg) ==
  /\ acc' = 0
  /\ divisor' = IF sg /\ Bit(b, END) = 1 THEN Negate(b, DATALEN) ELSE b
  /\ dividend' = IF sg /\ Bit(a, END) = 1 THEN Negate(a, DATALEN) ELSE a
  /\ negate' = (sg /\ Bit(b, END) # Bit(a, END))
  /\ negate_rem' = (sg /\ Bit(a, END) = 1)
  /\ counter' = NCYCLES
  /\ op' = [dividend |-> a, divisor |-> b, signed |-> sg]

\* A cycle without div: the step unit runs while the counter is non-zero.
Iterate ==
  LET nx == Steps(acc, dividend, divisor, NSTEPS) IN
  /\ IF counter > 0
       THEN /\ acc' = IF counter = 1 THEN FinalAcc(nx[1]) ELSE nx[1]
            /\ dividend' = IF counter = 1 THEN FinalDividend(nx[2]) ELSE nx[2]
            /\ counter' = counter - 1
       ELSE UNCHANGED <<acc, dividend, counter>>
  /\ UNCHANGED <<divisor, negate, negate_rem, op>>

\* One clock cycle with calls dc (div, with its arguments), rc (result)
\* and pc (preempt); div and result are called only when ready.
Cycle(dc, a, b, sg, rc, pc) ==
  /\ dc => DivRdy(rc)
  /\ rc => ResultRdy
  /\ IF dc THEN Load(a, b, sg) ELSE Iterate
  /\ busy' = IF dc \/ rc \/ pc THEN dc ELSE busy

Next ==
  \/ \E rc, pc \in BOOLEAN : Cycle(FALSE, 0, 0, FALSE, rc, pc)
  \/ \E a, b \in Word, sg, rc, pc \in BOOLEAN : Cycle(TRUE, a, b, sg, rc, pc)

Spec == Init /\ [][Next]_vars

-----------------------------------------------------------------------------
(***************************************************************************)
(* The RISC-V M-extension results, the reference the divider must meet.   *)
(***************************************************************************)
Signed(x) == IF Bit(x, END) = 1 THEN x - 2^DATALEN ELSE x
Abs(x) == IF x < 0 THEN -x ELSE x
Wrap(x) == x % 2^DATALEN

\* <<quotient, remainder>> of DIV/REM (signed) or DIVU/REMU (unsigned).
RefDivRem(a, b, sg) ==
  IF b = 0 THEN <<2^DATALEN - 1, a>>
  ELSE IF ~sg THEN <<a \div b, a % b>>
  ELSE LET sa == Signed(a)
           sb == Signed(b)
           q  == IF (sa < 0) = (sb < 0) THEN Abs(sa) \div Abs(sb)
                 ELSE -(Abs(sa) \div Abs(sb))
       IN <<Wrap(q), Wrap(sa - q * sb)>>

(* Whenever result is ready, its quotient (the dividend register) and     *)
(* remainder (the low DataLen bits of acc) are the RISC-V results for the *)
(* operands of the latest div call: signs, division by zero, the          *)
(* most-negative / -1 overflow and the last-cycle correction included.   *)
DivideMatchesRiscV ==
  ResultRdy =>
    <<dividend, acc % 2^DATALEN>> = RefDivRem(op.dividend, op.divisor, op.signed)

=============================================================================
