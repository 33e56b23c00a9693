------------------------------- MODULE RvAlu --------------------------------
(***************************************************************************)
(* What the instruction-set simulator computes for the arithmetic, shift,  *)
(* compare, multiply and divide instructions (the C expressions of         *)
(* Riscv::execute), and what the processor's own circuits compute for them *)
(* (riscv_alu.v, the branch comparators of riscv_exec.v, the multiplier,   *)
(* the iterative divider).  Co-simulation compares the two instruction by  *)
(* instruction, so they have to be the same function.                      *)
(*                                                                         *)
(* A register value is a natural below 2^W; W stands for 32.               *)
(***************************************************************************)
EXTENDS Integers, FiniteSets, RvBits

CONSTANT W

ASSUME WidthAssumption == W \in Nat /\ W > 1

Reg == 0 .. (2^W - 1)
Msb(a) == a \div 2^(W - 1)

(* The value of a register read as a signed number; (unsigned) is the value itself. *)
Signed(a) == IF Msb(a) = 1 THEN a - 2^W ELSE a
Trunc(n) == n % 2^W

Bool(b) == IF b THEN 1 ELSE 0

(* C division truncates toward zero; the remainder takes the dividend's sign. *)
Abs(n) == IF n < 0 THEN -n ELSE n
CDiv(a, b) == IF (a < 0) = (b < 0) THEN Abs(a) \div Abs(b) ELSE -(Abs(a) \div Abs(b))
CRem(a, b) == a - b * CDiv(a, b)

-----------------------------------------------------------------------------
(* reg_rd of the register-immediate and register-register instructions: the
   immediate is the sign-extended imm12, a register value like any other.  A shift
   by W or more has no defined result in C (neither the six-bit shamt nor the
   register is masked), hence a set of outcomes.                                  *)
AluOps == {"and", "or", "xor", "add", "sub", "slt", "sltu", "sll", "srl", "sra"}

ExecuteAluOp(op, a, b) ==
    CASE op = "and" -> {BitAnd(a, b)}
      [] op = "or"  -> {BitOr(a, b)}
      [] op = "xor" -> {BitXor(a, b)}
      [] op = "add" -> {Trunc(a + b)}
      [] op = "sub" -> {Trunc(a - b)}
      [] op = "slt"  -> {Bool(Signed(a) < Signed(b))}
      [] op = "sltu" -> {Bool(a < b)}
      [] op \in {"sll", "srl", "sra"} /\ b >= W -> Reg
      [] op = "sll" /\ b < W -> {Trunc(a * 2^b)}
      [] op = "srl" /\ b < W -> {a \div 2^b}
      [] op = "sra" /\ b < W -> {Trunc(Signed(a) \div 2^b)}

(* The conditions of the branch instructions. *)
BranchOps == {"beq", "bne", "blt", "bge", "bltu", "bgeu"}

ExecuteBranch(op, a, b) ==
    CASE op = "beq"  -> a = b
      [] op = "bne"  -> a # b
      [] op = "blt"  -> Signed(a) < Signed(b)
      [] op = "bge"  -> Signed(a) >= Signed(b)
      [] op = "bltu" -> a < b
      [] op = "bgeu" -> a >= b

(* mul keeps the low word of the signed product (which overflows the C int, and
   wraps); the high words come from a 2W-bit product.  In mulhsu the signed factor
   is converted to unsigned before the product, which is taken modulo 2^(2W), and
   the quotient by 2^W is arithmetic on the signed result, then truncated.         *)
Signed2(n) == LET m == n % 2^(2*W) IN IF m >= 2^(2*W - 1) THEN m - 2^(2*W) ELSE m

MulOps == {"mul", "mulh", "mulhsu", "mulhu"}

\* Mutant: mulhsu reads its second factor signed.
MulhsuAsMulh(op, a, b) ==
    CASE op = "mul" -> Trunc(Signed(a) * Signed(b))
      [] op \in {"mulh", "mulhsu"} -> Trunc((Signed(a) * Signed(b)) \div 2^W)
      [] op = "mulhu" -> Trunc((a * b) \div 2^W)

ExecuteMul(op, a, b) ==
    CASE op = "mul"    -> Trunc(Signed(a) * Signed(b))
      [] op = "mulh"   -> Trunc((Signed(a) * Signed(b)) \div 2^W)
      [] op = "mulhsu" -> Trunc(Signed2((Signed(a) % 2^(2*W)) * b) \div 2^W)
      [] op = "mulhu"  -> Trunc((a * b) \div 2^W)

DivOps == {"div", "divu", "rem", "remu"}

(* The overflowing quotient and division by zero are tested before C divides. *)
Overflows(a, b) == Signed(a) = -(2^(W - 1)) /\ Signed(b) = -1

ExecuteDiv(op, a, b) ==
    CASE op = "div"  -> IF Overflows(a, b) THEN a
                        ELSE IF b # 0 THEN Trunc(CDiv(Signed(a), Signed(b))) ELSE 2^W - 1
      [] op = "divu" -> IF b # 0 THEN a \div b ELSE 2^W - 1
      [] op = "rem"  -> IF Overflows(a, b) THEN 0
                        ELSE IF b # 0 THEN Trunc(CRem(Signed(a), Signed(b))) ELSE a
      [] op = "remu" -> IF b # 0 THEN a % b ELSE a

-----------------------------------------------------------------------------
(* riscv_alu.v.  The shifter is a chain of stages, one per bit of the amount; stage
   i shifts by 2^i and fills with the sign only in the arithmetic shift.  A shift
   uses the bits of the amount that have a stage.                                 *)
Stages == CHOOSE s \in 0..W : 2^s >= W /\ \A t \in 0..(s - 1) : 2^t < W
AmountBit(b, i) == (b \div 2^i) % 2

RtlShiftLeft(a, b) ==
    LET stage[i \in 0..Stages] ==
          IF i = 0 THEN a
          ELSE IF AmountBit(b, i - 1) = 1 THEN Trunc(stage[i - 1] * 2^(2^(i - 1)))
          ELSE stage[i - 1]
    IN  stage[Stages]

RtlShiftRight(a, b, arith) ==
    LET fill == IF arith /\ Msb(a) = 1 THEN 1 ELSE 0
        stage[i \in 0..Stages] ==
          IF i = 0 THEN a
          ELSE LET n == 2^(i - 1)
               IN  IF AmountBit(b, i - 1) = 1
                   THEN stage[i - 1] \div 2^n + fill * (2^W - 2^(W - n))
                   ELSE stage[i - 1]
    IN  stage[Stages]

(* The comparators look at the two sign bits, then at the sign of the difference. *)
RtlLess(x, y) == IF Msb(x) # Msb(y) THEN Msb(x) ELSE Msb(Trunc(x - y))
RtlGreater(x, y) == IF Msb(x) # Msb(y) THEN Msb(y) ELSE Msb(Trunc(y - x))

RtlAluOp(op, a, b) ==
    CASE op = "and" -> BitAnd(a, b)
      [] op = "or"  -> BitOr(a, b)
      [] op = "xor" -> BitXor(a, b)
      [] op = "add" -> Trunc(a + b)
      [] op = "sub" -> Trunc(a - b)
      [] op = "slt"  -> RtlLess(a, b)
      [] op = "sltu" -> Bool(a < b)
      [] op = "sll"  -> RtlShiftLeft(a, b)
      [] op = "srl"  -> RtlShiftRight(a, b, FALSE)
      [] op = "sra"  -> RtlShiftRight(a, b, TRUE)

RtlBranch(op, a, b) ==
    CASE op = "beq"  -> a = b
      [] op = "bne"  -> a # b
      [] op = "blt"  -> RtlLess(a, b) = 1
      [] op = "bge"  -> RtlGreater(a, b) = 1 \/ a = b
      [] op = "bltu" -> a < b
      [] op = "bgeu" -> a >= b

(* riscv_multiplier.v: both factors get one more bit, a copy of the sign where the
   instruction reads them signed, and are sign-extended to 2W + 1 bits.            *)
Extend(a, signed) == IF signed /\ Msb(a) = 1 THEN a + 2^W ELSE a
Widen(x) == IF x >= 2^W THEN x + (2^(2*W + 1) - 2^(W + 1)) ELSE x

RtlMul(op, a, b) ==
    LET x == Extend(a, op \in {"mulhsu", "mulh"})
        y == Extend(b, op = "mulh")
        product == (Widen(x) * Widen(y)) % 2^(2*W + 1)
    IN  IF op = "mul" THEN product % 2^W ELSE (product \div 2^W) % 2^W

(* riscv_divider.v: the registers after the start, and one step of the restoring
   division; the unit is complete when the mask has been shifted out.              *)
DivStart(op, a, b) ==
    LET signed == op \in {"div", "rem"}
        mag(n) == IF signed /\ Msb(n) = 1 THEN Trunc(-n) ELSE n
    IN  [dividend |-> mag(a), divisor |-> mag(b) * 2^(W - 1),
         quotient |-> 0, q_mask |-> 2^(W - 1),
         invert |-> \/ op = "div" /\ Msb(a) # Msb(b) /\ b # 0
                    \/ op = "rem" /\ Msb(a) = 1]

DivStep(d) ==
    LET fits == d.divisor <= d.dividend
    IN  [d EXCEPT !.dividend = IF fits THEN @ - d.divisor ELSE @,
                  !.quotient = IF fits THEN @ + d.q_mask ELSE @,
                  !.divisor  = @ \div 2,
                  !.q_mask   = @ \div 2]

RtlDiv(op, a, b) ==
    LET after[n \in 0..W] == IF n = 0 THEN DivStart(op, a, b) ELSE DivStep(after[n - 1])
        value == IF op \in {"div", "divu"} THEN after[W].quotient ELSE after[W].dividend
    IN  IF after[W].invert THEN Trunc(-value) ELSE value

-----------------------------------------------------------------------------
(* Both compute the same; where the C expression has no defined value the
   processor's result is one of those a build may give.                    *)
SameAlu(op, a, b) == RtlAluOp(op, a, b) \in ExecuteAluOp(op, a, b)
SameBranch(op, a, b) == RtlBranch(op, a, b) = ExecuteBranch(op, a, b)
SameMul(op, a, b) == RtlMul(op, a, b) = ExecuteMul(op, a, b)
SameDiv(op, a, b) == RtlDiv(op, a, b) = ExecuteDiv(op, a, b)
=============================================================================
