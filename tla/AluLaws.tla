------------------------------- MODULE AluLaws -------------------------------
(***************************************************************************)
(* What a program may rely on when it computes with the accumulator, said  *)
(* in ordinary arithmetic and for one accumulator, operand and carry.      *)
(***************************************************************************)
EXTENDS Alu, FiniteSets

\* The flag register of a program whose last carry was c.
FlagsWith(c) == [k \in 0 .. 7 |-> IF k = FLG_C THEN c ELSE 0]

(***************************************************************************)
(* ADD, ADC, SUB and SBB are one byte of a longer sum or difference: the   *)
(* accumulator and the carry out together are the exact result.  The one   *)
(* exception of this code is stated too: an operand that is 0 once the     *)
(* borrow is added to it, in a byte, leaves a borrow behind whatever the   *)
(* accumulator holds.                                                      *)
(***************************************************************************)
ExactSum(a, x, c, r) == r.acc + 256 * r.flags[FLG_C] = a + x + c

ExactDifference(a, x, c, r) ==
  /\ r.acc = (a - x - c) % 256
  /\ IF (x + c) % 256 = 0
       THEN r.flags[FLG_C] = 1
       ELSE r.acc - 256 * r.flags[FLG_C] = a - x - c

SumsAndDifferences(a, x, f) ==
  /\ ExactSum(a, x, 0, Add(a, x, f))
  /\ ExactSum(a, x, f[FLG_C], AddWithCarry(a, x, f))
  /\ ExactDifference(a, x, 0, Subtract(a, x, f))
  /\ ExactDifference(a, x, f[FLG_C], SubtractWithBorrow(a, x, f))

(***************************************************************************)
(* After CMP r and CPI the conditional jumps tell the order of accumulator *)
(* and operand: JC is taken when it is below, JZ when it is equal, and the *)
(* accumulator survives.                                                   *)
(***************************************************************************)
Orders(a, x, r) ==
  /\ r.acc = a
  /\ r.flags[FLG_C] = 1 <=> a < x
  /\ r.flags[FLG_Z] = 1 <=> a = x

ComparisonOrders(a, x, f) == Orders(a, x, Compare(a, x, f))

(***************************************************************************)
(* The sign, zero and parity flags describe the byte an operation leaves   *)
(* (for CMP, the difference it throws away): parity is the evenness of the *)
(* number of ones, which the code computes without counting them.          *)
(***************************************************************************)
EvenParity(b) == Cardinality({k \in 0 .. 7 : ToBits(b)[k] = 1}) % 2 = 0

Describe(f, b) ==
  /\ f[FLG_S] = 1 <=> b > 127
  /\ f[FLG_Z] = 1 <=> b = 0
  /\ f[FLG_P] = 1 <=> EvenParity(b)

FlagsDescribeResult(a, x, f) ==
  /\ \A n \in 0 .. 6 : LET r == Operate(n, a, x, f) IN Describe(r.flags, r.acc)
  /\ Describe(Operate(7, a, x, f).flags, (a - x) % 256)
  /\ Describe(Increment(a, f).flags, (a + 1) % 256)
  /\ Describe(Decrement(a, f).flags, (a - 1) % 256)

(***************************************************************************)
(* A rotation can be undone by its mirror image, carry included where the  *)
(* rotation goes through it, and eight of RLC or nine of RAL come round.   *)
(***************************************************************************)
Turned(n, r) == Rotate(n, r.acc, r.flags)
FourTimes(n, r) == Turned(n, Turned(n, Turned(n, Turned(n, r))))
Undone(n, m, r) == Turned(m, Turned(n, r))

RotationsComeRound(a, f) ==
  LET r == Result(a, f)
  IN /\ Undone(0, 1, r).acc = a
     /\ Undone(1, 0, r).acc = a
     /\ Undone(2, 3, r) = r
     /\ Undone(3, 2, r) = r
     /\ FourTimes(0, FourTimes(0, r)).acc = a
     /\ Turned(2, FourTimes(2, FourTimes(2, r))) = r

(***************************************************************************)
(* Claimed by src/asm.c:29, "Compare with accumulator": CMP M orders the   *)
(* accumulator and the byte in memory as CMP of a register does.           *)
(***************************************************************************)
MemoryComparisonOrders(a, x, f) == Orders(a, x, CompareMemory(a, x, f))

(***************************************************************************)
(* Claimed by src/asm.c:37, "Decimal adjust accumulator": DAA after an     *)
(* addition of two packed decimal bytes leaves their decimal sum.          *)
(***************************************************************************)
IsDecimal(b) == b \div 16 < 10 /\ b % 16 < 10
DecimalValue(b) == 10 * (b \div 16) + (b % 16)

DecimalSums(a, x, f) ==
  IsDecimal(a) /\ IsDecimal(x) =>
    LET s == Add(a, x, f)
        r == DecimalAdjust(s.acc, s.flags)
    IN DecimalValue(r.acc) + 100 * r.flags[FLG_C]
         = DecimalValue(a) + DecimalValue(x)
===============================================================================
