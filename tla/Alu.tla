---------------------------------- MODULE Alu ----------------------------------
(***************************************************************************)
(* The arithmetic and logic of the virtual machine: what the macros at the *)
(* head of src/neovm.c do to the accumulator and to the flag register.     *)
(* An operation takes the accumulator a, an operand x and the flags f, and *)
(* returns the two it leaves behind.  Everything here is as the C code has *)
(* it, which is not always what the 8085 does: FLG_A is a carry out of the *)
(* whole byte, a subtraction of zero borrows, DAD never clears the carry,  *)
(* DAA tests the high nibble without shifting it down.                     *)
(***************************************************************************)
EXTENDS Words

Bit == {0, 1}

FLG_S == 7
FLG_Z == 6
FLG_A == 4
FLG_P == 2
FLG_C == 0

\* The flag register, bit by bit: bits 1, 3 and 5 hold whatever POP PSW left.
Flags == [0 .. 7 -> Bit]

Weight == <<1, 2, 4, 8, 16, 32, 64, 128>>
ToBits(b) == [k \in 0 .. 7 |-> (b \div Weight[k + 1]) % 2]
FromBits(f) ==
  f[0] + 2 * f[1] + 4 * f[2] + 8 * f[3] + 16 * f[4] + 32 * f[5] + 64 * f[6]
    + 128 * f[7]

And(a, x) ==
  FromBits([k \in 0 .. 7 |-> IF ToBits(a)[k] + ToBits(x)[k] = 2 THEN 1 ELSE 0])
Or(a, x) ==
  FromBits([k \in 0 .. 7 |-> IF ToBits(a)[k] + ToBits(x)[k] = 0 THEN 0 ELSE 1])
Xor(a, x) ==
  FromBits([k \in 0 .. 7 |-> IF ToBits(a)[k] + ToBits(x)[k] = 1 THEN 1 ELSE 0])

AsBit(cond) == IF cond THEN 1 ELSE 0

\* Mutant of Ones: the series stops a term short.
OnesShort(r) ==
  r - (r \div 2) - (r \div 4) - (r \div 8) - (r \div 16) - (r \div 32)
    - (r \div 64)

\* The number of ones in r, by Legendre's formula, as INIT_FLG_P computes it.
Ones(r) ==
  r - (r \div 2) - (r \div 4) - (r \div 8) - (r \div 16) - (r \div 32)
    - (r \div 64) - (r \div 128)

\* INIT_FLG_S, INIT_FLG_Z and INIT_FLG_P of a result r \in Byte.
SetSZP(f, r) ==
  [f EXCEPT ![FLG_S] = r \div 128,
            ![FLG_Z] = AsBit(r = 0),
            ![FLG_P] = AsBit(Ones(r) % 2 = 0)]

SetCarry(f, bit) == [f EXCEPT ![FLG_C] = bit]
SetAux(f, bit) == [f EXCEPT ![FLG_A] = bit]

Result(a, f) == [acc |-> a, flags |-> f]

Add(a, x, f) ==
  LET sum == a + x
      carry == AsBit(sum > 255)
  IN Result(sum % 256, SetAux(SetCarry(SetSZP(f, sum % 256), carry), carry))

\* Mutant of AddWithCarry: the carry out forgets the carry in.
AddWithCarryForgetting(a, x, f) ==
  LET sum == a + x + f[FLG_C]
      aux == AsBit(((x + f[FLG_C]) % 256) + a > 255)
  IN Result(sum % 256,
            SetAux(SetCarry(SetSZP(f, sum % 256), AsBit(a + x > 255)), aux))

\* FLG_A sees operand plus carry as one byte: 255 and a carry count as 0.
AddWithCarry(a, x, f) ==
  LET sum == a + x + f[FLG_C]
      aux == AsBit(((x + f[FLG_C]) % 256) + a > 255)
  IN Result(sum % 256,
            SetAux(SetCarry(SetSZP(f, sum % 256), AsBit(sum > 255)), aux))

\* The operand is complemented and incremented, in a byte, before it is added.
Subtract(a, x, f) ==
  LET s == Add(a, (256 - x) % 256, f)
  IN Result(s.acc, SetCarry(s.flags, 1 - s.flags[FLG_C]))

SubtractWithBorrow(a, x, f) == Subtract(a, (x + f[FLG_C]) % 256, f)

\* Mutant of Compare: the carry of the subtraction is not corrected.
CompareUncorrected(a, x, f) ==
  LET g == Subtract(a, x, f).flags
  IN Result(a, [g EXCEPT ![FLG_Z] = AsBit(x = a)])

\* CMP of a register and CPI.
Compare(a, x, f) ==
  LET g == SetCarry(Subtract(a, x, f).flags, AsBit(a < x))
  IN Result(a, [g EXCEPT ![FLG_Z] = AsBit(x = a)])

\* CMP M: one more than the operand is subtracted, and no flag is corrected.
CompareMemory(a, x, f) == Result(a, Subtract(a, (x + 1) % 256, f).flags)

Logical(r, f) == Result(r, SetSZP(SetAux(SetCarry(f, 0), 0), r))

LogicalAnd(a, x, f) ==
  LET s == Logical(And(a, x), f) IN Result(s.acc, SetAux(s.flags, 1))

\* The eight operations, in the order of their field in the opcode.
Operate(n, a, x, f) ==
  CASE n = 0 -> Add(a, x, f)
    [] n = 1 -> AddWithCarry(a, x, f)
    [] n = 2 -> Subtract(a, x, f)
    [] n = 3 -> SubtractWithBorrow(a, x, f)
    [] n = 4 -> LogicalAnd(a, x, f)
    [] n = 5 -> Logical(Xor(a, x), f)
    [] n = 6 -> Logical(Or(a, x), f)
    [] n = 7 -> Compare(a, x, f)

\* Mutant of Increment: the byte does not go round.
IncrementUnbounded(x, f) ==
  Result(x + 1, SetAux(SetSZP(f, (x + 1) % 256), AsBit(x = 255)))

\* INR and DCR of a register or of memory: the carry is left alone.
Increment(x, f) ==
  Result((x + 1) % 256, SetAux(SetSZP(f, (x + 1) % 256), AsBit(x = 255)))
Decrement(x, f) ==
  Result((x + 255) % 256, SetAux(SetSZP(f, (x + 255) % 256), AsBit(x > 0)))

\* The high nibble is compared with 9 where it stands: 16 or more is above.
DecimalAdjust(a, f) ==
  LET low == IF (a % 16) > 9 \/ f[FLG_A] = 1 THEN 6 ELSE 0
      high == IF a - (a % 16) > 9 \/ f[FLG_C] = 1 THEN 96 ELSE 0
  IN Add(a, low + high, f)

\* Mutant of RotateRight: the bit only goes to the carry.
ShiftRight(a, f) == Result(a \div 2, SetCarry(f, a % 2))

\* RLC, RRC, RAL, RAR: the bit that leaves the accumulator is the new carry.
RotateLeft(a, f) ==
  Result(((2 * a) % 256) + a \div 128, SetCarry(f, a \div 128))
RotateRight(a, f) ==
  Result(a \div 2 + 128 * (a % 2), SetCarry(f, a % 2))
RotateLeftThroughCarry(a, f) ==
  Result(((2 * a) % 256) + f[FLG_C], SetCarry(f, a \div 128))
RotateRightThroughCarry(a, f) ==
  Result(a \div 2 + 128 * f[FLG_C], SetCarry(f, a % 2))

\* In the order of their field in the opcode.
Rotate(n, a, f) ==
  CASE n = 0 -> RotateLeft(a, f)
    [] n = 1 -> RotateRight(a, f)
    [] n = 2 -> RotateLeftThroughCarry(a, f)
    [] n = 3 -> RotateRightThroughCarry(a, f)

\* DAD: a carry is set and never cleared.
AddPairs(hl, x, f) ==
  [sum |-> (hl + x) % 65536,
   flags |-> IF hl + x > 65535 THEN SetCarry(f, 1) ELSE f]
================================================================================
