------------------------------- MODULE AluProofs -------------------------------
(***************************************************************************)
(* Exactness of the arithmetic for every accumulator, operand and flag     *)
(* register.  TLC goes through all bytes and both carries; here the other  *)
(* seven flags, which a program may have set to anything, are arbitrary.   *)
(***************************************************************************)
EXTENDS AluLaws, FiniteSetTheorems, TLAPS

-----------------------------------------------------------------------------
(* The flags.                                                               *)

LEMMA SetCarryFacts ==
  ASSUME NEW f \in Flags, NEW bit \in Bit
  PROVE  /\ SetCarry(f, bit) \in Flags
         /\ SetCarry(f, bit)[FLG_C] = bit
         /\ SetCarry(f, bit)[FLG_Z] = f[FLG_Z]
BY DEF SetCarry, Flags, FLG_C, FLG_Z

LEMMA SetAuxFacts ==
  ASSUME NEW f \in Flags, NEW bit \in Bit
  PROVE  /\ SetAux(f, bit) \in Flags
         /\ SetAux(f, bit)[FLG_C] = f[FLG_C]
         /\ SetAux(f, bit)[FLG_Z] = f[FLG_Z]
BY DEF SetAux, Flags, FLG_A, FLG_C, FLG_Z

\* The sign is one bit only because the result is one byte.
LEMMA SetSZPFacts ==
  ASSUME NEW f \in Flags, NEW r \in Byte
  PROVE  /\ SetSZP(f, r) \in Flags
         /\ SetSZP(f, r)[FLG_C] = f[FLG_C]
         /\ SetSZP(f, r)[FLG_Z] = AsBit(r = 0)
<1>1. r \div 128 \in Bit
  BY DEF Byte, Bit
<1>2. AsBit(r = 0) \in Bit /\ AsBit(Ones(r) % 2 = 0) \in Bit
  BY DEF AsBit, Bit
<1> HIDE DEF AsBit, Ones
<1> QED BY <1>1, <1>2 DEF SetSZP, Flags, FLG_S, FLG_Z, FLG_P, FLG_C

-----------------------------------------------------------------------------
(* Sums and differences.                                                    *)

LEMMA AddFacts ==
  ASSUME NEW a \in Byte, NEW x \in Byte, NEW f \in Flags
  PROVE  /\ Add(a, x, f).acc = (a + x) % 256 /\ Add(a, x, f).acc \in Byte
         /\ Add(a, x, f).flags \in Flags
         /\ Add(a, x, f).flags[FLG_C] = AsBit(a + x > 255)
<1> DEFINE r == (a + x) % 256
           carry == AsBit(a + x > 255)
           g == SetCarry(SetSZP(f, r), carry)
<1>1. r \in Byte
  BY DEF Byte
<1>2. carry \in Bit
  BY DEF AsBit, Bit
<1>3. Add(a, x, f) = Result(r, SetAux(g, carry))
  BY DEF Add
<1> HIDE DEF r, carry
<1>4. SetSZP(f, r) \in Flags
  BY <1>1, SetSZPFacts
<1>5. g \in Flags /\ g[FLG_C] = carry
  BY <1>2, <1>4, SetCarryFacts
<1> HIDE DEF g
<1>6. SetAux(g, carry) \in Flags /\ SetAux(g, carry)[FLG_C] = carry
  BY <1>2, <1>5, SetAuxFacts
<1> QED BY <1>1, <1>3, <1>6 DEF Result, r, carry

\* The bytes a subtraction adds, and what the carry out of it says.
LEMMA Complements ==
  ASSUME NEW a \in Byte, NEW x \in Byte, NEW y, y = (256 - x) % 256
  PROVE  /\ y \in Byte
         /\ (a + y) % 256 = (a - x) % 256
         /\ x = 0 => ~(a + y > 255)
         /\ x # 0 => (a + y > 255 <=> a >= x)
<1>1. y = IF x = 0 THEN 0 ELSE 256 - x
  BY DEF Byte
<1>2. CASE x = 0
  BY <1>1, <1>2 DEF Byte
<1>3. CASE x # 0
  <2>1. y = 256 - x /\ y \in Byte
    BY <1>1, <1>3 DEF Byte
  <2>2. (a - x) % 256 = IF a >= x THEN a - x ELSE a - x + 256
    BY DEF Byte
  <2>3. (a + y) % 256 = IF a >= x THEN a - x ELSE a - x + 256
    BY <1>3, <2>1 DEF Byte
  <2>4. a + y > 255 <=> a >= x
    BY <1>3, <2>1 DEF Byte
  <2> QED BY <1>3, <2>1, <2>2, <2>3, <2>4
<1> QED BY <1>2, <1>3

LEMMA SubtractFacts ==
  ASSUME NEW a \in Byte, NEW x \in Byte, NEW f \in Flags
  PROVE  /\ Subtract(a, x, f).acc = (a - x) % 256
         /\ Subtract(a, x, f).acc \in Byte
         /\ Subtract(a, x, f).flags \in Flags
         /\ Subtract(a, x, f).flags[FLG_C] = IF x = 0 THEN 1 ELSE AsBit(a < x)
<1> DEFINE y == (256 - x) % 256
           s == Add(a, y, f)
<1>0. y = (256 - x) % 256
  OBVIOUS
<1> HIDE DEF y
<1>1. /\ y \in Byte
      /\ (a + y) % 256 = (a - x) % 256
      /\ x = 0 => ~(a + y > 255)
      /\ x # 0 => (a + y > 255 <=> a >= x)
  BY <1>0, Complements
<1>2. /\ s.acc = (a + y) % 256 /\ s.acc \in Byte
      /\ s.flags \in Flags /\ s.flags[FLG_C] = AsBit(a + y > 255)
  BY <1>1, AddFacts
<1>3. 1 - AsBit(a + y > 255) = IF x = 0 THEN 1 ELSE AsBit(a < x)
  BY <1>1 DEF AsBit, Byte
<1>4. Subtract(a, x, f) = Result(s.acc, SetCarry(s.flags, 1 - s.flags[FLG_C]))
  BY DEF Subtract, y
<1>5. 1 - AsBit(a + y > 255) \in Bit
  BY DEF AsBit, Bit
<1> HIDE DEF s
<1>6. /\ SetCarry(s.flags, 1 - s.flags[FLG_C]) \in Flags
      /\ SetCarry(s.flags, 1 - s.flags[FLG_C])[FLG_C] = 1 - s.flags[FLG_C]
  BY <1>2, <1>5, SetCarryFacts
<1> QED BY <1>1, <1>2, <1>3, <1>4, <1>6 DEF Result

LEMMA AddWithCarryFacts ==
  ASSUME NEW a \in Byte, NEW x \in Byte, NEW f \in Flags
  PROVE  LET s == AddWithCarry(a, x, f)
             sum == a + x + f[FLG_C]
         IN /\ s.acc = sum % 256 /\ s.acc \in Byte
            /\ s.flags \in Flags
            /\ s.flags[FLG_C] = AsBit(sum > 255)
<1> DEFINE sum == a + x + f[FLG_C]
           r == sum % 256
           carry == AsBit(sum > 255)
           aux == AsBit(((x + f[FLG_C]) % 256) + a > 255)
           g == SetCarry(SetSZP(f, r), carry)
<1>1. f[FLG_C] \in Bit
  BY DEF Flags, FLG_C
<1>2. r \in Byte
  <2>1. sum \in Int
    BY <1>1 DEF Byte, Bit
  <2> HIDE DEF sum
  <2> QED BY <2>1 DEF Byte
<1>3. carry \in Bit /\ aux \in Bit
  BY DEF AsBit, Bit
<1>4. AddWithCarry(a, x, f) = Result(r, SetAux(g, aux))
  BY DEF AddWithCarry
<1> HIDE DEF r, carry, aux
<1>5. g \in Flags /\ g[FLG_C] = carry
  BY <1>2, <1>3, SetSZPFacts, SetCarryFacts
<1> HIDE DEF g
<1>6. SetAux(g, aux) \in Flags /\ SetAux(g, aux)[FLG_C] = carry
  BY <1>3, <1>5, SetAuxFacts
<1> QED BY <1>2, <1>4, <1>6 DEF Result, r, carry

(***************************************************************************)
(* ADD, ADC, SUB and SBB of src/neovm.c are exact with their carry for any *)
(* flag register, but for the borrow a subtraction of zero leaves behind.  *)
(***************************************************************************)
THEOREM ArithmeticIsExact ==
  \A a, x \in Byte, f \in Flags : SumsAndDifferences(a, x, f)
<1> SUFFICES ASSUME NEW a \in Byte, NEW x \in Byte, NEW f \in Flags
             PROVE  SumsAndDifferences(a, x, f)
  OBVIOUS
<1> DEFINE c == f[FLG_C]
           y == (x + c) % 256
<1>1. c \in Bit
  BY DEF Flags, FLG_C
<1>2. y \in Byte
  BY <1>1 DEF Byte, Bit
<1>3. ExactSum(a, x, 0, Add(a, x, f))
  <2>1. ((a + x) % 256) + 256 * AsBit(a + x > 255) = a + x
    BY DEF AsBit, Byte
  <2>2. a + x = a + x + 0
    BY DEF Byte
  <2> QED BY <2>1, <2>2, AddFacts DEF ExactSum
<1>4. ExactSum(a, x, c, AddWithCarry(a, x, f))
  <2>1. ((a + x + c) % 256) + 256 * AsBit(a + x + c > 255) = a + x + c
    BY <1>1 DEF AsBit, Byte, Bit
  <2> QED BY <2>1, AddWithCarryFacts DEF ExactSum
<1>5. ExactDifference(a, x, 0, Subtract(a, x, f))
  <2>1. /\ (a - x) % 256 = (a - x - 0) % 256
        /\ (x + 0) % 256 = 0 <=> x = 0
        /\ x # 0 => ((a - x) % 256) - 256 * AsBit(a < x) = a - x - 0
    BY DEF AsBit, Byte
  <2> QED BY <2>1, SubtractFacts DEF ExactDifference
<1>6. ExactDifference(a, x, c, SubtractWithBorrow(a, x, f))
  <2>1. /\ (a - y) % 256 = (a - x - c) % 256
        /\ y # 0 => ((a - y) % 256) - 256 * AsBit(a < y) = a - x - c
    <3>1. CASE x + c = 256
      BY <1>1, <3>1 DEF AsBit, Byte, Bit
    <3>2. CASE x + c # 256
      <4>1. y = x + c
        BY <1>1, <3>2 DEF Byte, Bit
      <4>2. a - y = a - x - c
        BY <1>1, <4>1 DEF Byte, Bit
      <4> HIDE DEF y
      <4>3. ((a - y) % 256) - 256 * AsBit(a < y) = a - y
        BY <1>2 DEF AsBit, Byte
      <4> QED BY <4>2, <4>3
    <3> QED BY <3>1, <3>2
  <2>2. SubtractWithBorrow(a, x, f) = Subtract(a, y, f)
    BY DEF SubtractWithBorrow
  <2> HIDE DEF y
  <2>3. /\ Subtract(a, y, f).acc = (a - y) % 256
        /\ Subtract(a, y, f).flags[FLG_C] = IF y = 0 THEN 1 ELSE AsBit(a < y)
    BY <1>2, SubtractFacts
  <2> QED BY <2>1, <2>2, <2>3 DEF ExactDifference, y
<1> QED BY <1>3, <1>4, <1>5, <1>6 DEF SumsAndDifferences

(***************************************************************************)
(* After CMP r and CPI of src/neovm.c, JC and JZ tell the order of the two *)
(* bytes whatever the flags were before.                                   *)
(***************************************************************************)
THEOREM CompareOrders ==
  \A a, x \in Byte, f \in Flags : ComparisonOrders(a, x, f)
<1> SUFFICES ASSUME NEW a \in Byte, NEW x \in Byte, NEW f \in Flags
             PROVE  ComparisonOrders(a, x, f)
  OBVIOUS
<1> DEFINE g == SetCarry(Subtract(a, x, f).flags, AsBit(a < x))
           h == [g EXCEPT ![FLG_Z] = AsBit(x = a)]
<1>1. AsBit(a < x) \in Bit /\ AsBit(x = a) \in Bit
  BY DEF AsBit, Bit
<1>2. g \in Flags /\ g[FLG_C] = AsBit(a < x)
  BY <1>1, SubtractFacts, SetCarryFacts
<1>3. Compare(a, x, f) = Result(a, h)
  BY DEF Compare
<1> HIDE DEF g
<1>4. h[FLG_C] = AsBit(a < x) /\ h[FLG_Z] = AsBit(x = a)
  BY <1>2 DEF Flags, FLG_C, FLG_Z
<1> HIDE DEF h
<1> QED BY <1>3, <1>4 DEF ComparisonOrders, Orders, Result, AsBit

-----------------------------------------------------------------------------
(* Parity.                                                                  *)

\* Legendre's formula and the binary notation, of a number of eight halves.
LEMMA HalvesAdded ==
  ASSUME NEW h \in [0 .. 7 -> Int], NEW f \in [0 .. 7 -> Int],
         h[0] = 2 * h[1] + f[0], h[1] = 2 * h[2] + f[1],
         h[2] = 2 * h[3] + f[2], h[3] = 2 * h[4] + f[3],
         h[4] = 2 * h[5] + f[4], h[5] = 2 * h[6] + f[5],
         h[6] = 2 * h[7] + f[6], h[7] = f[7]
  PROVE  /\ h[0] - h[1] - h[2] - h[3] - h[4] - h[5] - h[6] - h[7]
              = f[0] + f[1] + f[2] + f[3] + f[4] + f[5] + f[6] + f[7]
         /\ FromBits(f) = h[0]
<1>1. h[0] - h[1] - h[2] - h[3] - h[4] - h[5] - h[6] - h[7]
        = f[0] + f[1] + f[2] + f[3] + f[4] + f[5] + f[6] + f[7]
  OBVIOUS
<1>2. FromBits(f) = h[0]
  BY DEF FromBits
<1> QED BY <1>1, <1>2

\* The bits of a byte are the remainders of its successive halves.
LEMMA HalvesFacts ==
  ASSUME NEW b \in Byte
  PROVE  LET bit == ToBits(b)
         IN /\ bit \in Flags
            /\ Ones(b) = bit[0] + bit[1] + bit[2] + bit[3] + bit[4] + bit[5]
                           + bit[6] + bit[7]
            /\ FromBits(bit) = b
<1> DEFINE bit == ToBits(b)
           h == [k \in 0 .. 7 |-> b \div Weight[k + 1]]
<1>1. /\ h[0] = b /\ h[1] = b \div 2 /\ h[2] = b \div 4 /\ h[3] = b \div 8
      /\ h[4] = b \div 16 /\ h[5] = b \div 32 /\ h[6] = b \div 64
      /\ h[7] = b \div 128
  BY DEF Weight, Byte
<1>2. \A k \in 0 .. 7 : bit[k] = h[k] % 2
  BY DEF ToBits
<1>3. \A n \in Int : n % 2 \in Bit
  BY DEF Bit
<1> HIDE DEF bit, h
<1>4. h \in [0 .. 7 -> Int] /\ bit \in [0 .. 7 -> Int] /\ bit \in Flags
  <2>1. /\ h[0] \in Int /\ h[1] \in Int /\ h[2] \in Int /\ h[3] \in Int
        /\ h[4] \in Int /\ h[5] \in Int /\ h[6] \in Int /\ h[7] \in Int
    BY <1>1 DEF Byte
  <2>2. h \in [0 .. 7 -> Int]
    BY <2>1 DEF h
  <2>3. bit \in [0 .. 7 -> Bit]
    BY <1>2, <1>3, <2>2 DEF ToBits, bit
  <2> QED BY <2>2, <2>3 DEF Flags, Bit
<1>6. /\ h[0] = 2 * h[1] + (h[0] % 2) /\ h[1] = 2 * h[2] + (h[1] % 2)
      /\ h[2] = 2 * h[3] + (h[2] % 2) /\ h[3] = 2 * h[4] + (h[3] % 2)
  BY <1>1 DEF Byte
<1>7. /\ h[4] = 2 * h[5] + (h[4] % 2) /\ h[5] = 2 * h[6] + (h[5] % 2)
      /\ h[6] = 2 * h[7] + (h[6] % 2) /\ h[7] = h[7] % 2
  BY <1>1 DEF Byte
<1>8. /\ h[0] = 2 * h[1] + bit[0] /\ h[1] = 2 * h[2] + bit[1]
      /\ h[2] = 2 * h[3] + bit[2] /\ h[3] = 2 * h[4] + bit[3]
      /\ h[4] = 2 * h[5] + bit[4] /\ h[5] = 2 * h[6] + bit[5]
      /\ h[6] = 2 * h[7] + bit[6] /\ h[7] = bit[7]
  BY <1>2, <1>6, <1>7
<1>9. /\ h[0] - h[1] - h[2] - h[3] - h[4] - h[5] - h[6] - h[7]
           = bit[0] + bit[1] + bit[2] + bit[3] + bit[4] + bit[5] + bit[6]
               + bit[7]
      /\ FromBits(bit) = h[0]
  BY <1>4, <1>8, HalvesAdded
<1>10. Ones(b) = h[0] - h[1] - h[2] - h[3] - h[4] - h[5] - h[6] - h[7]
  BY <1>1 DEF Ones
<1> QED BY <1>1, <1>4, <1>9, <1>10 DEF bit

\* Counting the ones of a flag register, bit by bit.
LEMMA OneMoreBit ==
  ASSUME NEW f \in Flags, NEW n \in 0 .. 7, NEW c \in Nat,
         IsFiniteSet({k \in 0 .. n - 1 : f[k] = 1}),
         Cardinality({k \in 0 .. n - 1 : f[k] = 1}) = c
  PROVE  /\ IsFiniteSet({k \in 0 .. n : f[k] = 1})
         /\ Cardinality({k \in 0 .. n : f[k] = 1}) = c + f[n]
<1> DEFINE S == {k \in 0 .. n - 1 : f[k] = 1}
           T == {k \in 0 .. n : f[k] = 1}
<1>1. CASE f[n] = 1
  <2>1. T = S \cup {n} /\ n \notin S
    BY <1>1
  <2> HIDE DEF S, T
  <2>2. IsFiniteSet(S) /\ Cardinality(S) = c
    BY DEF S
  <2>3. IsFiniteSet(S \cup {n}) /\ Cardinality(S \cup {n}) = c + 1
    BY <2>1, <2>2, FS_AddElement
  <2> QED BY <1>1, <2>1, <2>3 DEF T
<1>2. CASE f[n] # 1
  <2>1. T = S
    BY <1>2
  <2>2. f[n] = 0
    BY <1>2 DEF Flags, Bit
  <2> QED BY <2>1, <2>2
<1> QED BY <1>1, <1>2

LEMMA OnesCounted ==
  ASSUME NEW f \in Flags
  PROVE  Cardinality({k \in 0 .. 7 : f[k] = 1})
           = f[0] + f[1] + f[2] + f[3] + f[4] + f[5] + f[6] + f[7]
<1> DEFINE S(n) == {k \in 0 .. n : f[k] = 1}
<1>1. \A k \in 0 .. 7 : f[k] \in Nat
  BY DEF Flags, Bit
<1>2. IsFiniteSet(S(0 - 1)) /\ Cardinality(S(0 - 1)) = 0
  <2>1. S(0 - 1) = {}
    OBVIOUS
  <2> QED BY <2>1, FS_EmptySet
<1>3. ASSUME NEW n \in 0 .. 7, NEW c \in Nat,
             IsFiniteSet(S(n - 1)), Cardinality(S(n - 1)) = c
      PROVE  IsFiniteSet(S(n)) /\ Cardinality(S(n)) = c + f[n]
  BY <1>3, OneMoreBit
<1> HIDE DEF S
<1>4. IsFiniteSet(S(0)) /\ Cardinality(S(0)) = f[0]
  BY <1>1, <1>2, <1>3
<1>5. IsFiniteSet(S(1)) /\ Cardinality(S(1)) = f[0] + f[1]
  BY <1>1, <1>3, <1>4
<1>6. IsFiniteSet(S(2)) /\ Cardinality(S(2)) = f[0] + f[1] + f[2]
  BY <1>1, <1>3, <1>5
<1>7. IsFiniteSet(S(3)) /\ Cardinality(S(3)) = f[0] + f[1] + f[2] + f[3]
  BY <1>1, <1>3, <1>6
<1>8. /\ IsFiniteSet(S(4))
      /\ Cardinality(S(4)) = f[0] + f[1] + f[2] + f[3] + f[4]
  BY <1>1, <1>3, <1>7
<1>9. /\ IsFiniteSet(S(5))
      /\ Cardinality(S(5)) = f[0] + f[1] + f[2] + f[3] + f[4] + f[5]
  BY <1>1, <1>3, <1>8
<1>10. /\ IsFiniteSet(S(6))
       /\ Cardinality(S(6)) = f[0] + f[1] + f[2] + f[3] + f[4] + f[5] + f[6]
  BY <1>1, <1>3, <1>9
<1>11. Cardinality(S(7))
         = f[0] + f[1] + f[2] + f[3] + f[4] + f[5] + f[6] + f[7]
  BY <1>1, <1>3, <1>10
<1> QED BY <1>11 DEF S

\* INIT_FLG_P computes a parity: Legendre's formula counts the ones.
LEMMA ParityOfOnes ==
  ASSUME NEW b \in Byte PROVE EvenParity(b) <=> Ones(b) % 2 = 0
BY HalvesFacts, OnesCounted DEF EvenParity

-----------------------------------------------------------------------------
(* What every operation leaves behind.                                      *)

\* A byte in the accumulator, and flags that describe it.
Described(r) == r.acc \in Byte /\ r.flags \in Flags /\ Describe(r.flags, r.acc)

LEMMA SetSZPDescribes ==
  ASSUME NEW f \in Flags, NEW r \in Byte
  PROVE  Describe(SetSZP(f, r), r)
<1> DEFINE g == SetSZP(f, r)
<1>1. /\ g[FLG_S] = r \div 128 /\ g[FLG_Z] = AsBit(r = 0)
      /\ g[FLG_P] = AsBit(Ones(r) % 2 = 0)
  BY DEF SetSZP, Flags, FLG_S, FLG_Z, FLG_P
<1>2. r \div 128 = 1 <=> r > 127
  BY DEF Byte
<1>3. EvenParity(r) <=> Ones(r) % 2 = 0
  BY ParityOfOnes
<1>4. \A cond : AsBit(cond) = 1 <=> cond
  BY DEF AsBit
<1> HIDE DEF g
<1>5. Describe(g, r)
  BY <1>1, <1>2, <1>3, <1>4 DEF Describe
<1> QED BY <1>5 DEF g

\* Neither carry says anything of the result.
LEMMA CarriesDescribe ==
  ASSUME NEW f \in Flags, NEW bit \in Bit, NEW r, Describe(f, r)
  PROVE  Describe(SetCarry(f, bit), r) /\ Describe(SetAux(f, bit), r)
BY DEF Describe, SetCarry, SetAux, Flags, FLG_S, FLG_Z, FLG_P, FLG_C, FLG_A

\* The way every arithmetic macro ends: both carries over the three others.
LEMMA FlagsSet ==
  ASSUME NEW f \in Flags, NEW r \in Byte, NEW carry \in Bit, NEW aux \in Bit
  PROVE  Described(Result(r, SetAux(SetCarry(SetSZP(f, r), carry), aux)))
<1>1. SetSZP(f, r) \in Flags /\ Describe(SetSZP(f, r), r)
  BY SetSZPFacts, SetSZPDescribes
<1>2. /\ SetCarry(SetSZP(f, r), carry) \in Flags
      /\ Describe(SetCarry(SetSZP(f, r), carry), r)
  BY <1>1, SetCarryFacts, CarriesDescribe
<1>3. /\ SetAux(SetCarry(SetSZP(f, r), carry), aux) \in Flags
      /\ Describe(SetAux(SetCarry(SetSZP(f, r), carry), aux), r)
  BY <1>2, SetAuxFacts, CarriesDescribe
<1> QED BY <1>3 DEF Described, Result

LEMMA SumDescribed ==
  ASSUME NEW a \in Byte, NEW x \in Byte, NEW f \in Flags
  PROVE  Described(Add(a, x, f)) /\ Described(AddWithCarry(a, x, f))
<1>1. f[FLG_C] \in Bit
  BY DEF Flags, FLG_C
<1>2. (a + x) % 256 \in Byte /\ (a + x + f[FLG_C]) % 256 \in Byte
  <2>1. a + x \in Int /\ a + x + f[FLG_C] \in Int
    BY <1>1 DEF Byte, Bit
  <2>2. \A n \in Int : n % 256 \in Byte
    BY DEF Byte
  <2> QED BY <2>1, <2>2
<1>3. \A cond : AsBit(cond) \in Bit
  BY DEF AsBit, Bit
<1>4. Described(Add(a, x, f))
  BY <1>2, <1>3, FlagsSet DEF Add
<1>5. Described(AddWithCarry(a, x, f))
  BY <1>2, <1>3, FlagsSet DEF AddWithCarry
<1> QED BY <1>4, <1>5

LEMMA DifferenceDescribed ==
  ASSUME NEW a \in Byte, NEW x \in Byte, NEW f \in Flags
  PROVE  Described(Subtract(a, x, f))
<1> DEFINE y == (256 - x) % 256
           s == Add(a, y, f)
<1>1. y \in Byte
  BY DEF Byte
<1> HIDE DEF y
<1>2. Described(s) /\ s.flags[FLG_C] \in Bit
  BY <1>1, SumDescribed DEF Described, Flags, FLG_C
<1>3. 1 - s.flags[FLG_C] \in Bit
  BY <1>2 DEF Bit
<1>4. Subtract(a, x, f) = Result(s.acc, SetCarry(s.flags, 1 - s.flags[FLG_C]))
  BY DEF Subtract, y
<1> HIDE DEF s
<1>5. /\ SetCarry(s.flags, 1 - s.flags[FLG_C]) \in Flags
      /\ Describe(SetCarry(s.flags, 1 - s.flags[FLG_C]), s.acc)
  BY <1>2, <1>3, SetCarryFacts, CarriesDescribe DEF Described
<1> QED BY <1>2, <1>4, <1>5 DEF Described, Result

LEMMA LogicalDescribed ==
  ASSUME NEW r \in Byte, NEW f \in Flags
  PROVE  Described(Logical(r, f))
<1>1. SetAux(SetCarry(f, 0), 0) \in Flags
  BY SetCarryFacts, SetAuxFacts DEF Bit
<1>2. /\ SetSZP(SetAux(SetCarry(f, 0), 0), r) \in Flags
      /\ Describe(SetSZP(SetAux(SetCarry(f, 0), 0), r), r)
  BY <1>1, SetSZPFacts, SetSZPDescribes
<1> QED BY <1>2 DEF Logical, Described, Result

\* The weights of the eight bits add up to 255.
LEMMA FromBitsInByte == ASSUME NEW f \in Flags PROVE FromBits(f) \in Byte
<1>1. /\ f[0] \in 0 .. 1 /\ f[1] \in 0 .. 1 /\ f[2] \in 0 .. 1 /\ f[3] \in 0 .. 1
      /\ f[4] \in 0 .. 1 /\ f[5] \in 0 .. 1 /\ f[6] \in 0 .. 1 /\ f[7] \in 0 .. 1
  BY DEF Flags, Bit
<1> QED BY <1>1 DEF FromBits, Byte

LEMMA BitwiseInByte ==
  ASSUME NEW a, NEW x
  PROVE  And(a, x) \in Byte /\ Or(a, x) \in Byte /\ Xor(a, x) \in Byte
<1>1. /\ [k \in 0 .. 7 |-> IF ToBits(a)[k] + ToBits(x)[k] = 2 THEN 1 ELSE 0]
           \in Flags
      /\ [k \in 0 .. 7 |-> IF ToBits(a)[k] + ToBits(x)[k] = 0 THEN 0 ELSE 1]
           \in Flags
      /\ [k \in 0 .. 7 |-> IF ToBits(a)[k] + ToBits(x)[k] = 1 THEN 1 ELSE 0]
           \in Flags
  BY DEF Flags, Bit
<1> QED BY <1>1, FromBitsInByte DEF And, Or, Xor

LEMMA LogicalAndDescribed ==
  ASSUME NEW a, NEW x, NEW f \in Flags
  PROVE  Described(LogicalAnd(a, x, f))
<1> DEFINE s == Logical(And(a, x), f)
<1>1. Described(s)
  BY BitwiseInByte, LogicalDescribed
<1>2. LogicalAnd(a, x, f) = Result(s.acc, SetAux(s.flags, 1))
  BY DEF LogicalAnd
<1> HIDE DEF s
<1>3. SetAux(s.flags, 1) \in Flags /\ Describe(SetAux(s.flags, 1), s.acc)
  BY <1>1, SetAuxFacts, CarriesDescribe DEF Described, Bit
<1> QED BY <1>1, <1>2, <1>3 DEF Described, Result

\* All but the comparison.
LEMMA OperateDescribed ==
  ASSUME NEW n \in 0 .. 6, NEW a \in Byte, NEW x \in Byte, NEW f \in Flags
  PROVE  Described(Operate(n, a, x, f))
<1>1. n = 0 \/ n = 1 \/ n = 2 \/ n = 3 \/ n = 4 \/ n = 5 \/ n = 6
  OBVIOUS
<1>2. CASE n = 0 \/ n = 1
  BY <1>2, SumDescribed DEF Operate
<1>3. CASE n = 2
  BY <1>3, DifferenceDescribed DEF Operate
<1>4. CASE n = 3
  <2>1. f[FLG_C] \in Bit
    BY DEF Flags, FLG_C
  <2>2. (x + f[FLG_C]) % 256 \in Byte
    BY <2>1 DEF Byte, Bit
  <2> QED BY <1>4, <2>2, DifferenceDescribed DEF Operate, SubtractWithBorrow
<1>5. CASE n = 4
  BY <1>5, LogicalAndDescribed DEF Operate
<1>6. CASE n = 5 \/ n = 6
  BY <1>6, BitwiseInByte, LogicalDescribed DEF Operate
<1> QED BY <1>1, <1>2, <1>3, <1>4, <1>5, <1>6

\* The comparison keeps the accumulator and describes the difference.
LEMMA CompareDescribes ==
  ASSUME NEW a \in Byte, NEW x \in Byte, NEW f \in Flags
  PROVE  LET r == Compare(a, x, f)
         IN r.acc = a /\ r.flags \in Flags /\ Describe(r.flags, (a - x) % 256)
<1> DEFINE s == Subtract(a, x, f)
           g == SetCarry(s.flags, AsBit(a < x))
           h == [g EXCEPT ![FLG_Z] = AsBit(x = a)]
<1>1. s.acc = (a - x) % 256 /\ Described(s)
  BY SubtractFacts, DifferenceDescribed
<1>2. AsBit(a < x) \in Bit /\ AsBit(x = a) \in Bit
  BY DEF AsBit, Bit
<1>3. Compare(a, x, f) = Result(a, h)
  BY DEF Compare
<1> HIDE DEF s
<1>4. g \in Flags /\ Describe(g, (a - x) % 256)
  BY <1>1, <1>2, SetCarryFacts, CarriesDescribe DEF Described
<1> HIDE DEF g
<1>5. AsBit(x = a) = 1 <=> (a - x) % 256 = 0
  <2>1. (a - x) % 256 = IF a >= x THEN a - x ELSE a - x + 256
    BY DEF Byte
  <2>2. x = a <=> (a - x) % 256 = 0
    BY <2>1 DEF Byte
  <2> QED BY <2>2 DEF AsBit
<1>6. /\ h \in Flags /\ h[FLG_Z] = AsBit(x = a)
      /\ h[FLG_S] = g[FLG_S] /\ h[FLG_P] = g[FLG_P]
  BY <1>2, <1>4 DEF Flags, FLG_Z, FLG_S, FLG_P
<1> HIDE DEF h
<1> QED BY <1>3, <1>4, <1>5, <1>6 DEF Describe, Result

LEMMA CountDescribed ==
  ASSUME NEW x \in Byte, NEW f \in Flags
  PROVE  /\ Described(Increment(x, f)) /\ Increment(x, f).acc = (x + 1) % 256
         /\ Described(Decrement(x, f)) /\ Decrement(x, f).acc = (x - 1) % 256
<1>1. /\ (x + 1) % 256 \in Byte /\ (x + 255) % 256 \in Byte
      /\ (x + 255) % 256 = (x - 1) % 256
  BY DEF Byte
<1>2. \A cond : AsBit(cond) \in Bit
  BY DEF AsBit, Bit
<1>3. ASSUME NEW r \in Byte, NEW aux \in Bit
      PROVE  Described(Result(r, SetAux(SetSZP(f, r), aux)))
  <2>1. SetSZP(f, r) \in Flags /\ Describe(SetSZP(f, r), r)
    BY SetSZPFacts, SetSZPDescribes
  <2>2. /\ SetAux(SetSZP(f, r), aux) \in Flags
        /\ Describe(SetAux(SetSZP(f, r), aux), r)
    BY <2>1, SetAuxFacts, CarriesDescribe
  <2> QED BY <2>2 DEF Described, Result
<1>4. /\ Described(Increment(x, f)) /\ Described(Decrement(x, f))
  BY <1>1, <1>2, <1>3 DEF Increment, Decrement
<1> QED BY <1>1, <1>4 DEF Increment, Decrement, Result

LEMMA DecimalAdjustDescribed ==
  ASSUME NEW a \in Byte, NEW f \in Flags
  PROVE  Described(DecimalAdjust(a, f))
<1>1. \A low \in {0, 6}, high \in {0, 96} : low + high \in Byte
  BY DEF Byte
<1> QED BY <1>1, SumDescribed DEF DecimalAdjust

(***************************************************************************)
(* After every operation of src/neovm.c that sets them, for any flag       *)
(* register before it, sign, zero and parity describe the byte left behind, *)
(* or for CMP the difference: INIT_FLG_P, which counts no bits, is a parity. *)
(***************************************************************************)
THEOREM FlagsDescribe ==
  \A a, x \in Byte, f \in Flags : FlagsDescribeResult(a, x, f)
<1> SUFFICES ASSUME NEW a \in Byte, NEW x \in Byte, NEW f \in Flags
             PROVE  FlagsDescribeResult(a, x, f)
  OBVIOUS
<1>1. \A n \in 0 .. 6 : LET r == Operate(n, a, x, f) IN Describe(r.flags, r.acc)
  BY OperateDescribed DEF Described
<1>2. Describe(Operate(7, a, x, f).flags, (a - x) % 256)
  <2>1. Operate(7, a, x, f) = Compare(a, x, f)
    BY DEF Operate
  <2> QED BY <2>1, CompareDescribes
<1>3. /\ Describe(Increment(a, f).flags, (a + 1) % 256)
      /\ Describe(Decrement(a, f).flags, (a - 1) % 256)
  BY CountDescribed DEF Described
<1> QED BY <1>1, <1>2, <1>3 DEF FlagsDescribeResult

-----------------------------------------------------------------------------
(* Rotations.                                                               *)

LEMMA RotateTyped ==
  ASSUME NEW n \in 0 .. 3, NEW a \in Byte, NEW f \in Flags
  PROVE  Rotate(n, a, f).acc \in Byte /\ Rotate(n, a, f).flags \in Flags
<1>1. n = 0 \/ n = 1 \/ n = 2 \/ n = 3
  OBVIOUS
<1>2. a \div 128 \in Bit /\ a % 2 \in Bit /\ f[FLG_C] \in Bit
  BY DEF Byte, Bit, Flags, FLG_C
<1>3. \A c \in Bit : ((2 * a) % 256) + c \in Byte /\ a \div 2 + 128 * c \in Byte
  <2>1. \A c \in Bit : a \div 2 + 128 * c \in Byte
    BY DEF Byte, Bit
  <2>2. (2 * a) % 256 = IF a < 128 THEN 2 * a ELSE 2 * a - 256
    BY DEF Byte
  <2>3. \A c \in Bit : ((2 * a) % 256) + c \in Byte
    BY <2>2 DEF Byte, Bit
  <2> QED BY <2>1, <2>3
<1>4. SetCarry(f, a \div 128) \in Flags /\ SetCarry(f, a % 2) \in Flags
  BY <1>2, SetCarryFacts
<1>5. CASE n = 0 \/ n = 1
  BY <1>2, <1>3, <1>4, <1>5 DEF Rotate, RotateLeft, RotateRight, Result
<1>6. CASE n = 2 \/ n = 3
  BY <1>2, <1>3, <1>4, <1>6
     DEF Rotate, RotateLeftThroughCarry, RotateRightThroughCarry, Result
<1> QED BY <1>1, <1>5, <1>6

\* A carry that is set again as it was, or twice.
LEMMA CarrySetTwice ==
  ASSUME NEW f \in Flags, NEW bit \in Bit
  PROVE  SetCarry(SetCarry(f, bit), f[FLG_C]) = f
BY DEF SetCarry, Flags, FLG_C

LEMMA RotationsUndone ==
  ASSUME NEW a \in Byte, NEW f \in Flags
  PROVE  /\ Undone(0, 1, Result(a, f)).acc = a
         /\ Undone(1, 0, Result(a, f)).acc = a
         /\ Undone(2, 3, Result(a, f)) = Result(a, f)
         /\ Undone(3, 2, Result(a, f)) = Result(a, f)
<1> DEFINE c == f[FLG_C]
           left(bit) == ((2 * a) % 256) + bit
           right(bit) == a \div 2 + 128 * bit
<1>0. c \in Bit /\ a \div 128 \in Bit /\ a % 2 \in Bit
  BY DEF Flags, FLG_C, Bit, Byte
<1>1. ASSUME NEW bit \in Bit
      PROVE  /\ left(bit) \div 2 + 128 * (a \div 128) = a
             /\ left(bit) % 2 = bit
  <2>1. (2 * a) % 256 = IF a < 128 THEN 2 * a ELSE 2 * a - 256
    BY DEF Byte
  <2>2. CASE a < 128
    BY <2>1, <2>2 DEF Byte, Bit
  <2>3. CASE a >= 128
    BY <2>1, <2>3 DEF Byte, Bit
  <2> QED BY <2>2, <2>3 DEF Byte
<1>2. ASSUME NEW bit \in Bit
      PROVE  /\ ((2 * right(bit)) % 256) + (a % 2) = a
             /\ right(bit) \div 128 = bit
  BY DEF Byte, Bit
<1>3. \A bit \in Bit : SetCarry(f, bit)[FLG_C] = bit
  BY SetCarryFacts
<1>4. \A bit \in Bit : SetCarry(SetCarry(f, bit), c) = f
  BY CarrySetTwice
<1> HIDE DEF c, left, right
<1>5. ASSUME NEW b, NEW g
      PROVE  /\ Turned(0, Result(b, g)) = RotateLeft(b, g)
             /\ Turned(1, Result(b, g)) = RotateRight(b, g)
             /\ Turned(2, Result(b, g)) = RotateLeftThroughCarry(b, g)
             /\ Turned(3, Result(b, g)) = RotateRightThroughCarry(b, g)
  <2>1. Result(b, g).acc = b /\ Result(b, g).flags = g
    BY DEF Result
  <2>2. \A n : Turned(n, Result(b, g)) = Rotate(n, b, g)
    BY <2>1 DEF Turned
  <2> QED BY <2>2 DEF Rotate
<1>6. ASSUME NEW b, NEW g
      PROVE  /\ Turned(0, Result(b, g)) =
                  Result(((2 * b) % 256) + b \div 128, SetCarry(g, b \div 128))
             /\ Turned(1, Result(b, g)) =
                  Result(b \div 2 + 128 * (b % 2), SetCarry(g, b % 2))
             /\ Turned(2, Result(b, g)) =
                  Result(((2 * b) % 256) + g[FLG_C], SetCarry(g, b \div 128))
             /\ Turned(3, Result(b, g)) =
                  Result(b \div 2 + 128 * g[FLG_C], SetCarry(g, b % 2))
  <2>1. RotateLeft(b, g) =
          Result(((2 * b) % 256) + b \div 128, SetCarry(g, b \div 128))
    BY Zenon DEF RotateLeft
  <2>2. RotateRight(b, g) =
          Result(b \div 2 + 128 * (b % 2), SetCarry(g, b % 2))
    BY Zenon DEF RotateRight
  <2>3. RotateLeftThroughCarry(b, g) =
          Result(((2 * b) % 256) + g[FLG_C], SetCarry(g, b \div 128))
    BY Zenon DEF RotateLeftThroughCarry
  <2>4. RotateRightThroughCarry(b, g) =
          Result(b \div 2 + 128 * g[FLG_C], SetCarry(g, b % 2))
    BY Zenon DEF RotateRightThroughCarry
  <2> QED BY <1>5, <2>1, <2>2, <2>3, <2>4
<1>7. /\ Turned(0, Result(a, f)) = Result(left(a \div 128), SetCarry(f, a \div 128))
      /\ Turned(1, Result(a, f)) = Result(right(a % 2), SetCarry(f, a % 2))
      /\ Turned(2, Result(a, f)) = Result(left(c), SetCarry(f, a \div 128))
      /\ Turned(3, Result(a, f)) = Result(right(c), SetCarry(f, a % 2))
  <2>1. /\ left(a \div 128) = ((2 * a) % 256) + a \div 128
        /\ right(a % 2) = a \div 2 + 128 * (a % 2)
        /\ left(c) = ((2 * a) % 256) + f[FLG_C]
        /\ right(c) = a \div 2 + 128 * f[FLG_C]
    BY DEF left, right, c
  <2> QED BY <1>6, <2>1
<1>8. \A d, h : Result(d, h).acc = d
  BY DEF Result
<1>9. Undone(0, 1, Result(a, f)).acc = a
  <2> DEFINE b == left(a \div 128)
             g == SetCarry(f, a \div 128)
  <2>1. b \div 2 + 128 * (b % 2) = a
    BY <1>0, <1>1
  <2>2. Undone(0, 1, Result(a, f)) = Turned(1, Result(b, g))
    BY <1>7 DEF Undone
  <2> HIDE DEF b, g
  <2>3. Turned(1, Result(b, g)) =
          Result(b \div 2 + 128 * (b % 2), SetCarry(g, b % 2))
    BY <1>6
  <2> QED BY <1>8, <2>1, <2>2, <2>3
<1>10. Undone(1, 0, Result(a, f)).acc = a
  <2> DEFINE b == right(a % 2)
             g == SetCarry(f, a % 2)
  <2>1. ((2 * b) % 256) + b \div 128 = a
    BY <1>0, <1>2
  <2>2. Undone(1, 0, Result(a, f)) = Turned(0, Result(b, g))
    BY <1>7 DEF Undone
  <2> HIDE DEF b, g
  <2>3. Turned(0, Result(b, g)) =
          Result(((2 * b) % 256) + b \div 128, SetCarry(g, b \div 128))
    BY <1>6
  <2> QED BY <1>8, <2>1, <2>2, <2>3
<1>11. Undone(2, 3, Result(a, f)) = Result(a, f)
  <2> DEFINE b == left(c)
             g == SetCarry(f, a \div 128)
  <2>1. b \div 2 + 128 * g[FLG_C] = a /\ SetCarry(g, b % 2) = f
    BY <1>0, <1>1, <1>3, <1>4
  <2>2. Undone(2, 3, Result(a, f)) = Turned(3, Result(b, g))
    BY <1>7 DEF Undone
  <2> HIDE DEF b, g
  <2>3. Turned(3, Result(b, g)) =
          Result(b \div 2 + 128 * g[FLG_C], SetCarry(g, b % 2))
    BY <1>6
  <2> QED BY <1>8, <2>1, <2>2, <2>3
<1>12. Undone(3, 2, Result(a, f)) = Result(a, f)
  <2> DEFINE b == right(c)
             g == SetCarry(f, a % 2)
  <2>1. ((2 * b) % 256) + g[FLG_C] = a /\ SetCarry(g, b \div 128) = f
    BY <1>0, <1>2, <1>3, <1>4
  <2>2. Undone(3, 2, Result(a, f)) = Turned(2, Result(b, g))
    BY <1>7 DEF Undone
  <2> HIDE DEF b, g
  <2>3. Turned(2, Result(b, g)) =
          Result(((2 * b) % 256) + g[FLG_C], SetCarry(g, b \div 128))
    BY <1>6
  <2> QED BY <1>8, <2>1, <2>2, <2>3
<1> QED BY <1>9, <1>10, <1>11, <1>12

\* A row of n + 1 bits, the row rotated to the left by one place, and the row
\* rotated m times.
Row(n) == [0 .. n -> Bit]

Shifted(n, g) == [k \in 0 .. n |-> IF k = 0 THEN g[n] ELSE g[k - 1]]

Rounds(n, m, h) ==
  [k \in 0 .. n |-> IF k < m THEN h[k + n + 1 - m] ELSE h[k - m]]

LEMMA RoundsCome ==
  ASSUME NEW n \in Nat, NEW h \in Row(n), NEW all, all = n + 1
  PROVE  Rounds(n, 0, h) = h /\ Rounds(n, all, h) = h
<1> USE DEF Row
<1>1. Rounds(n, 0, h) = h
  <2>1. \A k \in 0 .. n : ~(k < 0) /\ k - 0 = k
    OBVIOUS
  <2> QED BY <2>1 DEF Rounds
<1>2. Rounds(n, n + 1, h) = h
  <2>1. \A k \in 0 .. n : k < n + 1 /\ k + n + 1 - (n + 1) = k
    OBVIOUS
  <2> QED BY <2>1 DEF Rounds
<1> QED BY <1>1, <1>2

LEMMA RoundsGoOn ==
  ASSUME NEW n \in Nat, NEW h \in Row(n), NEW m \in 0 .. n
  PROVE  /\ Rounds(n, m, h) \in Row(n)
         /\ Rounds(n, m + 1, h) = Shifted(n, Rounds(n, m, h))
<1> DEFINE g == Rounds(n, m, h)
<1> USE DEF Row
<1>1. g \in [0 .. n -> Bit]
  <2>1. \A k \in 0 .. n : IF k < m THEN k + n + 1 - m \in 0 .. n
                                   ELSE k - m \in 0 .. n
    OBVIOUS
  <2> QED BY <2>1 DEF Rounds
<1>2. ASSUME NEW k \in 0 .. n
      PROVE  Rounds(n, m + 1, h)[k] = IF k = 0 THEN g[n] ELSE g[k - 1]
  <2>1. CASE k = 0
    <3>1. 0 < m + 1 /\ 0 + n + 1 - (m + 1) = n - m /\ ~(n < m)
      OBVIOUS
    <3> QED BY <2>1, <3>1 DEF Rounds
  <2>2. CASE k # 0 /\ k < m + 1
    <3>1. /\ k - 1 \in 0 .. n /\ k - 1 < m
          /\ k + n + 1 - (m + 1) = k - 1 + n + 1 - m
      BY <2>2
    <3> QED BY <2>2, <3>1 DEF Rounds
  <2>3. CASE k # 0 /\ ~(k < m + 1)
    <3>1. k - 1 \in 0 .. n /\ ~(k - 1 < m) /\ k - (m + 1) = k - 1 - m
      BY <2>3
    <3> QED BY <2>3, <3>1 DEF Rounds
  <2> QED BY <2>1, <2>2, <2>3
<1> QED BY <1>1, <1>2 DEF Rounds, Shifted

\* A byte moved to the left by one bit, with another bit behind it.
LEMMA LeftOfBits ==
  ASSUME NEW f \in [0 .. 7 -> 0 .. 1], NEW g \in [0 .. 7 -> 0 .. 1],
         \A k \in 1 .. 7 : g[k] = f[k - 1]
  PROVE  /\ FromBits(f) \div 128 = f[7]
         /\ ((2 * FromBits(f)) % 256) + g[0] = FromBits(g)
<1> DEFINE low == f[0] + 2 * f[1] + 4 * f[2] + 8 * f[3] + 16 * f[4] + 32 * f[5]
                    + 64 * f[6]
<1>1. low \in 0 .. 127
  OBVIOUS
<1>2. FromBits(f) = low + 128 * f[7]
  BY DEF FromBits
<1>3. /\ g[1] = f[0] /\ g[2] = f[1] /\ g[3] = f[2] /\ g[4] = f[3]
      /\ g[5] = f[4] /\ g[6] = f[5] /\ g[7] = f[6]
  OBVIOUS
<1>4. FromBits(g) = 2 * low + g[0]
  BY <1>3 DEF FromBits
<1> HIDE DEF low
<1>5. /\ (low + 128 * f[7]) \div 128 = f[7]
      /\ (2 * (low + 128 * f[7])) % 256 = 2 * low
  <2>1. CASE f[7] = 0
    BY <1>1, <2>1
  <2>2. CASE f[7] = 1
    BY <1>1, <2>2
  <2> QED BY <2>1, <2>2
<1> QED BY <1>2, <1>4, <1>5

\* The same in a longer row of bits.
LEMMA LeftInRow ==
  ASSUME NEW n, n = 7 \/ n = 8, NEW h \in Row(n)
  PROVE  LET g == Shifted(n, h)
         IN /\ FromBits(h) \div 128 = h[7]
            /\ ((2 * FromBits(h)) % 256) + h[n] = FromBits(g)
            /\ h[7] \in Bit /\ h[n] \in Bit
<1> DEFINE g == Shifted(n, h)
<1> USE DEF Row
<1>0. /\ g \in [0 .. n -> Bit] /\ g[0] = h[n]
      /\ \A k \in 1 .. n : g[k] = h[k - 1]
  BY DEF Shifted
<1> HIDE DEF g
<1> DEFINE e == [k \in 0 .. 7 |-> h[k]]
           d == [k \in 0 .. 7 |-> g[k]]
<1>1. e \in [0 .. 7 -> 0 .. 1] /\ d \in [0 .. 7 -> 0 .. 1]
  BY <1>0 DEF Bit
<1>2. \A k \in 1 .. 7 : d[k] = e[k - 1]
  BY <1>0
<1>3. FromBits(e) = FromBits(h) /\ FromBits(d) = FromBits(g)
  BY DEF FromBits
<1>4. e[7] = h[7] /\ d[0] = g[0]
  OBVIOUS
<1> HIDE DEF e, d
<1>5. /\ FromBits(e) \div 128 = e[7]
      /\ ((2 * FromBits(e)) % 256) + d[0] = FromBits(d)
  BY <1>1, <1>2, LeftOfBits
<1>6. h[7] \in Bit /\ h[n] \in Bit
  BY <1>0
<1> QED BY <1>0, <1>3, <1>4, <1>5, <1>6 DEF g

\* Every bit of a byte comes back to its place after eight rotations.
LEMMA EightTimesRound ==
  ASSUME NEW a \in Byte, NEW f
  PROVE  FourTimes(0, FourTimes(0, Result(a, f))).acc = a
<1> DEFINE h == ToBits(a)
           At(m, r) == r.acc = FromBits(Rounds(7, m, h))
<1>1. h \in Row(7) /\ FromBits(h) = a
  BY HalvesFacts DEF Flags, Row
<1> HIDE DEF h
<1>2. Rounds(7, 0, h) = h /\ Rounds(7, 8, h) = h
  BY <1>1, RoundsCome
<1>3. At(0, Result(a, f))
  BY <1>1, <1>2 DEF Result
<1>4. ASSUME NEW m \in 0 .. 7, NEW r, At(m, r)
      PROVE  At(m + 1, Turned(0, r))
  <2> DEFINE g == Rounds(7, m, h)
  <2>1. g \in Row(7) /\ Rounds(7, m + 1, h) = Shifted(7, g)
    BY <1>1, RoundsGoOn
  <2>2. Turned(0, r).acc = ((2 * r.acc) % 256) + r.acc \div 128
    BY DEF Turned, Rotate, RotateLeft, Result
  <2>3. r.acc = FromBits(g)
    BY <1>4
  <2> HIDE DEF g
  <2>4. /\ FromBits(g) \div 128 = g[7]
        /\ ((2 * FromBits(g)) % 256) + g[7] = FromBits(Shifted(7, g))
    BY <2>1, LeftInRow
  <2> QED BY <2>1, <2>2, <2>3, <2>4
<1>5. ASSUME NEW r PROVE At(0, r) => At(4, FourTimes(0, r))
  <2> HIDE DEF At
  <2> QED BY <1>4 DEF FourTimes
<1>6. ASSUME NEW r PROVE At(4, r) => At(8, FourTimes(0, r))
  <2> HIDE DEF At
  <2> QED BY <1>4 DEF FourTimes
<1>7. At(8, FourTimes(0, FourTimes(0, Result(a, f))))
  BY <1>3, <1>5, <1>6
<1> QED BY <1>1, <1>2, <1>7

\* And after nine if the carry is one of the places.
LEMMA NineTimesRound ==
  ASSUME NEW a \in Byte, NEW f \in Flags
  PROVE  Turned(2, FourTimes(2, FourTimes(2, Result(a, f)))) = Result(a, f)
<1> DEFINE h == [k \in 0 .. 8 |-> IF k = 8 THEN f[FLG_C] ELSE ToBits(a)[k]]
           Shows(r, g) == r = Result(FromBits(g), SetCarry(f, g[8]))
           At(m, r) == Shows(r, Rounds(8, m, h))
<1>1. h \in Row(8) /\ FromBits(h) = a /\ h[8] = f[FLG_C]
  <2>1. ToBits(a) \in Flags /\ FromBits(ToBits(a)) = a
    BY HalvesFacts
  <2>2. h \in Row(8) /\ h[8] = f[FLG_C]
    BY <2>1 DEF Flags, FLG_C, Row
  <2>3. FromBits(h) = FromBits(ToBits(a))
    BY DEF FromBits
  <2> QED BY <2>1, <2>2, <2>3
<1> HIDE DEF h
<1>2. Result(a, f) = Result(FromBits(h), SetCarry(f, h[8]))
  BY <1>1 DEF SetCarry, Flags, FLG_C
<1>3. Rounds(8, 0, h) = h /\ Rounds(8, 9, h) = h
  BY <1>1, RoundsCome
<1>4. At(0, Result(a, f))
  BY <1>2, <1>3
<1>5. ASSUME NEW g \in Row(8), NEW r, Shows(r, g)
      PROVE  Shows(Turned(2, r), Shifted(8, g))
  <2>1. /\ FromBits(g) \div 128 = g[7]
        /\ ((2 * FromBits(g)) % 256) + g[8] = FromBits(Shifted(8, g))
        /\ g[7] \in Bit /\ g[8] \in Bit
    BY LeftInRow
  <2>6. Shifted(8, g)[8] = g[7]
    BY DEF Shifted
  <2>2. r.acc = FromBits(g) /\ r.flags = SetCarry(f, g[8])
    BY <1>5 DEF Result
  <2>3. r.flags[FLG_C] = g[8]
    BY <2>1, <2>2, SetCarryFacts
  <2>4. Turned(2, r) = Result(((2 * r.acc) % 256) + r.flags[FLG_C],
                              SetCarry(r.flags, r.acc \div 128))
    BY DEF Turned, Rotate, RotateLeftThroughCarry
  <2>5. SetCarry(SetCarry(f, g[8]), g[7]) = SetCarry(f, g[7])
    BY DEF SetCarry, Flags, FLG_C
  <2> QED BY <2>1, <2>2, <2>3, <2>4, <2>5, <2>6
<1>6. ASSUME NEW m \in 0 .. 8, NEW r, At(m, r)
      PROVE  At(m + 1, Turned(2, r))
  <2>1. /\ Rounds(8, m, h) \in Row(8)
        /\ Rounds(8, m + 1, h) = Shifted(8, Rounds(8, m, h))
    BY <1>1, RoundsGoOn
  <2> HIDE DEF Shows
  <2> QED BY <1>5, <1>6, <2>1
<1> HIDE DEF Shows
<1>7. ASSUME NEW r PROVE At(0, r) => At(4, FourTimes(2, r))
  <2> HIDE DEF At
  <2> QED BY <1>6 DEF FourTimes
<1>8. ASSUME NEW r PROVE At(4, r) => At(8, FourTimes(2, r))
  <2> HIDE DEF At
  <2> QED BY <1>6 DEF FourTimes
<1>9. At(9, Turned(2, FourTimes(2, FourTimes(2, Result(a, f)))))
  <2> HIDE DEF At
  <2>1. At(8, FourTimes(2, FourTimes(2, Result(a, f))))
    BY <1>4, <1>7, <1>8
  <2> QED BY <1>6, <2>1
<1> QED BY <1>2, <1>3, <1>9 DEF Shows

(***************************************************************************)
(* The rotations of src/neovm.c lose no bit, whatever the flags: each is    *)
(* undone by its mirror image, and eight RLC or nine RAL, the carry being  *)
(* the ninth place, bring everything back.                                 *)
(***************************************************************************)
THEOREM RotationsRound == \A a \in Byte, f \in Flags : RotationsComeRound(a, f)
BY RotationsUndone, EightTimesRound, NineTimesRound DEF RotationsComeRound
===============================================================================
