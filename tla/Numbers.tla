-------------------------------- MODULE Numbers --------------------------------
(***************************************************************************)
(* Two readers of hexadecimal numbers: compile_hex (src/compiler.c) for    *)
(* the operands of a program, and parse_hex_16 and parse_hex_byte          *)
(* (src/util.c) for the arguments of commands.  A 32-bit number is a       *)
(* function from the place of a nibble, 0 .. 7, to its value.              *)
(***************************************************************************)
EXTENDS Text

CONSTANT ShiftWraps   (* what a shift of 32 bits by 32 places or more, which
                         C leaves open, does in the build: TRUE if it takes
                         the count modulo 32, FALSE if nothing is left *)

ASSUME ShiftAssumption == ShiftWraps \in BOOLEAN

Places == 0 .. 7
Nibble == 0 .. 15

Below(number, nibbles) == \A p \in Places : p >= nibbles => number[p] = 0

Word16(number) ==
  number[0] + 16 * number[1] + 256 * number[2] + 4096 * number[3]

\* The digit at a place, counted from the right; there are zeros to the left.
DigitAt(digits, p) == IF p < Len(digits) THEN digits[Len(digits) - p] ELSE "0"

DigitsOnly(digits) == \A i \in DOMAIN digits : digits[i] \in Digit

Place(c, base) == Code[c] - Code[base]

\* What a digit stands for: 0 to 15, in either case of its letter.
DigitValue(c) ==
  CASE c \in Decimal -> Place(c, "0")
    [] c \in UpperCase -> Place(c, "A") + 10
    [] OTHER -> Place(c, "a") + 10

\* The number a numeral stands for, but for what 32 bits cannot hold.
Numeral(digits) == [p \in Places |-> DigitValue(DigitAt(digits, p))]

-----------------------------------------------------------------------------

\* c - '0' of an upper-case letter: 'A' is seven codes behind '9' + 1.
CompiledDigit(c) ==
  IF c \in UpperCase THEN Place(c, "A") + 17 ELSE DigitValue(c)

(***************************************************************************)
(* The digits are shifted to their place and joined by 'or': the fifth bit *)
(* of an upper-case digit falls into the nibble to its left, and a digit   *)
(* before the last eight may fall upon one of them.                        *)
(***************************************************************************)
CompiledNumber(digits) ==
  LET falls(p) == {q \in 0 .. Len(digits) - 1 : q = p \/ (ShiftWraps /\ q % 8 = p)}
      has(p, bit) ==
        \E q \in falls(p) : (CompiledDigit(DigitAt(digits, q)) \div bit) % 2 = 1
      one(p, bit) == IF has(p, bit) \/ (bit = 1 /\ has(p - 1, 16)) THEN bit ELSE 0
  IN [p \in Places |-> one(p, 8) + one(p, 4) + one(p, 2) + one(p, 1)]

-----------------------------------------------------------------------------
(* strtol, whose result is a long of 64 bits.  (It would skip blanks, but   *)
(* the words of a command have none.)                                       *)

Signed(arg) == arg # <<>> /\ arg[1] \in {"+", "-"}
Unsigned(arg) == IF Signed(arg) THEN Tail(arg) ELSE arg

\* It accepts and skips a 0x; what it does not read must be nothing.
Prefixed(arg) == Len(arg) > 2 /\ arg[1] = "0" /\ arg[2] \in {"x", "X"}
Unprefixed(arg) == IF Prefixed(arg) THEN SubSeq(arg, 3, Len(arg)) ELSE arg
Significant(arg) == Unprefixed(Unsigned(arg))

\* The magnitude is no long: the result is the greatest or the least.
Saturates(digits) ==
  \E q \in 15 .. Len(digits) - 1 :
    DigitValue(DigitAt(digits, q)) >= IF q = 15 THEN 8 ELSE 1

\* The complement of two.
Negated(number) ==
  [p \in Places |-> IF \A q \in Places : q < p => number[q] = 0
                      THEN (16 - number[p]) % 16
                      ELSE 15 - number[p]]

\* What is left of the long in the 32 bits it is assigned to.
strtol(arg) ==
  LET digits == Significant(arg)
      negative == Signed(arg) /\ arg[1] = "-"
  IN CASE Saturates(digits) -> [p \in Places |-> IF negative THEN 0 ELSE 15]
       [] ~Saturates(digits) /\ negative -> Negated(Numeral(digits))
       [] OTHER -> Numeral(digits)

\* A sign needs a digit; without one nothing is read.
Reads(arg) ==
  /\ DigitsOnly(Significant(arg))
  /\ Signed(arg) => Significant(arg) # <<>>

\* Mutant of Parses: the range is not looked at.
ParsesUnlimited(arg, nibbles) == Reads(arg)

\* The range is looked at after the long is cut down.
Parses(arg, nibbles) == Reads(arg) /\ Below(strtol(arg), nibbles)

parse_hex_16(arg) == Word16(strtol(arg))
=================================================================================
