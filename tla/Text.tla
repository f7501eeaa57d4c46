---------------------------------- MODULE Text ----------------------------------
(***************************************************************************)
(* Texts as sequences of characters, a character being a string of length  *)
(* one, and the order of the characters a word is made of.                 *)
(***************************************************************************)
EXTENDS Integers, Sequences

Chars(string) == [i \in 1 .. Len(string) |-> SubSeq(string, i, i)]

Underscore == "_"

\* The characters of words and numbers, in the order of their codes.
Ordered ==
  <<"0", "1", "2", "3", "4", "5", "6", "7", "8", "9",
    "A", "B", "C", "D", "E", "F", "G", "H", "I", "J", "K", "L", "M",
    "N", "O", "P", "Q", "R", "S", "T", "U", "V", "W", "X", "Y", "Z",
    Underscore,
    "a", "b", "c", "d", "e", "f", "g", "h", "i", "j", "k", "l", "m",
    "n", "o", "p", "q", "r", "s", "t", "u", "v", "w", "x", "y", "z">>

CharAt(from, to) == {Ordered[i] : i \in from .. to}
Decimal == CharAt(1, 10)
UpperCase == CharAt(11, 36)
LowerCase == CharAt(38, 63)

\* isAlpha (the letters and '_') and isDigit of src/scanner.c.
Alpha == CharAt(11, 63)
Digit == Decimal \cup CharAt(11, 16) \cup CharAt(38, 43)

Code == [c \in CharAt(1, 63) |-> CHOOSE i \in 1 .. 63 : Ordered[i] = c]

Before(c, d) == Code[c] < Code[d]
=================================================================================
