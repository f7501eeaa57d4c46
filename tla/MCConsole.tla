--------------------------------- MODULE MCConsole ---------------------------------
(***************************************************************************)
(* The console under short sessions: every mnemonic with every kind of     *)
(* operand, words that are nearly keywords, numbers at the edges, small    *)
(* programs and lines of the inline shell, each listed again from the      *)
(* memory; every byte set and disassembled; and listings at both ends of   *)
(* the addresses.                                                          *)
(***************************************************************************)
EXTENDS Console

CONSTANT MaxLines   (* bound: lines and sets in the inline shell *)

-----------------------------------------------------------------------------
(* What the user types.                                                     *)

Two(a, sep, b) == a \o sep \o b

Operands ==
  {"", "a", "b", "c", "d", "e", "h", "l", "m", "sp", "psw", "q", "0h", "0ffh",
   "100h", "1a2bh", "10000h", "100000012h", "0Ah", "1Bh", "1g", "5", "5 b", ",", "a,b", "b,5h",
   "d,1a2bh", "label: hlt"}

MoveOperands ==
  {Two(a, ",", b) : a, b \in {"a", "b", "c", "d", "e", "h", "l", "m", "sp"}}
    \cup {Two(a, ",", n) : a \in {"a", "c", "e", "h", "l", "m", "sp", "psw"},
                           n \in {"0h", "0ffh", "1a2bh", "0fFh"}}

Statements1 ==
  {Two(m, " ", o) : m \in MnemonicSet, o \in Operands}
    \cup {Two(m, " ", o) : m \in {"mov", "mvi", "lxi", "dad"}, o \in MoveOperands}

\* Each of these is taken for a keyword, but for the last three.
NearKeywords ==
  {"cmz", "dar b", "dax b", "jmz 5h", "ldi b,5h", "ort 5h", "rat", "raz", "rez",
   "rlz", "sti 5h", "ldld 5h", "pcsh b", "shll 5h", "shlx b", "sphx b", "xchl",
   "aaa b", "zcal 5h", "stop"}

Programs ==
  {"", "// only\n// comments", "hlt // no end", "/ hlt",
   "nop\n// one\nmvi b, 5h // two\nhlt",
   "l: nop\n jmp l\n hlt", "jz end\n nop\n end: hlt", "jz end\n hlt",
   "lxi h,end\n\n sta end\n hlt\n end: nop", "call f\n hlt\n f: mvi a, 0Fh\n ret",
   "l: m: n: o: hlt p: nop", "call l call l call l call l call l hlt", "l hlt",
   "l: l: hlt", ": hlt", "mvi a\n,\n5\nh hlt\tnop", "mov a, b hlt\rnop"}

Help == INSTANCE InstructionHelp

\* The examples of 'help', with random numbers of one first digit or another.
ExamplesWith(data8, data16) ==
  UNION {UNION {{[num |-> num, text |-> t] :
                   t \in Help!type_gen_example(num, part, data8, data16)} :
                  part \in 1 .. Help!Rows(Help!opcode_details[num])} :
           num \in DOMAIN Mnemonics}

ByDecimal == ExamplesWith({"0", "9c"}, {"5", "9c3f", "100"})
ByLetter == ExamplesWith({"c", "fe"}, {"a", "ca11"}) \ ByDecimal

Sources == Statements1 \cup NearKeywords \cup Programs
             \cup {e.text : e \in ByDecimal \cup ByLetter}

Lines == {"mvi c, 0ffh", "l: jnz l", "jmp f", "f: hlt", "mvi c", "dar b", ""}

Ranges == {"0fe", "0x100", "104", "106", "107", "100000105", "-fffffefd", "108g",
           "10000"}
Sessions == {"0xfe", "105"}
Bases(text) == IF text \in Programs THEN Sessions ELSE {"0x100"}

HexDigits == Chars("0123456789abcdef")
Hexadecimal(byte) ==
  <<HexDigits[byte \div 16 + 1], HexDigits[(byte % 16) + 1]>>

MCByteLists ==
  {<<Hexadecimal(b), v, v>> : b \in Byte, v \in {Chars("12"), Chars("0f"), Chars("cd")}}
    \cup {<<Chars("1"), Chars("100"), Chars("2")>>,
          [i \in 1 .. 5 |-> Chars("Ff")],
          [i \in 1 .. 3 |-> Chars("c3")]}

MCTexts == {Chars(t) : t \in Sources \cup Lines}
MCArguments ==
  {Chars(w) : w \in Ranges \cup Sessions}
    \cup {Hexadecimal(High(w)) \o Hexadecimal(Low(w)) : w \in Word}

-----------------------------------------------------------------------------

VARIABLES
  typed,     (* the file, or the accepted lines of the inline session        *)
  base,      (* the address given to load or asm                             *)
  plain,     (* no line failed that had disturbed the tables, and no set     *)
  again,     (* the listing is of all that load or asm has stored            *)
  listed,    (* its lines                                                    *)
  commands,  (* bound: two at the prompt of the REPL, the second a listing   *)
  lines

historyVars == <<typed, base, plain, again, listed, commands, lines>>
mcVars == <<consoleVars, historyVars>>

MCInit ==
  /\ ConsoleInit
  /\ typed = <<>> /\ base = 0 /\ plain = FALSE
  /\ again = FALSE /\ listed = <<>>
  /\ commands = 0 /\ lines = 0

\* A session of the assembler begins; a session of listings is not plain.
Opened(text, word) ==
  /\ commands = 0
  /\ commands' = 1
  /\ typed' = text /\ base' = parse_hex_16(word) /\ plain' = TRUE
  /\ UNCHANGED <<again, listed, lines>>

Other(from, to) ==
  /\ commands = from /\ ~plain
  /\ commands' = to
  /\ UNCHANGED <<typed, base, plain, again, listed, lines>>

Typed(text, ok) ==
  /\ lines < MaxLines
  /\ lines' = lines + 1
  /\ typed' = typed \o text
  /\ plain' = (plain /\ ok)
  /\ UNCHANGED <<base, again, listed, commands>>

\* A line that failed is struck from what was typed.
Returned ==
  LET failed == caller = "asm" /\ lastStatus' \in Aborting \ {"EMPTY_PROGRAM"}
  IN /\ typed' = IF failed THEN SubSeq(typed, 1, Len(typed) - Len(source))
                           ELSE typed
     /\ plain' = (plain /\ (failed => labelTable = <<>>))
     /\ UNCHANGED <<base, again, listed, commands, lines>>

Keep == UNCHANGED historyVars

\* 'dis' over all that was stored, as the command line of The8085 does.
\* (Too close to the end of the addresses that never ends.)
ListAll ==
  /\ AtRepl
  /\ plain /\ offset > base
  /\ Dis(base, offset - 1)
  /\ commands' = 2
  /\ again' = (offset + 2 <= LastAddress)
  /\ UNCHANGED <<compilerVars, scannerVars, typed, base, plain, listed, lines>>

ListingStep ==
  /\ ListingTurn
  /\ listed' = IF again /\ listing' = "dis" THEN Append(listed, printed')
                                            ELSE listed
  /\ UNCHANGED <<compilerVars, scannerVars, typed, base, plain, again, commands,
                 lines>>

CompileStep ==
  /\ \/ CompileNext /\ Keep
     \/ EndOfSource /\ (IF phase' = "prompt" THEN Returned ELSE Keep)
     \/ Patching /\ (IF phase' = "prompt" THEN Returned ELSE Keep)
  /\ UNCHANGED listingVars

FirstCommand ==
  \/ \E t \in Sources : \E w \in Bases(t) :
       LoadCommand(Chars(t), Chars(w)) /\ Opened(Chars(t), Chars(w))
  \/ \E w \in Sessions : AsmCommand(Chars(w)) /\ Opened(<<>>, Chars(w))
  \/ \E w, v \in Ranges :
       /\ ShowCommand(Chars(w), Chars(v)) \/ DisCommand(Chars(w), Chars(v))
       /\ Other(0, 2)
  \/ \E v \in ByteLists : SetCommand(Chars("104"), v) /\ Other(0, 1)

SecondCommand ==
  \/ DisCommand(Chars("104"), Chars("104")) /\ Other(1, 2)
  \/ ListAll

InlineCommand ==
  \/ \E w \in Sessions : AsmSet(Chars(w)) /\ Typed(<<>>, FALSE)
  \/ \E t \in Lines : AsmLine(Chars(t)) /\ Typed(Append(Chars(t), " "), TRUE)
  \/ AsmExit /\ Keep

Command ==
  \/ commands = 0 /\ FirstCommand
  \/ commands = 1 /\ SecondCommand
  \/ caller = "asm" /\ InlineCommand

MCNext == Command \/ CompileStep \/ ListingStep

\* The loops of 'show' and 'dis' run on the only thread.
MCSpec == MCInit /\ [][MCNext]_mcVars /\ WF_mcVars(ListingStep)

-----------------------------------------------------------------------------
(* What was typed, read by its tokens alone.                                *)

Instructions(tokens) == {j \in DOMAIN tokens : tokens[j].type \in MnemonicSet}

Declarations(tokens) ==
  {j \in 1 .. Len(tokens) - 1 : /\ tokens[j].type = "TOKEN_IDENTIFIER"
                               /\ tokens[j + 1].type = "TOKEN_COLON"}

\* The h of a number is not a word of its own.
Names(tokens) ==
  {j \in DOMAIN tokens \ Declarations(tokens) :
     /\ tokens[j].type = "TOKEN_IDENTIFIER"
     /\ ~ \E i \in DOMAIN tokens : i = j - 1 /\ tokens[i].type = "TOKEN_NUMBER"}

Numbers(tokens) == {j \in DOMAIN tokens : tokens[j].type = "TOKEN_NUMBER"}

\* The line of the listing that shows the instruction at or behind a token.
LineOf(tokens, j) == 1 + Cardinality({i \in Instructions(tokens) : i < j})
AddressOf(tokens, j) ==
  IF LineOf(tokens, j) \in DOMAIN listed THEN listed[LineOf(tokens, j)].at ELSE offset

\* Those of some tokens that belong to the instruction at i.
Among(tokens, some, i) ==
  {j \in some : j > i /\ i + 1 .. j \cap Instructions(tokens) = {}}

Declaring(tokens, j) ==
  {d \in Declarations(tokens) : tokens[d].text = tokens[j].text}

ShowsNames(tokens, i, shown) ==
  LET names == {j \in Among(tokens, Names(tokens), i) : Declaring(tokens, j) = {}}
  IN /\ Len(shown.operands) = Cardinality(names)
     /\ \A j \in names :
          Chars(shown.operands[Cardinality({k \in names : k <= j})]) = tokens[j].text

ShowsNumber(tokens, i, shown) ==
  LET numbers == Among(tokens, Numbers(tokens), i)
      labels == {j \in Among(tokens, Names(tokens), i) : Declaring(tokens, j) # {}}
  IN /\ Len(shown.number) = Cardinality(numbers \cup labels)
     /\ \A j \in numbers : Len(tokens[j].text) <= 8 =>
          (shown.number = <<Word16(Numeral(tokens[j].text))>>
             <=> \A k \in DOMAIN tokens[j].text : tokens[j].text[k] \notin UpperCase)
     /\ \A j \in labels : \E d \in Declaring(tokens, j) :
          shown.number = <<AddressOf(tokens, d)>>

\* There is a listing of all that was stored, and no label waits in it.
ListedAgain ==
  /\ again /\ listing = "none"
  /\ \/ lastStatus = "COMPILE_OK"
     \/ lastStatus = "NO_HLT" /\ pending_labels = <<>>

(***************************************************************************)
(* Scanner, encoder and disassembler agree: what was compiled, disassembled *)
(* again, shows the same instructions at consecutive addresses, with the   *)
(* operands and numbers typed, a label as the address it stands before.    *)
(* Three things may come back as others: a word that only resembles a      *)
(* keyword, every number with an upper-case digit, and one of more digits  *)
(* than a u32 has room for.                                                *)
(***************************************************************************)
ListsWhatWasTyped ==
  ListedAgain =>
    LET tokens == Tokens(typed)
    IN /\ Len(listed) = Cardinality(Instructions(tokens))
       /\ listed[1].at = base
       /\ \A i \in Instructions(tokens) :
            LET shown == listed[LineOf(tokens, i)]
            IN /\ \/ Chars(shown.mnemonic) = tokens[i].text
                  \/ ~IsKeyword(tokens[i].text)
               /\ ShowsNames(tokens, i, shown)
               /\ ShowsNumber(tokens, i, shown)

\* A line of 'dis' without its columns.
SpelledOut(shown) ==
  LET name(i) == Chars(shown.operands[i])
      names == CASE Len(shown.operands) = 0 -> <<>>
                 [] Len(shown.operands) = 1 -> name(1)
                 [] OTHER -> name(1) \o <<",">> \o name(2)
      comma == IF names # <<>> /\ shown.width > 0 THEN <<",">> ELSE <<>>
      number == CASE shown.width = 0 -> <<>>
                  [] shown.width = 1 -> Hexadecimal(shown.number[1]) \o <<"h">>
                  [] OTHER -> Hexadecimal(High(shown.number[1]))
                                \o Hexadecimal(Low(shown.number[1])) \o <<"h">>
  IN [text |-> Chars(shown.mnemonic) \o <<" ">> \o names \o comma \o number,
      number |-> number]

\* A line of 'dis' with a mnemonic of the assembler.
KnowsLine ==
  /\ listing = "dis" /\ printed # NoLine
  /\ printed.mnemonic \in MnemonicSet /\ printed.at + 2 \in Cells

(***************************************************************************)
(* A line of 'dis' can be typed back, and compiles to the bytes it shows;  *)
(* but a number that begins with a letter, which the disassembler does not *)
(* precede with a zero, is refused, or taken for a label if it is a word.  *)
(***************************************************************************)
LinesCanBeTyped ==
  KnowsLine =>
    LET spelled == SpelledOut(printed)
        statement == Statement(spelled.text, 1, 1)
        byLetter == spelled.number # <<>> /\ spelled.number[1] \notin Decimal
    IN IF byLetter
         THEN statement.kind = IF printed.width = 1 THEN "fails" ELSE "uses"
         ELSE /\ statement.kind = "stores"
              /\ statement.bytes = [i \in 1 .. printed.width + 1 |->
                                      memory[printed.at + i - 1]]

\* push and pop take no sp, the other opcodes no psw.
OddPair(num, pair) ==
  pair = Chars(IF Mnemonics[num] \in {"push", "pop"} THEN "sp" ELSE "psw")

(***************************************************************************)
(* The examples of 'help' compile, to as many bytes as it tells; but with  *)
(* a pair that the opcode does not take, or with a number that begins with *)
(* a letter, they do not, or take it for a label.                          *)
(***************************************************************************)
ExamplesTeach ==
  phase = "scanning" /\ current = 1 =>
    LET shown(examples) == {e \in examples : Chars(e.text) = source}
        tokens == Tokens(source)
        odd(num) == Len(tokens) > 1 /\ OddPair(num, tokens[2].text)
    IN /\ \A e \in shown(ByDecimal) :
            IF odd(e.num)
              THEN NextStatement.kind = "fails"
              ELSE /\ NextStatement.kind = "stores"
                   /\ Len(NextStatement.bytes) =
                        Help!LengthTold(Help!opcode_details[e.num])
       /\ \A e \in shown(ByLetter) : NextStatement.kind \in {"fails", "uses"}

-----------------------------------------------------------------------------
(* What the documentation says of numbers, words, examples and listings.    *)

\* An instruction of the listing has a number where one was typed.
EachNumber(Holds(_, _)) ==
  ListedAgain =>
    LET tokens == Tokens(typed)
    IN \A i \in Instructions(tokens) : \A j \in Among(tokens, Numbers(tokens), i) :
         Holds(tokens[j].text, listed[LineOf(tokens, i)])

(***************************************************************************)
(* Claimed by src/README.md:51 (the syntax is exactly that of the 8085)    *)
(* and src/scanner.c:29-32 (A to F are digits): a number that an u32 has   *)
(* room for is stored as it was typed.                                     *)
(***************************************************************************)
StoredAsTyped ==
  EachNumber(LAMBDA digits, shown :
               Len(digits) <= 8 => shown.number = <<Word16(Numeral(digits))>>)

\* No digit but zeros lies beyond the width.
Fits(digits, nibbles) ==
  \A p \in nibbles .. Len(digits) - 1 : DigitValue(DigitAt(digits, p)) = 0

(***************************************************************************)
(* Claimed by the message of src/compiler.c:259: a number that does not    *)
(* fit into its operand is refused.                                        *)
(***************************************************************************)
StoredFits == EachNumber(LAMBDA digits, shown : Fits(digits, 2 * shown.width))

(***************************************************************************)
(* Claimed by the message of src/util.c:63: an address above ffff is       *)
(* refused.                                                                *)
(***************************************************************************)
AddressesFit ==
  [][\A w, v \in Ranges :
       DisCommand(Chars(w), Chars(v)) => /\ Fits(Significant(Chars(w)), 4)
                                         /\ Fits(Significant(Chars(v)), 4)]_mcVars

(***************************************************************************)
(* Claimed by src/util.c:103: a word is taken for a keyword when all       *)
(* letters have matched.                                                   *)
(***************************************************************************)
OnlyKeywordsAreFound ==
  phase = "scanning" /\ current = 1 =>
    \A place \in DOMAIN source :
      LET token == TokenAt(source, place, line)
      IN token.type \in MnemonicSet => IsKeyword(token.text)

(***************************************************************************)
(* Claimed by src/README.md:122: 'help' generates an example of how to use *)
(* the opcode, so the example is a statement with that opcode.             *)
(***************************************************************************)
ExamplesCompile ==
  phase = "scanning" /\ current = 1
    /\ source \in {Chars(e.text) : e \in ByDecimal \cup ByLetter} =>
      NextStatement.kind = "stores"

(***************************************************************************)
(* Claimed by src/main.c:286-291 and 328-329: 'show' prints the bytes from *)
(* the one address to the other, and 'dis' the instructions up to its end, *)
(* both including it.  So behind the line of the last address no line is   *)
(* printed.                                                                *)
(***************************************************************************)
StopsAtTheEnd ==
  [][listing # "none" /\ printed # NoLine /\ printed.at = upto
       => printed' = printed]_listingVars
====================================================================================
