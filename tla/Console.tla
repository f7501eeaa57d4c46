---------------------------------- MODULE Console ----------------------------------
(***************************************************************************)
(* The commands of src/main.c and src/asm.c as the user types them: words  *)
(* for addresses and bytes, and texts for programs.  The assembler writes  *)
(* the memory that 'show' and 'dis' read.  A command whose words are       *)
(* refused changes nothing; it is a stuttering step.                       *)
(***************************************************************************)
EXTENDS SourceAssembler, Listing, FiniteSets

CONSTANTS
  Arguments,   (* the words typed where an address is expected *)
  ByteLists    (* the words typed after the address of 'set'   *)

consoleVars == <<compilerVars, scannerVars, listingVars>>

ConsoleInit == Init /\ ScannerInit /\ ListingInit

AtRepl == phase = "prompt" /\ caller = "none" /\ listing = "none"

IsAddress(word) == Parses(word, 4)

\* With 65536 addresses each that is parsed exists.
ASSUME ConsoleAssumption ==
  /\ \A word \in Arguments : IsAddress(word) => parse_hex_16(word) \in Word
  /\ ByteLists \subseteq Seq(Seq(STRING))

LoadCommand(text, word) ==
  /\ AtRepl
  /\ IsAddress(word)
  /\ LoadSource(text, parse_hex_16(word))
  /\ UNCHANGED listingVars

AsmCommand(word) ==
  /\ AtRepl
  /\ IsAddress(word)
  /\ Asm(parse_hex_16(word))
  /\ UNCHANGED <<scannerVars, listingVars>>

\* 'set' of the inline shell.
AsmSet(word) ==
  /\ IsAddress(word)
  /\ SetPointer(parse_hex_16(word))
  /\ UNCHANGED <<scannerVars, listingVars>>

AsmLine(text) == CompileLine(text) /\ UNCHANGED listingVars

AsmExit == ExitAsm /\ UNCHANGED <<scannerVars, listingVars>>

\* Without a second address, 'show' shows one byte.
ShowCommand(word, last) ==
  /\ AtRepl
  /\ IsAddress(word) /\ IsAddress(last)
  /\ Show(parse_hex_16(word), parse_hex_16(last))
  /\ UNCHANGED <<compilerVars, scannerVars>>

DisCommand(word, last) ==
  /\ AtRepl
  /\ IsAddress(word) /\ IsAddress(last)
  /\ Dis(parse_hex_16(word), parse_hex_16(last))
  /\ UNCHANGED <<compilerVars, scannerVars>>

\* How many of the words 'set' stores: those before the first that is no byte.
Accepted(words) ==
  LET bad == {i \in DOMAIN words : ~Parses(words[i], 2)}
  IN IF bad = {} THEN Len(words)
                 ELSE (CHOOSE i \in bad : \A j \in bad : i <= j) - 1

SetCommand(word, words) ==
  LET at == parse_hex_16(word)
      n == Accepted(words)
  IN /\ AtRepl
     /\ IsAddress(word)
     /\ IF at + n <= MemSize
          THEN /\ memory' =
                    Stored(at, [i \in DOMAIN words |-> parse_hex_16(words[i])], n)
               /\ UNCHANGED phase
          ELSE phase' = "undefined" /\ UNCHANGED memory
     /\ UNCHANGED <<tables, offset, memory_full, has_halt, offbak, lastStatus,
                    patched, caller, scannerVars, listingVars>>

Turns == \/ CompileTurn /\ UNCHANGED listingVars
         \/ ListingTurn /\ UNCHANGED <<compilerVars, scannerVars>>

ConsoleNext ==
  \/ \E text \in Texts : AsmLine(text) \/ \E word \in Arguments : LoadCommand(text, word)
  \/ \E word \in Arguments : AsmCommand(word) \/ AsmSet(word)
  \/ AsmExit
  \/ \E word, last \in Arguments : ShowCommand(word, last) \/ DisCommand(word, last)
  \/ \E word \in Arguments, words \in ByteLists : SetCommand(word, words)
  \/ Turns

ConsoleSpec == ConsoleInit /\ [][ConsoleNext]_consoleVars

-----------------------------------------------------------------------------

ConsoleTypeOK ==
  /\ ListingTypeOK
  /\ memory \in [Cells -> Byte] /\ offset \in Word
  /\ current \in 1 .. Len(source) + 1 /\ line \in 1 .. Len(source) + 1

(***************************************************************************)
(* Of the words of a source, every keyword is found, and one that is taken *)
(* for a keyword resembles it.                                             *)
(***************************************************************************)
WordsAreFound ==
  phase = "scanning" /\ current = 1 =>
    \A place \in DOMAIN source :
      LET token == TokenAt(source, place, line)
      IN token.type \in {"TOKEN_IDENTIFIER"} \cup MnemonicSet =>
           FindsKeyword(token.text) /\ ResemblesFound(token.text)

(***************************************************************************)
(* Wherever a statement ends, the line an error would be reported at is    *)
(* the line the scanner is in.                                             *)
(***************************************************************************)
LinesAreCounted ==
  line = 1 + Cardinality({p \in 1 .. current - 1 : source[p] = Newline})
====================================================================================
