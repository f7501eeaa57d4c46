------------------------------ MODULE MCAssembler ------------------------------
(***************************************************************************)
(* The assembler under every short program and every short inline session, *)
(* at an address with two significant bytes and close to the end of the    *)
(* memory.  What the user has written is kept beside what the assembler    *)
(* does with it, and compared with a two-pass reading of the whole text.   *)
(***************************************************************************)
EXTENDS Assembler, FiniteSets, FiniteSetsExt, TLC

CONSTANTS MaxStatements,  (* bound: statements compiled altogether         *)
          MaxCalls        (* bound: load, asm, set and lines altogether    *)

Hlt == <<HltCode>>
MviB == << \h06, 9 >>
Jnz == \hC2
MCStatements == {Hlt, MviB}
MCUsingCodes == {Jnz}
MCMisspelled == {<< \h06 >>}

Symmetry == Permutations(Labels)

VARIABLES
  text,        (* the file, or the inline session but for the lines that failed *)
  lineStart,   (* how much of it was there when compile() was called            *)
  by,          (* which of them it was                                          *)
  base,        (* the address given to it                                       *)
  before,      (* the memory at that moment                                     *)
  clean,       (* neither set nor a line that used or declared a label and then *)
               (* failed has disturbed the session                              *)
  statements,  (* how many statements were compiled                             *)
  calls        (* how many commands and lines there were                        *)

historyVars == <<text, lineStart, by, base, before, clean, statements, calls>>
mcVars == <<compilerVars, historyVars>>

MCInit ==
  /\ Init
  /\ text = <<>> /\ lineStart = 0
  /\ by = "none" /\ base = 0 /\ before = memory /\ clean = TRUE
  /\ statements = 0 /\ calls = 0

Wrote(s) ==
  /\ statements < MaxStatements
  /\ statements' = statements + 1
  /\ text' = Append(text, [s EXCEPT !.at = offset])
  /\ UNCHANGED <<lineStart, by, base, before, clean, calls>>

Code(bytes) == [kind |-> "code", bytes |-> bytes, label |-> "none", at |-> 0]
Declares(name) == [kind |-> "declares", bytes |-> <<>>, label |-> name, at |-> 0]
Uses(code, name) == [kind |-> "uses", bytes |-> <<code>>, label |-> name, at |-> 0]

Opened(addr) ==
  /\ calls < MaxCalls
  /\ calls' = calls + 1
  /\ text' = <<>> /\ lineStart' = 0
  /\ by' = caller' /\ base' = addr /\ before' = memory /\ clean' = TRUE
  /\ UNCHANGED statements

Called(unspoilt) ==
  /\ calls < MaxCalls
  /\ calls' = calls + 1
  /\ lineStart' = Len(text)
  /\ clean' = (clean /\ unspoilt)
  /\ UNCHANGED <<text, by, base, before, statements>>

\* The lines that failed are struck from the text; a line of nothing but
\* declarations, which also counts as a failure, is not.
Returned ==
  LET line == SubSeq(text, lineStart + 1, Len(text))
      fails == by = "asm" /\ lastStatus' \in Aborting \ {"EMPTY_PROGRAM"}
  IN /\ text' = IF fails THEN SubSeq(text, 1, lineStart) ELSE text
     /\ clean' = (clean /\ (fails => \A i \in DOMAIN line : line[i].kind = "code"))
     /\ UNCHANGED <<lineStart, by, base, before, statements, calls>>

MCNext ==
  \/ \E addr \in Origins : (Load(addr) \/ Asm(addr)) /\ Opened(addr)
  \/ \E addr \in Origins : SetPointer(addr) /\ Called(FALSE)
  \/ Line /\ Called(TRUE)
  \/ ExitAsm /\ UNCHANGED historyVars
  \/ \E bytes \in Statements : CompileStatement(bytes) /\ Wrote(Code(bytes))
  \/ \E bytes \in Misspelled : CompileMisspelled(bytes) /\ Wrote(Code(bytes))
  \/ \E name \in Labels : DeclareLabel(name) /\ Wrote(Declares(name))
  \/ \E code \in UsingCodes, name \in Labels :
       (UseDeclared(code, name) \/ UseForward(code, name))
         /\ Wrote(Uses(code, name))
  \/ \E name \in Labels :
       (RefuseLabel \/ UseOverrun(name)) /\ Wrote(Declares(name))
  \/ Finish /\ Returned
  \/ FinishPatching /\ Returned
  \/ (BeginPatching \/ PatchNext) /\ UNCHANGED historyVars

MCSpec == MCInit /\ [][MCNext]_mcVars

-----------------------------------------------------------------------------
(* The text read twice: first for its addresses, then for its bytes.        *)

Size(s) == IF s.kind = "uses" THEN 3 ELSE Len(s.bytes)

Address ==
  LET after[i \in 0 .. Len(text)] ==
        IF i = 0 THEN base ELSE after[i - 1] + Size(text[i])
  IN [i \in 1 .. Len(text) + 1 |-> after[i - 1]]

Declarations(name) ==
  {i \in DOMAIN text : text[i].kind = "declares" /\ text[i].label = name}

\* The address a use stands for: of the last declaration above it, or else of
\* the last declaration there is, or else 0.
Target(i) ==
  LET all == Declarations(text[i].label)
      above == {d \in all : d < i}
  IN IF above # {} THEN Address[Max(above)]
     ELSE IF all # {} THEN Address[Max(all)]
     ELSE 0

Bytes(i) ==
  IF text[i].kind = "uses"
    THEN text[i].bytes \o << Low(Target(i)), High(Target(i)) >>
    ELSE text[i].bytes

Unresolved == {i \in DOMAIN text :
                 text[i].kind = "uses" /\ Declarations(text[i].label) = {}}

Compiled == phase = "prompt" /\ lastStatus \in {"COMPILE_OK", "LABELS_PENDING"}

(***************************************************************************)
(* When compile() reports success, or nothing worse than a label without a *)
(* declaration, the memory holds the two-pass reading of everything        *)
(* written since the load or asm command, across all lines of the session, *)
(* and no other cell has changed.                                          *)
(***************************************************************************)
AssembledExactly ==
  Compiled /\ clean /\ text # <<>> =>
    /\ offset = Address[Len(text) + 1]
    /\ \A i \in DOMAIN text : \A k \in DOMAIN Bytes(i) :
         memory[Address[i] + k - 1] = Bytes(i)[k]
    /\ \A c \in Cells : c < base \/ (c >= offset /\ by = "load")
                        => memory[c] = before[c]

(***************************************************************************)
(* What 'load' answers describes the file: it was loaded exactly if it has *)
(* an instruction and a hlt, fits into the memory, and declares every      *)
(* label it uses; otherwise the answer is what is wrong with it.  The      *)
(* statements after a syntax error are never read, and the limits of the   *)
(* tables are not considered.                                              *)
(***************************************************************************)
Halts(s) == s.kind = "code" /\ s.bytes[1] = HltCode

Verdict ==
  IF Address[Len(text) + 1] > MemSize THEN "MEMORY_FULL"
  ELSE IF Address[Len(text) + 1] = base THEN "EMPTY_PROGRAM"
  ELSE IF \A i \in DOMAIN text : ~Halts(text[i]) THEN "NO_HLT"
  ELSE IF Unresolved # {} THEN "LABELS_PENDING"
  ELSE "COMPILE_OK"

VerdictDescribesFile ==
  phase = "prompt" /\ by = "load"
    /\ lastStatus \notin {"PARSE_ERROR", "LABEL_FULL"} => lastStatus = Verdict

-----------------------------------------------------------------------------
(* What the documentation says of the inline shell and of the tables.       *)

\* A line of the inline shell has just been accepted.
Accepted == phase = "prompt" /\ by = "asm" /\ lastStatus \notin Aborting

LastLine == {i \in DOMAIN text : i > lineStart}

(***************************************************************************)
(* Claimed by src/README.md:96: a statement typed into the inline shell is *)
(* compiled and loaded at the memory address the prompt shows.             *)
(***************************************************************************)
StatementsLoaded ==
  Accepted =>
    \A i \in LastLine : text[i].kind = "code" =>
      \A k \in DOMAIN text[i].bytes :
        memory[text[i].at + k - 1] = text[i].bytes[k]

(***************************************************************************)
(* Claimed by src/README.md:98: the user is notified of using undeclared   *)
(* labels upon compilation of the statement.                               *)
(***************************************************************************)
WarnsOfUndeclared ==
  Accepted /\ clean /\ LastLine \cap Unresolved # {} =>
    lastStatus = "LABELS_PENDING"

(***************************************************************************)
(* Claimed by src/asm.c:176-185: any valid opcode typed into the inline    *)
(* shell is compiled to the location of the pointer, which 'set' moves to  *)
(* any desired address.  So a line is refused for want of memory only when *)
(* it has come to the end of the memory.                                   *)
(***************************************************************************)
RefusedForRoom ==
  [][Finish /\ caller = "asm" /\ Outcome = "MEMORY_FULL" => offset >= MemSize]_mcVars

(***************************************************************************)
(* Claimed by src/main.c:117: a program is refused for its labels when the *)
(* number of those it uses exceeds the maximum.                            *)
(***************************************************************************)
RefusedForTooMany ==
  phase = "prompt" /\ by = "load" /\ lastStatus = "LABEL_FULL" =>
    Cardinality({text[i].label : i \in {j \in DOMAIN text :
                                         text[j].kind # "code"}}) > NUM_LABELS
===============================================================================
