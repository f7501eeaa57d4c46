# The8085, specified

TLA+ specifications of [The8085](../src/README.md): a virtual 8085 with an
assembler, an inline assembly shell and a debugger in one single-threaded REPL.
The modules are translated from the C sources; TLC checks them on small
instances and TLAPS proves the theorems listed below for every instance.

    tlc -workers 2 -config MCDebugger.cfg MCDebugger
    tlapm BreakpointsProofs.tla
    tlapm AluProofs.tla
    tlapm MCAluProofs.tla
    tlapm AssemblerProofs.tla
    tlapm MCAssemblerProofs.tla
    tlapm ListingProofs.tla
    tlapm DebuggerProofs.tla
    tlapm ConsoleProofs.tla

## 1. Inventory

| part | state it keeps | operations | source |
|---|---|---|---|
| Breakpoint table | `breakpoints[15]`, `breakpoint_pointer` | `break add`, `break remove`, look-up after every instruction | `machine.c`, `main.c` |
| ALU | none: accumulator and flags in, accumulator and flags out | the arithmetic, logic, rotate and compare macros | `neovm.c` |
| Virtual machine | registers, flags, `pc`, `sp`, `memory`, `isbroken` | one per opcode, `run` | `neovm.c`, `machine.c` |
| REPL | `machine`, `memory`, `memory_pointer` | `exec`, `continue`, `step`, `set`, `load`, `asm`, `break ...`, `show`, `dis`, `calibrate`, `exit` | `main.c` |
| Assembler | `labelTable`, `pending_labels`, `memory_full`, `has_halt`, `*offset` | `compile`, `patch_labels`, `compiler_reset`, `compiler_report_pending` | `compiler.c` |
| Inline shell | `pointer`, the prompt | a line, `label`, `set`, `exit` | `asm.c` |
| Encoder | none | operands of a mnemonic to bytes | `compiler.c`, `codegen_neovm.c` |
| Scanner, keyword search | position in the source, line | next token; `get_string_index`; `parse_hex_16`, `parse_hex_byte` | `scanner.c`, `util.c` |
| Disassembler, `show` | `intrpointer`, the counter of `show` | one instruction, a range | `neobytecode.c`, `main.c` |
| Instruction help | none: a table per keyword | rows and examples of an opcode | `instruction_details.c` |
| Calibration | `sleepfor` of the machine | `calibrate` | `calibrate.c` |
| Signal handler | `sig_in_progress` | report and exit | `dump.c` |
| Output | none | printing | `display.c` |
| Cell | the line being edited | reads a line, calls the keyword's action | submodule, not in the tree |

How they interact. `main` hands one `memory` array to the assembler, to the
inline shell and to the machine; there is no other channel between them. The
REPL calls an action for each line typed, and everything an action does is done
when it returns: there are no threads. The interleavings that matter are those
of *commands*: any command may come while a program is paused, so the state one
command leaves (`isbroken`, `pc`, `step`, the tables of the compiler, which are
C statics that outlive a compilation) is what the next one finds. `run` and
the loops of `show` and `dis` are those that may go on without the user. Five
tables, kept apart by hand, say what an instruction is: the keywords, the
operands and the encoding of the compiler, the cases of `run`, the cases of the
disassembler, and the numbers of `help`.

Hard behaviours: the order of exec, pause, step, continue, load and set; labels
used before, after and without their declaration, over several lines of which
some fail; tables and memory at their limits; arithmetic at the edges of a byte;
words split into bytes on the stack; a keyword search that forgets; numbers that
begin like words; listings at the last address.

What makes each part correct:

* breakpoint table: it is a list of distinct addresses in order of insertion;
* ALU: sums and differences are exact with their carry, comparisons order, flags
  describe the result, rotations lose nothing;
* machine: every instruction is as long as its operands, stack operations are
  inverse to each other, a stepped or paused program computes what an
  uninterrupted one does;
* debugger: a run pauses at breakpoints and after a step, only a paused program
  is resumed, and where it was paused; a program that ends gives the prompt back;
* assembler: the memory is the two-pass reading of the text, the answer describes
  the text, and nothing else is touched;
* scanner and encoder: every keyword is found, and no word that is none; a number
  is the number that was written;
* disassembler: it shows what was compiled, steps by the lengths the machine
  executes, its lines can be typed back, and a listing ends;
* help: it tells the lengths and times of the machine, and its examples compile.

## 2. Modules

    Words          bytes and words
    AddressSpace   addresses and cells, scaled by AddrMod
    BreakpointList the abstract list        <-- Breakpoints implements it (IsList)
    Breakpoints    the table, its commands  <-- BreakpointsProofs
    Alu            the arithmetic           <-- AluLaws (properties), AluProofs; MCAlu, MCAluProofs
    Memory         the memory array, shared by all below
    Opcodes        the opcodes by family, and their lengths
    Vm             run(), one action per family of opcodes (Alu, Breakpoints, Opcodes)
    DebugSession   the abstract session     <-- Debugger implements it (KeepsSession)
    Debugger       the REPL over Vm         <-- MCDebugger, MCPrograms
                                            <-- DebuggerProofs (AluProofs, BreakpointsProofs)
    Assembler      compile() and its callers<-- MCAssembler; AssemblerProofs
                                            <-- MCAssemblerProofs (both)
    Text           characters and their order
    Keywords       the keyword list and get_string_index
    Numbers        compile_hex, parse_hex_16 and parse_hex_byte
    Scanner        tokens (Keywords)
    Encoder        the bytes of a statement (Scanner, Numbers)
    SourceAssembler  Assembler over the characters of a source (Encoder)
    Disassembler   bytecode_disassemble
    Listing        show and dis (Disassembler, Memory, Opcodes) <-- ListingProofs
    Console        the commands as typed (SourceAssembler + Listing) <-- MCConsole
                                            <-- ConsoleProofs (AssemblerProofs, ListingProofs)
    InstructionHelp  the table of 'help'    <-- MCPrograms, MCConsole

`Breakpoints` keeps the array and the pointer as the code does, and the message
of the last command (`answer`). `RemoveFound` is the search and the shift.

`Alu` writes each macro as a function from accumulator, operand and flags to
accumulator and flags. The flag register is a function from bit to 0 or 1, so
that no bitwise operator is needed. It has the code's peculiarities: `SUB` of 0
leaves a borrow, `DAD` never clears the carry, `FLG_A` is a carry out of the
byte, `DAA` tests the high nibble in place, `CMP M` subtracts one too many.

`Vm` has one action per family of opcodes (all 256 values of an opcode are in
exactly one family; an opcode without a `case` does nothing but its turn). An
action is one whole turn of the loop of `run`: fetch, effect, and the call of
`machine_on_breakpoint` (`EndTurn`). `control` says where the processor is: at
the prompt, about to execute the first instruction of a run (`entry`), a later
one (`loop`), out of the REPL, or `undefined` once an instruction would read or
write outside the array of 65535 cells, where C promises nothing (`LeaveMemory`).

`Debugger` has one action per command that changes anything. `Load` stores a
program or a prefix of one, as a successful or a failed assembly does;
`Assembler` has the detail. A refused command is a stuttering step. `show` and
`dis` change nothing here; they are in `Listing` and `Console`.

`Assembler` has one action per statement, one per turn of the loop of
`patch_labels`, and one per call of its two users. A statement is the bytes it
has and the label it declares or uses; `Misspelled` is what a statement stores
before its syntax error is found. `Outcome` is the chain of tests at the end of
`compile`. A use of a label that does not fit into the tables, which the code does
not check, ends in `undefined`.

`Scanner` and `Encoder` are functions: from a source and a place in it to the
next token, and to the `Effect` of the statement there (bytes, or some bytes
before an error, or a label). `SourceAssembler` composes them with `Assembler`:
one turn of the loop of `compile` takes the statement where the scanner is and
is the action of `Assembler` with that effect, so that a source of characters
runs through the same actions as the abstract statements do. Its specification
is `SourceSpec`. The loops of the scanner and of the keyword search are functions
that call themselves last, with one turn as an operator of its own (`Skipped`)
where the proofs follow it.

`Keywords` keeps the search as it is written, with its two bounds and the letter
it has come to, because what it accepts depends on all of them. `Numbers` has
the two readers of hexadecimal numbers, which differ: one joins digits by `or`,
the other is `strtol` cut down to 32 bits.

`Disassembler` lists the cases of the switch in their order, with what each
prints. `Listing` has one action per line that `show` and `dis` print; the
counters are 16 bits wide and go round. A read past the array, which C leaves
open, is any of `OutsideBytes`. `Console` gives the commands their words, and
one memory to the assembler, `set` and the listings; in `ConsoleSpec` any command
may follow any other that has come back, with any words.

`InstructionHelp` is the table of `help <opcode>`, its rows, and the examples
its random numbers may make.

Abstractions. `AddrMod` (65536 in the code) scales the address space; a word in a
register pair keeps 16 bits. `NEXT_DWORD` reads two bytes in an order C leaves
open; the tests pin the low byte first, and so does the model. `in` may leave any
byte of `InputBytes` (the variable is uninitialised if `scanf` fails). The
instruction shown at a pause, the sleep after an instruction (its T-states are
the variable `tstates`), and everything printed but for listings are left out.
The one-shot mode of the command line is a `load` followed by `dis` and `exec`.
A shift by 32 places or more, which `compile_hex` comes to at the ninth digit of a
number, is open in C: `ShiftWraps` says whether the build takes the count modulo 32,
as x86 does (the runs), or leaves nothing. `strtol` is that of a `long` of 64 bits; the
words it reads have no blanks, for a command is split at them.

## 3. Runs

| run | question | bounds |
|---|---|---|
| `breakpoints` | is the array the list of the help text? | 3 cells, 5 addresses: overfilled, emptied, refilled in every order |
| `alu` | are results and flags right? | all 256 x 256 bytes with 3 of the 256 flag registers (clear, carry alone, all set); the theorems have them all |
| `programs` | does every instruction leave a saved context intact and other cells alone, is a word on the stack the word put there, and does `help` describe it all? | every opcode once, each with 4 flag registers and 3 register files, one of which points outside the memory and one of which has too low a stack |
| `debugger` | does any order of commands keep the promises of a session, and do programs end? | 2 breakpoint cells, 2 addresses, 2 programs, 2 edits |
| `assembler` | is the memory the two-pass reading, the answer true, and every operand patched in the memory? | 5 statements, 3 commands, 3 labels, tables of 3 and 2, 8 cells to the end of the memory |
| `console` | does what is typed come back from the memory, and do listings end? | about 3000 sources: 75 mnemonics with 28 kinds of operands, 20 near keywords, 17 programs, the examples of `help`; inline sessions of 2 lines; 256 opcodes before 3 words; listings between the addresses of 9 words, of 264 |
| `compare_memory` | refuted: CMP M compares with memory | as `alu` |
| `decimal_adjust` | refuted: DAA gives the decimal sum | as `alu` |
| `inline_statement_overwritten` | refuted: an accepted line is what the memory holds | one label |
| `label_full` | refuted: a program is refused only if it has more labels than the table | tables of 2 |
| `inline_full_after_set` | refuted: a line is refused for want of memory only at its end | 3 statements, 4 commands, one label, addresses that leave 3 and 7 cells |
| `last_address` | refuted: a listing stops behind its last address | as `console`, inline sessions of one line |

Eight more claims of the documentation are stated beside the properties they exceed,
each with a configuration under which TLC refutes it in seconds. The properties of
the runs name the same exceptions, so that nothing else can hide behind them.

| configuration | claim | where it is made | counterexample |
|---|---|---|---|
| `MCDebuggerExec` | `PausesAtBreakpoints`: the machine pauses whenever `pc` reaches a breakpoint | `main.c:350` | `exec` from a breakpoint executes the instruction there (`neovm.c:1619`) |
| `MCAssemblerWarns` | `WarnsOfUndeclared`: an undeclared label is reported when it is used | `src/README.md:98`, `109` | not before a `hlt` has been compiled (`compiler.c:601`) |
| `MCConsoleDigits` | `StoredAsTyped`: a number is stored as it was typed | `src/README.md:51`, `scanner.c:29` | `aci 0Ah` stores 11h (`compiler.c:252`) |
| `MCConsoleLong` | `StoredFits`: a number that does not fit into its operand is refused | `compiler.c:259` | `aci 100000012h` stores 13h (`compiler.c:253`) |
| `MCConsoleAddress` | `AddressesFit`: an address above ffff is refused | `util.c:63` | 100000105 is 105 (`util.c:57`) |
| `MCConsoleNear` | `OnlyKeywordsAreFound`: a word taken for a keyword is one | `util.c:103` | `cmz` is taken for `cnz` (`util.c:90`) |
| `MCConsoleExamples` | `ExamplesCompile`: the examples of `help` compile | `src/README.md:122` | `pop sp` (`instruction_details.c:93`) |
| `MCProgramsTStates` | `TakesAsTold`: `help` tells the T-states of the machine | `src/README.md:122` | STC assigns none (`neovm.c:1488`), RET takes 12, not 10 |

Why the bounds are enough. The array operations compare and move cells but never
compute with them, so three cells (first, middle, last) show every position a
shift can start or end at. The code of the programs lies across address 256, so
that both bytes of every return address matter. In `MCDebugger`, five of the
eight commands act on one bit each (`isbroken`), the table or one byte; two
breakpoints suffice for one to be removed while another pauses. `LoadedFirst`
keeps the user from running empty memory, where `nop`s lead up to the program
anyway. For the assembler the hard cases are two uses of a label around its
declaration, a redeclaration, a line that fails between two lines, and a second
session after the first; five statements hold each of them, and the address
given is close enough to the end for a program not to fit, or for a line to be cut
off in the operand of a use, with one statement left for a line behind it.

In `console` each source is compiled alone, so the bounds only limit what a
source is: every mnemonic meets every kind of operand, right or wrong, and every
opcode is disassembled before words whose bytes differ. The array ends at 262;
addresses near it are given so that programs do not fit and listings go round.

What the invariants of `console` say is exact, including what is misread. Where the
documentation says more, a claim of its own is refuted (in brackets):

* `ListsWhatWasTyped`: compiled and disassembled, a source shows the mnemonics,
  registers, numbers and label addresses that were typed, except that a word may
  come back as the keyword it resembles, and that a number of up to eight digits
  comes back as another if and only if it has an upper-case digit (refuted for all
  such numbers: `StoredAsTyped`). One of more digits may come back as anything
  (`StoredFits`);
* `WordsAreFound`: a word that is taken for a keyword has its length, its first
  and its last letter. Some that do: `cmz` (cnz), `ldi` (lxi), `sti` (sui), `ort`
  (out), `rat` (ret), `xchl` (xthl). (`OnlyKeywordsAreFound`);
* `LinesCanBeTyped`: a line of `dis` compiles to the bytes it shows, unless its
  number begins with a letter: then it is refused, or taken for a label;
* `StepsLikeMachine`: `dis` steps by the lengths of `Opcodes`, with which `Vm`
  executes;
* `ExamplesTeach`: the examples of `help` compile to the length it tells, unless
  they have the wrong one of `sp` and `psw` or a number that begins with a letter
  (`ExamplesCompile`).

`HelpDescribes`, over the run `programs`, compares the length and the T-states of
each row of `help` with those of the machine, operand kind by operand kind and
branch by branch. They agree but for RET (10 against 12) and STC, which assigns
no T-states, so that `run` waits as long as for the instruction before (`TakesAsTold`).

`programs` is also a differential check: whatever the body of the subroutine does,
its frame must restore all registers, the flags and `sp`, which fails if a call and a
return disagree on byte order, or if stepping or pausing disturbs anything. A wrong
length it need not notice, as most operands are harmless opcodes themselves: lengths
are compared by `HelpDescribes` and `StepsLikeMachine`. Beside it, two properties look at one
turn alone. `StackKeepsWords`: what a call, a restart, a push or `xthl` leaves on the
stack is what `ret`, `pop` or `xthl` would read there, the flags bit by bit.
`KeepsOtherCells`: a turn changes no cell but those in `Reached`, which are the ones
it is checked to have before it runs. `KeepsSession` is a refinement
(`DebugSession`), `IsList` another (`BreakpointList`). `AssembledExactly` compares
the one-pass assembler, with its deferred patches over many lines, with a reading
that knows the whole text: a use stands for the last declaration above it, else
for the last one there is.

Fairness. `Spec` of `Debugger` has weak fairness on `Turn`: `run` is a loop on the
only thread, and an enabled turn is taken. `MCSpec` of `MCConsole` has weak
fairness on the turns of `show` and `dis`, for the same reason. Nothing is
assumed of the user. `ListingsEnd` is claimed of listings whose end is not the
last address (`show`) or leaves room for the longest instruction (`dis`); that they
also stop at the last address, as the help says of every range, is refuted by the
run `last_address`, a safety property: behind the line of the end comes no other.
`RunsEnd` holds for the programs of `MCDebugger`, which cannot loop for ever (a
program that does never gives the prompt back, in the code as in the model).
Deadlock is not checked where the user may leave the REPL, a computation may
leave the memory or a bound on the number of commands may be reached.

What the claims refuted by runs mean for a user is written in `PROJECT.json` under
"findings", each with the line of documentation it contradicts.

## 4. Theorems

`BreakpointsProofs` proves of `TableSpec`, for every `MaxBreakpoints` of 1 or more
and every `AddrMod` from 257 to 65536 (the assumptions `MaxBreakpointsAssumption`
and `AddrModAssumption`):

* `TableTypeCorrect`: `TableSpec => []TableTypeOK`;
* `TableHasNoDuplicates`: `TableSpec => []NoDuplicates`;
* `TableRefinesList`: `TableSpec => IsList`, the array implements the list.

The inductive invariant is `TableInv`, the conjunction of the first two: that an
address not among the cells in use is not among them after a shift needs the
types of the pointer and the cells. Adding extends the used cells by one that
differs from all; removing maps the cells behind the removed one down by an
injection. For the refinement, `Shown` is the list the cells in use spell out; a
step that adds appends to it (`AddRefined`), a shift is `RemoveAt` of the element
found (`RemoveRefined`, with `RemoveAtProperties` for what `RemoveAt` returns).

`AssemblerProofs` proves of `Spec` of `Assembler`, for every memory, every limit of
the two tables, every set of labels, statements and opcodes (`AddrModAssumption`,
`AssemblerAssumption`):

* `AssemblerTypeCorrect`: `Spec => []TypeOK`;
* `AssemblerTablesAgree`: `Spec => []TablesAgree`;
* `AssemblerPatchesFit`: `Spec => []PatchesFit`, every operand that `patch_labels`
  stores lies in the memory, although it never looks.

Neither of the first two is inductive alone, their conjunction `AssemblerInv` is: `patch_labels`
stores the address of the entry a pending use refers to, which is a word only if
that entry exists (`UsesRefer`), and a new use refers to an entry only if the
types of the tables say where `Append` puts it. One lemma stands for each group
of actions, `EntryAppended` and `UseAppended` for the two tables that grow, and
`WriteTypes` for `compiler_write_byte` at the end of the memory. The third needs
its own invariant, `FitInv`: a use whose operand does not lie in the memory is pending
only while `memory_full` is set (`UsesFit`), and with a full memory no patching is
under way (`PatchesOnlyWhatFitted`). The flag thus has to live as long as the table: a
`set` that cleared it, the obvious repair of what `inline_full_after_set` shows, would
let a later line patch outside the memory unless the use is dropped with its line.

`MCAssemblerProofs` proves what the assembler is for, of `MCSpec` of `MCAssembler`
(the assembler with the text the user has written beside it), for every program,
every inline session of any length, every memory and every limit of the tables:

* `AssemblesExactly`: `MCSpec => []AssembledExactly`, the one pass with its deferred
  patches leaves what reading the whole text twice would;
* `LoadAnswersTruly`: `MCSpec => []VerdictDescribesFile`.

The inductive invariant `MCInv` is `AssemblerInv` and `TextInv`, which relates the
text to the two tables, the bytes stored and the operands still open. While
nothing has gone wrong with the text (`Whole`):

* `Laid`: the statements lie one behind the other from `base` to `offset`;
* `Tabled`: an entry of the label table is declared exactly if the text declares
  its label, and has the place of the *last* declaration;
* `Held`: each statement's bytes are in its place, and the operand of a use is
  that of the last declaration above it, or the use waits in `pending_labels`;
* `Awaited`: each cell of `pending_labels` is for a use of the text; it holds 0
  until its label is declared, and the address in the table once it is `Settled`,
  that is, once `patch_labels` has come by;
* `Confined`: no other cell has changed.

`AssembledExactly` is about `Settled` operands only, so it is far from inductive:
between two calls of `compile` a redeclaration makes them stale, and only the
next `patch_labels`, which goes over all pending uses since `compiler_reset` and
not only the new ones, mends them. That no two statements share a cell (`Apart`)
is what keeps a patch from harming anything else. A line of the inline shell that
fails is struck from the text (`Struck`); the invariant survives it because the
pointer goes back to `offbak` and, `clean` demands, the line touched no table.
There is one lemma per group of actions (`StatementStep`, `PatchTextStep`,
`FinishStep`, ...). For the verdict, `AnswerInv` says of a file what `memory_full`,
`has_halt`, `offset` and `decl_shown` have gathered of it; it needs the end of a
text that did *not* fit (`Chained`, `End`), about which `Laid` says nothing.

`Address`, the first pass, is a recursive function. That it agrees with the
places where the assembler put the statements is proved without an induction
schema: of the places where it would not, there is a least one (`Least`, from
`WellFoundedInduction`), and the one before it agrees (`AddressIs`).

`ListingProofs` proves of `ListingSpec`, for every memory, every bytes behind it
and every `AddrMod` from 257 to 65536 (`AddrModAssumption`, `OutsideAssumption`):

* `ListingTypeCorrect`: `ListingSpec => []ListingTypeOK`;
* `ListingApproaches`: `ListingSpec => Approaches`, every listing with a safe end
  comes nearer to it with each line; this is the variant by which it ends;
* `ListingStepsLikeMachine`: `ListingSpec => []StepsLikeMachine`.

They rest on the cases of the disassembler: those that print a word or a byte
have the opcodes whose length the machine takes to be three or two (`CasesAgree`),
and none of these opcodes is without its case (`OperandsCovered`), so that both
agree on all 256 (`DecodedLength`). `WrapRound` is about going round at the end of
the addresses.

`DebuggerProofs` proves of `Spec` of `Debugger`, for every program, every memory,
every input and every size of the breakpoint table (`AddrModAssumption` and
`MaxBreakpointsAssumption` again):

* `DebuggerOffBreakpoints`: `Spec => []OffBreakpoints`. One lemma per group of
  instructions says that each of them ends its turn in `EndTurn`; the invariant is
  inductive as it stands, because the table cannot change during a run;
* `DebuggerTypeCorrect`: `Spec => []VmTypeOK`. One turn of `run` keeps it (`TurnTyped`),
  with one lemma per group of instructions. The work is in the bounds: an
  instruction is only fetched if all it reaches are cells (`ReachedWays` says which
  those are, family by family), and what it puts into a register, a flag or an
  address is one again;
* `DebuggerKeepsOtherCells`: `Spec => KeepsOtherCells`, family by family from
  `ReachedWays`: what a family writes is among what it is said to reach;
* `DebuggerStackKeepsWords`: `Spec => StackKeepsWords`. It needs the types of the state
  before: the two cells under `sp` exist and differ, a pair is the word of its two
  bytes, and eight bits are those of the byte they make (`BitsOfFlags`);
* `DebuggerKeepsTable`: `Spec => TableSpec`, only `break add` and `break remove` touch
  the table; so `DebuggerRefinesList`: `Spec => IsList`, by `TableRefinesList`;
* `DebuggerRefinesSession`: `Spec => KeepsSession`, the refinement of `DebugSession`.
  It needs `VmTypeOK` (a mode for each `control`) and `NoDuplicates`: that a removed
  address is not attached any more is true only if it was attached once.

`AluProofs` proves without assumptions, for all bytes and every flag register:

* `ArithmeticIsExact`: `SumsAndDifferences`, the law of `ADD`, `ADC`, `SUB`, `SBB`;
* `CompareOrders`: `ComparisonOrders`, the law of `CMP r` and `CPI`;
* `FlagsDescribe`: `FlagsDescribeResult`, sign, zero and parity after every
  operation, comparison, `INR` and `DCR`; `INIT_FLG_P` subtracts the halves of a byte
  from it, by Legendre's formula, `EvenParity` counts ones (`ParityOfOnes`);
* `RotationsRound`: `RotationsComeRound`. Eight `RLC` are followed bit by bit round a
  row of eight, nine `RAL` round a row of nine that has the carry in it.

`MCAluProofs` lifts the four to `AluSpec` (`SumsAndDifferencesExact`,
`ComparisonsOrder`, `FlagsDescribeAll`, `RotationsComeRoundAll`): the run `alu` tries
three flag registers, and that the other bits do not matter is proved. One lemma
says of each macro which accumulator and which carry it leaves (`AddFacts`,
`SubtractFacts`, ...), and that it leaves a flag register.

`ConsoleProofs` proves what holds of the commands as they are typed, for all words
and sources, of any length and of any characters (assumptions below). Of the
functions it is built from:

* `EveryKeywordIsFound`: `get_string_index` finds every keyword, and
  `EveryFindResembles`: what it takes for one has its length and its first and last
  letters. Keywords that agree on their first letters stand together (`Between`), in
  the order of the letter after them (`InOrder`): so a search that only goes upward,
  and gives up at a letter past its own, steps over none it looks for;
* `OnlyLowerCaseIsRead`: of a numeral of at most eight digits, `compile_hex` reads the
  number that is written if and only if it has no upper-case letter. (With more
  digits the code shifts by more places than there are.)

Of a session:

* `SourceAssembles`: `SourceSpec => Assembly!Spec`, the compiler of characters
  implements the assembler of statements, whose labels are words and whose
  statements are sequences of bytes: one lemma per form of an operand
  (`CompiledEffect`) shows that the encoder returns no other. So what is proved of
  `Assembler` holds of sources;
* `ConsoleFindsWords`: `ConsoleSpec => []WordsAreFound`, and `ConsoleCountsLines`:
  `ConsoleSpec => []LinesAreCounted`;
* `ConsoleTypeCorrect`: `ConsoleSpec => []ConsoleTypeOK`, `ConsoleTablesAgree`:
  `ConsoleSpec => []TablesAgree` and `ConsolePatchesFit`: `ConsoleSpec => []PatchesFit`;
* `ConsoleStepsLikeMachine` and `ConsoleApproaches`: what
  `ListingProofs` shows of listings alone holds among the other commands.

The loops of the search and of the scanner are recursive functions, for which
there is no induction schema. `TailRecursion` shows once that a function that calls
itself last exists if each turn makes a number smaller, and `TailEnds` that such a
loop ends in every set that its turns do not leave and its end is in; both from
the least element of a set of numbers (`LeastOf`). The rest is to name that set:
`SearchEnds` for the search, `SkipEnds` and `SkipCounts` for the blanks and comments.

The inductive invariant `ConsoleInv` is the scanner's (`ScannerInv`: its place is in
the source and its line is the count of newlines), `AssemblerInv`, the types of the
listing, and `OneCommand`: a listing runs only while the assembler is at its prompt.
That one is what the properties of listings need, because with it no step changes
the memory under a listing. Like the other invariants it was first checked on the
run.

The assumptions are those of `Assembler` and `Listing`, and four of its own, each
evaluated by TLC on the run `console`. `KeywordsAssumption`: the keywords are words of
lower-case letters in the order of a dictionary, which `instruction.h` demands;
the provers treat a literal of characters as opaque and cannot see it.
`TextsAssumption`: sources are sequences of characters. `ShiftAssumption`: `ShiftWraps` is
a truth value, so that the theorems hold of both kinds of build. `ConsoleAssumption`: an
argument that is parsed as an address is one of the (scaled) addresses, which is
true of every word when `AddrMod` is 65536.

Model-checked only:

* `ContextRestored`, which is about particular programs. What it says of one push and
  one pop is proved as `StackKeepsWords`; that the body of the subroutine gives the
  stack back is a fact about the programs;
* `HelpDescribes`, `ListsWhatWasTyped`, `LinesCanBeTyped` and `ExamplesTeach`: they take
  mnemonics, tables and lines apart into characters, which are literals to the
  provers. Of the first, the nibbles are powers of 16 that they do not compute; of
  the second, the part about numbers is `OnlyLowerCaseIsRead`;
* `RunsEnd` and `ListingsEnd`: liveness under fairness is out of the prover's reach.
  `ConsoleApproaches` is the safety part of the latter.

## 5. Not modelled

* calibration: `sleepfor` is computed from measured processor times in floating
  point, and only `nanosleep` reads it; no step of the machine depends on it;
* signal handler: it prints and ends the process with `_Exit`; nothing of the
  other parts survives it, and `printf` or `malloc` inside a handler is undefined
  in the C library, not a behaviour of this code;
* output: no state, and no property beyond its wording;
* Cell: not in the tree; an action is called when its keyword is typed, and a
  line is split at blanks;
* the built-in tests and the sample programs: they are references for the model;
* `help` shows a second row "(if taken)" for instructions of three machine cycles
  that do not branch; `set` stores what comes before the first bad byte: both are
  in the model (`Rows`, `SetCommand`), and no property is about them.

## 6. What could follow

1. Encoder and disassembler, for every byte: the bytes of a statement disassemble
   to its own mnemonic and operands. `ListsWhatWasTyped` checks it; a proof needs the
   keywords as characters.
2. The frame of the registers and flags, family by family, as `KeepsOtherCells` is
   that of the memory.
3. Properties for the hazards that have none: `set` with a bad byte in the middle,
   and `continue` after a `load` at a pause.
