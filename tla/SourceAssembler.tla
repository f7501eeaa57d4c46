------------------------------ MODULE SourceAssembler ------------------------------
(***************************************************************************)
(* The assembler with its scanner: compile() over the characters of a      *)
(* source.  Each turn of its loop takes the statement that begins where    *)
(* the scanner is; what the statement does is an action of Assembler.      *)
(***************************************************************************)
EXTENDS Assembler, Encoder

CONSTANT Texts   (* the files, and the lines of the inline shell *)

ASSUME TextsAssumption == Texts \subseteq Seq(STRING)

VARIABLES source,   (* what is compiled                              *)
          current,  (* where the scanner is                          *)
          line      (* the line it has counted                       *)

scannerVars == <<source, current, line>>

ScannerInit == source = <<>> /\ current = 1 /\ line = 1

\* initScanner.
initScanner(text) == source' = text /\ current' = 1 /\ line' = 1

LoadSource(text, addr) == Load(addr) /\ initScanner(text)

\* A line of the inline shell.  Cell finds an instruction or 'label' at its
\* beginning, and parse_action ends each word with a blank; what follows
\* 'label' may be any word.
CompileLine(text) == Line /\ initScanner(Append(text, Space))

NextStatement == Statement(source, current, line)

CompileTaken(s) ==
  /\ \/ s.kind = "stores" /\ CompileStatement(s.bytes)
     \/ s.kind = "fails" /\ CompileMisspelled(s.bytes)
     \/ s.kind = "declares" /\ (DeclareLabel(s.label) \/ RefuseLabel)
     \/ /\ s.kind = "uses"
        /\ \/ UseDeclared(s.bytes[1], s.label)
           \/ UseForward(s.bytes[1], s.label)
           \/ UseOverrun(s.label)
  /\ current' = s.current
  /\ line' = s.line
  /\ UNCHANGED source

\* One turn of the loop, with the tokens of one statement.
CompileNext == CompileTaken(NextStatement)

\* The loop ends: at the end of the source, at an error, or when memory is full.
LoopEnds == ~Scanning \/ NextStatement.kind = "ends"

EndOfSource == LoopEnds /\ (Finish \/ BeginPatching) /\ UNCHANGED scannerVars

Patching == (PatchNext \/ FinishPatching) /\ UNCHANGED scannerVars

CompileTurn == CompileNext \/ EndOfSource \/ Patching

SourceNext ==
  \/ \E text \in Texts : CompileLine(text) \/ \E addr \in Origins : LoadSource(text, addr)
  \/ /\ ExitAsm \/ \E addr \in Origins : Asm(addr) \/ SetPointer(addr)
     /\ UNCHANGED scannerVars
  \/ CompileTurn

SourceSpec ==
  Init /\ ScannerInit /\ [][SourceNext]_<<compilerVars, scannerVars>>
====================================================================================
