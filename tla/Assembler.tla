-------------------------------- MODULE Assembler --------------------------------
(***************************************************************************)
(* The assembler: compile() of src/compiler.c with its two callers, the    *)
(* 'load' command (src/main.c), which compiles a file, and the inline      *)
(* shell 'asm' (src/asm.c), which compiles a line at a time into the same  *)
(* tables.  One action compiles one statement, one action is one turn of   *)
(* the loop of patch_labels.  The scanner and the encoding of operands are *)
(* abstracted: a statement is the bytes it has, and the label it declares  *)
(* or uses.                                                                *)
(***************************************************************************)
EXTENDS Memory, Sequences

CONSTANTS
  Labels,       (* the names a program may give to addresses                 *)
  NUM_LABELS,   (* cells of labelTable and of pending_labels: 32 each        *)
  NUM_PENDING_LABELS,
  Statements,   (* bytes of the statements that use no label                 *)
  UsingCodes,   (* opcodes of the statements whose operand is a label        *)
  Misspelled,   (* bytes a statement stores before its syntax error is found *)
  Origins       (* the addresses the user types after load, asm and set      *)

ASSUME AssemblerAssumption ==
  /\ NUM_LABELS \in Nat /\ NUM_PENDING_LABELS \in Nat
  /\ Statements \subseteq Seq(Byte) \ {<<>>}
  /\ UsingCodes \subseteq Byte
  /\ Misspelled \subseteq Seq(Byte)
  /\ Origins \subseteq Word

VARIABLES
  labelTable,      (* its first labelPointer entries                         *)
  pending_labels,  (* its first pendingPointer entries                       *)
  offset,          (* the caller's pointer, where the next byte goes         *)
  memory_full,     (* a byte did not fit                                     *)
  has_halt,        (* a hlt was compiled since compiler_reset                *)
  offbak,          (* offset when compile() was called                       *)
  lastStatus,      (* the status compile() has come to                       *)
  patched,         (* how many pending labels patch_labels has gone over     *)
  caller,          (* "none", "load" or "asm"                                *)
  phase            (* "prompt", "scanning", "patching", or "undefined" after a
                      write past the end of a table                          *)

tables == <<labelTable, pending_labels>>
compilerVars == <<tables, memory, offset, memory_full, has_halt, offbak,
                  lastStatus, patched, caller, phase>>

HltCode == \h76

Statuses == {"PARSE_ERROR", "MEMORY_FULL", "LABEL_FULL", "LABELS_PENDING",
             "EMPTY_PROGRAM", "NO_HLT", "COMPILE_OK"}

Init ==
  /\ labelTable = <<>> /\ pending_labels = <<>>
  /\ memory = [c \in Cells |-> 0]
  /\ offset = 0 /\ offbak = 0
  /\ memory_full = FALSE /\ has_halt = FALSE
  /\ lastStatus = "COMPILE_OK"
  /\ patched = 0
  /\ caller = "none" /\ phase = "prompt"

-----------------------------------------------------------------------------
(* The callers.                                                             *)

\* Mutant of Reset: a hlt of the program before still counts.
ResetKeepingHalt ==
  /\ labelTable' = <<>> /\ pending_labels' = <<>>
  /\ memory_full' = FALSE
  /\ UNCHANGED has_halt

\* compiler_reset.
Reset ==
  /\ labelTable' = <<>> /\ pending_labels' = <<>>
  /\ memory_full' = FALSE /\ has_halt' = FALSE

\* The entry of compile().
Enter(at) ==
  /\ offset' = at /\ offbak' = at
  /\ lastStatus' = "COMPILE_OK"
  /\ phase' = "scanning"

Load(addr) ==
  /\ phase = "prompt" /\ caller = "none"
  /\ Reset
  /\ Enter(addr)
  /\ caller' = "load"
  /\ UNCHANGED <<memory, patched>>

Asm(addr) ==
  /\ phase = "prompt" /\ caller = "none"
  /\ Reset
  /\ offset' = addr
  /\ caller' = "asm"
  /\ UNCHANGED <<memory, offbak, lastStatus, patched, phase>>

Line ==
  /\ phase = "prompt" /\ caller = "asm"
  /\ Enter(offset)
  /\ UNCHANGED <<tables, memory, memory_full, has_halt, patched, caller>>

\* 'set' of the inline shell.
SetPointer(addr) ==
  /\ phase = "prompt" /\ caller = "asm"
  /\ offset' = addr
  /\ UNCHANGED <<tables, memory, memory_full, has_halt, offbak, lastStatus,
                 patched, caller, phase>>

\* 'exit' of the inline shell, whose report changes nothing.
ExitAsm ==
  /\ phase = "prompt" /\ caller = "asm"
  /\ caller' = "none"
  /\ UNCHANGED <<tables, memory, offset, memory_full, has_halt, offbak,
                 lastStatus, patched, phase>>

-----------------------------------------------------------------------------
(* Statements.                                                              *)

Scanning == phase = "scanning" /\ lastStatus = "COMPILE_OK" /\ ~memory_full

\* Mutant of Write: the size of the memory is not looked at.
WriteUnlimited(bytes) ==
  /\ memory' = [c \in Cells |-> IF c \in offset .. offset + Len(bytes) - 1
                                  THEN bytes[c - offset + 1] ELSE memory[c]]
  /\ offset' = offset + Len(bytes)
  /\ UNCHANGED memory_full

\* compiler_write_byte, for each byte in turn: what does not fit is dropped.
Write(bytes) ==
  LET room == MemSize - offset
      fits == IF Len(bytes) <= room THEN Len(bytes) ELSE room
  IN /\ memory' = [c \in Cells |-> IF c \in offset .. offset + fits - 1
                                     THEN bytes[c - offset + 1] ELSE memory[c]]
     /\ offset' = offset + fits
     /\ memory_full' = (fits < Len(bytes))

\* The entry of a label, of which the loops of the compiler take the first.
Entries(name) == {i \in DOMAIN labelTable : labelTable[i].label = name}
IsFirst(i, name) == i \in Entries(name) /\ \A j \in Entries(name) : i <= j

Entry(name, at, declared) ==
  [label |-> name, offset |-> at, isDeclared |-> declared]

CompileStatement(bytes) ==
  /\ Scanning
  /\ Write(bytes)
  /\ has_halt' = (has_halt \/ bytes[1] = HltCode)
  /\ UNCHANGED <<tables, offbak, lastStatus, patched, caller, phase>>

CompileMisspelled(bytes) ==
  /\ Scanning
  /\ Write(bytes)
  /\ lastStatus' = "PARSE_ERROR"
  /\ UNCHANGED <<tables, has_halt, offbak, patched, caller, phase>>

\* The table is tested before it is searched: when it is full, a label that
\* is already in it is refused as well.
RefuseLabel ==
  /\ Scanning
  /\ Len(labelTable) = NUM_LABELS
  /\ lastStatus' = "LABEL_FULL"
  /\ UNCHANGED <<tables, memory, offset, memory_full, has_halt, offbak, patched,
                 caller, phase>>

\* Mutant of DeclareLabel: the table is not searched for an earlier use.
DeclareAgain(name) ==
  /\ Scanning
  /\ Len(labelTable) # NUM_LABELS
  /\ labelTable' = Append(labelTable, Entry(name, offset, TRUE))
  /\ UNCHANGED <<pending_labels, memory, offset, memory_full, has_halt, offbak,
                 lastStatus, patched, caller, phase>>

DeclareLabel(name) ==
  /\ Scanning
  /\ Len(labelTable) # NUM_LABELS
  /\ IF Entries(name) = {}
       THEN labelTable' = Append(labelTable, Entry(name, offset, TRUE))
       ELSE \E i \in Entries(name) :
              /\ IsFirst(i, name)
              /\ labelTable' = [labelTable EXCEPT ![i].offset = offset,
                                                  ![i].isDeclared = TRUE]
  /\ UNCHANGED <<pending_labels, memory, offset, memory_full, has_halt, offbak,
                 lastStatus, patched, caller, phase>>

\* The label is declared: its address is stored at once.
UseDeclared(code, name) ==
  /\ Scanning
  /\ \E i \in Entries(name) :
       /\ IsFirst(i, name)
       /\ labelTable[i].isDeclared
       /\ Write(<<code, Low(labelTable[i].offset), High(labelTable[i].offset)>>)
  /\ UNCHANGED <<tables, has_halt, offbak, lastStatus, patched, caller, phase>>

\* Mutant of OperandOffset: the opcode is forgotten.
OpcodeOffset == offset

\* The offset of the operand, after an opcode that may not have fitted.
OperandOffset == IF offset < MemSize THEN offset + 1 ELSE offset

Pending(name, i) ==
  [token |-> name, idx |-> i, offset |-> OperandOffset, decl_shown |-> FALSE]

Undeclared(name) ==
  \A i \in Entries(name) : IsFirst(i, name) => ~labelTable[i].isDeclared

\* Whether one of the tables has no cell left for the use of the label.
Overruns(name) ==
  \/ Entries(name) = {} /\ Len(labelTable) >= NUM_LABELS
  \/ Len(pending_labels) >= NUM_PENDING_LABELS

UseForward(code, name) ==
  /\ Scanning
  /\ Undeclared(name)
  /\ ~Overruns(name)
  /\ IF Entries(name) = {}
       THEN /\ labelTable' = Append(labelTable, Entry(name, 0, FALSE))
            /\ pending_labels' =
                 Append(pending_labels, Pending(name, Len(labelTable) + 1))
       ELSE /\ \E i \in Entries(name) :
                 /\ IsFirst(i, name)
                 /\ pending_labels' = Append(pending_labels, Pending(name, i))
            /\ UNCHANGED labelTable
  /\ Write(<<code, 0, 0>>)
  /\ UNCHANGED <<has_halt, offbak, lastStatus, patched, caller, phase>>

\* Neither table is checked here: what lies behind it is overwritten.
UseOverrun(name) ==
  /\ Scanning
  /\ Undeclared(name)
  /\ Overruns(name)
  /\ phase' = "undefined"
  /\ UNCHANGED <<tables, memory, offset, memory_full, has_halt, offbak,
                 lastStatus, patched, caller>>

-----------------------------------------------------------------------------
(* The end of compile().                                                    *)

\* Mutant of Outcome: that the memory is full is not looked at.
OutcomeOfRoom ==
  CASE lastStatus # "COMPILE_OK" -> lastStatus
    [] lastStatus = "COMPILE_OK" /\ offset = offbak -> "EMPTY_PROGRAM"
    [] lastStatus = "COMPILE_OK" /\ offset # offbak /\ ~has_halt -> "NO_HLT"
    [] OTHER -> "COMPILE_OK"

Outcome ==
  CASE lastStatus # "COMPILE_OK" -> lastStatus
    [] lastStatus = "COMPILE_OK" /\ memory_full -> "MEMORY_FULL"
    [] Scanning /\ offset = offbak -> "EMPTY_PROGRAM"
    [] Scanning /\ offset # offbak /\ ~has_halt -> "NO_HLT"
    [] OTHER -> "COMPILE_OK"

Aborting == {"PARSE_ERROR", "LABEL_FULL", "MEMORY_FULL", "EMPTY_PROGRAM"}

\* compile() returns: the inline shell takes its pointer back from a failure.
Return(status) ==
  /\ lastStatus' = status
  /\ phase' = "prompt"
  /\ IF caller = "load"
       THEN caller' = "none" /\ UNCHANGED offset
       ELSE /\ offset' = IF status \in Aborting THEN offbak ELSE offset
            /\ UNCHANGED caller

\* Nothing is patched unless all is well.
Finish ==
  /\ phase = "scanning"
  /\ Outcome # "COMPILE_OK"
  /\ Return(Outcome)
  /\ UNCHANGED <<tables, memory, memory_full, has_halt, offbak, patched>>

BeginPatching ==
  /\ phase = "scanning"
  /\ Outcome = "COMPILE_OK"
  /\ phase' = "patching"
  /\ patched' = 0
  /\ UNCHANGED <<tables, memory, offset, memory_full, has_halt, offbak,
                 lastStatus, caller>>

\* Every pending label since compiler_reset, patched before or not.
PatchNext ==
  /\ phase = "patching"
  /\ patched < Len(pending_labels)
  /\ LET p == pending_labels[patched + 1]
         l == labelTable[p.idx]
     IN IF l.isDeclared
          THEN /\ memory' = [memory EXCEPT ![p.offset] = Low(l.offset),
                                           ![p.offset + 1] = High(l.offset)]
               /\ UNCHANGED <<pending_labels, lastStatus>>
          ELSE /\ pending_labels' =
                    [pending_labels EXCEPT ![patched + 1].decl_shown = TRUE]
               /\ lastStatus' = IF p.decl_shown THEN lastStatus
                                                ELSE "LABELS_PENDING"
               /\ UNCHANGED memory
  /\ patched' = patched + 1
  /\ UNCHANGED <<labelTable, offset, memory_full, has_halt, offbak, caller, phase>>

FinishPatching ==
  /\ phase = "patching"
  /\ patched = Len(pending_labels)
  /\ Return(lastStatus)
  /\ UNCHANGED <<tables, memory, memory_full, has_halt, offbak, patched>>

-----------------------------------------------------------------------------

Compile ==
  \/ \E bytes \in Statements : CompileStatement(bytes)
  \/ \E bytes \in Misspelled : CompileMisspelled(bytes)
  \/ \E name \in Labels : DeclareLabel(name) \/ UseOverrun(name)
  \/ \E code \in UsingCodes, name \in Labels :
       UseDeclared(code, name) \/ UseForward(code, name)
  \/ RefuseLabel

Next ==
  \/ \E addr \in Origins : Load(addr) \/ Asm(addr) \/ SetPointer(addr)
  \/ Line \/ ExitAsm
  \/ Compile
  \/ Finish \/ BeginPatching \/ PatchNext \/ FinishPatching

Spec == Init /\ [][Next]_compilerVars

-----------------------------------------------------------------------------

LabelEntry == [label : Labels, offset : Word, isDeclared : BOOLEAN]
PendingEntry == [token : Labels, idx : Nat, offset : Word, decl_shown : BOOLEAN]

TablesTypeOK ==
  /\ labelTable \in Seq(LabelEntry) /\ Len(labelTable) <= NUM_LABELS
  /\ pending_labels \in Seq(PendingEntry)
  /\ Len(pending_labels) <= NUM_PENDING_LABELS

CodeTypeOK ==
  /\ memory \in [Cells -> Byte]
  /\ offset \in Word /\ offbak \in Word
  /\ memory_full \in BOOLEAN /\ has_halt \in BOOLEAN

ControlTypeOK ==
  /\ lastStatus \in Statuses
  /\ patched \in Nat
  /\ phase = "patching" => patched <= Len(pending_labels)
  /\ caller \in {"none", "load", "asm"}
  /\ phase \in {"prompt", "scanning", "patching", "undefined"}

TypeOK == TablesTypeOK /\ CodeTypeOK /\ ControlTypeOK

LabelsUnique ==
  \A i, j \in DOMAIN labelTable :
    labelTable[i].label = labelTable[j].label => i = j

UsesRefer ==
  \A k \in DOMAIN pending_labels :
    /\ pending_labels[k].idx \in DOMAIN labelTable
    /\ labelTable[pending_labels[k].idx].label = pending_labels[k].token

(***************************************************************************)
(* The two tables agree: no label has two entries, so that declaring one   *)
(* declares it for every use, and each pending use refers by its index to  *)
(* the entry of the very label it uses.                                    *)
(***************************************************************************)
TablesAgree == LabelsUnique /\ UsesRefer

(***************************************************************************)
(* Every use that patch_labels goes over has both bytes of its operand in  *)
(* the memory.  It never looks: a use that did not fit stays pending after *)
(* its line has failed, and it is memory_full, which outlives that line    *)
(* and a 'set' behind it, that keeps compile() from patching.              *)
(***************************************************************************)
PatchesFit ==
  phase = "patching" =>
    \A k \in DOMAIN pending_labels : pending_labels[k].offset + 1 \in Cells
================================================================================
