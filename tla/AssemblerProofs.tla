---------------------------- MODULE AssemblerProofs ----------------------------
(***************************************************************************)
(* The tables of the assembler stay well-formed for any number of labels,  *)
(* any limits and any program: TypeOK and TablesAgree are an inductive     *)
(* invariant together.  The step of patch_labels needs both: the entry a   *)
(* pending use refers to must exist for its address to be a word.          *)
(***************************************************************************)
EXTENDS Assembler, SequenceTheorems, TLAPS

AssemblerInv == TypeOK /\ TablesAgree

-----------------------------------------------------------------------------
(* The operators.                                                           *)

\* The bytes of a word are bytes.
LEMMA BytesOfWord ==
  ASSUME NEW w \in Word PROVE Low(w) \in Byte /\ High(w) \in Byte
BY AddrModAssumption, SMT DEF Word, Low, High, Byte

\* What is written stays in the memory, however many bytes there were.
LEMMA WriteTypes ==
  ASSUME memory \in [Cells -> Byte], offset \in Word,
         NEW bytes \in Seq(Byte), Write(bytes)
  PROVE  /\ memory' \in [Cells -> Byte]
         /\ offset' \in Word
         /\ memory_full' \in BOOLEAN
<1> DEFINE room == MemSize - offset
           fits == IF Len(bytes) <= room THEN Len(bytes) ELSE room
<1>1. /\ Len(bytes) \in Nat
      /\ \A k \in 1 .. Len(bytes) : bytes[k] \in Byte
  OBVIOUS
<1>2. room \in Nat /\ fits \in Nat /\ fits <= room /\ fits <= Len(bytes)
  BY <1>1, AddrModAssumption DEF Word, MemSize
<1>3. offset \in Nat /\ offset + fits <= MemSize /\ MemSize = AddrMod - 1
  BY <1>2, AddrModAssumption DEF Word, MemSize
<1>4. /\ memory' = [c \in Cells |-> IF c \in offset .. offset + fits - 1
                                     THEN bytes[c - offset + 1] ELSE memory[c]]
      /\ offset' = offset + fits
      /\ memory_full' = (fits < Len(bytes))
  BY DEF Write
<1>5. offset' \in Word
  <2>1. offset' = offset + fits
    BY <1>4
  <2> HIDE DEF fits
  <2> QED BY <2>1, <1>2, <1>3, AddrModAssumption DEF Word
<1>6. ASSUME NEW c \in Cells, c \in offset .. offset + fits - 1
      PROVE  bytes[c - offset + 1] \in Byte
  <2>1. c - offset + 1 \in 1 .. Len(bytes)
    BY <1>2, <1>6 DEF Word, Cells
  <2> QED BY <2>1, <1>1
<1>7. memory' \in [Cells -> Byte]
  BY <1>4, <1>6
<1> QED BY <1>4, <1>5, <1>7

\* An operand is within the memory or just behind it.
LEMMA OperandOffsetType ==
  ASSUME offset \in Word PROVE OperandOffset \in Word
BY AddrModAssumption DEF OperandOffset, Word, MemSize

\* The lengths and the entries of the two tables.
LEMMA TableFacts ==
  ASSUME TablesTypeOK
  PROVE  /\ DOMAIN labelTable = 1 .. Len(labelTable) /\ Len(labelTable) \in Nat
         /\ DOMAIN pending_labels = 1 .. Len(pending_labels)
         /\ Len(pending_labels) \in Nat
         /\ \A i \in DOMAIN labelTable : labelTable[i] \in LabelEntry
         /\ \A k \in DOMAIN pending_labels : pending_labels[k] \in PendingEntry
BY LenProperties, ElementOfSeq DEF TablesTypeOK

-----------------------------------------------------------------------------
(* The initial state and the callers.                                       *)

LEMMA InitInv == ASSUME Init PROVE AssemblerInv
<1>1. TablesTypeOK
  BY EmptySeq, AssemblerAssumption DEF Init, TablesTypeOK
<1>2. CodeTypeOK
  <2>1. 0 \in Word /\ 0 \in Byte
    BY AddrModAssumption DEF Word, Byte
  <2> QED BY <2>1 DEF Init, CodeTypeOK
<1>3. ControlTypeOK
  BY DEF Init, ControlTypeOK, Statuses
<1>4. TablesAgree
  BY DEF Init, TablesAgree, LabelsUnique, UsesRefer
<1> QED BY <1>1, <1>2, <1>3, <1>4 DEF AssemblerInv, TypeOK

LEMMA TablesUnchanged ==
  ASSUME TablesTypeOK, TablesAgree, UNCHANGED tables
  PROVE  TablesTypeOK' /\ TablesAgree'
BY DEF TablesTypeOK, TablesAgree, LabelsUnique, UsesRefer, tables

LEMMA TablesReset ==
  ASSUME labelTable' = <<>>, pending_labels' = <<>>
  PROVE  TablesTypeOK' /\ TablesAgree'
<1>1. TablesTypeOK'
  BY EmptySeq, AssemblerAssumption DEF TablesTypeOK
<1>2. TablesAgree'
  BY DEF TablesAgree, LabelsUnique, UsesRefer
<1> QED BY <1>1, <1>2

LEMMA CallerSteps ==
  ASSUME AssemblerInv,
         \/ \E addr \in Origins : Load(addr) \/ Asm(addr) \/ SetPointer(addr)
         \/ Line \/ ExitAsm
  PROVE  AssemblerInv'
<1> USE DEF AssemblerInv, TypeOK
<1>1. TablesTypeOK' /\ TablesAgree'
  <2>1. CASE \E addr \in Origins : Load(addr) \/ Asm(addr)
    BY <2>1, TablesReset DEF Load, Asm, Reset
  <2>2. CASE (\E addr \in Origins : SetPointer(addr)) \/ Line \/ ExitAsm
    <3>1. UNCHANGED tables
      BY <2>2 DEF SetPointer, Line, ExitAsm
    <3> QED BY <3>1, TablesUnchanged
  <2> QED BY <2>1, <2>2
<1>2. CodeTypeOK'
  BY AssemblerAssumption
     DEF CodeTypeOK, Load, Asm, SetPointer, Line, ExitAsm, Reset, Enter
<1>3. ControlTypeOK'
  BY DEF ControlTypeOK, Statuses, Load, Asm, SetPointer, Line, ExitAsm, Enter
<1> QED BY <1>1, <1>2, <1>3

-----------------------------------------------------------------------------
(* Statements.                                                              *)

\* What a statement may store.
LEMMA StoredBytes ==
  /\ \A bytes \in Statements \cup Misspelled : bytes \in Seq(Byte)
  /\ \A code \in UsingCodes, w \in Word : <<code, Low(w), High(w)>> \in Seq(Byte)
  /\ \A code \in UsingCodes : <<code, 0, 0>> \in Seq(Byte)
<1>1. 0 \in Byte
  BY DEF Byte
<1> QED BY <1>1, AssemblerAssumption, BytesOfWord

LEMMA CodeSteps ==
  ASSUME AssemblerInv,
         \/ \E bytes \in Statements : CompileStatement(bytes)
         \/ \E bytes \in Misspelled : CompileMisspelled(bytes)
         \/ \E name \in Labels : UseOverrun(name)
         \/ \E code \in UsingCodes, name \in Labels : UseDeclared(code, name)
         \/ RefuseLabel
  PROVE  AssemblerInv'
<1> USE DEF AssemblerInv, TypeOK
<1>1. UNCHANGED tables
  BY DEF CompileStatement, CompileMisspelled, UseOverrun, UseDeclared, RefuseLabel
<1>2. CodeTypeOK'
  <2>1. CASE \E bytes \in Statements : CompileStatement(bytes)
    BY <2>1, StoredBytes, WriteTypes DEF CompileStatement, CodeTypeOK
  <2>2. CASE \E bytes \in Misspelled : CompileMisspelled(bytes)
    BY <2>2, StoredBytes, WriteTypes DEF CompileMisspelled, CodeTypeOK
  <2>3. CASE (\E name \in Labels : UseOverrun(name)) \/ RefuseLabel
    BY <2>3 DEF UseOverrun, RefuseLabel, CodeTypeOK
  <2>4. CASE \E code \in UsingCodes, name \in Labels : UseDeclared(code, name)
    <3>1. PICK code \in UsingCodes, name \in Labels : UseDeclared(code, name)
      BY <2>4
    <3>2. PICK i \in DOMAIN labelTable :
            Write(<<code, Low(labelTable[i].offset), High(labelTable[i].offset)>>)
      BY <3>1 DEF UseDeclared, Entries
    <3>3. labelTable[i].offset \in Word
      BY TableFacts DEF LabelEntry
    <3>4. memory' \in [Cells -> Byte] /\ offset' \in Word /\ memory_full' \in BOOLEAN
      BY <3>2, <3>3, StoredBytes, WriteTypes DEF CodeTypeOK
    <3> QED BY <3>1, <3>4 DEF UseDeclared, CodeTypeOK
  <2> QED BY <2>1, <2>2, <2>3, <2>4
<1>3. ControlTypeOK'
  BY DEF ControlTypeOK, Statuses, Scanning, CompileStatement, CompileMisspelled,
         UseOverrun, UseDeclared, RefuseLabel
<1> QED BY <1>1, <1>2, <1>3, TablesUnchanged

\* A label that has no entry gets one: no other entry has its name, and the
\* uses still refer to theirs.
LEMMA EntryAppended ==
  ASSUME TablesTypeOK, TablesAgree, NEW e \in LabelEntry,
         Len(labelTable) < NUM_LABELS, Entries(e.label) = {},
         labelTable' = Append(labelTable, e)
  PROVE  /\ labelTable' \in Seq(LabelEntry) /\ Len(labelTable') <= NUM_LABELS
         /\ LabelsUnique'
         /\ DOMAIN labelTable \subseteq DOMAIN labelTable'
         /\ \A i \in DOMAIN labelTable : labelTable'[i] = labelTable[i]
         /\ Len(labelTable) + 1 \in DOMAIN labelTable'
         /\ labelTable'[Len(labelTable) + 1] = e
<1>1. labelTable \in Seq(LabelEntry)
  BY DEF TablesTypeOK
<1>2. /\ labelTable' \in Seq(LabelEntry)
      /\ Len(labelTable') = Len(labelTable) + 1
      /\ \A i \in 1 .. Len(labelTable) : labelTable'[i] = labelTable[i]
      /\ labelTable'[Len(labelTable) + 1] = e
  BY <1>1, AppendProperties
<1>3. /\ DOMAIN labelTable = 1 .. Len(labelTable) /\ Len(labelTable) \in Nat
      /\ DOMAIN labelTable' = 1 .. Len(labelTable) + 1
  BY <1>1, <1>2, LenProperties
<1>4. LabelsUnique'
  <2>1. \A i, j \in DOMAIN labelTable :
          labelTable[i].label = labelTable[j].label => i = j
    BY DEF TablesAgree, LabelsUnique
  <2>2. \A i \in DOMAIN labelTable : labelTable[i].label # e.label
    BY DEF Entries
  <2>3. \A i \in DOMAIN labelTable' :
          i \in DOMAIN labelTable \/ i = Len(labelTable) + 1
    BY <1>3
  <2> QED BY <1>2, <1>3, <2>1, <2>2, <2>3 DEF LabelsUnique
<1> QED BY <1>2, <1>3, <1>4, AssemblerAssumption

LEMMA DeclareStep ==
  ASSUME AssemblerInv, NEW name \in Labels, DeclareLabel(name)
  PROVE  AssemblerInv'
<1> USE DEF AssemblerInv, TypeOK
<1>1. CodeTypeOK' /\ ControlTypeOK'
  BY DEF DeclareLabel, Scanning, CodeTypeOK, ControlTypeOK
<1>2. offset \in Word /\ UNCHANGED pending_labels
  BY DEF DeclareLabel, CodeTypeOK
<1>3. Len(labelTable) < NUM_LABELS
  BY TableFacts, AssemblerAssumption DEF DeclareLabel, TablesTypeOK
<1>4. CASE Entries(name) = {}
  <2> DEFINE e == Entry(name, offset, TRUE)
  <2>1. e \in LabelEntry /\ e.label = name
    BY <1>2 DEF Entry, LabelEntry
  <2>2. labelTable' = Append(labelTable, e)
    BY <1>4 DEF DeclareLabel
  <2> HIDE DEF e
  <2>3. /\ labelTable' \in Seq(LabelEntry) /\ Len(labelTable') <= NUM_LABELS
        /\ LabelsUnique'
        /\ DOMAIN labelTable \subseteq DOMAIN labelTable'
        /\ \A i \in DOMAIN labelTable : labelTable'[i] = labelTable[i]
    BY <1>3, <1>4, <2>1, <2>2, EntryAppended
  <2>4. TablesTypeOK'
    BY <1>2, <2>3 DEF TablesTypeOK
  <2>5. UsesRefer'
    BY <1>2, <2>3 DEF TablesAgree, UsesRefer
  <2> QED BY <1>1, <2>3, <2>4, <2>5 DEF TablesAgree
<1>5. CASE Entries(name) # {}
  <2>1. PICK i \in DOMAIN labelTable :
          labelTable' = [labelTable EXCEPT ![i].offset = offset,
                                           ![i].isDeclared = TRUE]
    BY <1>5 DEF DeclareLabel, Entries
  <2> DEFINE e == [labelTable[i] EXCEPT !.offset = offset, !.isDeclared = TRUE]
  <2>2. labelTable' = [labelTable EXCEPT ![i] = e]
    BY <2>1
  <2>3. e \in LabelEntry /\ e.label = labelTable[i].label
    BY <1>2, TableFacts DEF LabelEntry
  <2> HIDE DEF e
  <2>4. /\ labelTable' \in Seq(LabelEntry)
        /\ Len(labelTable') = Len(labelTable)
        /\ DOMAIN labelTable' = DOMAIN labelTable
        /\ \A j \in DOMAIN labelTable : labelTable'[j].label = labelTable[j].label
    BY <2>2, <2>3, TableFacts, ExceptSeq DEF TablesTypeOK
  <2>5. TablesTypeOK'
    BY <1>2, <2>4 DEF TablesTypeOK
  <2>6. TablesAgree'
    BY <1>2, <2>4 DEF TablesAgree, LabelsUnique, UsesRefer
  <2> QED BY <1>1, <2>5, <2>6
<1> QED BY <1>4, <1>5

\* A use of an entry of the table becomes pending.
LEMMA UseAppended ==
  ASSUME TablesTypeOK, TablesAgree, NEW p \in PendingEntry,
         Len(pending_labels) < NUM_PENDING_LABELS,
         pending_labels' = Append(pending_labels, p),
         DOMAIN labelTable \subseteq DOMAIN labelTable',
         \A i \in DOMAIN labelTable : labelTable'[i] = labelTable[i],
         p.idx \in DOMAIN labelTable', labelTable'[p.idx].label = p.token
  PROVE  /\ pending_labels' \in Seq(PendingEntry)
         /\ Len(pending_labels') <= NUM_PENDING_LABELS
         /\ UsesRefer'
<1>1. pending_labels \in Seq(PendingEntry)
  BY DEF TablesTypeOK
<1>2. /\ pending_labels' \in Seq(PendingEntry)
      /\ Len(pending_labels') = Len(pending_labels) + 1
      /\ \A k \in 1 .. Len(pending_labels) : pending_labels'[k] = pending_labels[k]
      /\ pending_labels'[Len(pending_labels) + 1] = p
  BY <1>1, AppendProperties
<1>3. /\ DOMAIN pending_labels = 1 .. Len(pending_labels)
      /\ Len(pending_labels) \in Nat
      /\ DOMAIN pending_labels' = 1 .. Len(pending_labels) + 1
  BY <1>1, <1>2, LenProperties
<1>4. UsesRefer'
  <2>1. \A k \in DOMAIN pending_labels :
          /\ pending_labels[k].idx \in DOMAIN labelTable
          /\ labelTable[pending_labels[k].idx].label = pending_labels[k].token
    BY DEF TablesAgree, UsesRefer
  <2>2. \A k \in DOMAIN pending_labels' :
          k \in DOMAIN pending_labels \/ k = Len(pending_labels) + 1
    BY <1>3
  <2> QED BY <1>2, <1>3, <2>1, <2>2 DEF UsesRefer
<1> QED BY <1>2, <1>3, <1>4, AssemblerAssumption

LEMMA ForwardStep ==
  ASSUME AssemblerInv, NEW code \in UsingCodes, NEW name \in Labels,
         UseForward(code, name)
  PROVE  AssemblerInv'
<1> USE DEF AssemblerInv, TypeOK
<1>1. CodeTypeOK'
  <2>1. Write(<<code, 0, 0>>)
    BY DEF UseForward
  <2>2. memory' \in [Cells -> Byte] /\ offset' \in Word /\ memory_full' \in BOOLEAN
    BY <2>1, StoredBytes, WriteTypes DEF CodeTypeOK
  <2> QED BY <2>2 DEF UseForward, CodeTypeOK
<1>2. ControlTypeOK'
  BY DEF UseForward, Scanning, ControlTypeOK
<1>3. Len(pending_labels) < NUM_PENDING_LABELS
  BY TableFacts, AssemblerAssumption DEF UseForward, Overruns
<1>4. OperandOffset \in Word
  BY OperandOffsetType DEF CodeTypeOK
<1>5. CASE Entries(name) = {}
  <2> DEFINE e == Entry(name, 0, FALSE)
             p == Pending(name, Len(labelTable) + 1)
  <2>1. e \in LabelEntry /\ e.label = name
    <3>1. 0 \in Word
      BY AddrModAssumption DEF Word
    <3> QED BY <3>1 DEF Entry, LabelEntry
  <2>2. p \in PendingEntry /\ p.token = name /\ p.idx = Len(labelTable) + 1
    BY <1>4, TableFacts DEF Pending, PendingEntry
  <2>3. labelTable' = Append(labelTable, e)
        /\ pending_labels' = Append(pending_labels, p)
    BY <1>5 DEF UseForward
  <2>4. Len(labelTable) < NUM_LABELS
    BY <1>5, TableFacts, AssemblerAssumption DEF UseForward, Overruns
  <2> HIDE DEF e, p
  <2>5. /\ labelTable' \in Seq(LabelEntry) /\ Len(labelTable') <= NUM_LABELS
        /\ LabelsUnique'
        /\ DOMAIN labelTable \subseteq DOMAIN labelTable'
        /\ \A i \in DOMAIN labelTable : labelTable'[i] = labelTable[i]
        /\ Len(labelTable) + 1 \in DOMAIN labelTable'
        /\ labelTable'[Len(labelTable) + 1] = e
    BY <1>5, <2>1, <2>3, <2>4, EntryAppended
  <2>6. /\ pending_labels' \in Seq(PendingEntry)
        /\ Len(pending_labels') <= NUM_PENDING_LABELS
        /\ UsesRefer'
    BY <1>3, <2>1, <2>2, <2>3, <2>5, UseAppended
  <2> QED BY <1>1, <1>2, <2>5, <2>6 DEF TablesTypeOK, TablesAgree
<1>6. CASE Entries(name) # {}
  <2>1. PICK i \in Entries(name) :
          pending_labels' = Append(pending_labels, Pending(name, i))
    BY <1>6 DEF UseForward
  <2> DEFINE p == Pending(name, i)
  <2>2. UNCHANGED labelTable
    BY <1>6 DEF UseForward
  <2>3. i \in DOMAIN labelTable /\ labelTable[i].label = name /\ i \in Nat
    BY TableFacts DEF Entries
  <2>4. p \in PendingEntry /\ p.token = name /\ p.idx = i
    BY <1>4, <2>3 DEF Pending, PendingEntry
  <2>5. pending_labels' = Append(pending_labels, p)
    BY <2>1
  <2> HIDE DEF p
  <2>6. /\ pending_labels' \in Seq(PendingEntry)
        /\ Len(pending_labels') <= NUM_PENDING_LABELS
        /\ UsesRefer'
    BY <1>3, <2>2, <2>3, <2>4, <2>5, UseAppended
  <2>7. TablesTypeOK' /\ LabelsUnique'
    BY <2>2, <2>6 DEF TablesTypeOK, TablesAgree, LabelsUnique
  <2> QED BY <1>1, <1>2, <2>6, <2>7 DEF TablesAgree
<1> QED BY <1>5, <1>6

-----------------------------------------------------------------------------
(* The end of compile().                                                    *)

LEMMA EndSteps ==
  ASSUME AssemblerInv, Finish \/ BeginPatching \/ FinishPatching
  PROVE  AssemblerInv'
<1> USE DEF AssemblerInv, TypeOK
<1>1. UNCHANGED tables
  BY DEF Finish, BeginPatching, FinishPatching
<1>2. CodeTypeOK'
  BY DEF CodeTypeOK, Finish, BeginPatching, FinishPatching, Return
<1>3. ControlTypeOK'
  <2>1. Outcome \in Statuses
    BY DEF Outcome, Statuses, ControlTypeOK
  <2>2. CASE Finish
    <3> HIDE DEF Outcome
    <3> QED BY <2>1, <2>2 DEF Finish, Return, ControlTypeOK
  <2>3. CASE BeginPatching
    BY <2>3, TableFacts DEF BeginPatching, tables, ControlTypeOK
  <2>4. CASE FinishPatching
    BY <2>4 DEF FinishPatching, Return, ControlTypeOK
  <2> QED BY <2>2, <2>3, <2>4
<1> QED BY <1>1, <1>2, <1>3, TablesUnchanged

\* The only step that needs the tables to agree: the address that is patched
\* in is a word because the entry the use refers to exists.
LEMMA PatchStep ==
  ASSUME AssemblerInv, PatchNext
  PROVE  AssemblerInv'
<1> USE DEF AssemblerInv, TypeOK
<1> DEFINE k == patched + 1
           p == pending_labels[k]
           l == labelTable[p.idx]
<1>1. /\ k \in DOMAIN pending_labels /\ k \in 1 .. Len(pending_labels)
      /\ p \in PendingEntry
  BY TableFacts DEF PatchNext, ControlTypeOK
<1>2. p.idx \in DOMAIN labelTable /\ l \in LabelEntry
  BY <1>1, TableFacts DEF TablesAgree, UsesRefer
<1>3. CASE l.isDeclared
  <2>1. /\ memory' = [memory EXCEPT ![p.offset] = Low(l.offset),
                                    ![p.offset + 1] = High(l.offset)]
        /\ UNCHANGED <<tables, lastStatus>>
    BY <1>3 DEF PatchNext, tables
  <2>2. Low(l.offset) \in Byte /\ High(l.offset) \in Byte
    BY <1>2, BytesOfWord DEF LabelEntry
  <2>3. memory' \in [Cells -> Byte]
    <3> HIDE DEF p, l
    <3> QED BY <2>1, <2>2 DEF CodeTypeOK
  <2>4. CodeTypeOK'
    BY <2>3 DEF CodeTypeOK, PatchNext
  <2>5. ControlTypeOK'
    BY <1>1, <2>1 DEF ControlTypeOK, PatchNext, tables
  <2> QED BY <2>1, <2>4, <2>5, TablesUnchanged
<1>4. CASE ~l.isDeclared
  <2>1. /\ pending_labels' = [pending_labels EXCEPT ![k].decl_shown = TRUE]
        /\ UNCHANGED <<labelTable, memory>>
        /\ lastStatus' \in {lastStatus, "LABELS_PENDING"}
    BY <1>4 DEF PatchNext
  <2> DEFINE q == [p EXCEPT !.decl_shown = TRUE]
  <2>2. pending_labels' = [pending_labels EXCEPT ![k] = q]
    BY <2>1
  <2>3. q \in PendingEntry /\ q.idx = p.idx /\ q.token = p.token
    BY <1>1 DEF PendingEntry
  <2> HIDE DEF q
  <2>4. /\ pending_labels' \in Seq(PendingEntry)
        /\ Len(pending_labels') = Len(pending_labels)
        /\ DOMAIN pending_labels' = DOMAIN pending_labels
        /\ \A j \in DOMAIN pending_labels :
             /\ pending_labels'[j].idx = pending_labels[j].idx
             /\ pending_labels'[j].token = pending_labels[j].token
    BY <1>1, <2>2, <2>3, TableFacts, ExceptSeq DEF TablesTypeOK
  <2>5. TablesTypeOK' /\ TablesAgree'
    BY <2>1, <2>4 DEF TablesTypeOK, TablesAgree, LabelsUnique, UsesRefer
  <2>6. CodeTypeOK'
    BY <2>1 DEF CodeTypeOK, PatchNext
  <2>7. ControlTypeOK'
    BY <1>1, <2>1, <2>4 DEF ControlTypeOK, PatchNext, Statuses
  <2> QED BY <2>5, <2>6, <2>7
<1> QED BY <1>3, <1>4

-----------------------------------------------------------------------------

LEMMA AssemblerInvInductive ==
  ASSUME AssemblerInv, [Next]_compilerVars PROVE AssemblerInv'
<1>1. CASE \/ \E addr \in Origins : Load(addr) \/ Asm(addr) \/ SetPointer(addr)
           \/ Line \/ ExitAsm
  BY <1>1, CallerSteps
<1>2. CASE Compile
  BY <1>2, CodeSteps, DeclareStep, ForwardStep DEF Compile
<1>3. CASE Finish \/ BeginPatching \/ PatchNext \/ FinishPatching
  BY <1>3, EndSteps, PatchStep
<1>4. CASE UNCHANGED compilerVars
  <2>1. UNCHANGED tables
    BY <1>4 DEF compilerVars
  <2>2. CodeTypeOK' /\ ControlTypeOK'
    BY <1>4 DEF compilerVars, tables, AssemblerInv, TypeOK, CodeTypeOK, ControlTypeOK
  <2> QED BY <2>1, <2>2, TablesUnchanged DEF AssemblerInv, TypeOK
<1> QED BY <1>1, <1>2, <1>3, <1>4 DEF Next

LEMMA AssemblerInvHolds == Spec => []AssemblerInv
BY InitInv, AssemblerInvInductive, PTL DEF Spec

(***************************************************************************)
(* Whatever is loaded or typed into the inline shell, the label and        *)
(* pending tables of compiler.c never grow past their limits, every byte   *)
(* stored is a byte of the memory and every status is one of               *)
(* CompilationStatus, for every size of the tables and of the memory.      *)
(***************************************************************************)
THEOREM AssemblerTypeCorrect == Spec => []TypeOK
BY AssemblerInvHolds, PTL DEF AssemblerInv

(***************************************************************************)
(* No label of compiler.c ever gets two entries, and each pending use      *)
(* always refers to the entry of its own label: declaring a label once     *)
(* resolves all its uses, across files and lines of the inline shell.      *)
(***************************************************************************)
THEOREM AssemblerTablesAgree == Spec => []TablesAgree
BY AssemblerInvHolds, PTL DEF AssemblerInv

-----------------------------------------------------------------------------
(* What is patched.                                                         *)

Fits(p) == p.offset + 1 \in Cells

\* Unless the memory is full, every pending use has its operand in it.
UsesFit == ~memory_full => \A k \in DOMAIN pending_labels : Fits(pending_labels[k])

\* Nothing is patched after a byte that did not fit.
PatchesOnlyWhatFitted == phase = "patching" => ~memory_full

FitInv == UsesFit /\ PatchesOnlyWhatFitted

\* The operand of a use that has fitted.
LEMMA OperandFits ==
  ASSUME offset \in Word, NEW code, NEW name, NEW i,
         Write(<<code, 0, 0>>), ~memory_full'
  PROVE  Fits(Pending(name, i))
<1>1. offset \in Nat /\ offset <= MemSize /\ MemSize \in Nat /\ MemSize = AddrMod - 1
  BY AddrModAssumption DEF Word, MemSize
<1>2. Len(<<code, 0, 0>>) = 3
  OBVIOUS
<1> DEFINE bytes == <<code, 0, 0>>
           room == MemSize - offset
           fits == IF Len(bytes) <= room THEN Len(bytes) ELSE room
<1>3. ~(fits < Len(bytes))
  BY DEF Write
<1>4. ~(MemSize - offset < 3)
  <2> HIDE DEF bytes
  <2> QED BY <1>1, <1>2, <1>3 DEF bytes
<1>5. OperandOffset = offset + 1
  BY <1>1, <1>4 DEF OperandOffset
<1> QED BY <1>1, <1>4, <1>5 DEF Fits, Pending, Cells

\* Most steps leave the pending uses as they are.
LEMMA UsesFitKept ==
  ASSUME UsesFit, memory_full => memory_full',
         UNCHANGED pending_labels
  PROVE  UsesFit'
BY DEF UsesFit, Fits

\* A use becomes pending.
LEMMA ForwardFits ==
  ASSUME AssemblerInv, UsesFit, NEW code \in UsingCodes, NEW name \in Labels,
         UseForward(code, name)
  PROVE  UsesFit'
<1>1. ~memory_full
  BY DEF UseForward, Scanning
<1>2. pending_labels \in Seq(PendingEntry) /\ offset \in Word
  BY DEF AssemblerInv, TypeOK, TablesTypeOK, CodeTypeOK
<1>3. PICK i \in Nat : pending_labels' = Append(pending_labels, Pending(name, i))
  <2>1. CASE Entries(name) = {}
    <3>1. Len(labelTable) + 1 \in Nat
      BY TableFacts DEF AssemblerInv, TypeOK
    <3>2. pending_labels' = Append(pending_labels, Pending(name, Len(labelTable) + 1))
      BY <2>1 DEF UseForward
    <3> QED BY <3>1, <3>2
  <2>2. CASE Entries(name) # {}
    <3>1. Entries(name) \subseteq Nat
      BY TableFacts DEF Entries, AssemblerInv, TypeOK
    <3> QED BY <2>2, <3>1 DEF UseForward
  <2> QED BY <2>1, <2>2
<1>4. OperandOffset \in Word
  BY <1>2, OperandOffsetType
<1> DEFINE p == Pending(name, i)
<1>5. p \in PendingEntry
  BY <1>4 DEF Pending, PendingEntry
<1>6. ~memory_full' => Fits(p)
  BY <1>2, OperandFits DEF UseForward
<1>7. pending_labels' = Append(pending_labels, p)
  BY <1>3
<1> HIDE DEF p
<1>8. \A k \in DOMAIN pending_labels' :
        \/ pending_labels'[k] = p
        \/ k \in DOMAIN pending_labels /\ pending_labels'[k] = pending_labels[k]
  BY <1>2, <1>5, <1>7, AppendProperties, LenProperties
<1> QED BY <1>1, <1>6, <1>8 DEF UsesFit, Fits

\* patch_labels marks a use as shown.
LEMMA PatchFits ==
  ASSUME AssemblerInv, UsesFit, PatchNext
  PROVE  UsesFit'
<1> DEFINE k == patched + 1
           q == [pending_labels[k] EXCEPT !.decl_shown = TRUE]
<1>1. UNCHANGED memory_full
  BY DEF PatchNext
<1>2. \/ UNCHANGED pending_labels
      \/ pending_labels' = [pending_labels EXCEPT ![k] = q]
  BY DEF PatchNext
<1>3. k \in DOMAIN pending_labels /\ pending_labels[k] \in PendingEntry
  BY TableFacts DEF PatchNext, AssemblerInv, TypeOK, ControlTypeOK
<1>4. q.offset = pending_labels[k].offset
  BY <1>3 DEF PendingEntry
<1> HIDE DEF q, k
<1>5. ASSUME NEW j \in DOMAIN pending_labels'
      PROVE  /\ j \in DOMAIN pending_labels
             /\ pending_labels'[j].offset = pending_labels[j].offset
  BY <1>2, <1>3, <1>4
<1> QED BY <1>1, <1>5 DEF UsesFit, Fits

LEMMA FitInvInductive ==
  ASSUME AssemblerInv, FitInv, [Next]_compilerVars
  PROVE  FitInv'
<1> USE DEF FitInv
<1>1. CASE \E addr \in Origins : Load(addr) \/ Asm(addr)
  <2>1. pending_labels' = <<>>
    BY <1>1 DEF Load, Asm, Reset
  <2>2. UsesFit'
    BY <2>1 DEF UsesFit
  <2> QED BY <1>1, <2>2 DEF Load, Asm, Enter, PatchesOnlyWhatFitted
<1>2. CASE (\E addr \in Origins : SetPointer(addr)) \/ Line \/ ExitAsm
  <2>1. UNCHANGED <<pending_labels, memory_full>> /\ phase' # "patching"
    BY <1>2 DEF SetPointer, Line, ExitAsm, Enter, tables
  <2> QED BY <2>1, UsesFitKept DEF PatchesOnlyWhatFitted
<1>3. CASE Compile
  <2>1. ~memory_full /\ phase' # "patching"
    BY <1>3 DEF Compile, Scanning, CompileStatement, CompileMisspelled, RefuseLabel,
                DeclareLabel, UseOverrun, UseDeclared, UseForward
  <2>2. CASE \E code \in UsingCodes, name \in Labels : UseForward(code, name)
    BY <2>1, <2>2, ForwardFits DEF PatchesOnlyWhatFitted
  <2>3. CASE ~\E code \in UsingCodes, name \in Labels : UseForward(code, name)
    <3>1. UNCHANGED pending_labels
      BY <1>3, <2>3 DEF Compile, CompileStatement, CompileMisspelled, RefuseLabel,
                        DeclareLabel, UseOverrun, UseDeclared, tables
    <3> QED BY <2>1, <3>1, UsesFitKept DEF PatchesOnlyWhatFitted
  <2> QED BY <2>2, <2>3
<1>4. CASE Finish \/ FinishPatching
  <2>1. UNCHANGED <<pending_labels, memory_full>> /\ phase' # "patching"
    BY <1>4 DEF Finish, FinishPatching, Return, tables
  <2> QED BY <2>1, UsesFitKept DEF PatchesOnlyWhatFitted
<1>5. CASE BeginPatching
  <2>1. UNCHANGED <<pending_labels, memory_full>> /\ ~memory_full
    BY <1>5 DEF BeginPatching, Outcome, Scanning, tables
  <2> QED BY <2>1, UsesFitKept DEF PatchesOnlyWhatFitted
<1>6. CASE PatchNext
  BY <1>6, PatchFits DEF PatchNext, PatchesOnlyWhatFitted
<1>7. CASE UNCHANGED compilerVars
  <2>1. UNCHANGED <<pending_labels, memory_full, phase>>
    BY <1>7 DEF compilerVars, tables
  <2> QED BY <2>1, UsesFitKept DEF PatchesOnlyWhatFitted
<1> QED BY <1>1, <1>2, <1>3, <1>4, <1>5, <1>6, <1>7 DEF Next

LEMMA FitInvInit == ASSUME Init PROVE FitInv
BY DEF Init, FitInv, UsesFit, PatchesOnlyWhatFitted

LEMMA FitInvImplies == ASSUME FitInv PROVE PatchesFit
BY DEF FitInv, UsesFit, PatchesOnlyWhatFitted, PatchesFit, Fits

(***************************************************************************)
(* patch_labels, which looks at no limit, writes within the memory: a line *)
(* that was cut short leaves its use pending, but also memory_full, and    *)
(* only compiler_reset forgets either.                                     *)
(***************************************************************************)
THEOREM AssemblerPatchesFit == Spec => []PatchesFit
BY FitInvInit, FitInvInductive, FitInvImplies, AssemblerInvHolds, PTL DEF Spec
===============================================================================
