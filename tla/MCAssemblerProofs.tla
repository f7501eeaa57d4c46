--------------------------- MODULE MCAssemblerProofs ---------------------------
(***************************************************************************)
(* A correct one-pass assembler, for every program, every inline session   *)
(* and every size of the memory and of the tables: the inductive invariant *)
(* that relates the text written so far to the two tables, to the bytes    *)
(* stored and to the operands still to be patched.                         *)
(***************************************************************************)
EXTENDS MCAssembler, AssemblerProofs, WellFoundedInduction

-----------------------------------------------------------------------------
(* The invariant.                                                           *)

Item == [kind : {"code", "declares", "uses"}, bytes : Seq(Byte),
         label : Labels \cup {"none"}, at : Word]

HistoryTypeOK ==
  /\ text \in Seq(Item)
  /\ \A i \in DOMAIN text : text[i].kind = "uses" => Len(text[i].bytes) = 1
  /\ lineStart \in 0 .. Len(text)
  /\ base \in Word /\ clean \in BOOLEAN

\* Who runs compile(), and what its status can be meanwhile.
CallsAgree ==
  /\ phase \in {"scanning", "patching"} => caller = by /\ by \in {"load", "asm"}
  /\ phase = "prompt" => caller = "none" \/ (caller = "asm" /\ by = "asm")
  /\ by = "load" => lineStart = 0 /\ offbak = base /\ clean
  /\ phase = "scanning" => lastStatus \in {"COMPILE_OK", "PARSE_ERROR", "LABEL_FULL"}
  /\ phase = "patching" => lastStatus \in {"COMPILE_OK", "LABELS_PENDING"}
  /\ Compiled \/ phase = "patching" => ~memory_full

\* The last thing written is a declaration that was refused.
Refused == lastStatus = "LABEL_FULL" /\ (phase = "scanning" \/ by = "load")

RefusedInLine ==
  Refused /\ by = "asm" /\ phase = "scanning" =>
    \E i \in lineStart + 1 .. Len(text) : text[i].kind # "code"

\* Nothing has gone wrong with the text as a whole.
Whole == clean /\ ~memory_full /\ ~Refused /\ phase # "undefined"

\* Where a statement is, and where the next one will be.
At(i) == IF i \in DOMAIN text THEN text[i].at ELSE offset

\* The statements lie one behind the other, from base to offset.
Laid ==
  /\ At(1) = base
  /\ \A i \in DOMAIN text : At(i + 1) = At(i) + Size(text[i]) /\ base <= At(i)
  /\ \A i \in DOMAIN text : \A j \in 1 .. Len(text) + 1 :
       i < j => At(i) + Size(text[i]) <= At(j)
  /\ by = "asm" /\ phase \in {"scanning", "patching"} => offbak = At(lineStart + 1)

IsLast(d, s) == d \in s /\ \A e \in s : e <= d

\* The label table knows the last declaration of each label.
Tabled ==
  /\ \A n \in DOMAIN labelTable :
       IF labelTable[n].isDeclared
         THEN \E d \in DOMAIN text :
                /\ IsLast(d, Declarations(labelTable[n].label))
                /\ labelTable[n].offset = text[d].at
         ELSE Declarations(labelTable[n].label) = {}
  /\ \A i \in DOMAIN text :
       text[i].kind = "declares" => Entries(text[i].label) # {}

Above(i) == {d \in Declarations(text[i].label) : d < i}

HoldsWord(at, w) == memory[at] = Low(w) /\ memory[at + 1] = High(w)

\* The use at i waits for its label in the k-th cell of pending_labels.
Waits(k, i) ==
  /\ text[i].kind = "uses" /\ Above(i) = {}
  /\ pending_labels[k].token = text[i].label
  /\ pending_labels[k].offset = At(i) + 1

\* What is stored for the statement at i.
HeldAt(i) ==
  /\ \A b \in DOMAIN text[i].bytes : memory[At(i) + b - 1] = text[i].bytes[b]
  /\ text[i].kind = "uses" =>
       \/ \E d \in DOMAIN text :
            IsLast(d, Above(i)) /\ HoldsWord(At(i) + 1, text[d].at)
       \/ \E k \in DOMAIN pending_labels : Waits(k, i)

Held == \A i \in DOMAIN text : HeldAt(i)

\* patch_labels has gone over the k-th pending use since it was declared.
Settled(k) == Compiled \/ (phase = "patching" /\ k <= patched)

\* What is stored, and when, at the k-th operand that waits.
AwaitedAt(k) ==
  LET p == pending_labels[k]
      l == labelTable[p.idx]
  IN /\ \E i \in DOMAIN text : Waits(k, i)
     /\ ~l.isDeclared => HoldsWord(p.offset, 0)
     /\ l.isDeclared /\ Settled(k) => HoldsWord(p.offset, l.offset)

Awaited == \A k \in DOMAIN pending_labels : AwaitedAt(k)

\* No other cell has changed.
Confined ==
  \A c \in Cells : c < base \/ (c >= offset /\ by = "load") => memory[c] = before[c]

WholeInv == Whole => Laid /\ Tabled /\ Held /\ Awaited /\ Confined

TextInv == HistoryTypeOK /\ CallsAgree /\ RefusedInLine /\ WholeInv

\* Where the text ends, even if it did not fit.
End == IF text = <<>> THEN base ELSE text[Len(text)].at + Size(text[Len(text)])

Chained ==
  /\ text # <<>> => text[1].at = base
  /\ \A i \in DOMAIN text :
       i + 1 \in DOMAIN text => text[i + 1].at = text[i].at + Size(text[i])

Overfull == Chained /\ End > MemSize

\* A file of which everything was read.
Heard == by = "load" /\ lastStatus \notin {"PARSE_ERROR", "LABEL_FULL"}
           /\ phase # "undefined"

\* The k-th pending use has no declaration.
Pends(k) == ~labelTable[pending_labels[k].idx].isDeclared

Answer ==
  IF memory_full THEN "MEMORY_FULL"
  ELSE IF offset = base THEN "EMPTY_PROGRAM"
  ELSE IF ~has_halt THEN "NO_HLT"
  ELSE IF \E k \in DOMAIN pending_labels : Pends(k) THEN "LABELS_PENDING"
  ELSE "COMPILE_OK"

\* What the variables from which load makes its answer say of the file.
FactsGathered ==
  /\ memory_full => Overfull
  /\ has_halt <=> \E i \in DOMAIN text : Halts(text[i])

\* What patch_labels has found and is still to find.
PatchingTells ==
  /\ offset # base /\ has_halt
  /\ \A k \in DOMAIN pending_labels : k > patched => ~pending_labels[k].decl_shown
  /\ lastStatus = "LABELS_PENDING"
       <=> \E k \in DOMAIN pending_labels : k <= patched /\ Pends(k)

AnswerInv ==
  Heard => /\ FactsGathered
           /\ phase = "scanning" =>
                \A k \in DOMAIN pending_labels : ~pending_labels[k].decl_shown
           /\ phase = "patching" => PatchingTells
           /\ phase = "prompt" => lastStatus = Answer

-----------------------------------------------------------------------------
(* The text and the places of its statements.                               *)

LEMMA TextFacts ==
  ASSUME HistoryTypeOK
  PROVE  /\ Len(text) \in Nat /\ DOMAIN text = 1 .. Len(text)
         /\ \A i \in DOMAIN text :
              /\ text[i] \in Item
              /\ text[i].bytes \in Seq(Byte)
              /\ text[i].at \in Word
              /\ DOMAIN text[i].bytes = 1 .. Len(text[i].bytes)
              /\ Len(text[i].bytes) \in Nat
              /\ Size(text[i]) \in Nat
              /\ Len(text[i].bytes) <= Size(text[i])
<1>1. text \in Seq(Item)
  BY DEF HistoryTypeOK
<1>2. /\ Len(text) \in Nat /\ DOMAIN text = 1 .. Len(text)
      /\ \A i \in DOMAIN text : text[i] \in Item
  BY <1>1, LenProperties, ElementOfSeq
<1>3. ASSUME NEW i \in DOMAIN text
      PROVE  /\ text[i].bytes \in Seq(Byte) /\ text[i].at \in Word
             /\ DOMAIN text[i].bytes = 1 .. Len(text[i].bytes)
             /\ Len(text[i].bytes) \in Nat
  <2>1. text[i] \in Item
    BY <1>2
  <2>2. text[i].bytes \in Seq(Byte) /\ text[i].at \in Word
    BY <2>1 DEF Item
  <2> QED BY <2>2, LenProperties
<1>4. ASSUME NEW i \in DOMAIN text
      PROVE  Size(text[i]) \in Nat /\ Len(text[i].bytes) <= Size(text[i])
  <2>1. text[i].kind = "uses" => Len(text[i].bytes) = 1
    BY DEF HistoryTypeOK
  <2> QED BY <1>3, <2>1 DEF Size
<1> QED BY <1>2, <1>3, <1>4

\* Every statement lies between the base and the pointer.
LEMMA Places ==
  ASSUME CodeTypeOK, HistoryTypeOK, Laid
  PROVE  /\ offset \in Nat /\ base \in Nat /\ base <= offset
         /\ offset <= MemSize /\ MemSize \in Nat
         /\ At(Len(text) + 1) = offset
         /\ \A i \in DOMAIN text :
              /\ At(i) \in Nat /\ At(i) = text[i].at
              /\ base <= At(i) /\ At(i) + Size(text[i]) <= offset
<1>1. /\ offset \in Nat /\ base \in Nat /\ offset <= MemSize /\ MemSize \in Nat
  BY AddrModAssumption DEF CodeTypeOK, HistoryTypeOK, Word, MemSize
<1>2. At(Len(text) + 1) = offset
  BY TextFacts DEF At
<1>3. ASSUME NEW i \in DOMAIN text
      PROVE  /\ At(i) \in Nat /\ At(i) = text[i].at
             /\ base <= At(i) /\ At(i) + Size(text[i]) <= offset
  <2>1. At(i) \in Nat /\ At(i) = text[i].at
    BY TextFacts DEF At, Word
  <2>2. base <= At(i)
    BY DEF Laid
  <2>3. Len(text) + 1 \in 1 .. Len(text) + 1 /\ i < Len(text) + 1
    BY TextFacts
  <2>4. At(i) + Size(text[i]) <= At(Len(text) + 1)
    BY <2>3 DEF Laid
  <2> QED BY <2>1, <2>2, <2>4, <1>2
<1>4. base <= offset
  <2>1. CASE text = <<>>
    <3>1. 1 \notin DOMAIN text
      BY <2>1
    <3> QED BY <3>1, <1>1 DEF Laid, At
  <2>2. CASE text # <<>>
    <3>1. 1 \in DOMAIN text
      BY <2>2, TextFacts, EmptySeq DEF HistoryTypeOK
    <3> QED BY <3>1, <1>1, <1>3, TextFacts
  <2> QED BY <2>1, <2>2
<1> QED BY <1>1, <1>2, <1>3, <1>4

\* No two statements share a cell.
LEMMA Apart ==
  ASSUME CodeTypeOK, HistoryTypeOK, Laid,
         NEW i \in DOMAIN text, NEW j \in DOMAIN text, i # j,
         NEW x \in 0 .. Size(text[i]) - 1, NEW y \in 0 .. Size(text[j]) - 1
  PROVE  At(i) + x # At(j) + y
<1>1. /\ i \in 1 .. Len(text) + 1 /\ j \in 1 .. Len(text) + 1
      /\ Size(text[i]) \in Nat /\ Size(text[j]) \in Nat
      /\ i < j \/ j < i
  BY TextFacts
<1>2. At(i) \in Nat /\ At(j) \in Nat
  BY Places
<1>3. i < j => At(i) + Size(text[i]) <= At(j)
  BY <1>1 DEF Laid
<1>4. j < i => At(j) + Size(text[j]) <= At(i)
  BY <1>1 DEF Laid
<1> QED BY <1>1, <1>2, <1>3, <1>4

\* The entry of a label is the only one.
LEMMA OneEntry ==
  ASSUME TablesTypeOK, TablesAgree, NEW n \in DOMAIN labelTable
  PROVE  Entries(labelTable[n].label) = {n}
BY DEF Entries, TablesAgree, LabelsUnique

\* What a pending use refers to.
LEMMA Referred ==
  ASSUME TablesTypeOK, TablesAgree, NEW k \in DOMAIN pending_labels
  PROVE  /\ pending_labels[k].idx \in DOMAIN labelTable
         /\ labelTable[pending_labels[k].idx].label = pending_labels[k].token
         /\ labelTable[pending_labels[k].idx].offset \in Word
         /\ labelTable[pending_labels[k].idx].isDeclared \in BOOLEAN
BY TableFacts DEF TablesAgree, UsesRefer, LabelEntry

-----------------------------------------------------------------------------
(* A statement is laid behind the text.                                     *)

\* What is written and fits is there, and nothing else is changed.
LEMMA Written ==
  ASSUME memory \in [Cells -> Byte], offset \in Word,
         NEW bytes \in Seq(Byte), Write(bytes), ~memory_full'
  PROVE  /\ offset' = offset + Len(bytes) /\ offset' <= MemSize
         /\ \A c \in Cells : c < offset \/ offset' <= c => memory'[c] = memory[c]
         /\ \A b \in DOMAIN bytes : memory'[offset + b - 1] = bytes[b]
<1> DEFINE room == MemSize - offset
           fits == IF Len(bytes) <= room THEN Len(bytes) ELSE room
<1>1. Len(bytes) \in Nat /\ DOMAIN bytes = 1 .. Len(bytes)
  BY LenProperties
<1>2. offset \in Nat /\ room \in Nat /\ MemSize \in Nat
  BY AddrModAssumption DEF Word, MemSize
<1>3. /\ memory' = [c \in Cells |-> IF c \in offset .. offset + fits - 1
                                     THEN bytes[c - offset + 1] ELSE memory[c]]
      /\ offset' = offset + fits
      /\ ~(fits < Len(bytes))
  BY DEF Write
<1>4. fits = Len(bytes) /\ Len(bytes) <= room
  BY <1>1, <1>2, <1>3
<1> HIDE DEF fits
<1>5. offset' = offset + Len(bytes) /\ offset' <= MemSize
  BY <1>1, <1>2, <1>3, <1>4
<1>6. \A c \in Cells : c < offset \/ offset' <= c => memory'[c] = memory[c]
  BY <1>1, <1>2, <1>3, <1>4 DEF Cells
<1>7. ASSUME NEW b \in DOMAIN bytes PROVE memory'[offset + b - 1] = bytes[b]
  <2> DEFINE c == offset + b - 1
  <2>1. c \in Cells /\ c \in offset .. offset + fits - 1 /\ c - offset + 1 = b
    BY <1>1, <1>2, <1>4 DEF Cells
  <2> HIDE DEF c
  <2>2. memory'[c] = bytes[b]
    BY <2>1, <1>3
  <2> QED BY <2>2 DEF c
<1> QED BY <1>5, <1>6, <1>7

\* The statement s is laid behind the text, all of it.
Lays(s) ==
  /\ s \in Item /\ s.at = offset
  /\ s.kind = "uses" => Len(s.bytes) = 1
  /\ text' = Append(text, s)
  /\ offset' = offset + Size(s) /\ offset' <= MemSize
  /\ \A c \in Cells : c < offset \/ offset' <= c => memory'[c] = memory[c]
  /\ \A b \in DOMAIN s.bytes : memory'[offset + b - 1] = s.bytes[b]
  /\ phase = "scanning" /\ phase' = "scanning"
  /\ UNCHANGED <<lineStart, by, base, before, offbak>>

LEMMA Appended ==
  ASSUME CodeTypeOK, HistoryTypeOK, NEW s, Lays(s), NEW n, n = Len(text)
  PROVE  /\ n \in Nat /\ DOMAIN text = 1 .. n
         /\ Len(text') = n + 1 /\ DOMAIN text' = 1 .. n + 1
         /\ \A i \in DOMAIN text : text'[i] = text[i] /\ At(i)' = At(i)
         /\ text'[n + 1] = s
         /\ At(n + 1) = offset /\ At(n + 1)' = offset
         /\ At(n + 2)' = offset'
         /\ Size(s) \in Nat
         /\ DOMAIN s.bytes = 1 .. Len(s.bytes) /\ Len(s.bytes) \in Nat
         /\ Len(s.bytes) <= Size(s)
<1>1. /\ text \in Seq(Item) /\ s \in Item /\ s.at = offset
      /\ text' = Append(text, s)
      /\ s.kind = "uses" => Len(s.bytes) = 1
  BY DEF Lays, HistoryTypeOK
<1>2. /\ Len(text') = n + 1
      /\ \A i \in 1 .. n : text'[i] = text[i]
      /\ text'[n + 1] = s
      /\ text' \in Seq(Item)
  BY <1>1, AppendProperties
<1>3. /\ n \in Nat /\ DOMAIN text = 1 .. n
      /\ DOMAIN text' = 1 .. n + 1
  BY <1>1, <1>2, LenProperties
<1>4. s.bytes \in Seq(Byte)
  BY <1>1 DEF Item
<1>5. DOMAIN s.bytes = 1 .. Len(s.bytes) /\ Len(s.bytes) \in Nat
  BY <1>4, LenProperties
<1>6. Size(s) \in Nat /\ Len(s.bytes) <= Size(s)
  <2>1. s.kind = "uses" => Len(s.bytes) = 1
    BY <1>1
  <2>2. Size(s) = IF s.kind = "uses" THEN 3 ELSE Len(s.bytes)
    BY DEF Size
  <2>3. CASE s.kind = "uses"
    <3>1. Size(s) = 3 /\ Len(s.bytes) = 1
      BY <2>1, <2>2, <2>3
    <3>2. 3 \in Nat /\ 1 <= 3
      OBVIOUS
    <3> QED BY <3>1, <3>2
  <2>4. CASE s.kind # "uses"
    <3>1. Size(s) = Len(s.bytes)
      BY <2>2, <2>4
    <3> QED BY <3>1, <1>5
  <2> QED BY <2>3, <2>4
<1>7. \A i \in DOMAIN text : At(i)' = At(i)
  BY <1>2, <1>3 DEF At
<1>8. At(n + 1) = offset /\ At(n + 1)' = offset /\ At(n + 2)' = offset'
  <2>1. n + 1 \notin DOMAIN text /\ n + 1 \in DOMAIN text' /\ n + 2 \notin DOMAIN text'
    BY <1>3
  <2> QED BY <2>1, <1>1, <1>2 DEF At
<1> QED BY <1>2, <1>3, <1>5, <1>6, <1>7, <1>8

LEMMA LaysLaid ==
  ASSUME CodeTypeOK, HistoryTypeOK, Laid, NEW s, Lays(s)
  PROVE  Laid'
<1>n. PICK n : n = Len(text)
  OBVIOUS
<1>1. n \in Nat /\ DOMAIN text = 1 .. n
  BY <1>n, TextFacts
<1>2. /\ Len(text') = n + 1 /\ DOMAIN text' = 1 .. n + 1
      /\ \A i \in DOMAIN text : text'[i] = text[i] /\ At(i)' = At(i)
      /\ text'[n + 1] = s
      /\ At(n + 1)' = offset /\ At(n + 2)' = offset' /\ Size(s) \in Nat
  BY <1>n, Appended
<1>3. /\ offset \in Nat /\ base \in Nat /\ base <= offset /\ At(n + 1) = offset
      /\ \A i \in DOMAIN text :
              /\ At(i) \in Nat /\ Size(text[i]) \in Nat
              /\ base <= At(i) /\ At(i) + Size(text[i]) <= offset
  BY <1>n, Places, TextFacts
<1>4. offset' = offset + Size(s) /\ base' = base /\ offbak' = offbak
      /\ lineStart' = lineStart /\ by' = by /\ phase = "scanning"
  BY DEF Lays
<1>5. (\A j \in 1 .. n + 1 : At(j)' = At(j)) /\ At(n + 2)' = offset + Size(s)
  BY <1>1, <1>2, <1>3, <1>4
<1>6. At(1)' = base'
  BY <1>1, <1>4, <1>5 DEF Laid
<1>7. ASSUME NEW i \in DOMAIN text'
      PROVE  At(i + 1)' = At(i)' + Size(text'[i]) /\ base' <= At(i)'
  <2>1. CASE i \in DOMAIN text
    <3>1. i + 1 \in 1 .. n + 1 /\ i \in 1 .. n + 1
      BY <2>1, <1>1
    <3>2. At(i + 1) = At(i) + Size(text[i]) /\ base <= At(i)
      BY <2>1 DEF Laid
    <3> QED BY <2>1, <3>1, <3>2, <1>2, <1>4, <1>5
  <2>2. CASE i = n + 1
    <3>1. i + 1 = n + 2
      BY <2>2, <1>1
    <3> QED BY <2>2, <3>1, <1>2, <1>3, <1>4, <1>5
  <2> QED BY <2>1, <2>2, <1>1, <1>2
<1>8. ASSUME NEW i \in DOMAIN text', NEW j \in 1 .. n + 2, i < j
      PROVE  At(i)' + Size(text'[i]) <= At(j)'
  <2>1. CASE i \in DOMAIN text /\ j \in 1 .. n + 1
    <3>1. At(i) + Size(text[i]) <= At(j)
      BY <2>1, <1>8, <1>n DEF Laid
    <3> QED BY <2>1, <3>1, <1>2, <1>5
  <2>2. CASE i \in DOMAIN text /\ j = n + 2
    BY <2>2, <1>2, <1>3, <1>5
  <2>3. CASE i = n + 1
    <3>1. j = n + 2
      BY <2>3, <1>8, <1>1
    <3> QED BY <2>3, <3>1, <1>2, <1>3, <1>5
  <2> QED BY <2>1, <2>2, <2>3, <1>1, <1>2
<1>9. by' = "asm" => offbak' = At(lineStart + 1)'
  <2>1. by = "asm" => offbak = At(lineStart + 1)
    BY <1>4 DEF Laid
  <2>2. lineStart + 1 \in 1 .. n + 1
    BY <1>1, <1>n DEF HistoryTypeOK
  <2> QED BY <2>1, <2>2, <1>4, <1>5
<1>10. \A i \in DOMAIN text' : \A j \in 1 .. Len(text') + 1 :
         i < j => At(i)' + Size(text'[i]) <= At(j)'
  <2>1. Len(text') + 1 = n + 2
    BY <1>1, <1>2
  <2> QED BY <2>1, <1>8
<1> QED BY <1>4, <1>6, <1>7, <1>9, <1>10 DEF Laid

\* The cells of a statement are in the memory, and what is laid behind them
\* does not touch them.
LEMMA Kept ==
  ASSUME CodeTypeOK, HistoryTypeOK, Laid, NEW s, Lays(s),
         NEW i \in DOMAIN text, NEW x \in 0 .. Size(text[i]) - 1
  PROVE  memory'[At(i) + x] = memory[At(i) + x]
<1> DEFINE c == At(i) + x
<1>1. c \in Cells /\ c < offset
  BY Places, TextFacts DEF Cells
<1> HIDE DEF c
<1>2. memory'[c] = memory[c]
  BY <1>1 DEF Lays
<1> QED BY <1>2 DEF c

\* Which declarations there are, and which of them are above a statement.
LEMMA LaysDeclarations ==
  ASSUME CodeTypeOK, HistoryTypeOK, NEW s, Lays(s), NEW n, n = Len(text)
  PROVE  /\ \A name : Declarations(name)' =
                        IF s.kind = "declares" /\ s.label = name
                          THEN Declarations(name) \cup {n + 1}
                          ELSE Declarations(name)
         /\ \A i \in DOMAIN text : Above(i)' = Above(i)
         /\ Above(n + 1)' = Declarations(s.label)
<1>1. /\ n \in Nat /\ DOMAIN text = 1 .. n /\ DOMAIN text' = 1 .. n + 1
      /\ \A i \in DOMAIN text : text'[i] = text[i]
      /\ text'[n + 1] = s
  BY Appended
<1>2. ASSUME NEW name
      PROVE  Declarations(name)' = IF s.kind = "declares" /\ s.label = name
                                     THEN Declarations(name) \cup {n + 1}
                                     ELSE Declarations(name)
  <2>1. \A d : d \in DOMAIN text' <=> d \in DOMAIN text \/ d = n + 1
    BY <1>1
  <2>2. n + 1 \notin DOMAIN text
    BY <1>1
  <2>3. \A d : d \in Declarations(name)' <=>
                 \/ d \in Declarations(name)
                 \/ d = n + 1 /\ s.kind = "declares" /\ s.label = name
    BY <1>1, <2>1, <2>2 DEF Declarations
  <2> QED BY <2>3
<1>3. \A name : \A d \in Declarations(name) : d \in 1 .. n
  BY <1>1 DEF Declarations
<1>4. ASSUME NEW i \in DOMAIN text PROVE Above(i)' = Above(i)
  <2>1. text'[i] = text[i] /\ i \in 1 .. n
    BY <1>1
  <2>2. \A d : d \in Above(i)' <=> d \in Above(i)
    BY <2>1, <1>1, <1>2, <1>3 DEF Above
  <2> QED BY <2>2
<1>5. Above(n + 1)' = Declarations(s.label)
  <2>1. \A d : d \in Above(n + 1)' <=> d \in Declarations(s.label)
    BY <1>1, <1>2, <1>3 DEF Above
  <2> QED BY <2>1
<1> QED BY <1>2, <1>4, <1>5

\* The pending uses stay, and more may come.
PendingGrows ==
  /\ DOMAIN pending_labels \subseteq DOMAIN pending_labels'
  /\ \A k \in DOMAIN pending_labels : pending_labels'[k] = pending_labels[k]

\* No entry of the label table is dropped or loses its declaration.
EntriesStay ==
  /\ DOMAIN labelTable \subseteq DOMAIN labelTable'
  /\ \A n \in DOMAIN labelTable :
       labelTable[n].isDeclared => labelTable'[n].isDeclared

LEMMA LaysWaits ==
  ASSUME CodeTypeOK, HistoryTypeOK, NEW s, Lays(s), PendingGrows,
         NEW i \in DOMAIN text, NEW k \in DOMAIN pending_labels, Waits(k, i)
  PROVE  Waits(k, i)'
<1>1. PICK n : n = Len(text)
  OBVIOUS
<1>2. text'[i] = text[i] /\ At(i)' = At(i)
  BY <1>1, Appended
<1>3. Above(i)' = Above(i)
  BY <1>1, LaysDeclarations
<1> QED BY <1>2, <1>3 DEF Waits, PendingGrows

LEMMA LaysHeldAt ==
  ASSUME CodeTypeOK, HistoryTypeOK, Laid, NEW s, Lays(s), PendingGrows,
         NEW i \in DOMAIN text, HeldAt(i)
  PROVE  HeldAt(i)'
<1>1. PICK n : n = Len(text)
  OBVIOUS
<1>2. /\ \A j \in DOMAIN text : text'[j] = text[j] /\ At(j)' = At(j)
      /\ DOMAIN text' = 1 .. n + 1 /\ DOMAIN text = 1 .. n /\ n \in Nat
  BY <1>1, Appended
<1>3. Above(i)' = Above(i)
  BY <1>1, LaysDeclarations
<1>4. ASSUME NEW b \in DOMAIN text[i].bytes
      PROVE  memory'[At(i) + b - 1] = text[i].bytes[b]
  <2>1. memory[At(i) + b - 1] = text[i].bytes[b]
    BY DEF HeldAt
  <2>2. b \in Nat /\ b - 1 \in 0 .. Size(text[i]) - 1
    BY TextFacts
  <2>3. memory'[At(i) + (b - 1)] = memory[At(i) + (b - 1)]
    BY <2>2, Kept
  <2>4. At(i) + b - 1 = At(i) + (b - 1)
    BY <2>2, Places
  <2> QED BY <2>1, <2>3, <2>4
<1>5. ASSUME text[i].kind = "uses"
      PROVE  (\/ \E d \in DOMAIN text :
                   IsLast(d, Above(i)) /\ HoldsWord(At(i) + 1, text[d].at)
              \/ \E k \in DOMAIN pending_labels : Waits(k, i))'
  <2>1. CASE \E k \in DOMAIN pending_labels : Waits(k, i)
    <3>1. PICK k \in DOMAIN pending_labels : Waits(k, i)
      BY <2>1
    <3>2. k \in DOMAIN pending_labels' /\ Waits(k, i)'
      BY <3>1, LaysWaits DEF PendingGrows
    <3> QED BY <3>2
  <2>2. CASE \E d \in DOMAIN text :
               IsLast(d, Above(i)) /\ HoldsWord(At(i) + 1, text[d].at)
    <3>1. PICK d \in DOMAIN text :
            IsLast(d, Above(i)) /\ HoldsWord(At(i) + 1, text[d].at)
      BY <2>2
    <3>2. Size(text[i]) = 3
      BY <1>5 DEF Size
    <3>3. /\ memory'[At(i) + 1] = memory[At(i) + 1]
          /\ memory'[At(i) + 2] = memory[At(i) + 2]
      BY <3>2, Kept
    <3>4. At(i) + 1 + 1 = At(i) + 2
      BY Places
    <3>5. HoldsWord(At(i) + 1, text[d].at)'
      BY <3>1, <3>3, <3>4, <1>2 DEF HoldsWord
    <3>6. d \in DOMAIN text' /\ IsLast(d, Above(i))'
      BY <3>1, <1>2, <1>3 DEF IsLast
    <3> QED BY <3>5, <3>6
  <2> QED BY <2>1, <2>2, <1>5 DEF HeldAt
<1> QED BY <1>2, <1>4, <1>5 DEF HeldAt

LEMMA LaysAwaitedAt ==
  ASSUME CodeTypeOK, TablesTypeOK, TablesAgree, HistoryTypeOK, Laid,
         NEW s, Lays(s), PendingGrows, EntriesStay,
         NEW k \in DOMAIN pending_labels, AwaitedAt(k)
  PROVE  AwaitedAt(k)'
<1>1. PICK n : n = Len(text)
  OBVIOUS
<1> DEFINE p == pending_labels[k]
<1>2. /\ \A j \in DOMAIN text : text'[j] = text[j] /\ At(j)' = At(j)
      /\ DOMAIN text' = 1 .. n + 1 /\ DOMAIN text = 1 .. n /\ n \in Nat
  BY <1>1, Appended
<1>3. PICK i \in DOMAIN text : Waits(k, i)
  BY DEF AwaitedAt
<1>4. i \in DOMAIN text' /\ Waits(k, i)'
  BY <1>2, <1>3, LaysWaits
<1>5. pending_labels'[k] = p /\ p.offset = At(i) + 1 /\ Size(text[i]) = 3
  BY <1>3 DEF PendingGrows, Waits, Size
<1>6. /\ memory'[At(i) + 1] = memory[At(i) + 1]
      /\ memory'[At(i) + 2] = memory[At(i) + 2]
  BY <1>5, Kept
<1>7. At(i) + 1 + 1 = At(i) + 2
  BY Places
<1>8. ~labelTable'[p.idx].isDeclared => ~labelTable[p.idx].isDeclared
  BY Referred DEF EntriesStay
<1>9. ~labelTable'[p.idx].isDeclared => HoldsWord(p.offset, 0)'
  <2> SUFFICES ASSUME ~labelTable'[p.idx].isDeclared
               PROVE  memory'[p.offset] = Low(0) /\ memory'[p.offset + 1] = High(0)
    BY <1>5 DEF HoldsWord
  <2>1. HoldsWord(p.offset, 0)
    BY <1>8 DEF AwaitedAt
  <2> QED BY <2>1, <1>5, <1>6, <1>7 DEF HoldsWord
<1>10. ~Settled(k)'
  BY DEF Settled, Compiled, Lays
<1> QED BY <1>4, <1>5, <1>9, <1>10 DEF AwaitedAt

\* Nothing is written before the base, and nothing behind the pointer.
LEMMA LaysConfined ==
  ASSUME CodeTypeOK, HistoryTypeOK, Laid, Confined, NEW s, Lays(s)
  PROVE  Confined'
<1>1. base <= offset /\ base \in Nat /\ offset \in Nat
  BY Places
<1>2. Size(s) \in Nat
  BY Appended
<1>3. /\ offset' = offset + Size(s) /\ base' = base /\ by' = by /\ before' = before
      /\ \A c \in Cells : c < offset \/ offset' <= c => memory'[c] = memory[c]
  BY DEF Lays
<1> SUFFICES ASSUME NEW c \in Cells, c < base \/ (c >= offset' /\ by = "load")
             PROVE  memory'[c] = before[c]
  BY <1>3 DEF Confined
<1>4. c \in Nat /\ (c < offset \/ offset' <= c)
  BY <1>1, <1>2, <1>3 DEF Cells
<1>5. c < base \/ (c >= offset /\ by = "load")
  BY <1>1, <1>2, <1>3, <1>4
<1> QED BY <1>3, <1>4, <1>5 DEF Confined

\* The bytes of the new statement are stored.
LEMMA LaysNew ==
  ASSUME CodeTypeOK, HistoryTypeOK, NEW s, Lays(s), NEW n, n = Len(text)
  PROVE  (\A b \in DOMAIN text[n + 1].bytes :
            memory[At(n + 1) + b - 1] = text[n + 1].bytes[b])'
<1>1. text'[n + 1] = s /\ At(n + 1)' = offset
  BY Appended
<1> QED BY <1>1 DEF Lays

LEMMA LaysWhole ==
  ASSUME AssemblerInv, HistoryTypeOK, Laid, Held, Awaited, Confined,
         NEW s, Lays(s), PendingGrows, EntriesStay, Tabled',
         NEW n, n = Len(text), HeldAt(n + 1)',
         \A k \in DOMAIN pending_labels' \ DOMAIN pending_labels : AwaitedAt(k)'
  PROVE  WholeInv'
<1> USE DEF AssemblerInv, TypeOK
<1>1. Laid' /\ Confined'
  BY LaysLaid, LaysConfined
<1>2. Held'
  <2>1. \A i \in DOMAIN text' : i \in DOMAIN text \/ i = n + 1
    BY Appended
  <2>2. \A i \in DOMAIN text : HeldAt(i)'
    BY LaysHeldAt DEF Held
  <2> QED BY <2>1, <2>2 DEF Held
<1>3. Awaited'
  <2>1. \A k \in DOMAIN pending_labels : AwaitedAt(k)'
    BY LaysAwaitedAt DEF Awaited
  <2> QED BY <2>1 DEF Awaited
<1> QED BY <1>1, <1>2, <1>3 DEF WholeInv

\* A statement that declares nothing leaves the label table true.
LEMMA LaysTabled ==
  ASSUME CodeTypeOK, HistoryTypeOK, Tabled, NEW s, Lays(s),
         s.kind # "declares", UNCHANGED labelTable
  PROVE  Tabled'
<1>n. PICK n : n = Len(text)
  OBVIOUS
<1>1. /\ n \in Nat /\ DOMAIN text = 1 .. n /\ DOMAIN text' = 1 .. n + 1
      /\ \A i \in DOMAIN text : text'[i] = text[i]
      /\ text'[n + 1] = s
  BY <1>n, Appended
<1>2. \A name : Declarations(name)' = Declarations(name)
  BY <1>n, LaysDeclarations
<1>3. \A name : Entries(name)' = Entries(name)
  BY DEF Entries
<1>4. ASSUME NEW m \in DOMAIN labelTable
      PROVE  (IF labelTable[m].isDeclared
                THEN \E d \in DOMAIN text :
                       /\ IsLast(d, Declarations(labelTable[m].label))
                       /\ labelTable[m].offset = text[d].at
                ELSE Declarations(labelTable[m].label) = {})'
  <2>1. Declarations(labelTable[m].label)' = Declarations(labelTable[m].label)
    BY <1>2
  <2>2. CASE labelTable[m].isDeclared
    <3>1. PICK d \in DOMAIN text :
            /\ IsLast(d, Declarations(labelTable[m].label))
            /\ labelTable[m].offset = text[d].at
      BY <2>2 DEF Tabled
    <3>2. d \in DOMAIN text' /\ text'[d].at = text[d].at
      BY <1>1
    <3> QED BY <2>1, <2>2, <3>1, <3>2 DEF IsLast
  <2>3. CASE ~labelTable[m].isDeclared
    BY <2>1, <2>3 DEF Tabled
  <2> QED BY <2>2, <2>3
<1>5. ASSUME NEW i \in DOMAIN text', text'[i].kind = "declares"
      PROVE  (Entries(text[i].label) # {})'
  <2>1. i \in DOMAIN text /\ text'[i] = text[i]
    BY <1>1, <1>5
  <2>2. Entries(text[i].label) # {}
    BY <2>1, <1>5 DEF Tabled
  <2> QED BY <2>1, <2>2 DEF Entries
<1> QED BY <1>4, <1>5 DEF Tabled

-----------------------------------------------------------------------------
(* Each statement.                                                          *)

MCInv == AssemblerInv /\ TextInv

LEMMA ScanningWhole ==
  ASSUME TextInv, Scanning, clean
  PROVE  Laid /\ Tabled /\ Held /\ Awaited /\ Confined
BY DEF TextInv, WholeInv, Whole, Refused, Scanning

\* What is appended to the text.
Placed(t) == [t EXCEPT !.at = offset]

LEMMA PlacedItems ==
  ASSUME offset \in Word
  PROVE  /\ \A bytes \in Seq(Byte) :
              /\ Placed(Code(bytes)) \in Item
              /\ Placed(Code(bytes)).kind = "code"
              /\ Placed(Code(bytes)).bytes = bytes
              /\ Placed(Code(bytes)).at = offset
         /\ \A name \in Labels :
              /\ Placed(Declares(name)) \in Item
              /\ Placed(Declares(name)).kind = "declares"
              /\ Placed(Declares(name)).bytes = <<>>
              /\ Placed(Declares(name)).label = name
              /\ Placed(Declares(name)).at = offset
         /\ \A code \in Byte, name \in Labels :
              /\ Placed(Uses(code, name)) \in Item
              /\ Placed(Uses(code, name)).kind = "uses"
              /\ Placed(Uses(code, name)).bytes = <<code>>
              /\ Placed(Uses(code, name)).label = name
              /\ Placed(Uses(code, name)).at = offset
<1>1. ASSUME NEW bytes \in Seq(Byte)
      PROVE  /\ Placed(Code(bytes)) \in Item
             /\ Placed(Code(bytes)).kind = "code"
             /\ Placed(Code(bytes)).bytes = bytes
             /\ Placed(Code(bytes)).label = "none"
             /\ Placed(Code(bytes)).at = offset
  <2>1. Placed(Code(bytes)) = [kind |-> "code", bytes |-> bytes,
          label |-> "none", at |-> offset]
    BY DEF Placed, Code
  <2>2. bytes \in Seq(Byte)
    OBVIOUS
  <2>3. "none" \in Labels \cup {"none"}
    OBVIOUS
  <2> QED BY <2>1, <2>2, <2>3 DEF Item
<1>2. ASSUME NEW name \in Labels
      PROVE  /\ Placed(Declares(name)) \in Item
             /\ Placed(Declares(name)).kind = "declares"
             /\ Placed(Declares(name)).bytes = <<>>
             /\ Placed(Declares(name)).label = name
             /\ Placed(Declares(name)).at = offset
  <2>1. Placed(Declares(name)) = [kind |-> "declares", bytes |-> <<>>,
          label |-> name, at |-> offset]
    BY DEF Placed, Declares
  <2>2. <<>> \in Seq(Byte)
    OBVIOUS
  <2>3. name \in Labels \cup {"none"}
    OBVIOUS
  <2> QED BY <2>1, <2>2, <2>3 DEF Item
<1>3. ASSUME NEW code \in Byte, NEW name \in Labels
      PROVE  /\ Placed(Uses(code, name)) \in Item
             /\ Placed(Uses(code, name)).kind = "uses"
             /\ Placed(Uses(code, name)).bytes = <<code>>
             /\ Placed(Uses(code, name)).label = name
             /\ Placed(Uses(code, name)).at = offset
  <2>1. Placed(Uses(code, name)) = [kind |-> "uses", bytes |-> <<code>>,
          label |-> name, at |-> offset]
    BY DEF Placed, Uses
  <2>2. <<code>> \in Seq(Byte)
    OBVIOUS
  <2>3. name \in Labels \cup {"none"}
    OBVIOUS
  <2> QED BY <2>1, <2>2, <2>3 DEF Item
<1> QED BY <1>1, <1>2, <1>3

LEMMA CodeWhole ==
  ASSUME MCInv, NEW bytes \in Statements \cup Misspelled,
         CompileStatement(bytes) \/ CompileMisspelled(bytes),
         Wrote(Code(bytes)), clean, ~memory_full'
  PROVE  WholeInv'
<1> USE DEF MCInv, AssemblerInv, TypeOK
<1>1. HistoryTypeOK /\ Laid /\ Tabled /\ Held /\ Awaited /\ Confined
  BY ScanningWhole DEF TextInv, CompileStatement, CompileMisspelled
<1>2. PICK s : s = Placed(Code(bytes))
  OBVIOUS
<1>3. bytes \in Seq(Byte)
  BY StoredBytes
<1>4. s \in Item /\ s.kind = "code" /\ s.bytes = bytes /\ s.at = offset
  BY <1>2, <1>3, PlacedItems DEF CodeTypeOK
<1>5. Write(bytes) /\ phase = "scanning" /\ phase' = "scanning"
      /\ UNCHANGED <<labelTable, pending_labels, offbak>>
  BY DEF CompileStatement, CompileMisspelled, Scanning, tables
<1>6. text' = Append(text, s) /\ UNCHANGED <<lineStart, by, base, before>>
  BY <1>2 DEF Wrote, Placed
<1>7. /\ offset' = offset + Len(bytes) /\ offset' <= MemSize
      /\ \A c \in Cells : c < offset \/ offset' <= c => memory'[c] = memory[c]
      /\ \A b \in DOMAIN bytes : memory'[offset + b - 1] = bytes[b]
  BY <1>3, <1>5, Written DEF CodeTypeOK
<1>8. Size(s) = Len(bytes)
  BY <1>4 DEF Size
<1>9. Lays(s)
  BY <1>4, <1>5, <1>6, <1>7, <1>8 DEF Lays
<1>10. PendingGrows /\ EntriesStay
  BY <1>5 DEF PendingGrows, EntriesStay
<1>11. Tabled'
  BY <1>1, <1>4, <1>5, <1>9, LaysTabled
<1>12. PICK n : n = Len(text)
  OBVIOUS
<1>13. HeldAt(n + 1)'
  BY <1>4, <1>9, <1>12, <1>1, LaysNew, Appended DEF HeldAt
<1>14. \A k \in DOMAIN pending_labels' \ DOMAIN pending_labels : AwaitedAt(k)'
  BY <1>5
<1> QED BY <1>1, <1>9, <1>10, <1>11, <1>12, <1>13, <1>14, LaysWhole

LEMMA UseDeclaredWhole ==
  ASSUME MCInv, NEW code \in UsingCodes, NEW name \in Labels,
         UseDeclared(code, name), Wrote(Uses(code, name)), clean, ~memory_full'
  PROVE  WholeInv'
<1> USE DEF MCInv, AssemblerInv, TypeOK
<1>1. HistoryTypeOK /\ Laid /\ Tabled /\ Held /\ Awaited /\ Confined
  BY ScanningWhole DEF TextInv, UseDeclared
<1>2. PICK s : s = Placed(Uses(code, name))
  OBVIOUS
<1>3. /\ s \in Item /\ s.kind = "uses" /\ s.bytes = <<code>> /\ s.at = offset
      /\ s.label = name
  BY <1>2, PlacedItems, AssemblerAssumption DEF CodeTypeOK
<1>4. PICK m \in Entries(name) :
         /\ labelTable[m].isDeclared
         /\ Write(<<code, Low(labelTable[m].offset), High(labelTable[m].offset)>>)
  BY DEF UseDeclared
<1>5. PICK w : w = labelTable[m].offset
  OBVIOUS
<1>6. m \in DOMAIN labelTable /\ labelTable[m].label = name /\ w \in Word
  BY <1>4, <1>5, TableFacts DEF Entries, LabelEntry
<1>7. PICK d \in DOMAIN text : IsLast(d, Declarations(name)) /\ w = text[d].at
  BY <1>1, <1>4, <1>5, <1>6 DEF Tabled
<1>8. phase = "scanning" /\ phase' = "scanning"
      /\ UNCHANGED <<labelTable, pending_labels, offbak>>
  BY DEF UseDeclared, Scanning, tables
<1>9. text' = Append(text, s) /\ UNCHANGED <<lineStart, by, base, before>>
  BY <1>2 DEF Wrote, Placed
<1> DEFINE bytes == <<code, Low(w), High(w)>>
<1>10. bytes \in Seq(Byte) /\ Len(bytes) = 3
  BY <1>6, StoredBytes
<1>11. /\ offset' = offset + 3 /\ offset' <= MemSize
       /\ \A c \in Cells : c < offset \/ offset' <= c => memory'[c] = memory[c]
       /\ \A b \in DOMAIN bytes : memory'[offset + b - 1] = bytes[b]
  <2> HIDE DEF bytes
  <2>1. Write(bytes)
    BY <1>4, <1>5 DEF bytes
  <2> QED BY <2>1, <1>10, Written DEF CodeTypeOK
<1>12. /\ memory'[offset] = code
       /\ memory'[offset + 1] = Low(w) /\ memory'[offset + 2] = High(w)
  <2>1. 1 \in DOMAIN bytes /\ 2 \in DOMAIN bytes /\ 3 \in DOMAIN bytes
    OBVIOUS
  <2>2. /\ memory'[offset + 1 - 1] = code /\ memory'[offset + 2 - 1] = Low(w)
        /\ memory'[offset + 3 - 1] = High(w)
    BY <1>11, <2>1
  <2>3. offset + 1 - 1 = offset /\ offset + 2 - 1 = offset + 1
        /\ offset + 3 - 1 = offset + 2
    BY DEF CodeTypeOK, Word
  <2> QED BY <2>2, <2>3
<1> HIDE DEF bytes
<1>13. Size(s) = 3 /\ Len(s.bytes) = 1
  BY <1>3 DEF Size
<1>14. \A b \in DOMAIN s.bytes : memory'[offset + b - 1] = s.bytes[b]
  BY <1>3, <1>12 DEF CodeTypeOK, Word
<1>15. Lays(s)
  BY <1>3, <1>8, <1>9, <1>11, <1>13, <1>14 DEF Lays
<1>16. PendingGrows /\ EntriesStay
  BY <1>8 DEF PendingGrows, EntriesStay
<1>17. Tabled'
  BY <1>1, <1>3, <1>8, <1>15, LaysTabled
<1>18. PICK n : n = Len(text)
  OBVIOUS
<1>19. HeldAt(n + 1)'
  <2>1. /\ text'[n + 1] = s /\ At(n + 1)' = offset
        /\ d \in DOMAIN text' /\ text'[d] = text[d]
    BY <1>1, <1>7, <1>15, <1>18, Appended
  <2>2. Above(n + 1)' = Declarations(name)
    BY <1>1, <1>3, <1>15, <1>18, LaysDeclarations
  <2>3. IsLast(d, Above(n + 1))'
    BY <1>7, <2>2 DEF IsLast
  <2>4. HoldsWord(At(n + 1) + 1, text[d].at)'
    BY <1>7, <1>12, <2>1 DEF HoldsWord, CodeTypeOK, Word
  <2> QED BY <1>1, <1>15, <1>18, <2>1, <2>3, <2>4, LaysNew DEF HeldAt
<1>20. \A k \in DOMAIN pending_labels' \ DOMAIN pending_labels : AwaitedAt(k)'
  BY <1>8
<1> QED BY <1>1, <1>15, <1>16, <1>17, <1>18, <1>19, <1>20, LaysWhole

\* A declaration leaves one entry of the label that says where it is, and all
\* others as they were.
LEMMA DeclareTable ==
  ASSUME TablesTypeOK, TablesAgree, offset \in Word, NEW name \in Labels,
         DeclareLabel(name)
  PROVE  \E m \in DOMAIN labelTable' :
           /\ labelTable'[m].label = name /\ labelTable'[m].offset = offset
           /\ labelTable'[m].isDeclared
           /\ \A j \in DOMAIN labelTable' : j # m =>
                /\ j \in DOMAIN labelTable /\ labelTable'[j] = labelTable[j]
                /\ labelTable[j].label # name
           /\ \A j \in DOMAIN labelTable :
                j \in DOMAIN labelTable' /\ labelTable'[j].label = labelTable[j].label
<1>1. Len(labelTable) < NUM_LABELS
  BY TableFacts, AssemblerAssumption DEF DeclareLabel, TablesTypeOK
<1>2. CASE Entries(name) = {}
  <2>1. PICK e : e = Entry(name, offset, TRUE)
    OBVIOUS
  <2>2. e \in LabelEntry /\ e.label = name /\ e.offset = offset /\ e.isDeclared
    BY <2>1 DEF Entry, LabelEntry
  <2>3. labelTable' = Append(labelTable, e)
    BY <1>2, <2>1 DEF DeclareLabel
  <2>4. PICK m : m = Len(labelTable) + 1
    OBVIOUS
  <2>5. /\ m \in DOMAIN labelTable' /\ labelTable'[m] = e
        /\ DOMAIN labelTable \subseteq DOMAIN labelTable'
        /\ \A i \in DOMAIN labelTable : labelTable'[i] = labelTable[i]
    BY <1>1, <1>2, <2>2, <2>3, <2>4, EntryAppended
  <2>6. labelTable \in Seq(LabelEntry)
    BY DEF TablesTypeOK
  <2>7. \A j \in DOMAIN labelTable' : j # m => j \in DOMAIN labelTable
    BY <2>3, <2>4, <2>6, TableFacts, AppendProperties, LenProperties
  <2>8. \A j \in DOMAIN labelTable : labelTable[j].label # name
    BY <1>2 DEF Entries
  <2> QED BY <2>2, <2>5, <2>7, <2>8
<1>3. CASE Entries(name) # {}
  <2>1. PICK m \in Entries(name) :
          labelTable' = [labelTable EXCEPT ![m].offset = offset,
                                           ![m].isDeclared = TRUE]
    BY <1>3 DEF DeclareLabel
  <2>2. m \in DOMAIN labelTable /\ labelTable[m].label = name
        /\ labelTable[m] \in LabelEntry
    BY <2>1, TableFacts DEF Entries
  <2>3. PICK e : e = [labelTable[m] EXCEPT !.offset = offset, !.isDeclared = TRUE]
    OBVIOUS
  <2>4. labelTable' = [labelTable EXCEPT ![m] = e]
    BY <2>1, <2>3
  <2>5. e.label = name /\ e.offset = offset /\ e.isDeclared
    BY <2>2, <2>3 DEF LabelEntry
  <2>6. /\ DOMAIN labelTable' = DOMAIN labelTable
        /\ labelTable'[m] = e
        /\ \A j \in DOMAIN labelTable : j # m => labelTable'[j] = labelTable[j]
    BY <2>2, <2>4 DEF TablesTypeOK
  <2>7. \A j \in DOMAIN labelTable : labelTable[j].label = name => j = m
    BY <2>2 DEF TablesAgree, LabelsUnique
  <2> QED BY <2>2, <2>5, <2>6, <2>7
<1> QED BY <1>2, <1>3

LEMMA DeclareWhole ==
  ASSUME MCInv, NEW name \in Labels, DeclareLabel(name), Wrote(Declares(name)),
         clean
  PROVE  WholeInv'
<1> USE DEF MCInv, AssemblerInv, TypeOK
<1>1. HistoryTypeOK /\ Laid /\ Tabled /\ Held /\ Awaited /\ Confined
  BY ScanningWhole DEF TextInv, DeclareLabel
<1>2. PICK s : s = Placed(Declares(name))
  OBVIOUS
<1>3. /\ s \in Item /\ s.kind = "declares" /\ s.bytes = <<>> /\ s.at = offset
      /\ s.label = name
  BY <1>2, PlacedItems DEF CodeTypeOK
<1>4. /\ phase = "scanning" /\ phase' = "scanning"
      /\ UNCHANGED <<pending_labels, memory, offset, offbak>>
  BY DEF DeclareLabel, Scanning
<1>5. text' = Append(text, s) /\ UNCHANGED <<lineStart, by, base, before>>
  BY <1>2 DEF Wrote, Placed
<1>6. Size(s) = 0 /\ DOMAIN s.bytes = {}
  BY <1>3 DEF Size
<1>7. offset \in Nat /\ offset <= MemSize
  BY <1>1, Places
<1>8. Lays(s)
  BY <1>3, <1>4, <1>5, <1>6, <1>7 DEF Lays
<1>9. PICK m \in DOMAIN labelTable' :
        /\ labelTable'[m].label = name /\ labelTable'[m].offset = offset
        /\ labelTable'[m].isDeclared
        /\ \A j \in DOMAIN labelTable' : j # m =>
             /\ j \in DOMAIN labelTable /\ labelTable'[j] = labelTable[j]
             /\ labelTable[j].label # name
        /\ \A j \in DOMAIN labelTable :
             j \in DOMAIN labelTable' /\ labelTable'[j].label = labelTable[j].label
  BY DeclareTable DEF CodeTypeOK
<1>10. PendingGrows /\ EntriesStay
  <2>1. \A j \in DOMAIN labelTable :
          labelTable[j].isDeclared => labelTable'[j].isDeclared
    BY <1>9
  <2> QED BY <1>4, <1>9, <2>1 DEF PendingGrows, EntriesStay
<1>n. PICK n : n = Len(text)
  OBVIOUS
<1>11. /\ n \in Nat /\ DOMAIN text = 1 .. n /\ DOMAIN text' = 1 .. n + 1
       /\ \A i \in DOMAIN text : text'[i] = text[i]
       /\ text'[n + 1] = s
  BY <1>1, <1>8, <1>n, Appended
<1>12. \A other : Declarations(other)' =
                    IF other = name THEN Declarations(name) \cup {n + 1}
                                    ELSE Declarations(other)
  BY <1>1, <1>3, <1>8, <1>n, LaysDeclarations
<1>13. Tabled'
  <2>1. ASSUME NEW j \in DOMAIN labelTable', j # m
        PROVE  (IF labelTable[j].isDeclared
                  THEN \E d \in DOMAIN text :
                         /\ IsLast(d, Declarations(labelTable[j].label))
                         /\ labelTable[j].offset = text[d].at
                  ELSE Declarations(labelTable[j].label) = {})'
    <3>1. PICK l : l = labelTable[j]
      OBVIOUS
    <3>2. j \in DOMAIN labelTable /\ labelTable'[j] = l /\ l.label # name
      BY <2>1, <3>1, <1>9
    <3>3. PICK other : other = l.label
      OBVIOUS
    <3>4. Declarations(other)' = Declarations(other)
      BY <3>2, <3>3, <1>12
    <3>5. CASE l.isDeclared
      <4>1. PICK d \in DOMAIN text :
              IsLast(d, Declarations(other)) /\ l.offset = text[d].at
        BY <1>1, <3>1, <3>2, <3>3, <3>5 DEF Tabled
      <4>2. d \in DOMAIN text' /\ text'[d].at = text[d].at
        BY <1>11
      <4> QED BY <3>2, <3>3, <3>4, <3>5, <4>1, <4>2 DEF IsLast
    <3>6. CASE ~l.isDeclared
      BY <1>1, <3>1, <3>2, <3>3, <3>4, <3>6 DEF Tabled
    <3> QED BY <3>5, <3>6
  <2>2. (/\ labelTable[m].isDeclared
         /\ \E d \in DOMAIN text :
              /\ IsLast(d, Declarations(labelTable[m].label))
              /\ labelTable[m].offset = text[d].at)'
    <3>1. \A d \in Declarations(name) : d \in 1 .. n
      BY <1>11 DEF Declarations
    <3>2. n + 1 \in DOMAIN text' /\ text'[n + 1].at = offset
      BY <1>3, <1>11
    <3>3. IsLast(n + 1, Declarations(name)')
      BY <1>11, <1>12, <3>1 DEF IsLast
    <3> QED BY <1>9, <3>2, <3>3 DEF IsLast
  <2>3. ASSUME NEW i \in DOMAIN text', text'[i].kind = "declares"
        PROVE  (Entries(text[i].label) # {})'
    <3>1. CASE i \in DOMAIN text
      <4>1. PICK j \in DOMAIN labelTable : labelTable[j].label = text[i].label
        BY <1>1, <1>11, <2>3, <3>1 DEF Tabled, Entries
      <4> QED BY <1>9, <1>11, <3>1, <4>1 DEF Entries
    <3>2. CASE i = n + 1
      BY <1>3, <1>9, <1>11, <3>2 DEF Entries
    <3> QED BY <1>11, <3>1, <3>2
  <2> QED BY <2>1, <2>2, <2>3 DEF Tabled
<1>14. HeldAt(n + 1)'
  BY <1>1, <1>3, <1>8, <1>n, <1>11, LaysNew DEF HeldAt
<1>15. \A k \in DOMAIN pending_labels' \ DOMAIN pending_labels : AwaitedAt(k)'
  BY <1>4
<1> QED BY <1>1, <1>8, <1>10, <1>13, <1>n, <1>14, <1>15, LaysWhole

\* A label that has no declared entry has no declaration.
LEMMA NotDeclared ==
  ASSUME TablesTypeOK, TablesAgree, Tabled, NEW name, Undeclared(name)
  PROVE  Declarations(name) = {}
<1>1. CASE Entries(name) = {}
  BY <1>1 DEF Tabled, Declarations
<1>2. CASE Entries(name) # {}
  <2>1. PICK m \in DOMAIN labelTable : labelTable[m].label = name
    BY <1>2 DEF Entries
  <2>2. Entries(name) = {m}
    BY <2>1, OneEntry
  <2>3. m \in Nat
    BY TableFacts
  <2>4. ~labelTable[m].isDeclared
    BY <2>2, <2>3 DEF Undeclared, IsFirst
  <2> QED BY <2>1, <2>4 DEF Tabled
<1> QED BY <1>1, <1>2

\* A forward use refers to an entry that is not declared, which it makes if the
\* label has none, and all entries stay as they were.
LEMMA ForwardTable ==
  ASSUME TablesTypeOK, TablesAgree, NEW code, NEW name \in Labels,
         UseForward(code, name)
  PROVE  \E m \in DOMAIN labelTable' :
           /\ labelTable'[m].label = name /\ ~labelTable'[m].isDeclared
           /\ pending_labels' = Append(pending_labels, Pending(name, m))
           /\ \A j \in DOMAIN labelTable :
                j \in DOMAIN labelTable' /\ labelTable'[j] = labelTable[j]
           /\ \A j \in DOMAIN labelTable' : j \in DOMAIN labelTable \/ j = m
<1>1. CASE Entries(name) = {}
  <2>1. PICK e : e = Entry(name, 0, FALSE)
    OBVIOUS
  <2>2. e \in LabelEntry /\ e.label = name /\ ~e.isDeclared
    <3>1. 0 \in Word
      BY AddrModAssumption DEF Word
    <3> QED BY <2>1, <3>1 DEF Entry, LabelEntry
  <2>3. PICK m : m = Len(labelTable) + 1
    OBVIOUS
  <2>4. labelTable' = Append(labelTable, e)
        /\ pending_labels' = Append(pending_labels, Pending(name, m))
    BY <1>1, <2>1, <2>3 DEF UseForward
  <2>5. Len(labelTable) < NUM_LABELS
    BY <1>1, TableFacts, AssemblerAssumption DEF UseForward, Overruns
  <2>6. /\ m \in DOMAIN labelTable' /\ labelTable'[m] = e
        /\ DOMAIN labelTable \subseteq DOMAIN labelTable'
        /\ \A i \in DOMAIN labelTable : labelTable'[i] = labelTable[i]
    BY <1>1, <2>2, <2>3, <2>4, <2>5, EntryAppended
  <2>7. labelTable \in Seq(LabelEntry)
    BY DEF TablesTypeOK
  <2>8. \A j \in DOMAIN labelTable' : j \in DOMAIN labelTable \/ j = m
    BY <2>3, <2>4, <2>7, TableFacts, AppendProperties, LenProperties
  <2> QED BY <2>2, <2>4, <2>6, <2>8
<1>2. CASE Entries(name) # {}
  <2>1. PICK m \in Entries(name) :
          IsFirst(m, name)
          /\ pending_labels' = Append(pending_labels, Pending(name, m))
    BY <1>2 DEF UseForward
  <2>2. UNCHANGED labelTable
    BY <1>2 DEF UseForward
  <2>3. ~labelTable[m].isDeclared
    BY <2>1 DEF UseForward, Undeclared
  <2>4. m \in DOMAIN labelTable /\ labelTable[m].label = name
    BY <2>1 DEF Entries
  <2> QED BY <2>1, <2>2, <2>3, <2>4
<1> QED BY <1>1, <1>2

LEMMA ForwardWhole ==
  ASSUME MCInv, NEW code \in UsingCodes, NEW name \in Labels,
         UseForward(code, name), Wrote(Uses(code, name)), clean, ~memory_full'
  PROVE  WholeInv'
<1> USE DEF MCInv, AssemblerInv, TypeOK
<1>1. HistoryTypeOK /\ Laid /\ Tabled /\ Held /\ Awaited /\ Confined
  BY ScanningWhole DEF TextInv, UseForward
<1>2. PICK s : s = Placed(Uses(code, name))
  OBVIOUS
<1>3. /\ s \in Item /\ s.kind = "uses" /\ s.bytes = <<code>> /\ s.at = offset
      /\ s.label = name
  BY <1>2, PlacedItems, AssemblerAssumption DEF CodeTypeOK
<1>4. phase = "scanning" /\ phase' = "scanning" /\ UNCHANGED offbak
  BY DEF UseForward, Scanning
<1>5. text' = Append(text, s) /\ UNCHANGED <<lineStart, by, base, before>>
  BY <1>2 DEF Wrote, Placed
<1> DEFINE bytes == <<code, 0, 0>>
<1>6. bytes \in Seq(Byte) /\ Len(bytes) = 3
  BY StoredBytes
<1>7. /\ offset' = offset + 3 /\ offset' <= MemSize
      /\ \A c \in Cells : c < offset \/ offset' <= c => memory'[c] = memory[c]
      /\ \A b \in DOMAIN bytes : memory'[offset + b - 1] = bytes[b]
  <2> HIDE DEF bytes
  <2>1. Write(bytes)
    BY DEF UseForward, bytes
  <2> QED BY <2>1, <1>6, Written DEF CodeTypeOK
<1>8. /\ memory'[offset] = code
      /\ memory'[offset + 1] = 0 /\ memory'[offset + 2] = 0
  <2>1. 1 \in DOMAIN bytes /\ 2 \in DOMAIN bytes /\ 3 \in DOMAIN bytes
    OBVIOUS
  <2>2. /\ memory'[offset + 1 - 1] = code /\ memory'[offset + 2 - 1] = 0
        /\ memory'[offset + 3 - 1] = 0
    BY <1>7, <2>1
  <2>3. offset + 1 - 1 = offset /\ offset + 2 - 1 = offset + 1
        /\ offset + 3 - 1 = offset + 2
    BY DEF CodeTypeOK, Word
  <2> QED BY <2>2, <2>3
<1> HIDE DEF bytes
<1>9. Size(s) = 3 /\ Len(s.bytes) = 1
  BY <1>3 DEF Size
<1>10. \A b \in DOMAIN s.bytes : memory'[offset + b - 1] = s.bytes[b]
  BY <1>3, <1>8 DEF CodeTypeOK, Word
<1>11. Lays(s)
  BY <1>3, <1>4, <1>5, <1>7, <1>9, <1>10 DEF Lays
<1>12. PICK m \in DOMAIN labelTable' :
         /\ labelTable'[m].label = name /\ ~labelTable'[m].isDeclared
         /\ pending_labels' = Append(pending_labels, Pending(name, m))
         /\ \A j \in DOMAIN labelTable :
              j \in DOMAIN labelTable' /\ labelTable'[j] = labelTable[j]
         /\ \A j \in DOMAIN labelTable' : j \in DOMAIN labelTable \/ j = m
  BY ForwardTable
<1>13. PICK q : q = Len(pending_labels) + 1
  OBVIOUS
<1>14. PICK p : p = Pending(name, m)
  OBVIOUS
<1>15. p.token = name /\ p.idx = m /\ p.offset = offset + 1 /\ p \in PendingEntry
  <2>1. offset < MemSize
    BY <1>1, <1>7, Places
  <2>2. OperandOffset = offset + 1
    BY <2>1 DEF OperandOffset
  <2>3. OperandOffset \in Word
    BY OperandOffsetType DEF CodeTypeOK
  <2>4. m \in Nat
    <3>1. TablesTypeOK'
      BY ForwardStep
    <3> QED BY <3>1, TableFacts
  <2> QED BY <1>14, <2>2, <2>3, <2>4 DEF Pending, PendingEntry
<1>16. /\ \A k \in DOMAIN pending_labels : pending_labels'[k] = pending_labels[k]
       /\ DOMAIN pending_labels' = DOMAIN pending_labels \cup {q}
       /\ pending_labels'[q] = p
  <2>1. pending_labels \in Seq(PendingEntry)
    BY DEF TablesTypeOK
  <2>2. pending_labels' = Append(pending_labels, p)
    BY <1>12, <1>14
  <2>3. /\ pending_labels' \in Seq(PendingEntry)
        /\ Len(pending_labels') = q
        /\ \A k \in 1 .. Len(pending_labels) :
             pending_labels'[k] = pending_labels[k]
        /\ pending_labels'[q] = p
    BY <1>13, <1>15, <2>1, <2>2, AppendProperties
  <2> QED BY <1>13, <2>1, <2>3, LenProperties
<1>17. PendingGrows /\ EntriesStay
  BY <1>12, <1>16 DEF PendingGrows, EntriesStay
<1>n. PICK n : n = Len(text)
  OBVIOUS
<1>18. /\ n \in Nat /\ DOMAIN text = 1 .. n /\ DOMAIN text' = 1 .. n + 1
       /\ \A i \in DOMAIN text : text'[i] = text[i]
       /\ text'[n + 1] = s /\ At(n + 1)' = offset
  BY <1>1, <1>11, <1>n, Appended
<1>19. /\ \A other : Declarations(other)' = Declarations(other)
       /\ Above(n + 1)' = Declarations(name)
  BY <1>1, <1>3, <1>11, <1>n, LaysDeclarations
<1>20. Declarations(name) = {}
  BY <1>1, NotDeclared DEF UseForward
<1>21. Tabled'
  <2>1. ASSUME NEW j \in DOMAIN labelTable'
        PROVE  (IF labelTable[j].isDeclared
                  THEN \E d \in DOMAIN text :
                         /\ IsLast(d, Declarations(labelTable[j].label))
                         /\ labelTable[j].offset = text[d].at
                  ELSE Declarations(labelTable[j].label) = {})'
    <3>1. PICK l : l = labelTable'[j]
      OBVIOUS
    <3>2. PICK other : other = l.label
      OBVIOUS
    <3>3. Declarations(other)' = Declarations(other)
      BY <1>19
    <3>4. CASE l.isDeclared
      <4>1. j \in DOMAIN labelTable /\ labelTable[j] = l
        BY <1>12, <3>1, <3>4
      <4>2. PICK d \in DOMAIN text :
              IsLast(d, Declarations(other)) /\ l.offset = text[d].at
        BY <1>1, <3>2, <3>4, <4>1 DEF Tabled
      <4>3. d \in DOMAIN text' /\ text'[d].at = text[d].at
        BY <1>18
      <4> QED BY <3>1, <3>2, <3>3, <3>4, <4>2, <4>3 DEF IsLast
    <3>5. CASE ~l.isDeclared
      <4>1. Declarations(other) = {}
        <5>1. CASE j = m
          BY <5>1, <1>12, <1>20, <3>1, <3>2
        <5>2. CASE j # m
          BY <5>2, <1>1, <1>12, <3>1, <3>2, <3>5 DEF Tabled
        <5> QED BY <5>1, <5>2
      <4> QED BY <3>1, <3>2, <3>3, <3>5, <4>1
    <3> QED BY <3>4, <3>5
  <2>2. ASSUME NEW i \in DOMAIN text', text'[i].kind = "declares"
        PROVE  (Entries(text[i].label) # {})'
    <3>1. i \in DOMAIN text /\ text'[i] = text[i]
      BY <1>3, <1>18, <2>2
    <3>2. PICK j \in DOMAIN labelTable : labelTable[j].label = text[i].label
      BY <1>1, <2>2, <3>1 DEF Tabled, Entries
    <3> QED BY <1>12, <3>1, <3>2 DEF Entries
  <2> QED BY <2>1, <2>2 DEF Tabled
<1>22. Waits(q, n + 1)'
  BY <1>3, <1>15, <1>16, <1>18, <1>19, <1>20 DEF Waits
<1>23. HeldAt(n + 1)'
  BY <1>1, <1>11, <1>16, <1>n, <1>22, LaysNew DEF HeldAt
<1>24. AwaitedAt(q)'
  <2>1. (\E i \in DOMAIN text : Waits(q, i))'
    BY <1>18, <1>22
  <2>2. (HoldsWord(pending_labels[q].offset, 0))'
    <3>1. offset + 1 + 1 = offset + 2
      BY DEF CodeTypeOK, Word
    <3>2. Low(0) = 0 /\ High(0) = 0
      BY DEF Low, High
    <3> QED BY <1>8, <1>15, <1>16, <3>1, <3>2 DEF HoldsWord
  <2>3. ~labelTable'[pending_labels'[q].idx].isDeclared
    BY <1>12, <1>15, <1>16
  <2> QED BY <2>1, <2>2, <2>3 DEF AwaitedAt
<1>25. \A k \in DOMAIN pending_labels' \ DOMAIN pending_labels : AwaitedAt(k)'
  BY <1>16, <1>24
<1> QED BY <1>1, <1>11, <1>17, <1>21, <1>n, <1>23, <1>25, LaysWhole

\* A statement of the source, and what is written of it.
Statement ==
  \/ \E bytes \in Statements : CompileStatement(bytes) /\ Wrote(Code(bytes))
  \/ \E bytes \in Misspelled : CompileMisspelled(bytes) /\ Wrote(Code(bytes))
  \/ \E name \in Labels : DeclareLabel(name) /\ Wrote(Declares(name))
  \/ \E code \in UsingCodes, name \in Labels :
       (UseDeclared(code, name) \/ UseForward(code, name))
         /\ Wrote(Uses(code, name))
  \/ \E name \in Labels :
       (RefuseLabel \/ UseOverrun(name)) /\ Wrote(Declares(name))

LEMMA StatementControl ==
  ASSUME Statement
  PROVE  /\ Scanning
         /\ phase' \in {"scanning", "undefined"}
         /\ lastStatus' \in {"COMPILE_OK", "PARSE_ERROR", "LABEL_FULL"}
         /\ UNCHANGED <<caller, offbak, lineStart, by, base, before, clean>>
         /\ lastStatus' = "LABEL_FULL" =>
              RefuseLabel /\ \E name \in Labels : Wrote(Declares(name))
         /\ (\E name : UseOverrun(name)) => phase' = "undefined"
BY DEF Statement, Scanning, Wrote, CompileStatement, CompileMisspelled,
       DeclareLabel, UseDeclared, UseForward, RefuseLabel, UseOverrun

\* What is written is a statement of the text.
LEMMA StatementWritten ==
  ASSUME MCInv, Statement
  PROVE  \E s \in Item : /\ text' = Append(text, s)
                         /\ s.kind = "uses" => Len(s.bytes) = 1
                         /\ lastStatus' = "LABEL_FULL" => s.kind = "declares"
<1>1. offset \in Word
  BY DEF MCInv, AssemblerInv, TypeOK, CodeTypeOK
<1>2. CASE \E bytes \in Statements \cup Misspelled :
             (CompileStatement(bytes) \/ CompileMisspelled(bytes))
               /\ Wrote(Code(bytes))
  <2>1. PICK bytes \in Statements \cup Misspelled :
          (CompileStatement(bytes) \/ CompileMisspelled(bytes))
            /\ Wrote(Code(bytes))
    BY <1>2
  <2>2. PICK s : s = Placed(Code(bytes))
    OBVIOUS
  <2>3. s \in Item /\ s.kind = "code"
    BY <1>1, <2>2, StoredBytes, PlacedItems
  <2>4. text' = Append(text, s)
    BY <2>1, <2>2 DEF Wrote, Placed
  <2>5. lastStatus' # "LABEL_FULL"
    BY <2>1 DEF CompileStatement, CompileMisspelled, Scanning
  <2> QED BY <2>3, <2>4, <2>5
<1>3. CASE \E name \in Labels : Wrote(Declares(name))
  <2>1. PICK name \in Labels : Wrote(Declares(name))
    BY <1>3
  <2>2. PICK s : s = Placed(Declares(name))
    OBVIOUS
  <2>3. s \in Item /\ s.kind = "declares"
    BY <1>1, <2>2, PlacedItems
  <2>4. text' = Append(text, s)
    BY <2>1, <2>2 DEF Wrote, Placed
  <2> QED BY <2>3, <2>4
<1>4. CASE \E code \in UsingCodes, name \in Labels :
             (UseDeclared(code, name) \/ UseForward(code, name))
               /\ Wrote(Uses(code, name))
  <2>1. PICK code \in UsingCodes, name \in Labels :
          (UseDeclared(code, name) \/ UseForward(code, name))
            /\ Wrote(Uses(code, name))
    BY <1>4
  <2>2. PICK s : s = Placed(Uses(code, name))
    OBVIOUS
  <2>3. s \in Item /\ s.kind = "uses" /\ s.bytes = <<code>>
    BY <1>1, <2>2, PlacedItems, AssemblerAssumption
  <2>4. text' = Append(text, s)
    BY <2>1, <2>2 DEF Wrote, Placed
  <2>5. lastStatus' # "LABEL_FULL"
    BY <2>1 DEF UseDeclared, UseForward, Scanning
  <2>6. Len(s.bytes) = 1
    BY <2>3
  <2> QED BY <2>3, <2>4, <2>5, <2>6
<1> QED BY <1>2, <1>3, <1>4 DEF Statement

LEMMA StatementStep ==
  ASSUME MCInv, Statement
  PROVE  TextInv'
<1> USE DEF MCInv
<1>1. HistoryTypeOK /\ CallsAgree
  BY DEF TextInv
<1>2. PICK s \in Item : /\ text' = Append(text, s)
                        /\ s.kind = "uses" => Len(s.bytes) = 1
                        /\ lastStatus' = "LABEL_FULL" => s.kind = "declares"
  BY StatementWritten
<1>n. PICK n : n = Len(text)
  OBVIOUS
<1>3. /\ text' \in Seq(Item) /\ Len(text') = n + 1 /\ n \in Nat
      /\ DOMAIN text' = 1 .. n + 1 /\ DOMAIN text = 1 .. n
      /\ \A i \in 1 .. n : text'[i] = text[i]
      /\ text'[n + 1] = s
  BY <1>1, <1>2, <1>n, AppendProperties, LenProperties DEF HistoryTypeOK
<1>4. HistoryTypeOK'
  <2>1. lineStart' = lineStart /\ base' = base /\ clean' = clean
    BY StatementControl
  <2>2. lineStart' \in 0 .. n + 1
    BY <1>1, <1>3, <1>n, <2>1 DEF HistoryTypeOK
  <2>3. ASSUME NEW i \in DOMAIN text', text'[i].kind = "uses"
        PROVE  Len(text'[i].bytes) = 1
    <3>1. CASE i = n + 1
      BY <3>1, <2>3, <1>2, <1>3
    <3>2. CASE i \in 1 .. n
      BY <3>2, <2>3, <1>1, <1>3 DEF HistoryTypeOK
    <3> QED BY <3>1, <3>2, <1>3
  <2> QED BY <1>1, <1>3, <2>1, <2>2, <2>3 DEF HistoryTypeOK
<1>5. CallsAgree'
  BY <1>1, StatementControl DEF CallsAgree, Compiled, Scanning
<1>6. RefusedInLine'
  <2> SUFFICES ASSUME Refused', by' = "asm", phase' = "scanning"
               PROVE  \E i \in lineStart' + 1 .. Len(text') : text'[i].kind # "code"
    BY DEF RefusedInLine
  <2>1. lastStatus' = "LABEL_FULL" /\ lineStart' = lineStart
    BY StatementControl DEF Refused
  <2>2. text'[n + 1].kind # "code"
    BY <1>2, <1>3, <2>1
  <2>3. n + 1 \in lineStart' + 1 .. Len(text')
    BY <1>1, <1>3, <1>n, <2>1 DEF HistoryTypeOK
  <2> QED BY <2>2, <2>3
<1>7. WholeInv'
  <2> SUFFICES ASSUME Whole' PROVE WholeInv'
    BY DEF WholeInv
  <2>1. clean /\ ~memory_full' /\ phase' = "scanning" /\ lastStatus' # "LABEL_FULL"
    BY StatementControl DEF Whole, Refused
  <2>2. CASE \E bytes \in Statements \cup Misspelled :
               (CompileStatement(bytes) \/ CompileMisspelled(bytes))
                 /\ Wrote(Code(bytes))
    BY <2>1, <2>2, CodeWhole
  <2>3. CASE \E name \in Labels : DeclareLabel(name) /\ Wrote(Declares(name))
    BY <2>1, <2>3, DeclareWhole
  <2>4. CASE \E code \in UsingCodes, name \in Labels :
               (UseDeclared(code, name) \/ UseForward(code, name))
                 /\ Wrote(Uses(code, name))
    BY <2>1, <2>4, UseDeclaredWhole, ForwardWhole
  <2>5. ~RefuseLabel /\ \A name : ~UseOverrun(name)
    BY <2>1, StatementControl DEF RefuseLabel
  <2> QED BY <2>2, <2>3, <2>4, <2>5 DEF Statement
<1> QED BY <1>4, <1>5, <1>6, <1>7 DEF TextInv

-----------------------------------------------------------------------------
(* The callers.                                                             *)

LEMMA MCInitInv == ASSUME MCInit PROVE MCInv
<1>1. AssemblerInv
  BY InitInv DEF MCInit
<1>2. /\ text = <<>> /\ lineStart = 0 /\ by = "none" /\ base = 0
      /\ clean = TRUE /\ before = memory /\ offset = 0
      /\ labelTable = <<>> /\ pending_labels = <<>>
      /\ memory_full = FALSE /\ lastStatus = "COMPILE_OK"
      /\ caller = "none" /\ phase = "prompt"
  BY DEF MCInit, Init
<1>3. HistoryTypeOK
  <2>1. text \in Seq(Item) /\ Len(text) = 0 /\ DOMAIN text = {}
    BY <1>2
  <2>2. 0 \in Word
    BY AddrModAssumption DEF Word
  <2> QED BY <1>2, <2>1, <2>2 DEF HistoryTypeOK
<1>4. CallsAgree /\ RefusedInLine
  BY <1>2 DEF CallsAgree, RefusedInLine, Refused
<1>5. WholeInv
  BY <1>2 DEF WholeInv, Laid, At, Tabled, Held, Awaited, Confined
<1> QED BY <1>1, <1>3, <1>4, <1>5 DEF MCInv, TextInv

LEMMA OpenStep ==
  ASSUME MCInv, NEW addr \in Origins, Load(addr) \/ Asm(addr), Opened(addr)
  PROVE  TextInv'
<1>1. /\ text' = <<>> /\ lineStart' = 0 /\ base' = addr /\ clean' = TRUE
      /\ by' = caller' /\ before' = memory /\ offset' = addr
      /\ memory' = memory /\ memory_full' = FALSE
      /\ labelTable' = <<>> /\ pending_labels' = <<>>
  BY DEF Opened, Load, Asm, Reset, Enter
<1>2. \/ caller' = "load" /\ phase' = "scanning" /\ lastStatus' = "COMPILE_OK"
         /\ offbak' = addr
      \/ caller' = "asm" /\ phase' = "prompt"
  BY DEF Load, Asm, Enter
<1>3. HistoryTypeOK'
  <2>1. text' \in Seq(Item) /\ Len(text') = 0 /\ DOMAIN text' = {}
    BY <1>1
  <2>2. addr \in Word
    BY AssemblerAssumption
  <2> QED BY <1>1, <2>1, <2>2 DEF HistoryTypeOK
<1>4. CallsAgree' /\ RefusedInLine'
  BY <1>1, <1>2 DEF CallsAgree, RefusedInLine, Refused
<1>5. WholeInv'
  <2>1. DOMAIN text' = {} /\ DOMAIN labelTable' = {} /\ DOMAIN pending_labels' = {}
    BY <1>1
  <2>2. Laid'
    BY <1>1, <1>2, <2>1 DEF Laid, At
  <2>3. Tabled' /\ Held' /\ Awaited' /\ Confined'
    BY <1>1, <2>1 DEF Tabled, Held, Awaited, Confined
  <2> QED BY <2>2, <2>3 DEF WholeInv
<1> QED BY <1>3, <1>4, <1>5 DEF TextInv

\* Nothing is written or stored, and no operand is newly settled.
LEMMA Undisturbed ==
  ASSUME UNCHANGED <<text, base, by, before, labelTable, pending_labels, memory,
                     offset>>,
         Tabled, Held, Awaited, Confined,
         \A k \in DOMAIN pending_labels : Settled(k)' => Settled(k)
  PROVE  /\ \A i : At(i)' = At(i)
         /\ Tabled' /\ Held' /\ Awaited' /\ Confined'
<1>1. \A i : At(i)' = At(i)
  BY DEF At
<1>2. \A name : Declarations(name)' = Declarations(name)
  BY DEF Declarations
<1>3. \A i : Above(i)' = Above(i)
  BY <1>2 DEF Above
<1>4. \A k, i : Waits(k, i)' <=> Waits(k, i)
  BY <1>1, <1>3 DEF Waits
<1>5. Tabled'
  BY <1>2 DEF Tabled, Entries
<1>6. Held'
  BY <1>1, <1>3, <1>4 DEF Held, HeldAt, HoldsWord
<1>7. Awaited'
  BY <1>4 DEF Awaited, AwaitedAt, HoldsWord
<1>8. Confined'
  BY DEF Confined
<1> QED BY <1>1, <1>5, <1>6, <1>7, <1>8

LEMMA LineStep ==
  ASSUME MCInv, Line, Called(TRUE)
  PROVE  TextInv'
<1>1. HistoryTypeOK /\ CallsAgree
  BY DEF MCInv, TextInv
<1>2. /\ UNCHANGED <<text, by, base, before, labelTable, pending_labels, memory,
                    memory_full, caller, offset>>
      /\ clean' = clean /\ lineStart' = Len(text) /\ offbak' = offset
      /\ phase' = "scanning" /\ lastStatus' = "COMPILE_OK"
      /\ phase = "prompt" /\ caller = "asm"
  BY <1>1 DEF Line, Enter, Called, tables, HistoryTypeOK
<1>3. by = "asm"
  BY <1>1, <1>2 DEF CallsAgree
<1>4. HistoryTypeOK'
  <2>1. Len(text) \in 0 .. Len(text)
    BY <1>1, TextFacts
  <2> QED BY <1>1, <1>2, <2>1 DEF HistoryTypeOK
<1>5. CallsAgree' /\ RefusedInLine'
  BY <1>1, <1>2, <1>3 DEF CallsAgree, RefusedInLine, Refused, Compiled
<1>6. ASSUME Whole' PROVE Laid' /\ Tabled' /\ Held' /\ Awaited' /\ Confined'
  <2>1. Whole
    BY <1>2, <1>3, <1>6 DEF Whole, Refused
  <2>2. Laid /\ Tabled /\ Held /\ Awaited /\ Confined
    BY <2>1 DEF MCInv, TextInv, WholeInv
  <2>3. \A k : ~Settled(k)'
    BY <1>2 DEF Settled, Compiled
  <2>4. /\ \A i : At(i)' = At(i)
        /\ Tabled' /\ Held' /\ Awaited' /\ Confined'
    BY <1>2, <2>2, <2>3, Undisturbed
  <2>5. Laid'
    <3>1. PICK n : n = Len(text)
      OBVIOUS
    <3>2. offbak' = At(n + 1)'
      BY <1>1, <1>2, <3>1, TextFacts DEF At
    <3> QED BY <1>2, <2>2, <2>4, <3>1, <3>2 DEF Laid
  <2> QED BY <2>4, <2>5
<1> QED BY <1>4, <1>5, <1>6 DEF TextInv, WholeInv

\* After 'set' there is no more to say of the text as a whole.
LEMMA SetPointerStep ==
  ASSUME MCInv, NEW addr \in Origins, SetPointer(addr), Called(FALSE)
  PROVE  TextInv'
<1>1. HistoryTypeOK /\ CallsAgree
  BY DEF MCInv, TextInv
<1>2. /\ UNCHANGED <<text, by, base, lastStatus, memory_full, caller, phase>>
      /\ clean' = FALSE /\ lineStart' = Len(text)
      /\ phase = "prompt" /\ caller = "asm"
  BY DEF SetPointer, Called
<1>3. HistoryTypeOK'
  <2>1. Len(text) \in 0 .. Len(text)
    BY <1>1, TextFacts
  <2> QED BY <1>1, <1>2, <2>1 DEF HistoryTypeOK
<1>4. CallsAgree' /\ RefusedInLine'
  BY <1>1, <1>2 DEF CallsAgree, RefusedInLine, Compiled
<1>5. WholeInv'
  BY <1>2 DEF WholeInv, Whole
<1> QED BY <1>3, <1>4, <1>5 DEF TextInv

LEMMA ExitStep ==
  ASSUME MCInv, ExitAsm, UNCHANGED historyVars
  PROVE  TextInv'
<1>1. HistoryTypeOK /\ CallsAgree
  BY DEF MCInv, TextInv
<1>2. /\ UNCHANGED <<text, lineStart, by, base, before, clean>>
      /\ UNCHANGED <<labelTable, pending_labels, memory, offset, memory_full,
                     offbak, lastStatus, patched, phase>>
      /\ caller' = "none" /\ phase = "prompt" /\ caller = "asm"
  BY DEF ExitAsm, historyVars, tables
<1>3. HistoryTypeOK'
  BY <1>1, <1>2 DEF HistoryTypeOK
<1>4. CallsAgree' /\ RefusedInLine'
  BY <1>1, <1>2 DEF CallsAgree, RefusedInLine, Compiled
<1>5. ASSUME Whole' PROVE Laid' /\ Tabled' /\ Held' /\ Awaited' /\ Confined'
  <2>1. Laid /\ Tabled /\ Held /\ Awaited /\ Confined
    BY <1>2, <1>5 DEF MCInv, TextInv, WholeInv, Whole, Refused
  <2>2. \A k : Settled(k)' => Settled(k)
    BY <1>2 DEF Settled, Compiled
  <2>3. /\ \A i : At(i)' = At(i)
        /\ Tabled' /\ Held' /\ Awaited' /\ Confined'
    BY <1>2, <2>1, <2>2, Undisturbed
  <2>4. Laid'
    BY <1>2, <2>1, <2>3 DEF Laid
  <2> QED BY <2>3, <2>4
<1> QED BY <1>3, <1>4, <1>5 DEF TextInv, WholeInv

LEMMA BeginStep ==
  ASSUME MCInv, BeginPatching, UNCHANGED historyVars
  PROVE  TextInv'
<1>1. HistoryTypeOK /\ CallsAgree
  BY DEF MCInv, TextInv
<1>2. /\ UNCHANGED <<text, lineStart, by, base, before, clean>>
      /\ UNCHANGED <<labelTable, pending_labels, memory, offset, memory_full,
                     offbak, lastStatus, caller>>
      /\ phase = "scanning" /\ phase' = "patching" /\ patched' = 0
  BY DEF BeginPatching, historyVars, tables
<1>3. lastStatus = "COMPILE_OK" /\ ~memory_full
  BY <1>1 DEF BeginPatching, Outcome, CallsAgree
<1>4. HistoryTypeOK'
  BY <1>1, <1>2 DEF HistoryTypeOK
<1>5. CallsAgree' /\ RefusedInLine'
  BY <1>1, <1>2, <1>3 DEF CallsAgree, RefusedInLine, Compiled
<1>6. ASSUME Whole' PROVE Laid' /\ Tabled' /\ Held' /\ Awaited' /\ Confined'
  <2>1. Laid /\ Tabled /\ Held /\ Awaited /\ Confined
    BY <1>2, <1>3, <1>6 DEF MCInv, TextInv, WholeInv, Whole, Refused
  <2>2. \A k \in DOMAIN pending_labels : ~Settled(k)'
    <3>1. DOMAIN pending_labels = 1 .. Len(pending_labels)
      BY TableFacts DEF MCInv, AssemblerInv, TypeOK
    <3> QED BY <1>2, <3>1 DEF Settled, Compiled
  <2>3. /\ \A i : At(i)' = At(i)
        /\ Tabled' /\ Held' /\ Awaited' /\ Confined'
    BY <1>2, <2>1, <2>2, Undisturbed
  <2>4. Laid'
    BY <1>2, <2>1, <2>3 DEF Laid
  <2> QED BY <2>3, <2>4
<1> QED BY <1>4, <1>5, <1>6 DEF TextInv, WholeInv

\* When patch_labels is through, every operand is settled.
LEMMA FinishPatchingStep ==
  ASSUME MCInv, FinishPatching, Returned
  PROVE  TextInv'
<1>1. HistoryTypeOK /\ CallsAgree
  BY DEF MCInv, TextInv
<1>2. /\ phase = "patching" /\ phase' = "prompt"
      /\ patched = Len(pending_labels) /\ lastStatus' = lastStatus
      /\ lastStatus \in {"COMPILE_OK", "LABELS_PENDING"} /\ ~memory_full
      /\ caller = by
      /\ UNCHANGED <<labelTable, pending_labels, memory, memory_full, offbak>>
  BY <1>1 DEF FinishPatching, Return, CallsAgree, tables
<1>3. offset' = offset
      /\ caller' = IF caller = "load" THEN "none" ELSE caller
  BY <1>2 DEF FinishPatching, Return, Aborting
<1>4. clean' = clean /\ UNCHANGED <<text, lineStart, by, base, before>>
  BY <1>1, <1>2 DEF Returned, Aborting, HistoryTypeOK
<1>5. HistoryTypeOK'
  BY <1>1, <1>4 DEF HistoryTypeOK
<1>6. CallsAgree' /\ RefusedInLine'
  BY <1>1, <1>2, <1>3, <1>4 DEF CallsAgree, RefusedInLine, Compiled
<1>7. ASSUME Whole' PROVE Laid' /\ Tabled' /\ Held' /\ Awaited' /\ Confined'
  <2>1. Laid /\ Tabled /\ Held /\ Awaited /\ Confined
    BY <1>2, <1>4, <1>7 DEF MCInv, TextInv, WholeInv, Whole, Refused
  <2>2. \A k \in DOMAIN pending_labels : Settled(k)
    <3>1. DOMAIN pending_labels = 1 .. Len(pending_labels)
      BY TableFacts DEF MCInv, AssemblerInv, TypeOK
    <3> QED BY <1>2, <3>1 DEF Settled
  <2>3. /\ \A i : At(i)' = At(i)
        /\ Tabled' /\ Held' /\ Awaited' /\ Confined'
    BY <1>2, <1>3, <1>4, <2>1, <2>2, Undisturbed
  <2>4. Laid'
    BY <1>2, <1>4, <2>1, <2>3 DEF Laid
  <2> QED BY <2>3, <2>4
<1> QED BY <1>5, <1>6, <1>7 DEF TextInv, WholeInv

-----------------------------------------------------------------------------
(* The end of compile().                                                    *)

\* What is left of the text when the line is struck.
LEMMA StruckText ==
  ASSUME HistoryTypeOK, NEW m, m = lineStart
  PROVE  /\ SubSeq(text, 1, m) \in Seq(Item)
         /\ Len(SubSeq(text, 1, m)) = m /\ DOMAIN SubSeq(text, 1, m) = 1 .. m
         /\ \A i \in 1 .. m : SubSeq(text, 1, m)[i] = text[i]
<1>1. /\ m \in 0 .. Len(text) /\ Len(text) \in Nat /\ DOMAIN text = 1 .. Len(text)
      /\ \A i \in 1 .. Len(text) : text[i] \in Item
  BY TextFacts DEF HistoryTypeOK
<1>2. \A i \in 1 .. m : text[i] \in Item
  BY <1>1
<1>3. m \in Int /\ 1 \in Int
  BY <1>1
<1>4. /\ SubSeq(text, 1, m) \in Seq(Item)
      /\ Len(SubSeq(text, 1, m)) = IF 1 <= m THEN m - 1 + 1 ELSE 0
      /\ \A i \in 1 .. m - 1 + 1 : SubSeq(text, 1, m)[i] = text[1 + i - 1]
  BY <1>2, <1>3, SubSeqProperties
<1>5. Len(SubSeq(text, 1, m)) = m
  BY <1>1, <1>4
<1>6. \A i \in 1 .. m : i \in 1 .. m - 1 + 1 /\ 1 + i - 1 = i
  BY <1>1
<1> QED BY <1>4, <1>5, <1>6, LenProperties

\* A line of nothing but code that failed is struck: the text is what it was
\* before, and the pointer is back where the line began.
LEMMA Struck ==
  ASSUME CodeTypeOK, HistoryTypeOK, Laid, Tabled, Held, Awaited, Confined,
         by = "asm", phase = "scanning", phase' = "prompt",
         \A i \in lineStart + 1 .. Len(text) : text[i].kind = "code",
         NEW m, m = lineStart,
         Len(text') = m, DOMAIN text' = 1 .. m,
         \A i \in 1 .. m : text'[i] = text[i],
         offset' = offbak,
         UNCHANGED <<lineStart, base, by, before, labelTable, pending_labels,
                     memory, offbak>>,
         \A k : ~Settled(k)'
  PROVE  Laid' /\ Tabled' /\ Held' /\ Awaited' /\ Confined'
<1>n. PICK n : n = Len(text)
  OBVIOUS
<1>1. n \in Nat /\ DOMAIN text = 1 .. n /\ m \in 0 .. n
  BY <1>n, TextFacts DEF HistoryTypeOK
<1>2. /\ Len(text') = m /\ DOMAIN text' = 1 .. m
      /\ \A i \in 1 .. m : text'[i] = text[i]
  OBVIOUS
<1>3. \A i \in 1 .. m + 1 : At(i)' = At(i)
  <2>1. offbak = At(m + 1)
    BY DEF Laid
  <2>2. m + 1 \notin DOMAIN text'
    BY <1>1, <1>2
  <2>3. At(m + 1)' = At(m + 1)
    BY <2>1, <2>2 DEF At
  <2>4. \A i \in 1 .. m : At(i)' = At(i)
    BY <1>1, <1>2 DEF At
  <2>5. \A i \in 1 .. m + 1 : i \in 1 .. m \/ i = m + 1
    BY <1>1
  <2> QED BY <2>3, <2>4, <2>5
<1>4. \A i \in DOMAIN text : text[i].kind # "code" => i \in DOMAIN text'
  BY <1>n, <1>1, <1>2
<1>5. ASSUME NEW name PROVE Declarations(name)' = Declarations(name)
  <2>1. \A d : d \in Declarations(name)' <=> d \in Declarations(name)
    BY <1>1, <1>2, <1>4 DEF Declarations
  <2> QED BY <2>1
<1>6. ASSUME NEW i \in 1 .. m PROVE Above(i)' = Above(i)
  <2>1. \A d : d \in Above(i)' <=> d \in Above(i)
    BY <1>2, <1>5 DEF Above
  <2> QED BY <2>1
<1>7. ASSUME NEW i \in 1 .. m, NEW k PROVE Waits(k, i)' <=> Waits(k, i)
  <2>1. At(i)' = At(i) /\ Above(i)' = Above(i) /\ text'[i] = text[i]
    BY <1>1, <1>2, <1>3, <1>6
  <2> QED BY <2>1 DEF Waits
<1>8. \A i \in 1 .. m : i \in DOMAIN text /\ i \in 1 .. m + 1 /\ i + 1 \in 1 .. m + 1
  BY <1>1
<1>9. Laid'
  <2>1. At(1)' = base'
    BY <1>1, <1>3 DEF Laid
  <2>2. ASSUME NEW i \in 1 .. m
        PROVE  At(i + 1)' = At(i)' + Size(text'[i]) /\ base' <= At(i)'
    <3>1. At(i + 1) = At(i) + Size(text[i]) /\ base <= At(i)
      BY <1>8 DEF Laid
    <3> QED BY <3>1, <1>2, <1>3, <1>8
  <2>3. ASSUME NEW i \in 1 .. m, NEW j \in 1 .. m + 1, i < j
        PROVE  At(i)' + Size(text'[i]) <= At(j)'
    <3>1. j \in 1 .. n + 1
      BY <1>1
    <3>2. At(i) + Size(text[i]) <= At(j)
      BY <2>3, <3>1, <1>8, <1>n DEF Laid
    <3> QED BY <3>2, <1>2, <1>3, <1>8
  <2> QED BY <2>1, <2>2, <2>3, <1>2 DEF Laid
<1>10. \A i \in DOMAIN text : text[i].kind = "declares" \/ text[i].kind = "uses" =>
         i \in 1 .. m
  BY <1>2, <1>4
<1>11. Tabled'
  <2>1. ASSUME NEW l \in DOMAIN labelTable
        PROVE  (IF labelTable[l].isDeclared
                  THEN \E d \in DOMAIN text :
                         /\ IsLast(d, Declarations(labelTable[l].label))
                         /\ labelTable[l].offset = text[d].at
                  ELSE Declarations(labelTable[l].label) = {})'
    <3>1. PICK other : other = labelTable[l].label
      OBVIOUS
    <3>2. Declarations(other)' = Declarations(other)
      BY <1>5
    <3>3. CASE labelTable[l].isDeclared
      <4>1. PICK d \in DOMAIN text :
              IsLast(d, Declarations(other)) /\ labelTable[l].offset = text[d].at
        BY <3>1, <3>3 DEF Tabled
      <4>2. d \in DOMAIN text' /\ text'[d] = text[d]
        <5>1. text[d].kind = "declares"
          BY <4>1 DEF IsLast, Declarations
        <5> QED BY <5>1, <1>2, <1>10
      <4> QED BY <3>1, <3>2, <3>3, <4>1, <4>2 DEF IsLast
    <3>4. CASE ~labelTable[l].isDeclared
      BY <3>1, <3>2, <3>4 DEF Tabled
    <3> QED BY <3>3, <3>4
  <2>2. ASSUME NEW i \in DOMAIN text', text'[i].kind = "declares"
        PROVE  (Entries(text[i].label) # {})'
    BY <2>2, <1>2, <1>8 DEF Tabled, Entries
  <2> QED BY <2>1, <2>2 DEF Tabled
<1>12. ASSUME NEW i \in 1 .. m PROVE HeldAt(i)'
  <2>1. HeldAt(i) /\ text'[i] = text[i] /\ At(i)' = At(i) /\ Above(i)' = Above(i)
    BY <1>2, <1>3, <1>6, <1>8 DEF Held
  <2>2. ASSUME NEW d \in DOMAIN text, IsLast(d, Above(i))
        PROVE  d \in DOMAIN text' /\ text'[d] = text[d]
    <3>1. text[d].kind = "declares"
      BY <2>2 DEF IsLast, Above, Declarations
    <3> QED BY <3>1, <1>2, <1>10
  <2>3. \A k : Waits(k, i) => Waits(k, i)'
    BY <1>7
  <2> QED BY <2>1, <2>2, <2>3 DEF HeldAt, HoldsWord, IsLast
<1>13. ASSUME NEW k \in DOMAIN pending_labels PROVE AwaitedAt(k)'
  <2>1. PICK i \in DOMAIN text : Waits(k, i)
    BY DEF Awaited, AwaitedAt
  <2>2. i \in 1 .. m
    BY <2>1, <1>10 DEF Waits
  <2>3. i \in DOMAIN text' /\ Waits(k, i)'
    BY <2>1, <2>2, <1>2, <1>7
  <2> QED BY <2>3 DEF Awaited, AwaitedAt, HoldsWord
<1>14. Confined'
  BY DEF Confined
<1> QED BY <1>2, <1>9, <1>11, <1>12, <1>13, <1>14 DEF Held, Awaited

\* What the line has written.
LEMMA LineText ==
  ASSUME HistoryTypeOK, NEW j \in lineStart + 1 .. Len(text)
  PROVE  /\ j - lineStart \in DOMAIN SubSeq(text, lineStart + 1, Len(text))
         /\ SubSeq(text, lineStart + 1, Len(text))[j - lineStart] = text[j]
<1>1. /\ lineStart \in Nat /\ lineStart <= Len(text) /\ Len(text) \in Nat
      /\ \A i \in 1 .. Len(text) : text[i] \in Item
  BY TextFacts DEF HistoryTypeOK
<1>2. PICK n : n = Len(text)
  OBVIOUS
<1>3. PICK m : m = lineStart + 1
  OBVIOUS
<1>4. m \in Int /\ n \in Int /\ \A i \in m .. n : text[i] \in Item
  BY <1>1, <1>2, <1>3
<1>5. /\ SubSeq(text, m, n) \in Seq(Item)
      /\ Len(SubSeq(text, m, n)) = IF m <= n THEN n - m + 1 ELSE 0
      /\ \A i \in 1 .. n - m + 1 : SubSeq(text, m, n)[i] = text[m + i - 1]
  BY <1>4, SubSeqProperties
<1>6. j - lineStart \in 1 .. n - m + 1 /\ m <= n /\ m + (j - lineStart) - 1 = j
  BY <1>1, <1>2, <1>3
<1>7. DOMAIN SubSeq(text, m, n) = 1 .. n - m + 1
  BY <1>5, <1>6, LenProperties
<1>8. SubSeq(text, m, n)[j - lineStart] = text[j]
  BY <1>5, <1>6
<1> QED BY <1>2, <1>3, <1>6, <1>7, <1>8

LEMMA FinishStatus ==
  ASSUME MCInv, Finish
  PROVE  /\ lastStatus' \in {"PARSE_ERROR", "LABEL_FULL", "MEMORY_FULL",
                             "EMPTY_PROGRAM", "NO_HLT"}
         /\ lastStatus' = "EMPTY_PROGRAM" => offset = offbak
         /\ lastStatus = "LABEL_FULL" => lastStatus' = "LABEL_FULL"
         /\ phase = "scanning" /\ phase' = "prompt"
         /\ caller = by /\ by \in {"load", "asm"}
         /\ caller' = IF by = "load" THEN "none" ELSE by
         /\ offset' = IF by = "asm" /\ lastStatus' # "NO_HLT" THEN offbak ELSE offset
         /\ UNCHANGED <<labelTable, pending_labels, memory, memory_full, has_halt,
                        offbak, patched>>
<1>1. phase = "scanning" /\ CallsAgree
  BY DEF MCInv, TextInv, Finish
<1>2. caller = by /\ by \in {"load", "asm"}
      /\ lastStatus \in {"COMPILE_OK", "PARSE_ERROR", "LABEL_FULL"}
  BY <1>1 DEF CallsAgree
<1>3. /\ Outcome # "COMPILE_OK"
      /\ Outcome \in {"PARSE_ERROR", "LABEL_FULL", "MEMORY_FULL",
                      "EMPTY_PROGRAM", "NO_HLT"}
      /\ Outcome = "EMPTY_PROGRAM" => offset = offbak
      /\ lastStatus = "LABEL_FULL" => Outcome = "LABEL_FULL"
  <2>1. Outcome # "COMPILE_OK"
    BY DEF Finish
  <2> QED BY <2>1, <1>2 DEF Outcome, Scanning
<1>4. /\ lastStatus' = Outcome /\ phase' = "prompt"
      /\ IF caller = "load"
           THEN caller' = "none" /\ UNCHANGED offset
           ELSE /\ offset' = IF Outcome \in Aborting THEN offbak ELSE offset
                /\ UNCHANGED caller
      /\ UNCHANGED <<labelTable, pending_labels, memory, memory_full, has_halt,
                     offbak, patched>>
  BY DEF Finish, Return, tables
<1> HIDE DEF Outcome
<1>5. Outcome \in Aborting <=> Outcome # "NO_HLT"
  BY <1>3 DEF Aborting
<1>6. /\ lastStatus' \in {"PARSE_ERROR", "LABEL_FULL", "MEMORY_FULL",
                          "EMPTY_PROGRAM", "NO_HLT"}
      /\ lastStatus' = "EMPTY_PROGRAM" => offset = offbak
      /\ lastStatus = "LABEL_FULL" => lastStatus' = "LABEL_FULL"
  BY <1>3, <1>4
<1>7. caller' = IF by = "load" THEN "none" ELSE by
  BY <1>2, <1>4
<1>8. offset' = IF by = "asm" /\ lastStatus' # "NO_HLT" THEN offbak ELSE offset
  <2>1. CASE by = "load"
    <3>1. offset' = offset
      BY <2>1, <1>2, <1>4
    <3> QED BY <2>1, <3>1
  <2>2. CASE by = "asm"
    <3>1. offset' = IF lastStatus' # "NO_HLT" THEN offbak ELSE offset
      BY <1>2, <1>4, <1>5, <2>2
    <3> QED BY <2>2, <3>1
  <2> QED BY <1>2, <2>1, <2>2
<1>9. phase' = "prompt"
      /\ UNCHANGED <<labelTable, pending_labels, memory, memory_full, has_halt,
                     offbak, patched>>
  BY <1>4
<1> QED BY <1>1, <1>2, <1>6, <1>7, <1>8, <1>9

LEMMA FinishStep ==
  ASSUME MCInv, Finish, Returned
  PROVE  TextInv'
<1>1. HistoryTypeOK /\ CallsAgree /\ RefusedInLine
  BY DEF MCInv, TextInv
<1>2. /\ lastStatus' \in {"PARSE_ERROR", "LABEL_FULL", "MEMORY_FULL",
                          "EMPTY_PROGRAM", "NO_HLT"}
      /\ lastStatus' = "EMPTY_PROGRAM" => offset = offbak
      /\ lastStatus = "LABEL_FULL" => lastStatus' = "LABEL_FULL"
      /\ phase = "scanning" /\ phase' = "prompt"
      /\ caller = by /\ by \in {"load", "asm"}
      /\ caller' = IF by = "load" THEN "none" ELSE by
      /\ offset' = IF by = "asm" /\ lastStatus' # "NO_HLT" THEN offbak ELSE offset
      /\ UNCHANGED <<labelTable, pending_labels, memory, memory_full, has_halt,
                     offbak, patched>>
  BY FinishStatus
<1>3. UNCHANGED <<lineStart, by, base, before>>
  BY DEF Returned
<1> DEFINE line == SubSeq(text, lineStart + 1, Len(text))
           fails == by = "asm" /\ lastStatus' \in {"PARSE_ERROR", "LABEL_FULL",
                                                   "MEMORY_FULL"}
<1>4. /\ text' = IF fails THEN SubSeq(text, 1, lineStart) ELSE text
      /\ clean' = (clean /\ (fails => \A i \in DOMAIN line : line[i].kind = "code"))
  <2>1. lastStatus' \in Aborting \ {"EMPTY_PROGRAM"}
          <=> lastStatus' \in {"PARSE_ERROR", "LABEL_FULL", "MEMORY_FULL"}
    BY DEF Aborting
  <2> QED BY <2>1 DEF Returned
<1>5. fails \in BOOLEAN
  OBVIOUS
<1>m. PICK m : m = lineStart
  OBVIOUS
<1>6. fails => /\ text' \in Seq(Item) /\ Len(text') = m /\ DOMAIN text' = 1 .. m
               /\ \A i \in 1 .. m : text'[i] = text[i]
  <2> SUFFICES ASSUME fails
               PROVE  /\ text' \in Seq(Item) /\ Len(text') = m
                      /\ DOMAIN text' = 1 .. m
                      /\ \A i \in 1 .. m : text'[i] = text[i]
    OBVIOUS
  <2>1. text' = SubSeq(text, 1, m)
    BY <1>4, <1>m
  <2> QED BY <2>1, <1>1, <1>m, StruckText
<1>7. ~fails => text' = text /\ clean' = clean
  BY <1>1, <1>4 DEF HistoryTypeOK
<1>8. clean' \in BOOLEAN
  BY <1>4
<1>9. clean' => clean
  BY <1>4
<1>10. fails /\ clean' =>
         \A j \in lineStart + 1 .. Len(text) : text[j].kind = "code"
  <2> SUFFICES ASSUME fails, clean', NEW j \in lineStart + 1 .. Len(text)
               PROVE  text[j].kind = "code"
    OBVIOUS
  <2>1. \A i \in DOMAIN line : line[i].kind = "code"
    BY <1>4
  <2>2. j - lineStart \in DOMAIN line /\ line[j - lineStart] = text[j]
    BY <1>1, LineText
  <2> QED BY <2>1, <2>2
<1> HIDE DEF line
<1>11. HistoryTypeOK'
  <2>1. CASE fails
    <3>1. m \in Nat /\ m \in 0 .. m /\ \A i \in 1 .. m : i \in DOMAIN text
      BY <1>1, <1>m, TextFacts DEF HistoryTypeOK
    <3> QED BY <2>1, <3>1, <1>1, <1>3, <1>6, <1>8, <1>m DEF HistoryTypeOK
  <2>2. CASE ~fails
    BY <2>2, <1>1, <1>3, <1>7 DEF HistoryTypeOK
  <2> QED BY <2>1, <2>2
<1>12. CallsAgree' /\ RefusedInLine'
  <2>1. by = "load" => ~fails
    OBVIOUS
  <2> HIDE DEF fails
  <2> QED BY <1>1, <1>2, <1>3, <1>7, <2>1 DEF CallsAgree, RefusedInLine, Compiled
<1>13. \A k : ~Settled(k)'
  BY <1>2 DEF Settled, Compiled
<1>14. ASSUME Whole' PROVE Laid' /\ Tabled' /\ Held' /\ Awaited' /\ Confined'
  <2>1. clean' /\ clean /\ ~memory_full
    BY <1>2, <1>9, <1>14 DEF Whole
  <2>2. lastStatus # "LABEL_FULL"
    <3> SUFFICES ASSUME lastStatus = "LABEL_FULL" PROVE FALSE
      OBVIOUS
    <3>1. CASE by = "load"
      BY <3>1, <1>2, <1>3, <1>14 DEF Whole, Refused
    <3>2. CASE by = "asm"
      <4>1. fails
        BY <3>2, <1>2
      <4>2. \E i \in lineStart + 1 .. Len(text) : text[i].kind # "code"
        BY <3>2, <1>1, <1>2 DEF RefusedInLine, Refused
      <4> QED BY <4>1, <4>2, <2>1, <1>10
    <3> QED BY <3>1, <3>2, <1>2
  <2>3. Laid /\ Tabled /\ Held /\ Awaited /\ Confined
    BY <2>1, <2>2, <1>2 DEF MCInv, TextInv, WholeInv, Whole, Refused
  <2>4. CASE fails
    <3>1. by = "asm" /\ offset' = offbak
      BY <2>4, <1>2
    <3>2. \A j \in lineStart + 1 .. Len(text) : text[j].kind = "code"
      BY <2>1, <2>4, <1>10
    <3>3. /\ Len(text') = m /\ DOMAIN text' = 1 .. m
          /\ \A i \in 1 .. m : text'[i] = text[i]
      BY <2>4, <1>6
    <3>4. CodeTypeOK
      BY DEF MCInv, AssemblerInv, TypeOK
    <3> HIDE DEF fails
    <3> QED BY <2>3, <3>1, <3>2, <3>3, <3>4, <1>1, <1>2, <1>3, <1>m, <1>13, Struck
  <2>5. CASE ~fails
    <3>1. offset' = offset
      BY <2>5, <1>2
    <3>2. text' = text
      BY <2>5, <1>7
    <3>3. /\ \A i : At(i)' = At(i)
          /\ Tabled' /\ Held' /\ Awaited' /\ Confined'
      BY <2>3, <3>1, <3>2, <1>2, <1>3, <1>13, Undisturbed
    <3>4. Laid'
      BY <2>3, <3>2, <3>3, <1>2, <1>3 DEF Laid
    <3> QED BY <3>3, <3>4
  <2> QED BY <2>4, <2>5
<1> QED BY <1>11, <1>12, <1>14 DEF TextInv, WholeInv

\* The cells of an operand that waits.
LEMMA OperandCells ==
  ASSUME CodeTypeOK, HistoryTypeOK, Laid,
         NEW k \in DOMAIN pending_labels, NEW i \in DOMAIN text, Waits(k, i)
  PROVE  /\ pending_labels[k].offset = At(i) + 1 /\ At(i) \in Nat
         /\ At(i) + 1 \in Cells /\ At(i) + 2 \in Cells
         /\ base <= At(i) /\ At(i) + 2 < offset
         /\ Size(text[i]) = 3 /\ Len(text[i].bytes) = 1
<1>1. /\ pending_labels[k].offset = At(i) + 1 /\ text[i].kind = "uses"
      /\ Size(text[i]) = 3 /\ Len(text[i].bytes) = 1
  BY DEF Waits, Size, HistoryTypeOK
<1>2. /\ At(i) \in Nat /\ base <= At(i) /\ At(i) + 3 <= offset /\ offset <= MemSize
      /\ offset \in Nat /\ base \in Nat /\ MemSize \in Nat
  BY <1>1, Places
<1> QED BY <1>1, <1>2 DEF Cells

\* The step stores the address of a label in the operand of the use at i.
LEMMA Patched ==
  ASSUME AssemblerInv, HistoryTypeOK, Laid, Held, Awaited, Confined,
         NEW k \in DOMAIN pending_labels, k = patched + 1,
         NEW i \in DOMAIN text, Waits(k, i),
         NEW l, l = labelTable[pending_labels[k].idx], l.isDeclared,
         NEW a, a = pending_labels[k].offset,
         memory'[a] = Low(l.offset), memory'[a + 1] = High(l.offset),
         \A c \in Cells : c # a /\ c # a + 1 => memory'[c] = memory[c],
         phase = "patching", phase' = "patching", patched' = k,
         UNCHANGED <<text, base, by, before, labelTable, pending_labels, offset>>
  PROVE  Held' /\ Awaited' /\ Confined'
<1>1. CodeTypeOK /\ TablesTypeOK /\ TablesAgree
  BY DEF AssemblerInv, TypeOK
<1>2. PICK w : w = l.offset
  OBVIOUS
<1>3. a = At(i) + 1
  BY DEF Waits
<1>4. /\ a \in Cells /\ a + 1 \in Cells
      /\ base < a /\ a + 1 < offset /\ a \in Nat
      /\ Size(text[i]) = 3 /\ Len(text[i].bytes) = 1
      /\ At(i) = a - 1 /\ At(i) \in Nat /\ base \in Nat /\ offset \in Nat
      /\ MemSize \in Nat
  <2>1. base \in Nat /\ offset \in Nat /\ MemSize \in Nat
    BY <1>1, Places
  <2> QED BY <1>1, <1>3, <2>1, OperandCells
<1>5. /\ memory'[a] = Low(w) /\ memory'[a + 1] = High(w)
      /\ \A c \in Cells : c # a /\ c # a + 1 => memory'[c] = memory[c]
  BY <1>2
<1>6. ASSUME NEW j \in DOMAIN text, j # i, NEW x \in 0 .. Size(text[j]) - 1
      PROVE  memory'[At(j) + x] = memory[At(j) + x]
  <2>1. PICK c : c = At(j) + x
    OBVIOUS
  <2>2. c \in Cells
    <3>1. /\ At(j) \in Nat /\ At(j) + Size(text[j]) <= offset
          /\ offset <= MemSize /\ Size(text[j]) \in Nat
      BY <1>1, Places, TextFacts
    <3> QED BY <2>1, <3>1, <1>4 DEF Cells
  <2>3. 1 \in 0 .. Size(text[i]) - 1 /\ 2 \in 0 .. Size(text[i]) - 1
    BY <1>4
  <2>4. At(j) + x # At(i) + 1 /\ At(j) + x # At(i) + 2
    BY <1>1, <1>6, <2>3, Apart
  <2>5. c # a /\ c # a + 1
    BY <1>3, <1>4, <2>1, <2>4
  <2> QED BY <1>5, <2>1, <2>2, <2>5
<1>7. /\ \A j : At(j)' = At(j)
      /\ \A j : Above(j)' = Above(j)
      /\ \A q, j : Waits(q, j)' <=> Waits(q, j)
  <2>1. \A j : At(j)' = At(j)
    BY DEF At
  <2>2. \A j : Above(j)' = Above(j)
    BY DEF Above, Declarations
  <2> QED BY <2>1, <2>2 DEF Waits
<1>8. ASSUME NEW j \in DOMAIN text PROVE HeldAt(j)'
  <2>1. HeldAt(j) /\ DOMAIN text[j].bytes = 1 .. Len(text[j].bytes)
        /\ Len(text[j].bytes) <= Size(text[j]) /\ Size(text[j]) \in Nat
        /\ Len(text[j].bytes) \in Nat /\ At(j) \in Nat
    BY <1>1, TextFacts, Places DEF Held
  <2>2. ASSUME NEW b \in DOMAIN text[j].bytes
        PROVE  memory'[At(j) + b - 1] = memory[At(j) + b - 1]
    <3>1. CASE j = i
      <4>1. b = 1 /\ At(j) + b - 1 = a - 1
        BY <3>1, <2>1, <1>4
      <4>2. a - 1 \in Cells /\ a - 1 # a /\ a - 1 # a + 1
        BY <1>4 DEF Cells
      <4> QED BY <4>1, <4>2, <1>5
    <3>2. CASE j # i
      <4>1. b - 1 \in 0 .. Size(text[j]) - 1 /\ At(j) + b - 1 = At(j) + (b - 1)
        BY <2>1
      <4> QED BY <3>2, <4>1, <1>6
    <3> QED BY <3>1, <3>2
  <2>3. ASSUME text[j].kind = "uses",
               NEW d \in DOMAIN text, IsLast(d, Above(j)),
               HoldsWord(At(j) + 1, text[d].at)
        PROVE  HoldsWord(At(j) + 1, text[d].at)'
    <3>1. j # i
      BY <2>3 DEF Waits, IsLast
    <3>2. Size(text[j]) = 3
      BY <2>3 DEF Size
    <3>3. 1 \in 0 .. Size(text[j]) - 1 /\ 2 \in 0 .. Size(text[j]) - 1
      BY <3>2
    <3>4. /\ memory'[At(j) + 1] = memory[At(j) + 1]
          /\ memory'[At(j) + 2] = memory[At(j) + 2]
          /\ At(j) + 1 + 1 = At(j) + 2
      BY <2>1, <3>1, <3>3, <1>6
    <3> QED BY <2>3, <3>4, <1>7 DEF HoldsWord
  <2> QED BY <2>1, <2>2, <2>3, <1>7 DEF HeldAt, IsLast
<1>9. ASSUME NEW q \in DOMAIN pending_labels PROVE AwaitedAt(q)'
  <2>1. AwaitedAt(q)
    BY DEF Awaited
  <2>2. PICK j \in DOMAIN text : Waits(q, j)
    BY <2>1 DEF AwaitedAt
  <2>3. PICK m : m = labelTable[pending_labels[q].idx]
    OBVIOUS
  <2>4. PICK o : o = pending_labels[q].offset
    OBVIOUS
  <2>5. o = At(j) + 1 /\ Size(text[j]) = 3 /\ At(j) \in Nat
    BY <1>1, <2>2, <2>4, OperandCells
  <2>6. CASE j = i
    <3>1. pending_labels[q].token = pending_labels[k].token
      BY <2>2, <2>6 DEF Waits
    <3>2. m = l
      BY <2>3, <3>1, <1>1, Referred DEF TablesAgree, LabelsUnique
    <3>3. HoldsWord(o, w)'
      BY <2>5, <2>6, <1>3, <1>5 DEF HoldsWord
    <3> QED BY <2>2, <2>3, <2>4, <3>2, <3>3, <1>2, <1>7 DEF AwaitedAt
  <2>7. CASE j # i
    <3>1. 1 \in 0 .. Size(text[j]) - 1 /\ 2 \in 0 .. Size(text[j]) - 1
          /\ 1 \in 0 .. Size(text[i]) - 1
      BY <2>5, <1>4
    <3>2. /\ memory'[At(j) + 1] = memory[At(j) + 1]
          /\ memory'[At(j) + 2] = memory[At(j) + 2]
          /\ At(j) + 1 + 1 = At(j) + 2
      BY <2>5, <2>7, <3>1, <1>6
    <3>3. \A v : HoldsWord(o, v)' <=> HoldsWord(o, v)
      BY <2>5, <3>2 DEF HoldsWord
    <3>4. q # k
      <4>1. At(j) + 1 # At(i) + 1
        BY <2>7, <3>1, <1>1, Apart
      <4> QED BY <4>1, <2>4, <2>5, <1>3, <1>4
    <3>5. Settled(q)' => Settled(q)
      <4>1. q \in Nat /\ patched \in Nat
        BY <1>1, TableFacts DEF AssemblerInv, TypeOK, ControlTypeOK
      <4> QED BY <3>4, <4>1 DEF Settled, Compiled
    <3>6. /\ ~m.isDeclared => HoldsWord(o, 0)
          /\ m.isDeclared /\ Settled(q) => HoldsWord(o, m.offset)
      BY <2>1, <2>3, <2>4 DEF AwaitedAt
    <3>7. /\ ~m.isDeclared => HoldsWord(o, 0)'
          /\ m.isDeclared /\ Settled(q)' => HoldsWord(o, m.offset)'
      BY <3>3, <3>5, <3>6
    <3> QED BY <2>2, <2>3, <2>4, <3>7, <1>7 DEF AwaitedAt
  <2> QED BY <2>6, <2>7
<1>10. Confined'
  <2> SUFFICES ASSUME NEW c \in Cells, c < base \/ (c >= offset /\ by = "load")
               PROVE  memory'[c] = before[c]
    BY DEF Confined
  <2>1. memory[c] = before[c]
    BY DEF Confined
  <2>2. c # a /\ c # a + 1
    BY <1>4 DEF Cells
  <2> QED BY <2>1, <2>2, <1>5
<1> QED BY <1>8, <1>9, <1>10 DEF Held, Awaited

LEMMA PatchTextStep ==
  ASSUME MCInv, PatchNext, UNCHANGED historyVars
  PROVE  TextInv'
<1>1. HistoryTypeOK /\ CallsAgree /\ AssemblerInv
      /\ CodeTypeOK /\ TablesTypeOK /\ TablesAgree
  BY DEF MCInv, TextInv, AssemblerInv, TypeOK
<1>2. /\ UNCHANGED <<text, lineStart, by, base, before, clean>>
      /\ UNCHANGED <<labelTable, offset, memory_full, offbak, caller>>
      /\ phase = "patching" /\ phase' = "patching" /\ patched' = patched + 1
      /\ lastStatus \in {"COMPILE_OK", "LABELS_PENDING"}
      /\ lastStatus' \in {"COMPILE_OK", "LABELS_PENDING"}
  BY <1>1 DEF PatchNext, historyVars, CallsAgree
<1>3. HistoryTypeOK'
  BY <1>1, <1>2 DEF HistoryTypeOK
<1>4. CallsAgree' /\ RefusedInLine'
  BY <1>1, <1>2 DEF CallsAgree, RefusedInLine, Compiled
<1>5. ASSUME Whole' PROVE Laid' /\ Tabled' /\ Held' /\ Awaited' /\ Confined'
  <2>1. Laid /\ Tabled /\ Held /\ Awaited /\ Confined
    BY <1>2, <1>5 DEF MCInv, TextInv, WholeInv, Whole, Refused
  <2>2. PICK k : k = patched + 1
    OBVIOUS
  <2>3. k \in DOMAIN pending_labels /\ k \in Nat /\ patched \in Nat
    BY <2>2, <1>1, TableFacts DEF PatchNext, AssemblerInv, TypeOK, ControlTypeOK
  <2>4. PICK l : l = labelTable[pending_labels[k].idx]
    OBVIOUS
  <2>5. \A i : At(i)' = At(i)
    BY <1>2 DEF At
  <2>6. \A name : Declarations(name)' = Declarations(name)
    BY <1>2 DEF Declarations
  <2>7. Laid'
    BY <1>2, <2>1, <2>5 DEF Laid
  <2>8. Tabled'
    BY <1>2, <2>1, <2>6 DEF Tabled, Entries
  <2>9. CASE l.isDeclared
    <3>1. /\ memory' = [memory EXCEPT
                ![pending_labels[k].offset] = Low(l.offset),
                ![pending_labels[k].offset + 1] = High(l.offset)]
          /\ pending_labels' = pending_labels
      BY <2>2, <2>4, <2>9 DEF PatchNext
    <3>2. PICK i \in DOMAIN text : Waits(k, i)
      BY <2>1, <2>3 DEF Awaited, AwaitedAt
    <3>3. PICK a : a = pending_labels[k].offset
      OBVIOUS
    <3>4. a \in Cells /\ a + 1 \in Cells /\ a \in Nat
      <4>1. /\ a = At(i) + 1 /\ At(i) \in Nat
            /\ At(i) + 1 \in Cells /\ At(i) + 2 \in Cells
        BY <1>1, <2>1, <2>3, <3>2, <3>3, OperandCells
      <4>2. At(i) + 2 = a + 1
        BY <4>1
      <4> QED BY <4>1, <4>2
    <3>5. /\ memory'[a] = Low(l.offset) /\ memory'[a + 1] = High(l.offset)
          /\ \A c \in Cells : c # a /\ c # a + 1 => memory'[c] = memory[c]
      <4>1. a # a + 1
        BY <3>4
      <4> QED BY <1>1, <3>1, <3>3, <3>4, <4>1 DEF CodeTypeOK
    <3>6. /\ phase = "patching" /\ phase' = "patching" /\ patched' = k
          /\ UNCHANGED <<text, base, by, before, labelTable, pending_labels, offset>>
      BY <1>2, <2>2, <3>1
    <3>7. Held' /\ Awaited' /\ Confined'
      BY <1>1, <2>1, <2>2, <2>3, <2>4, <2>9, <3>2, <3>3, <3>5, <3>6, Patched
    <3> QED BY <2>7, <2>8, <3>7
  <2>10. CASE ~l.isDeclared
    <3>1. /\ pending_labels' = [pending_labels EXCEPT ![k].decl_shown = TRUE]
          /\ memory' = memory
      BY <2>2, <2>4, <2>10 DEF PatchNext
    <3>2. /\ DOMAIN pending_labels' = DOMAIN pending_labels
          /\ \A j \in DOMAIN pending_labels :
               /\ pending_labels'[j].token = pending_labels[j].token
               /\ pending_labels'[j].idx = pending_labels[j].idx
               /\ pending_labels'[j].offset = pending_labels[j].offset
      <4>1. \A j \in DOMAIN pending_labels : pending_labels[j] \in PendingEntry
        BY <1>1, TableFacts
      <4> QED BY <2>3, <3>1, <4>1, <1>1 DEF TablesTypeOK, PendingEntry
    <3>3. \A i : Above(i)' = Above(i)
      BY <1>2, <2>6 DEF Above
    <3>4. \A j \in DOMAIN pending_labels : \A i : Waits(j, i)' <=> Waits(j, i)
      BY <1>2, <2>5, <3>2, <3>3 DEF Waits
    <3>5. Held'
      BY <1>2, <2>1, <2>5, <3>1, <3>2, <3>3, <3>4 DEF Held, HeldAt, HoldsWord
    <3>6. ASSUME NEW j \in DOMAIN pending_labels PROVE AwaitedAt(j)'
      <4>1. (\E i \in DOMAIN text : Waits(j, i))'
        BY <1>2, <2>1, <3>4 DEF Awaited, AwaitedAt
      <4>2. j # k /\ Settled(j)' => Settled(j)
        <5>1. j \in Nat
          BY <1>1, TableFacts
        <5> QED BY <5>1, <1>2, <2>2, <2>3 DEF Settled, Compiled
      <4>3. PICK m : m = labelTable[pending_labels[j].idx]
        OBVIOUS
      <4>4. j = k => ~m.isDeclared
        BY <2>4, <2>10, <4>3
      <4>5. AwaitedAt(j)
        BY <2>1 DEF Awaited
      <4> QED BY <1>2, <3>1, <3>2, <4>1, <4>2, <4>3, <4>4, <4>5
              DEF AwaitedAt, HoldsWord
    <3>7. Confined'
      BY <1>2, <2>1, <3>1 DEF Confined
    <3> QED BY <2>7, <2>8, <3>2, <3>5, <3>6, <3>7 DEF Awaited
  <2> QED BY <2>9, <2>10
<1> QED BY <1>3, <1>4, <1>5 DEF TextInv, WholeInv

-----------------------------------------------------------------------------
(* The invariant.                                                           *)

\* Every step is one of the assembler, and so keeps what is proved of it.
LEMMA MCNextIsNext == ASSUME [MCNext]_mcVars PROVE [Next]_compilerVars
<1>1. CASE MCNext
  BY <1>1 DEF MCNext, Next, Compile
<1>2. CASE UNCHANGED mcVars
  BY <1>2 DEF mcVars
<1> QED BY <1>1, <1>2

LEMMA MCInvInductive == ASSUME MCInv, [MCNext]_mcVars PROVE MCInv'
<1>1. AssemblerInv'
  BY MCNextIsNext, AssemblerInvInductive DEF MCInv
<1>2. CASE \E addr \in Origins : (Load(addr) \/ Asm(addr)) /\ Opened(addr)
  BY <1>1, <1>2, OpenStep DEF MCInv
<1>3. CASE \E addr \in Origins : SetPointer(addr) /\ Called(FALSE)
  BY <1>1, <1>3, SetPointerStep DEF MCInv
<1>4. CASE Line /\ Called(TRUE)
  BY <1>1, <1>4, LineStep DEF MCInv
<1>5. CASE ExitAsm /\ UNCHANGED historyVars
  BY <1>1, <1>5, ExitStep DEF MCInv
<1>6. CASE Statement
  BY <1>1, <1>6, StatementStep DEF MCInv
<1>7. CASE (Finish \/ FinishPatching) /\ Returned
  BY <1>1, <1>7, FinishStep, FinishPatchingStep DEF MCInv
<1>8. CASE (BeginPatching \/ PatchNext) /\ UNCHANGED historyVars
  BY <1>1, <1>8, BeginStep, PatchTextStep DEF MCInv
<1>9. CASE UNCHANGED mcVars
  <2>1. UNCHANGED <<compilerVars, historyVars>> /\ TextInv
    BY <1>9 DEF mcVars, MCInv
  <2>2. HistoryTypeOK' /\ CallsAgree' /\ RefusedInLine'
    BY <2>1 DEF compilerVars, tables, historyVars, TextInv, HistoryTypeOK,
           CallsAgree, RefusedInLine, Refused, Compiled
  <2>3. Whole' => Laid /\ Tabled /\ Held /\ Awaited /\ Confined
    BY <2>1 DEF compilerVars, tables, historyVars, TextInv, WholeInv, Whole,
           Refused
  <2>4. Laid /\ Tabled /\ Confined => Laid' /\ Tabled' /\ Confined'
    BY <2>1 DEF compilerVars, tables, historyVars, Laid, Tabled, Confined, At,
           Declarations, Entries, IsLast
  <2>5. Held /\ Awaited => Held' /\ Awaited'
    BY <2>1 DEF compilerVars, tables, historyVars, Held, Awaited, At, HeldAt,
           AwaitedAt, Settled, Compiled, Waits, Above, Declarations, IsLast,
           HoldsWord
  <2>6. TextInv'
    BY <2>2, <2>3, <2>4, <2>5 DEF TextInv, WholeInv
  <2> QED BY <1>1, <2>6 DEF MCInv
<1> QED BY <1>2, <1>3, <1>4, <1>5, <1>6, <1>7, <1>8, <1>9 DEF MCNext, Statement

LEMMA MCInvHolds == MCSpec => []MCInv
BY MCInitInv, MCInvInductive, PTL DEF MCSpec

-----------------------------------------------------------------------------
(* The reading in two passes.                                               *)

Before == {ss \in Nat \X Nat : ss[1] < ss[2]}

LEMMA BeforeWellFounded == IsWellFoundedOn(Before, Nat)
<1>1. OpToRel(<, Nat) = Before
  BY Zenon DEF OpToRel, Before
<1> QED BY <1>1, NatLessThanWellFounded, Zenon

\* A set of numbers has a least one; this is what stands for induction.
LEMMA Least ==
  ASSUME NEW X, X \subseteq Nat, X # {}
  PROVE  \E x \in X : \A y \in X : x <= y
<1>1. PICK x \in X : \A y \in X : ~(<<y, x>> \in Before)
  BY BeforeWellFounded, WFMin, Zenon
<1>2. ASSUME NEW y \in X PROVE x <= y
  <2>1. x \in Nat /\ y \in Nat /\ <<y, x>> \notin Before
    BY <1>1
  <2>2. ~(y < x)
    BY <2>1 DEF Before
  <2> QED BY <2>1, <2>2
<1> QED BY <1>2

\* The first pass, whatever names the places it finds.
LEMMA AddressIs ==
  ASSUME HistoryTypeOK, NEW p, p[1] = base,
         \A i \in DOMAIN text : p[i + 1] = p[i] + Size(text[i])
  PROVE  \A i \in 1 .. Len(text) + 1 : Address[i] = p[i]
<1>n. PICK n : n = Len(text)
  OBVIOUS
<1> DEFINE Sums(f) == f = [i \in 0 .. n |-> IF i = 0 THEN base
                                            ELSE f[i - 1] + Size(text[i])]
<1>1. n \in Nat /\ DOMAIN text = 1 .. n
  BY <1>n, TextFacts
<1>2. p[1] = base /\ \A i \in 1 .. n : p[i + 1] = p[i] + Size(text[i])
  BY <1>1
<1>3. Sums([i \in 0 .. n |-> p[i + 1]])
  <2> DEFINE g == [i \in 0 .. n |-> p[i + 1]]
  <2>1. ASSUME NEW i \in 0 .. n
        PROVE  p[i + 1] = IF i = 0 THEN base ELSE g[i - 1] + Size(text[i])
    <3>1. CASE i = 0
      BY <3>1, <1>2
    <3>2. CASE i # 0
      <4>1. i \in 1 .. n /\ i - 1 \in 0 .. n /\ i - 1 + 1 = i
        BY <1>1, <3>2
      <4> QED BY <3>2, <4>1, <1>2
    <3> QED BY <3>1, <3>2
  <2> QED BY <2>1
<1>4. PICK f : /\ Sums(f)
               /\ Address = [i \in 1 .. n + 1 |-> f[i - 1]]
  <2>1. Sums(CHOOSE f : Sums(f))
    BY <1>3
  <2>2. Address = [i \in 1 .. n + 1 |-> (CHOOSE f : Sums(f))[i - 1]]
    BY <1>n DEF Address
  <2> QED BY <2>1, <2>2
<1>5. \A i \in 0 .. n : f[i] = IF i = 0 THEN base ELSE f[i - 1] + Size(text[i])
  BY <1>4
<1> DEFINE X == {i \in 0 .. n : f[i] # p[i + 1]}
<1>6. X = {}
  <2> SUFFICES ASSUME X # {} PROVE FALSE
    OBVIOUS
  <2>1. X \subseteq Nat
    BY <1>1
  <2> HIDE DEF X
  <2>2. PICK x \in X : \A y \in X : x <= y
    BY <2>1, Least
  <2>3. x \in 0 .. n /\ f[x] # p[x + 1]
    BY DEF X
  <2>4. x # 0
    BY <2>3, <1>2, <1>5
  <2>5. x \in 1 .. n /\ x - 1 \in 0 .. n /\ x - 1 + 1 = x /\ ~(x <= x - 1)
    BY <2>3, <2>4, <1>1
  <2>6. f[x - 1] = p[x]
    BY <2>2, <2>5 DEF X
  <2>7. f[x] = f[x - 1] + Size(text[x])
    BY <2>3, <2>4, <1>5
  <2> QED BY <2>3, <2>5, <2>6, <2>7, <1>2
<1>7. ASSUME NEW i \in 1 .. n + 1 PROVE Address[i] = p[i]
  <2>1. i - 1 \in 0 .. n /\ i - 1 + 1 = i
    BY <1>1
  <2>2. f[i - 1] = p[i]
    BY <2>1, <1>6
  <2> QED BY <2>2, <1>4
<1> QED BY <1>7, <1>n

\* It finds each statement where the assembler has laid it.
LEMMA AddressIsAt ==
  ASSUME CodeTypeOK, HistoryTypeOK, Laid
  PROVE  \A i \in 1 .. Len(text) + 1 : Address[i] = At(i)
<1>1. PICK p : p = [i \in 1 .. Len(text) + 1 |-> At(i)]
  OBVIOUS
<1>2. /\ 1 \in 1 .. Len(text) + 1
      /\ \A i \in DOMAIN text : i \in 1 .. Len(text) + 1 /\ i + 1 \in 1 .. Len(text) + 1
  BY TextFacts
<1>3. p[1] = base /\ \A i \in DOMAIN text : p[i + 1] = p[i] + Size(text[i])
  BY <1>1, <1>2 DEF Laid
<1> QED BY <1>1, <1>3, AddressIs

\* It finds the end of a text that does not fit as well.
LEMMA AddressIsEnd ==
  ASSUME HistoryTypeOK, Chained
  PROVE  Address[Len(text) + 1] = End
<1>n. PICK n : n = Len(text)
  OBVIOUS
<1>1. /\ n \in Nat /\ DOMAIN text = 1 .. n /\ n + 1 \in 1 .. n + 1
      /\ text = <<>> <=> n = 0
  BY <1>n, TextFacts, EmptySeq DEF HistoryTypeOK
<1>2. PICK p : p = [i \in 1 .. n + 1 |-> IF i <= n THEN text[i].at ELSE End]
  OBVIOUS
<1>3. p[n + 1] = End /\ \A i \in 1 .. n : p[i] = text[i].at
  BY <1>1, <1>2
<1>4. p[1] = base
  <2>1. CASE n = 0
    BY <2>1, <1>1, <1>3 DEF End
  <2>2. CASE n # 0
    <3>1. 1 \in 1 .. n /\ text # <<>>
      BY <2>2, <1>1
    <3> QED BY <3>1, <1>3 DEF Chained
  <2> QED BY <2>1, <2>2
<1>5. ASSUME NEW i \in 1 .. n PROVE p[i + 1] = p[i] + Size(text[i])
  <2>1. CASE i = n
    <3>1. text # <<>>
      BY <2>1, <1>1
    <3> QED BY <2>1, <3>1, <1>3, <1>n DEF End
  <2>2. CASE i # n
    <3>1. i + 1 \in 1 .. n
      BY <2>2, <1>1
    <3> QED BY <3>1, <1>1, <1>3 DEF Chained
  <2> QED BY <2>1, <2>2
<1>6. \A i \in 1 .. n + 1 : Address[i] = p[i]
  BY <1>1, <1>4, <1>5, <1>n, AddressIs
<1> QED BY <1>1, <1>3, <1>6, <1>n

LEMMA MaxIsLast ==
  ASSUME NEW s, s \subseteq Nat, NEW d, IsLast(d, s)
  PROVE  s # {} /\ Max(s) = d
<1>1. d \in s /\ d \in Nat /\ \A e \in s : e \in Nat /\ e <= d
  BY DEF IsLast
<1>2. \A x \in s : (\A y \in s : x >= y) => x = d
  <2> SUFFICES ASSUME NEW x \in s, \A y \in s : x >= y PROVE x = d
    OBVIOUS
  <2>1. x \in Nat /\ x >= d /\ x <= d
    BY <1>1
  <2> QED BY <2>1, <1>1
<1>3. \E x \in s : \A y \in s : x >= y
  BY <1>1
<1>4. Max(s) \in s /\ \A y \in s : Max(s) >= y
  BY <1>3, Zenon DEF Max
<1> QED BY <1>1, <1>2, <1>4

\* With everything settled, the operand of each use holds what it stands for.
LEMMA TargetHeld ==
  ASSUME MCInv, Laid, Tabled, Held, Awaited,
         \A k \in DOMAIN pending_labels : Settled(k),
         NEW i \in DOMAIN text, text[i].kind = "uses"
  PROVE  HoldsWord(At(i) + 1, Target(i))
<1>1. CodeTypeOK /\ TablesTypeOK /\ TablesAgree /\ HistoryTypeOK
  BY DEF MCInv, AssemblerInv, TypeOK, TextInv
<1>2. PICK all : all = Declarations(text[i].label)
  OBVIOUS
<1>3. /\ all \subseteq DOMAIN text /\ DOMAIN text = 1 .. Len(text)
      /\ Len(text) \in Nat /\ DOMAIN text \subseteq Nat
  BY <1>1, <1>2, TextFacts DEF Declarations
<1>4. \A d \in DOMAIN text : Address[d] = text[d].at
  <2>1. \A d \in DOMAIN text : d \in 1 .. Len(text) + 1
    BY <1>3
  <2> QED BY <1>1, <2>1, AddressIsAt, Places
<1>5. Above(i) = {d \in all : d < i}
  BY <1>2 DEF Above
<1>6. Target(i) = IF Above(i) # {} THEN Address[Max(Above(i))]
                  ELSE IF all # {} THEN Address[Max(all)] ELSE 0
  BY <1>2, <1>5 DEF Target
<1>7. CASE \E d \in DOMAIN text :
             IsLast(d, Above(i)) /\ HoldsWord(At(i) + 1, text[d].at)
  <2>1. PICK d \in DOMAIN text :
          IsLast(d, Above(i)) /\ HoldsWord(At(i) + 1, text[d].at)
    BY <1>7
  <2>2. Above(i) \subseteq Nat
    BY <1>3, <1>5
  <2>3. Above(i) # {} /\ Max(Above(i)) = d
    BY <2>1, <2>2, MaxIsLast
  <2> QED BY <2>1, <2>3, <1>4, <1>6
<1>8. CASE \E k \in DOMAIN pending_labels : Waits(k, i)
  <2>1. PICK k \in DOMAIN pending_labels : Waits(k, i)
    BY <1>8
  <2>2. PICK l : l = labelTable[pending_labels[k].idx]
    OBVIOUS
  <2>3. /\ pending_labels[k].idx \in DOMAIN labelTable /\ l.label = text[i].label
        /\ pending_labels[k].offset = At(i) + 1 /\ Above(i) = {}
    BY <1>1, <2>1, <2>2, Referred DEF Waits
  <2>4. AwaitedAt(k) /\ Settled(k)
    BY DEF Awaited
  <2>5. CASE l.isDeclared
    <3>1. HoldsWord(At(i) + 1, l.offset)
      BY <2>2, <2>3, <2>4, <2>5 DEF AwaitedAt
    <3>2. PICK d \in DOMAIN text : IsLast(d, all) /\ l.offset = text[d].at
      BY <1>2, <2>2, <2>3, <2>5 DEF Tabled
    <3>3. all # {} /\ Max(all) = d
      BY <3>2, <1>3, MaxIsLast
    <3> QED BY <3>1, <3>2, <3>3, <2>3, <1>4, <1>6
  <2>6. CASE ~l.isDeclared
    <3>1. HoldsWord(At(i) + 1, 0)
      BY <2>2, <2>3, <2>4, <2>6 DEF AwaitedAt
    <3>2. all = {}
      BY <1>2, <2>2, <2>3, <2>6 DEF Tabled
    <3> QED BY <3>1, <3>2, <2>3, <1>6
  <2> QED BY <2>5, <2>6
<1> QED BY <1>7, <1>8 DEF Held, HeldAt

LEMMA TwoPasses == ASSUME MCInv PROVE AssembledExactly
<1> SUFFICES ASSUME Compiled, clean, text # <<>>
             PROVE  /\ offset = Address[Len(text) + 1]
                    /\ \A i \in DOMAIN text : \A k \in DOMAIN Bytes(i) :
                         memory[Address[i] + k - 1] = Bytes(i)[k]
                    /\ \A c \in Cells : c < base \/ (c >= offset /\ by = "load")
                                        => memory[c] = before[c]
  BY DEF AssembledExactly
<1>1. CodeTypeOK /\ HistoryTypeOK /\ CallsAgree
  BY DEF MCInv, AssemblerInv, TypeOK, TextInv
<1>2. Whole
  BY <1>1 DEF Whole, Compiled, CallsAgree, Refused
<1>3. Laid /\ Tabled /\ Held /\ Awaited /\ Confined
  BY <1>2 DEF MCInv, TextInv, WholeInv
<1>4. \A k \in DOMAIN pending_labels : Settled(k)
  BY DEF Settled
<1>n. PICK n : n = Len(text)
  OBVIOUS
<1>5. /\ n \in Nat /\ DOMAIN text = 1 .. n
      /\ \A i \in 1 .. n + 1 : Address[i] = At(i)
      /\ At(n + 1) = offset
  BY <1>1, <1>3, <1>n, TextFacts, AddressIsAt, Places
<1>6. offset = Address[Len(text) + 1]
  BY <1>5, <1>n
<1>7. ASSUME NEW i \in DOMAIN text, NEW k \in DOMAIN Bytes(i)
      PROVE  memory[Address[i] + k - 1] = Bytes(i)[k]
  <2>1. Address[i] = At(i) /\ At(i) \in Nat
    BY <1>1, <1>3, <1>5, Places
  <2>2. \A b \in DOMAIN text[i].bytes : memory[At(i) + b - 1] = text[i].bytes[b]
    BY <1>3 DEF Held, HeldAt
  <2>3. CASE text[i].kind # "uses"
    <3>1. Bytes(i) = text[i].bytes
      BY <2>3 DEF Bytes
    <3> QED BY <2>1, <2>2, <3>1
  <2>4. CASE text[i].kind = "uses"
    <3>1. PICK w : w = Target(i)
      OBVIOUS
    <3>2. HoldsWord(At(i) + 1, w)
      BY <1>3, <1>4, <2>4, <3>1, TargetHeld
    <3>3. PICK op : op = text[i].bytes
      OBVIOUS
    <3>4. PICK two : two = <<Low(w), High(w)>>
      OBVIOUS
    <3>5. PICK S : S = Byte \cup {Low(w), High(w)}
      OBVIOUS
    <3>6. /\ op \in Seq(S) /\ Len(op) = 1 /\ 1 \in DOMAIN op
          /\ two \in Seq(S) /\ Len(two) = 2
          /\ two[1] = Low(w) /\ two[2] = High(w)
      <4>1. op \in Seq(Byte) /\ Len(op) = 1
        BY <1>1, <2>4, <3>3, TextFacts DEF HistoryTypeOK
      <4>2. op \in Seq(S) /\ 1 \in DOMAIN op
        BY <4>1, <3>5
      <4>3. two \in Seq(S)
        BY <3>4, <3>5
      <4> QED BY <4>1, <4>2, <4>3, <3>4
    <3>7. Bytes(i) = op \o two
      BY <2>4, <3>1, <3>3, <3>4 DEF Bytes
    <3>8. /\ DOMAIN (op \o two) = 1 .. 3
          /\ (op \o two)[1] = op[1]
          /\ (op \o two)[2] = two[1] /\ (op \o two)[3] = two[2]
      <4>1. /\ (op \o two) \in Seq(S) /\ Len(op \o two) = 3
            /\ \A b \in 1 .. 3 : (op \o two)[b] =
                                  IF b <= 1 THEN op[b] ELSE two[b - 1]
        <5>1. /\ (op \o two) \in Seq(S) /\ Len(op \o two) = Len(op) + Len(two)
              /\ \A b \in 1 .. Len(op) + Len(two) : (op \o two)[b] =
                   IF b <= Len(op) THEN op[b] ELSE two[b - Len(op)]
          BY <3>6, ConcatProperties, Zenon
        <5> QED BY <3>6, <5>1
      <4>2. DOMAIN (op \o two) = 1 .. 3
        BY <4>1, LenProperties
      <4>3. 1 \in 1 .. 3 /\ 2 \in 1 .. 3 /\ 3 \in 1 .. 3
        OBVIOUS
      <4>4. 2 - 1 = 1 /\ 3 - 1 = 2 /\ 1 <= 1 /\ ~(2 <= 1) /\ ~(3 <= 1)
        OBVIOUS
      <4> QED BY <4>1, <4>2, <4>3, <4>4
    <3>9. k \in 1 .. 3
      BY <3>7, <3>8
    <3>10. CASE k = 1
      BY <2>1, <2>2, <3>3, <3>6, <3>7, <3>8, <3>10
    <3>11. CASE k = 2
      <4>1. At(i) + k - 1 = At(i) + 1
        BY <3>11, <2>1
      <4> QED BY <4>1, <2>1, <3>2, <3>6, <3>7, <3>8, <3>11 DEF HoldsWord
    <3>12. CASE k = 3
      <4>1. At(i) + k - 1 = At(i) + 1 + 1
        BY <3>12, <2>1
      <4> QED BY <4>1, <2>1, <3>2, <3>6, <3>7, <3>8, <3>12 DEF HoldsWord
    <3> QED BY <3>9, <3>10, <3>11, <3>12
  <2> QED BY <2>3, <2>4
<1> QED BY <1>3, <1>6, <1>7 DEF Confined

(***************************************************************************)
(* The one-pass assembler of compiler.c is a two-pass one: whatever is     *)
(* loaded or typed line by line into the inline shell, with labels used    *)
(* before and after their declarations and with lines that fail, what the  *)
(* memory holds when compile() reports success is the text read twice,     *)
(* and no other cell has changed; for every program, every length of a     *)
(* session and every size of the memory and of the tables.                 *)
(***************************************************************************)
THEOREM AssemblesExactly == MCSpec => []AssembledExactly
BY MCInvHolds, TwoPasses, PTL

-----------------------------------------------------------------------------
(* What load answers.                                                       *)

\* A text that fits ends where the next statement will be.
LEMMA LaidEnds ==
  ASSUME CodeTypeOK, HistoryTypeOK, Laid
  PROVE  Chained /\ End = offset
<1>n. PICK n : n = Len(text)
  OBVIOUS
<1>1. /\ n \in Nat /\ DOMAIN text = 1 .. n /\ At(n + 1) = offset
      /\ \A i \in 1 .. n : /\ At(i) \in Nat /\ At(i) = text[i].at
                           /\ At(i + 1) = At(i) + Size(text[i])
  BY <1>n, TextFacts, Places DEF Laid
<1>2. text = <<>> <=> n = 0
  BY <1>n, EmptySeq DEF HistoryTypeOK
<1>3. At(1) = base
  BY DEF Laid
<1>4. text # <<>> => 1 \in 1 .. n /\ n \in 1 .. n
  BY <1>1, <1>2
<1>5. Chained
  BY <1>1, <1>3, <1>4 DEF Chained
<1>6. CASE text = <<>>
  <2>1. End = base /\ n + 1 = 1
    BY <1>2, <1>6 DEF End
  <2> QED BY <1>1, <1>3, <1>5, <2>1
<1>7. CASE text # <<>>
  <2>1. End = text[n].at + Size(text[n])
    BY <1>7, <1>n DEF End
  <2> QED BY <1>1, <1>4, <1>5, <1>7, <2>1
<1> QED BY <1>6, <1>7

LEMMA Overflowed ==
  ASSUME offset \in Word, NEW bytes \in Seq(Byte), Write(bytes), memory_full'
  PROVE  offset + Len(bytes) > MemSize
<1> DEFINE room == MemSize - offset
           fits == IF Len(bytes) <= room THEN Len(bytes) ELSE room
<1>1. Len(bytes) \in Nat /\ offset \in Nat /\ MemSize \in Nat
  BY AddrModAssumption, LenProperties DEF Word, MemSize
<1>2. fits < Len(bytes)
  BY DEF Write
<1> QED BY <1>1, <1>2

\* One more statement of a file that is heard.
Hears(s) ==
  /\ s \in Item /\ text' = Append(text, s) /\ s.at = offset
  /\ memory_full' => offset + Size(s) > MemSize
  /\ has_halt' <=> (has_halt \/ Halts(s))
  /\ \A k \in DOMAIN pending_labels' :
       \/ k \in DOMAIN pending_labels /\ pending_labels'[k] = pending_labels[k]
       \/ ~pending_labels'[k].decl_shown

LEMMA StatementHeard ==
  ASSUME MCInv, Statement, lastStatus' = "COMPILE_OK", phase' = "scanning"
  PROVE  \E s : Hears(s)
<1>1. /\ offset \in Word /\ TablesTypeOK /\ TablesAgree /\ CodeTypeOK
      /\ has_halt \in BOOLEAN
  BY DEF MCInv, AssemblerInv, TypeOK, CodeTypeOK
<1>2. Scanning /\ ~memory_full
  BY StatementControl DEF Scanning
<1>3. CASE \E bytes \in Statements \cup Misspelled :
             (CompileStatement(bytes) \/ CompileMisspelled(bytes))
               /\ Wrote(Code(bytes))
  <2>1. PICK bytes \in Statements \cup Misspelled :
          (CompileStatement(bytes) \/ CompileMisspelled(bytes))
            /\ Wrote(Code(bytes))
    BY <1>3
  <2>2. CompileStatement(bytes) /\ bytes \in Seq(Byte)
    BY <2>1, StoredBytes DEF CompileMisspelled
  <2>3. PICK s : s = Placed(Code(bytes))
    OBVIOUS
  <2>4. s \in Item /\ s.kind = "code" /\ s.bytes = bytes /\ s.at = offset
    BY <1>1, <2>2, <2>3, PlacedItems
  <2>5. text' = Append(text, s)
    BY <2>1, <2>3 DEF Wrote, Placed
  <2>6. Size(s) = Len(bytes) /\ (Halts(s) <=> bytes[1] = HltCode)
    BY <2>4 DEF Size, Halts
  <2>7. memory_full' => offset + Size(s) > MemSize
    BY <1>1, <2>2, <2>6, Overflowed DEF CompileStatement
  <2>8. has_halt' <=> (has_halt \/ Halts(s))
    BY <2>2, <2>6 DEF CompileStatement
  <2>9. pending_labels' = pending_labels
    BY <2>2 DEF CompileStatement, tables
  <2> QED BY <2>4, <2>5, <2>7, <2>8, <2>9 DEF Hears
<1>4. CASE \E name \in Labels : DeclareLabel(name) /\ Wrote(Declares(name))
  <2>1. PICK name \in Labels : DeclareLabel(name) /\ Wrote(Declares(name))
    BY <1>4
  <2>2. PICK s : s = Placed(Declares(name))
    OBVIOUS
  <2>3. s \in Item /\ s.kind = "declares" /\ s.at = offset
    BY <1>1, <2>2, PlacedItems
  <2>4. text' = Append(text, s)
    BY <2>1, <2>2 DEF Wrote, Placed
  <2>5. ~Halts(s)
    BY <2>3 DEF Halts
  <2>6. pending_labels' = pending_labels /\ has_halt' = has_halt /\ ~memory_full'
    BY <1>2, <2>1 DEF DeclareLabel
  <2> QED BY <2>3, <2>4, <2>5, <2>6 DEF Hears
<1>5. CASE \E code \in UsingCodes, name \in Labels :
             (UseDeclared(code, name) \/ UseForward(code, name))
               /\ Wrote(Uses(code, name))
  <2>1. PICK code \in UsingCodes, name \in Labels :
          (UseDeclared(code, name) \/ UseForward(code, name))
            /\ Wrote(Uses(code, name))
    BY <1>5
  <2>2. PICK s : s = Placed(Uses(code, name))
    OBVIOUS
  <2>3. s \in Item /\ s.kind = "uses" /\ s.at = offset
    BY <1>1, <2>2, PlacedItems, AssemblerAssumption
  <2>4. text' = Append(text, s)
    BY <2>1, <2>2 DEF Wrote, Placed
  <2>5. ~Halts(s) /\ Size(s) = 3
    BY <2>3 DEF Halts, Size
  <2>6. has_halt' = has_halt
    BY <2>1 DEF UseDeclared, UseForward
  <2>7. PICK bytes \in Seq(Byte) : Write(bytes) /\ Len(bytes) = 3
    <3>1. CASE UseForward(code, name)
      <4>1. Write(<<code, 0, 0>>) /\ <<code, 0, 0>> \in Seq(Byte)
        BY <3>1, StoredBytes DEF UseForward
      <4> QED BY <4>1
    <3>2. CASE UseDeclared(code, name)
      <4>1. PICK i \in DOMAIN labelTable :
              Write(<<code, Low(labelTable[i].offset), High(labelTable[i].offset)>>)
        BY <3>2 DEF UseDeclared, Entries
      <4>2. labelTable[i].offset \in Word
        BY <1>1, TableFacts DEF LabelEntry
      <4>3. <<code, Low(labelTable[i].offset), High(labelTable[i].offset)>> \in Seq(Byte)
        BY <4>2, StoredBytes
      <4> QED BY <4>1, <4>3
    <3> QED BY <2>1, <3>1, <3>2
  <2>8. memory_full' => offset + Size(s) > MemSize
    BY <1>1, <2>5, <2>7, Overflowed
  <2>9. \A k \in DOMAIN pending_labels' :
          \/ k \in DOMAIN pending_labels /\ pending_labels'[k] = pending_labels[k]
          \/ ~pending_labels'[k].decl_shown
    <3>1. CASE UseDeclared(code, name)
      BY <3>1 DEF UseDeclared, tables
    <3>2. CASE UseForward(code, name)
      <4>1. PICK p : pending_labels' = Append(pending_labels, p) /\ ~p.decl_shown
        <5>1. PICK m : pending_labels' = Append(pending_labels, Pending(name, m))
          BY <1>1, <3>2, ForwardTable
        <5>2. ~Pending(name, m).decl_shown
          BY DEF Pending
        <5> QED BY <5>1, <5>2
      <4>2. pending_labels \in Seq(PendingEntry)
        BY <1>1 DEF TablesTypeOK
      <4>3. PICK k : k = Len(pending_labels) + 1
        OBVIOUS
      <4>4. /\ DOMAIN pending_labels' = DOMAIN pending_labels \cup {k}
            /\ pending_labels'[k] = p
            /\ \A j \in DOMAIN pending_labels : pending_labels'[j] = pending_labels[j]
        BY <4>1, <4>2, <4>3
      <4> QED BY <4>1, <4>4
    <3> QED BY <2>1, <3>1, <3>2
  <2> QED BY <2>3, <2>4, <2>5, <2>6, <2>8, <2>9 DEF Hears
<1>6. ~RefuseLabel /\ \A name : ~UseOverrun(name)
  BY StatementControl DEF RefuseLabel
<1> QED BY <1>3, <1>4, <1>5, <1>6 DEF Statement

LEMMA StatementAnswers ==
  ASSUME MCInv, AnswerInv, Statement
  PROVE  AnswerInv'
<1> SUFFICES ASSUME Heard' PROVE AnswerInv'
  BY DEF AnswerInv
<1>1. /\ Scanning /\ phase' = "scanning" /\ lastStatus' = "COMPILE_OK"
      /\ by' = "load" /\ by = "load" /\ base' = base
  BY StatementControl DEF Heard
<1>2. CodeTypeOK /\ HistoryTypeOK /\ CallsAgree /\ TextInv
  BY DEF MCInv, AssemblerInv, TypeOK, TextInv
<1>3. FactsGathered /\ \A k \in DOMAIN pending_labels : ~pending_labels[k].decl_shown
  BY <1>1 DEF AnswerInv, Heard, Scanning
<1>4. Chained /\ End = offset
  BY <1>1, <1>2, LaidEnds, ScanningWhole DEF CallsAgree
<1>5. PICK s : Hears(s)
  BY <1>1, StatementHeard
<1>n. PICK n : n = Len(text)
  OBVIOUS
<1>6. /\ n \in Nat /\ DOMAIN text = 1 .. n /\ DOMAIN text' = 1 .. n + 1
      /\ Len(text') = n + 1 /\ text' # <<>>
      /\ \A i \in 1 .. n : text'[i] = text[i]
      /\ text'[n + 1] = s /\ s.at = offset
  <2>1. text \in Seq(Item) /\ s \in Item /\ text' = Append(text, s) /\ s.at = offset
    BY <1>2, <1>5 DEF HistoryTypeOK, Hears
  <2> QED BY <2>1, <1>n, AppendProperties, LenProperties
<1>7. Chained'
  <2>1. text'[1].at = base'
    <3>1. CASE n = 0
      BY <3>1, <1>1, <1>4, <1>6, <1>n DEF End
    <3>2. CASE n # 0
      <4>1. text # <<>> /\ 1 \in 1 .. n
        BY <3>2, <1>6, <1>n
      <4> QED BY <4>1, <1>1, <1>4, <1>6 DEF Chained
    <3> QED BY <3>1, <3>2
  <2>2. ASSUME NEW i \in DOMAIN text', i + 1 \in DOMAIN text'
        PROVE  text'[i + 1].at = text'[i].at + Size(text'[i])
    <3>1. i \in 1 .. n
      BY <2>2, <1>6
    <3>2. CASE i = n
      <4>1. text # <<>> /\ text'[i] = text[n] /\ text'[i + 1].at = offset
        BY <3>1, <3>2, <1>6, <1>n
      <4> QED BY <3>2, <4>1, <1>4, <1>n DEF End
    <3>3. CASE i # n
      <4>1. i + 1 \in 1 .. n
        BY <3>1, <3>3, <1>6
      <4>2. text[i + 1].at = text[i].at + Size(text[i])
        BY <3>1, <4>1, <1>4, <1>6 DEF Chained
      <4> QED BY <3>1, <4>1, <4>2, <1>6
    <3> QED BY <3>2, <3>3
  <2> QED BY <2>1, <2>2 DEF Chained, Size
<1>8. End' = offset + Size(s)
  <2>1. End' = text'[n + 1].at + Size(text'[n + 1])
    BY <1>6 DEF End, Size
  <2> QED BY <2>1, <1>6
<1>9. FactsGathered'
  <2>1. memory_full' => Overfull'
    BY <1>5, <1>7, <1>8 DEF Hears, Overfull
  <2>2. has_halt' <=> \E i \in DOMAIN text' : Halts(text'[i])
    <3>1. has_halt' <=> (\E i \in 1 .. n : Halts(text[i])) \/ Halts(s)
      BY <1>3, <1>5, <1>6 DEF FactsGathered, Hears
    <3>2. \A i \in 1 .. n + 1 : i \in 1 .. n \/ i = n + 1
      BY <1>6
    <3>3. 1 .. n \subseteq 1 .. n + 1 /\ n + 1 \in 1 .. n + 1
      BY <1>6
    <3> HIDE DEF Halts
    <3> QED BY <3>1, <3>2, <3>3, <1>6, Zenon
  <2> QED BY <2>1, <2>2 DEF FactsGathered, Halts
<1>10. \A k \in DOMAIN pending_labels' : ~pending_labels'[k].decl_shown
  BY <1>3, <1>5 DEF Hears
<1> QED BY <1>1, <1>9, <1>10 DEF AnswerInv

LEMMA OpenAnswers ==
  ASSUME NEW addr \in Origins, Load(addr) \/ Asm(addr), Opened(addr)
  PROVE  AnswerInv'
<1>1. CASE Load(addr)
  <2>1. /\ text' = <<>> /\ phase' = "scanning" /\ ~memory_full' /\ has_halt' = FALSE
        /\ pending_labels' = <<>>
    BY <1>1 DEF Load, Opened, Reset, Enter
  <2>2. DOMAIN text' = {} /\ DOMAIN pending_labels' = {}
    BY <2>1
  <2> QED BY <2>1, <2>2 DEF AnswerInv, FactsGathered
<1>2. CASE Asm(addr)
  <2>1. by' = "asm"
    BY <1>2 DEF Asm, Opened
  <2> QED BY <2>1 DEF AnswerInv, Heard
<1> QED BY <1>1, <1>2

\* Nothing that is typed into the inline shell concerns load.
LEMMA ShellAnswers ==
  ASSUME MCInv,
         \/ \E addr \in Origins : SetPointer(addr) /\ Called(FALSE)
         \/ Line /\ Called(TRUE)
         \/ ExitAsm /\ UNCHANGED historyVars
  PROVE  AnswerInv'
<1>1. phase = "prompt" /\ caller = "asm" /\ by' = by
  BY DEF SetPointer, Line, ExitAsm, Called, historyVars
<1>2. by = "asm"
  BY <1>1 DEF MCInv, TextInv, CallsAgree
<1> QED BY <1>1, <1>2 DEF AnswerInv, Heard

LEMMA BeginAnswers ==
  ASSUME MCInv, AnswerInv, BeginPatching, UNCHANGED historyVars
  PROVE  AnswerInv'
<1> SUFFICES ASSUME Heard' PROVE AnswerInv'
  BY DEF AnswerInv
<1>1. /\ phase = "scanning" /\ phase' = "patching" /\ patched' = 0
      /\ Outcome = "COMPILE_OK"
      /\ UNCHANGED <<text, by, base, labelTable, pending_labels, offset,
                     memory_full, has_halt, lastStatus>>
  BY DEF BeginPatching, historyVars, tables
<1>2. CallsAgree /\ DOMAIN pending_labels \subseteq Nat \ {0}
  BY TableFacts DEF MCInv, AssemblerInv, TypeOK, TextInv
<1>3. /\ by = "load" /\ offbak = base /\ lastStatus = "COMPILE_OK" /\ ~memory_full
      /\ Scanning
  BY <1>1, <1>2 DEF CallsAgree, Heard, Outcome, Scanning
<1>4. offset # base /\ has_halt
  BY <1>1, <1>3 DEF Outcome
<1>5. FactsGathered /\ \A k \in DOMAIN pending_labels : ~pending_labels[k].decl_shown
  BY <1>1, <1>3 DEF AnswerInv, Heard
<1>6. FactsGathered'
  BY <1>1, <1>5 DEF FactsGathered, Overfull, Chained, End
<1>7. PatchingTells'
  <2>1. \A k \in DOMAIN pending_labels : ~(k <= 0)
    BY <1>2
  <2> QED BY <1>1, <1>3, <1>4, <1>5, <2>1 DEF PatchingTells
<1> QED BY <1>1, <1>6, <1>7 DEF AnswerInv

LEMMA PatchAnswers ==
  ASSUME MCInv, AnswerInv, PatchNext, UNCHANGED historyVars
  PROVE  AnswerInv'
<1> SUFFICES ASSUME Heard' PROVE AnswerInv'
  BY DEF AnswerInv
<1>1. TablesTypeOK /\ TablesAgree /\ CallsAgree /\ patched \in Nat
  BY DEF MCInv, AssemblerInv, TypeOK, ControlTypeOK, TextInv
<1>2. /\ phase = "patching" /\ phase' = "patching" /\ patched' = patched + 1
      /\ UNCHANGED <<text, by, base, labelTable, offset, memory_full, has_halt>>
  BY DEF PatchNext, historyVars
<1>3. FactsGathered /\ PatchingTells /\ lastStatus \in {"COMPILE_OK", "LABELS_PENDING"}
  BY <1>1, <1>2 DEF AnswerInv, Heard, CallsAgree
<1>4. FactsGathered'
  BY <1>2, <1>3 DEF FactsGathered, Overfull, Chained, End
<1>5. PICK k : k = patched + 1
  OBVIOUS
<1>6. /\ k \in DOMAIN pending_labels /\ k \in Nat /\ ~(k <= patched) /\ k > patched
      /\ DOMAIN pending_labels \subseteq Nat
  BY <1>1, <1>5, TableFacts DEF PatchNext
<1>7. \A j \in DOMAIN pending_labels : j <= patched + 1 <=> j <= patched \/ j = k
  BY <1>1, <1>5, <1>6
<1>8. ~pending_labels[k].decl_shown
  BY <1>3, <1>6 DEF PatchingTells
<1>9. PICK l : l = labelTable[pending_labels[k].idx]
  OBVIOUS
<1>10. /\ DOMAIN pending_labels' = DOMAIN pending_labels
       /\ \A j \in DOMAIN pending_labels :
            /\ pending_labels'[j].idx = pending_labels[j].idx
            /\ j # k => pending_labels'[j] = pending_labels[j]
       /\ lastStatus' = IF l.isDeclared THEN lastStatus ELSE "LABELS_PENDING"
  <2>1. CASE l.isDeclared
    BY <2>1, <1>5, <1>9 DEF PatchNext
  <2>2. CASE ~l.isDeclared
    <3>1. /\ pending_labels' = [pending_labels EXCEPT ![k].decl_shown = TRUE]
          /\ lastStatus' = "LABELS_PENDING"
      BY <2>2, <1>5, <1>8, <1>9 DEF PatchNext
    <3>2. \A j \in DOMAIN pending_labels : pending_labels[j] \in PendingEntry
      BY <1>1, TableFacts
    <3> QED BY <2>2, <3>1, <3>2, <1>6 DEF PendingEntry
  <2> QED BY <2>1, <2>2
<1>11. Pends(k) <=> ~l.isDeclared
  BY <1>9 DEF Pends
<1>12. \A j \in DOMAIN pending_labels : Pends(j)' <=> Pends(j)
  BY <1>2, <1>10 DEF Pends
<1>13. ASSUME NEW j \in DOMAIN pending_labels', j > patched'
       PROVE  ~pending_labels'[j].decl_shown
  <2>1. j \in DOMAIN pending_labels /\ j # k /\ j > patched
    BY <1>1, <1>2, <1>5, <1>6, <1>10, <1>13
  <2> QED BY <2>1, <1>3, <1>10 DEF PatchingTells
<1>14. lastStatus' = "LABELS_PENDING"
         <=> \E j \in DOMAIN pending_labels' : j <= patched' /\ Pends(j)'
  <2>1. lastStatus = "LABELS_PENDING"
          <=> \E j \in DOMAIN pending_labels : j <= patched /\ Pends(j)
    BY <1>3 DEF PatchingTells
  <2>2. lastStatus' = "LABELS_PENDING"
          <=> lastStatus = "LABELS_PENDING" \/ Pends(k)
    BY <1>10, <1>11
  <2>3. (\E j \in DOMAIN pending_labels' : j <= patched' /\ Pends(j)')
          <=> \E j \in DOMAIN pending_labels : j <= patched + 1 /\ Pends(j)
    BY <1>2, <1>10, <1>12
  <2> HIDE DEF Pends
  <2> QED BY <2>1, <2>2, <2>3, <1>6, <1>7, Zenon
<1>15. PatchingTells'
  BY <1>2, <1>3, <1>13, <1>14 DEF PatchingTells
<1> QED BY <1>2, <1>4, <1>15 DEF AnswerInv

LEMMA FinishPatchingAnswers ==
  ASSUME MCInv, AnswerInv, FinishPatching, Returned
  PROVE  AnswerInv'
<1> SUFFICES ASSUME Heard' PROVE AnswerInv'
  BY DEF AnswerInv
<1>1. TablesTypeOK /\ CallsAgree
  BY DEF MCInv, AssemblerInv, TypeOK, TextInv
<1>2. /\ phase = "patching" /\ phase' = "prompt" /\ patched = Len(pending_labels)
      /\ lastStatus' = lastStatus /\ by = "load" /\ by' = by /\ base' = base
      /\ caller = by /\ ~memory_full
      /\ lastStatus \in {"COMPILE_OK", "LABELS_PENDING"}
      /\ UNCHANGED <<labelTable, pending_labels, memory_full, has_halt>>
  BY <1>1 DEF FinishPatching, Return, Returned, CallsAgree, Heard, tables
<1>3. offset' = offset /\ text' = text
  BY <1>2 DEF FinishPatching, Return, Returned
<1>4. FactsGathered /\ PatchingTells
  BY <1>2 DEF AnswerInv, Heard
<1>5. FactsGathered'
  BY <1>2, <1>3, <1>4 DEF FactsGathered, Overfull, Chained, End
<1>6. lastStatus = "LABELS_PENDING" <=> \E k \in DOMAIN pending_labels : Pends(k)
  <2>1. \A k \in DOMAIN pending_labels : k <= patched
    BY <1>1, <1>2, TableFacts
  <2> QED BY <2>1, <1>4 DEF PatchingTells
<1>7. lastStatus = Answer
  BY <1>2, <1>4, <1>6 DEF Answer, PatchingTells
<1>8. Answer' = Answer
  BY <1>2, <1>3 DEF Answer, Pends
<1> QED BY <1>2, <1>5, <1>7, <1>8 DEF AnswerInv

LEMMA FinishAnswers ==
  ASSUME MCInv, AnswerInv, Finish, Returned
  PROVE  AnswerInv'
<1> SUFFICES ASSUME Heard' PROVE AnswerInv'
  BY DEF AnswerInv
<1>1. CallsAgree
  BY DEF MCInv, TextInv
<1>2. by = "load" /\ by' = by /\ base' = base /\ text' = text
  BY DEF Heard, Returned
<1>3. /\ phase = "scanning" /\ phase' = "prompt" /\ offset' = offset
      /\ UNCHANGED <<labelTable, pending_labels, memory_full, has_halt>>
      /\ lastStatus' = Outcome /\ Outcome # "COMPILE_OK" /\ offbak = base
  BY <1>1, <1>2, FinishStatus DEF CallsAgree, Finish, Return
<1>4. lastStatus = "COMPILE_OK"
  <2>1. lastStatus \in {"COMPILE_OK", "PARSE_ERROR", "LABEL_FULL"}
    BY <1>1, <1>3 DEF CallsAgree
  <2>2. lastStatus # "COMPILE_OK" => Outcome = lastStatus
    BY DEF Outcome, Scanning
  <2>3. Outcome \notin {"PARSE_ERROR", "LABEL_FULL"}
    BY <1>3 DEF Heard
  <2> QED BY <2>1, <2>2, <2>3
<1>5. FactsGathered
  BY <1>2, <1>3, <1>4 DEF AnswerInv, Heard
<1>6. FactsGathered'
  BY <1>2, <1>3, <1>5 DEF FactsGathered, Overfull, Chained, End
<1>7. Outcome = Answer
  <2>1. CASE memory_full
    BY <2>1, <1>4 DEF Outcome, Answer, Scanning
  <2>2. CASE ~memory_full
    <3>1. Scanning
      BY <2>2, <1>3, <1>4 DEF Scanning
    <3>2. offset = base \/ ~has_halt
      BY <3>1, <2>2, <1>3, <1>4 DEF Outcome
    <3> QED BY <2>2, <3>1, <3>2, <1>3, <1>4 DEF Outcome, Answer
  <2> QED BY <2>1, <2>2
<1>8. Answer' = Answer
  BY <1>2, <1>3 DEF Answer, Pends
<1> QED BY <1>3, <1>6, <1>7, <1>8 DEF AnswerInv

LEMMA AnswerInvInductive ==
  ASSUME MCInv, AnswerInv, [MCNext]_mcVars
  PROVE  AnswerInv'
<1>1. CASE \E addr \in Origins : (Load(addr) \/ Asm(addr)) /\ Opened(addr)
  BY <1>1, OpenAnswers
<1>2. CASE \/ \E addr \in Origins : SetPointer(addr) /\ Called(FALSE)
           \/ Line /\ Called(TRUE)
           \/ ExitAsm /\ UNCHANGED historyVars
  BY <1>2, ShellAnswers
<1>3. CASE Statement
  BY <1>3, StatementAnswers
<1>4. CASE (Finish \/ FinishPatching) /\ Returned
  BY <1>4, FinishAnswers, FinishPatchingAnswers
<1>5. CASE (BeginPatching \/ PatchNext) /\ UNCHANGED historyVars
  BY <1>5, BeginAnswers, PatchAnswers
<1>6. CASE UNCHANGED mcVars
  <2>1. UNCHANGED <<compilerVars, historyVars>>
    BY <1>6 DEF mcVars
  <2> QED BY <2>1 DEF compilerVars, tables, historyVars, AnswerInv, Heard,
        FactsGathered, Overfull, Chained, End, PatchingTells, Pends, Answer
<1> QED BY <1>1, <1>2, <1>3, <1>4, <1>5, <1>6 DEF MCNext, Statement

LEMMA AnswerInvHolds == MCSpec => [](MCInv /\ AnswerInv)
<1>1. MCInit => MCInv /\ AnswerInv
  <2>1. MCInit => AnswerInv
    BY DEF MCInit, AnswerInv, Heard
  <2> QED BY <2>1, MCInitInv
<1>2. MCInv /\ AnswerInv /\ [MCNext]_mcVars => (MCInv /\ AnswerInv)'
  BY MCInvInductive, AnswerInvInductive
<1> QED BY <1>1, <1>2, PTL DEF MCSpec

\* A use is unresolved exactly if one is pending without a declaration.
LEMMA UnresolvedPends ==
  ASSUME MCInv, Laid, Tabled, Held, Awaited
  PROVE  Unresolved # {} <=> \E k \in DOMAIN pending_labels : Pends(k)
<1>1. TablesTypeOK /\ TablesAgree
  BY DEF MCInv, AssemblerInv, TypeOK
<1>2. ASSUME NEW k \in DOMAIN pending_labels, NEW i \in DOMAIN text, Waits(k, i)
      PROVE  Pends(k) <=> Declarations(text[i].label) = {}
  <2>1. PICK m : m = pending_labels[k].idx
    OBVIOUS
  <2>2. m \in DOMAIN labelTable /\ labelTable[m].label = text[i].label
    BY <1>1, <1>2, <2>1, Referred DEF Waits
  <2>3. CASE labelTable[m].isDeclared
    <3>1. \E d \in DOMAIN text : IsLast(d, Declarations(text[i].label))
      BY <2>2, <2>3 DEF Tabled
    <3> QED BY <2>1, <2>3, <3>1 DEF Pends, IsLast
  <2>4. CASE ~labelTable[m].isDeclared
    BY <2>1, <2>2, <2>4 DEF Tabled, Pends
  <2> QED BY <2>3, <2>4
<1>3. ASSUME NEW i \in Unresolved
      PROVE  \E k \in DOMAIN pending_labels : Pends(k)
  <2>1. /\ i \in DOMAIN text /\ text[i].kind = "uses"
        /\ Declarations(text[i].label) = {}
    BY DEF Unresolved
  <2>2. \A d : ~IsLast(d, Above(i))
    BY <2>1 DEF Above, IsLast
  <2>3. PICK k \in DOMAIN pending_labels : Waits(k, i)
    BY <2>1, <2>2 DEF Held, HeldAt
  <2> QED BY <2>1, <2>3, <1>2
<1>4. ASSUME NEW k \in DOMAIN pending_labels, Pends(k) PROVE Unresolved # {}
  <2>1. PICK i \in DOMAIN text : Waits(k, i)
    BY DEF Awaited, AwaitedAt
  <2>2. i \in Unresolved
    BY <2>1, <1>2, <1>4 DEF Unresolved, Waits
  <2> QED BY <2>2
<1> QED BY <1>3, <1>4

LEMMA AnswerIsVerdict == ASSUME MCInv, AnswerInv PROVE VerdictDescribesFile
<1> SUFFICES ASSUME phase = "prompt", by = "load",
                    lastStatus \notin {"PARSE_ERROR", "LABEL_FULL"}
             PROVE  lastStatus = Verdict
  BY DEF VerdictDescribesFile
<1>1. CodeTypeOK /\ HistoryTypeOK /\ CallsAgree
  BY DEF MCInv, AssemblerInv, TypeOK, TextInv
<1>2. FactsGathered /\ lastStatus = Answer
  BY DEF AnswerInv, Heard
<1>3. PICK e : e = Address[Len(text) + 1]
  OBVIOUS
<1>4. CASE memory_full
  <2>1. e > MemSize
    BY <1>1, <1>2, <1>3, <1>4, AddressIsEnd DEF FactsGathered, Overfull
  <2> QED BY <1>2, <1>3, <1>4, <2>1 DEF Answer, Verdict
<1>5. CASE ~memory_full
  <2>1. Laid /\ Tabled /\ Held /\ Awaited
    BY <1>1, <1>5 DEF MCInv, TextInv, WholeInv, Whole, Refused, CallsAgree
  <2>2. e = offset /\ ~(e > MemSize)
    <3>1. Chained /\ End = offset
      BY <1>1, <2>1, LaidEnds
    <3>2. offset <= MemSize /\ offset \in Nat /\ MemSize \in Nat
      BY <1>1, <2>1, Places
    <3> QED BY <1>1, <1>3, <3>1, <3>2, AddressIsEnd
  <2>3. ~has_halt <=> \A i \in DOMAIN text : ~Halts(text[i])
    BY <1>2 DEF FactsGathered
  <2>4. Unresolved # {} <=> \E k \in DOMAIN pending_labels : Pends(k)
    BY <2>1, UnresolvedPends
  <2>5. Answer = IF e = base THEN "EMPTY_PROGRAM"
                 ELSE IF \A i \in DOMAIN text : ~Halts(text[i]) THEN "NO_HLT"
                 ELSE IF Unresolved # {} THEN "LABELS_PENDING"
                 ELSE "COMPILE_OK"
    BY <1>5, <2>2, <2>3, <2>4 DEF Answer
  <2> QED BY <1>2, <1>3, <2>2, <2>5 DEF Verdict
<1> QED BY <1>4, <1>5

(***************************************************************************)
(* What load answers is true of the file, for every file, every address it *)
(* is loaded at and every size of the memory and of the tables: the four   *)
(* flags and counters from which compile() makes its status, gathered as   *)
(* the statements come, say what the whole text would say.                 *)
(***************************************************************************)
THEOREM LoadAnswersTruly == MCSpec => []VerdictDescribesFile
BY AnswerInvHolds, AnswerIsVerdict, PTL
================================================================================
