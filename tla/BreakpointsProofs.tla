--------------------------- MODULE BreakpointsProofs ---------------------------
(***************************************************************************)
(* Proofs about the breakpoint table, for every size of table and of       *)
(* address.                                                                *)
(***************************************************************************)
EXTENDS Breakpoints, SequenceTheorems, TLAPS

TableInv == TableTypeOK /\ NoDuplicates

-----------------------------------------------------------------------------
(* The invariant.                                                           *)

\* What 'break add' and 'break remove' of one address leave behind is a table
\* of the right type.  The composed machine uses it too.
LEMMA TableStepTypeOK ==
  ASSUME TableTypeOK, NEW addr \in Word,
         AddBreakpoint(addr) \/ RemoveBreakpoint(addr)
  PROVE  TableTypeOK'
<1> USE MaxBreakpointsAssumption DEF TableTypeOK, Slots, Used
<1>1. CASE AddRefused
  BY <1>1 DEF AddRefused
<1>2. CASE AddDuplicate(addr)
  BY <1>2 DEF AddDuplicate
<1>3. CASE AddNew(addr)
  BY <1>3 DEF AddNew
<1>4. CASE RemoveMissing(addr)
  BY <1>4 DEF RemoveMissing
<1>5. CASE RemoveFound(addr)
  <2>1. PICK i \in Used : /\ breakpoints' = ShiftDown(i)
                          /\ breakpoint_pointer' = breakpoint_pointer - 1
                          /\ answer' = "removed"
    BY <1>5 DEF RemoveFound
  <2>2. ShiftDown(i) \in [Slots -> Word]
    BY DEF ShiftDown
  <2> QED BY <2>1, <2>2
<1> QED BY <1>1, <1>2, <1>3, <1>4, <1>5 DEF AddBreakpoint, RemoveBreakpoint

LEMMA TableStepNoDuplicates ==
  ASSUME TableTypeOK, NoDuplicates, NEW addr \in Word,
         AddBreakpoint(addr) \/ RemoveBreakpoint(addr)
  PROVE  NoDuplicates'
<1> USE MaxBreakpointsAssumption DEF TableTypeOK, NoDuplicates, Slots, Used
<1>1. CASE AddRefused
  BY <1>1 DEF AddRefused
<1>2. CASE AddDuplicate(addr)
  BY <1>2 DEF AddDuplicate
<1>3. CASE AddNew(addr)
  BY <1>3 DEF AddNew, Attached
<1>4. CASE RemoveMissing(addr)
  BY <1>4 DEF RemoveMissing
<1>5. CASE RemoveFound(addr)
  <2>1. PICK i \in Used : /\ breakpoints' = ShiftDown(i)
                          /\ breakpoint_pointer' = breakpoint_pointer - 1
    BY <1>5 DEF RemoveFound
  <2>2. \A j \in Used' :
          breakpoints'[j] = IF j < i THEN breakpoints[j] ELSE breakpoints[j + 1]
    BY <2>1 DEF ShiftDown
  <2> QED BY <2>1, <2>2
<1> QED BY <1>1, <1>2, <1>3, <1>4, <1>5 DEF AddBreakpoint, RemoveBreakpoint

LEMMA TableInitInv == ASSUME TableInit PROVE TableInv
BY AddrModAssumption, MaxBreakpointsAssumption
   DEF TableInit, TableInv, TableTypeOK, NoDuplicates, Slots, Used, Word

LEMMA TableInvStutter ==
  ASSUME TableInv, UNCHANGED tableVars PROVE TableInv'
BY DEF TableInv, TableTypeOK, NoDuplicates, Used, tableVars

LEMMA TableInvariant == TableSpec => []TableInv
<1>1. TableInit => TableInv
  BY TableInitInv
<1>2. TableInv /\ [TableNext]_tableVars => TableInv'
  <2> SUFFICES ASSUME TableInv, [TableNext]_tableVars PROVE TableInv'
    OBVIOUS
  <2>1. ASSUME TableNext PROVE TableInv'
    BY <2>1, TableStepTypeOK, TableStepNoDuplicates DEF TableNext, TableInv
  <2>2. ASSUME UNCHANGED tableVars PROVE TableInv'
    BY <2>2, TableInvStutter
  <2> QED BY <2>1, <2>2
<1> QED BY <1>1, <1>2, PTL DEF TableSpec

(***************************************************************************)
(* The table never overflows, whatever MAX_BREAKPOINT_COUNT is: the pointer *)
(* stays within the array and every cell in use holds an address.          *)
(***************************************************************************)
THEOREM TableTypeCorrect == TableSpec => []TableTypeOK
BY TableInvariant, PTL DEF TableInv

(***************************************************************************)
(* No address is attached twice, so that one 'break remove' is enough to   *)
(* stop the machine from pausing there.                                    *)
(***************************************************************************)
THEOREM TableHasNoDuplicates == TableSpec => []NoDuplicates
BY TableInvariant, PTL DEF TableInv

-----------------------------------------------------------------------------
(* The refinement of the list.                                              *)

\* The cells in use, as the list the user sees.
Shown == [i \in 1 .. breakpoint_pointer |-> breakpoints[i - 1]]

LEMMA ShownIsList ==
  ASSUME TableTypeOK
  PROVE  /\ Shown \in Seq(Word)
         /\ Len(Shown) = breakpoint_pointer
         /\ \A i \in 1 .. breakpoint_pointer : Shown[i] = breakpoints[i - 1]
         /\ \A addr : addr \in Attached <=>
                        \E i \in 1 .. breakpoint_pointer : Shown[i] = addr
<1>1. breakpoint_pointer \in Nat
  BY MaxBreakpointsAssumption DEF TableTypeOK
<1>2. \A i \in 1 .. breakpoint_pointer : breakpoints[i - 1] \in Word
  BY <1>1, MaxBreakpointsAssumption DEF TableTypeOK, Slots
<1>3. \A addr : addr \in Attached <=>
                  \E i \in 1 .. breakpoint_pointer : Shown[i] = addr
  <2>1. ASSUME NEW i \in Used PROVE Shown[i + 1] = breakpoints[i]
                                    /\ i + 1 \in 1 .. breakpoint_pointer
    BY <1>1 DEF Shown, Used
  <2>2. ASSUME NEW i \in 1 .. breakpoint_pointer
        PROVE  i - 1 \in Used /\ Shown[i] = breakpoints[i - 1]
    BY <1>1 DEF Shown, Used
  <2> QED BY <2>1, <2>2 DEF Attached
<1> QED BY <1>1, <1>2, <1>3 DEF Shown

\* The same of the table after a step.
LEMMA ShownNextIsList ==
  ASSUME TableTypeOK'
  PROVE  /\ Shown' \in Seq(Word)
         /\ Len(Shown') = breakpoint_pointer'
         /\ \A i \in 1 .. breakpoint_pointer' : Shown'[i] = breakpoints'[i - 1]
<1>1. breakpoint_pointer' \in Nat
  BY MaxBreakpointsAssumption DEF TableTypeOK
<1>2. \A i \in 1 .. breakpoint_pointer' : breakpoints'[i - 1] \in Word
  BY <1>1, MaxBreakpointsAssumption DEF TableTypeOK, Slots
<1> QED BY <1>1, <1>2 DEF Shown

\* Taking an element out of a sequence moves those behind it forward.
LEMMA RemoveAtProperties ==
  ASSUME NEW S, NEW s \in Seq(S), NEW i \in 1 .. Len(s)
  PROVE  /\ List!RemoveAt(s, i) \in Seq(S)
         /\ Len(List!RemoveAt(s, i)) = Len(s) - 1
         /\ \A j \in 1 .. Len(s) - 1 :
              List!RemoveAt(s, i)[j] = IF j < i THEN s[j] ELSE s[j + 1]
<1> DEFINE before == SubSeq(s, 1, i - 1)
           behind == SubSeq(s, i + 1, Len(s))
<1>1. Len(s) \in Nat /\ \A j \in 1 .. Len(s) : s[j] \in S
  BY LenProperties, ElementOfSeq
<1>2. /\ before \in Seq(S) /\ Len(before) = i - 1
      /\ \A j \in 1 .. i - 1 : before[j] = s[j]
  <2>1. \A j \in 1 .. i - 1 : s[j] \in S
    BY <1>1
  <2>2. /\ before \in Seq(S)
        /\ Len(before) = IF 1 <= i - 1 THEN i - 1 - 1 + 1 ELSE 0
        /\ \A j \in 1 .. i - 1 - 1 + 1 : before[j] = s[1 + j - 1]
    BY <1>1, <2>1, SubSeqProperties
  <2> HIDE DEF before
  <2> QED BY <1>1, <2>2
<1>3. /\ behind \in Seq(S) /\ Len(behind) = Len(s) - i
      /\ \A j \in 1 .. Len(s) - i : behind[j] = s[i + j]
  <2>1. \A j \in i + 1 .. Len(s) : s[j] \in S
    BY <1>1
  <2>2. /\ behind \in Seq(S)
        /\ Len(behind) = IF i + 1 <= Len(s) THEN Len(s) - (i + 1) + 1 ELSE 0
        /\ \A j \in 1 .. Len(s) - (i + 1) + 1 : behind[j] = s[i + 1 + j - 1]
    BY <1>1, <2>1, SubSeqProperties
  <2> HIDE DEF behind
  <2> QED BY <1>1, <2>2
<1>4. List!RemoveAt(s, i) = before \o behind
  BY DEF List!RemoveAt
<1> HIDE DEF before, behind
<1>5. /\ before \o behind \in Seq(S)
      /\ Len(before \o behind) = i - 1 + (Len(s) - i)
      /\ \A j \in 1 .. i - 1 + (Len(s) - i) :
           (before \o behind)[j] =
             IF j <= i - 1 THEN before[j] ELSE behind[j - (i - 1)]
  <2>1. before \in Seq(S) /\ behind \in Seq(S)
    BY <1>2, <1>3
  <2>2. /\ before \o behind \in Seq(S)
        /\ Len(before \o behind) = Len(before) + Len(behind)
        /\ \A j \in 1 .. Len(before) + Len(behind) :
             (before \o behind)[j] =
               IF j <= Len(before) THEN before[j] ELSE behind[j - Len(before)]
    BY <2>1, ConcatProperties
  <2> QED BY <1>2, <1>3, <2>2
<1>6. ASSUME NEW j \in 1 .. Len(s) - 1
      PROVE  (before \o behind)[j] = IF j < i THEN s[j] ELSE s[j + 1]
  <2>1. CASE j < i
    BY <1>1, <1>2, <1>5, <2>1
  <2>2. CASE ~(j < i)
    <3>1. j - (i - 1) \in 1 .. Len(s) - i /\ i + (j - (i - 1)) = j + 1
      BY <1>1, <2>2
    <3>2. (before \o behind)[j] = behind[j - (i - 1)]
      BY <1>1, <1>5, <2>2
    <3> QED BY <1>3, <2>2, <3>1, <3>2
  <2> QED BY <2>1, <2>2
<1> QED BY <1>1, <1>4, <1>5, <1>6

LEMMA ListInitRefined == ASSUME TableInit PROVE List!ListInit
<1>1. Shown = <<>>
  BY DEF TableInit, Shown
<1> QED BY <1>1 DEF TableInit, List!ListInit, Shown

\* Adding at the end of the array appends to the list.
LEMMA AddRefined ==
  ASSUME TableTypeOK, TableTypeOK', NEW addr \in Word, AddBreakpoint(addr)
  PROVE  List!Refuse \/ List!Attach(addr) \/ List!AttachAgain(addr)
<1>1. breakpoint_pointer \in Nat /\ breakpoint_pointer <= MaxBreakpoints
  BY MaxBreakpointsAssumption DEF TableTypeOK
<1>2. /\ Len(Shown) = breakpoint_pointer
      /\ addr \in Attached <=> List!On(addr)
  BY ShownIsList DEF List!On, Shown
<1>3. CASE AddRefused
  BY <1>2, <1>3 DEF AddRefused, List!Refuse, Shown
<1>4. CASE AddDuplicate(addr)
  BY <1>1, <1>2, <1>4, MaxBreakpointsAssumption
     DEF AddDuplicate, List!AttachAgain, Shown
<1>5. CASE AddNew(addr)
  <2>1. /\ Shown \in Seq(Word) /\ Shown' \in Seq(Word)
        /\ Len(Shown') = breakpoint_pointer + 1
        /\ \A i \in 1 .. breakpoint_pointer : Shown[i] = breakpoints[i - 1]
        /\ \A i \in 1 .. breakpoint_pointer' : Shown'[i] = breakpoints'[i - 1]
    <3>1. /\ Shown' \in Seq(Word) /\ Len(Shown') = breakpoint_pointer'
          /\ \A i \in 1 .. breakpoint_pointer' : Shown'[i] = breakpoints'[i - 1]
      BY ShownIsList, ShownNextIsList
    <3> QED BY <1>5, <3>1, ShownIsList DEF AddNew
  <2>2. \A i \in 1 .. breakpoint_pointer + 1 :
          Shown'[i] = Append(Shown, addr)[i]
    <3>1. breakpoints' = [breakpoints EXCEPT ![breakpoint_pointer] = addr]
          /\ breakpoint_pointer' = breakpoint_pointer + 1
      BY <1>5 DEF AddNew
    <3>2. breakpoint_pointer \in Slots
      BY <1>1, <1>5, MaxBreakpointsAssumption DEF AddNew, Slots
    <3>3. /\ \A i \in 1 .. breakpoint_pointer : Append(Shown, addr)[i] = Shown[i]
          /\ Append(Shown, addr)[breakpoint_pointer + 1] = addr
      BY <1>2, <2>1, AppendProperties
    <3>4. \A i \in 1 .. breakpoint_pointer :
            i - 1 \in Slots /\ breakpoints'[i - 1] = breakpoints[i - 1]
      BY <1>1, <3>1, MaxBreakpointsAssumption DEF TableTypeOK, Slots
    <3>5. breakpoints'[breakpoint_pointer] = addr
      BY <3>1, <3>2 DEF TableTypeOK
    <3> SUFFICES ASSUME NEW i \in 1 .. breakpoint_pointer + 1
                 PROVE  Shown'[i] = Append(Shown, addr)[i]
      OBVIOUS
    <3>6. Shown'[i] = breakpoints'[i - 1]
      BY <2>1, <3>1
    <3>7. CASE i = breakpoint_pointer + 1
      <4>1. i - 1 = breakpoint_pointer
        BY <1>1, <3>7
      <4> QED BY <3>3, <3>5, <3>6, <3>7, <4>1
    <3>8. CASE i # breakpoint_pointer + 1
      <4>1. i \in 1 .. breakpoint_pointer
        BY <1>1, <3>8
      <4> QED BY <2>1, <3>3, <3>4, <3>6, <4>1
    <3> QED BY <3>7, <3>8
  <2>3. Shown' = Append(Shown, addr)
    BY <1>2, <2>1, <2>2, AppendProperties, SeqEqual
  <2> QED BY <1>1, <1>2, <1>5, <2>3, MaxBreakpointsAssumption
          DEF AddNew, List!Attach, Shown
<1> QED BY <1>3, <1>4, <1>5 DEF AddBreakpoint

\* Shifting the array takes the element out of the list.
LEMMA RemoveRefined ==
  ASSUME TableTypeOK, TableTypeOK', NEW addr \in Word, RemoveBreakpoint(addr)
  PROVE  List!Miss(addr) \/ List!Detach(addr)
<1>1. breakpoint_pointer \in Nat /\ breakpoint_pointer <= MaxBreakpoints
  BY MaxBreakpointsAssumption DEF TableTypeOK
<1>2. /\ Shown \in Seq(Word) /\ Len(Shown) = breakpoint_pointer
      /\ \A i \in 1 .. breakpoint_pointer : Shown[i] = breakpoints[i - 1]
      /\ addr \in Attached <=> List!On(addr)
  BY ShownIsList DEF List!On, Shown
<1>3. CASE RemoveMissing(addr)
  <2>1. Shown = <<>> <=> breakpoint_pointer = 0
    BY <1>2, EmptySeq
  <2> QED BY <1>2, <1>3, <2>1 DEF RemoveMissing, List!Miss, Shown
<1>4. CASE RemoveFound(addr)
  <2>1. PICK i \in Used : /\ breakpoints[i] = addr
                          /\ breakpoints' = ShiftDown(i)
                          /\ breakpoint_pointer' = breakpoint_pointer - 1
                          /\ answer' = "removed"
    BY <1>4 DEF RemoveFound
  <2>2. i + 1 \in 1 .. Len(Shown) /\ Shown[i + 1] = addr /\ i \in Nat
    <3>1. i \in Nat /\ i + 1 \in 1 .. breakpoint_pointer /\ i + 1 - 1 = i
      BY <1>1 DEF Used
    <3> QED BY <1>2, <2>1, <3>1
  <2>3. /\ Shown' \in Seq(Word)
        /\ Len(Shown') = breakpoint_pointer - 1
        /\ \A j \in 1 .. breakpoint_pointer - 1 : Shown'[j] = breakpoints'[j - 1]
    BY <2>1, ShownNextIsList
  <2>4. /\ List!RemoveAt(Shown, i + 1) \in Seq(Word)
        /\ Len(List!RemoveAt(Shown, i + 1)) = breakpoint_pointer - 1
        /\ \A j \in 1 .. breakpoint_pointer - 1 :
             List!RemoveAt(Shown, i + 1)[j] =
               IF j < i + 1 THEN Shown[j] ELSE Shown[j + 1]
    BY <1>2, <2>2, RemoveAtProperties
  <2>5. ASSUME NEW j \in 1 .. breakpoint_pointer - 1
        PROVE  Shown'[j] = List!RemoveAt(Shown, i + 1)[j]
    <3>1. /\ j \in 1 .. breakpoint_pointer /\ j + 1 \in 1 .. breakpoint_pointer
          /\ j + 1 - 1 = j /\ j - 1 \in Slots /\ j - 1 + 1 = j
      BY <1>1, MaxBreakpointsAssumption DEF Slots
    <3>2. breakpoints'[j - 1] = IF j - 1 \in i .. breakpoint_pointer - 2
                                  THEN breakpoints[j] ELSE breakpoints[j - 1]
      BY <2>1, <3>1 DEF ShiftDown
    <3>3. j - 1 \in i .. breakpoint_pointer - 2 <=> ~(j < i + 1)
      BY <1>1, <2>2
    <3> QED BY <1>2, <2>3, <2>4, <3>1, <3>2, <3>3
  <2>6. Shown' = List!RemoveAt(Shown, i + 1)
    BY <2>3, <2>4, <2>5, SeqEqual
  <2> QED BY <2>1, <2>2, <2>6 DEF List!Detach, Shown
<1> QED BY <1>3, <1>4 DEF RemoveBreakpoint

(***************************************************************************)
(* The array and its pointer behave as the list of the help text, for      *)
(* every size of the table: 'break add' appends, a repetition is ignored,  *)
(* 'break remove' closes the gap, and each answers what it did.            *)
(***************************************************************************)
THEOREM TableRefinesList == TableSpec => IsList
<1>1. TableInit => List!ListInit
  BY ListInitRefined
<1>2. ASSUME TableInv, TableInv', [TableNext]_tableVars
      PROVE  [List!ListNext]_<<Shown, answer>>
  <2>1. ASSUME TableNext PROVE List!ListNext
    BY <1>2, <2>1, AddRefined, RemoveRefined DEF TableNext, TableInv, List!ListNext
  <2>2. ASSUME UNCHANGED tableVars PROVE UNCHANGED <<Shown, answer>>
    BY <2>2 DEF tableVars, Shown
  <2> QED BY <1>2, <2>1, <2>2
<1> QED BY <1>1, <1>2, TableInvariant, PTL DEF TableSpec, IsList, List!ListSpec, Shown
===============================================================================
