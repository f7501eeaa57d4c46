------------------------------ MODULE Breakpoints ------------------------------
(***************************************************************************)
(* The breakpoint table of the machine (src/machine.c) behind the commands *)
(* 'break add' and 'break remove' of the REPL (src/main.c): a C array of   *)
(* which only the first breakpoint_pointer cells are in use.               *)
(***************************************************************************)
EXTENDS AddressSpace

CONSTANT MaxBreakpoints   (* MAX_BREAKPOINT_COUNT: 15 *)

ASSUME MaxBreakpointsAssumption == MaxBreakpoints \in Nat \ {0}

VARIABLES breakpoints,         (* the array                                *)
          breakpoint_pointer,  (* how many of its cells are in use         *)
          answer               (* the message of the last break command    *)

tableVars == <<breakpoints, breakpoint_pointer, answer>>

Slots == 0 .. MaxBreakpoints - 1
Used == 0 .. breakpoint_pointer - 1

\* The addresses machine_on_breakpoint compares the program counter with.
Attached == {breakpoints[i] : i \in Used}

TableInit ==
  /\ breakpoints = [i \in Slots |-> 0]
  /\ breakpoint_pointer = 0
  /\ answer = "none"

(***************************************************************************)
(* 'break add': the limit is tested before the search for a duplicate, so  *)
(* a full table refuses even an address it holds.                          *)
(***************************************************************************)
AddRefused ==
  /\ breakpoint_pointer = MaxBreakpoints
  /\ answer' = "full"
  /\ UNCHANGED <<breakpoints, breakpoint_pointer>>

AddDuplicate(addr) ==
  /\ breakpoint_pointer # MaxBreakpoints
  /\ addr \in Attached
  /\ answer' = "added"
  /\ UNCHANGED <<breakpoints, breakpoint_pointer>>

\* Mutant of AddNew: the table is never full.
AddNewUnlimited(addr) ==
  /\ addr \notin Attached
  /\ breakpoints' = [breakpoints EXCEPT ![breakpoint_pointer] = addr]
  /\ breakpoint_pointer' = breakpoint_pointer + 1
  /\ answer' = "added"

\* Mutant of AddNew: no search for a duplicate.
AddNewUnsearched(addr) ==
  /\ breakpoint_pointer # MaxBreakpoints
  /\ breakpoints' = [breakpoints EXCEPT ![breakpoint_pointer] = addr]
  /\ breakpoint_pointer' = breakpoint_pointer + 1
  /\ answer' = "added"

AddNew(addr) ==
  /\ breakpoint_pointer # MaxBreakpoints
  /\ addr \notin Attached
  /\ breakpoints' = [breakpoints EXCEPT ![breakpoint_pointer] = addr]
  /\ breakpoint_pointer' = breakpoint_pointer + 1
  /\ answer' = "added"

AddBreakpoint(addr) == AddRefused \/ AddDuplicate(addr) \/ AddNew(addr)

\* Mutant of ShiftDown: the last successor stays behind.
ShiftDownShort(i) ==
  [j \in Slots |-> IF j \in i .. breakpoint_pointer - 3
                     THEN breakpoints[j + 1] ELSE breakpoints[j]]

(***************************************************************************)
(* 'break remove': the first cell that holds the address is overwritten by *)
(* its successors, which all move down by one.                             *)
(***************************************************************************)
ShiftDown(i) ==
  [j \in Slots |-> IF j \in i .. breakpoint_pointer - 2
                     THEN breakpoints[j + 1] ELSE breakpoints[j]]

RemoveMissing(addr) ==
  /\ addr \notin Attached
  /\ answer' = IF breakpoint_pointer = 0 THEN "empty" ELSE "unknown"
  /\ UNCHANGED <<breakpoints, breakpoint_pointer>>

RemoveFound(addr) ==
  \E i \in Used :
    /\ breakpoints[i] = addr
    /\ \A j \in 0 .. i - 1 : breakpoints[j] # addr
    /\ breakpoints' = ShiftDown(i)
    /\ breakpoint_pointer' = breakpoint_pointer - 1
    /\ answer' = "removed"

RemoveBreakpoint(addr) == RemoveMissing(addr) \/ RemoveFound(addr)

TableNext == \E addr \in Word : AddBreakpoint(addr) \/ RemoveBreakpoint(addr)

TableSpec == TableInit /\ [][TableNext]_tableVars

TableTypeOK ==
  /\ breakpoints \in [Slots -> Word]
  /\ breakpoint_pointer \in 0 .. MaxBreakpoints
  /\ answer \in {"none", "added", "full", "empty", "unknown", "removed"}

(***************************************************************************)
(* No address occupies two cells in use: 'break remove' takes out only the *)
(* first cell it finds, so a second one would go on pausing the machine.   *)
(***************************************************************************)
NoDuplicates ==
  \A i, j \in Used : breakpoints[i] = breakpoints[j] => i = j

List == INSTANCE BreakpointList
          WITH Address <- Word, Limit <- MaxBreakpoints,
               attached <- [i \in 1 .. breakpoint_pointer |-> breakpoints[i - 1]]

\* The table keeps the promise BreakpointList states: it is the user's list.
IsList == List!ListSpec
================================================================================
