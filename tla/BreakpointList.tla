---------------------------- MODULE BreakpointList ----------------------------
(***************************************************************************)
(* What the breakpoint commands promise their user: a list of distinct     *)
(* addresses, at most Limit of them, shown by 'break view' in the order of *)
(* insertion.  Adding appends, adding twice keeps the first, removing      *)
(* takes one address out and keeps the order of the others.                *)
(***************************************************************************)
EXTENDS Naturals, Sequences, SequencesExt

CONSTANTS Address,   (* what a breakpoint may be attached to           *)
          Limit      (* how many breakpoints may be attached at a time *)

VARIABLES attached,  (* the addresses, in the order of insertion       *)
          answer     (* what the last command told the user            *)

Answers == {"none", "added", "full", "empty", "unknown", "removed"}

On(addr) == \E i \in 1 .. Len(attached) : attached[i] = addr

ListInit ==
  /\ attached = <<>>
  /\ answer = "none"

\* There is room, and the address is not yet on the list.
Attach(addr) ==
  /\ Len(attached) < Limit
  /\ ~On(addr)
  /\ attached' = Append(attached, addr)
  /\ answer' = "added"

\* Only the first of several breakpoints at one address remains.
AttachAgain(addr) ==
  /\ Len(attached) < Limit
  /\ On(addr)
  /\ answer' = "added"
  /\ UNCHANGED attached

Refuse ==
  /\ Len(attached) = Limit
  /\ answer' = "full"
  /\ UNCHANGED attached

Detach(addr) ==
  \E i \in 1 .. Len(attached) :
    /\ attached[i] = addr
    /\ attached' = RemoveAt(attached, i)
    /\ answer' = "removed"

Miss(addr) ==
  /\ ~On(addr)
  /\ answer' = IF attached = <<>> THEN "empty" ELSE "unknown"
  /\ UNCHANGED attached

ListNext ==
  \/ Refuse
  \/ \E addr \in Address :
       Attach(addr) \/ AttachAgain(addr) \/ Detach(addr) \/ Miss(addr)

ListSpec == ListInit /\ [][ListNext]_<<attached, answer>>
===============================================================================
