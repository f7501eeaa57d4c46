---------------------------- MODULE MCBreakpoints ----------------------------
(***************************************************************************)
(* The breakpoint table under any sequence of 'break add' and 'break       *)
(* remove' commands, with fewer addresses than the code has and a table    *)
(* that the addresses overfill.                                            *)
(***************************************************************************)
EXTENDS Breakpoints

CONSTANT TypedAddresses   (* the addresses the user types *)

ASSUME TypedAddresses \subseteq Word

MCTableNext ==
  \E addr \in TypedAddresses : AddBreakpoint(addr) \/ RemoveBreakpoint(addr)

MCTableSpec == TableInit /\ [][MCTableNext]_tableVars
===============================================================================
