------------------------------ MODULE MCDebugger ------------------------------
(***************************************************************************)
(* A debugging session over a program with a loop and a subroutine, laid   *)
(* across address 256 so that return addresses have two significant bytes. *)
(* The user loads it, or another program over it, edits it, and runs,      *)
(* steps and breaks it in any order.                                       *)
(***************************************************************************)
EXTENDS Debugger

Base == 248

\*        xra a   lxi sp, 40h   mvi b, 1   next: call sub   dcr b
\*        jp next   hlt   sub: push b   inr a   pop b   ret
LoopAndCall ==
  [at |-> Base,
   code |-> << \hAF, \h31, \h40, \h00, \h06, \h01, \hCD, \h06, \h01, \h05,
               \hF2, \hFE, \h00, \h76, \hC5, \h3C, \hC1, \hC9 >>,
   stored |-> {10, 18}]

\*        in 1   sta 20h   hlt
Asks ==
  [at |-> Base, code |-> << \hDB, \h01, \h32, \h20, \h00, \h76 >>, stored |-> {6}]

MCImages == {LoopAndCall, Asks}

\* A nop over the inr of the subroutine; a string that leaves the memory.
MCEdits ==
  {[at |-> Base + 15, code |-> << 0 >>, stored |-> {0, 1}],
   [at |-> AddrMod - 1, code |-> << 0 >>, stored |-> {0, 1}]}

(***************************************************************************)
(* seen is the address the user was last shown at a pause, or -1 once the  *)
(* program has gone on from there.                                         *)
(***************************************************************************)
VARIABLE seen

MCInit == Init /\ seen = -1

\* Bound: the user runs a program only where one was loaded, not empty memory.
LoadedFirst == AtPrompt /\ control' = "entry" => memory[Base] # 0

MCNext ==
  /\ Next
  /\ LoadedFirst
  /\ seen' = IF Running THEN IF isbroken' /\ control' = "repl" THEN pc' ELSE -1
                        ELSE seen

MCSpec == MCInit /\ [][MCNext]_<<vars, seen>> /\ WF_<<vars, seen>>(Turn /\ MCNext)

(***************************************************************************)
(* Claimed by src/main.c:350, "When the program counter reaches <address>, *)
(* the machine will pause the execution", of an address with a breakpoint: *)
(* no instruction there is executed before the user has seen the machine   *)
(* paused at it.                                                           *)
(***************************************************************************)
PausesAtBreakpoints ==
  [][Running /\ pc \in Attached => seen = pc]_<<vars, seen>>
===============================================================================
