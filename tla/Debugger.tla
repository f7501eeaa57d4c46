-------------------------------- MODULE Debugger --------------------------------
(***************************************************************************)
(* The REPL of src/main.c over the virtual machine: the keywords that      *)
(* change the state of the machine.  'show', 'dis', 'break view' and       *)
(* 'help' only print, and a command refused for its arguments or for its   *)
(* moment changes nothing; they are stuttering steps here.                 *)
(***************************************************************************)
EXTENDS Vm, Sequences

CONSTANTS
  ExecAddresses,   (* what the user may exec from                            *)
  BreakAddresses,  (* what the user may attach and remove breakpoints at     *)
  Images,          (* programs: the address, the bytes, and how many of them *)
                   (* an assembly, successful or not, may have stored        *)
  Edits            (* the arguments of 'set', in the same form               *)

ASSUME DebuggerAssumption ==
  /\ ExecAddresses \subseteq Word
  /\ BreakAddresses \subseteq Word
  /\ \A i \in Images \cup Edits :
       i.at \in Word /\ i.code \in Seq(Byte) /\ i.stored \subseteq 0 .. Len(i.code)

vars == <<vmVars, tableVars>>

AtPrompt == control = "repl"

-----------------------------------------------------------------------------
(* Running a program.  run() is called with step as its last argument.      *)

Run(from, once) ==
  /\ pc' = from
  /\ step' = once
  /\ tstates' = 0
  /\ control' = "entry"
  /\ UNCHANGED <<cpuVars, tableVars>>

\* isbroken is not reset: it still tells of a program paused before.
Exec(addr) == AtPrompt /\ Run(addr, FALSE) /\ UNCHANGED isbroken

Continue == AtPrompt /\ isbroken /\ Run(pc, FALSE) /\ isbroken' = FALSE

\* Mutant of StepOnce: nothing need be paused.
StepAnything == AtPrompt /\ Run(pc, TRUE) /\ UNCHANGED isbroken

StepOnce == AtPrompt /\ isbroken /\ Run(pc, TRUE) /\ UNCHANGED isbroken

-----------------------------------------------------------------------------
(* Commands that leave the machine stopped.                                 *)

BreakAdd(addr) == AtPrompt /\ AddBreakpoint(addr) /\ UNCHANGED vmVars

BreakRemove(addr) == AtPrompt /\ RemoveBreakpoint(addr) /\ UNCHANGED vmVars

(***************************************************************************)
(* 'set' stores its bytes one by one and returns at the first that is not  *)
(* a byte.  The address goes round after 0xffff, but there is no such cell.*)
(***************************************************************************)
SetMemory(e) ==
  /\ AtPrompt
  /\ \E n \in e.stored :
       IF e.at + n <= MemSize
         THEN memory' = Stored(e.at, e.code, n) /\ UNCHANGED control
         ELSE control' = "undefined" /\ UNCHANGED memory
  /\ UNCHANGED <<registers, flags, sp, pc, isbroken, step, tstates, tableVars>>

(***************************************************************************)
(* 'load' stores a program, or the beginning of one whose assembly fails,  *)
(* as far as there is memory.  A program paused before stays paused, at    *)
(* the same address.                                                       *)
(***************************************************************************)
Load(i) ==
  /\ AtPrompt
  /\ \E n \in i.stored : memory' = Stored(i.at, i.code, n)
  /\ UNCHANGED <<registers, flags, sp, pc, isbroken, step, tstates, control,
                 tableVars>>

Exit ==
  /\ AtPrompt
  /\ control' = "exited"
  /\ UNCHANGED <<cpuVars, pc, isbroken, step, tstates, tableVars>>

Command ==
  \/ \E addr \in ExecAddresses : Exec(addr)
  \/ Continue
  \/ StepOnce
  \/ \E addr \in BreakAddresses : BreakAdd(addr) \/ BreakRemove(addr)
  \/ \E e \in Edits : SetMemory(e)
  \/ \E i \in Images : Load(i)
  \/ Exit

Init == VmInit /\ TableInit

Next == Command \/ Turn

\* run() is a loop of the only thread; nothing makes the user type a command.
Spec == Init /\ [][Next]_vars /\ WF_vars(Turn)

-----------------------------------------------------------------------------

(***************************************************************************)
(* From its second instruction on, a run is never about to execute an      *)
(* instruction at a breakpoint, and a single step has no second            *)
(* instruction: machine_on_breakpoint is asked after every instruction and *)
(* with the program counter that instruction left.                         *)
(***************************************************************************)
OffBreakpoints == control = "loop" => pc \notin Attached /\ ~step

(***************************************************************************)
(* The debugger keeps the promise DebugSession states; in particular no    *)
(* command but exec moves a paused program, and what the table holds is    *)
(* what the machine pauses at.                                             *)
(***************************************************************************)
Mode ==
  CASE Running -> "running"
    [] AtPrompt -> IF isbroken THEN "paused" ELSE "idle"
    [] control = "undefined" -> "lost"
    [] control = "exited" -> "left"

Session == INSTANCE DebugSession
             WITH Address <- Word, mode <- Mode, at <- pc,
                  single <- Running /\ step, marks <- Attached

KeepsSession == Session!SessionSpec

\* A program that cannot loop for ever gives the prompt back.
RunsEnd == Running ~> ~Running
================================================================================
