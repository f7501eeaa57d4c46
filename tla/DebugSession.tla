------------------------------ MODULE DebugSession ------------------------------
(***************************************************************************)
(* What the debugger promises its user, whatever the program computes: a   *)
(* program that was started runs until it halts or comes to a marked       *)
(* address; a paused one stays where it is until it is resumed or another  *)
(* run is started; a single step executes one instruction.                 *)
(***************************************************************************)
EXTENDS Naturals

CONSTANT Address

VARIABLES mode,    (* "idle", "running", "paused", "lost" or "left"       *)
          at,      (* the address of the next instruction                 *)
          single,  (* the run under way is a single step                  *)
          marks    (* the addresses to pause at                           *)

sessionVars == <<mode, at, single, marks>>

AtPrompt == mode \in {"idle", "paused"}

SessionInit == mode = "idle" /\ at = 0 /\ single = FALSE /\ marks = {}

Mark(a) ==
  /\ AtPrompt
  /\ marks' \in {marks \cup {a}, marks \ {a}}
  /\ UNCHANGED <<mode, at, single>>

\* A run may be started anywhere, at any prompt.
Start(a) ==
  /\ AtPrompt
  /\ mode' = "running" /\ at' = a /\ single' = FALSE
  /\ UNCHANGED marks

\* Only a paused program is resumed, and where it was paused.
Resume ==
  /\ mode = "paused"
  /\ mode' = "running"
  /\ single' \in BOOLEAN
  /\ UNCHANGED <<at, marks>>

\* After one instruction the program runs on, pauses or has halted.
RunOn(a) ==
  /\ mode = "running"
  /\ ~single /\ a \notin marks
  /\ at' = a
  /\ UNCHANGED <<mode, single, marks>>

Pause(a) ==
  /\ mode = "running"
  /\ single \/ a \in marks
  /\ mode' = "paused" /\ at' = a /\ single' = FALSE
  /\ UNCHANGED marks

Finish(a) ==
  /\ mode = "running"
  /\ mode' = "idle" /\ at' = a /\ single' = FALSE
  /\ UNCHANGED marks

\* The machine was made to reach outside its memory.
Lose ==
  /\ AtPrompt \/ mode = "running"
  /\ mode' = "lost"
  /\ single' = FALSE
  /\ UNCHANGED <<at, marks>>

Leave ==
  /\ AtPrompt
  /\ mode' = "left"
  /\ UNCHANGED <<at, single, marks>>

SessionNext ==
  \/ \E a \in Address : Mark(a) \/ Start(a) \/ RunOn(a) \/ Pause(a) \/ Finish(a)
  \/ Resume \/ Lose \/ Leave

SessionSpec == SessionInit /\ [][SessionNext]_sessionVars
================================================================================
