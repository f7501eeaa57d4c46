---------------------------------- MODULE Listing ----------------------------------
(***************************************************************************)
(* The two commands of src/main.c that walk over the memory: 'show', which *)
(* prints the bytes between two addresses, and 'dis', which disassembles   *)
(* them.  One action is one turn of their loops.                           *)
(***************************************************************************)
EXTENDS Memory, Disassembler, Opcodes

CONSTANT OutsideBytes   (* what a read past the last cell may return *)

ASSUME OutsideAssumption == OutsideBytes \subseteq Byte

VARIABLES listing,      (* "none", or the command whose loop runs: "show", "dis" *)
          listPointer,  (* its counter: start, or intrpointer                    *)
          upto,         (* its last address                                      *)
          printed       (* the line printed by its last turn                     *)

listingVars == <<listing, listPointer, upto, printed>>

NoLine == [at |-> 0]

ListingInit ==
  /\ listing = "none"
  /\ listPointer = 0 /\ upto = 0
  /\ printed = NoLine

Begin(command, start, end) ==
  /\ listing = "none"
  /\ listing' = command
  /\ listPointer' = start /\ upto' = end
  /\ printed' = NoLine

Show(start, end) == Begin("show", start, end)
Dis(start, end) == Begin("dis", start, end)

\* The memory, continued by what may lie behind it, as far as 'dis' reads.
ReadAs(outside) ==
  [a \in 0 .. MemSize + 2 |-> IF a \in Cells THEN memory[a] ELSE outside]

\* start is a u16, end + 1 is not: no start differs from 0x10000.
ShowGoesOn == listPointer # upto + 1

ShowLine ==
  /\ listing = "show"
  /\ ShowGoesOn
  /\ \E outside \in OutsideBytes :
       printed' = [at |-> listPointer, byte |-> ReadAs(outside)[listPointer]]
  /\ listPointer' = Wrap(listPointer + 1)
  /\ UNCHANGED <<listing, upto>>

\* Mutant of DisGoesOn: the loop only ends at the very address after the last.
DisGoesOnUntil == listPointer # upto + 1

DisGoesOn == listPointer <= upto

DisLine ==
  /\ listing = "dis"
  /\ DisGoesOn
  /\ \E outside \in OutsideBytes :
       printed' = bytecode_disassemble(ReadAs(outside), listPointer)
  /\ listPointer' = printed'.intrpointer
  /\ UNCHANGED <<listing, upto>>

\* Mutant of EndListing: the loop of 'dis' has no end.
EndListingOfShow ==
  /\ listing = "show" /\ ~ShowGoesOn
  /\ listing' = "none"
  /\ UNCHANGED <<listPointer, upto, printed>>

EndListing ==
  /\ \/ listing = "show" /\ ~ShowGoesOn
     \/ listing = "dis" /\ ~DisGoesOn
  /\ listing' = "none"
  /\ UNCHANGED <<listPointer, upto, printed>>

ListingTurn == ShowLine \/ DisLine \/ EndListing

ListingNext ==
  \/ \E start, end \in Word : Show(start, end) \/ Dis(start, end)
  \/ ListingTurn

ListingSpec ==
  /\ ListingInit /\ memory \in [Cells -> Byte]
  /\ [][ListingNext /\ UNCHANGED memory]_<<listingVars, memory>>

-----------------------------------------------------------------------------

LastAddress == AddrMod - 1

ListingTypeOK ==
  /\ listing \in {"none", "show", "dis"}
  /\ listPointer \in Word /\ upto \in Word

(***************************************************************************)
(* The ends that are safe: any but the last address for 'show', and one    *)
(* with room behind it for the longest instruction for 'dis'.              *)
(***************************************************************************)
Safe ==
  \/ listing = "show" /\ upto # LastAddress
  \/ listing = "dis" /\ upto + 3 <= LastAddress

\* How many addresses are left, for 'show' around the end of the addresses.
Remaining ==
  IF listing = "show" THEN Wrap(upto + 1 - listPointer + AddrMod)
                      ELSE upto + 3 - listPointer

(***************************************************************************)
(* With a safe end, each line brings a listing nearer to its end: 'show'   *)
(* by one address, 'dis' by one to three, never past more than the two     *)
(* operand bytes of the last instruction.                                  *)
(***************************************************************************)
Approaches ==
  [][listing # "none" /\ Safe /\ listing' = listing
       => /\ Remaining' \in 0 .. Remaining - 1
          /\ Remaining - Remaining' <= 3
          /\ listing = "show" => Remaining - Remaining' = 1]_listingVars

(***************************************************************************)
(* 'dis' steps by the lengths by which the machine executes.               *)
(***************************************************************************)
StepsLikeMachine ==
  listing = "dis" /\ printed # NoLine /\ printed.at \in Cells =>
    listPointer = Wrap(printed.at + Length(memory[printed.at]))

(***************************************************************************)
(* A listing with a safe end gives the prompt back.                        *)
(***************************************************************************)
ListingsEnd == (listing # "none" /\ Safe) ~> listing = "none"
====================================================================================
