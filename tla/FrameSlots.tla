----------------------------- MODULE FrameSlots -----------------------------
(***************************************************************************)
(* Where IR_CFG.c puts parameters, local variables and temporaries while it *)
(* lowers a program: a slot below the base pointer of the frame of the      *)
(* function being lowered, or of the main program for temporaries that      *)
(* belong to no function.  A slot covers the bytes offset ..                *)
(* offset + size - 1 relative to BP, where offset is negative.              *)
(*                                                                         *)
(* A function may be declared inside another one, so the functions being    *)
(* lowered form a stack (function_entry_blocks), and each allocates in the  *)
(* frame on top.  Global variables live in the data segment and have no     *)
(* slot.  Layout has the arithmetic.                                        *)
(***************************************************************************)
EXTENDS Layout

CONSTANTS MaxOpen,    \* bound: functions nested in one another
          MaxSlots,   \* bound: slots in one frame
          MaxDone     \* bound: functions lowered

ASSUME BoundsAssumption == MaxOpen \in Nat /\ MaxSlots \in Nat /\ MaxDone \in Nat

VARIABLES
  entries,    \* frames of the functions being lowered, innermost first
  main,       \* frame of the main program
  finished    \* what FUNC_START and FUNC_END of the lowered functions say

vars == <<entries, main, finished>>

InBody(f) == [f EXCEPT !.open = FALSE]

Init ==
  /\ entries = <<>>
  /\ main = EmptyFrame
  /\ finished = <<>>

(* buildFunctionCFG enters a function: a new frame on the stack. *)
OpenFunction ==
  /\ Len(entries) < MaxOpen
  /\ Len(entries) + Len(finished) < MaxDone
  /\ entries' = <<EmptyFrame>> \o (IF entries = <<>> THEN <<>>
                                   ELSE <<InBody(Head(entries))>> \o Tail(entries))
  /\ UNCHANGED <<main, finished>>

(* createParameterInstruction, only at the start of a function. *)
Parameter(size) ==
  /\ entries # <<>>
  /\ Head(entries).open
  /\ Len(Head(entries).slots) < MaxSlots
  /\ LET f == WithSlot(Head(entries), size)
     IN entries' = <<[f EXCEPT !.params = f.pos]>> \o Tail(entries)
  /\ UNCHANGED <<main, finished>>

(* createDeclareInstruction in a function, and createBinaryOpInstruction or *)
(* createCallInstruction (whose result has two bytes) there.                *)
LocalSlot(size) ==
  /\ entries # <<>>
  /\ Len(Head(entries).slots) < MaxSlots
  /\ entries' = <<InBody(WithSlot(Head(entries), size))>> \o Tail(entries)
  /\ UNCHANGED <<main, finished>>

(* The same for a temporary outside of any function. *)
GlobalTemporary(size) ==
  /\ entries = <<>>
  /\ Len(main.slots) < MaxSlots
  /\ main' = WithSlot(main, size)
  /\ UNCHANGED <<entries, finished>>

(* The end of buildFunctionCFG: FUNC_END gets the numbers FUNC_START has.   *)
CloseFunction ==
  /\ entries # <<>>
  /\ finished' = Append(finished, Head(entries))
  /\ entries' = Tail(entries)
  /\ UNCHANGED main

Next ==
  \/ OpenFunction
  \/ \E size \in Size : Parameter(size) \/ LocalSlot(size) \/ GlobalTemporary(size)
  \/ CloseFunction

Spec == Init /\ [][Next]_vars

-----------------------------------------------------------------------------
Slot == [size : Size, offset : Int \ Nat]

FrameType == [slots : Seq(Slot), pos : Nat, params : Nat, open : BOOLEAN]

(* Frames are records of slots below BP, whatever the program. *)
TypeOK ==
  /\ entries \in Seq(FrameType)
  /\ main \in FrameType
  /\ finished \in Seq(FrameType)

Frames == {entries[k] : k \in 1 .. Len(entries)} \cup {main}
            \cup {finished[k] : k \in 1 .. Len(finished)}

Disjoint(s, t) == s.offset + s.size <= t.offset \/ t.offset + t.size <= s.offset

(* Two variables of one frame never share a byte. *)
NoOverlap ==
  \A f \in Frames : \A j, k \in 1 .. Len(f.slots) :
    j # k => Disjoint(f.slots[j], f.slots[k])

(* Every slot lies below BP, so it misses the saved BP and the return       *)
(* address, and inside the space SUB SP reserves, so what is pushed while   *)
(* the function runs misses it.  Words are at even offsets.                 *)
InReservedSpace ==
  \A f \in Frames : \A k \in 1 .. Len(f.slots) :
    /\ f.slots[k].offset + f.slots[k].size <= 0
    /\ -(f.pos * 2) <= f.slots[k].offset
    /\ f.slots[k].size = 2 => f.slots[k].offset % 2 = 0

=============================================================================
