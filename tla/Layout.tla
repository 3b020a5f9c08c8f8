------------------------------- MODULE Layout -------------------------------
(***************************************************************************)
(* The slot of the next variable of a frame, as createBinaryOpInstruction,  *)
(* createDeclareInstruction, createCallInstruction and                      *)
(* createParameterInstruction of IR_CFG.c all compute it.  An operator      *)
(* named D_what_is_wrong is D with a seeded fault.                          *)
(***************************************************************************)
EXTENDS Integers, Sequences

Size == {1, 2}                           \* type_to_size: bool, and the others

(* align_size. *)
AlignOf(size) == IF size >= 2 THEN 2 ELSE 1

(* The position rounded up to the alignment of a slot of that size. *)
Aligned_down(pos, size) == (pos \div AlignOf(size)) * AlignOf(size)
Aligned_not(pos, size) == pos
Aligned(pos, size) == ((pos + AlignOf(size) - 1) \div AlignOf(size)) * AlignOf(size)

(* The frame after one more slot.  pos is arg2 of FUNC_START, the bytes in  *)
(* use; params is arg3, the bytes the parameters use; open tells whether    *)
(* parameters can still come.                                               *)
WithSlot_above(f, size) ==
  [f EXCEPT !.slots = Append(@, [size |-> size, offset |-> Aligned(f.pos, size) + size]),
            !.pos = Aligned(f.pos, size) + size]
WithSlot(f, size) ==
  [f EXCEPT !.slots = Append(@, [size |-> size, offset |-> -(Aligned(f.pos, size) + size)]),
            !.pos = Aligned(f.pos, size) + size]

EmptyFrame == [slots |-> <<>>, pos |-> 0, params |-> 0, open |-> TRUE]

(* The frame after slots of these sizes have been taken in order.           *)
Laid(sizes) ==
  LET frame[k \in 0 .. Len(sizes)] ==
        IF k = 0 THEN EmptyFrame ELSE WithSlot(frame[k - 1], sizes[k])
  IN frame[Len(sizes)]

=============================================================================
