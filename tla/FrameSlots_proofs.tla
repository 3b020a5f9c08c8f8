-------------------------- MODULE FrameSlots_proofs --------------------------
(***************************************************************************)
(* Proofs about FrameSlots, for every number of functions and slots: the    *)
(* frames keep their type, the variables of a frame never overlap, and they *)
(* stay inside the space the function reserves.                             *)
(*                                                                         *)
(* NoOverlap does not say where a new slot goes, so it is not inductive.    *)
(* GoodFrame is: the slots descend in the order they were taken, all of     *)
(* them within pos bytes below BP, and the next one starts below that.      *)
(***************************************************************************)
EXTENDS FrameSlots, TLAPS

Descending(f) ==
  \A j, k \in 1 .. Len(f.slots) :
    j < k => f.slots[k].offset + f.slots[k].size <= f.slots[j].offset

Within(f) ==
  \A k \in 1 .. Len(f.slots) :
    /\ -f.pos <= f.slots[k].offset
    /\ f.slots[k].offset + f.slots[k].size <= 0
    /\ f.slots[k].size = 2 => f.slots[k].offset % 2 = 0

GoodFrame(f) == f \in FrameType /\ Descending(f) /\ Within(f)

IInv ==
  /\ entries \in Seq(FrameType) /\ main \in FrameType /\ finished \in Seq(FrameType)
  /\ \A k \in 1 .. Len(entries) : GoodFrame(entries[k])
  /\ GoodFrame(main)
  /\ \A k \in 1 .. Len(finished) : GoodFrame(finished[k])

(* The rounding of createDeclareInstruction and the others never goes back  *)
(* into the bytes in use, and aligns words.                                 *)
LEMMA AlignedUp ==
  ASSUME NEW pos \in Nat, NEW size \in Size
  PROVE  /\ Aligned(pos, size) \in Nat
         /\ Aligned(pos, size) >= pos
         /\ size = 2 => Aligned(pos, size) % 2 = 0
<1>1. CASE size = 1
  <2>1. Aligned(pos, size) = ((pos + 1 - 1) \div 1) * 1
    BY <1>1 DEF Aligned, AlignOf
  <2> QED BY <2>1, <1>1
<1>2. CASE size = 2
  <2>1. Aligned(pos, size) = ((pos + 2 - 1) \div 2) * 2
    BY <1>2 DEF Aligned, AlignOf
  <2> QED BY <2>1, <1>2
<1> QED BY <1>1, <1>2 DEF Size

(* The parts of a frame. *)
LEMMA FrameParts ==
  ASSUME NEW f \in FrameType
  PROVE  /\ f.pos \in Nat /\ f.slots \in Seq(Slot)
         /\ \A k \in 1 .. Len(f.slots) : f.slots[k].offset \in Int /\ f.slots[k].size \in Int
<1>1. f.pos \in Nat /\ f.slots \in Seq(Slot)
  BY DEF FrameType
<1>2. \A k \in 1 .. Len(f.slots) : f.slots[k] \in Slot
  BY <1>1
<1> QED BY <1>1, <1>2 DEF Slot, Size

(* One more slot keeps a frame good: WithSlot is what every instruction     *)
(* that needs a variable does.                                              *)
LEMMA WithSlotGood ==
  ASSUME NEW f, GoodFrame(f), NEW size \in Size
  PROVE  /\ GoodFrame(WithSlot(f, size))
         /\ WithSlot(f, size).pos \in Nat
<1> DEFINE g   == WithSlot(f, size)
           A   == Aligned(f.pos, size)
           new == [size |-> size, offset |-> -(A + size)]
<1>1. f \in FrameType /\ f.pos \in Nat /\ f.slots \in Seq(Slot)
  BY FrameParts DEF GoodFrame
<1>2. A \in Nat /\ A >= f.pos /\ (size = 2 => A % 2 = 0)
  BY <1>1, AlignedUp
<1> HIDE DEF A
<1>3. size \in Int /\ size > 0 /\ (size = 2 \/ size = 1)
  BY DEF Size
<1>4. new \in Slot
  BY <1>2, <1>3 DEF Slot
<1>5. g = [f EXCEPT !.slots = Append(f.slots, new), !.pos = A + size]
  BY DEF WithSlot, A
<1>6. /\ g \in FrameType
      /\ g.slots = Append(f.slots, new)
      /\ g.pos = A + size
  <2>1. /\ f.slots \in Seq(Slot) /\ Append(f.slots, new) \in Seq(Slot)
        /\ A + size \in Nat
    BY <1>1, <1>2, <1>3, <1>4
  <2>2. f \in [slots : Seq(Slot), pos : Nat, params : Nat, open : BOOLEAN]
    BY <1>1 DEF FrameType
  <2> HIDE DEF new, g
  <2>3. g = [slots |-> Append(f.slots, new), pos |-> A + size,
             params |-> f.params, open |-> f.open]
    BY <2>2, <1>5
  <2> QED BY <2>1, <2>2, <2>3 DEF FrameType
<1>7. /\ Len(g.slots) = Len(f.slots) + 1
      /\ g.slots[Len(f.slots) + 1] = new
      /\ \A k \in 1 .. Len(f.slots) : g.slots[k] = f.slots[k]
  BY <1>1, <1>4, <1>6
<1>8. \A k \in 1 .. Len(f.slots) : f.slots[k].offset \in Int /\ f.slots[k].size \in Int
  BY <1>1, FrameParts
<1>9. new.offset = -(A + size) /\ new.size = size
  OBVIOUS
<1> HIDE DEF g, new
<1>10. Descending(g)
  <2> SUFFICES ASSUME NEW j \in 1 .. Len(g.slots), NEW k \in 1 .. Len(g.slots), j < k
               PROVE  g.slots[k].offset + g.slots[k].size <= g.slots[j].offset
    BY DEF Descending
  <2>1. j \in 1 .. Len(f.slots)
    BY <1>1, <1>7
  <2>2. CASE k \in 1 .. Len(f.slots)
    BY <2>1, <2>2, <1>7 DEF GoodFrame, Descending
  <2>3. CASE k = Len(f.slots) + 1
    <3>1. -f.pos <= f.slots[j].offset
      BY <2>1 DEF GoodFrame, Within
    <3>2. g.slots[j] = f.slots[j] /\ g.slots[k].offset + g.slots[k].size = -A
      <4>1. g.slots[j] = f.slots[j] /\ g.slots[k] = new
        BY <2>1, <2>3, <1>7
      <4> QED BY <4>1, <1>2, <1>3, <1>9
    <3>3. -A <= -f.pos
      BY <1>1, <1>2, <1>3
    <3>4. f.slots[j].offset \in Int /\ -A \in Int /\ -f.pos \in Int
      BY <2>1, <1>1, <1>2, <1>8
    <3> QED BY <3>1, <3>2, <3>3, <3>4
  <2> QED BY <2>2, <2>3, <1>1, <1>7
<1>11. Within(g)
  <2> SUFFICES ASSUME NEW k \in 1 .. Len(g.slots)
               PROVE  /\ -g.pos <= g.slots[k].offset
                      /\ g.slots[k].offset + g.slots[k].size <= 0
                      /\ g.slots[k].size = 2 => g.slots[k].offset % 2 = 0
    BY DEF Within
  <2>1. CASE k \in 1 .. Len(f.slots)
    <3>1. /\ -f.pos <= f.slots[k].offset
          /\ f.slots[k].offset + f.slots[k].size <= 0
          /\ f.slots[k].size = 2 => f.slots[k].offset % 2 = 0
      BY <2>1 DEF GoodFrame, Within
    <3>2. g.slots[k] = f.slots[k] /\ f.slots[k].offset \in Int
      BY <2>1, <1>7, <1>8
    <3>3. -g.pos <= -f.pos /\ -g.pos \in Int /\ -f.pos \in Int
      BY <1>1, <1>2, <1>3, <1>6
    <3> QED BY <3>1, <3>2, <3>3
  <2>2. CASE k = Len(f.slots) + 1
    <3>1. size = 2 => (-(A + size)) % 2 = 0
      BY <1>2
    <3> QED BY <3>1, <2>2, <1>2, <1>3, <1>6, <1>7, <1>9
  <2> QED BY <2>1, <2>2, <1>1, <1>7
<1> QED BY <1>2, <1>3, <1>6, <1>10, <1>11 DEF GoodFrame, g

(* What FUNC_START says of the parameters, and whether more can come, has   *)
(* nothing to do with the slots.                                            *)
LEMMA SameSlotsGood ==
  ASSUME NEW f, GoodFrame(f)
  PROVE  /\ GoodFrame(InBody(f))
         /\ \A n \in Nat : GoodFrame([f EXCEPT !.params = n])
BY DEF GoodFrame, InBody, FrameType, Descending, Within

(* A program starts with an empty frame, and a function too. *)
LEMMA EmptyGood == GoodFrame(EmptyFrame)
BY DEF GoodFrame, EmptyFrame, FrameType, Descending, Within, Slot

(* Initially every frame is good. *)
LEMMA IInvInit == Init => IInv
BY EmptyGood DEF Init, IInv, GoodFrame

(* Replacing or adding the frame on top of the stack keeps the frames good. *)
LEMMA TopGood ==
  ASSUME IInv, entries # <<>>, NEW f, GoodFrame(f)
  PROVE  LET s == <<f>> \o Tail(entries)
         IN s \in Seq(FrameType) /\ \A k \in 1 .. Len(s) : GoodFrame(s[k])
<1> DEFINE s == <<f>> \o Tail(entries)
<1>1. entries \in Seq(FrameType) /\ f \in FrameType
  BY DEF IInv, GoodFrame
<1>2. /\ Tail(entries) \in Seq(FrameType)
      /\ Len(Tail(entries)) = Len(entries) - 1
      /\ \A k \in 1 .. Len(entries) - 1 : Tail(entries)[k] = entries[k + 1]
  BY <1>1
<1>3. s \in Seq(FrameType) /\ Len(s) = Len(entries) /\ s[1] = f
      /\ \A k \in 2 .. Len(entries) : s[k] = entries[k]
  BY <1>1, <1>2
<1> QED BY <1>1, <1>3 DEF IInv

(* Every step of the lowering keeps every frame good. *)
LEMMA IInvNext == IInv /\ [Next]_vars => IInv'
<1> SUFFICES ASSUME IInv, [Next]_vars PROVE IInv'
  OBVIOUS
<1>1. /\ entries \in Seq(FrameType) /\ finished \in Seq(FrameType) /\ main \in FrameType
      /\ \A k \in 1 .. Len(entries) : GoodFrame(entries[k])
      /\ entries # <<>> => GoodFrame(Head(entries))
  BY DEF IInv
<1>2. CASE OpenFunction
  <2>1. CASE entries = <<>>
    <3>1. entries' = <<EmptyFrame>>
      BY <1>2, <2>1 DEF OpenFunction
    <3> QED BY <3>1, <1>2, EmptyGood DEF OpenFunction, IInv, GoodFrame
  <2>2. CASE entries # <<>>
    <3> DEFINE s == <<InBody(Head(entries))>> \o Tail(entries)
    <3>1. GoodFrame(InBody(Head(entries)))
      BY <1>1, <2>2, SameSlotsGood
    <3>2. s \in Seq(FrameType) /\ \A k \in 1 .. Len(s) : GoodFrame(s[k])
      BY <3>1, <2>2, TopGood
    <3>3. entries' = <<EmptyFrame>> \o s
      BY <1>2, <2>2 DEF OpenFunction
    <3> HIDE DEF s
    <3>4. EmptyFrame \in FrameType
      BY EmptyGood DEF GoodFrame
    <3>5. /\ entries' \in Seq(FrameType) /\ Len(entries') = Len(s) + 1
          /\ entries'[1] = EmptyFrame
          /\ \A k \in 2 .. Len(s) + 1 : entries'[k] = s[k - 1]
      BY <3>2, <3>3, <3>4
    <3>6. \A k \in 1 .. Len(entries') : GoodFrame(entries'[k])
      BY <3>2, <3>5, EmptyGood
    <3> QED BY <3>5, <3>6, <1>2 DEF OpenFunction, IInv
  <2> QED BY <2>1, <2>2
<1>3. ASSUME NEW size \in Size, Parameter(size) PROVE IInv'
  <2> DEFINE f == WithSlot(Head(entries), size)
             g == [f EXCEPT !.params = f.pos]
  <2>1. GoodFrame(f) /\ f.pos \in Nat
    BY <1>1, <1>3, WithSlotGood DEF Parameter
  <2>2. entries # <<>> /\ entries' = <<g>> \o Tail(entries)
    BY <1>3 DEF Parameter
  <2> HIDE DEF f
  <2>3. GoodFrame(g)
    BY <2>1, SameSlotsGood
  <2> QED BY <2>2, <2>3, <1>3, TopGood DEF Parameter, IInv
<1>4. ASSUME NEW size \in Size, LocalSlot(size) PROVE IInv'
  <2> DEFINE g == InBody(WithSlot(Head(entries), size))
  <2>1. GoodFrame(g)
    BY <1>1, <1>4, WithSlotGood, SameSlotsGood DEF LocalSlot
  <2>2. entries # <<>> /\ entries' = <<g>> \o Tail(entries)
    BY <1>4 DEF LocalSlot
  <2> HIDE DEF g
  <2> QED BY <2>1, <2>2, <1>4, TopGood DEF LocalSlot, IInv
<1>5. ASSUME NEW size \in Size, GlobalTemporary(size) PROVE IInv'
  <2>1. GoodFrame(main') /\ main' \in FrameType
    BY <1>5, WithSlotGood DEF GlobalTemporary, IInv, GoodFrame
  <2> QED BY <2>1, <1>5 DEF GlobalTemporary, IInv
<1>6. CASE CloseFunction
  <2>1. /\ entries' = Tail(entries) /\ finished' = Append(finished, Head(entries))
        /\ main' = main /\ entries # <<>>
    BY <1>6 DEF CloseFunction
  <2>2. /\ entries' \in Seq(FrameType) /\ Len(entries') = Len(entries) - 1
        /\ \A k \in 1 .. Len(entries) - 1 : entries'[k] = entries[k + 1]
    BY <1>1, <2>1
  <2>3. \A k \in 1 .. Len(entries') : GoodFrame(entries'[k])
    BY <1>1, <2>2
  <2>4. Head(entries) \in FrameType
    BY <1>1, <2>1
  <2>5. /\ finished' \in Seq(FrameType) /\ Len(finished') = Len(finished) + 1
        /\ finished'[Len(finished) + 1] = Head(entries)
        /\ \A k \in 1 .. Len(finished) : finished'[k] = finished[k]
    BY <1>1, <2>1, <2>4
  <2>6. \A k \in 1 .. Len(finished') : GoodFrame(finished'[k])
    BY <1>1, <2>1, <2>5 DEF IInv
  <2> QED BY <2>1, <2>2, <2>3, <2>5, <2>6 DEF IInv
<1>7. CASE UNCHANGED vars
  BY <1>7 DEF vars, IInv
<1> QED BY <1>2, <1>3, <1>4, <1>5, <1>6, <1>7 DEF Next

(* In every reachable state every frame is good. *)
THEOREM Invariance == Spec => []IInv
BY IInvInit, IInvNext, PTL DEF Spec

(* Frames are records of slots below BP. *)
THEOREM TypeCorrect == Spec => []TypeOK
<1>1. IInv => TypeOK
  BY DEF IInv, TypeOK
<1> QED BY <1>1, Invariance, PTL

(* Whatever a program declares and computes, two variables of a frame never *)
(* share a byte.                                                            *)
THEOREM SlotsDisjoint == Spec => []NoOverlap
<1>1. ASSUME NEW f, GoodFrame(f)
      PROVE  \A j, k \in 1 .. Len(f.slots) : j # k => Disjoint(f.slots[j], f.slots[k])
  <2> SUFFICES ASSUME NEW j \in 1 .. Len(f.slots), NEW k \in 1 .. Len(f.slots), j # k
               PROVE  Disjoint(f.slots[j], f.slots[k])
    OBVIOUS
  <2>1. f.slots \in Seq(Slot)
    BY <1>1, FrameParts DEF GoodFrame
  <2>2. j < k \/ k < j
    BY <2>1
  <2> QED BY <1>1, <2>2 DEF GoodFrame, Descending, Disjoint
<1>2. IInv => \A f \in Frames : GoodFrame(f)
  BY DEF IInv, Frames
<1>3. IInv => NoOverlap
  BY <1>1, <1>2 DEF NoOverlap
<1> QED BY <1>3, Invariance, PTL

(* Every variable stays clear of the return address and of what is pushed   *)
(* while the function runs, and words are aligned.                          *)
THEOREM SlotsInReservedSpace == Spec => []InReservedSpace
<1>1. ASSUME NEW f, GoodFrame(f)
      PROVE  \A k \in 1 .. Len(f.slots) :
               /\ f.slots[k].offset + f.slots[k].size <= 0
               /\ -(f.pos * 2) <= f.slots[k].offset
               /\ f.slots[k].size = 2 => f.slots[k].offset % 2 = 0
  <2> SUFFICES ASSUME NEW k \in 1 .. Len(f.slots)
               PROVE  /\ f.slots[k].offset + f.slots[k].size <= 0
                      /\ -(f.pos * 2) <= f.slots[k].offset
                      /\ f.slots[k].size = 2 => f.slots[k].offset % 2 = 0
    OBVIOUS
  <2>1. f.pos \in Nat /\ f.slots[k].offset \in Int
    BY <1>1, FrameParts DEF GoodFrame
  <2>2. /\ -f.pos <= f.slots[k].offset
        /\ f.slots[k].offset + f.slots[k].size <= 0
        /\ f.slots[k].size = 2 => f.slots[k].offset % 2 = 0
    BY <1>1 DEF GoodFrame, Within
  <2> QED BY <2>1, <2>2
<1>2. IInv => \A f \in Frames : GoodFrame(f)
  BY DEF IInv, Frames
<1>3. IInv => InReservedSpace
  BY <1>1, <1>2 DEF InReservedSpace
<1> QED BY <1>3, Invariance, PTL

=============================================================================
