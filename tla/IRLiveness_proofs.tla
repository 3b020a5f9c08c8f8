------------------------- MODULE IRLiveness_proofs -------------------------
(***************************************************************************)
(* Theorems about IRLiveness, for any flow graphs with mirrored edges.      *)
(*                                                                         *)
(* The inductive invariant IInv has six parts.  Typed: the variables have   *)
(* their types.  Walked: the walks know exactly the reachable blocks.       *)
(* Below: no live set has more than its equation gives, which is what makes *)
(* the sets grow, so that a flag set early is never wrong later.  Current:  *)
(* the block being processed is solved behind the current instruction.      *)
(* Settled: every other reachable block is queued or solved.  Removal: only *)
(* instructions without the flag are deleted, and all of them in the end.   *)
(***************************************************************************)
EXTENDS IRLiveness, SequenceTheorems, FiniteSetTheorems, WellFoundedInduction,
        NaturalsInduction, TLAPS

-----------------------------------------------------------------------------
(* Sequences seen as the set of their elements. *)

(* Taking off the head of a sequence takes off one element. *)
LEMMA RangeHeadTail ==
  ASSUME NEW S, NEW s \in Seq(S), s # <<>>
  PROVE  /\ Head(s) \in S /\ Tail(s) \in Seq(S)
         /\ Range(s) = {Head(s)} \cup Range(Tail(s))
         /\ Len(Tail(s)) = Len(s) - 1
<1>1. Tail(s) \in Seq(S) /\ Head(s) \in S /\ Len(Tail(s)) = Len(s) - 1
  BY HeadTailProperties
<1>2. Len(s) \in Nat \ {0} /\ Head(s) = s[1]
  BY EmptySeq
<1>3. \A i \in 1 .. Len(s) - 1 : Tail(s)[i] = s[i + 1]
  BY HeadTailProperties
<1>4. Range(s) = {s[i] : i \in 1 .. Len(s)}
  BY RangeEquality
<1>5. Range(Tail(s)) = {Tail(s)[i] : i \in 1 .. Len(s) - 1}
  BY <1>1, RangeEquality
<1>6. \A e \in Range(s) : e = Head(s) \/ e \in Range(Tail(s))
  <2> SUFFICES ASSUME NEW i \in 1 .. Len(s), i # 1
               PROVE  s[i] \in Range(Tail(s))
    BY <1>2, <1>4
  <2>1. i - 1 \in 1 .. Len(s) - 1 /\ Tail(s)[i - 1] = s[i]
    BY <1>2, <1>3
  <2> QED
    BY <2>1, <1>5
<1>7. \A e \in Range(Tail(s)) : e \in Range(s)
  <2> SUFFICES ASSUME NEW i \in 1 .. Len(s) - 1
               PROVE  Tail(s)[i] \in Range(s)
    BY <1>5
  <2>1. i + 1 \in 1 .. Len(s) /\ Tail(s)[i] = s[i + 1]
    BY <1>2, <1>3
  <2> QED
    BY <2>1, <1>4
<1>8. Head(s) \in Range(s)
  BY <1>2, <1>4
<1> QED
  BY <1>1, <1>6, <1>7, <1>8

(* A sequence of one element. *)
LEMMA RangeSingleton ==
  ASSUME NEW e PROVE Range(<<e>>) = {e}
<1>1. DOMAIN <<e>> = {1} /\ <<e>>[1] = e
  OBVIOUS
<1> QED
  BY <1>1 DEF Range

(* Putting an element in front adds it. *)
LEMMA RangeCons ==
  ASSUME NEW S, NEW s \in Seq(S), NEW e \in S
  PROVE  /\ <<e>> \o s \in Seq(S) /\ <<e>> \o s # <<>>
         /\ Range(<<e>> \o s) = {e} \cup Range(s)
         /\ Head(<<e>> \o s) = e
<1>1. <<e>> \in Seq(S) /\ Len(<<e>>) = 1 /\ <<e>>[1] = e
  OBVIOUS
<1>2. Range(<<e>>) = {e}
  BY RangeSingleton
<1>3. <<e>> \o s \in Seq(S)
  BY <1>1, ConcatProperties, Zenon
<1>6. Range(<<e>> \o s) = Range(<<e>>) \cup Range(s)
  <2>1. PICK t : t = <<e>>
    OBVIOUS
  <2>2. t \in Seq(S)
    BY <1>1, <2>1
  <2>3. Range(t \o s) = Range(t) \cup Range(s)
    BY <2>2, RangeConcatenation
  <2> QED
    BY <2>1, <2>3
<1>4. Len(<<e>> \o s) = 1 + Len(s) /\ (<<e>> \o s)[1] = e
  BY <1>1, ConcatProperties, LenProperties
<1>5. <<e>> \o s # <<>>
  BY <1>1, <1>3, <1>4, EmptySeq, LenProperties
<1> QED
  BY <1>2, <1>3, <1>4, <1>5, <1>6

(* Appending an element adds it. *)
LEMMA RangeAppend ==
  ASSUME NEW S, NEW s \in Seq(S), NEW e \in S
  PROVE  /\ Append(s, e) \in Seq(S) /\ Range(Append(s, e)) = Range(s) \cup {e}
<1>1. <<e>> \in Seq(S) /\ Len(<<e>>) = 1 /\ <<e>>[1] = e
  OBVIOUS
<1>2. Range(<<e>>) = {e}
  BY RangeSingleton
<1>3. Append(s, e) \in Seq(S) /\ Append(s, e) = s \o <<e>>
  BY AppendProperties, AppendIsConcat
<1>4. Range(s \o <<e>>) = Range(s) \cup Range(<<e>>)
  <2>1. PICK t : t = <<e>>
    OBVIOUS
  <2>2. t \in Seq(S)
    BY <1>1, <2>1
  <2>3. Range(s \o t) = Range(s) \cup Range(t)
    BY <2>2, RangeConcatenation
  <2> QED
    BY <2>1, <2>3
<1> QED
  BY <1>2, <1>3, <1>4

-----------------------------------------------------------------------------
(* What a handler does, in the vocabulary of the liveness equations. *)

(* Everything live is recorded in used_at_all. *)
Known ==
  /\ cfg \in Programs
  /\ current_live \subseteq used_at_all
  /\ \A b \in Block : live_in[b] \subseteq used_at_all /\ live_out[b] \subseteq used_at_all

Typed == TypeOK /\ Known

(* A flow graph has the types of IR_Instruction and CodeBlock. *)
LEMMA CodeTypes ==
  ASSUME TypeOK
  PROVE  /\ Entry \in Block
         /\ \A b \in Block : /\ Code(b) \in Seq(Instruction)
                             /\ Succ(b) \in Seq(Block)
                             /\ Pred(b) \in Seq(Block)
                             /\ Range(Succ(b)) \subseteq Block
                             /\ Range(Pred(b)) \subseteq Block
                             /\ Len(Code(b)) \in Nat
                             /\ \A i \in 1 .. Len(Code(b)) : Code(b)[i] \in Instruction
<1>1. cfg \in Program
  BY DEF TypeOK
<1>2. /\ Entry \in Block
      /\ \A b \in Block : /\ Code(b) \in Seq(Instruction)
                          /\ Succ(b) \in Seq(Block)
                          /\ Pred(b) \in Seq(Block)
  BY <1>1 DEF Program, Entry, Code, Succ, Pred
<1>3. \A b \in Block : Range(Succ(b)) \subseteq Block /\ Range(Pred(b)) \subseteq Block
  BY <1>2, RangeOfSeq
<1>4. \A b \in Block : /\ Len(Code(b)) \in Nat
                       /\ \A i \in 1 .. Len(Code(b)) : Code(b)[i] \in Instruction
  BY <1>2, LenProperties, ElementOfSeq
<1> QED
  BY <1>2, <1>3, <1>4

(* The instruction being handled. *)
LEMMA AtInstructionTypes ==
  ASSUME TypeOK, handle_instruction
  PROVE  /\ phase = "liveness" /\ block \in Block
         /\ index \in 1 .. Len(Code(block)) /\ Instr \in Instruction
<1>1. phase = "liveness" /\ block # NoBlock /\ index > 0
  BY DEF handle_instruction, declare, assign, binary_operation, use_operand, func_call,
         parameter, live, unhandled, AtInstruction
<1>2. block \in Block /\ index \in Nat /\ index <= Len(Code(block))
  BY <1>1 DEF TypeOK
<1>3. Len(Code(block)) \in Nat
  BY <1>2, CodeTypes
<1>4. index \in 1 .. Len(Code(block))
  BY <1>1, <1>2, <1>3
<1> QED
  BY <1>1, <1>2, <1>4, CodeTypes DEF Instr

(* Every handler makes current_live what the equations say it is before the *)
(* instruction, records in used_at_all what became live, flags what must be *)
(* kept, and flags a computation only when its result is live.              *)
LEMMA HandlerEffect ==
  ASSUME Typed, handle_instruction
  PROVE  \E used \in SUBSET Name, marked \in BOOLEAN :
           /\ Handled(LiveBefore(Instr, current_live), used, marked)
           /\ LiveBefore(Instr, current_live) \subseteq used
           /\ used_at_all \subseteq used
           /\ Keeps(Instr, current_live) => marked
           /\ marked => Wanted(Instr, current_live)
<1> DEFINE ins == Instr
           before == LiveBefore(ins, current_live)
           OK(used, marked) == /\ Handled(before, used, marked)
                               /\ before \subseteq used
                               /\ used_at_all \subseteq used
                               /\ Keeps(ins, current_live) => marked
                               /\ marked => Wanted(ins, current_live)
<1> SUFFICES \E used \in SUBSET Name, marked \in BOOLEAN : OK(used, marked)
  OBVIOUS
<1>1. /\ ins \in Instruction /\ block \in Block /\ index \in 1 .. Len(Code(block))
      /\ current_live \subseteq used_at_all /\ used_at_all \subseteq Name
      /\ current_live \subseteq Name /\ cfg \in Programs
  BY AtInstructionTypes DEF Typed, TypeOK, Known
<1>2. CASE declare
  <2>1. ins.op \in DeclareOps
    BY <1>2 DEF declare, AtInstruction
  <2>2. before = current_live
    BY <2>1 DEF LiveBefore, Writes, Reads, Wanted, Matters, DeclareOps, AssignOps,
                BinaryOps, UseOps, CallOps, ParamOps, PureOps
  <2>3. ~ Keeps(ins, current_live) /\ Wanted(ins, current_live)
    BY <2>1 DEF Keeps, Wanted, DeclareOps, AssignOps, BinaryOps, UseOps, CallOps,
                ParamOps, LiveOps, PureOps
  <2>4. OK(used_at_all, ins.arg1 \in used_at_all)
    BY <1>1, <1>2, <2>2, <2>3 DEF declare
  <2> used_at_all \in SUBSET Name
    BY <1>1
  <2> WITNESS used_at_all \in SUBSET Name, (ins.arg1 \in used_at_all) \in BOOLEAN
  <2> QED
    BY <2>4
<1>3. CASE assign
  <2>1. ins.op \in AssignOps
    BY <1>3 DEF assign, AtInstruction
  <2>2. Compute({ins.arg2})
    BY <1>3 DEF assign
  <2>3. Reads(ins) = Matters({ins.arg2}) /\ Writes(ins) = {ins.arg1}
    BY <2>1 DEF Writes, Reads, Matters, BinaryOps, AssignOps, UseOps, CallOps,
                ParamOps, PureOps
  <2>4. /\ Keeps(ins, current_live) => ins.arg1 \in current_live
        /\ Wanted(ins, current_live) <=> ins.arg1 \in current_live
    BY <2>1 DEF Keeps, Wanted, AssignOps, UseOps, CallOps, ParamOps, LiveOps, PureOps
  <2>5. CASE ins.arg1 \in current_live
    <3>1. before = (current_live \ {ins.arg1}) \cup Matters({ins.arg2})
      BY <2>3, <2>4, <2>5 DEF LiveBefore
    <3>2. OK(used_at_all \cup Matters({ins.arg2}), TRUE)
      BY <1>1, <2>2, <2>4, <2>5, <3>1 DEF Compute
    <3> QED
      BY <1>1, <3>2 DEF Matters
  <2>6. CASE ins.arg1 \notin current_live
    <3>1. before = current_live
      BY <2>3, <2>4, <2>6 DEF LiveBefore
    <3>2. OK(used_at_all, FALSE)
      BY <1>1, <2>2, <2>4, <2>6, <3>1 DEF Compute
    <3> QED
      BY <1>1, <3>2
  <2> QED
    BY <2>5, <2>6
<1>4. CASE binary_operation
  <2>1. ins.op \in BinaryOps
    BY <1>4 DEF binary_operation, AtInstruction
  <2>2. Compute({ins.arg2, ins.arg3})
    BY <1>4 DEF binary_operation
  <2>3. Reads(ins) = Matters({ins.arg2, ins.arg3}) /\ Writes(ins) = {ins.arg1}
    BY <2>1 DEF Writes, Reads, Matters, BinaryOps, AssignOps, UseOps, CallOps,
                ParamOps, PureOps
  <2>4. /\ Keeps(ins, current_live) => ins.arg1 \in current_live
        /\ Wanted(ins, current_live) <=> ins.arg1 \in current_live
    BY <2>1 DEF Keeps, Wanted, BinaryOps, UseOps, CallOps, ParamOps, LiveOps, PureOps
  <2>5. CASE ins.arg1 \in current_live
    <3>1. before = (current_live \ {ins.arg1}) \cup Matters({ins.arg2, ins.arg3})
      BY <2>3, <2>4, <2>5 DEF LiveBefore
    <3>2. OK(used_at_all \cup Matters({ins.arg2, ins.arg3}), TRUE)
      BY <1>1, <2>2, <2>4, <2>5, <3>1 DEF Compute
    <3> QED
      BY <1>1, <3>2 DEF Matters
  <2>6. CASE ins.arg1 \notin current_live
    <3>1. before = current_live
      BY <2>3, <2>4, <2>6 DEF LiveBefore
    <3>2. OK(used_at_all, FALSE)
      BY <1>1, <2>2, <2>4, <2>6, <3>1 DEF Compute
    <3> QED
      BY <1>1, <3>2
  <2> QED
    BY <2>5, <2>6
<1>5. CASE use_operand
  <2>1. ins.op \in UseOps
    BY <1>5 DEF use_operand, AtInstruction
  <2>2. Use({ins.arg1})
    BY <1>5 DEF use_operand
  <2>3. /\ Reads(ins) = Matters({ins.arg1}) /\ Writes(ins) = {}
        /\ Wanted(ins, current_live)
    BY <2>1 DEF Writes, Reads, Wanted, Matters, BinaryOps, AssignOps, UseOps, CallOps,
                ParamOps, PureOps
  <2>4. before = current_live \cup Matters({ins.arg1})
    BY <2>3 DEF LiveBefore
  <2>5. OK(used_at_all \cup Matters({ins.arg1}), TRUE)
    BY <1>1, <2>2, <2>3, <2>4 DEF Use
  <2> QED
    BY <1>1, <2>5 DEF Matters
<1>6. CASE func_call
  <2>1. ins.op \in CallOps
    BY <1>6 DEF func_call, AtInstruction
  <2> DEFINE args == Matters(Range(ins.args))
  <2>2. Handled((current_live \cup args) \ {ins.arg3}, used_at_all \cup args, TRUE)
    BY <1>6 DEF func_call
  <2>3. Reads(ins) = args /\ Writes(ins) = {ins.arg3} /\ Wanted(ins, current_live)
    BY <2>1 DEF Writes, Reads, Wanted, Matters, BinaryOps, AssignOps, UseOps, CallOps,
                ParamOps, PureOps
  <2>4. ins.arg3 \notin args
    BY <1>1, <2>1, ProgramsAssumption DEF CallResultFresh, Instr, Code, Matters
  <2>5. before = (current_live \cup args) \ {ins.arg3}
    BY <2>3, <2>4 DEF LiveBefore
  <2>6. OK(used_at_all \cup args, TRUE)
    BY <1>1, <2>2, <2>3, <2>5
  <2> QED
    BY <1>1, <2>6 DEF Matters
<1>7. CASE parameter
  <2>1. ins.op \in ParamOps
    BY <1>7 DEF parameter, AtInstruction
  <2>2. Handled(current_live \ {ins.arg2}, used_at_all, ins.arg2 \in used_at_all)
    BY <1>7 DEF parameter
  <2>3. Reads(ins) = {} /\ Writes(ins) = {ins.arg2} /\ Wanted(ins, current_live)
    BY <2>1 DEF Writes, Reads, Wanted, Matters, BinaryOps, AssignOps, UseOps, CallOps,
                ParamOps, PureOps
  <2>4. Keeps(ins, current_live) => ins.arg2 \in current_live
    BY <2>1 DEF Keeps, BinaryOps, AssignOps, UseOps, CallOps, ParamOps, LiveOps, PureOps
  <2>5. before = current_live \ {ins.arg2}
    BY <2>3 DEF LiveBefore
  <2>6. OK(used_at_all, ins.arg2 \in used_at_all)
    BY <1>1, <2>2, <2>3, <2>4, <2>5
  <2> used_at_all \in SUBSET Name
    BY <1>1
  <2> WITNESS used_at_all \in SUBSET Name, (ins.arg2 \in used_at_all) \in BOOLEAN
  <2> QED
    BY <2>6
<1>8. CASE live
  <2>1. ins.op \in LiveOps
    BY <1>8 DEF live, AtInstruction
  <2>2. before = current_live /\ Wanted(ins, current_live)
    BY <2>1 DEF LiveBefore, Writes, Reads, Wanted, Matters, LiveOps, AssignOps,
                BinaryOps, UseOps, CallOps, ParamOps, PureOps
  <2>3. Handled(current_live, used_at_all, TRUE)
    <3>1. Matters({}) = {}
      BY DEF Matters
    <3>2. current_live \cup {} = current_live /\ used_at_all \cup {} = used_at_all
      OBVIOUS
    <3> QED
      BY <1>8, <3>1, <3>2 DEF live, Use
  <2>4. OK(used_at_all, TRUE)
    BY <1>1, <2>2, <2>3
  <2> QED
    BY <1>1, <2>4
<1>9. CASE unhandled
  <2>1. ins.op \in NoHandler
    BY <1>9 DEF unhandled, AtInstruction
  <2>2. before = current_live /\ ~ Keeps(ins, current_live)
    BY <2>1 DEF LiveBefore, Writes, Reads, Wanted, Matters, LiveOps, AssignOps, Keeps,
                BinaryOps, UseOps, CallOps, ParamOps, PureOps, NoHandler
  <2>3. OK(used_at_all, FALSE)
    BY <1>1, <1>9, <2>2 DEF unhandled
  <2> QED
    BY <1>1, <2>3
<1> QED
  BY <1>2, <1>3, <1>4, <1>5, <1>6, <1>7, <1>8, <1>9 DEF handle_instruction

-----------------------------------------------------------------------------
(* What the other actions do. *)

(* The flow graph never changes. *)
LEMMA CfgFixed ==
  ASSUME cfg' = cfg
  PROVE  /\ Entry' = Entry /\ Reachable' = Reachable
         /\ \A b : /\ Code(b)' = Code(b) /\ Succ(b)' = Succ(b) /\ Pred(b)' = Pred(b)
                   /\ EndOf(b)' = EndOf(b)
<1>1. /\ Entry' = Entry
      /\ \A b : /\ Code(b)' = Code(b) /\ Succ(b)' = Succ(b) /\ Pred(b)' = Pred(b)
                /\ EndOf(b)' = EndOf(b)
  BY DEF Entry, Code, Succ, Pred, EndOf
<1>2. \A S : Closed(S)' <=> Closed(S)
  BY <1>1 DEF Closed
<1>3. Reachable' = Reachable
  BY <1>2 DEF Reachable
<1> QED
  BY <1>1, <1>3

Frames == [block : Block, next : Nat \ {0}]

(* The frame on top of the stack. *)
LEMMA TopOfStack ==
  ASSUME TypeOK, stack # <<>>
  PROVE  /\ Top \in Frames /\ Tail(stack) \in Seq(Frames)
         /\ Range(stack) = {Top} \cup Range(Tail(stack))
         /\ Len(stack) = 1 <=> Tail(stack) = <<>>
<1>1. stack \in Seq(Frames)
  BY DEF TypeOK, Frames
<1>2. /\ Top \in Frames /\ Tail(stack) \in Seq(Frames)
      /\ Range(stack) = {Top} \cup Range(Tail(stack))
      /\ Len(Tail(stack)) = Len(stack) - 1
  BY <1>1, RangeHeadTail DEF Top
<1>3. Len(stack) \in Nat /\ Len(Tail(stack)) \in Nat
  BY <1>1, <1>2, LenProperties
<1>4. Tail(stack) # <<>> => Len(Tail(stack)) \in Nat \ {0}
  BY <1>2, EmptySeq
<1>5. Tail(stack) = <<>> => Len(Tail(stack)) = 0
  BY EmptySeq
<1> QED
  BY <1>2, <1>3, <1>4, <1>5

(* A step of the walk looks at the next successor, and enters it unless it  *)
(* has been seen.                                                           *)
LEMMA VisitEffect ==
  ASSUME TypeOK, MoreSuccessors, Visit
  PROVE  /\ Top \in Frames /\ Top.next \in 1 .. Len(Succ(Top.block))
         /\ TopSucc \in Range(Succ(Top.block)) /\ TopSucc \in Block
         /\ Range(stack) = {Top} \cup Range(Tail(stack))
         /\ stack' \in Seq(Frames) /\ stack' # <<>>
         /\ seen' = seen \cup {TopSucc}
         /\ Range(stack') = {[Top EXCEPT !.next = @ + 1]} \cup Range(Tail(stack))
              \cup (IF TopSucc \in seen THEN {} ELSE {Frame(TopSucc)})
<1> DEFINE next == [Top EXCEPT !.next = @ + 1]
<1>1. /\ Top \in Frames /\ Tail(stack) \in Seq(Frames)
      /\ Range(stack) = {Top} \cup Range(Tail(stack))
  BY TopOfStack DEF MoreSuccessors
<1>2. Top.block \in Block /\ Top.next \in Nat \ {0} /\ Top.next <= Len(Succ(Top.block))
  BY <1>1 DEF MoreSuccessors, Frames
<1>3. Succ(Top.block) \in Seq(Block) /\ Len(Succ(Top.block)) \in Nat
  BY <1>2, CodeTypes, LenProperties
<1>4. Top.next \in 1 .. Len(Succ(Top.block))
  BY <1>2, <1>3
<1>5. TopSucc \in Block
  BY <1>3, <1>4, ElementOfSeq DEF TopSucc
<1>6. TopSucc \in Range(Succ(Top.block))
  BY <1>3, <1>4, RangeEquality DEF TopSucc
<1>7. next \in Frames /\ Frame(TopSucc) \in Frames
  BY <1>1, <1>2, <1>5 DEF Frames, Frame
<1>8. /\ Advanced \in Seq(Frames) /\ Advanced # <<>>
      /\ Range(Advanced) = {next} \cup Range(Tail(stack))
  BY <1>1, <1>7, RangeCons DEF Advanced
<1>9. CASE TopSucc \in seen
  <2>1. stack' = Advanced /\ seen' = seen
    BY <1>9 DEF Visit
  <2> QED
    BY <1>1, <1>4, <1>5, <1>6, <1>8, <1>9, <2>1
<1>10. CASE TopSucc \notin seen
  <2>1. stack' = <<Frame(TopSucc)>> \o Advanced /\ seen' = seen \cup {TopSucc}
    BY <1>10 DEF Visit
  <2>2. /\ stack' \in Seq(Frames) /\ stack' # <<>>
        /\ Range(stack') = {Frame(TopSucc)} \cup Range(Advanced)
    BY <1>7, <1>8, <2>1, RangeCons
  <2> QED
    BY <1>1, <1>4, <1>5, <1>6, <1>8, <1>10, <2>1, <2>2
<1> QED
  BY <1>9, <1>10

(* The last instruction handled leaves the other points as they were. *)
LEMMA HandlerPoints ==
  ASSUME Typed, handle_instruction
  PROVE  /\ live_at' \in [Block -> Seq(SUBSET Name)]
         /\ \A b \in Block : Len(live_at'[b]) = EndOf(b)
         /\ \A b \in Block : \A i \in 1 .. EndOf(b) :
              live_at'[b][i] = IF b = block /\ i = index
                                 THEN LiveBefore(Instr, current_live) ELSE live_at[b][i]
<1> DEFINE before == LiveBefore(Instr, current_live)
<1>1. /\ TypeOK /\ block \in Block /\ index \in 1 .. Len(Code(block))
      /\ Len(Code(block)) \in Nat
  BY AtInstructionTypes, CodeTypes DEF Typed
<1>2. PICK used \in SUBSET Name, marked \in BOOLEAN :
        Handled(before, used, marked) /\ before \subseteq used
  BY HandlerEffect
<1>3. live_at' = [live_at EXCEPT ![block][index] = before] /\ before \in SUBSET Name
  BY <1>2 DEF Handled
<1>4. /\ live_at \in [Block -> Seq(SUBSET Name)]
      /\ \A b \in Block : Len(live_at[b]) = EndOf(b)
  BY <1>1 DEF TypeOK
<1>5. index \in 1 .. Len(live_at[block])
  BY <1>1, <1>4 DEF EndOf
<1> DEFINE new == [live_at[block] EXCEPT ![index] = before]
<1>6. /\ new \in Seq(SUBSET Name) /\ Len(new) = Len(live_at[block])
      /\ \A j \in 1 .. Len(live_at[block]) :
           new[j] = IF j = index THEN before ELSE live_at[block][j]
  <2>1. live_at[block] \in Seq(SUBSET Name)
    BY <1>1, <1>4
  <2> QED
    BY <1>3, <1>5, <2>1, ExceptSeq
<1>7. live_at' = [live_at EXCEPT ![block] = new]
  BY <1>3
<1> HIDE DEF new, before
<1>8. \A b \in Block : live_at'[b] = IF b = block THEN new ELSE live_at[b]
  BY <1>4, <1>7
<1> QED
  BY <1>1, <1>4, <1>6, <1>7, <1>8 DEF before

(* Taking a block from the queue sets the point at its end. *)
LEMMA DequeueEffect ==
  ASSUME Typed, Dequeue
  PROVE  /\ block' \in Block /\ block' = Head(Blocks) /\ Blocks' \in Seq(Block)
         /\ Range(Blocks) = {block'} \cup Range(Blocks')
         /\ index' = Len(Code(block'))
         /\ LET out == live_out[block'] \cup LiveInOfSuccessors(block')
            IN /\ out \subseteq used_at_all
               /\ current_live' = current_live \cup out
               /\ live_out' = [live_out EXCEPT ![block'] = out]
         /\ live_at' \in [Block -> Seq(SUBSET Name)]
         /\ \A b \in Block : Len(live_at'[b]) = EndOf(b)
         /\ \A b \in Block : \A i \in 1 .. EndOf(b) :
              live_at'[b][i] = IF b = block' /\ i = EndOf(b)
                                 THEN current_live' ELSE live_at[b][i]
<1> DEFINE b0  == Head(Blocks)
           out == live_out[b0] \cup LiveInOfSuccessors(b0)
<1>1. TypeOK /\ Known
  BY DEF Typed
<1>2. Blocks \in Seq(Block) /\ Blocks # <<>>
  BY <1>1 DEF TypeOK, Dequeue
<1>3. /\ b0 \in Block /\ Tail(Blocks) \in Seq(Block)
      /\ Range(Blocks) = {b0} \cup Range(Tail(Blocks))
  BY <1>2, RangeHeadTail
<1>4. /\ block' = b0 /\ Blocks' = Tail(Blocks) /\ index' = Len(Code(b0))
      /\ current_live' = current_live \cup out
      /\ live_out' = [live_out EXCEPT ![b0] = out]
      /\ live_at' = [live_at EXCEPT ![b0][Len(Code(b0)) + 1] = current_live']
  BY DEF Dequeue, LastInstruction
<1>5. out \subseteq used_at_all
  <2>1. Range(Succ(b0)) \subseteq Block
    BY <1>1, <1>3, CodeTypes
  <2>2. LiveInOfSuccessors(b0) \subseteq used_at_all
    BY <1>1, <2>1 DEF LiveInOfSuccessors, Known
  <2> QED
    BY <1>1, <1>3, <2>2 DEF Known
<1>6. current_live' \in SUBSET Name
  BY <1>1, <1>4, <1>5 DEF TypeOK
<1>7. /\ live_at \in [Block -> Seq(SUBSET Name)]
      /\ \A b \in Block : Len(live_at[b]) = EndOf(b)
  BY <1>1 DEF TypeOK
<1> DEFINE new == [live_at[b0] EXCEPT ![Len(Code(b0)) + 1] = current_live']
<1>8. Len(Code(b0)) + 1 \in 1 .. Len(live_at[b0]) /\ live_at[b0] \in Seq(SUBSET Name)
  <2>1. Len(Code(b0)) \in Nat
    BY <1>1, <1>3, CodeTypes, LenProperties
  <2>2. live_at[b0] \in Seq(SUBSET Name)
    BY <1>3, <1>7
  <2>3. Len(live_at[b0]) = Len(Code(b0)) + 1
    BY <1>3, <1>7 DEF EndOf
  <2> QED
    BY <2>1, <2>2, <2>3
<1>9. /\ new \in Seq(SUBSET Name) /\ Len(new) = Len(live_at[b0])
      /\ \A j \in 1 .. Len(live_at[b0]) :
           new[j] = IF j = Len(Code(b0)) + 1 THEN current_live' ELSE live_at[b0][j]
  BY <1>6, <1>8, ExceptSeq
<1>10. live_at' = [live_at EXCEPT ![b0] = new]
  BY <1>4
<1> HIDE DEF new
<1>11. \A b \in Block : live_at'[b] = IF b = b0 THEN new ELSE live_at[b]
  BY <1>7, <1>10
<1>12. /\ live_at' \in [Block -> Seq(SUBSET Name)]
       /\ \A b \in Block : Len(live_at'[b]) = EndOf(b)
  BY <1>3, <1>7, <1>9, <1>10, <1>11
<1>13. \A b \in Block : \A i \in 1 .. EndOf(b) :
         live_at'[b][i] = IF b = b0 /\ i = EndOf(b) THEN current_live' ELSE live_at[b][i]
  BY <1>3, <1>7, <1>9, <1>11 DEF EndOf
<1> QED
  BY <1>3, <1>4, <1>5, <1>12, <1>13

-----------------------------------------------------------------------------
(* Type correctness, with what used_at_all records. *)

(* The variables have their types at the start ... *)
LEMMA TypedInit == Init => Typed
<1> SUFFICES ASSUME Init PROVE Typed
  OBVIOUS
<1>1. cfg \in Program
  BY ProgramsAssumption DEF Init
<1>2. /\ Entry \in Block
      /\ \A b \in Block : Code(b) \in Seq(Instruction) /\ Len(Code(b)) \in Nat
  BY <1>1, LenProperties DEF Program, Entry, Code
<1>3. stack \in Seq(Frames)
  <2>1. Frame(Entry) \in Frames
    BY <1>2 DEF Frame, Frames
  <2> QED
    BY <2>1 DEF Init
<1>4. \A b \in Block : /\ live_at[b] \in Seq(SUBSET Name)
                       /\ Len(live_at[b]) = EndOf(b)
  <2> SUFFICES ASSUME NEW b \in Block
               PROVE  /\ live_at[b] \in Seq(SUBSET Name)
                      /\ Len(live_at[b]) = EndOf(b)
    OBVIOUS
  <2>1. live_at[b] = [i \in 1 .. Len(Code(b)) + 1 |-> {}]
    BY DEF Init
  <2>2. Len(Code(b)) + 1 \in Nat
    BY <1>2
  <2> QED
    BY <2>1, <2>2 DEF EndOf
<1>5. live_at \in [Block -> Seq(SUBSET Name)]
  BY <1>4 DEF Init
<1>6. Blocks \in Seq(Block)
  BY DEF Init
<1>7. TypeOK
  BY <1>1, <1>2, <1>3, <1>4, <1>5, <1>6 DEF Init, TypeOK, Frames, NothingLive
<1>8. Known
  BY DEF Init, Known, NothingLive
<1> QED
  BY <1>7, <1>8 DEF Typed

(* The parts of TypeOK a pass over the graph and a pass over the            *)
(* instructions work on.                                                    *)
WalkTypes ==
  /\ stack \in Seq(Frames)
  /\ seen \subseteq Block
  /\ removed \subseteq Block \X Nat

AnalysisTypes ==
  /\ block \in Block \cup {NoBlock}
  /\ index \in Nat
  /\ block # NoBlock => index <= Len(Code(block))
  /\ current_live \subseteq Name
  /\ used_at_all \subseteq Name
  /\ live_in \in [Block -> SUBSET Name]
  /\ live_out \in [Block -> SUBSET Name]
  /\ is_live \subseteq Block \X Nat
  /\ live_at \in [Block -> Seq(SUBSET Name)]
  /\ \A b \in Block : Len(live_at[b]) = EndOf(b)
  /\ current_live \subseteq used_at_all
  /\ \A b \in Block : live_in[b] \subseteq used_at_all /\ live_out[b] \subseteq used_at_all

StepTypes ==
  /\ cfg \in Program /\ cfg \in Programs
  /\ phase \in {"fill", "liveness", "remove", "done"}
  /\ Blocks \in Seq(Block)

(* A step of a walk leaves the types of the analysis alone. *)
LEMMA AnalysisUnchanged ==
  ASSUME AnalysisTypes, cfg' = cfg, UNCHANGED analysis
  PROVE  AnalysisTypes'
BY CfgFixed DEF AnalysisTypes, analysis

(* What remove_dead_code deletes are positions. *)
LEMMA NotLiveType ==
  ASSUME TypeOK, NEW b \in Block
  PROVE  NotLive(b) \subseteq Block \X Nat
<1> SUFFICES ASSUME NEW i \in 1 .. Len(Code(b))
             PROVE  <<b, i>> \in Block \X Nat
  BY DEF NotLive
<1>1. Len(Code(b)) \in Nat
  BY CodeTypes
<1> QED
  BY <1>1

(* ... and every step keeps them: one case per action of the pass. *)
LEMMA TypedNext == Typed /\ [Next]_vars => Typed'
<1> SUFFICES ASSUME Typed, [Next]_vars
             PROVE  StepTypes' /\ WalkTypes' /\ AnalysisTypes'
  BY DEF Typed, TypeOK, Known, StepTypes, WalkTypes, AnalysisTypes, Frames
<1>1. TypeOK /\ Known /\ StepTypes /\ WalkTypes /\ AnalysisTypes
  BY DEF Typed, TypeOK, Known, StepTypes, WalkTypes, AnalysisTypes, Frames
<1>2. CASE FillVisit
  <2>1. stack' \in Seq(Frames) /\ seen' \subseteq Block
    BY <1>1, <1>2, VisitEffect DEF FillVisit, TypeOK
  <2>2. WalkTypes' /\ UNCHANGED <<cfg, phase, Blocks, analysis>>
    BY <1>1, <1>2, <2>1 DEF FillVisit, WalkTypes
  <2> QED
    BY <1>1, <2>2, AnalysisUnchanged DEF StepTypes
<1>3. CASE FillEnqueue
  <2>1. Top \in Frames /\ Tail(stack) \in Seq(Frames)
    BY <1>1, <1>3, TopOfStack DEF FillEnqueue, AllSuccessors
  <2>2. Top.block \in Block
    BY <2>1 DEF Frames
  <2>3. Blocks' \in Seq(Block)
    BY <1>1, <1>3, <2>2 DEF FillEnqueue, TypeOK
  <2>4. WalkTypes' /\ phase' \in {"fill", "liveness"} /\ UNCHANGED <<cfg, analysis>>
    BY <1>1, <1>3, <2>1 DEF FillEnqueue, WalkTypes
  <2> QED
    BY <1>1, <2>3, <2>4, AnalysisUnchanged DEF StepTypes
<1>4. CASE Dequeue
  <2>1. /\ block' \in Block /\ Blocks' \in Seq(Block) /\ index' = Len(Code(block'))
        /\ current_live' \subseteq used_at_all
        /\ \E out \in SUBSET used_at_all : live_out' = [live_out EXCEPT ![block'] = out]
        /\ live_at' \in [Block -> Seq(SUBSET Name)]
        /\ \A b \in Block : Len(live_at'[b]) = EndOf(b)
    BY <1>1, <1>4, DequeueEffect DEF Known
  <2>2. UNCHANGED <<cfg, phase, walk, used_at_all, live_in, is_live, removed>>
    BY <1>4 DEF Dequeue
  <2>3. WalkTypes'
    BY <1>1, <2>2 DEF WalkTypes, walk
  <2>4. AnalysisTypes'
    <3>1. index' \in Nat /\ index' <= Len(Code(block'))
      BY <1>1, <2>1, CodeTypes
    <3>2. \A b \in Block : EndOf(b)' = EndOf(b) /\ Len(Code(block))' = Len(Code(block'))
      BY <2>2 DEF EndOf, Code
    <3>3. /\ live_out' \in [Block -> SUBSET Name]
          /\ \A b \in Block : live_out'[b] \subseteq used_at_all
      BY <1>1, <2>1 DEF AnalysisTypes
    <3> QED
      BY <1>1, <2>1, <2>2, <3>1, <3>2, <3>3 DEF AnalysisTypes
  <2> QED
    BY <1>1, <2>1, <2>2, <2>3, <2>4 DEF StepTypes
<1>5. CASE handle_instruction
  <2>1. PICK used \in SUBSET Name, marked \in BOOLEAN :
          /\ Handled(LiveBefore(Instr, current_live), used, marked)
          /\ LiveBefore(Instr, current_live) \subseteq used
          /\ used_at_all \subseteq used
    BY <1>5, HandlerEffect
  <2>2. block \in Block /\ index \in 1 .. Len(Code(block))
    BY <1>1, <1>5, AtInstructionTypes
  <2>3. /\ current_live' \subseteq used /\ used_at_all' = used /\ index' = index - 1
        /\ UNCHANGED <<cfg, phase, walk, Blocks, block, live_in, live_out, removed>>
        /\ is_live' \subseteq is_live \cup {<<block, index>>}
    BY <2>1 DEF Handled
  <2>4. /\ live_at' \in [Block -> Seq(SUBSET Name)]
        /\ \A b \in Block : Len(live_at'[b]) = EndOf(b)
    BY <1>5, HandlerPoints
  <2>5. WalkTypes'
    BY <1>1, <2>3 DEF WalkTypes, walk
  <2>6. AnalysisTypes'
    <3>1. index' \in Nat /\ index' <= Len(Code(block))
      BY <1>1, <2>2, <2>3, CodeTypes
    <3>2. \A b \in Block : EndOf(b)' = EndOf(b) /\ Len(Code(block))' = Len(Code(block))
      BY <2>3 DEF EndOf, Code
    <3>3. is_live' \subseteq Block \X Nat
      BY <1>1, <2>2, <2>3 DEF AnalysisTypes
    <3>4. \A b \in Block : live_in[b] \subseteq used /\ live_out[b] \subseteq used
      BY <1>1, <2>1 DEF AnalysisTypes
    <3> QED
      BY <1>1, <2>1, <2>3, <2>4, <3>1, <3>2, <3>3, <3>4 DEF AnalysisTypes
  <2> QED
    BY <1>1, <2>3, <2>5, <2>6 DEF StepTypes
<1>6. CASE FinishBlock
  <2>1. block \in Block
    BY <1>1, <1>6 DEF FinishBlock, TypeOK
  <2>2. /\ live_in' = [live_in EXCEPT ![block] = @ \cup current_live]
        /\ Blocks' \in {Blocks, Blocks \o Pred(block)}
        /\ current_live' = {} /\ block' = NoBlock
        /\ UNCHANGED <<cfg, phase, walk, index, used_at_all, live_out, is_live,
                       live_at, removed>>
    BY <1>6 DEF FinishBlock, Requeue
  <2>3. Blocks' \in Seq(Block)
    <3>1. Blocks \in Seq(Block) /\ Pred(block) \in Seq(Block)
      BY <1>1, <2>1, CodeTypes DEF TypeOK
    <3>2. Blocks \o Pred(block) \in Seq(Block)
      BY <3>1, ConcatProperties, Zenon
    <3> QED
      BY <2>2, <3>1, <3>2
  <2>4. WalkTypes'
    BY <1>1, <2>2 DEF WalkTypes, walk
  <2>5. AnalysisTypes'
    <3>1. /\ live_in' \in [Block -> SUBSET Name]
          /\ \A b \in Block : live_in'[b] \subseteq used_at_all
      BY <1>1, <2>1, <2>2 DEF AnalysisTypes
    <3>2. \A b \in Block : EndOf(b)' = EndOf(b)
      BY <2>2 DEF EndOf, Code
    <3> QED
      BY <1>1, <2>2, <3>1, <3>2 DEF AnalysisTypes
  <2> QED
    BY <1>1, <2>2, <2>3, <2>4, <2>5 DEF StepTypes
<1>7. CASE StartRemoval
  <2>1. Entry \in Block /\ Frame(Entry) \in Frames /\ NotLive(Entry) \subseteq Block \X Nat
    BY <1>1, CodeTypes, NotLiveType DEF Frame, Frames
  <2>2. <<Frame(Entry)>> \in Seq(Frames)
    BY <2>1
  <2>3. WalkTypes' /\ phase' = "remove" /\ UNCHANGED <<cfg, Blocks, analysis>>
    BY <1>1, <1>7, <2>1, <2>2 DEF StartRemoval, WalkTypes
  <2> QED
    BY <1>1, <2>3, AnalysisUnchanged DEF StepTypes
<1>8. CASE RemoveVisit
  <2>1. stack' \in Seq(Frames) /\ seen' \subseteq Block /\ TopSucc \in Block
    BY <1>1, <1>8, VisitEffect DEF RemoveVisit, TypeOK
  <2>2. removed' \subseteq Block \X Nat
    BY <1>1, <1>8, <2>1, NotLiveType DEF RemoveVisit, TypeOK
  <2>3. WalkTypes' /\ UNCHANGED <<cfg, phase, Blocks, analysis>>
    BY <1>8, <2>1, <2>2 DEF RemoveVisit, WalkTypes
  <2> QED
    BY <1>1, <2>3, AnalysisUnchanged DEF StepTypes
<1>9. CASE RemoveReturn
  <2>1. Tail(stack) \in Seq(Frames)
    BY <1>1, <1>9, TopOfStack DEF RemoveReturn, AllSuccessors
  <2>2. /\ WalkTypes' /\ phase' \in {"remove", "done"}
        /\ UNCHANGED <<cfg, Blocks, analysis>>
    BY <1>1, <1>9, <2>1 DEF RemoveReturn, WalkTypes
  <2> QED
    BY <1>1, <2>2, AnalysisUnchanged DEF StepTypes
<1>10. CASE UNCHANGED vars
  <2>1. UNCHANGED <<cfg, phase, Blocks, analysis>> /\ WalkTypes'
    BY <1>1, <1>10 DEF vars, WalkTypes, walk
  <2> QED
    BY <1>1, <2>1, AnalysisUnchanged DEF StepTypes
<1> QED
  BY <1>2, <1>3, <1>4, <1>5, <1>6, <1>7, <1>8, <1>9, <1>10 DEF Next, Returned

(* The variables keep their types. *)
THEOREM TypeCorrect == Spec => []TypeOK
<1>1. Init => Typed
  BY TypedInit
<1>2. Typed /\ [Next]_vars => Typed'
  BY TypedNext
<1>3. Typed => TypeOK
  BY DEF Typed
<1> QED
  BY <1>1, <1>2, <1>3, PTL DEF Spec

-----------------------------------------------------------------------------
(* The walks: when one ends, seen is the set of reachable blocks.           *)

OnStack(b) == \E f \in Range(stack) : f.block = b

Walked ==
  /\ Entry \in seen
  /\ seen \subseteq Reachable
  /\ phase \in {"fill", "remove"} =>
       /\ stack # <<>>
       /\ \A f \in Range(stack) :
            /\ f.block \in seen
            /\ \A j \in 1 .. Len(Succ(f.block)) : j < f.next => Succ(f.block)[j] \in seen
       /\ \A b \in seen : OnStack(b) \/ Range(Succ(b)) \subseteq seen
  /\ phase = "fill" => \A b \in seen : OnStack(b) \/ b \in Range(Blocks)
  /\ phase \in {"liveness", "done"} => Closed(seen)

(* Reachable is the least closed set. *)
LEMMA ReachableLeast ==
  ASSUME TypeOK
  PROVE  /\ Entry \in Reachable /\ Reachable \subseteq Block
         /\ \A b \in Reachable : Range(Succ(b)) \subseteq Reachable
         /\ \A S \in SUBSET Block : Closed(S) => Reachable \subseteq S
<1>1. Entry \in Block /\ \A b \in Block : Range(Succ(b)) \subseteq Block
  BY CodeTypes
<1>2. Entry \in Reachable /\ Reachable \subseteq Block
  BY <1>1 DEF Reachable, Closed
<1>3. ASSUME NEW b \in Reachable, NEW c \in Range(Succ(b))
      PROVE  c \in Reachable
  <2>1. b \in Block /\ c \in Block
    BY <1>1, <1>2, <1>3
  <2>2. ASSUME NEW S \in SUBSET Block, Closed(S)
        PROVE  c \in S
    <3>1. b \in S
      BY <1>3, <2>2 DEF Reachable
    <3> QED
      BY <1>3, <2>2, <3>1 DEF Closed
  <2> QED
    BY <2>1, <2>2 DEF Reachable
<1>4. \A S \in SUBSET Block : Closed(S) => Reachable \subseteq S
  BY DEF Reachable
<1> QED
  BY <1>2, <1>3, <1>4

(* One more successor looked at, in either walk. *)
LEMMA VisitWalks ==
  ASSUME TypeOK, Walked, phase \in {"fill", "remove"}, MoreSuccessors, Visit,
         cfg' = cfg, phase' = phase, Blocks' = Blocks
  PROVE  Walked'
<1> USE CfgFixed
<1>1. /\ Top \in Frames /\ Top.next \in 1 .. Len(Succ(Top.block))
      /\ TopSucc \in Range(Succ(Top.block)) /\ TopSucc \in Block
      /\ Range(stack) = {Top} \cup Range(Tail(stack))
      /\ stack' # <<>>
      /\ seen' = seen \cup {TopSucc}
      /\ Range(stack') = {[Top EXCEPT !.next = @ + 1]} \cup Range(Tail(stack))
           \cup (IF TopSucc \in seen THEN {} ELSE {Frame(TopSucc)})
  BY VisitEffect
<1> DEFINE next == [Top EXCEPT !.next = @ + 1]
<1>2. /\ next.block = Top.block /\ next.next = Top.next + 1
      /\ Top.block \in Block /\ Top.next \in Nat
      /\ Frame(TopSucc).block = TopSucc /\ Frame(TopSucc).next = 1
  BY <1>1 DEF Frames, Frame
<1>3. \A b : OnStack(b) => OnStack(b)'
  BY <1>1, <1>2 DEF OnStack
<1>4. Top \in Range(stack) /\ \A b : b = TopSucc /\ b \notin seen => OnStack(b)'
  BY <1>1, <1>2 DEF OnStack
<1>5. TopSucc \in Reachable
  <2>1. Top.block \in Reachable
    BY <1>4 DEF Walked
  <2> QED
    BY <1>1, <2>1, ReachableLeast
<1>6. Entry' \in seen' /\ seen' \subseteq Reachable' /\ stack' # <<>>
  BY <1>1, <1>5 DEF Walked
<1>7. ASSUME NEW f \in Range(stack')
      PROVE  /\ f.block \in seen'
             /\ \A j \in 1 .. Len(Succ(f.block)) : j < f.next => Succ(f.block)[j] \in seen'
  <2>1. CASE f \in Range(stack)
    BY <1>1, <2>1 DEF Walked
  <2>2. CASE f = next
    <3>1. Top.block \in seen'
      BY <1>1, <1>4 DEF Walked
    <3>2. ASSUME NEW j \in 1 .. Len(Succ(Top.block)), j < Top.next + 1
          PROVE  Succ(Top.block)[j] \in seen'
      <4>1. CASE j < Top.next
        BY <1>1, <1>4, <4>1 DEF Walked
      <4>2. CASE j = Top.next
        BY <1>1, <4>2 DEF TopSucc
      <4> QED
        BY <1>2, <3>2, <4>1, <4>2
    <3> QED
      BY <1>2, <2>2, <3>1, <3>2
  <2>3. CASE f = Frame(TopSucc)
    BY <1>1, <1>2, <2>3
  <2> QED
    BY <1>1, <2>1, <2>2, <2>3
<1>8. \A b \in seen' : OnStack(b)' \/ Range(Succ(b)) \subseteq seen'
  BY <1>1, <1>3, <1>4 DEF Walked
<1>9. phase = "fill" => \A b \in seen' : OnStack(b)' \/ b \in Range(Blocks)
  BY <1>1, <1>3, <1>4 DEF Walked
<1> QED
  BY <1>6, <1>7, <1>8, <1>9 DEF Walked

(* A call of either walk returns: its block and its successors were seen.   *)
LEMMA ReturnWalks ==
  ASSUME TypeOK, Walked, phase \in {"fill", "remove"}, AllSuccessors,
         cfg' = cfg, seen' = seen, stack' = Tail(stack),
         phase = "fill" => Blocks' = Append(Blocks, Top.block),
         phase' = IF Len(stack) # 1 THEN phase
                  ELSE IF phase = "fill" THEN "liveness" ELSE "done"
  PROVE  /\ Walked'
         /\ phase' = "liveness" => \A b \in Reachable : b \in Range(Blocks')
<1> USE CfgFixed
<1>1. /\ Top \in Frames /\ Range(stack) = {Top} \cup Range(Tail(stack))
      /\ Len(stack) = 1 <=> Tail(stack) = <<>>
  BY TopOfStack DEF AllSuccessors
<1>2. /\ Top.block \in Block /\ Top.next \in Nat /\ Top.next > Len(Succ(Top.block))
      /\ Succ(Top.block) \in Seq(Block) /\ Len(Succ(Top.block)) \in Nat
  BY <1>1, CodeTypes, LenProperties DEF AllSuccessors, Frames
<1>3. Range(Succ(Top.block)) \subseteq seen
  <2>1. \A j \in 1 .. Len(Succ(Top.block)) : Succ(Top.block)[j] \in seen
    BY <1>1, <1>2 DEF Walked
  <2> QED
    BY <1>2, <2>1, RangeEquality
<1>4. \A b : OnStack(b) => b = Top.block \/ OnStack(b)'
  BY <1>1 DEF OnStack
<1>5. \A b \in seen' : OnStack(b)' \/ Range(Succ(b)) \subseteq seen'
  BY <1>3, <1>4 DEF Walked
<1>6. phase = "fill" => \A b \in seen' : OnStack(b)' \/ b \in Range(Blocks')
  <2> SUFFICES ASSUME phase = "fill", NEW b \in seen
               PROVE  OnStack(b)' \/ b \in Range(Blocks')
    OBVIOUS
  <2>1. Blocks \in Seq(Block) /\ Blocks' = Append(Blocks, Top.block)
    BY DEF TypeOK
  <2>2. Range(Blocks') = Range(Blocks) \cup {Top.block}
    BY <1>2, <2>1, RangeAppend
  <2> QED
    BY <1>4, <2>2 DEF Walked
<1>7. CASE Len(stack) # 1
  <2>1. \A f \in Range(stack') : f \in Range(stack)
    BY <1>1
  <2>2. stack' # <<>> /\ phase' = phase
    BY <1>1, <1>7
  <2> QED
    BY <1>5, <1>6, <2>1, <2>2 DEF Walked
<1>8. CASE Len(stack) = 1
  <2>1. \A b : ~ OnStack(b)'
    <3>1. Range(stack') = {}
      BY <1>1, <1>8 DEF Range
    <3> QED
      BY <3>1 DEF OnStack
  <2>2. Closed(seen)'
    BY <1>5, <2>1 DEF Walked, Closed
  <2>3. phase' \notin {"fill", "remove"}
    BY <1>8
  <2>4. Walked'
    BY <2>2, <2>3 DEF Walked
  <2>5. phase' = "liveness" => \A b \in Reachable : b \in Range(Blocks')
    <3>1. Closed(seen)
      BY <2>2 DEF Closed
    <3>2. Reachable \subseteq seen
      BY <3>1, ReachableLeast DEF TypeOK
    <3> QED
      BY <1>6, <1>8, <2>1, <3>2
  <2> QED
    BY <2>4, <2>5
<1> QED
  BY <1>7, <1>8

(* A walk starts at the entry block ... *)
LEMMA WalkedInit == Init => Walked
<1> SUFFICES ASSUME Init PROVE Walked
  OBVIOUS
<1>1. TypeOK
  BY TypedInit DEF Typed
<1>2. /\ stack = <<Frame(Entry)>> /\ seen = {Entry} /\ phase = "fill"
      /\ Range(stack) = {Frame(Entry)} /\ stack # <<>>
      /\ Frame(Entry).block = Entry /\ Frame(Entry).next = 1
  BY RangeSingleton DEF Init, Frame
<1>3. OnStack(Entry)
  BY <1>2 DEF OnStack
<1> QED
  BY <1>1, <1>2, <1>3, ReachableLeast DEF Walked

(* ... and every step keeps what it knows about reachable blocks. *)
LEMMA WalkedNext == Typed /\ Walked /\ [Next]_vars => Walked'
<1> SUFFICES ASSUME Typed, Walked, [Next]_vars PROVE Walked'
  OBVIOUS
<1>1. TypeOK
  BY DEF Typed
<1>2. CASE FillVisit
  BY <1>1, <1>2, VisitWalks DEF FillVisit
<1>3. CASE FillEnqueue
  <2>1. /\ phase = "fill" /\ AllSuccessors /\ UNCHANGED <<cfg, seen>>
        /\ stack' = Tail(stack) /\ Blocks' = Append(Blocks, Top.block)
        /\ phase' = IF Len(stack) # 1 THEN phase ELSE "liveness"
    BY <1>3 DEF FillEnqueue
  <2> QED
    BY <1>1, <2>1, ReturnWalks
<1>4. CASE Dequeue \/ handle_instruction \/ FinishBlock
  <2>1. phase = "liveness" /\ UNCHANGED <<cfg, phase, stack, seen>>
    BY <1>4 DEF Dequeue, FinishBlock, handle_instruction, declare, assign, walk,
                binary_operation, use_operand, func_call, parameter, live, unhandled,
                AtInstruction, Use, Compute, Handled
  <2> QED
    BY <2>1, CfgFixed DEF Walked, Closed
<1>5. CASE StartRemoval
  <2>1. /\ stack' = <<Frame(Entry)>> /\ seen' = {Entry} /\ phase' = "remove"
        /\ cfg' = cfg
    BY <1>5 DEF StartRemoval
  <2>2. /\ Range(stack') = {Frame(Entry)} /\ stack' # <<>>
        /\ Frame(Entry).block = Entry /\ Frame(Entry).next = 1
    BY <2>1, RangeSingleton DEF Frame
  <2>3. OnStack(Entry)'
    BY <2>1, <2>2, CfgFixed DEF OnStack
  <2> QED
    BY <1>1, <2>1, <2>2, <2>3, ReachableLeast, CfgFixed DEF Walked
<1>6. CASE RemoveVisit
  BY <1>1, <1>6, VisitWalks DEF RemoveVisit
<1>7. CASE RemoveReturn
  <2>1. /\ phase = "remove" /\ AllSuccessors /\ UNCHANGED <<cfg, seen>>
        /\ stack' = Tail(stack)
        /\ phase' = IF Len(stack) # 1 THEN phase ELSE "done"
    BY <1>7 DEF RemoveReturn
  <2> QED
    BY <1>1, <2>1, ReturnWalks
<1>8. CASE UNCHANGED vars
  <2>1. UNCHANGED <<cfg, phase, stack, seen, Blocks>>
    BY <1>8 DEF vars, walk
  <2> QED
    BY <2>1, CfgFixed DEF Walked, Closed, OnStack
<1> QED
  BY <1>2, <1>3, <1>4, <1>5, <1>6, <1>7, <1>8 DEF Next, Returned

-----------------------------------------------------------------------------
(* The live sets only grow, and never above what the equations allow.       *)

BelowAt(b, i) ==
  /\ live_at[b][i] \subseteq LiveBefore(Code(b)[i], live_at[b][i + 1])
  /\ <<b, i>> \in is_live => Wanted(Code(b)[i], live_at[b][i + 1])

Below ==
  \A b \in Block :
    /\ live_in[b] \subseteq live_at[b][1]
    /\ live_out[b] = live_at[b][EndOf(b)]
    /\ live_out[b] \subseteq LiveInOfSuccessors(b)
    /\ \A i \in 1 .. Len(Code(b)) : BelowAt(b, i)

(* The block being processed is solved behind the next instruction.         *)
Current ==
  /\ block = NoBlock => current_live = {}
  /\ block # NoBlock =>
       /\ phase = "liveness"
       /\ current_live = live_at[block][index + 1]
       /\ live_at[block][EndOf(block)] = LiveInOfSuccessors(block)
       /\ \A i \in 1 .. Len(Code(block)) : i > index => SolvedAt(block, i)

(* More live after an instruction, more live before it. *)
LEMMA Monotone ==
  ASSUME NEW ins, NEW A, NEW B, A \subseteq B
  PROVE  /\ LiveBefore(ins, A) \subseteq LiveBefore(ins, B)
         /\ Wanted(ins, A) => Wanted(ins, B)
BY DEF LiveBefore, Wanted

(* A step that only adds to live_at, by the equations, preserves BelowAt.   *)
LEMMA GrowBelow ==
  ASSUME TypeOK, Below, cfg' = cfg,
         \A b \in Block : \A i \in 1 .. EndOf(b) : live_at[b][i] \subseteq live_at'[b][i],
         \A b \in Block : \A i \in 1 .. Len(Code(b)) :
           /\ \/ live_at'[b][i] = live_at[b][i]
              \/ live_at'[b][i] = LiveBefore(Code(b)[i], live_at'[b][i + 1])
           /\ \/ <<b, i>> \in is_live' => <<b, i>> \in is_live
              \/ Wanted(Code(b)[i], live_at'[b][i + 1])
  PROVE  \A b \in Block : \A i \in 1 .. Len(Code(b)) : BelowAt(b, i)'
<1> SUFFICES ASSUME NEW b \in Block, NEW i \in 1 .. Len(Code(b))
             PROVE  /\ live_at'[b][i] \subseteq LiveBefore(Code(b)[i], live_at'[b][i + 1])
                    /\ <<b, i>> \in is_live' => Wanted(Code(b)[i], live_at'[b][i + 1])
  BY CfgFixed DEF BelowAt
<1>1. i + 1 \in 1 .. EndOf(b)
  BY CodeTypes DEF EndOf
<1>2. BelowAt(b, i)
  BY DEF Below
<1>3. /\ LiveBefore(Code(b)[i], live_at[b][i + 1])
           \subseteq LiveBefore(Code(b)[i], live_at'[b][i + 1])
      /\ Wanted(Code(b)[i], live_at[b][i + 1]) => Wanted(Code(b)[i], live_at'[b][i + 1])
  BY <1>1, Monotone
<1> QED
  BY <1>2, <1>3 DEF BelowAt

(* A step that leaves the analysis alone leaves its equations alone. *)
LEMMA AnalysisStays ==
  ASSUME cfg' = cfg, UNCHANGED analysis
  PROVE  /\ Below <=> Below'
         /\ \A b : /\ Solved(b)' <=> Solved(b)
                   /\ LiveInOfSuccessors(b)' = LiveInOfSuccessors(b)
                   /\ \A i : SolvedAt(b, i)' <=> SolvedAt(b, i)
<1>1. UNCHANGED <<live_in, live_out, live_at, is_live>>
  BY DEF analysis
<1> QED
  BY <1>1, CfgFixed DEF Below, BelowAt, Solved, SolvedAt, Needed, LiveInOfSuccessors

(* A handler: the new point is the equation's value, which is no smaller    *)
(* than the old one.                                                        *)
LEMMA HandlerGrows ==
  ASSUME Typed, Below, Current, handle_instruction
  PROVE  /\ UNCHANGED <<cfg, phase, walk, Blocks, block, live_in, live_out, removed>>
         /\ index' = index - 1
         /\ current_live' = live_at'[block][index]
         /\ live_at'[block][index] = LiveBefore(Instr, current_live)
         /\ live_at'[block][index + 1] = current_live
         /\ is_live \subseteq is_live'
         /\ is_live' \subseteq is_live \cup {<<block, index>>}
         /\ <<block, index>> \in is_live' /\ <<block, index>> \notin is_live
              => Wanted(Instr, current_live)
         /\ Keeps(Instr, current_live) => <<block, index>> \in is_live'
         /\ \A b \in Block : \A i \in 1 .. EndOf(b) :
              b # block \/ i # index => live_at'[b][i] = live_at[b][i]
         /\ \A b \in Block : \A i \in 1 .. EndOf(b) : live_at[b][i] \subseteq live_at'[b][i]
<1>1. /\ TypeOK /\ block \in Block /\ index \in 1 .. Len(Code(block))
      /\ Len(Code(block)) \in Nat /\ block # NoBlock
  BY AtInstructionTypes, CodeTypes, ProgramsAssumption DEF Typed
<1>2. PICK used \in SUBSET Name, marked \in BOOLEAN :
        /\ Handled(LiveBefore(Instr, current_live), used, marked)
        /\ Keeps(Instr, current_live) => marked
        /\ marked => Wanted(Instr, current_live)
  BY HandlerEffect
<1>3. /\ UNCHANGED <<cfg, phase, walk, Blocks, block, live_in, live_out, removed>>
      /\ index' = index - 1
      /\ current_live' = LiveBefore(Instr, current_live)
      /\ is_live' = IF marked THEN is_live \cup {<<block, index>>} ELSE is_live
  BY <1>2 DEF Handled
<1>4. \A b \in Block : \A i \in 1 .. EndOf(b) :
        live_at'[b][i] = IF b = block /\ i = index
                           THEN LiveBefore(Instr, current_live) ELSE live_at[b][i]
  BY HandlerPoints
<1>5. /\ index \in 1 .. EndOf(block) /\ index + 1 \in 1 .. EndOf(block)
      /\ index + 1 # index
  BY <1>1 DEF EndOf
<1>6. live_at[block][index + 1] = current_live
  BY <1>1 DEF Current
<1>7. live_at[block][index] \subseteq LiveBefore(Instr, current_live)
  BY <1>1, <1>6 DEF Below, BelowAt, Instr
<1>8. /\ live_at'[block][index] = LiveBefore(Instr, current_live)
      /\ live_at'[block][index + 1] = current_live
  BY <1>1, <1>4, <1>5, <1>6
<1>9. \A b \in Block : \A i \in 1 .. EndOf(b) : live_at[b][i] \subseteq live_at'[b][i]
  BY <1>4, <1>7
<1> QED
  BY <1>2, <1>3, <1>4, <1>8, <1>9

(* Taking a block from the queue starts it with the live_in of its          *)
(* successors, which is no less than it started with before.                *)
LEMMA DequeueGrows ==
  ASSUME Typed, Below, Current, Dequeue
  PROVE  /\ UNCHANGED <<cfg, phase, walk, used_at_all, live_in, is_live, removed>>
         /\ phase = "liveness" /\ block = NoBlock
         /\ block' \in Block /\ block' # NoBlock
         /\ Range(Blocks) = {block'} \cup Range(Blocks')
         /\ index' = Len(Code(block'))
         /\ current_live' = LiveInOfSuccessors(block')
         /\ live_out' = [live_out EXCEPT ![block'] = LiveInOfSuccessors(block')]
         /\ live_at'[block'][EndOf(block')] = current_live'
         /\ \A b \in Block : \A i \in 1 .. EndOf(b) :
              b # block' \/ i # EndOf(b) => live_at'[b][i] = live_at[b][i]
         /\ \A b \in Block : \A i \in 1 .. EndOf(b) : live_at[b][i] \subseteq live_at'[b][i]
<1> DEFINE out == live_out[block'] \cup LiveInOfSuccessors(block')
<1>1. /\ block' \in Block
      /\ Range(Blocks) = {block'} \cup Range(Blocks')
      /\ index' = Len(Code(block'))
      /\ current_live' = current_live \cup out
      /\ live_out' = [live_out EXCEPT ![block'] = out]
      /\ \A b \in Block : \A i \in 1 .. EndOf(b) :
              live_at'[b][i] = IF b = block' /\ i = EndOf(b)
                                 THEN current_live' ELSE live_at[b][i]
  BY DequeueEffect
<1>2. /\ UNCHANGED <<cfg, phase, walk, used_at_all, live_in, is_live, removed>>
      /\ phase = "liveness" /\ block = NoBlock
  BY DEF Dequeue
<1>3. current_live' = LiveInOfSuccessors(block') /\ out = LiveInOfSuccessors(block')
  BY <1>1, <1>2 DEF Below, Current
<1>4. EndOf(block') \in 1 .. EndOf(block')
  BY <1>1, CodeTypes DEF EndOf, Typed
<1>5. live_at[block'][EndOf(block')] \subseteq current_live'
  BY <1>1, <1>3 DEF Below
<1>6. \A b \in Block : \A i \in 1 .. EndOf(b) : live_at[b][i] \subseteq live_at'[b][i]
  BY <1>1, <1>5
<1>7. block' # NoBlock
  BY <1>1, ProgramsAssumption
<1> QED
  BY <1>1, <1>2, <1>3, <1>4, <1>6, <1>7

(* The actions that leave the analysis alone. *)
LEMMA OtherSteps ==
  ASSUME [Next]_vars, ~ Dequeue, ~ handle_instruction, ~ FinishBlock
  PROVE  /\ UNCHANGED <<cfg, analysis>>
         /\ \/ phase' = phase /\ Blocks' = Blocks
            \/ FillEnqueue
            \/ StartRemoval
            \/ RemoveReturn
BY DEF Next, FillVisit, FillEnqueue, StartRemoval, RemoveVisit, RemoveReturn, Returned,
       vars, analysis

(* Finishing a block can only grow its live_in, and when it grows every     *)
(* predecessor is queued.                                                   *)
LEMMA FinishEffect ==
  ASSUME TypeOK, FinishBlock
  PROVE  /\ block \in Block /\ index = 0 /\ phase = "liveness"
         /\ UNCHANGED <<cfg, phase, walk, live_out, is_live, live_at, removed>>
         /\ live_in' = [live_in EXCEPT ![block] = live_in[block] \cup current_live]
         /\ \A b \in Block : live_in[b] \subseteq live_in'[b]
         /\ current_live' = {} /\ block' = NoBlock
         /\ Blocks' = IF live_in' # live_in THEN Blocks \o Pred(block) ELSE Blocks
         /\ Range(Blocks) \subseteq Range(Blocks')
         /\ live_in' # live_in => Range(Pred(block)) \subseteq Range(Blocks')
<1>1. /\ block \in Block /\ index = 0 /\ phase = "liveness"
      /\ UNCHANGED <<cfg, phase, walk, live_out, is_live, live_at, removed>>
      /\ live_in' = [live_in EXCEPT ![block] = live_in[block] \cup current_live]
      /\ current_live' = {} /\ block' = NoBlock
      /\ Blocks' = IF live_in' # live_in THEN Blocks \o Pred(block) ELSE Blocks
  BY DEF FinishBlock, TypeOK, Requeue
<1>2. \A b \in Block : live_in[b] \subseteq live_in'[b]
  BY <1>1 DEF TypeOK
<1>3. Blocks \in Seq(Block) /\ Pred(block) \in Seq(Block)
  BY <1>1, CodeTypes DEF TypeOK
<1>4. Range(Blocks \o Pred(block)) = Range(Blocks) \cup Range(Pred(block))
  BY <1>3, RangeConcatenation, Zenon
<1> QED
  BY <1>1, <1>2, <1>4

(* Every step keeps the live sets below what the equations allow. *)
LEMMA BelowNext == Typed /\ Below /\ Current /\ [Next]_vars => Below'
<1> SUFFICES ASSUME Typed, Below, Current, [Next]_vars PROVE Below'
  OBVIOUS
<1>1. /\ TypeOK
      /\ \A b \in Block : Len(Code(b)) \in Nat /\ Range(Succ(b)) \subseteq Block
  BY CodeTypes DEF Typed
<1>2. CASE Dequeue
  <2>1. /\ UNCHANGED <<cfg, phase, walk, used_at_all, live_in, is_live, removed>>
        /\ block' \in Block
        /\ current_live' = LiveInOfSuccessors(block')
        /\ live_out' = [live_out EXCEPT ![block'] = LiveInOfSuccessors(block')]
        /\ live_at'[block'][EndOf(block')] = current_live'
        /\ \A b \in Block : \A i \in 1 .. EndOf(b) :
             b # block' \/ i # EndOf(b) => live_at'[b][i] = live_at[b][i]
        /\ \A b \in Block : \A i \in 1 .. EndOf(b) : live_at[b][i] \subseteq live_at'[b][i]
    BY <1>2, DequeueGrows
  <2>2. \A b \in Block : \A i \in 1 .. Len(Code(b)) : live_at'[b][i] = live_at[b][i]
    BY <1>1, <2>1 DEF EndOf
  <2>3. \A b \in Block : \A i \in 1 .. Len(Code(b)) : BelowAt(b, i)'
    BY <1>1, <2>1, <2>2, GrowBelow
  <2>4. \A b \in Block : LiveInOfSuccessors(b)' = LiveInOfSuccessors(b)
    BY <2>1, CfgFixed DEF LiveInOfSuccessors
  <2>5. ASSUME NEW b \in Block
        PROVE  /\ live_in'[b] \subseteq live_at'[b][1]
               /\ live_out'[b] = live_at'[b][EndOf(b)]
               /\ live_out'[b] \subseteq LiveInOfSuccessors(b)'
    <3>1. 1 \in 1 .. EndOf(b) /\ EndOf(b) \in 1 .. EndOf(b)
      BY <1>1 DEF EndOf
    <3>2. live_out'[b] = IF b = block' THEN LiveInOfSuccessors(b) ELSE live_out[b]
      BY <1>1, <2>1 DEF TypeOK
    <3>3. live_in[b] \subseteq live_at[b][1] /\ live_at[b][1] \subseteq live_at'[b][1]
      BY <2>1, <3>1 DEF Below
    <3> QED
      BY <2>1, <2>4, <3>1, <3>2, <3>3 DEF Below
  <2> QED
    BY <2>1, <2>3, <2>5, CfgFixed DEF Below
<1>3. CASE handle_instruction
  <2>1. /\ UNCHANGED <<cfg, live_in, live_out>>
        /\ live_at'[block][index] = LiveBefore(Instr, current_live)
        /\ live_at'[block][index + 1] = current_live
        /\ is_live' \subseteq is_live \cup {<<block, index>>}
        /\ <<block, index>> \in is_live' /\ <<block, index>> \notin is_live
             => Wanted(Instr, current_live)
        /\ \A b \in Block : \A i \in 1 .. EndOf(b) :
             b # block \/ i # index => live_at'[b][i] = live_at[b][i]
        /\ \A b \in Block : \A i \in 1 .. EndOf(b) : live_at[b][i] \subseteq live_at'[b][i]
    BY <1>3, HandlerGrows
  <2>2. ASSUME NEW b \in Block, NEW i \in 1 .. Len(Code(b))
        PROVE  /\ \/ live_at'[b][i] = live_at[b][i]
                  \/ live_at'[b][i] = LiveBefore(Code(b)[i], live_at'[b][i + 1])
               /\ \/ <<b, i>> \in is_live' => <<b, i>> \in is_live
                  \/ Wanted(Code(b)[i], live_at'[b][i + 1])
    <3>1. i \in 1 .. EndOf(b)
      BY <1>1 DEF EndOf
    <3>2. CASE b = block /\ i = index
      BY <2>1, <3>2 DEF Instr
    <3>3. CASE ~ (b = block /\ i = index)
      BY <2>1, <3>1, <3>3
    <3> QED
      BY <3>2, <3>3
  <2>3. \A b \in Block : \A i \in 1 .. Len(Code(b)) : BelowAt(b, i)'
    BY <1>1, <2>1, <2>2, GrowBelow
  <2>4. block \in Block /\ index \in 1 .. Len(Code(block))
    BY <1>1, <1>3, AtInstructionTypes
  <2>5. ASSUME NEW b \in Block
        PROVE  /\ live_in'[b] \subseteq live_at'[b][1]
               /\ live_out'[b] = live_at'[b][EndOf(b)]
               /\ live_out'[b] \subseteq LiveInOfSuccessors(b)'
    <3>1. 1 \in 1 .. EndOf(b) /\ EndOf(b) \in 1 .. EndOf(b) /\ (b = block => EndOf(b) # index)
      BY <1>1, <2>4 DEF EndOf
    <3>2. live_at'[b][EndOf(b)] = live_at[b][EndOf(b)]
      BY <2>1, <3>1
    <3>3. live_in[b] \subseteq live_at[b][1] /\ live_at[b][1] \subseteq live_at'[b][1]
      BY <2>1, <3>1 DEF Below
    <3>4. LiveInOfSuccessors(b)' = LiveInOfSuccessors(b)
      BY <2>1, CfgFixed DEF LiveInOfSuccessors
    <3> QED
      BY <2>1, <3>2, <3>3, <3>4 DEF Below
  <2> QED
    BY <2>1, <2>3, <2>5, CfgFixed DEF Below
<1>4. CASE FinishBlock
  <2>1. /\ block \in Block /\ index = 0
        /\ UNCHANGED <<cfg, live_out, is_live, live_at>>
        /\ live_in' = [live_in EXCEPT ![block] = live_in[block] \cup current_live]
        /\ \A b \in Block : live_in[b] \subseteq live_in'[b]
    BY <1>1, <1>4, FinishEffect
  <2>2. current_live = live_at[block][1]
    BY <2>1, ProgramsAssumption DEF Current
  <2>3. \A b \in Block : LiveInOfSuccessors(b) \subseteq LiveInOfSuccessors(b)'
    BY <1>1, <2>1, CfgFixed DEF LiveInOfSuccessors
  <2>4. \A b \in Block : live_in'[b] \subseteq live_at[b][1]
    BY <1>1, <2>1, <2>2 DEF Below, TypeOK
  <2>5. \A b \in Block : \A i \in 1 .. Len(Code(b)) : BelowAt(b, i)'
    BY <2>1, CfgFixed DEF Below, BelowAt
  <2>6. \A b \in Block : /\ live_out'[b] = live_at'[b][EndOf(b)]
                         /\ live_out'[b] \subseteq LiveInOfSuccessors(b)'
    BY <2>1, <2>3 DEF Below
  <2> QED
    BY <2>1, <2>4, <2>5, <2>6, CfgFixed DEF Below
<1>5. CASE ~ Dequeue /\ ~ handle_instruction /\ ~ FinishBlock
  BY <1>5, OtherSteps, AnalysisStays
<1> QED
  BY <1>2, <1>3, <1>4, <1>5

(* Every step keeps the block being processed solved behind index. *)
LEMMA CurrentNext == Typed /\ Below /\ Current /\ [Next]_vars => Current'
<1> SUFFICES ASSUME Typed, Below, Current, [Next]_vars PROVE Current'
  OBVIOUS
<1>1. /\ TypeOK
      /\ \A b \in Block : Len(Code(b)) \in Nat /\ Range(Succ(b)) \subseteq Block
  BY CodeTypes DEF Typed
<1>2. CASE Dequeue
  <2>1. /\ UNCHANGED <<cfg, phase, live_in>>
        /\ phase = "liveness" /\ block' \in Block /\ block' # NoBlock
        /\ index' = Len(Code(block'))
        /\ current_live' = LiveInOfSuccessors(block')
        /\ live_at'[block'][EndOf(block')] = current_live'
    BY <1>2, DequeueGrows
  <2>2. /\ EndOf(block)' = index' + 1 /\ EndOf(block') = index' + 1
        /\ Len(Code(block))' = index'
    BY <2>1 DEF EndOf, Code
  <2>3. LiveInOfSuccessors(block)' = LiveInOfSuccessors(block')
    BY <2>1 DEF LiveInOfSuccessors, Succ
  <2>4. \A i \in 1 .. index' : ~ i > index'
    BY <1>1, <2>1
  <2> QED
    BY <2>1, <2>2, <2>3, <2>4 DEF Current
<1>3. CASE handle_instruction
  <2>1. /\ UNCHANGED <<cfg, phase, block, live_in>>
        /\ index' = index - 1
        /\ current_live' = live_at'[block][index]
        /\ live_at'[block][index] = LiveBefore(Instr, current_live)
        /\ live_at'[block][index + 1] = current_live
        /\ is_live \subseteq is_live'
        /\ Keeps(Instr, current_live) => <<block, index>> \in is_live'
        /\ \A b \in Block : \A i \in 1 .. EndOf(b) :
             b # block \/ i # index => live_at'[b][i] = live_at[b][i]
    BY <1>3, HandlerGrows
  <2>2. /\ block \in Block /\ block # NoBlock /\ index \in 1 .. Len(Code(block))
        /\ phase = "liveness"
    BY <1>1, <1>3, AtInstructionTypes, ProgramsAssumption
  <2>3. LiveInOfSuccessors(block)' = LiveInOfSuccessors(block)
    BY <2>1, CfgFixed DEF LiveInOfSuccessors
  <2>4. EndOf(block) \in 1 .. EndOf(block) /\ EndOf(block) # index
    BY <1>1, <2>2 DEF EndOf
  <2>5. live_at'[block][EndOf(block)] = LiveInOfSuccessors(block)
    BY <2>1, <2>2, <2>4 DEF Current
  <2>6. ASSUME NEW i \in 1 .. Len(Code(block)), i > index - 1
        PROVE  /\ live_at'[block][i] = LiveBefore(Code(block)[i], live_at'[block][i + 1])
               /\ Keeps(Code(block)[i], live_at'[block][i + 1]) => <<block, i>> \in is_live'
    <3>1. CASE i = index
      BY <2>1, <3>1 DEF Instr
    <3>2. CASE i > index
      <4>1. /\ i \in 1 .. EndOf(block) /\ i # index
            /\ i + 1 \in 1 .. EndOf(block) /\ i + 1 # index
        BY <1>1, <2>2, <3>2 DEF EndOf
      <4>2. SolvedAt(block, i)
        BY <2>2, <3>2 DEF Current
      <4> QED
        BY <2>1, <2>2, <4>1, <4>2 DEF SolvedAt, Needed
    <3> QED
      BY <2>2, <2>6, <3>1, <3>2
  <2>7. \A i \in 1 .. Len(Code(block)) : i > index - 1 => SolvedAt(block, i)'
    BY <2>1, <2>6, CfgFixed DEF SolvedAt, Needed
  <2>8. index' + 1 = index
    BY <2>1, <2>2
  <2> QED
    BY <2>1, <2>2, <2>3, <2>5, <2>7, <2>8, CfgFixed DEF Current
<1>4. CASE FinishBlock
  BY <1>1, <1>4, FinishEffect DEF Current
<1>5. CASE ~ Dequeue /\ ~ handle_instruction /\ ~ FinishBlock
  <2>1. /\ UNCHANGED <<cfg, analysis>>
        /\ phase' = phase \/ FillEnqueue \/ StartRemoval \/ RemoveReturn
    BY <1>5, OtherSteps
  <2>2. block # NoBlock => phase' = "liveness"
    BY <2>1 DEF Current, FillEnqueue, StartRemoval, RemoveReturn
  <2>3. UNCHANGED <<block, index, current_live, live_at>>
    BY <2>1 DEF analysis
  <2> QED
    BY <2>1, <2>2, <2>3, AnalysisStays, CfgFixed DEF Current
<1> QED
  BY <1>2, <1>3, <1>4, <1>5

-----------------------------------------------------------------------------
(* The worklist. *)

(* What WorklistSettled says, of all reachable blocks. *)
Settled == phase # "fill" => \A b \in Reachable : b \in Range(Blocks) \/ b = block \/ Solved(b)

(* Every step leaves each reachable block queued, in work or solved: the    *)
(* step to check is FinishBlock, where the predecessors of a block change.  *)
LEMMA SettledNext ==
  Typed /\ Walked /\ Below /\ Current /\ Settled /\ [Next]_vars => Settled'
<1> SUFFICES ASSUME Typed, Walked, Below, Current, Settled, [Next]_vars PROVE Settled'
  OBVIOUS
<1>1. /\ TypeOK /\ cfg \in Programs
      /\ \A b \in Block : Len(Code(b)) \in Nat /\ Range(Succ(b)) \subseteq Block
      /\ Reachable \subseteq Block
  BY CodeTypes, ReachableLeast DEF Typed, Known
<1>2. CASE Dequeue
  <2>1. /\ UNCHANGED <<cfg, phase, live_in, is_live>>
        /\ phase = "liveness" /\ block = NoBlock
        /\ block' \in Block
        /\ Range(Blocks) = {block'} \cup Range(Blocks')
        /\ \A b \in Block : \A i \in 1 .. EndOf(b) :
             b # block' \/ i # EndOf(b) => live_at'[b][i] = live_at[b][i]
    BY <1>2, DequeueGrows
  <2>2. ASSUME NEW b \in Reachable, b \notin Range(Blocks'), b # block'
        PROVE  Solved(b)'
    <3>1. b \in Block /\ b # NoBlock /\ Solved(b)
      BY <1>1, <2>1, <2>2, ProgramsAssumption DEF Settled
    <3>2. \A i \in 1 .. EndOf(b) : live_at'[b][i] = live_at[b][i]
      BY <2>1, <2>2, <3>1
    <3>3. /\ 1 \in 1 .. EndOf(b) /\ EndOf(b) \in 1 .. EndOf(b)
          /\ \A i \in 1 .. Len(Code(b)) : i \in 1 .. EndOf(b) /\ i + 1 \in 1 .. EndOf(b)
      BY <1>1, <3>1 DEF EndOf
    <3>4. LiveInOfSuccessors(b)' = LiveInOfSuccessors(b)
      BY <2>1, CfgFixed DEF LiveInOfSuccessors
    <3>5. \A i \in 1 .. Len(Code(b)) : SolvedAt(b, i)'
      BY <2>1, <3>1, <3>2, <3>3, CfgFixed DEF Solved, SolvedAt, Needed
    <3> QED
      BY <2>1, <3>1, <3>2, <3>3, <3>4, <3>5, CfgFixed DEF Solved
  <2> QED
    BY <2>1, <2>2, CfgFixed DEF Settled
<1>3. CASE handle_instruction
  <2>1. /\ UNCHANGED <<cfg, phase, Blocks, block, live_in>>
        /\ is_live \subseteq is_live'
        /\ \A b \in Block : \A i \in 1 .. EndOf(b) :
             b # block \/ i # index => live_at'[b][i] = live_at[b][i]
    BY <1>3, HandlerGrows
  <2>2. ASSUME NEW b \in Reachable, b # block, Solved(b)
        PROVE  Solved(b)'
    <3>1. \A i \in 1 .. EndOf(b) : live_at'[b][i] = live_at[b][i]
      BY <1>1, <2>1, <2>2
    <3>2. /\ 1 \in 1 .. EndOf(b) /\ EndOf(b) \in 1 .. EndOf(b)
          /\ \A i \in 1 .. Len(Code(b)) : i \in 1 .. EndOf(b) /\ i + 1 \in 1 .. EndOf(b)
      BY <1>1 DEF EndOf
    <3>3. LiveInOfSuccessors(b)' = LiveInOfSuccessors(b)
      BY <2>1, CfgFixed DEF LiveInOfSuccessors
    <3>4. \A i \in 1 .. Len(Code(b)) : SolvedAt(b, i)'
      BY <2>1, <2>2, <3>1, <3>2, CfgFixed DEF Solved, SolvedAt, Needed
    <3> QED
      BY <2>1, <2>2, <3>1, <3>2, <3>3, <3>4, CfgFixed DEF Solved
  <2> QED
    BY <2>1, <2>2, CfgFixed DEF Settled
<1>4. CASE FinishBlock
  <2>1. /\ block \in Block /\ block # NoBlock /\ index = 0 /\ phase = "liveness"
        /\ UNCHANGED <<cfg, phase, is_live, live_at>>
        /\ live_in' = [live_in EXCEPT ![block] = live_in[block] \cup current_live]
        /\ Range(Blocks) \subseteq Range(Blocks')
        /\ live_in' # live_in => Range(Pred(block)) \subseteq Range(Blocks')
    BY <1>1, <1>4, FinishEffect, ProgramsAssumption
  <2>2. ASSUME NEW b \in Reachable, b \notin Range(Blocks')
        PROVE  Solved(b)'
    <3>1. b \in Block
      BY <1>1
    <3>2. \A i \in 1 .. Len(Code(b)) : SolvedAt(b, i)' <=> SolvedAt(b, i)
      BY <2>1, CfgFixed DEF SolvedAt, Needed
    <3>3. LiveInOfSuccessors(b)' = LiveInOfSuccessors(b)
      <4>1. CASE live_in' = live_in
        BY <2>1, <4>1, CfgFixed DEF LiveInOfSuccessors
      <4>2. CASE live_in' # live_in
        <5>1. b \notin Range(Pred(block))
          BY <2>1, <2>2, <4>2
        <5>2. block \notin Range(Succ(b))
          BY <1>1, <2>1, <3>1, <5>1, ProgramsAssumption DEF Mirrored, Succ, Pred
        <5>3. \A s \in Range(Succ(b)) : live_in'[s] = live_in[s]
          BY <1>1, <2>1, <3>1, <5>2 DEF TypeOK
        <5> QED
          BY <2>1, <5>3, CfgFixed DEF LiveInOfSuccessors
      <4> QED
        BY <4>1, <4>2
    <3>4. CASE b = block
      <4>1. current_live = live_at[block][1]
        BY <2>1 DEF Current
      <4>2. live_in'[block] = live_at[block][1]
        BY <1>1, <2>1, <4>1 DEF Below, TypeOK
      <4>3. \A i \in 1 .. Len(Code(block)) : SolvedAt(block, i)
        BY <1>1, <2>1 DEF Current
      <4>4. live_at[block][EndOf(block)] = LiveInOfSuccessors(block)
        BY <2>1 DEF Current
      <4> QED
        BY <2>1, <3>2, <3>3, <3>4, <4>2, <4>3, <4>4, CfgFixed DEF Solved
    <3>5. CASE b # block
      <4>1. Solved(b)
        BY <2>1, <2>2, <3>5 DEF Settled
      <4>2. live_in'[b] = live_in[b]
        BY <1>1, <2>1, <3>1, <3>5 DEF TypeOK
      <4> QED
        BY <2>1, <3>2, <3>3, <4>1, <4>2, CfgFixed DEF Solved
    <3> QED
      BY <3>4, <3>5
  <2> QED
    BY <2>1, <2>2, CfgFixed DEF Settled
<1>5. CASE ~ Dequeue /\ ~ handle_instruction /\ ~ FinishBlock
  <2>1. /\ UNCHANGED <<cfg, analysis>>
        /\ (phase' = phase /\ Blocks' = Blocks) \/ FillEnqueue \/ StartRemoval \/ RemoveReturn
    BY <1>5, OtherSteps
  <2>2. block' = block /\ \A b : Solved(b)' <=> Solved(b)
    BY <2>1, AnalysisStays DEF analysis
  <2>3. CASE FillEnqueue
    <3>1. /\ phase = "fill" /\ AllSuccessors /\ UNCHANGED <<cfg, seen>>
          /\ stack' = Tail(stack) /\ Blocks' = Append(Blocks, Top.block)
          /\ phase' = IF Len(stack) # 1 THEN phase ELSE "liveness"
      BY <2>3 DEF FillEnqueue
    <3>2. phase' = "liveness" => \A b \in Reachable : b \in Range(Blocks')
      BY <1>1, <3>1, ReturnWalks
    <3> QED
      BY <3>1, <3>2, CfgFixed DEF Settled
  <2>4. CASE Blocks' = Blocks /\ (phase' # "fill" => phase # "fill")
    BY <2>1, <2>2, <2>4, CfgFixed DEF Settled
  <2>5. CASE StartRemoval \/ RemoveReturn
    <3>1. Blocks' = Blocks /\ phase # "fill"
      BY <2>5 DEF StartRemoval, RemoveReturn
    <3> QED
      BY <2>4, <3>1
  <2> QED
    BY <2>1, <2>3, <2>4, <2>5
<1> QED
  BY <1>2, <1>3, <1>4, <1>5

-----------------------------------------------------------------------------
(* The removal. *)

Removal ==
  /\ phase \in {"fill", "liveness"} => removed = {}
  /\ phase \in {"remove", "done"} => /\ Blocks = <<>> /\ block = NoBlock
                                     /\ \A b \in seen : NotLive(b) \subseteq removed
  /\ removed \cap is_live = {}

(* Every step deletes only instructions without the flag, and a finished    *)
(* walk has deleted all of them.                                            *)
LEMMA RemovalNext == Typed /\ Walked /\ Removal /\ [Next]_vars => Removal'
<1> SUFFICES ASSUME Typed, Walked, Removal, [Next]_vars PROVE Removal'
  OBVIOUS
<1>1. TypeOK
  BY DEF Typed
<1>2. CASE FillVisit
  BY <1>2 DEF FillVisit, Removal, analysis
<1>3. CASE FillEnqueue
  BY <1>3 DEF FillEnqueue, Removal, analysis
<1>4. CASE Dequeue \/ handle_instruction \/ FinishBlock
  <2>1. phase = "liveness" /\ UNCHANGED <<phase, removed>>
    BY <1>4 DEF Dequeue, FinishBlock, handle_instruction, declare, assign,
                binary_operation, use_operand, func_call, parameter, live, unhandled,
                AtInstruction, Use, Compute, Handled
  <2> QED
    BY <2>1 DEF Removal
<1>5. \A b : NotLive(b) \cap is_live = {}
  BY DEF NotLive
<1>6. ASSUME cfg' = cfg, is_live' = is_live
      PROVE  \A b : NotLive(b)' = NotLive(b)
  BY <1>6 DEF NotLive, Code
<1>7. CASE StartRemoval
  <2>1. /\ UNCHANGED <<cfg, is_live, block, Blocks>> /\ block = NoBlock /\ Blocks = <<>>
        /\ phase' = "remove" /\ seen' = {Entry} /\ removed' = removed \cup NotLive(Entry)
    BY <1>7 DEF StartRemoval, analysis
  <2> QED
    BY <1>5, <1>6, <2>1 DEF Removal
<1>8. CASE RemoveVisit
  <2>1. /\ UNCHANGED <<cfg, is_live, block, Blocks, phase>> /\ phase = "remove"
        /\ removed' = IF TopSucc \in seen THEN removed ELSE removed \cup NotLive(TopSucc)
        /\ seen' = seen \cup {TopSucc}
    BY <1>1, <1>8, VisitEffect DEF RemoveVisit, analysis
  <2> QED
    BY <1>5, <1>6, <2>1 DEF Removal
<1>9. CASE RemoveReturn
  <2>1. /\ UNCHANGED <<cfg, is_live, block, Blocks, seen, removed>> /\ phase = "remove"
        /\ phase' \in {"remove", "done"}
    BY <1>9 DEF RemoveReturn, analysis
  <2> QED
    BY <1>6, <2>1 DEF Removal
<1>10. CASE UNCHANGED vars
  <2>1. UNCHANGED <<cfg, is_live, block, Blocks, seen, removed, phase>>
    BY <1>10 DEF vars, analysis, walk
  <2> QED
    BY <1>6, <2>1 DEF Removal
<1> QED
  BY <1>2, <1>3, <1>4, <1>7, <1>8, <1>9, <1>10 DEF Next, Returned

-----------------------------------------------------------------------------
(* The inductive invariant and what follows from it. *)

IInv == Typed /\ Walked /\ Below /\ Current /\ Settled /\ Removal

(* The inductive invariant holds at the start ... *)
LEMMA IInvInit == Init => IInv
<1> SUFFICES ASSUME Init PROVE IInv
  OBVIOUS
<1>1. Typed /\ Walked
  BY TypedInit, WalkedInit
<1>2. \A b \in Block : \A i \in 1 .. EndOf(b) : live_at[b][i] = {}
  BY DEF Init, EndOf
<1>3. \A b \in Block : Len(Code(b)) \in Nat
  BY <1>1, CodeTypes DEF Typed
<1>4. Below
  <2>1. \A b \in Block : live_in[b] = {} /\ live_out[b] = {} /\ is_live = {}
    BY DEF Init, NothingLive
  <2>2. \A b \in Block : /\ 1 \in 1 .. EndOf(b) /\ EndOf(b) \in 1 .. EndOf(b)
                         /\ \A i \in 1 .. Len(Code(b)) : i \in 1 .. EndOf(b)
    BY <1>3 DEF EndOf
  <2> QED
    BY <1>2, <2>1, <2>2 DEF Below, BelowAt
<1>5. Current /\ Settled /\ Removal
  BY DEF Init, Current, Settled, Removal
<1> QED
  BY <1>1, <1>4, <1>5 DEF IInv

(* ... is kept by every step ... *)
LEMMA IInvNext == IInv /\ [Next]_vars => IInv'
BY TypedNext, WalkedNext, BelowNext, CurrentNext, SettledNext, RemovalNext DEF IInv

(* ... and so holds whatever the compiler does with a program. *)
THEOREM Invariance == Spec => []IInv
BY IInvInit, IInvNext, PTL DEF Spec

(* The worklist forgets no block: in every reachable state a block the walk *)
(* has found is queued, being processed or satisfies its equations.         *)
THEOREM WorklistCorrect == Spec => []WorklistSettled
<1>1. IInv => WorklistSettled
  BY DEF IInv, Walked, Settled, WorklistSettled
<1> QED
  BY <1>1, Invariance, PTL

(* Dead code elimination keeps every instruction whose effect or result     *)
(* matters, in every reachable block of every flow graph.                   *)
THEOREM EliminationSafe == Spec => []NothingNeededRemoved
<1>1. IInv => NothingNeededRemoved
  <2> SUFFICES ASSUME IInv, phase = "done", NEW b \in Reachable
               PROVE  /\ Solved(b)
                      /\ \A i \in 1 .. Len(Code(b)) : Needed(b, i) => <<b, i>> \notin removed
    BY DEF NothingNeededRemoved
  <2>1. Blocks = <<>> /\ block = NoBlock /\ removed \cap is_live = {}
    BY DEF IInv, Removal
  <2>2. Range(Blocks) = {}
    BY <2>1 DEF Range
  <2>3. b # NoBlock
    BY ReachableLeast, ProgramsAssumption DEF IInv, Typed
  <2>4. Solved(b)
    BY <2>1, <2>2, <2>3 DEF IInv, Settled
  <2> QED
    BY <2>1, <2>4 DEF Solved, SolvedAt
<1> QED
  BY <1>1, Invariance, PTL

(* It deletes every computation of a reachable block whose result is not    *)
(* live, although is_live is never reset while the live sets change.        *)
THEOREM EliminationComplete == Spec => []NoUselessCodeLeft
<1>1. IInv => NoUselessCodeLeft
  <2> SUFFICES ASSUME IInv, phase = "done", NEW b \in Reachable,
                      NEW i \in 1 .. Len(Code(b)),
                      Code(b)[i].op \in PureOps, ~ Needed(b, i)
               PROVE  <<b, i>> \in removed
    BY DEF NoUselessCodeLeft
  <2>1. b \in Block /\ b \in seen
    BY ReachableLeast DEF IInv, Typed, TypeOK, Walked
  <2>2. NotLive(b) \subseteq removed
    BY <2>1 DEF IInv, Removal
  <2>3. <<b, i>> \notin is_live
    BY <2>1 DEF IInv, Below, BelowAt, Wanted, Needed, Keeps
  <2> QED
    BY <2>2, <2>3 DEF NotLive
<1> QED
  BY <1>1, Invariance, PTL

-----------------------------------------------------------------------------
(* The live sets lie below every solution of the equations, so the solution *)
(* the analysis ends with is the least one.                                 *)

BelowSolution(L) ==
  IsSolution(L) =>
    \A b \in Block : /\ live_in[b] \subseteq L[b][1]
                     /\ \A i \in 1 .. EndOf(b) : live_at[b][i] \subseteq L[b][i]

(* No step takes a live set above a given solution. *)
LEMMA BelowSolutionNext ==
  ASSUME NEW CONSTANT L, IInv, [Next]_vars, BelowSolution(L)
  PROVE  BelowSolution(L)'
<1>1. cfg' = cfg
  BY DEF Next, FillVisit, FillEnqueue, Dequeue, FinishBlock, StartRemoval, RemoveVisit,
         RemoveReturn, Returned, vars, handle_instruction, declare, assign, use_operand,
         binary_operation, func_call, parameter, live, unhandled, Use, Compute, Handled
<1>2. IsSolution(L)' <=> IsSolution(L)
  BY <1>1, CfgFixed DEF IsSolution
<1> SUFFICES ASSUME IsSolution(L)
             PROVE  \A b \in Block :
                      /\ live_in'[b] \subseteq L[b][1]
                      /\ \A i \in 1 .. EndOf(b) : live_at'[b][i] \subseteq L[b][i]
  BY <1>1, <1>2, CfgFixed DEF BelowSolution
<1>3. \A b \in Block : /\ live_in[b] \subseteq L[b][1]
                       /\ \A i \in 1 .. EndOf(b) : live_at[b][i] \subseteq L[b][i]
  BY DEF BelowSolution
<1>4. /\ TypeOK /\ Typed /\ Below /\ Current
      /\ \A b \in Block : Len(Code(b)) \in Nat /\ Range(Succ(b)) \subseteq Block
  BY CodeTypes DEF IInv, Typed
<1>5. CASE Dequeue
  <2>1. /\ live_in' = live_in /\ block' \in Block
        /\ current_live' = LiveInOfSuccessors(block')
        /\ live_at'[block'][EndOf(block')] = current_live'
        /\ \A b \in Block : \A i \in 1 .. EndOf(b) :
             b # block' \/ i # EndOf(b) => live_at'[b][i] = live_at[b][i]
    BY <1>4, <1>5, DequeueGrows
  <2>2. LiveInOfSuccessors(block') \subseteq L[block'][EndOf(block')]
    BY <1>3, <1>4, <2>1 DEF LiveInOfSuccessors, IsSolution
  <2> QED
    BY <1>3, <2>1, <2>2
<1>6. CASE handle_instruction
  <2>1. /\ live_in' = live_in
        /\ live_at'[block][index] = LiveBefore(Instr, current_live)
        /\ \A b \in Block : \A i \in 1 .. EndOf(b) :
             b # block \/ i # index => live_at'[b][i] = live_at[b][i]
    BY <1>4, <1>6, HandlerGrows
  <2>2. block \in Block /\ block # NoBlock /\ index \in 1 .. Len(Code(block))
    BY <1>4, <1>6, AtInstructionTypes, ProgramsAssumption
  <2>3. index + 1 \in 1 .. EndOf(block)
    BY <1>4, <2>2 DEF EndOf
  <2>4. current_live \subseteq L[block][index + 1]
    BY <1>3, <1>4, <2>2, <2>3 DEF Current
  <2>5. LiveBefore(Instr, current_live) \subseteq LiveBefore(Instr, L[block][index + 1])
    BY <2>4, Monotone
  <2>6. LiveBefore(Instr, L[block][index + 1]) \subseteq L[block][index]
    BY <2>2 DEF IsSolution, Instr
  <2> QED
    BY <1>3, <2>1, <2>5, <2>6
<1>7. CASE FinishBlock
  <2>1. /\ block \in Block /\ block # NoBlock /\ index = 0 /\ live_at' = live_at
        /\ live_in' = [live_in EXCEPT ![block] = live_in[block] \cup current_live]
    BY <1>4, <1>7, FinishEffect, ProgramsAssumption
  <2>2. 1 \in 1 .. EndOf(block)
    BY <1>4, <2>1 DEF EndOf
  <2>3. current_live \subseteq L[block][1]
    BY <1>3, <1>4, <2>1, <2>2 DEF Current
  <2> QED
    BY <1>3, <1>4, <2>1, <2>3 DEF TypeOK
<1>8. CASE ~ Dequeue /\ ~ handle_instruction /\ ~ FinishBlock
  <2>1. UNCHANGED <<live_in, live_at>>
    BY <1>8, OtherSteps DEF analysis
  <2> QED
    BY <1>3, <2>1
<1> QED
  BY <1>5, <1>6, <1>7, <1>8

(* No name is called live that some solution of the liveness equations does *)
(* not call live: together with EliminationSafe, the analysis computes the  *)
(* least solution.                                                          *)
THEOREM LeastLiveness ==
  ASSUME NEW CONSTANT L
  PROVE  Spec => []BelowSolution(L)
<1>1. Init => BelowSolution(L)
  BY DEF Init, NothingLive, BelowSolution, EndOf
<1>2. IInv /\ BelowSolution(L) /\ [Next]_vars => BelowSolution(L)'
  BY BelowSolutionNext
<1> QED
  BY <1>1, <1>2, Invariance, PTL DEF Spec

-----------------------------------------------------------------------------
(* What follows is about the least solution of the equations: rounds that   *)
(* begin with empty sets reach it.                                          *)

LEMMA Smallest ==
  ASSUME NEW J, J \subseteq Nat, J # {}
  PROVE  \E j \in J : \A i \in J : j <= i
<1>1. PICK j \in J : \A u \in J : ~ (<<u, j>> \in OpToRel(<, Nat))
  BY NatLessThanWellFounded, WFMin, Zenon
<1>2. ASSUME NEW i \in J
      PROVE  j <= i
  <2>1. i \in Nat /\ j \in Nat /\ ~ (i < j)
    BY <1>1 DEF OpToRel
  <2> QED
    BY <2>1
<1> QED
  BY <1>2

LEMMA Reached ==
  ASSUME NEW n \in Nat, NEW I, 0 \in I, \A k \in 1 .. n : k - 1 \in I => k \in I
  PROVE  n \in I
<1> DEFINE J == {k \in 0 .. n : k \notin I}
<1>1. SUFFICES ASSUME J # {}
               PROVE  FALSE
  OBVIOUS
<1>2. PICK j \in J : \A i \in J : j <= i
  <2>1. J \subseteq Nat
    OBVIOUS
  <2> HIDE DEF J
  <2> QED
    BY <1>1, <2>1, Smallest
<1>3. j \in 1 .. n /\ j \notin I
  OBVIOUS
<1>4. j - 1 \in 0 .. n /\ j - 1 \notin J
  BY <1>2, <1>3
<1> QED
  BY <1>3, <1>4

(* The live sets a round can begin with, and how they are compared.         *)
LiveSets == {L \in [Block -> UNION {[1 .. EndOf(b) -> SUBSET Name] : b \in Block}] :
               \A b \in Block : L[b] \in [1 .. EndOf(b) -> SUBSET Name]}

Under(L, M) == \A b \in Block : \A i \in 1 .. EndOf(b) : L[b][i] \subseteq M[b][i]

Bottom == [b \in Block |-> [i \in 1 .. EndOf(b) |-> {}]]

(* The positions and names of a program, and those that are live. *)
Spots == Points \X Name

LiveSpots(L) == {u \in Spots : u[2] \in L[u[1][1]][u[1][2]]}

LEMMA InLiveSets ==
  ASSUME NEW L, L = [b \in Block |-> L[b]],
         \A b \in Block : L[b] \in [1 .. EndOf(b) -> SUBSET Name]
  PROVE  L \in LiveSets
<1>1. \A b \in Block : L[b] \in UNION {[1 .. EndOf(c) -> SUBSET Name] : c \in Block}
  OBVIOUS
<1> QED
  BY <1>1 DEF LiveSets

LEMMA EndPoints ==
  ASSUME TypeOK, NEW b \in Block
  PROVE  /\ Len(Code(b)) \in Nat /\ EndOf(b) \in 1 .. EndOf(b) /\ 1 \in 1 .. EndOf(b)
         /\ \A i \in 1 .. EndOf(b) : i # EndOf(b) <=> i \in 1 .. Len(Code(b))
         /\ \A i \in 1 .. Len(Code(b)) : i \in 1 .. EndOf(b) /\ i + 1 \in 1 .. EndOf(b)
         /\ Range(Succ(b)) \subseteq Block
<1>1. Len(Code(b)) \in Nat /\ Range(Succ(b)) \subseteq Block
  BY CodeTypes
<1>2. EndOf(b) = Len(Code(b)) + 1
  BY DEF EndOf
<1> QED
  BY <1>1, <1>2

LEMMA BottomIsLiveSets ==
  ASSUME TypeOK
  PROVE  Bottom \in LiveSets
<1>1. \A b \in Block : Bottom[b] \in [1 .. EndOf(b) -> SUBSET Name]
  BY DEF Bottom
<1>2. Bottom = [b \in Block |-> Bottom[b]]
  BY DEF Bottom
<1> QED
  BY <1>1, <1>2, InLiveSets

(* What a round makes of a point. *)
LEMMA ImproveIs ==
  ASSUME TypeOK, NEW L
  PROVE  \A b \in Block :
           /\ Improve(L)[b][EndOf(b)] = UNION {L[s][1] : s \in Range(Succ(b))}
           /\ \A i \in 1 .. Len(Code(b)) :
                Improve(L)[b][i] = LiveBefore(Code(b)[i], L[b][i + 1])
<1> SUFFICES ASSUME NEW b \in Block
             PROVE  /\ Improve(L)[b][EndOf(b)] = UNION {L[s][1] : s \in Range(Succ(b))}
                    /\ \A i \in 1 .. Len(Code(b)) :
                         Improve(L)[b][i] = LiveBefore(Code(b)[i], L[b][i + 1])
  OBVIOUS
<1>1. Improve(L)[b] = [i \in 1 .. EndOf(b) |->
        IF i = EndOf(b) THEN UNION {L[s][1] : s \in Range(Succ(b))}
                        ELSE LiveBefore(Code(b)[i], L[b][i + 1])]
  BY DEF Improve
<1>2. EndOf(b) \in 1 .. EndOf(b)
  BY EndPoints
<1>3. \A i \in 1 .. Len(Code(b)) : i \in 1 .. EndOf(b) /\ i # EndOf(b)
  BY EndPoints
<1> QED
  BY <1>1, <1>2, <1>3

LEMMA ImproveInLiveSets ==
  ASSUME TypeOK, NEW L \in LiveSets
  PROVE  Improve(L) \in LiveSets
<1>1. ASSUME NEW b \in Block, NEW i \in 1 .. EndOf(b)
      PROVE  Improve(L)[b][i] \subseteq Name
  <2>1. \A c \in Block : \A j \in 1 .. EndOf(c) : L[c][j] \subseteq Name
    BY DEF LiveSets
  <2>2. CASE i = EndOf(b)
    <3>1. \A s \in Range(Succ(b)) : L[s][1] \subseteq Name
      BY <2>1, EndPoints
    <3> QED
      BY <3>1, <2>2, ImproveIs
  <2>3. CASE i # EndOf(b)
    <3>1. i \in 1 .. Len(Code(b)) /\ i + 1 \in 1 .. EndOf(b)
      BY <2>3, EndPoints
    <3>2. LiveBefore(Code(b)[i], L[b][i + 1]) \subseteq Name
      BY <2>1, <3>1 DEF LiveBefore, Reads, Matters
    <3> QED
      BY <3>1, <3>2, ImproveIs
  <2> QED
    BY <2>2, <2>3
<1>2. \A b \in Block : Improve(L)[b] \in [1 .. EndOf(b) -> SUBSET Name]
  <2> SUFFICES ASSUME NEW b \in Block
               PROVE  Improve(L)[b] \in [1 .. EndOf(b) -> SUBSET Name]
    OBVIOUS
  <2>1. Improve(L)[b] = [i \in 1 .. EndOf(b) |-> Improve(L)[b][i]]
    BY DEF Improve
  <2> QED
    BY <2>1, <1>1
<1>3. Improve(L) = [b \in Block |-> Improve(L)[b]]
  BY DEF Improve
<1> QED
  BY <1>2, <1>3, InLiveSets

LEMMA ImproveMonotone ==
  ASSUME TypeOK, NEW L, NEW M, Under(L, M)
  PROVE  Under(Improve(L), Improve(M))
<1> SUFFICES ASSUME NEW b \in Block, NEW i \in 1 .. EndOf(b)
             PROVE  Improve(L)[b][i] \subseteq Improve(M)[b][i]
  BY DEF Under
<1>1. CASE i = EndOf(b)
  <2>1. \A s \in Range(Succ(b)) : L[s][1] \subseteq M[s][1]
    BY EndPoints DEF Under
  <2>2. UNION {L[s][1] : s \in Range(Succ(b))} \subseteq UNION {M[s][1] : s \in Range(Succ(b))}
    BY <2>1
  <2> QED
    BY <1>1, <2>2, ImproveIs
<1>2. CASE i # EndOf(b)
  <2>1. i \in 1 .. Len(Code(b)) /\ i + 1 \in 1 .. EndOf(b)
    BY <1>2, EndPoints
  <2>2. L[b][i + 1] \subseteq M[b][i + 1]
    BY <2>1 DEF Under
  <2>3. LiveBefore(Code(b)[i], L[b][i + 1]) \subseteq LiveBefore(Code(b)[i], M[b][i + 1])
    BY <2>2, Monotone
  <2> QED
    BY <2>1, <2>3, ImproveIs
<1> QED
  BY <1>1, <1>2

(* A solution is what a round adds nothing to. *)
LEMMA SolutionIs ==
  ASSUME TypeOK, NEW L, Under(Improve(L), L)
  PROVE  IsSolution(L)
<1> SUFFICES ASSUME NEW b \in Block
             PROVE  /\ \A s \in Range(Succ(b)) : L[s][1] \subseteq L[b][EndOf(b)]
                    /\ \A i \in 1 .. Len(Code(b)) :
                         LiveBefore(Code(b)[i], L[b][i + 1]) \subseteq L[b][i]
  BY DEF IsSolution
<1>1. /\ EndOf(b) \in 1 .. EndOf(b)
      /\ \A i \in 1 .. Len(Code(b)) : i \in 1 .. EndOf(b)
  BY EndPoints
<1>2. UNION {L[s][1] : s \in Range(Succ(b))} \subseteq L[b][EndOf(b)]
  BY <1>1, ImproveIs DEF Under
<1>3. ASSUME NEW i \in 1 .. Len(Code(b))
      PROVE  LiveBefore(Code(b)[i], L[b][i + 1]) \subseteq L[b][i]
  BY <1>1, ImproveIs DEF Under
<1> QED
  BY <1>2, <1>3

LEMMA SpotsFinite ==
  ASSUME TypeOK
  PROVE  IsFiniteSet(Spots) /\ Cardinality(Spots) \in Nat
<1> DEFINE of(b) == {b} \X (1 .. EndOf(b))
           f == [b \in Block |-> of(b)]
           parts == {of(b) : b \in Block}
<1>1. \A b \in Block : IsFiniteSet(of(b))
  <2> SUFFICES ASSUME NEW b \in Block
               PROVE  IsFiniteSet(of(b))
    OBVIOUS
  <2>1. IsFiniteSet(1 .. EndOf(b))
    BY EndPoints, FS_Interval DEF EndOf
  <2>2. IsFiniteSet({b})
    BY FS_Singleton
  <2> QED
    BY <2>1, <2>2, FS_Product
<1>2. f \in Surjection(Block, parts)
  BY DEF Surjection
<1>3. IsFiniteSet(parts)
  <2> HIDE DEF f, parts
  <2> QED
    BY <1>2, FS_Surjection, FiniteAssumption
<1>4. \A T \in parts : IsFiniteSet(T)
  BY <1>1
<1>5. IsFiniteSet(UNION parts) /\ Points = UNION parts
  <2>1. Points = UNION parts
    BY DEF Points
  <2> HIDE DEF parts
  <2> QED
    BY <2>1, <1>3, <1>4, FS_UNION
<1>6. IsFiniteSet(Spots)
  <2> HIDE DEF parts
  <2> QED
    BY <1>5, FS_Product, FiniteAssumption DEF Spots
<1> QED
  BY <1>6, FS_CardinalityType

(* Live sets are compared by what is live in them. *)
LEMMA LiveSpotsCompare ==
  ASSUME TypeOK, NEW L \in LiveSets, NEW M
  PROVE  LiveSpots(L) \subseteq LiveSpots(M) <=> Under(L, M)
<1>1. ASSUME LiveSpots(L) \subseteq LiveSpots(M), NEW b \in Block, NEW i \in 1 .. EndOf(b),
             NEW x \in L[b][i]
      PROVE  x \in M[b][i]
  <2>1. x \in Name
    BY DEF LiveSets
  <2>2. <<b, i>> \in Points
    BY DEF Points
  <2>3. <<<<b, i>>, x>> \in LiveSpots(L)
    BY <2>1, <2>2 DEF LiveSpots, Spots
  <2> QED
    BY <2>3, <1>1 DEF LiveSpots
<1>2. ASSUME Under(L, M), NEW u \in LiveSpots(L)
      PROVE  u \in LiveSpots(M)
  <2>1. u \in Spots /\ u[1] \in Points /\ u[2] \in L[u[1][1]][u[1][2]]
    BY DEF LiveSpots, Spots
  <2>2. PICK b \in Block : u[1] \in {b} \X (1 .. EndOf(b))
    BY <2>1 DEF Points
  <2>3. u[1][1] = b /\ u[1][2] \in 1 .. EndOf(b)
    BY <2>2
  <2> QED
    BY <2>1, <2>3, <1>2 DEF Under, LiveSpots
<1> QED
  BY <1>1, <1>2 DEF Under

(* Rounds of the equations, from the empty sets. *)
Rounds(g, n) ==
  /\ g[0] = Bottom
  /\ \A k \in 1 .. n : g[k] = Improve(g[k - 1])
  /\ g = [k \in 0 .. n |-> IF k = 0 THEN Bottom ELSE Improve(g[k - 1])]

LEMMA RoundsExist ==
  ASSUME TypeOK, NEW n \in Nat
  PROVE  \E g : Rounds(g, n)
<1> DEFINE I == {m \in 0 .. n : \E g : Rounds(g, m)}
<1>1. 0 \in I
  <2> DEFINE g == [k \in 0 .. 0 |-> Bottom]
  <2>1. /\ g[0] = Bottom /\ \A k \in 1 .. 0 : g[k] = Improve(g[k - 1])
        /\ g = [k \in 0 .. 0 |-> IF k = 0 THEN Bottom ELSE Improve(g[k - 1])]
    OBVIOUS
  <2> HIDE DEF g
  <2> QED
    BY <2>1 DEF Rounds
<1>2. ASSUME NEW m \in 1 .. n, m - 1 \in I
      PROVE  m \in I
  <2>1. PICK g : Rounds(g, m - 1)
    BY <1>2
  <2> DEFINE h == [k \in 0 .. m |-> IF k = m THEN Improve(g[m - 1]) ELSE g[k]]
  <2>2. h[0] = Bottom
    BY <2>1, <1>2 DEF Rounds
  <2>3. ASSUME NEW k \in 1 .. m
        PROVE  h[k] = Improve(h[k - 1])
    <3>1. k - 1 \in 0 .. m /\ k - 1 # m /\ h[k - 1] = g[k - 1] /\ k \in 0 .. m
      OBVIOUS
    <3>2. CASE k = m
      BY <3>1, <3>2
    <3>3. CASE k # m
      <4>1. k \in 1 .. m - 1 /\ h[k] = g[k]
        BY <3>3
      <4>2. g[k] = Improve(g[k - 1])
        BY <2>1, <4>1 DEF Rounds
      <4> QED
        BY <3>1, <4>1, <4>2
    <3> QED
      BY <3>2, <3>3
  <2>4. h = [k \in 0 .. m |-> h[k]]
    OBVIOUS
  <2> HIDE DEF h
  <2>5. \A k \in 0 .. m : h[k] = IF k = 0 THEN Bottom ELSE Improve(h[k - 1])
    <3> SUFFICES ASSUME NEW k \in 0 .. m
                 PROVE  h[k] = IF k = 0 THEN Bottom ELSE Improve(h[k - 1])
      OBVIOUS
    <3>1. k = 0 \/ (k \in 1 .. m /\ k # 0)
      BY <1>2
    <3> QED
      BY <3>1, <2>2, <2>3
  <2>6. h = [k \in 0 .. m |-> IF k = 0 THEN Bottom ELSE Improve(h[k - 1])]
    BY <2>4, <2>5, Zenon
  <2>7. Rounds(h, m)
    BY <2>2, <2>3, <2>6 DEF Rounds
  <2> QED
    BY <2>7, <1>2
<1>3. n \in I
  <2> HIDE DEF I
  <2> QED
    BY <1>1, <1>2, Reached
<1> QED
  BY <1>3

(* Some round reaches a solution: until then each makes something live.     *)
LEMMA RoundsSolve ==
  ASSUME TypeOK, NEW g, Rounds(g, Cardinality(Spots))
  PROVE  \E k \in 0 .. Cardinality(Spots) : IsSolution(g[k])
<1> DEFINE n == Cardinality(Spots)
           Size(k) == Cardinality(LiveSpots(g[k]))
           I == {k \in 0 .. n : /\ g[k] \in LiveSets /\ Under(g[k], Improve(g[k]))
                                /\ \/ \E j \in 0 .. n : IsSolution(g[j])
                                   \/ Size(k) >= k}
<1>1. n \in Nat /\ IsFiniteSet(Spots)
  BY SpotsFinite
<1>2. \A L : IsFiniteSet(LiveSpots(L)) /\ Cardinality(LiveSpots(L)) \in Nat
  <2> SUFFICES ASSUME NEW L
               PROVE  IsFiniteSet(LiveSpots(L)) /\ Cardinality(LiveSpots(L)) \in Nat
    OBVIOUS
  <2>1. LiveSpots(L) \subseteq Spots
    BY DEF LiveSpots
  <2> QED
    BY <2>1, <1>1, FS_Subset, FS_CardinalityType
<1>3. g[0] = Bottom /\ \A k \in 1 .. n : g[k] = Improve(g[k - 1])
  BY DEF Rounds
<1> HIDE DEF n
<1>4. 0 \in I
  <2>1. Under(Bottom, Improve(Bottom))
    BY DEF Under, Bottom
  <2>2. g[0] \in LiveSets /\ Under(g[0], Improve(g[0]))
    BY <2>1, <1>3, BottomIsLiveSets
  <2>3. Size(0) \in Nat
    BY <1>2
  <2> HIDE DEF Size
  <2> QED
    BY <2>2, <2>3, <1>1
<1>5. ASSUME NEW k \in 1 .. n, k - 1 \in I
      PROVE  k \in I
  <2> DEFINE L == g[k - 1]
             M == g[k]
  <2>1. M = Improve(L) /\ L \in LiveSets /\ Under(L, M) /\ k - 1 \in 0 .. n
    BY <1>3, <1>5
  <2>2. M \in LiveSets /\ Under(M, Improve(M))
    BY <2>1, ImproveInLiveSets, ImproveMonotone
  <2>3. CASE \E j \in 0 .. n : IsSolution(g[j])
    BY <2>2, <2>3, <1>1
  <2>4. CASE ~ \E j \in 0 .. n : IsSolution(g[j])
    <3>1. ~ Under(M, L)
      BY <2>1, <2>4, SolutionIs
    <3>2. LiveSpots(L) \subseteq LiveSpots(M) /\ LiveSpots(L) # LiveSpots(M)
      BY <3>1, <2>1, <2>2, LiveSpotsCompare
    <3>3. Size(k - 1) < Size(k) /\ Size(k - 1) \in Nat /\ Size(k) \in Nat
      <4> HIDE DEF L, M
      <4>1. Cardinality(LiveSpots(L)) < Cardinality(LiveSpots(M))
        BY <3>2, <1>2, FS_Subset
      <4> QED
        BY <4>1, <1>2 DEF L, M
    <3>4. Size(k - 1) >= k - 1
      BY <1>5, <2>4
    <3>5. Size(k) >= k
      <4> HIDE DEF Size
      <4> QED
        BY <3>3, <3>4, <1>1
    <3> QED
      BY <3>5, <2>2, <1>1
  <2> QED
    BY <2>3, <2>4
<1>6. n \in I
  <2> HIDE DEF I
  <2> QED
    BY <1>1, <1>4, <1>5, Reached
<1>7. CASE \E j \in 0 .. n : IsSolution(g[j])
  BY <1>7 DEF n
<1>8. CASE Size(n) >= n
  <2>1. LiveSpots(g[n]) \subseteq Spots
    BY DEF LiveSpots
  <2>2. LiveSpots(g[n]) = Spots
    <3>1. Cardinality(LiveSpots(g[n])) <= n /\ Cardinality(LiveSpots(g[n])) \in Nat
      BY <2>1, <1>1, <1>2, FS_Subset DEF n
    <3>2. Cardinality(LiveSpots(g[n])) = n
      BY <3>1, <1>8, <1>1
    <3> QED
      BY <3>2, <2>1, <1>1, FS_Subset DEF n
  <2>3. Improve(g[n]) \in LiveSets
    BY <1>6, ImproveInLiveSets
  <2>4. LiveSpots(Improve(g[n])) \subseteq LiveSpots(g[n])
    BY <2>2 DEF LiveSpots
  <2>5. IsSolution(g[n])
    BY <2>3, <2>4, LiveSpotsCompare, SolutionIs
  <2>6. n \in 0 .. n
    BY <1>1
  <2> QED
    BY <2>5, <2>6 DEF n
<1> QED
  BY <1>6, <1>7, <1>8

(* No name is called live without a reason: at the end the live sets are    *)
(* below the least solution, for every flow graph and however many rounds   *)
(* that takes.                                                              *)
THEOREM NothingIsLiveInVain == Spec => []NothingLiveInVain
<1> DEFINE AllBelow == \A L : BelowSolution(L)
<1>1. Init => AllBelow
  BY DEF Init, NothingLive, BelowSolution, EndOf
<1>2. IInv /\ AllBelow /\ [Next]_vars => AllBelow'
  <2> SUFFICES ASSUME IInv, AllBelow, [Next]_vars
               PROVE  \A L : BelowSolution(L)'
    OBVIOUS
  <2> TAKE L
  <2>1. BelowSolution(L)
    OBVIOUS
  <2> QED
    BY <2>1, BelowSolutionNext
<1>3. IInv /\ AllBelow => NothingLiveInVain
  <2> SUFFICES ASSUME IInv, AllBelow
               PROVE  NothingLiveInVain
    OBVIOUS
  <2> DEFINE n == Cardinality(Points \X Name)
             g == CHOOSE h : h = [k \in 0 .. n |-> IF k = 0
                                    THEN [b \in Block |-> [i \in 1 .. EndOf(b) |-> {}]]
                                    ELSE Improve(h[k - 1])]
             least == g[CHOOSE k \in 0 .. n : IsSolution(g[k])]
  <2>1. TypeOK /\ n = Cardinality(Spots) /\ n \in Nat
    BY SpotsFinite DEF IInv, Typed, Spots
  <2>2. g = [k \in 0 .. n |-> IF k = 0 THEN Bottom ELSE Improve(g[k - 1])]
    <3> HIDE DEF n
    <3>1. \E h : h = [k \in 0 .. n |-> IF k = 0 THEN Bottom ELSE Improve(h[k - 1])]
      BY <2>1, RoundsExist DEF Rounds
    <3>2. g = CHOOSE h : h = [k \in 0 .. n |-> IF k = 0 THEN Bottom ELSE Improve(h[k - 1])]
      BY Zenon DEF Bottom
    <3> QED
      BY <3>1, <3>2, Zenon
  <2> HIDE DEF g, n
  <2>3. Rounds(g, n)
    <3>1. 0 \in 0 .. n /\ \A k \in 1 .. n : k \in 0 .. n /\ k # 0
      BY <2>1
    <3> QED
      BY <3>1, <2>2 DEF Rounds
  <2>4. \E k \in 0 .. n : IsSolution(g[k])
    BY <2>1, <2>3, RoundsSolve
  <2>5. IsSolution(least)
    BY <2>4
  <2> HIDE DEF least
  <2>6. \A b \in Block : live_in[b] \subseteq least[b][1]
    BY <2>5 DEF BelowSolution
  <2> QED
    BY <2>5, <2>6, Zenon DEF NothingLiveInVain, n, g, least
<1> QED
  BY <1>1, <1>2, <1>3, Invariance, PTL DEF Spec

=============================================================================
