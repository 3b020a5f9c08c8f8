----------------------------- MODULE IRLiveness -----------------------------
(***************************************************************************)
(* The optimiser of the compiler: computeLiveness of IR_Liveness.c.        *)
(*                                                                         *)
(* It runs on the control flow graph mainCFG built, in three passes:       *)
(*   "fill"      fill_liveness_queue, a depth-first walk that queues every *)
(*               block after its successors;                               *)
(*   "liveness"  liveness, the worklist: a block is taken from the queue,  *)
(*               its instructions are handled from last to first, and its  *)
(*               predecessors are queued again when live_in grew;          *)
(*   "remove"    remove_dead_code, a second walk that deletes every        *)
(*               instruction no pass ever marked live.                     *)
(* The program is sequential; one iteration of a loop, one recursive call  *)
(* or one handler is one action.  Which program is compiled is chosen in   *)
(* Init and never changes.                                                 *)
(*                                                                         *)
(* A hash set of values is a set here, and an instruction is named by its  *)
(* position <<block, index>> in the block as mainCFG built it, so a removed*)
(* instruction is a position in "removed" and the others keep their names. *)
(*                                                                         *)
(* A definition named D_what_is_wrong is D with a seeded fault: putting it  *)
(* in the place of D has to make one of the properties fail.                *)
(***************************************************************************)
EXTENDS Naturals, Sequences, FiniteSets, Functions

CONSTANTS
  Programs,     \* the control flow graphs of this instance, see Program
  Block,        \* block ids
  NoBlock,      \* "liveness is between two blocks"
  Name,         \* identifiers and temporaries: the operands that matter
  Literal       \* the other operands: numbers, true, false and IR_NULL

Value == Name \cup Literal

(* The instructions grouped by the function that handles them. *)
DeclareOps == {"DECLARE_GLOBAL", "DECLARE_LOCAL"}
AssignOps  == {"ASSIGN"}
BinaryOps  == {"ADD", "SUB", "MUL", "DIV", "MOD",
               "LT", "LE", "GT", "GE", "EQ", "NE", "AND", "OR"}
UseOps     == {"CBR", "RETURN", "PRINT_INT"}
CallOps    == {"CALL"}
ParamOps   == {"PARAMETER"}
LiveOps    == {"FUNC_START", "FUNC_END", "JMP", "PRINT",
               "GLOBAL_TEMP_SPACE", "END", "GET_INT"}
NoHandler  == {"RAW_STRING"}     \* the table of handlers has no entry for it

Opcode == DeclareOps \cup AssignOps \cup BinaryOps \cup UseOps \cup CallOps
            \cup ParamOps \cup LiveOps \cup NoHandler

(* IR_Instruction.  args is the argument list of a CALL, to the blocks a    *)
(* CBR, JMP, RETURN or CALL names.                                          *)
Instruction == [op : Opcode, arg1 : Value, arg2 : Value, arg3 : Value,
                args : Seq(Value), to : Seq(Block)]

Program == [entry : Block, code : [Block -> Seq(Instruction)],
            succ : [Block -> Seq(Block)], pred : [Block -> Seq(Block)]]

(* addSuccessor records an edge at both of its ends. *)
Mirrored(q) == \A a, b \in Block : b \in Range(q.succ[a]) <=> a \in Range(q.pred[b])

(* The result of a call is a new temporary, so it is not an argument. *)
CallResultFresh(q) ==
  \A b \in Block : \A i \in 1 .. Len(q.code[b]) :
    q.code[b][i].op \in CallOps => q.code[b][i].arg3 \notin Range(q.code[b][i].args)

ASSUME ProgramsAssumption ==
  /\ Programs \subseteq Program
  /\ \A q \in Programs : Mirrored(q) /\ CallResultFresh(q)
  /\ NoBlock \notin Block
  /\ Name \cap Literal = {}

(* A program is finite. *)
ASSUME FiniteAssumption == IsFiniteSet(Block) /\ IsFiniteSet(Name)

VARIABLES
  cfg,           \* the program being compiled
  phase,         \* the pass that runs
  stack,         \* the active calls of the walk, innermost first
  seen,          \* blocks the walk has entered
  Blocks,        \* the queue of blocks to process
  block, index,  \* the block liveness works on, and its next instruction
  current_live,  \* names live at that point
  used_at_all,   \* names that were live anywhere, ever
  live_in, live_out,
  is_live,       \* instructions marked live
  removed,       \* instructions deleted
  live_at        \* history: live_at[b][i] is what current_live was before
                 \* instruction i when b was last processed

walk     == <<stack, seen>>
analysis == <<block, index, current_live, used_at_all, live_in, live_out,
              is_live, live_at>>
vars     == <<cfg, phase, walk, Blocks, analysis, removed>>

Entry   == cfg.entry
Code(b) == cfg.code[b]
Succ(b) == cfg.succ[b]
Pred(b) == cfg.pred[b]

(* matters: of the operands the handlers look at, only identifiers and      *)
(* temporaries can be live.                                                 *)
Matters(S) == S \cap Name

-----------------------------------------------------------------------------
(* The depth-first walk both fill_liveness_queue and remove_dead_code make: *)
(* a frame is a call for a block and the successor it looks at next.        *)

Frame(b) == [block |-> b, next |-> 1]
Top      == Head(stack)
TopSucc  == Succ(Top.block)[Top.next]

MoreSuccessors == stack # <<>> /\ Top.next <= Len(Succ(Top.block))
AllSuccessors  == stack # <<>> /\ Top.next > Len(Succ(Top.block))

Advanced == <<[Top EXCEPT !.next = @ + 1]>> \o Tail(stack)

(* The call for the next successor: it returns at once for a seen block. *)
Visit ==
  IF TopSucc \in seen
    THEN stack' = Advanced /\ UNCHANGED seen
    ELSE stack' = <<Frame(TopSucc)>> \o Advanced /\ seen' = seen \cup {TopSucc}

-----------------------------------------------------------------------------
NothingLive == [b \in Block |-> {}]

Init ==
  /\ cfg \in Programs
  /\ phase = "fill"
  /\ stack = <<Frame(Entry)>>
  /\ seen = {Entry}
  /\ Blocks = <<>>
  /\ block = NoBlock
  /\ index = 0
  /\ current_live = {}
  /\ used_at_all = {}
  /\ live_in = NothingLive
  /\ live_out = NothingLive
  /\ is_live = {}
  /\ removed = {}
  /\ live_at = [b \in Block |-> [i \in 1 .. Len(Code(b)) + 1 |-> {}]]

(* fill_liveness_queue: the recursive calls come first ...                  *)
FillVisit ==
  /\ phase = "fill"
  /\ MoreSuccessors
  /\ Visit
  /\ UNCHANGED <<cfg, phase, Blocks, analysis, removed>>

(* ... then the block itself is queued; the last return ends the pass.      *)
FillEnqueue ==
  /\ phase = "fill"
  /\ AllSuccessors
  /\ Blocks' = Append(Blocks, Top.block)
  /\ stack' = Tail(stack)
  /\ phase' = IF Len(stack) = 1 THEN "liveness" ELSE phase
  /\ UNCHANGED <<cfg, seen, analysis, removed>>

-----------------------------------------------------------------------------
(* liveness: one iteration of its while loop is Dequeue, the handlers of    *)
(* the block's instructions from last to first, and FinishBlock.            *)

LiveInOfSuccessors(b) == UNION {live_in[s] : s \in Range(Succ(b))}

(* The loop over the instructions starts here. *)
LastInstruction_past_end(b) == Len(Code(b)) + 1
LastInstruction(b) == Len(Code(b))

Dequeue ==
  /\ phase = "liveness"
  /\ block = NoBlock
  /\ Blocks # <<>>
  /\ LET b   == Head(Blocks)
         out == live_out[b] \cup LiveInOfSuccessors(b)
     IN /\ block' = b
        /\ index' = LastInstruction(b)
        /\ live_out' = [live_out EXCEPT ![b] = out]
        /\ current_live' = current_live \cup out
        /\ live_at' = [live_at EXCEPT ![b][Len(Code(b)) + 1] = current_live']
  /\ Blocks' = Tail(Blocks)
  /\ UNCHANGED <<cfg, phase, walk, used_at_all, live_in, is_live, removed>>

Instr == Code(block)[index]

AtInstruction(ops) ==
  /\ phase = "liveness"
  /\ block # NoBlock
  /\ index > 0
  /\ Instr.op \in ops

(* What every handler does: now and used are the new current_live and       *)
(* used_at_all, marked tells whether it sets is_live.                       *)
Handled(now, used, marked) ==
  /\ current_live' = now
  /\ used_at_all' = used
  /\ is_live' = IF marked THEN is_live \cup {<<block, index>>} ELSE is_live
  /\ live_at' = [live_at EXCEPT ![block][index] = now]
  /\ index' = index - 1
  /\ UNCHANGED <<cfg, phase, walk, Blocks, block, live_in, live_out, removed>>

(* insert_ir_value_to_live for each value of a set, and the mark. *)
Use(vals) == Handled(current_live \cup Matters(vals),
                     used_at_all \cup Matters(vals), TRUE)

(* An instruction with no other effect than its result in arg1: it is live  *)
(* when the result is, and then its operands are.                           *)
Compute_forgets_operands(vals) ==
  IF Instr.arg1 \in current_live
    THEN Handled(current_live \ {Instr.arg1}, used_at_all, TRUE)
    ELSE Handled(current_live, used_at_all, FALSE)

Compute_always(vals) ==
  Handled((current_live \ {Instr.arg1}) \cup Matters(vals),
          used_at_all \cup Matters(vals), TRUE)

Compute_keeps_result(vals) ==
  IF Instr.arg1 \in current_live
    THEN Handled(current_live \cup Matters(vals), used_at_all \cup Matters(vals), TRUE)
    ELSE Handled(current_live, used_at_all, FALSE)

Compute(vals) ==
  IF Instr.arg1 \in current_live
    THEN Handled((current_live \ {Instr.arg1}) \cup Matters(vals),
                 used_at_all \cup Matters(vals), TRUE)
    ELSE Handled(current_live, used_at_all, FALSE)

declare ==
  /\ AtInstruction(DeclareOps)
  /\ Handled(current_live, used_at_all, Instr.arg1 \in used_at_all)

assign           == AtInstruction(AssignOps) /\ Compute({Instr.arg2})
binary_operation == AtInstruction(BinaryOps) /\ Compute({Instr.arg2, Instr.arg3})

(* condition_branch, return_l and print_int. *)
use_operand == AtInstruction(UseOps) /\ Use({Instr.arg1})

func_call ==
  /\ AtInstruction(CallOps)
  /\ LET used == Matters(Range(Instr.args))
     IN Handled((current_live \cup used) \ {Instr.arg3}, used_at_all \cup used, TRUE)

parameter ==
  /\ AtInstruction(ParamOps)
  /\ Handled(current_live \ {Instr.arg2}, used_at_all, Instr.arg2 \in used_at_all)

live == AtInstruction(LiveOps) /\ Use({})

(* handle_instruction finds no handler in the table: nothing is done. *)
unhandled == AtInstruction(NoHandler) /\ Handled(current_live, used_at_all, FALSE)

handle_instruction ==
  \/ declare
  \/ assign
  \/ binary_operation
  \/ use_operand
  \/ func_call
  \/ parameter
  \/ live
  \/ unhandled

(* A block whose live_in grew puts its predecessors on the queue. *)
Requeue_successors(b, changed) == IF changed THEN Blocks \o Succ(b) ELSE Blocks
Requeue_always(b, changed) == Blocks \o Pred(b)
Requeue(b, changed) == IF changed THEN Blocks \o Pred(b) ELSE Blocks

FinishBlock ==
  /\ phase = "liveness"
  /\ block # NoBlock
  /\ index = 0
  /\ live_in' = [live_in EXCEPT ![block] = @ \cup current_live]
  /\ Blocks' = Requeue(block, live_in' # live_in)
  /\ current_live' = {}
  /\ block' = NoBlock
  /\ UNCHANGED <<cfg, phase, walk, index, used_at_all, live_out, is_live,
                 live_at, removed>>

-----------------------------------------------------------------------------
(* remove_dead_code: on entering a block it deletes its instructions that   *)
(* are not live, then it calls itself for the successors.                   *)

NotLive(b) == {<<b, i>> : i \in {j \in 1 .. Len(Code(b)) : <<b, j>> \notin is_live}}

StartRemoval ==
  /\ phase = "liveness"
  /\ block = NoBlock
  /\ Blocks = <<>>
  /\ phase' = "remove"
  /\ stack' = <<Frame(Entry)>>
  /\ seen' = {Entry}
  /\ removed' = removed \cup NotLive(Entry)
  /\ UNCHANGED <<cfg, Blocks, analysis>>

RemoveVisit ==
  /\ phase = "remove"
  /\ MoreSuccessors
  /\ Visit
  /\ removed' = IF TopSucc \in seen THEN removed ELSE removed \cup NotLive(TopSucc)
  /\ UNCHANGED <<cfg, phase, Blocks, analysis>>

RemoveReturn ==
  /\ phase = "remove"
  /\ AllSuccessors
  /\ stack' = Tail(stack)
  /\ phase' = IF Len(stack) = 1 THEN "done" ELSE phase
  /\ UNCHANGED <<cfg, seen, Blocks, analysis, removed>>

(* computeLiveness has returned. *)
Returned == phase = "done" /\ UNCHANGED vars

Next ==
  \/ FillVisit
  \/ FillEnqueue
  \/ Dequeue
  \/ handle_instruction
  \/ FinishBlock
  \/ StartRemoval
  \/ RemoveVisit
  \/ RemoveReturn
  \/ Returned

(* The compiler is one thread that runs until computeLiveness returns, so   *)
(* an enabled step is eventually taken.                                     *)
Spec == Init /\ [][Next]_vars /\ WF_vars(Next)

-----------------------------------------------------------------------------
(* What the pass is to compute, stated for one instruction: the names it    *)
(* reads and writes when it is executed, and whether it is wanted for its   *)
(* result only.                                                             *)

PureOps == AssignOps \cup BinaryOps

Reads(ins) ==
  Matters(CASE ins.op \in AssignOps -> {ins.arg2}
            [] ins.op \in BinaryOps -> {ins.arg2, ins.arg3}
            [] ins.op \in UseOps    -> {ins.arg1}
            [] ins.op \in CallOps   -> Range(ins.args)
            [] OTHER                -> {})

Writes(ins) == CASE ins.op \in PureOps  -> {ins.arg1}
                 [] ins.op \in CallOps  -> {ins.arg3}
                 [] ins.op \in ParamOps -> {ins.arg2}
                 [] OTHER               -> {}

Wanted(ins, after) == ins.op \in PureOps => ins.arg1 \in after

(* The names live before an instruction, given those live after it. *)
LiveBefore(ins, after) ==
  (after \ Writes(ins)) \cup (IF Wanted(ins, after) THEN Reads(ins) ELSE {})

EndOf(b) == Len(Code(b)) + 1      \* the point at the end of a block

(* Executed code would go wrong without this instruction: it has an effect, *)
(* or its result is live after it.                                          *)
Keeps(ins, after) ==
  \/ ins.op \in UseOps \cup CallOps \cup LiveOps
  \/ ins.op \in PureOps  /\ ins.arg1 \in after
  \/ ins.op \in ParamOps /\ ins.arg2 \in after

Needed(b, i) == Keeps(Code(b)[i], live_at[b][i + 1])

(* The equation holds at an instruction, and so does its flag. *)
SolvedAt(b, i) ==
  /\ live_at[b][i] = LiveBefore(Code(b)[i], live_at[b][i + 1])
  /\ Needed(b, i) => <<b, i>> \in is_live

(* They hold in all of block b, with the live_in of its successors.         *)
Solved(b) ==
  /\ live_in[b] = live_at[b][1]
  /\ live_at[b][EndOf(b)] = LiveInOfSuccessors(b)
  /\ \A i \in 1 .. Len(Code(b)) : SolvedAt(b, i)

(* The blocks control can reach from the entry block. *)
Closed(S)  == Entry \in S /\ \A b \in S : Range(Succ(b)) \subseteq S
Reachable  == {b \in Block : \A S \in SUBSET Block : Closed(S) => b \in S}

-----------------------------------------------------------------------------
(* The types of the variables. *)
TypeOK ==
  /\ cfg \in Program
  /\ phase \in {"fill", "liveness", "remove", "done"}
  /\ stack \in Seq([block : Block, next : Nat \ {0}])
  /\ seen \subseteq Block
  /\ Blocks \in Seq(Block)
  /\ block \in Block \cup {NoBlock}
  /\ index \in Nat
  /\ block # NoBlock => index <= Len(Code(block))
  /\ current_live \subseteq Name
  /\ used_at_all \subseteq Name
  /\ live_in \in [Block -> SUBSET Name]
  /\ live_out \in [Block -> SUBSET Name]
  /\ is_live \subseteq Block \X Nat
  /\ removed \subseteq Block \X Nat
  /\ live_at \in [Block -> Seq(SUBSET Name)]
  /\ \A b \in Block : Len(live_at[b]) = EndOf(b)

(* The worklist forgets nobody: while liveness runs and after it, every     *)
(* block the walk found is queued, being processed, or satisfies the        *)
(* equations with the live_in its successors have now.  It would fail if a  *)
(* live_in could grow without its predecessors being queued.                *)
WorklistSettled ==
  phase # "fill" =>
    \A b \in seen : b \in Range(Blocks) \/ b = block \/ Solved(b)

(* Dead code elimination deletes nothing that matters: when computeLiveness *)
(* returns, the live sets of all reachable blocks solve the equations and   *)
(* every instruction needed under them is still there.                      *)
NothingNeededRemoved ==
  phase = "done" =>
    \A b \in Reachable :
      /\ Solved(b)
      /\ \A i \in 1 .. Len(Code(b)) : Needed(b, i) => <<b, i>> \notin removed

(* It deletes everything it can: a computation left in a reachable block    *)
(* has a live result.  Flags are never reset, so this says that no flag set *)
(* early in the analysis turned out to be wrong.                            *)
NoUselessCodeLeft ==
  phase = "done" =>
    \A b \in Reachable : \A i \in 1 .. Len(Code(b)) :
      Code(b)[i].op \in PureOps /\ ~ Needed(b, i) => <<b, i>> \in removed

(* A solution of the equations: a set of names for every point.             *)
IsSolution(L) ==
  \A b \in Block :
    /\ \A s \in Range(Succ(b)) : L[s][1] \subseteq L[b][EndOf(b)]
    /\ \A i \in 1 .. Len(Code(b)) : LiveBefore(Code(b)[i], L[b][i + 1]) \subseteq L[b][i]

(* One round of the equations. *)
Improve(L) ==
  [b \in Block |-> [i \in 1 .. EndOf(b) |->
     IF i = EndOf(b) THEN UNION {L[s][1] : s \in Range(Succ(b))}
                    ELSE LiveBefore(Code(b)[i], L[b][i + 1])]]

Points == UNION {{b} \X (1 .. EndOf(b)) : b \in Block}

(* Nothing is called live without a reason: rounds that begin with empty    *)
(* sets reach a solution, which is the least, before there are more of them *)
(* than names and points, and what liveness calls live is live in it.       *)
NothingLiveInVain ==
  phase = "done" =>
    LET bottom == [b \in Block |-> [i \in 1 .. EndOf(b) |-> {}]]
        bound  == Cardinality(Points \X Name)
        iterate[k \in 0 .. bound] == IF k = 0 THEN bottom ELSE Improve(iterate[k - 1])
        least  == iterate[CHOOSE k \in 0 .. bound : IsSolution(iterate[k])]
    IN /\ IsSolution(least)
       /\ \A b \in Block : live_in[b] \subseteq least[b][1]

(* computeLiveness returns. *)
Termination == <>(phase = "done")

=============================================================================
