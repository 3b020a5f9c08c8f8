------------------------------ MODULE Compiler ------------------------------
(***************************************************************************)
(* From the flow graph to the output of the compiled program: computeLive-  *)
(* ness (IRLiveness) rewrites the graph, and then the instructions it left  *)
(* are executed, each doing what the code does that its handler in          *)
(* CodeGeneration.c emits.                                                  *)
(*                                                                         *)
(* One action is one instruction.  Registers, sizes and addresses are left  *)
(* to CallFrames and FrameSlots: here a call has a frame that maps names to *)
(* numbers, and numbers stay small.  "via" is a history variable.           *)
(***************************************************************************)
EXTENDS IRLiveness, SequencesExt

CONSTANTS
  Source,         \* names of the programs compiled
  Lowered,        \* Lowered[s]: its flow graph, made by the front end
  Given,          \* the inputs a program can be given, sequences of numbers
  Meaning,        \* Meaning[s][g]: [out, ends], what it does with an input
  Operation(_, _, _),   \* the result of a binary operation
  LiteralNumber(_),
  Undefined,      \* what is read where nothing was stored
  MaxSteps        \* bound: instructions executed that make the state grow

VARIABLES
  source, given, meant,   \* the program, its input, and its meaning
  at,                     \* the next instruction: <<block, position>>
  frames,                 \* the frames of the active calls, innermost first
  globals,                \* the data segment
  BX,                     \* the register that carries a function's result
  reads,                  \* numbers read so far
  out,                    \* what was printed
  steps,                  \* of the instructions that make the state grow
  via                     \* the last block control entered along an edge

program == <<source, given, meant>>
machine == <<at, frames, globals, BX, reads, out, steps, via>>
allVars == <<vars, program, machine>>

Nothing == [n \in {} |-> Undefined]

NewFrame(args, ret, dest) == [vars |-> Nothing, args |-> args, ret |-> ret, dest |-> dest]

CompilerInit ==
  /\ Init
  /\ source \in Source
  /\ cfg = Lowered[source]
  /\ given \in Given
  /\ meant = Meaning[source][given]
  /\ at = <<Entry, 0>>
  /\ frames = <<NewFrame(<<>>, <<Entry, 0>>, Entry)>>
  /\ globals = Nothing
  /\ BX = Undefined
  /\ reads = 0
  /\ out = <<>>
  /\ steps = 0
  /\ via = Entry

Optimise == phase # "done" /\ Next /\ UNCHANGED <<program, machine>>

-----------------------------------------------------------------------------
(* traverse_cfg emits the instructions left in a block in order, so control *)
(* goes on with the first one at position i or later.                       *)
From(b, i) ==
  LET left == {j \in i .. Len(Code(b)) : <<b, j>> \notin removed}
  IN <<b, IF left = {} THEN EndOf(b) ELSE CHOOSE j \in left : \A k \in left : j <= k>>

Instruct == Code(at[1])[at[2]]

(* Numbers, frames, input and output grow by these only, so a loop without  *)
(* any of them is a cycle of states.                                        *)
Growing == {"ADD", "SUB", "MUL", "CALL", "GET_INT", "PRINT_INT", "PRINT"}

Executing(ops) ==
  /\ phase = "done"
  /\ steps < MaxSteps
  /\ at[2] \in 1 .. Len(Code(at[1]))
  /\ Instruct.op \in ops
  /\ steps' = steps + (IF Instruct.op \in Growing THEN 1 ELSE 0)
  /\ UNCHANGED <<vars, program>>

GoOn == at' = From(at[1], at[2] + 1) /\ UNCHANGED via

(* A jump to a block, along the edge the graph should have for it.          *)
EnterBlock(b) == at' = From(b, 1) /\ via' = b

(* get_access_name: a global variable is in the data segment, everything    *)
(* else in the frame of the call.                                           *)
IsGlobal(n) ==
  \E b \in Block : \E i \in 1 .. Len(Code(b)) :
    Code(b)[i].op = "DECLARE_GLOBAL" /\ Code(b)[i].arg1 = n

Access(v) ==
  LET held == IF IsGlobal(v) THEN globals ELSE Head(frames).vars
  IN IF v \in Literal THEN LiteralNumber(v)
     ELSE IF v \in DOMAIN held THEN held[v] ELSE Undefined

Put(n, v, calls) ==
  IF IsGlobal(n)
    THEN globals' = (n :> v) @@ globals /\ frames' = calls
    ELSE frames' = <<[Head(calls) EXCEPT !.vars = (n :> v) @@ @]>> \o Tail(calls)
         /\ UNCHANGED globals

Store(n, v) == Put(n, v, frames)

-----------------------------------------------------------------------------
(* The code starts with handle_global_temps; the label of the main block    *)
(* comes next.                                                              *)
Start ==
  /\ phase = "done"
  /\ at = <<Entry, 0>>
  /\ EnterBlock(Entry)
  /\ UNCHANGED <<vars, program, frames, globals, BX, reads, out, steps>>

(* Instructions that emit nothing, or only what CallFrames models.          *)
Nop ==
  /\ Executing({"GLOBAL_TEMP_SPACE", "DECLARE_GLOBAL", "DECLARE_LOCAL", "FUNC_START"})
  /\ GoOn
  /\ UNCHANGED <<frames, globals, BX, reads, out>>

(* handle_assign_instr. *)
Assigning ==
  /\ Executing({"ASSIGN"})
  /\ Store(Instruct.arg1, Access(Instruct.arg2))
  /\ GoOn
  /\ UNCHANGED <<BX, reads, out>>

(* handle_add_sub_or_and_instr, handle_mul_div_instr, handle_mod_instr and  *)
(* handle_condition_instr.                                                  *)
Operating ==
  /\ Executing(BinaryOps)
  /\ Store(Instruct.arg1, Operation(Instruct.op, Access(Instruct.arg2), Access(Instruct.arg3)))
  /\ GoOn
  /\ UNCHANGED <<BX, reads, out>>

(* handle_branch_instr: TEST condition, 1; an instant condition counts as 1 *)
(* whatever it is.                                                          *)
Branching ==
  /\ Executing({"CBR"})
  /\ LET true == Instruct.arg1 \in Literal \/ Access(Instruct.arg1) % 2 = 1
     IN EnterBlock(Instruct.to[IF true THEN 1 ELSE 2])
  /\ UNCHANGED <<frames, globals, BX, reads, out>>

(* handle_jump_instr.  The jump after a call completes the return from it.  *)
Jumping ==
  /\ Executing({"JMP"})
  /\ EnterBlock(Instruct.to[1])
  /\ UNCHANGED <<frames, globals, BX, reads, out>>

(* handle_call_instr, as far as CALL. *)
Calling ==
  /\ Executing({"CALL"})
  /\ LET args == [i \in DOMAIN Instruct.args |-> Access(Instruct.args[i])]
     IN frames' = <<NewFrame(args, From(at[1], at[2] + 1), Instruct.arg3)>> \o frames
  /\ EnterBlock(Instruct.to[1])
  /\ UNCHANGED <<globals, BX, reads, out>>

(* handle_parameter_instr: the argument is found by the parameter's place,  *)
(* also when the parameters before it are not used and were removed.        *)
Receiving ==
  /\ Executing({"PARAMETER"})
  /\ Store(Instruct.arg2, Head(frames).args[at[2] - 1])
  /\ GoOn
  /\ UNCHANGED <<BX, reads, out>>

(* handle_return_instr. *)
Returning ==
  /\ Executing({"RETURN"})
  /\ BX' = Access(Instruct.arg1)
  /\ EnterBlock(Instruct.to[1])
  /\ UNCHANGED <<frames, globals, reads, out>>

(* handle_func_end_instr, and MOV temporary, BX in the caller. *)
Ending ==
  /\ Executing({"FUNC_END"})
  /\ Put(Head(frames).dest, BX, Tail(frames))
  /\ at' = Head(frames).ret
  /\ UNCHANGED <<via, BX, reads, out>>

(* handle_print_int and handle_print. *)
Printing ==
  /\ Executing({"PRINT_INT", "PRINT"})
  /\ out' = Append(out, IF Instruct.op = "PRINT" THEN [str |-> Instruct.arg1.lit]
                                                 ELSE [int |-> Access(Instruct.arg1)])
  /\ GoOn
  /\ UNCHANGED <<frames, globals, BX, reads>>

(* handle_get_int. *)
Reading ==
  /\ Executing({"GET_INT"})
  /\ Store(Instruct.arg1, given[reads + 1])
  /\ reads' = reads + 1
  /\ GoOn
  /\ UNCHANGED <<BX, out>>

Ended == phase = "done" /\ at[2] \in 1 .. Len(Code(at[1])) /\ Instruct.op = "END"

(* handle_end_instr returns to DOS; or the bound is reached. *)
Halt == (Ended \/ steps = MaxSteps) /\ UNCHANGED allVars

CompilerNext ==
  \/ Optimise
  \/ Start
  \/ Nop
  \/ Assigning
  \/ Operating
  \/ Branching
  \/ Jumping
  \/ Calling
  \/ Receiving
  \/ Returning
  \/ Ending
  \/ Printing
  \/ Reading
  \/ Halt

(* The compiler and the program it made are sequential and nothing blocks.  *)
CompilerSpec ==
  CompilerInit /\ [][CompilerNext]_allVars /\ WF_allVars(CompilerNext)

-----------------------------------------------------------------------------
(* Compiling and optimising a program does not change what it prints: the   *)
(* output is always a beginning of what the source program prints, and all  *)
(* of it when END is reached.  (A meaning that does not end is known as far *)
(* as its fuel went, which is further than MaxSteps instructions go.)       *)
PrintsAsWritten ==
  /\ IsPrefix(out, meant.out)
  /\ Ended => meant.ends /\ out = meant.out

(* A program that ends is compiled into one that reaches END. *)
EndsAsWritten == <>(Ended \/ ~ meant.ends)

(* Control moves between blocks along the edges of the graph only: the      *)
(* analysis sees every path the program takes.  A return goes from the exit *)
(* of the function to the block after the call.                             *)
ControlFollowsEdges ==
  [][phase = "done" /\ via' # via => via' \in Range(Succ(via))]_allVars

=============================================================================
