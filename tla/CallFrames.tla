----------------------------- MODULE CallFrames -----------------------------
(***************************************************************************)
(* The calling convention of the code CodeGeneration.c emits, executed on a *)
(* byte-addressed stack: arguments are pushed as words from last to first,  *)
(* CALL pushes the return address, FUNC_START saves BP and reserves the     *)
(* frame, each PARAMETER copies an argument into its slot, FUNC_END undoes  *)
(* the frame and returns, popping the parameters.                           *)
(*                                                                         *)
(* One action is the code one handler emits.  "active" is a history of the  *)
(* calls that have not returned and of what the source program says their   *)
(* variables hold; the machine never looks at it.  An operator named        *)
(* D_what_is_wrong is D with a seeded fault.                                *)
(***************************************************************************)
EXTENDS Layout, SequencesExt

CONSTANTS
  Fun,        \* the functions of the program
  Main,       \* the main program
  Params,     \* Params[f]: the sizes of f's parameters, in order
  Locals,     \* Locals[f]: the sizes of its local variables and temporaries;
              \* Locals[Main]: the sizes of the global temporaries
  Val,        \* what a variable can hold
  Junk,       \* what the stack holds where nothing was stored
  Top         \* bound: the bytes of the stack, and so the address above it

ASSUME FunAssumption ==
  /\ Main \notin Fun
  /\ Params \in [Fun \cup {Main} -> Seq(Size)] /\ Params[Main] = <<>>
  /\ Locals \in [Fun \cup {Main} -> Seq(Size)]
  /\ Top \in Nat

VARIABLES
  mem,      \* mem[a]: the byte at address a
  SP, BP,   \* registers
  BX,       \* a function's result
  active,   \* history: the active calls, innermost first
  at        \* what the code does next in the innermost call

vars == <<mem, SP, BP, BX, active, at>>

FrameOf    == [f \in Fun \cup {Main} |-> Laid(Params[f] \o Locals[f])]
ParamSpace == [f \in Fun \cup {Main} |-> Laid(Params[f]).pos]

(* What FUNC_START, or the start of the program, takes from SP and what      *)
(* FUNC_END gives back: twice the bytes of the frame.                        *)
Reserved(f) == 2 * FrameOf[f].pos
Unreserved_once(f) == FrameOf[f].pos
Unreserved(f) == 2 * FrameOf[f].pos

ASSUME StackAssumption == Reserved(Main) <= Top

Slots(f) == FrameOf[f].slots
Me       == Head(active).fun

-----------------------------------------------------------------------------
(* Words and bytes.  A stored value fills the bytes part 0 and, when it is  *)
(* a word, part 1.                                                          *)

Byte(v, part) == [value |-> v, part |-> part]
JunkByte      == Byte(Junk, 0)

Stored(m, a, v, size) ==
  [b \in DOMAIN m |-> IF b \in a .. a + size - 1 THEN Byte(v, b - a) ELSE m[b]]

Holds(m, a, v, size) == \A i \in 0 .. size - 1 : m[a + i] = Byte(v, i)

(* What a read of the word at a gives: a value only if it was stored there. *)
WordAt(m, a) == IF Holds(m, a, m[a].value, 2) THEN m[a].value ELSE Junk

(* What is below SP does not last: it is not the program's any more.        *)
Released(m, sp) == [b \in DOMAIN m |-> IF b < sp THEN JunkByte ELSE m[b]]

(* PUSH of each word of a sequence, the first one first: the k-th one is at *)
(* sp - 2 * k.                                                              *)
Pushed(m, sp, words) ==
  [b \in DOMAIN m |-> IF b \in sp - 2 * Len(words) .. sp - 1
                        THEN Byte(words[(sp - b + 1) \div 2], (sp - b) % 2)
                        ELSE m[b]]

-----------------------------------------------------------------------------
Unset == [j \in {} |-> Junk]           \* no variable has been given a value

Call(f, args, dest, base) ==
  [fun |-> f, args |-> args, dest |-> dest, base |-> base, holds |-> Unset]

(* handle_global_temps. *)
Init ==
  /\ mem = [a \in 0 .. Top - 1 |-> JunkByte]
  /\ BP = Top
  /\ SP = Top - Reserved(Main)
  /\ BX = Junk
  /\ active = <<Call(Main, <<>>, 0, Top)>>
  /\ at = "body"

(* Call c when its variable j holds v from now on.                          *)
Knows(c, j, v) ==
  [c EXCEPT !.holds = [i \in DOMAIN c.holds \cup {j} |-> IF i = j THEN v ELSE c.holds[i]]]

(* An assignment, an operation, or a register saved in its slot:            *)
(* MOV BP[offset], v.                                                       *)
Store(j, v) ==
  /\ at = "body"
  /\ mem' = Stored(mem, BP + Slots(Me)[j].offset, v, Slots(Me)[j].size)
  /\ active' = <<Knows(Head(active), j, v)>> \o Tail(active)
  /\ UNCHANGED <<SP, BP, BX, at>>

(* What an argument can be: a variable of the caller that has been given a  *)
(* value, and has the parameter's size, or a literal.                       *)
Operands(size) ==
  [lit : Val] \cup
  [slot : {j \in DOMAIN Head(active).holds : Slots(Me)[j].size = size}]

(* The word pushed for it, read from memory, and what it should be.         *)
Fetched(o) ==
  IF "lit" \in DOMAIN o THEN o.lit ELSE mem[BP + Slots(Me)[o.slot].offset].value
Meant(o) == IF "lit" \in DOMAIN o THEN o.lit ELSE Head(active).holds[o.slot]

ReturnAddress == <<"return address", 0>>
SavedBP(n)    == <<"BP", n>>

(* What a call takes from the stack: the arguments, the return address, the *)
(* saved BP and the frame.  Nothing in the emitted code looks whether there *)
(* is room; only calls that have room are made here.                        *)
HasRoom(f) == 2 * Len(Params[f]) + 4 + Reserved(f) <= SP

(* handle_call_instr, as far as CALL: the arguments from last to first, and *)
(* the return address.                                                      *)
CallInstr(f, ops, dest) ==
  /\ at = "body"
  /\ HasRoom(f)
  /\ LET words == Reverse([i \in DOMAIN ops |-> Fetched(ops[i])]) \o <<ReturnAddress>>
     IN /\ mem' = Pushed(mem, SP, words)
        /\ SP' = SP - 2 * Len(words)
  /\ active' = <<Call(f, [i \in DOMAIN ops |-> Meant(ops[i])], dest, 0)>> \o active
  /\ at' = "start"
  /\ UNCHANGED <<BP, BX>>

(* handle_func_start_instr: PUSH BP, MOV BP SP, SUB SP.                     *)
FuncStart ==
  /\ at = "start"
  /\ mem' = Stored(mem, SP - 2, SavedBP(BP), 2)
  /\ BP' = SP - 2
  /\ SP' = SP - 2 - Reserved(Me)
  /\ active' = <<[Head(active) EXCEPT !.base = BP']>> \o Tail(active)
  /\ at' = "parameters"
  /\ UNCHANGED BX

(* handle_parameter_instr reads at BP[-offset - DEFAULT_OFFSET].            *)
ParameterSource_first(slot) == BP + 4
ParameterSource(slot) == BP - slot.offset + 2

(* The bytes parameter j moves to.                                         *)
ParameterBytes(j) ==
  LET first == BP + Slots(Me)[j].offset IN first .. first + Slots(Me)[j].size - 1

(* handle_parameter_instr for every PARAMETER at the start of a function.   *)
(* What one of them reads lies above BP, where none of them writes: the     *)
(* order of the moves is of no account.                                     *)
CopyParameters ==
  /\ at = "parameters"
  /\ LET moved(b) == {j \in DOMAIN Params[Me] : b \in ParameterBytes(j)}
     IN mem' = [b \in DOMAIN mem |->
                 IF moved(b) = {} THEN mem[b]
                 ELSE LET s == Slots(Me)[CHOOSE j \in moved(b) : TRUE]
                      IN mem[ParameterSource(s) + b - (BP + s.offset)]]
  /\ active' = <<[Head(active) EXCEPT !.holds = Head(active).args]>> \o Tail(active)
  /\ at' = "body"
  /\ UNCHANGED <<SP, BP, BX>>

(* handle_func_end_instr: ADD SP, POP BP, RET.  handle_return_instr has put *)
(* the result in BX.  If RET does not find the return address, control is   *)
(* lost.                                                                    *)
Popped_words(f) == 2 * ParamSpace[f]
Popped(f) == ParamSpace[f]

FuncEnd(v) ==
  /\ at = "body"
  /\ Me # Main
  /\ LET frameEnd == SP + Unreserved(Me)
         saved    == WordAt(mem, frameEnd)
     IN IF WordAt(mem, frameEnd + 2) = ReturnAddress /\ saved \in {SavedBP(n) : n \in 0 .. Top}
          THEN /\ BP' = saved[2]
               /\ SP' = frameEnd + 4 + Popped(Me)
               /\ mem' = Released(mem, SP')
               /\ BX' = v
               /\ at' = "result"
          ELSE /\ at' = "lost"
               /\ UNCHANGED <<mem, SP, BP, BX>>
  /\ UNCHANGED active

(* The rest of handle_call_instr, in the caller: MOV BP[offset], BX.        *)
TakeResult ==
  /\ at = "result"
  /\ LET dest == Head(active).dest
         f    == active[2].fun
     IN /\ mem' = Stored(mem, BP + Slots(f)[dest].offset, BX, 2)
        /\ active' = <<Knows(active[2], dest, BX)>> \o Tail(Tail(active))
  /\ at' = "body"
  /\ UNCHANGED <<SP, BP, BX>>

(* The slot of the temporary a call's result goes to.                       *)
Results == {j \in DOMAIN Slots(Me) : j > Len(Params[Me]) /\ Slots(Me)[j].size = 2}

Next ==
  \/ \E j \in DOMAIN Slots(Me), v \in Val : Store(j, v)
  \/ \E f \in Fun, dest \in Results :
       \E ops \in [DOMAIN Params[f] -> UNION {Operands(size) : size \in Size}] :
         /\ \A i \in DOMAIN ops : ops[i] \in Operands(Params[f][i])
         /\ CallInstr(f, ops, dest)
  \/ FuncStart
  \/ CopyParameters
  \/ \E v \in Val : FuncEnd(v)
  \/ TakeResult

Spec == Init /\ [][Next]_vars

-----------------------------------------------------------------------------
(* The calls that have a frame: a callee whose result is being taken has    *)
(* none.                                                                    *)
Alive == {k \in 1 .. Len(active) : k > 1 \/ at # "result"}

(* The machine's memory implements the variables of the program: in every   *)
(* active call, the innermost and the ones waiting for it, each variable    *)
(* given a value still has it; a parameter has the argument from the moment *)
(* PARAMETER moves it "from after stack to function reserved stack".        *)
VariablesHold ==
  \A k \in Alive : \A j \in DOMAIN active[k].holds :
    LET c == active[k]
        s == Slots(c.fun)[j]
    IN Holds(mem, c.base + s.offset, c.holds[j], s.size)

(* Returning undoes a call: when a body runs, BP is its own frame and SP is *)
(* right below it, so nothing of the calls made so far is left on the stack.*)
StackBalanced ==
  at = "body" => /\ BP = Head(active).base
                 /\ SP = BP - Reserved(Me)

(* RET finds the address CALL pushed. *)
ControlKept == at # "lost"

=============================================================================
