------------------------------ MODULE Registers ------------------------------
(***************************************************************************)
(* Which register or slot a value is in: the register table "available" of  *)
(* CodeGeneration.c, kept while code is generated, together with what the   *)
(* registers and the memory hold when that code runs.                       *)
(*                                                                         *)
(* One action generates the code of one instruction and runs it.  The       *)
(* instructions are those lowerExpression makes: operands wait on a stack   *)
(* (pending) until the instruction that uses them, and every temporary is   *)
(* used once.  A value is named after its temporary, variable or literal,   *)
(* and an operation on the wrong values, or in the wrong order, gives Junk. *)
(* Sizes and 16-bit arithmetic are left out.  An identifier's token is      *)
(* never taken for a temporary: appoint_name is then asked for the low half *)
(* of a pointer.  D_what_is_wrong is D with a seeded fault.                 *)
(***************************************************************************)
EXTENDS Naturals, Sequences

CONSTANTS
  Temp,        \* temporaries of the function whose code is generated
  Foreign,     \* temporaries of other functions
  Variable,    \* variables, local or global
  Instant,     \* literals
  Place,       \* places in memory
  SlotOf,      \* SlotOf[v]: the place of a temporary or variable; of a
               \* foreign temporary, the place its offset names in this frame,
               \* which may be that of one of this frame's
  None,        \* -1 in available
  Junk,        \* a value nobody asked for
  MaxPending,  \* bound: operands waiting
  MaxArgs      \* bound: arguments of a call

Register == {"BX", "CX", "DX"}

ASSUME PlacesAssumption ==
  /\ SlotOf \in [Temp \cup Foreign \cup Variable -> Place]
  /\ \A v, w \in Temp \cup Variable : SlotOf[v] = SlotOf[w] => v = w
  /\ Instant \cap (Temp \cup Foreign \cup Variable) = {}
  /\ Temp \cap (Foreign \cup Variable) = {} /\ Foreign \cap Variable = {}
  /\ None \notin Temp \cup Foreign \cup Variable \cup Instant
  /\ Junk \notin Temp \cup Foreign \cup Variable \cup Instant
  /\ Place \cap (Register \cup {"AX"} \cup Instant) = {}
  /\ Instant \cap (Register \cup {"AX"}) = {}
  /\ MaxPending \in Nat /\ MaxArgs \in Nat

VARIABLES
  available,   \* available[r]: the temporary appointed to register r
  mem,         \* when the code runs: the value in each register and place
  pending,     \* operands whose instruction has not come yet
  aborted      \* the compiler has stopped in the middle of an instruction

vars == <<available, mem, pending, aborted>>

Operand  == Temp \cup Variable \cup Instant
Awaited  == {pending[k] : k \in 1 .. Len(pending)} \cap Temp

-----------------------------------------------------------------------------
(* The register table.  A pair [av, m] is the table and the memory while    *)
(* the code of one instruction is generated and run.                        *)

First(S) == IF "BX" \in S THEN "BX" ELSE IF "CX" \in S THEN "CX" ELSE "DX"

HeldBy(av, v) == {r \in Register : av[r] = v}

(* get_access_name *)
Access(av, v) ==
  IF v \in Instant THEN v
  ELSE IF HeldBy(av, v) # {} THEN First(HeldBy(av, v)) ELSE SlotOf[v]

Read(m, src)      == IF src \in Instant THEN src ELSE m[src]
Move(m, dst, src) == [m EXCEPT ![dst] = Read(m, src)]
Spoil(m, S)       == [x \in DOMAIN m |-> IF x \in S THEN Junk ELSE m[x]]

(* A register is saved in its temporary's slot, and stays appointed to it.  *)
release_register(c, r) ==
  IF c.av[r] = None THEN c ELSE [c EXCEPT !.m = Move(@, SlotOf[c.av[r]], r)]

appoint_register(c, r, t) == [release_register(c, r) EXCEPT !.av[r] = t]

try_to_appoint_register(c, t) ==
  LET free == {r \in Register : c.av[r] \in {None, t}}
  IN IF free = {} THEN c ELSE [c EXCEPT !.av[First(free)] = t]

release_all_registers_unsaved(c) ==
  [av |-> [r \in Register |-> None], m |-> c.m]
release_all_registers(c) ==
  [av |-> [r \in Register |-> None],
   m  |-> release_register(release_register(release_register(c, "BX"), "CX"), "DX").m]

Now          == [av |-> available, m |-> mem]
Appointed(v) == HeldBy(available, v) # {}

(* How every operation finds a register for its result: an operand's, or a  *)
(* free one, or none.                                                       *)
AppointResult_twice(i) ==
  IF Appointed(i.left) \/ Appointed(i.right)
    THEN [Now EXCEPT !.av = [r \in Register |-> IF @[r] \in {i.left, i.right} THEN i.to ELSE @[r]]]
    ELSE try_to_appoint_register(Now, i.to)
AppointResult(i) ==
  IF Appointed(i.left) \/ Appointed(i.right)
    THEN appoint_register(Now,
           First(HeldBy(available, IF Appointed(i.left) THEN i.left ELSE i.right)), i.to)
    ELSE try_to_appoint_register(Now, i.to)

-----------------------------------------------------------------------------
(* Operations: i.to := i.left i.op i.right. *)

(* left_right_matters *)
LeftRightMatters(op) == op \in {"SUB", "DIV"}

Result(i, a, b) ==
  IF \/ a = i.left /\ b = i.right
     \/ i.op \in {"ADD", "AND", "OR", "MUL"} /\ a = i.right /\ b = i.left
    THEN i.to ELSE Junk

Operate(m, i, dst, src) == [m EXCEPT ![dst] = Result(i, Read(m, dst), Read(m, src))]

Left(i)  == Access(available, i.left)
Right(i) == Access(available, i.right)

(* handle_add_sub_or_and_instr works in an operand's register, or in the    *)
(* result's after moving the left operand there, or in AX.                  *)
AddSubOrAnd(i) ==
  LET c       == AppointResult(i)
      to      == Access(c.av, i.to)
      inRight == ~ Appointed(i.left) /\ Appointed(i.right)
      work    == IF inRight \/ to \in Place THEN "AX" ELSE to
  IN [c EXCEPT !.m =
        IF inRight /\ ~ LeftRightMatters(i.op)
          THEN Operate(@, i, Right(i), Left(i))
          ELSE Move(Operate(Move(@, work, Left(i)), i, work, Right(i)), to, work)]

(* MUL, DIV and MOD: MOV AX, left; a literal right operand goes to CX; XOR  *)
(* DX, DX; the operation leaves its results in AX and DX, one of them "out". *)
ThroughAX(i, out) ==
  LET c       == release_register(AppointResult(i), "DX")
      d       == IF i.right \in Instant THEN release_register(c, "CX") ELSE c
      to      == Access(c.av, i.to)
      src     == IF i.right \in Instant THEN "CX" ELSE Right(i)
      loaded  == Move(d.m, "AX", Left(i))
      ready   == Spoil(IF i.right \in Instant THEN Move(loaded, "CX", i.right) ELSE loaded,
                       {"DX"})
      result  == Result(i, ready["AX"], Read(ready, src))
      done    == [Spoil(ready, {"AX", "DX"}) EXCEPT ![out] = result]
  IN [d EXCEPT !.m = Move(done, to, out)]

(* handle_mul_div_instr. *)
MulDiv(i) == ThroughAX(i, "AX")

(* handle_mod_instr.  When the result takes an operand's register its name  *)
(* is a string literal, which is freed at the end: undefined.               *)
Mod(i)           == ThroughAX(i, "DX")
FreesLiteral(i)  == Appointed(i.left) \/ Appointed(i.right)

(* handle_condition_instr: CMP, perhaps by way of AX, then MOV to, 0 or 1.  *)
Condition(i) ==
  LET c == AppointResult(i)
  IN [c EXCEPT !.m[Access(c.av, i.to)] = Result(i, Read(c.m, Left(i)), Read(c.m, Right(i)))]

-----------------------------------------------------------------------------
(* Steps. *)

(* What nobody can ask for any more is Junk. *)
Settled(m, ops) ==
  [x \in DOMAIN m |->
     IF \/ m[x] \in Temp /\ \E k \in 1 .. Len(ops) : ops[k] = m[x]
        \/ m[x] \in Variable /\ SlotOf[m[x]] = x
       THEN m[x] ELSE Junk]

Leaves(m, ops) ==
  /\ ~ aborted
  /\ pending' = ops
  /\ mem' = Settled(m, ops)

Becomes(c, ops)   == available' = c.av /\ Leaves(c.m, ops)
Generates(c, ops) == Becomes(c, ops) /\ UNCHANGED aborted

(* newTemp: ids are new; here one nothing remembers is taken again. *)
Fresh == {t \in Temp : t \notin Awaited /\ HeldBy(available, t) = {}}

Waiting == Len(pending)
Without(n) == SubSeq(pending, 1, Waiting - n)

(* An operation on the two operands on top, its result a new temporary.     *)
Takes(op, t) ==
  [op |-> op, to |-> t, left |-> pending[Waiting - 1], right |-> pending[Waiting]]

Init ==
  /\ available = [r \in Register |-> None]           \* init_registers
  /\ pending = <<>>
  /\ mem = [x \in Register \cup {"AX"} \cup Place |->
              IF \E v \in Variable : SlotOf[v] = x
                THEN CHOOSE v \in Variable : SlotOf[v] = x ELSE Junk]
  /\ aborted = FALSE

(* An identifier or literal is an operand without any code. *)
PushOperand(v) ==
  /\ ~ aborted
  /\ Waiting < MaxPending
  /\ pending' = Append(pending, v)
  /\ UNCHANGED <<available, mem, aborted>>

Additive(op, t) ==
  /\ Waiting >= 2
  /\ Generates(AddSubOrAnd(Takes(op, t)), Append(Without(2), t))

Product(op, t) ==
  /\ Waiting >= 2
  /\ Generates(MulDiv(Takes(op, t)), Append(Without(2), t))

Modulo(t) ==
  /\ Waiting >= 2
  /\ Becomes(Mod(Takes("MOD", t)), Append(Without(2), t))
  /\ aborted' \in IF FreesLiteral(Takes("MOD", t)) THEN BOOLEAN ELSE {FALSE}

Compare(t) ==
  /\ Waiting >= 2
  /\ Generates(Condition(Takes("CMP", t)), Append(Without(2), t))

(* handle_assign_instr: the source's register is free afterwards.           *)
Assign(x, v) ==
  [av |-> [r \in Register |-> IF available[r] = v THEN None ELSE available[r]],
   m  |-> [mem EXCEPT ![SlotOf[x]] = IF Read(mem, Access(available, v)) = v THEN x ELSE Junk]]

AssignTo(x) ==
  /\ Waiting = 1
  /\ Generates(Assign(x, pending[1]), <<>>)

(* PRINT_INT, RETURN and CBR read their operand and leave the table as it   *)
(* is; so does a call statement with the result.                            *)
Use ==
  /\ Waiting = 1
  /\ Generates(Now, <<>>)

(* The table after code of other blocks and functions was generated, when   *)
(* values of this expression wait in their slots: temporaries of the        *)
(* functions, and old ones of this one, may still be appointed.             *)
LeftBehind(ops) ==
  {av \in [Register -> {None} \cup Foreign \cup (Temp \ {ops[k] : k \in 1 .. Len(ops)})] :
     \A r, s \in Register : av[r] = av[s] => r = s \/ av[r] = None}

(* handle_call_instr: registers are saved, the callee spoils them, its      *)
(* result is moved to the temporary's slot.  The code that follows is in    *)
(* another block, generated after the callee's (traverse_cfg).              *)
CallInstr(n, t) ==
  /\ n <= Waiting
  /\ LET c   == release_all_registers(Now)
         ops == Append(Without(n), t)
     IN /\ Leaves([Spoil(c.m, Register \cup {"AX"}) EXCEPT ![SlotOf[t]] = t], ops)
        /\ available' \in LeftBehind(ops)
  /\ UNCHANGED aborted

(* Between statements, code of other blocks is generated and may run.       *)
OtherCode ==
  /\ Waiting = 0
  /\ Leaves(mem, <<>>)
  /\ available' \in LeftBehind(<<>>)
  /\ UNCHANGED aborted

Operation(t) == Compare(t) \/ \E op \in {"ADD", "SUB", "AND", "OR"} : Additive(op, t)
Products(t)  == Modulo(t) \/ \E op \in {"MUL", "DIV"} : Product(op, t)
Calls(t)     == \E n \in 0 .. MaxArgs : CallInstr(n, t)

Other ==
  \/ \E v \in Variable \cup Instant : PushOperand(v)
  \/ \E x \in Variable : AssignTo(x)
  \/ Use
  \/ OtherCode

Next ==
  \/ Other
  \/ \E t \in Fresh : Operation(t) \/ Products(t) \/ Calls(t)

(* The registers a product saves and then spoils. *)
Spoilt == {"DX"} \cup IF pending[Waiting] \in Instant THEN {"CX"} ELSE {}

(* One of the registers S is still appointed to a temporary of another      *)
(* function, and when it is saved it goes to the slot of v.                 *)
Exposed(v, S) == \E r \in S : available[r] \in Foreign /\ SlotOf[available[r]] = SlotOf[v]

(* Products and calls that do no harm: no awaited value is spoilt, nor the  *)
(* right operand in DX, and no slot that is needed is exposed.              *)
HarmlessProduct ==
  /\ Waiting >= 2
  /\ Access(available, pending[Waiting]) # "DX"
  /\ \A k \in 1 .. Waiting - 2 : Access(available, pending[k]) \notin Spoilt
  /\ \A v \in Awaited \cup Variable : ~ Exposed(v, Spoilt)

HarmlessCall == \A v \in Awaited \cup Variable : ~ Exposed(v, Register)

HarmlessNext ==
  \/ Other
  \/ \E t \in Fresh : \/ Operation(t)
                      \/ HarmlessProduct /\ Products(t)
                      \/ HarmlessCall /\ Calls(t)

Spec         == Init /\ [][Next]_vars
HarmlessSpec == Init /\ [][HarmlessNext]_vars

-----------------------------------------------------------------------------
(* The table and the memory have their types, and a temporary is appointed  *)
(* to one register only, so get_access_name has no choice.                  *)
TypeOK ==
  /\ available \in [Register -> Temp \cup Foreign \cup {None}]
  /\ \A r, s \in Register : available[r] = available[s] => r = s \/ available[r] = None
  /\ mem \in [Register \cup {"AX"} \cup Place -> Temp \cup Variable \cup {Junk}]
  /\ pending \in Seq(Operand)
  /\ \A j, k \in 1 .. Waiting : pending[j] = pending[k] => j = k \/ pending[j] \notin Temp
  /\ aborted \in BOOLEAN

(* A value somebody waits for is where get_access_name says it is: through  *)
(* operations that take over registers, calls that save them and registers  *)
(* running out, no temporary is lost or replaced.                           *)
AwaitedKept == \A t \in Awaited : mem[Access(available, t)] = t

(* A value is where get_access_name says.  A step overwrites it when it     *)
(* saves a leftover of another function over it, and spoils it when it is   *)
(* in a register that a product needs.                                      *)
Held(v)       == Read(mem, Access(available, v)) = v
IsProduct     == \E t \in Fresh \cap Awaited' : Products(t)
IsCall        == \E t \in Fresh \cap Awaited' : Calls(t)
Overwrites(v) ==
  /\ v \notin Instant
  /\ \/ Waiting >= 2 /\ Exposed(v, Spoilt) /\ IsProduct
     \/ Exposed(v, Register) /\ IsCall
Spoils(v)     == Waiting >= 2 /\ Access(available, v) \in Spoilt /\ IsProduct
Safe(v)       == Held(v) /\ ~ Overwrites(v)
Survives(v)   == Safe(v) /\ ~ Spoils(v)

(* Whatever products, calls and leftovers come: an awaited value is only    *)
(* lost when a product spoils its register, or a product or call saves a    *)
(* leftover of another function over it; a variable only by such a leftover *)
(* or the assignment of a lost value; and a result is only wrong when an    *)
(* operand was lost before or in this step.                                 *)
LossIsKnown ==
  /\ \A t \in Awaited \cap Awaited' : ~ Held(t)' => ~ Survives(t)
  /\ \A x \in Variable :
       ~ Held(x)' => ~ Safe(x) \/ (AssignTo(x) /\ ~ Held(pending[1]))
  /\ \A t \in Awaited' \ Awaited :
       ~ Held(t)' => /\ Waiting >= 2
                     /\ ~ Safe(pending[Waiting - 1]) \/ ~ Survives(pending[Waiting])
OnlyKnownLosses == [][LossIsKnown]_vars

(* A variable's place holds its value.                                      *)
VariablesKept == \A x \in Variable : mem[SlotOf[x]] = x

=============================================================================
