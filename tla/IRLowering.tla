----------------------------- MODULE IRLowering -----------------------------
(***************************************************************************)
(* The lowering of IR_CFG.c: mainCFG turns the syntax tree of a program     *)
(* that passed the semantic analysis into basic blocks of instructions with *)
(* successor and predecessor edges.  It is a pure function of the tree,     *)
(* written here as one operator per visitor of ir_visitor.                  *)
(*                                                                         *)
(* A tree is a record whose "kind" is the nonterminal it was reduced to.    *)
(* st is the state the visitors share: the blocks created so far, the block *)
(* "cur" they append to (their parameter and result), the temporaries used, *)
(* the table of functions, and the stack of exit blocks.  A block's id is   *)
(* its position in st.blocks, next_block_id counted from one.               *)
(* Slots in the frame are the subject of FrameSlots, not of this module.    *)
(* A definition named D_what_is_wrong is D with a seeded fault.             *)
(***************************************************************************)
EXTENDS Naturals, Sequences, SequencesExt

(* IR_Value: an identifier, a literal, a temporary, or IR_NULL. *)
Id(x)   == [id |-> x]
Lit(c)  == [lit |-> c]
Temp(n) == [temp |-> n]
Null    == [null |-> TRUE]

(* createIRInstructionBase, then the fields an instruction sets.            *)
Base(op) == [op |-> op, arg1 |-> Null, arg2 |-> Null, arg3 |-> Null,
             args |-> <<>>, to |-> <<>>]
Op1(op, a)         == [Base(op) EXCEPT !.arg1 = a]
Op2(op, a, b)      == [Base(op) EXCEPT !.arg1 = a, !.arg2 = b]
Op3(op, a, b, c)   == [Base(op) EXCEPT !.arg1 = a, !.arg2 = b, !.arg3 = c]
Jump(b)            == [Base("JMP") EXCEPT !.to = <<b>>]
Branch(c, b1, b2)  == [Base("CBR") EXCEPT !.arg1 = c, !.to = <<b1, b2>>]
Return(v, b)       == [Base("RETURN") EXCEPT !.arg1 = v, !.to = <<b>>]
Call(b, args, t)   == [Base("CALL") EXCEPT !.args = args, !.arg3 = t, !.to = <<b>>]

(* mapComparisonOperator: the operators it does not know become RAW_STRING. *)
OpcodeOf ==
  [o \in {"<", "<=", ">", ">=", "==", "!=", "||", "&&", "+", "-", "*", "/", "%",
          "&", "|", "!"} |->
     CASE o = "<" -> "LT" [] o = "<=" -> "LE" [] o = ">" -> "GT" [] o = ">=" -> "GE"
       [] o = "==" -> "EQ" [] o = "!=" -> "NE" [] o = "||" -> "OR" [] o = "&&" -> "AND"
       [] o = "+" -> "ADD" [] o = "-" -> "SUB" [] o = "*" -> "MUL" [] o = "/" -> "DIV"
       [] o = "%" -> "MOD" [] OTHER -> "RAW_STRING"]

-----------------------------------------------------------------------------
(* createBasicBlock, addIRInstruction, addSuccessor. *)

NewBlock(st) ==
  [st EXCEPT !.blocks = Append(@, [code |-> <<>>, succ |-> <<>>, pred |-> <<>>])]
Newest(st) == Len(st.blocks)

Add(st, b, ins) == [st EXCEPT !.blocks[b].code = Append(@, ins)]
AddHere(st, ins) == Add(st, st.cur, ins)

AddSuccessor(st, a, b) ==
  LET s == [st EXCEPT !.blocks[a].succ = Append(@, b)]
  IN [s EXCEPT !.blocks[b].pred = Append(@, a)]

At(st, b) == [st EXCEPT !.cur = b]

-----------------------------------------------------------------------------
(* lowerExpression returns a value and may move cur to a new block.         *)
(* Expressions: Token(v), Factor(e), BinOp(o, l, r), FunctionCall(f, args). *)

RECURSIVE LowerExpression(_, _), LowerArguments(_, _, _)

(* find_arguments_for_call: from left to right. *)
LowerArguments(st, trees, vals) ==
  IF trees = <<>> THEN [st |-> st, vals |-> vals]
  ELSE LET e == LowerExpression(st, Head(trees))
       IN LowerArguments(e.st, Tail(trees), Append(vals, e.val))

(* lowerFunctionCall: the block ends with the call; its successor is the    *)
(* function's entry, and the function's exit gets the rest as successor.    *)
LowerFunctionCall_returns_nowhere(st, t) ==
  LET fun  == st.funs[t.name]
      a    == LowerArguments(st, t.args, <<>>)
      temp == Temp(a.st.temps)
      s1   == AddHere([a.st EXCEPT !.temps = @ + 1], Call(fun.entry, a.vals, temp))
      s2   == NewBlock(AddSuccessor(s1, s1.cur, fun.entry))
      cont == Newest(s2)
  IN [st |-> At(AddHere(s2, Jump(cont)), cont), val |-> temp]
LowerFunctionCall(st, t) ==
  LET fun  == st.funs[t.name]
      a    == LowerArguments(st, t.args, <<>>)
      temp == Temp(a.st.temps)
      s1   == AddHere([a.st EXCEPT !.temps = @ + 1], Call(fun.entry, a.vals, temp))
      s2   == NewBlock(AddSuccessor(s1, s1.cur, fun.entry))
      cont == Newest(s2)
      s3   == AddSuccessor(s2, fun.exit, cont)
  IN [st |-> At(AddHere(s3, Jump(cont)), cont), val |-> temp]

LowerExpression(st, t) ==
  CASE t.kind = "Token" -> [st |-> st, val |-> t.val]
    [] t.kind = "Factor" -> LowerExpression(st, t.child)
    [] t.kind = "FunctionCall" -> LowerFunctionCall(st, t)
    [] t.kind = "BinOp" ->
         LET l    == LowerExpression(st, t.left)
             r    == LowerExpression(l.st, t.right)
             temp == Temp(r.st.temps)
         IN [st  |-> AddHere([r.st EXCEPT !.temps = @ + 1],
                             Op3(OpcodeOf[t.op], temp, l.val, r.val)),
             val |-> temp]

-----------------------------------------------------------------------------
(* The visitors of statements; each returns st with cur moved to the block  *)
(* where the code after the statement goes.                                 *)

RECURSIVE BuildCFG(_, _)

DeclareOp(st) == IF st.exits # <<>> THEN "DECLARE_LOCAL" ELSE "DECLARE_GLOBAL"

DeclBlock(st, t) == AddHere(st, Op1(DeclareOp(st), Id(t.name)))

AssignmentBlock(st, t) ==
  LET e == LowerExpression(st, t.exp)
  IN AddHere(e.st, Op2("ASSIGN", Id(t.name), e.val))

DeclAssignmentBlock(st, t) == AssignmentBlock(DeclBlock(st, t), t)

(* return without a value is "break", which the lexer never recognises.     *)
ReturnBlock(st, t) ==
  LET e    == LowerExpression(st, t.exp)
      exit == Head(e.st.exits)
  IN AddSuccessor(AddHere(e.st, Return(e.val, exit)), e.st.cur, exit)

PrintIntBlock(st, t) ==
  LET e == LowerExpression(st, t.exp) IN AddHere(e.st, Op1("PRINT_INT", e.val))

PrintBlock(st, t)   == AddHere(st, Op1("PRINT", Lit(t.string)))
GetBlock(st, t)     == AddHere(st, Op1("GET_INT", Id(t.name)))
GetDeclBlock(st, t) == GetBlock(DeclBlock(st, t), t)

(* Every branching statement adds its edges before it lowers its condition, *)
(* at the block that is current then; the CBR goes to the block the         *)
(* condition leaves current.                                                *)
Condition_swapped(st, at, t, then, else) ==
  LET e == LowerExpression(At(st, at), t.cond)
  IN AddHere(e.st, Branch(e.val, else, then))
Condition(st, at, t, then, else) ==
  LET e == LowerExpression(At(st, at), t.cond)
  IN AddHere(e.st, Branch(e.val, then, else))

(* Lower a sub-statement into a block of its own, the newest one.           *)
InNewBlock(st, t) == LET s == NewBlock(st) IN BuildCFG(At(s, Newest(s)), t)

IfBlock(st, t) ==
  LET then  == Newest(st) + 1
      body  == InNewBlock(st, t.then)
      s1    == NewBlock(body)
      merge == Newest(s1)
      s2    == AddSuccessor(AddSuccessor(AddSuccessor(s1,
                 st.cur, then), st.cur, merge), body.cur, merge)
      s3    == Condition(s2, st.cur, t, then, merge)
  IN At(Add(s3, body.cur, Jump(merge)), merge)

IfElseBlock(st, t) ==
  LET then  == Newest(st) + 1
      s1    == InNewBlock(st, t.then)
      else  == Newest(s1) + 1
      s2    == InNewBlock(s1, t.else)
      s3    == NewBlock(s2)
      merge == Newest(s3)
      s4    == AddSuccessor(AddSuccessor(AddSuccessor(AddSuccessor(s3,
                 st.cur, then), st.cur, else), s1.cur, merge), s2.cur, merge)
      s5    == Condition(s4, st.cur, t, then, else)
  IN At(Add(Add(s5, s1.cur, Jump(merge)), s2.cur, Jump(merge)), merge)

(* addSuccessor(current, b) and the jump there. *)
GoTo(st, a, b) == Add(AddSuccessor(st, a, b), a, Jump(b))

(* The condition is lowered last; the jump back goes to the block it left   *)
(* current, which the pointer loopHeader then names: past a call the        *)
(* condition makes.                                                         *)
LoopEnd_to_body(st, header, t, body, exit, from) ==
  LET s == Condition(st, header, t, body, exit)
  IN At(Add(s, from, Jump(body)), exit)
LoopEnd(st, header, t, body, exit, from) ==
  LET s == Condition(st, header, t, body, exit)
  IN At(Add(s, from, Jump(s.cur)), exit)

WhileBlock(st, t) ==
  LET s1     == NewBlock(st)
      header == Newest(s1)
      s2     == GoTo(s1, st.cur, header)
      body   == Newest(s2) + 1
      s3     == InNewBlock(s2, t.body)
      s4     == AddSuccessor(AddSuccessor(s3, header, body), s3.cur, header)
      s5     == NewBlock(s4)
      exit   == Newest(s5)
  IN LoopEnd(AddSuccessor(s5, header, exit), header, t, body, exit, s3.cur)

DoWhileBlock(st, t) ==
  LET body   == Newest(st) + 1
      s1     == InNewBlock(st, t.body)
      s2     == NewBlock(GoTo(s1, st.cur, body))
      header == Newest(s2)
      s3     == AddSuccessor(AddSuccessor(s2, s1.cur, header), header, body)
      s4     == NewBlock(s3)
      exit   == Newest(s4)
  IN LoopEnd(AddSuccessor(s4, header, exit), header, t, body, exit, s1.cur)

ForBlock(st, t) == WhileBlock(BuildCFG(st, t.init), t)

(* changeBlock is where the change ends: the body goes there, past a call   *)
(* the change makes.                                                        *)
ForChangeBlock(st, t) ==
  LET s0     == BuildCFG(st, t.init)
      s1     == NewBlock(s0)
      header == Newest(s1)
      s2     == GoTo(s1, s0.cur, header)
      body   == Newest(s2) + 1
      s3     == InNewBlock(s2, t.body)
      s4     == InNewBlock(s3, t.change)
      change == s4.cur
      s5     == NewBlock(AddSuccessor(AddSuccessor(AddSuccessor(s4,
                  header, body), s3.cur, change), change, header))
      exit   == Newest(s5)
      s6     == Condition(AddSuccessor(s5, header, exit), header, t, body, exit)
  IN At(Add(Add(s6, s3.cur, Jump(change)), change, Jump(s6.cur)), exit)

(* buildFunctionCFG: the function is in the table before its body is        *)
(* lowered, so the body may call it.                                        *)
FunctionBlock(st, t) ==
  LET s1    == NewBlock(st)
      entry == Newest(s1)
      ins   == <<Op1("FUNC_START", Id(t.name))>>
                 \o [i \in 1 .. Len(t.params) |->
                       Op2("PARAMETER", Null, Id(t.params[i]))]
      s2    == NewBlock([s1 EXCEPT !.blocks[entry].code = ins])
      exit  == Newest(s2)
      s3    == [s2 EXCEPT !.funs = (t.name :> [entry |-> entry, exit |-> exit]) @@ @,
                          !.exits = <<exit>> \o @]
      s4    == BuildCFG(At(s3, entry), t.body)
      s5    == GoTo(s4, s4.cur, exit)
      s6    == Add(s5, exit, Op1("FUNC_END", Id(t.name)))
  IN At([s6 EXCEPT !.exits = Tail(@)], st.cur)

CallBlock(st, t) == LowerFunctionCall(st, t).st

(* statements_block: one after the other. *)
StatementsBlock(st, t) == FoldLeft(LAMBDA s, c : BuildCFG(s, c), st, t.children)

BuildCFG(st, t) ==
  CASE t.kind = "Statements"   -> StatementsBlock(st, t)
    [] t.kind = "DeclAssign"   -> DeclAssignmentBlock(st, t)
    [] t.kind = "Assign"       -> AssignmentBlock(st, t)
    [] t.kind = "Decl"         -> DeclBlock(st, t)
    [] t.kind = "If"           -> IfBlock(st, t)
    [] t.kind = "IfElse"       -> IfElseBlock(st, t)
    [] t.kind = "While"        -> WhileBlock(st, t)
    [] t.kind = "DoWhile"      -> DoWhileBlock(st, t)
    [] t.kind = "For"          -> ForBlock(st, t)
    [] t.kind = "ForChange"    -> ForChangeBlock(st, t)
    [] t.kind = "Function"     -> FunctionBlock(st, t)
    [] t.kind = "Return"       -> ReturnBlock(st, t)
    [] t.kind = "FunctionCall" -> CallBlock(st, t)
    [] t.kind = "Print"        -> PrintBlock(st, t)
    [] t.kind = "PrintInt"     -> PrintIntBlock(st, t)
    [] t.kind = "Get"          -> GetBlock(st, t)
    [] t.kind = "GetDecl"      -> GetDeclBlock(st, t)

(* mainCFG: the main block starts with GLOBAL_TEMP_SPACE, the last block    *)
(* ends with END; last is the id number_of_blocks is computed from.         *)
MainCFG(t) ==
  LET s0   == NewBlock([blocks |-> <<>>, cur |-> 1, temps |-> 0,
                        funs |-> <<>>, exits |-> <<>>])
      s1   == BuildCFG(AddHere(s0, Base("GLOBAL_TEMP_SPACE")), t)
      s2   == AddHere(s1, Base("END"))
  IN [entry |-> 1, last |-> s2.cur, blocks |-> s2.blocks]

=============================================================================
