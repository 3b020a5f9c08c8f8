------------------------------- MODULE Trees --------------------------------
(***************************************************************************)
(* Syntax trees for the instances: constructors for the nodes IRLowering    *)
(* understands, with the names of the grammar's nonterminals shortened, and *)
(* small programs made of them.  Everything here can be derived from the    *)
(* grammar and passes the semantic analysis: variables are declared before  *)
(* use and have unique names, functions are declared before they are        *)
(* called, and a function with a result returns one.                        *)
(***************************************************************************)
EXTENDS IRLowering

Var(x)         == [kind |-> "Token", val |-> Id(x)]
Num(c)         == [kind |-> "Token", val |-> Lit(c)]
Bin(o, l, r)   == [kind |-> "BinOp", op |-> o, left |-> l, right |-> r]
Paren(e)       == [kind |-> "Factor", child |-> e]
CallOf(f, a)   == [kind |-> "FunctionCall", name |-> f, args |-> a]

Seqn(c)        == [kind |-> "Statements", children |-> c]
Decl(x, e)     == [kind |-> "DeclAssign", name |-> x, exp |-> e]
DeclOnly(x)    == [kind |-> "Decl", name |-> x]
Assign(x, e)   == [kind |-> "Assign", name |-> x, exp |-> e]
PrintVal(e)    == [kind |-> "PrintInt", exp |-> e]
PrintStr(s)    == [kind |-> "Print", string |-> s]
Get(x)         == [kind |-> "Get", name |-> x]
GetDecl(x)     == [kind |-> "GetDecl", name |-> x]
If(c, t)       == [kind |-> "If", cond |-> c, then |-> t]
IfElse(c, t, e) == [kind |-> "IfElse", cond |-> c, then |-> t, else |-> e]
While(c, b)    == [kind |-> "While", cond |-> c, body |-> b]
DoWhile(c, b)  == [kind |-> "DoWhile", cond |-> c, body |-> b]
For(i, c, b)   == [kind |-> "For", init |-> i, cond |-> c, body |-> b]
ForChange(i, c, b, d) == [kind |-> "ForChange", init |-> i, cond |-> c, body |-> b, change |-> d]
Fun(f, ps, b)  == [kind |-> "Function", name |-> f, params |-> ps, body |-> b]
Ret(e)         == [kind |-> "Return", exp |-> e]

x == Var("x")
y == Var("y")

(* Statements on two variables: each use and definition a liveness pass has *)
(* to tell apart.                                                           *)
Simple == <<Assign("x", Num("1")), Assign("x", y), Assign("y", Bin("+", x, Num("1"))),
            PrintVal(x), Get("y")>>

Less == Bin("<", x, y)

Prologue == <<Decl("x", Num("0")), Decl("y", Num("1"))>>
Main(s)  == Seqn(Prologue \o s)

(* A branch or a loop around two statements. *)
Around(shape, a, b) ==
  CASE shape = "If"        -> If(Less, Seqn(<<a, b>>))
    [] shape = "IfElse"    -> IfElse(Less, a, b)
    [] shape = "While"     -> While(Less, Seqn(<<a, b>>))
    [] shape = "DoWhile"   -> DoWhile(Less, Seqn(<<a, b>>))
    [] shape = "ForChange" -> ForChange(Assign("x", Num("0")), Less, a, b)

Shapes == {"If", "IfElse", "While", "DoWhile", "ForChange"}

(* Functions on the global variables: f has a parameter and returns it or   *)
(* x, g has neither parameter nor result.                                   *)
FBodies == <<Assign("x", Var("n")), Assign("n", y), If(Bin("<", Var("n"), x), Ret(x)),
             Seqn(<<PrintVal(x), Assign("n", Num("2"))>>)>>
GBodies == <<Assign("y", x), PrintVal(CallOf("f", <<x>>)), CallOf("f", <<Num("1")>>),
             If(Less, CallOf("g", <<>>))>>
Callers == <<CallOf("f", <<y>>), CallOf("g", <<>>),
             Assign("y", Bin("+", CallOf("f", <<x>>), CallOf("f", <<y>>))),
             While(Bin("<", x, CallOf("f", <<y>>)), Assign("x", CallOf("f", <<x>>)))>>

WithFunctions(f, h, e) ==
  Main(<<Fun("f", <<"n">>, Seqn(<<f, Ret(Var("n"))>>)), Fun("g", <<>>, h), e, PrintVal(y)>>)

(* Operators mapComparisonOperator does not know, code after a return, the  *)
(* remaining statements, a variable that is only read from the console, and *)
(* one that carries nothing from one round of a loop to the next.           *)
Odd ==
  <<Main(<<If(Bin("&", Less, Num("true")), PrintVal(x))>>),
    Main(<<Fun("f", <<"n">>, Seqn(<<Ret(Var("n")), Assign("y", x), PrintVal(y)>>)),
           CallOf("f", <<x>>)>>),
    Main(<<For(Assign("x", Num("3")), Num("true"),
               Seqn(<<GetDecl("z"), Assign("x", Paren(Var("z"))), PrintStr("s")>>))>>),
    Main(<<DeclOnly("z"), Get("z")>>),
    Main(<<While(Bin("<", x, Num("3")), Seqn(<<Assign("y", Num("2")), Assign("x", y)>>))>>)>>

(* A call in a condition, of a function with an effect on a global variable *)
(* that is printed when the condition holds; a loop that ends when the call *)
(* in its condition says so; a call in the change of a for loop; and a      *)
(* recursive function with a local variable it needs after the call.        *)
CallInCondition ==
  Main(<<Fun("f", <<"n">>, Seqn(<<Assign("x", Num("3")), Ret(Var("n"))>>)),
         If(Bin("==", CallOf("f", <<y>>), Num("1")), PrintVal(x))>>)

CallInLoopCondition ==
  Main(<<Fun("f", <<"n">>, Ret(Var("n"))),
         While(Bin("<", CallOf("f", <<x>>), y), Seqn(<<PrintVal(x), Assign("x", y)>>))>>)

CallInChange ==
  Main(<<Fun("f", <<"n">>, Ret(Bin("+", Var("n"), Num("1")))),
         ForChange(Assign("x", Num("0")), Bin("<", x, Num("3")), PrintVal(x),
                   Assign("x", CallOf("f", <<x>>)))>>)

LocalAcrossRecursion ==
  Main(<<Fun("f", <<"n">>,
           Seqn(<<Decl("k", Num("0")),
                  If(Bin(">", Var("n"), Num("0")),
                     Seqn(<<Assign("k", Num("3")),
                            CallOf("f", <<Bin("-", Var("n"), Num("1"))>>),
                            PrintVal(Var("k"))>>)),
                  Ret(Var("n"))>>)),
         CallOf("f", <<y>>)>>)

(* The name of a program: its family and the parts it is made of.  Only an  *)
(* assignment can be the change of a for loop.                              *)
ProgramNames ==
  {q \in [shape : Shapes, a : DOMAIN Simple, b : DOMAIN Simple, v : {"x", "y"}] :
     q.shape = "ForChange" => Simple[q.b].kind = "Assign"}
    \cup [f : DOMAIN FBodies, g : DOMAIN GBodies, e : DOMAIN Callers]
    \cup [odd : DOMAIN Odd]
    \cup [tree : {CallInCondition, CallInLoopCondition, CallInChange, LocalAcrossRecursion}]

Tree(q) ==
  IF "shape" \in DOMAIN q
    THEN Main(<<Around(q.shape, Simple[q.a], Simple[q.b]), PrintVal(Var(q.v))>>)
    ELSE IF "odd" \in DOMAIN q THEN Odd[q.odd]
    ELSE IF "tree" \in DOMAIN q THEN q.tree
    ELSE WithFunctions(FBodies[q.f], GBodies[q.g], Callers[q.e])

=============================================================================
