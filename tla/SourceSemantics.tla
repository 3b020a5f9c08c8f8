--------------------------- MODULE SourceSemantics ---------------------------
(***************************************************************************)
(* What a program of the source language does, by its syntax tree: the      *)
(* reference the compiled code is compared with.  Expressions are evaluated *)
(* from left to right, statements in order, and a name stands for the       *)
(* variable the semantic analysis resolves it to (programs have unique      *)
(* names, so one in the innermost call or a global one).                    *)
(*                                                                         *)
(* s is the state of the execution: out is what it has printed, val the     *)
(* value of the last expression, and fuel bounds the statements and calls   *)
(* executed: at zero nothing happens any more.                              *)
(***************************************************************************)
EXTENDS Integers, Sequences, SequencesExt

Number == [c \in {"0", "1", "2", "3", "true", "false"} |->
             CASE c \in {"0", "false"} -> 0 [] c \in {"1", "true"} -> 1
               [] c = "2" -> 2 [] c = "3" -> 3]

Unset == 99          \* what a variable holds that nobody gave a value

Flag(b) == IF b THEN 1 ELSE 0

Applied(o, l, r) ==
  CASE o = "+"  -> l + r          [] o = "-"  -> l - r
    [] o = "*"  -> l * r          [] o = "/"  -> l \div r
    [] o = "%"  -> l % r          [] o = "<"  -> Flag(l < r)
    [] o = "<=" -> Flag(l <= r)   [] o = ">"  -> Flag(l > r)
    [] o = ">=" -> Flag(l >= r)   [] o = "==" -> Flag(l = r)
    [] o = "!=" -> Flag(l # r)    [] o = "&&" -> Flag(l = 1 /\ r = 1)
    [] o = "||" -> Flag(l = 1 \/ r = 1)

Stopped(s) == s.fuel = 0 \/ s.returned # <<>>

Local(s, n)  == s.calls # <<>> /\ n \in DOMAIN Head(s.calls)
Lookup(s, n) == IF Local(s, n) THEN Head(s.calls)[n] ELSE s.globals[n]

SetLocal(s, n, v)  == [s EXCEPT !.calls = <<(n :> v) @@ Head(@)>> \o Tail(@)]
SetGlobal(s, n, v) == [s EXCEPT !.globals = (n :> v) @@ @]
Set(s, n, v)     == IF Local(s, n) THEN SetLocal(s, n, v) ELSE SetGlobal(s, n, v)
Declare(s, n, v) == IF s.calls # <<>> THEN SetLocal(s, n, v) ELSE SetGlobal(s, n, v)

Printed(s, item) == [s EXCEPT !.out = Append(@, item)]
Input(s, given)  == given[s.reads + 1]
Consumed(s)      == [s EXCEPT !.reads = @ + 1]

Expression == {"Token", "Factor", "BinOp"}      \* what takes no fuel

Repeat(c, b)      == [kind |-> "While", cond |-> c, body |-> b]
InOrder(trees)    == [kind |-> "Statements", children |-> trees]
Yields(s, v)      == [s EXCEPT !.val = v]
Fuelled(s, t)     == IF t.kind \in Expression THEN s ELSE [s EXCEPT !.fuel = @ - 1]
Entered(s, scope) == [s EXCEPT !.calls = <<scope>> \o @]
Left(s)           == [s EXCEPT !.calls = Tail(@), !.returned = <<>>,
                               !.val = IF s.returned = <<>> THEN Unset ELSE Head(s.returned)]

(* The expressions t evaluates before it does anything else. *)
EvaluatedFirst(t) ==
  CASE t.kind = "BinOp"                       -> <<t.left, t.right>>
    [] t.kind = "FunctionCall"                -> t.args
    [] t.kind \in {"If", "IfElse", "While"}   -> <<t.cond>>
    [] "exp" \in DOMAIN t                     -> <<t.exp>>
    [] OTHER                                  -> <<>>

(* The state after the expression or statement t, begun in state s.         *)
RECURSIVE After(_, _, _)

After(s0, t, given) ==
  LET s        == Fuelled(s0, t)
      Do(r, u) == IF Stopped(r) THEN r ELSE After(r, u, given)
      (* One after the other, with the values they had. *)
      args     == FoldLeft(LAMBDA r, u : LET e == Do(r.s, u)
                                         IN [s |-> e, vals |-> Append(r.vals, e.val)],
                           [s |-> s, vals |-> <<>>],
                           EvaluatedFirst(t))
      e        == args.s
      val      == Head(args.vals)
      called   == e.funs[t.name]
      scope    == [n \in ToSet(called.params) |->
                     args.vals[CHOOSE i \in DOMAIN called.params : called.params[i] = n]]
  IN IF Stopped(e) THEN e ELSE
     CASE t.kind = "Token" ->
            Yields(s, IF "id" \in DOMAIN t.val THEN Lookup(s, t.val.id) ELSE Number[t.val.lit])
       [] t.kind = "Factor" -> Do(s, t.child)
       [] t.kind = "BinOp" -> Yields(e, Applied(t.op, args.vals[1], args.vals[2]))
       [] t.kind = "FunctionCall" -> Left(Do(Entered(e, scope), called.body))
       [] t.kind = "Statements" -> FoldLeft(Do, s, t.children)
       [] t.kind = "Decl"       -> Declare(s, t.name, Unset)
       [] t.kind = "DeclAssign" -> Declare(e, t.name, val)
       [] t.kind = "Assign"     -> Set(e, t.name, val)
       [] t.kind = "PrintInt"   -> Printed(e, [int |-> val])
       [] t.kind = "Print"      -> Printed(s, [str |-> t.string])
       [] t.kind = "Get"        -> Consumed(Set(s, t.name, Input(s, given)))
       [] t.kind = "GetDecl"    -> Consumed(Declare(s, t.name, Input(s, given)))
       [] t.kind = "If"         -> IF val = 1 THEN Do(e, t.then) ELSE e
       [] t.kind = "IfElse"     -> Do(e, IF val = 1 THEN t.then ELSE t.else)
       [] t.kind = "While"      -> IF val = 1 THEN Do(Do(e, t.body), t) ELSE e
       [] t.kind = "DoWhile"    -> Do(Do(s, t.body), Repeat(t.cond, t.body))
       [] t.kind = "For"        -> Do(Do(s, t.init), Repeat(t.cond, t.body))
       [] t.kind = "ForChange"  ->
            Do(Do(s, t.init), Repeat(t.cond, InOrder(<<t.body, t.change>>)))
       [] t.kind = "Function"   ->
            [s EXCEPT !.funs = (t.name :> [params |-> t.params, body |-> t.body]) @@ @]
       [] t.kind = "Return"     -> [e EXCEPT !.returned = <<val>>]

Empty == [n \in {} |-> Unset]

(* What the program prints with this input and fuel, and whether it ends.   *)
Behaviour(t, given, fuel) ==
  LET s == After([globals |-> Empty, calls |-> <<>>, funs |-> <<>>, out |-> <<>>,
                  reads |-> 0, fuel |-> fuel, returned |-> <<>>, val |-> Unset], t, given)
  IN [out |-> s.out, ends |-> s.fuel # 0]

=============================================================================
