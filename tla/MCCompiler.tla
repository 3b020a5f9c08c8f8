----------------------------- MODULE MCCompiler -----------------------------
(***************************************************************************)
(* Instances of Compiler: IRLowering is the front end, SourceSemantics says *)
(* what a program means, and the programs are those of Trees.               *)
(***************************************************************************)
EXTENDS Compiler, Trees, SourceSemantics

MaxBlocks == 16      \* no program of Trees has more blocks ...
MaxTemps  == 8       \* ... or temporaries
Fuel      == 200     \* statements SourceSemantics executes

MCBlock    == 1 .. MaxBlocks
MCName     == {Id(i) : i \in {"x", "y", "z", "n", "k", "f", "g"}} \cup {Temp(n) : n \in 0 .. MaxTemps}
MCLiteral  == {Lit(c) : c \in {"0", "1", "2", "3", "true", "s"}} \cup {Null}

Graph(m) ==
  LET used == 1 .. Len(m.blocks)
  IN [entry |-> m.entry,
      code  |-> [b \in MCBlock |-> IF b \in used THEN m.blocks[b].code ELSE <<>>],
      succ  |-> [b \in MCBlock |-> IF b \in used THEN m.blocks[b].succ ELSE <<>>],
      pred  |-> [b \in MCBlock |-> IF b \in used THEN m.blocks[b].pred ELSE <<>>]]

MCLiteralNumber(v) == IF v = Null THEN Unset ELSE Number[v.lit]
MCOperation(op, l, r) ==
  Applied(CHOOSE o \in DOMAIN OpcodeOf : OpcodeOf[o] = op, l, r)

(* The first numbers a program reads, 0, 1, 2, ... or 2, 2, 2, ... *)
MCGiven == {[i \in 1 .. Fuel |-> i - 1], [i \in 1 .. Fuel |-> 2]}

CallSites  == {[tree |-> t] : t \in {CallInCondition, CallInLoopCondition, CallInChange}}
Recursions == {[tree |-> LocalAcrossRecursion]}

(* The programs without "&" and without what the runs above are about: a    *)
(* call in a condition or in a change, and a recursive function's locals.   *)
MCSource ==
  {q \in ProgramNames : ~ \/ "e" \in DOMAIN q /\ q.e = 4
                          \/ "odd" \in DOMAIN q /\ q.odd = 1
                          \/ "tree" \in DOMAIN q}

MeaningOf(q) == [g \in MCGiven |-> Behaviour(Tree(q), g, Fuel)]

MCLowered  == LET graph(q) == Graph(MainCFG(Tree(q))) IN [q \in MCSource |-> graph(q)]
MCMeaning  == LET behaviour(q) == MeaningOf(q) IN [q \in MCSource |-> behaviour(q)]
MCPrograms == LET graphs == Range(MCLowered) IN graphs

CallLowered  == LET graph(q) == Graph(MainCFG(Tree(q))) IN [q \in CallSites |-> graph(q)]
CallMeaning  == LET behaviour(q) == MeaningOf(q) IN [q \in CallSites |-> behaviour(q)]
CallPrograms == LET graphs == Range(CallLowered) IN graphs

RecursionLowered  == LET graph(q) == Graph(MainCFG(Tree(q))) IN [q \in Recursions |-> graph(q)]
RecursionMeaning  == LET behaviour(q) == MeaningOf(q) IN [q \in Recursions |-> behaviour(q)]
RecursionPrograms == LET graphs == Range(RecursionLowered) IN graphs

=============================================================================
