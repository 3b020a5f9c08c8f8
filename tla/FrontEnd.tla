------------------------------- MODULE FrontEnd --------------------------------
(***************************************************************************)
(* ParserTables and Parser together, as main and compile call them: the     *)
(* tables are made, then a program is parsed with them.  What comes out is  *)
(* compared with the grammar.                                               *)
(***************************************************************************)
EXTENDS ParserTables, Parser

CONSTANTS Inputs(_)     \* the sequences of token types to be parsed with a grammar

vars == <<generatorVars, parserVars>>

(* The two ends are added by insert_eof_token (Lexer.c:87). *)
Queued(types) ==
    LET ended == types \o <<"$", "$">>
    IN  [i \in 1..Len(ended) |-> [type |-> ended[i], at |-> i]]

(* The end of the program is not a token of it (TOKEN_EOF, Lexer.c:87). *)
ASSUME InputsAssumption ==
    \A g \in Grammars : \A types \in Inputs(Append(g, StartRule)) :
        types \in Seq(STRING) /\ "$" \notin ToSet(types)

Init == TablesInit /\ ParserInit /\ tokens = <<>>

MakeTables == TablesNext /\ UNCHANGED parserVars

tokenize ==
    /\ stage = "ready" /\ tokens = <<>>
    /\ \E types \in Inputs(rules) : tokens' = Queued(types)
    /\ UNCHANGED <<generatorVars, taken, stack, nodes, action, phase, root, failed, history>>

commit_parser == ParserNext /\ UNCHANGED generatorVars

Next == MakeTables \/ tokenize \/ commit_parser

Spec == Init /\ [][Next]_vars

(* Nothing keeps the loop of the parser from running on. *)
FairSpec == Spec /\ WF_vars(commit_parser)

-----------------------------------------------------------------------------
(* The tables *)

(* FOLLOW is right when the rounds end, although a round does not notice   *)
(* every change it makes (ParserTableFollow.c:33): nothing a rule still    *)
(* had to hand on is missing, and nothing else is in.                      *)
FollowExact == stage = "transitions" /\ at = 1 => follow = FollowOf

(* The states are the canonical collection: the first is the closure of    *)
(* the start, every step from one of them leads to exactly one of them,    *)
(* and each is reached by a step.                                          *)
StatesCanonical ==
    stage = "transitions" /\ at = 1 =>
        LET first == Firsts
            Steps == UNION {{<<s, ClosureOf(Moved(s, get_next_symbol(i)), first)>> :
                                i \in Open(s)} : s \in 1..Len(states)}
            ToNew == {step \in Steps : \A s \in 1..step[1] : ItemsOf(s) # step[2]}
        IN  /\ ItemsOf(1) = ClosureOf({<<Len(rules), 0>>}, first)
            /\ Cardinality({ToSet(s) : s \in ToSet(states)}) = Len(states)
            /\ {step[2] : step \in Steps} \subseteq {ToSet(s) : s \in ToSet(states)}
            /\ {ItemsOf(n) : n \in 2..Len(states)} \subseteq {step[2] : step \in ToNew}

(* What a cell may hold is what its state's items call for; a cell of two  *)
(* minds shifts; and a cell nothing calls for is an error.  A step through *)
(* a nonterminal is in gotoTable.                                          *)
Reduced(s, t) ==
    {i[1] : i \in {j \in ItemsOf(s) : /\ at_end_of_content(j)
                                      /\ rules[j[1]].left # "START'"
                                      /\ t \in follow[rules[j[1]].left]}}
CellsJustified ==
    stage = "ready" /\ tokens = <<>> =>
        LET first == Firsts
            Leads(s, X, n) ==
                n \in 1..Len(states) /\ ItemsOf(n) = ClosureOf(Moved(s, X), first)
        IN  \A s \in 1..Len(states) :
                /\ \A t \in ToSet(terminals) :
                       LET cell == actionTable[s][t]
                           accepts == t = "$" /\ <<Len(rules), 2>> \in ItemsOf(s)
                           shifts == Moved(s, t) # {}
                       IN  /\ cell.type = "accept" <=> accepts
                           /\ cell.type = "shift" <=> shifts /\ ~accepts
                           /\ cell.type = "shift" => Leads(s, t, cell.value)
                           /\ cell.type = "reduce" => cell.value \in Reduced(s, t)
                           /\ cell.type = "error" => Reduced(s, t) = {}
                /\ \A A \in nonterminal_list :
                       LET n == gotoTable[s][A]
                       IN  IF Moved(s, A) = {} THEN n = Missing ELSE Leads(s, A, n)

(* The tables are what the proof about the parser takes them to be. *)
TablesFitParser == stage = "ready" /\ tokens = <<>> => TablesConsistent

-----------------------------------------------------------------------------
(* The parser *)

(* Step n of the derivation is a token, or a rule applied to earlier steps  *)
(* that stand side by side.  The tree of a rule is the node of its symbol   *)
(* with their trees in their order; that of a rule with one symbol is left  *)
(* out.                                                                     *)
IsToken(n) ==
    LET step == derivation[n]
    IN  step.to \in 1..Len(tokens) /\ step = Leaf(step.to)

IsReduction(n) ==
    LET step == derivation[n]
        part(i) == derivation[step.parts[i]]
        last == Len(step.parts)
    IN  /\ \E r \in RulesOf(step.symbol) :
               /\ Len(rules[r].right) = last
               /\ \A i \in 1..last :
                      step.parts[i] \in 1..n - 1 /\ part(i).symbol = rules[r].right[i]
        /\ step.from = part(1).from /\ step.to = part(last).to
        /\ \A i \in 2..last : part(i).from = part(i - 1).to
        /\ step.tree = IF last = 1 THEN part(1).tree
                       ELSE create_nonterminal_node(step.symbol,
                                [i \in 1..last |-> part(i).tree])

(* A program is accepted with a tree that is derived from just it, from its *)
(* first token to its last: no token is lost, doubled or moved by popping   *)
(* and collapsing.  Without a tree it is reported.  The tokens do not run   *)
(* out on the way.                                                          *)
AcceptedIsDerived ==
    /\ phase = "loop" => taken < Len(tokens)
    /\ phase = "done" =>
           IF failed THEN root = NoTree
           ELSE /\ \A n \in 1..Len(derivation) : IsToken(n) \/ IsReduction(n)
                /\ \E n \in 1..Len(derivation) :
                       LET step == derivation[n]
                       IN  /\ step.symbol = "PROGRAM" /\ step.tree = root
                           /\ step.from = 0 /\ step.to = Len(tokens) - 2

(* Every program gets an end: the loop has no end of its own, and would go *)
(* on forever on tables that reduce in a circle.                           *)
Answered == tokens # <<>> ~> phase \in {"done", "crashed"}
=============================================================================
