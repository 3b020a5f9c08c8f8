-------------------------------- MODULE Parser ---------------------------------
(***************************************************************************)
(* commit_parser (src/SapirCompiler/Parser.c:210): the loop that calls the  *)
(* function of the current action until one of them stops it, with a stack  *)
(* of states and a stack of syntax tree nodes.                              *)
(*                                                                         *)
(* The tables are those of ParserTables; here they are any tables that      *)
(* agree with their states (TablesConsistent).  A token is its type, named  *)
(* like the terminal it stands for, and its place in the input, by which    *)
(* the leaves of the tree are told apart.  A node is [name, at, children].  *)
(***************************************************************************)
EXTENDS Tables

VARIABLES tokens,                       \* the queue, which is not consumed:
          taken,                        \* so many are dequeued
          stack,                        \* the stack of states, the top is the last
          nodes,                        \* the stack of nodes, likewise
          action,                       \* the next action
          phase,                        \* "start", "loop", "stopped", "done" or "crashed"
          root,                         \* what commit_parser returns
          failed,                       \* handle_parser_error was called
          symbols,                      \* history: what each node was reduced to,
          derivation,                   \* the steps of the derivation so far,
          made                          \* and the step that made each node

history == <<symbols, derivation, made>>
parserVars == <<tokens, taken, stack, nodes, action, phase, root, failed, history>>

NoTree == [name |-> "NULL", at |-> 0, children |-> <<>>]

-----------------------------------------------------------------------------
Top(s) == s[Len(s)]
Pop(s, n) == SubSeq(s, 1, Len(s) - n)
Latest(s, n) == SubSeq(s, Len(s) - n + 1, Len(s))

Terminal == {terminals[i] : i \in 1..Len(terminals)}

(* associationArray: the column of a token type; a type createAssociationMap *)
(* does not mention has 0, the column of the first terminal.               *)
associationArray(type) == IF type \in Terminal THEN type ELSE terminals[1]

queue_peek == tokens[taken + 1].type

get_next_action(state, type) == actionTable[state][associationArray(type)]

create_terminal_node(token) ==
    [name |-> token.type, at |-> token.at, children |-> <<>>]

create_nonterminal_node(nonterminal, children) ==
    [name |-> nonterminal, at |-> 0, children |-> children]

(* A step of a derivation: the tokens behind the first from, up to to, are  *)
(* derived from the symbol, by a rule from what the steps in parts derive.  *)
Leaf(n) ==
    [symbol |-> associationArray(tokens[n].type), parts |-> <<>>, from |-> n - 1, to |-> n,
     tree |-> create_terminal_node(tokens[n])]

Branch(left, parts, tree) ==
    [symbol |-> left, parts |-> parts, from |-> derivation[parts[1]].from, to |-> taken,
     tree |-> tree]

-----------------------------------------------------------------------------
init_parser_variables ==
    /\ phase = "start" /\ tokens # <<>>
    /\ stack' = <<1>> /\ nodes' = <<>>
    /\ symbols' = <<>> /\ derivation' = <<>> /\ made' = <<>>
    /\ action' = get_next_action(1, queue_peek)
    /\ phase' = "loop"
    /\ UNCHANGED <<tableVars, tokens, taken, root, failed>>

handle_shift ==
    /\ phase = "loop" /\ action.type = "shift"
    /\ stack' = Append(stack, action.value)
    /\ nodes' = Append(nodes, create_terminal_node(tokens[taken + 1]))
    /\ symbols' = Append(symbols, associationArray(queue_peek))
    /\ derivation' = Append(derivation, Leaf(taken + 1))
    /\ made' = Append(made, Len(derivation) + 1)
    /\ taken' = taken + 1
    /\ action' = get_next_action(action.value, tokens[taken + 2].type)
    /\ UNCHANGED <<tableVars, tokens, phase, root, failed>>

handle_reduce_as_popped ==
    /\ phase = "loop" /\ action.type = "reduce"
    /\ LET rule == rules[action.value]
           n == Len(rule.right)
       IN  /\ stack' = Pop(stack, n)
           /\ nodes' = IF n = 1 THEN nodes
                       ELSE Append(Pop(nodes, n),
                                create_nonterminal_node(rule.left,
                                    [i \in 1..n |-> nodes[Len(nodes) + 1 - i]]))
           /\ symbols' = Append(Pop(symbols, n), rule.left)
           /\ derivation' = Append(derivation,
                                Branch(rule.left, Latest(made, n), Top(nodes')))
           /\ made' = Append(Pop(made, n), Len(derivation) + 1)
           /\ action' = [type |-> "goto",
                         value |-> gotoTable[Top(stack')][rule.left]]
    /\ UNCHANGED <<tableVars, tokens, taken, phase, root, failed>>

(* A rule with one symbol only takes the state off: the node stays as it   *)
(* is.  Otherwise the latest nodes become the children of a new one.       *)
handle_reduce ==
    /\ phase = "loop" /\ action.type = "reduce"
    /\ LET rule == rules[action.value]
           n == Len(rule.right)
       IN  /\ stack' = Pop(stack, n)
           /\ nodes' = IF n = 1 THEN nodes
                       ELSE Append(Pop(nodes, n),
                                create_nonterminal_node(rule.left,
                                    Latest(nodes, n)))
           /\ symbols' = Append(Pop(symbols, n), rule.left)
           /\ derivation' = Append(derivation,
                                Branch(rule.left, Latest(made, n), Top(nodes')))
           /\ made' = Append(Pop(made, n), Len(derivation) + 1)
           /\ action' = [type |-> "goto",
                         value |-> gotoTable[Top(stack')][rule.left]]
    /\ UNCHANGED <<tableVars, tokens, taken, phase, root, failed>>

handle_goto ==
    /\ phase = "loop" /\ action.type = "goto" /\ action.value # Missing
    /\ stack' = Append(stack, action.value)
    /\ action' = get_next_action(action.value, queue_peek)
    /\ UNCHANGED <<tableVars, tokens, taken, nodes, history, phase, root, failed>>

handle_error_goes_on ==
    /\ phase = "loop"
    /\ action.type = "error" \/ (action.type = "goto" /\ action.value = Missing)
    /\ failed' = TRUE
    /\ UNCHANGED <<tableVars, tokens, taken, stack, nodes, history, action, phase, root>>

(* Also when there is no state to go to.  The report begins with the token *)
(* before, in the top node.  Without a node "START" stands for it, in a     *)
(* compound literal that ends with the else it is in (Parser.c:76) and is   *)
(* read behind it: what is found there is undefined, and may be a crash.    *)
handle_error ==
    /\ phase = "loop"
    /\ action.type = "error" \/ (action.type = "goto" /\ action.value = Missing)
    /\ \/ phase' = "stopped" /\ failed' = TRUE
       \/ nodes = <<>> /\ phase' = "crashed" /\ UNCHANGED failed
    /\ UNCHANGED <<tableVars, tokens, taken, stack, nodes, history, action, root>>

handle_accept ==
    /\ phase = "loop" /\ action.type = "accept"
    /\ phase' = "stopped"
    /\ UNCHANGED <<tableVars, tokens, taken, stack, nodes, history, action, root, failed>>

(* The end of the program is on top of the tree. *)
try_to_extract_main_root_from_stack ==
    /\ phase = "stopped"
    /\ IF action.type = "accept"
       THEN root' = nodes[Len(nodes) - 1] /\ nodes' = Pop(nodes, 2)
       ELSE UNCHANGED <<root, nodes>>
    /\ phase' = "done"
    /\ UNCHANGED <<tableVars, tokens, taken, stack, history, action, failed>>

-----------------------------------------------------------------------------
State == 1..Len(states)
Rule == 1..Len(rules)

(* Every rule that state n has begun has X before its dot, and state s has *)
(* it open there.                                                          *)
Continues(s, X, n) ==
    \A i \in ItemsOf(n) :
        i[2] > 0 => rules[i[1]].right[i[2]] = X /\ <<i[1], i[2] - 1>> \in ItemsOf(s)

(* What Parser relies on: in the first state no rule has begun, a step goes *)
(* on with the rules the state before it has open, and only a rule that is  *)
(* complete is reduced.                                                     *)
TablesConsistent ==
    /\ State # {} /\ Len(terminals) \in Nat \ {0}
    /\ \A r \in Rule : Len(rules[r].right) \in Nat \ {0}
    /\ \A s \in State : \A i \in ItemsOf(s) : i[2] \in Nat
    /\ \A i \in ItemsOf(1) : i[2] = 0
    /\ \A s \in State : \A t \in Terminal :
           LET cell == actionTable[s][t]
           IN  /\ cell.type # "goto"
               /\ cell.type = "shift" =>
                      cell.value \in State /\ Continues(s, t, cell.value)
               /\ cell.type = "reduce" =>
                      /\ cell.value \in Rule
                      /\ <<cell.value, Len(rules[cell.value].right)>> \in ItemsOf(s)
    /\ \A s \in State, r \in Rule :
           LET n == gotoTable[s][rules[r].left]
           IN  n # Missing => n \in State /\ Continues(s, rules[r].left, n)

ParserNext ==
    \/ init_parser_variables
    \/ handle_shift \/ handle_reduce \/ handle_goto
    \/ handle_error \/ handle_accept
    \/ try_to_extract_main_root_from_stack

ParserInit ==
    /\ taken = 0 /\ stack = <<>> /\ nodes = <<>>
    /\ symbols = <<>> /\ derivation = <<>> /\ made = <<>>
    /\ action = [type |-> "error", value |-> 0]
    /\ phase = "start" /\ root = NoTree /\ failed = FALSE

ParserSpec ==
    TablesConsistent /\ ParserInit /\ [][ParserNext]_<<tableVars, parserVars>>

-----------------------------------------------------------------------------
(* When a rule is reduced, the symbols on top of the stack are exactly its *)
(* right side: a state that was pushed is never asked about a stack it was *)
(* not made for, however states and nodes are popped.                      *)
StackSpells ==
    phase = "loop" /\ action.type = "reduce" =>
        LET right == rules[action.value].right
        IN  /\ Len(right) < Len(stack) /\ Len(right) <= Len(nodes)
            /\ \A k \in 1..Len(right) :
                   symbols[Len(symbols) - Len(right) + k] = right[k]

(* The report of an error finds the token before it, except when there is  *)
(* none: once a token is taken, reductions leave a node on the stack.      *)
CrashOnlyAtStart == phase = "crashed" => taken = 0
=============================================================================
