----------------------------- MODULE ParserTables ------------------------------
(***************************************************************************)
(* create_parser_tables (src/SapirCompiler/ParserTableGenerator.c:18): from *)
(* the rules of the grammar to the action and goto tables of an SLR parser. *)
(* Every pass of its loops is an action.  Rules, items and states are known *)
(* by their position: an item is <<rule, dot>>, and a state is the sequence *)
(* of its items in the order in which they were added.  Hash sets are sets, *)
(* and columns are the symbols themselves.                                  *)
(***************************************************************************)
EXTENDS Tables, SequencesExt

CONSTANTS Grammars,     \* what add_rules may list: [left, right] records
          Nonterminal   \* the symbols that begin with a capital

StartRule == [left |-> "START'", right |-> <<"PROGRAM", "$">>]

(* What holds of the rules listed in add_rules: each is for a nonterminal  *)
(* and has at least one symbol; one has a terminal; the start and the end   *)
(* of the program are not in them.                                         *)
ASSUME GrammarsAssumption ==
    /\ \A g \in Grammars :
           /\ g \in Seq([left : STRING, right : Seq(STRING)])
           /\ \A r \in 1..Len(g) :
                  /\ g[r].left \in Nonterminal \ {"START'"} /\ g[r].right # <<>>
                  /\ \A i \in 1..Len(g[r].right) : g[r].right[i] \notin {"START'", "$"}
           /\ \E r \in 1..Len(g) :
                  \E i \in 1..Len(g[r].right) : g[r].right[i] \notin Nonterminal
    /\ {"START'", "PROGRAM"} \subseteq Nonterminal /\ "$" \notin Nonterminal

VARIABLES follow,       \* what may come behind each nonterminal
          stage,        \* the loop that runs
          at,           \* its index
          turn,         \* the index of the loop in it, over a state's symbols
          changed       \* of compute_follow

tables == <<rules, states, terminals, follow, actionTable, gotoTable>>
generatorVars == <<tables, stage, at, turn, changed>>

-----------------------------------------------------------------------------
(* ParserTablesHelper.c, ParserTableSymbols.c *)

isNonterminal(s) == s \in Nonterminal

nonterminal_list ==
    UNION {{rules[r].left} \cup {s \in ToSet(rules[r].right) : isNonterminal(s)} :
           r \in 1..Len(rules)}

RulesOf(A) == {r \in 1..Len(rules) : rules[r].left = A}

(* In the order in which they are popped: the last one first. *)
get_all_nonterminals_rule(A) ==
    LET all == RulesOf(A)
    IN  [n \in 1..Cardinality(all) |->
            CHOOSE r \in all : Cardinality({q \in all : q >= r}) = n]

at_end_of_content(item) == item[2] = Len(rules[item[1]].right)
get_next_symbol(item) == rules[item[1]].right[item[2] + 1]

(* A list in which every element is once. *)
add_if_doesnt_exist(list, e) == IF Contains(list, e) THEN list ELSE Append(list, e)

add_symbol(list, s) == IF isNonterminal(s) THEN list ELSE add_if_doesnt_exist(list, s)

add_symbols_in_content(list, content) ==
    LET added[i \in 0..Len(content)] ==
            IF i = 0 THEN list ELSE add_symbol(added[i - 1], content[i])
    IN  added[Len(content)]

-----------------------------------------------------------------------------
(* ParserTableStates.c *)

get_possible_transition_symbols(state) ==
    LET listed[i \in 0..Len(state)] ==
            IF i = 0 THEN <<>>
            ELSE IF at_end_of_content(state[i]) THEN listed[i - 1]
            ELSE add_if_doesnt_exist(listed[i - 1], get_next_symbol(state[i]))
    IN  listed[Len(state)]

(* No item twice. *)
add_nonterminal_rules_to_state(items, A) ==
    LET popped == get_all_nonterminals_rule(A)
        added[n \in 0..Len(popped)] ==
            IF n = 0 THEN <<>>
            ELSE IF Contains(items, <<popped[n], 0>>) THEN added[n - 1]
            ELSE Append(added[n - 1], <<popped[n], 0>>)
    IN  items \o added[Len(popped)]

(* Once through the list. *)
visit_items(items) ==
    LET symbols == get_possible_transition_symbols(items)
        visited[i \in 0..Len(symbols)] ==
            IF i = 0 THEN items
            ELSE IF isNonterminal(symbols[i])
            THEN add_nonterminal_rules_to_state(visited[i - 1], symbols[i])
            ELSE visited[i - 1]
    IN  visited[Len(symbols)]

(* The list grows while it is gone through: what is appended is gone        *)
(* through in the next round, in which the items before it add nothing.     *)
(* Every round but the last adds a rule that was not there.                 *)
closure(items) ==
    LET Items == Seq((1..Len(rules)) \X Nat)
        rounds[n \in 0..Len(rules)] ==
            IF n = 0 THEN [list \in Items |-> list]
            ELSE [list \in Items |->
                     LET longer == visit_items(list)
                     IN  IF longer = list THEN list ELSE rounds[n - 1][longer]]
    IN  rounds[Len(rules)][items]

has_transition_through(item, X) == ~at_end_of_content(item) /\ get_next_symbol(item) = X

moved_items(state, X) ==
    LET moved[i \in 0..Len(state)] ==
            IF i = 0 THEN <<>>
            ELSE IF has_transition_through(state[i], X)
            THEN Append(moved[i - 1], <<state[i][1], state[i][2] + 1>>)
            ELSE moved[i - 1]
    IN  moved[Len(state)]

goto_state(state, X) == closure(moved_items(state, X))

state_equals_ordered(s1, s2) == s1 = s2
state_equals_contained(s1, s2) == ToSet(s2) \subseteq ToSet(s1)
state_equals(s1, s2) == Len(s1) = Len(s2) /\ ToSet(s1) \subseteq ToSet(s2)

(* The first that is equal. *)
find_state(sts, s) ==
    LET equal == {i \in 1..Len(sts) : state_equals(sts[i], s)}
    IN  IF equal = {} THEN Missing ELSE CHOOSE i \in equal : \A j \in equal : i <= j

add_starting_rule ==
    /\ stage = "rules"
    /\ rules' = Append(rules, StartRule)
    /\ stage' = "start"
    /\ UNCHANGED <<states, terminals, follow, actionTable, gotoTable, at, turn, changed>>

init_starting_state ==
    /\ stage = "start"
    /\ states' = <<closure(<< <<Len(rules), 0>> >>)>>
    /\ stage' = "states"
    /\ UNCHANGED <<rules, terminals, follow, actionTable, gotoTable, at, turn, changed>>

create_a_new_state_for_single_transition ==
    /\ stage = "states" /\ at <= Len(states)
    /\ LET symbol_list == get_possible_transition_symbols(states[at])
           new == goto_state(states[at], symbol_list[turn])
       IN  /\ turn <= Len(symbol_list)
           /\ states' = IF new # <<>> /\ find_state(states, new) = Missing
                        THEN Append(states, new) ELSE states
    /\ turn' = turn + 1
    /\ UNCHANGED <<rules, terminals, follow, actionTable, gotoTable, stage, at, changed>>

create_transition_states_for_possible_transitions ==
    /\ stage = "states" /\ at <= Len(states)
    /\ turn > Len(get_possible_transition_symbols(states[at]))
    /\ at' = at + 1 /\ turn' = 1
    /\ UNCHANGED <<tables, stage, changed>>

symbols_init ==
    /\ stage = "states" /\ at > Len(states)
    /\ stage' = "symbols" /\ at' = 1
    /\ UNCHANGED <<tables, turn, changed>>

(* The terminals in the order of their first use; the first has column 0. *)
collect_symbols ==
    /\ stage = "symbols" /\ at <= Len(rules)
    /\ terminals' = add_symbols_in_content(terminals, rules[at].right)
    /\ at' = at + 1
    /\ UNCHANGED <<rules, states, follow, actionTable, gotoTable, stage, turn, changed>>

-----------------------------------------------------------------------------
(* ParserTableFollow.c *)

(* Rules that begin with a nonterminal give nothing. *)
first_symbols_shallow(s) ==
    IF isNonterminal(s) THEN {rules[r].right[1] : r \in RulesOf(s)} \ Nonterminal ELSE {s}

(* The recursion of add_symbol_as_follow through first symbols; it ends    *)
(* when no left recursive nonterminal follows another nonterminal.         *)
first_symbols(s) ==
    LET firsts[A \in Nonterminal] ==
            UNION {LET first == rules[r].right[1]
                   IN  IF isNonterminal(first) THEN firsts[first] ELSE {first}
                   : r \in RulesOf(A)}
    IN  IF isNonterminal(s) THEN firsts[s] ELSE {s}

(* Only a terminal that is new is reported, not those of a nonterminal.    *)
add_symbol_as_follow(f, A, s) ==
    [follow |-> [f.follow EXCEPT ![A] = @ \cup first_symbols(s)],
     changed |-> f.changed \/ (~isNonterminal(s) /\ s \notin f.follow[A])]

add_last_symbol_nonterminals_follow_unreported(f, left, last) ==
    IF isNonterminal(last)
    THEN [f EXCEPT !.follow[last] = @ \cup f.follow[left]]
    ELSE f

add_last_symbol_nonterminals_follow(f, left, last) ==
    IF isNonterminal(last)
    THEN [follow |-> [f.follow EXCEPT ![last] = @ \cup f.follow[left]],
          changed |-> f.changed \/ ~(f.follow[left] \subseteq f.follow[last])]
    ELSE f

(* From the last symbol of the rule to its first. *)
add_appropriate_follows(f, rule) ==
    LET last == Len(rule.right)
        before[i \in 0..last - 1] ==
            IF i = 0
            THEN add_last_symbol_nonterminals_follow(f, rule.left, rule.right[last])
            ELSE LET g == before[i - 1]
                     s == rule.right[last - i]
                 IN  IF isNonterminal(s)
                     THEN add_symbol_as_follow(g, s, rule.right[last - i + 1])
                     ELSE g
    IN  before[last - 1]

follow_init ==
    /\ stage = "symbols" /\ at > Len(rules)
    /\ follow' = [A \in nonterminal_list |-> IF A = "START'" THEN {"$"} ELSE {}]
    /\ stage' = "follow" /\ at' = 1 /\ changed' = FALSE
    /\ UNCHANGED <<rules, states, terminals, actionTable, gotoTable, turn>>

compute_follow ==
    /\ stage = "follow" /\ at <= Len(rules)
    /\ LET f == add_appropriate_follows([follow |-> follow, changed |-> changed], rules[at])
       IN  follow' = f.follow /\ changed' = f.changed
    /\ at' = at + 1
    /\ UNCHANGED <<rules, states, terminals, actionTable, gotoTable, stage, turn>>

(* The round is over; another one when something changed. *)
next_round_of_follow ==
    /\ stage = "follow" /\ at > Len(rules) /\ changed
    /\ at' = 1 /\ changed' = FALSE
    /\ UNCHANGED <<tables, stage, turn>>

-----------------------------------------------------------------------------
(* ParserTablesTables.c *)

ErrorCell == [type |-> "error", value |-> 0]

init_tables ==
    /\ stage = "follow" /\ at > Len(rules) /\ ~changed
    /\ actionTable' = [i \in 1..Len(states) |-> [t \in ToSet(terminals) |-> ErrorCell]]
    /\ gotoTable' = [i \in 1..Len(states) |-> [A \in nonterminal_list |-> Missing]]
    /\ stage' = "transitions" /\ at' = 1
    /\ UNCHANGED <<rules, states, terminals, follow, turn, changed>>

insert_state_transitions_into_table ==
    /\ stage = "transitions" /\ at <= Len(states)
    /\ LET symbols == ToSet(get_possible_transition_symbols(states[at]))
           from == find_state(states, states[at])
           to(X) == find_state(states, goto_state(states[at], X))
       IN  /\ actionTable' = [actionTable EXCEPT ![from] =
                  [t \in DOMAIN @ |-> IF t \in symbols /\ to(t) # Missing
                                      THEN [type |-> "shift", value |-> to(t)] ELSE @[t]]]
           /\ gotoTable' = [gotoTable EXCEPT ![from] =
                  [A \in DOMAIN @ |-> IF A \in symbols /\ to(A) # Missing
                                      THEN to(A) ELSE @[A]]]
    /\ at' = at + 1
    /\ UNCHANGED <<rules, states, terminals, follow, stage, turn, changed>>

begin_reduces ==
    /\ stage = "transitions" /\ at > Len(states)
    /\ stage' = "reduces" /\ at' = 1
    /\ UNCHANGED <<tables, turn, changed>>

make_reduce_from_state_overwrites(row, item) ==
    LET rule == rules[item[1]]
    IN  IF ~at_end_of_content(item) THEN row
        ELSE IF rule.left = "START'"
        THEN [row EXCEPT !["$"] = [type |-> "accept", value |-> 0]]
        ELSE [t \in DOMAIN row |-> IF t \in follow[rule.left]
                                   THEN [type |-> "reduce", value |-> item[1]] ELSE row[t]]

(* A cell that is taken already, by a shift or by an earlier item, stays;  *)
(* acceptance overwrites.                                                  *)
make_reduce_from_state(row, item) ==
    LET rule == rules[item[1]]
    IN  IF ~at_end_of_content(item) THEN row
        ELSE IF rule.left = "START'"
        THEN [row EXCEPT !["$"] = [type |-> "accept", value |-> 0]]
        ELSE [t \in DOMAIN row |->
                IF t \in follow[rule.left] /\ row[t].type = "error"
                THEN [type |-> "reduce", value |-> item[1]] ELSE row[t]]

(* Each item of the state, in their order. *)
make_reduces(row, state) ==
    LET made[j \in 0..Len(state)] ==
            IF j = 0 THEN row ELSE make_reduce_from_state(made[j - 1], state[j])
    IN  made[Len(state)]

build_reduces ==
    /\ stage = "reduces" /\ at <= Len(states)
    /\ actionTable' = [actionTable EXCEPT ![at] = make_reduces(@, states[at])]
    /\ at' = at + 1
    /\ UNCHANGED <<rules, states, terminals, follow, gotoTable, stage, turn, changed>>

tables_done ==
    /\ stage = "reduces" /\ at > Len(states)
    /\ stage' = "ready"
    /\ UNCHANGED <<tables, at, turn, changed>>

-----------------------------------------------------------------------------
TablesInit ==
    /\ rules \in Grammars
    /\ states = <<>> /\ terminals = <<>>
    /\ follow = <<>> /\ actionTable = <<>> /\ gotoTable = <<>>
    /\ stage = "rules" /\ at = 1 /\ turn = 1 /\ changed = FALSE

TablesNext ==
    \/ add_starting_rule \/ init_starting_state
    \/ create_a_new_state_for_single_transition
    \/ create_transition_states_for_possible_transitions
    \/ symbols_init \/ collect_symbols \/ follow_init
    \/ compute_follow \/ next_round_of_follow
    \/ init_tables \/ insert_state_transitions_into_table \/ begin_reduces
    \/ build_reduces \/ tables_done

-----------------------------------------------------------------------------
(* What the tables are to be, without the order of the loops. *)

Symbols == {"START'"} \cup UNION {ToSet(r.right) \cup {r.left} : r \in ToSet(rules)}

(* What can be reached from s by steps of the relation R. *)
Reach(R, s) ==
    LET within[n \in 0..Cardinality(R)] ==
            IF n = 0 THEN {s}
            ELSE LET W == within[n - 1] IN W \cup {p[2] : p \in {q \in R : q[1] \in W}}
    IN  within[Cardinality(R)]

(* The reflexive and transitive closure of a relation on the symbols. *)
Closure(R) == UNION {{<<s, t>> : t \in Reach(R, s)} : s \in Symbols}

(* <<A, s>>: something derived from A begins, or ends, with s. *)
FirstSteps(grammar) == {<<r.left, r.right[1]>> : r \in ToSet(grammar)}
Firsts == Closure(FirstSteps(rules))
Lasts == Closure({<<r.left, Last(r.right)>> : r \in ToSet(rules)})

(* No left recursive nonterminal stands behind another nonterminal: the    *)
(* recursion of add_symbol_as_follow ends.                                 *)
ASSUME FollowersAssumption ==
    \A g \in Grammars :
        LET steps == FirstSteps(Append(g, StartRule))
        IN  \A r \in 1..Len(g) : \A i \in 2..Len(g[r].right) :
                g[r].right[i - 1] \in Nonterminal =>
                    \A A \in Reach(steps, g[r].right[i]) :
                        \A p \in steps : p[1] = A => A \notin Reach(steps, p[2])

(* Two symbols that stand side by side in a rule. *)
Neighbours == UNION {{<<r.right[i], r.right[i + 1]>> : i \in 1..Len(r.right) - 1} :
                     r \in ToSet(rules)}

(* The terminals a derivation from START' can have right behind A. *)
FollowOf ==
    LET first == Firsts
        last == Lasts
        joined == Neighbours \cup {<<"START'", "$">>}
        behind(A) == {n[2] : n \in {m \in joined : <<m[1], A>> \in last}}
    IN  [A \in DOMAIN follow |->
            {f[2] : f \in {g \in first : g[1] \in behind(A)}} \ Nonterminal]

(* The items that complete a set of them, first being Firsts. *)
ClosureOf(kernel, first) ==
    kernel \cup
    {<<r, 0>> : r \in {q \in 1..Len(rules) :
        \E i \in kernel : /\ ~at_end_of_content(i)
                          /\ <<get_next_symbol(i), rules[q].left>> \in first}}

Open(s) == {i \in ItemsOf(s) : ~at_end_of_content(i)}
Moved(s, X) == {<<i[1], i[2] + 1>> : i \in {j \in Open(s) : get_next_symbol(j) = X}}
=============================================================================
