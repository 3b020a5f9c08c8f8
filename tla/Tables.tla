-------------------------------- MODULE Tables ---------------------------------
(***************************************************************************)
(* What the generator of the tables leaves for the parser, as ParserTables *)
(* makes it and Parser uses it: the rules of the grammar, the terminals,   *)
(* and the action and goto tables, whose rows are the states.  A state is  *)
(* the sequence of its items <<rule, dot>>; the parser itself never looks  *)
(* at them, they say what the state means.                                 *)
(***************************************************************************)
EXTENDS Integers, Sequences

VARIABLES rules, states, terminals, actionTable, gotoTable

tableVars == <<rules, states, terminals, actionTable, gotoTable>>

Missing == 0        \* -1 in gotoTable; states are counted from 1 here

ItemsOf(s) == {states[s][i] : i \in 1..Len(states[s])}
=============================================================================
