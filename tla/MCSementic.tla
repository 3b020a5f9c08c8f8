----------------------------- MODULE MCSementic -----------------------------
(***************************************************************************)
(* Walks of a few visits on two names.  All constructs together would leave *)
(* room for three; so a program is made of one family of constructs, and    *)
(* each family is walked as deep as its hazards need.                       *)
(***************************************************************************)
EXTENDS Sementic, TLC

CONSTANTS x, y
Renamings == Permutations(Names)

VARIABLE family

Families ==
  { [kinds |-> {"block", "if_statement", "if_else_statement", "while_statement",
                "do_while_statement", "for_statement", "for_change_statement",
                "decl", "decl_with_asign", "assign", "get_sementic"},
     types |-> {"INT"}, visits |-> 5],
    [kinds |-> Functions \cup Calls \cup {"block", "return_statement"},
     types |-> {}, visits |-> 5],
    [kinds |-> Expressions \cup {"decl", "decl_with_asign", "assign", "print_sem", "return_statement",
                                 "function_decl"},
     types |-> VariableTypes, visits |-> 3] }

MCInit == Init /\ family \in Families

MCNext ==
  /\ Next
  /\ visited' > visited => /\ visited' <= family.visits
                           /\ visits'[Len(visits')].kind \in family.kinds
                           /\ visits'[Len(visits')].type \in family.types \cup {"NONE"}
  /\ UNCHANGED family

MCSpec == MCInit /\ [][MCNext]_<<vars, family>>
=============================================================================
