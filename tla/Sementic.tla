------------------------------ MODULE Sementic ------------------------------
(***************************************************************************)
(* The semantic analysis (Sementic.c) and its symbol table (SymbolTable.c). *)
(*                                                                          *)
(* accept walks the syntax tree with one visitor per nonterminal, opening   *)
(* and closing scopes, declaring and finding names and checking types on    *)
(* the way.  Here the tree is chosen while it is walked: visits is the C    *)
(* stack of visitors that are being executed, and a child to be visited is  *)
(* any construct the grammar allows there, so that the behaviours are the   *)
(* walks of all programs.  A visitor is the sequence of its steps.          *)
(*                                                                          *)
(* Lists the grammar makes of nested nodes (statements, parameters,         *)
(* arguments) are visited in the same order, as one list.  The visitor of   *)
(* 'break' is left out: the lexer makes an identifier of that word.  Names  *)
(* are identifiers that are not themselves names of nonterminals.           *)
(***************************************************************************)
EXTENDS Integers, Sequences

CONSTANTS Names,         \* identifiers of the source program
          Strings,       \* its string literals
          MaxVisits,     \* bound on the constructs visited
          MaxArguments   \* bound on the arguments of a call

CURRENT_FUNCTION_SYMBOL == "function"
NoName == "no_name"
Identifiers == Names \cup {CURRENT_FUNCTION_SYMBOL}

ASSUME NamesAssumption == CURRENT_FUNCTION_SYMBOL \notin Names /\ NoName \notin Identifiers
ASSUME BoundsAssumption == MaxVisits \in Nat /\ MaxArguments \in Nat

VariableTypes == {"INT", "BOOL"}
DataTypes == VariableTypes \cup {"NONE", "STRING", "UNKNOWN"}

VARIABLES
  visits,        \* the visitors being executed, the last one at work
  visited,       \* how many were started
  scopes,        \* table->scopes, the innermost last: name -> symbol, 0 for none
  symbols,       \* table->SymbolMap with the identifiers' infos, by names_id
  GlobalStrings, \* string literal -> id, -1 for none
  string_ids,
  error          \* current_error_state # NO_ERROR

vars == <<visits, visited, scopes, symbols, GlobalStrings, string_ids, error>>

-----------------------------------------------------------------------------
(* The steps of each visitor: what it does itself (lower case), and the     *)
(* children it accepts.  "Statements", "Parameters" and "Arguments" stand   *)
(* for any number of children, the others for one.                          *)
program               == <<"Statement", "Statements">>
block                 == <<"open", "Statements", "close">>
if_statement          == <<"open", "Condition", "Statement", "Statements", "close">>
if_else_statement     == <<"Condition", "open", "Statement", "Statements", "close",
                           "open", "Statement", "Statements", "close">>
while_statement_closes_twice ==
  <<"Condition", "open", "Statement", "close", "close">>
while_statement       == <<"Condition", "open", "Statement", "close">>
do_while_statement_unclosed == <<"open", "Statement", "Condition">>
do_while_statement    == <<"open", "Statement", "Condition", "close">>
for_statement         == <<"open", "Init", "Condition", "Statement", "Statements", "close">>
for_change_statement  == <<"open", "Init", "Condition", "Statement", "Statements", "Change", "close">>
function_decl         == <<"declare_function", "open", "declare_helper", "Parameter", "Parameters",
                           "publish", "Function_statement", "Function_statements", "close">>
function_decl_gets_nothing_helper_outside ==
  <<"declare_function", "declare_helper", "open", "publish",
    "Function_statement", "Function_statements", "close">>
function_decl_gets_nothing_published_late ==
  <<"declare_function", "open", "declare_helper",
    "Function_statement", "Function_statements", "publish", "close">>
function_decl_gets_nothing == <<"declare_function", "open", "declare_helper", "publish",
                                "Function_statement", "Function_statements", "close">>
function_call         == <<"find_function", "Argument", "Arguments">>
function_call_with_nothing == <<"find_function">>
return_statement      == <<"Expression">>
decl                  == <<"declare">>
decl_with_asign       == <<"declare", "Expression">>
assign                == <<"find", "Expression">>
get_sementic          == <<"find">>
get_decl_sementic     == <<"declare">>
print_sem             == <<"Printed">>
expression            == <<"Expression", "Expression">>   \* and term
factor                == <<"Expression">>
condition             == <<"Expression", "Expression">>
condition_list        == <<"Condition", "Condition">>

ir_visitor ==
  [program |-> program, block |-> block, if_statement |-> if_statement,
   if_else_statement |-> if_else_statement, while_statement |-> while_statement,
   do_while_statement |-> do_while_statement, for_statement |-> for_statement,
   for_change_statement |-> for_change_statement, function_decl |-> function_decl,
   function_decl_gets_nothing |-> function_decl_gets_nothing,
   function_call |-> function_call, function_call_with_nothing |-> function_call_with_nothing,
   return_statement |-> return_statement, decl |-> decl, decl_with_asign |-> decl_with_asign,
   assign |-> assign, get_sementic |-> get_sementic, get_decl_sementic |-> get_decl_sementic,
   print_sem |-> print_sem, expression |-> expression, factor |-> factor,
   condition |-> condition, condition_list |-> condition_list]

Kinds     == DOMAIN ir_visitor
Functions == {"function_decl", "function_decl_gets_nothing"}
Calls     == {"function_call", "function_call_with_nothing"}
InFunctions == Calls \cup
  {"block", "if_statement", "if_else_statement", "while_statement", "do_while_statement",
   "for_statement", "for_change_statement", "return_statement", "decl", "decl_with_asign",
   "assign", "get_sementic", "get_decl_sementic", "print_sem"}
Conditions  == Calls \cup {"condition", "condition_list"}
Expressions == Conditions \cup {"expression", "factor"}

(* What the grammar allows where a child is visited.                        *)
Allowed(step) ==
  CASE step \in {"Statement", "Statements"}                   -> InFunctions \cup Functions
    [] step \in {"Function_statement", "Function_statements"} -> InFunctions
    [] step = "Init"      -> {"decl_with_asign", "assign"}
    [] step = "Change"    -> {"assign"}
    [] step = "Condition" -> Conditions
    [] step \in {"Expression", "Printed", "Argument", "Arguments"} -> Expressions
    [] OTHER -> {}

Visiting == {"Statement", "Statements", "Function_statement", "Function_statements", "Init",
             "Change", "Condition", "Expression", "Printed", "Argument", "Arguments"}
Repeated == {"Statements", "Function_statements", "Parameters", "Arguments"}
Valued   == {"Condition", "Expression", "Printed", "Argument", "Arguments"}

Named == Functions \cup Calls \cup
  {"decl", "decl_with_asign", "assign", "get_sementic", "get_decl_sementic"}
NamesOf(kind) == IF kind \in Named THEN Names ELSE {NoName}
TypesOf(kind) ==   \* a function without a result has type NONE
  CASE kind \in Functions -> VariableTypes \cup {"NONE"}
    [] kind \in {"decl", "decl_with_asign", "get_decl_sementic"} -> VariableTypes
    [] OTHER -> {"NONE"}

-----------------------------------------------------------------------------
Top == visits[Len(visits)]
Step(v) == IF v.at \in DOMAIN ir_visitor[v.kind] THEN ir_visitor[v.kind][v.at] ELSE "leave"
At(step) == visits # <<>> /\ Step(Top) = step

(* base, the number of scopes when the visit started, is for the properties *)
Started(kind, n, t) ==
  [kind |-> kind, id |-> visited + 1, name |-> n, type |-> t, at |-> 1,
   symbol |-> 0, vals |-> <<>>, base |-> Len(scopes)]

Advanced(v)   == [v EXCEPT !.at = @ + 1]
Given(v, val) == [v EXCEPT !.at = IF Step(v) \in Repeated THEN @ ELSE @ + 1,
                           !.vals = IF Step(v) \in Valued THEN Append(@, val) ELSE @]
WithTop(v)    == [visits EXCEPT ![Len(visits)] = v]
Returned(val) == LET n == Len(visits) - 1
                 IN  [SubSeq(visits, 1, n) EXCEPT ![n] = Given(@, val)]

(* The symbol table.  The n-th symbol has the new name n ++ name; path, the *)
(* visits a declaration stands in, is for the properties.                   *)
scope_init == [n \in Identifiers |-> 0]
Scope == scopes[Len(scopes)]

Symbol(n, kind, t, path) ==
  [name |-> n, kind |-> kind, type |-> t, info |-> 0, params |-> <<>>, path |-> path]

CanAdd(n) == Scope[n] = 0
AddedTo(n) == [scopes EXCEPT ![Len(scopes)] = [@ EXCEPT ![n] = Len(symbols) + 1]]

symbol_table_lookup_symbol_outermost(n) ==
  LET declaring == {j \in 1..Len(scopes) : scopes[j][n] # 0}
  IN  IF declaring = {} THEN 0
      ELSE scopes[CHOOSE j \in declaring : \A i \in declaring : i >= j][n]
symbol_table_lookup_symbol(n) ==
  LET declaring == {j \in 1..Len(scopes) : scopes[j][n] # 0}
  IN  IF declaring = {} THEN 0
      ELSE scopes[CHOOSE j \in declaring : \A i \in declaring : i <= j][n]

Place(v) == [id |-> v.id, kind |-> v.kind, at |-> v.at]
Path(n)  == [i \in 1..n |-> Place(visits[i])]

(* Types. *)
compatible(left, right) == left = right \/ left = "UNKNOWN" \/ right = "UNKNOWN"
handle_incompatability_silent(left, right) ==
  [type |-> IF compatible(left, right) THEN left ELSE "UNKNOWN", error |-> FALSE]
handle_incompatability(left, right) ==
  IF compatible(left, right) THEN [type |-> left, error |-> FALSE]
                             ELSE [type |-> "UNKNOWN", error |-> TRUE]

-----------------------------------------------------------------------------
Places == [id : Nat, kind : Kinds, at : Nat]
Visits == [kind : Kinds, id : Nat, name : Names \cup {NoName}, type : DataTypes, at : Nat,
           symbol : Nat, vals : Seq(DataTypes), base : Nat]
Symbols == [name : Identifiers, kind : {"VARIABLE", "FUNCTION"}, type : DataTypes, info : Nat,
            params : Seq(VariableTypes), path : Seq(Places)]

(* The numbers of symbols in scopes, visits and infos are those of symbols. *)
TypeOK ==
  /\ visited \in Nat
  /\ visits \in Seq(Visits) /\ visits # <<>>
  /\ scopes \in Seq([Identifiers -> Nat]) /\ scopes # <<>>
  /\ symbols \in Seq(Symbols)
  /\ \A j \in 1..Len(scopes), n \in Identifiers : scopes[j][n] \in 0..Len(symbols)
  /\ \A i \in 1..Len(visits) : visits[i].symbol \in 0..Len(symbols)
  /\ \A s \in 1..Len(symbols) : symbols[s].info \in 0..Len(symbols)
  /\ GlobalStrings \in [Strings -> Int] /\ string_ids \in Nat
  /\ error \in BOOLEAN

Init ==
  /\ visits = <<[kind |-> "program", id |-> 0, name |-> NoName, type |-> "NONE", at |-> 1,
                 symbol |-> 0, vals |-> <<>>, base |-> 1]>>
  /\ visited = 0
  /\ scopes = <<scope_init>>
  /\ symbols = <<>>
  /\ GlobalStrings = [s \in Strings |-> -1]
  /\ string_ids = 0
  /\ error = FALSE

(* A visitor that cannot go on reports an error and returns. *)
Refuse ==
  /\ error' = TRUE
  /\ visits' = Returned("NONE")
  /\ UNCHANGED <<visited, scopes, symbols, GlobalStrings, string_ids>>

-----------------------------------------------------------------------------
(* Scopes. *)
symbol_table_add_scope ==
  /\ At("open")
  /\ scopes' = Append(scopes, scope_init)
  /\ visits' = WithTop(Advanced(Top))
  /\ UNCHANGED <<visited, symbols, GlobalStrings, string_ids, error>>

symbol_table_remove_scope ==
  /\ At("close")
  /\ scopes' = SubSeq(scopes, 1, Len(scopes) - 1)
  /\ visits' = WithTop(Advanced(Top))
  /\ UNCHANGED <<visited, symbols, GlobalStrings, string_ids, error>>

(* Declarations. *)
create_new_variable ==
  /\ At("declare")
  /\ IF CanAdd(Top.name)
       THEN /\ scopes' = AddedTo(Top.name)
            /\ symbols' = Append(symbols, Symbol(Top.name, "VARIABLE", Top.type,
                                                 Path(Len(visits) - 1)))
            /\ visits' = WithTop(Advanced(Top))
            /\ UNCHANGED <<visited, GlobalStrings, string_ids, error>>
       ELSE Refuse

DeclareFunction ==
  /\ At("declare_function")
  /\ IF CanAdd(Top.name)
       THEN /\ scopes' = AddedTo(Top.name)
            /\ symbols' = Append(symbols, Symbol(Top.name, "FUNCTION", Top.type,
                                                 Path(Len(visits) - 1)))
            /\ visits' = WithTop([Advanced(Top) EXCEPT !.symbol = Len(symbols) + 1])
            /\ UNCHANGED <<visited, GlobalStrings, string_ids, error>>
       ELSE Refuse

(* The function's scope begins with a copy of its info under the name       *)
(* CURRENT_FUNCTION_SYMBOL, which has the FunctionInfo.                      *)
DeclareHelper ==
  /\ At("declare_helper")
  /\ scopes' = AddedTo(CURRENT_FUNCTION_SYMBOL)
  /\ symbols' = Append(symbols, [Symbol(CURRENT_FUNCTION_SYMBOL, "FUNCTION", Top.type,
                                        Path(Len(visits))) EXCEPT !.info = Len(symbols) + 1])
  /\ visits' = WithTop(Advanced(Top))
  /\ UNCHANGED <<visited, GlobalStrings, string_ids, error>>

(* One parameter: a variable of the function's scope, and one more entry of *)
(* the FunctionInfo found under CURRENT_FUNCTION_SYMBOL.                     *)
parameter_records_duplicates ==
  /\ At("Parameter") \/ At("Parameters")
  /\ visits' = WithTop(Given(Top, "NONE"))
  /\ \E n \in Names, t \in VariableTypes :
       LET h        == symbol_table_lookup_symbol(CURRENT_FUNCTION_SYMBOL)
           recorded == [symbols EXCEPT ![symbols[h].info].params = Append(@, t)]
       IN  IF CanAdd(n)
             THEN /\ scopes' = AddedTo(n)
                  /\ symbols' = Append(recorded, Symbol(n, "VARIABLE", t, Path(Len(visits))))
                  /\ UNCHANGED error
             ELSE error' = TRUE /\ symbols' = recorded /\ UNCHANGED scopes
  /\ UNCHANGED <<visited, GlobalStrings, string_ids>>
parameter ==
  /\ At("Parameter") \/ At("Parameters")
  /\ visits' = WithTop(Given(Top, "NONE"))
  /\ \E n \in Names, t \in VariableTypes :
       IF CanAdd(n)
         THEN LET h == symbol_table_lookup_symbol(CURRENT_FUNCTION_SYMBOL) IN
              /\ scopes' = AddedTo(n)
              /\ symbols' = Append([symbols EXCEPT ![symbols[h].info].params = Append(@, t)],
                                   Symbol(n, "VARIABLE", t, Path(Len(visits))))
              /\ UNCHANGED error
         ELSE error' = TRUE /\ UNCHANGED <<scopes, symbols>>
  /\ UNCHANGED <<visited, GlobalStrings, string_ids>>

(* The declared function gets the FunctionInfo of its helper, whose number  *)
(* is the next one.                                                         *)
PublishParameters ==
  /\ At("publish")
  /\ symbols' = [symbols EXCEPT ![Top.symbol].info = symbols[Top.symbol + 1].info]
  /\ visits' = WithTop(Advanced(Top))
  /\ UNCHANGED <<visited, scopes, GlobalStrings, string_ids, error>>

-----------------------------------------------------------------------------
(* Where a value is expected; a call has room for MaxArguments of them.     *)
Expects(steps) ==
  /\ visits # <<>> /\ Step(Top) \in steps
  /\ Step(Top) = "Arguments" => Len(Top.vals) < MaxArguments

(* Uses of names. *)
FindVariable ==
  /\ At("find")
  /\ LET s == symbol_table_lookup_symbol(Top.name) IN
       IF s = 0 THEN Refuse
       ELSE /\ visits' = WithTop([Advanced(Top) EXCEPT !.symbol = s])
            /\ UNCHANGED <<visited, scopes, symbols, GlobalStrings, string_ids, error>>

FindFunction ==
  /\ At("find_function")
  /\ LET s == symbol_table_lookup_symbol(Top.name) IN
       IF s = 0 \/ (s # 0 /\ symbols[s].kind # "FUNCTION") THEN Refuse
       ELSE /\ visits' = WithTop([Advanced(Top) EXCEPT !.symbol = s])
            /\ UNCHANGED <<visited, scopes, symbols, GlobalStrings, string_ids, error>>

Identifier ==
  /\ Expects(Valued \ {"Condition"})
  /\ \E n \in Names :
       LET s == symbol_table_lookup_symbol(n) IN
       /\ visits' = WithTop(Given(Top, IF s = 0 THEN "UNKNOWN" ELSE symbols[s].type))
       /\ error' = (error \/ s = 0)
  /\ UNCHANGED <<visited, scopes, symbols, GlobalStrings, string_ids>>

(* A number; true, false, or a condition in parentheses, of which condition *)
(* looks at the two parentheses only.                                       *)
Literal ==
  /\ Expects(Valued)
  /\ \E t \in IF Step(Top) = "Condition" THEN {"BOOL"} ELSE VariableTypes :
       visits' = WithTop(Given(Top, t))
  /\ UNCHANGED <<visited, scopes, symbols, GlobalStrings, string_ids, error>>

(* print of a string literal, which gets a number even if it is known. *)
StringLiteral ==
  /\ At("Printed")
  /\ \E s \in Strings :
       GlobalStrings' = [GlobalStrings EXCEPT ![s] = IF @ = -1 THEN string_ids ELSE @]
  /\ string_ids' = string_ids + 1
  /\ visits' = WithTop(Given(Top, "STRING"))
  /\ UNCHANGED <<visited, scopes, symbols, error>>

-----------------------------------------------------------------------------
(* The walk. *)
accept ==
  /\ Expects(Visiting) /\ visited < MaxVisits
  /\ \E kind \in Allowed(Step(Top)) : \E n \in NamesOf(kind), t \in TypesOf(kind) :
       visits' = Append(visits, Started(kind, n, t))
  /\ visited' = visited + 1
  /\ UNCHANGED <<scopes, symbols, GlobalStrings, string_ids, error>>

EndOfList ==
  /\ visits # <<>> /\ Step(Top) \in Repeated
  /\ visits' = WithTop(Advanced(Top))
  /\ UNCHANGED <<visited, scopes, symbols, GlobalStrings, string_ids, error>>

(* Arguments are visited from the last to the first. *)
CheckArguments(v) ==
  LET params == symbols[symbols[v.symbol].info].params
      n      == Len(v.vals)
  IN  IF n # Len(params)
      THEN [type |-> IF v.kind = "function_call" THEN "UNKNOWN" ELSE symbols[v.symbol].type,
            error |-> TRUE]
      ELSE [type  |-> symbols[v.symbol].type,
            error |-> \E i \in 1..n : ~compatible(v.vals[n + 1 - i], params[i])]

CheckReturn(v) ==
  LET s == symbol_table_lookup_symbol(CURRENT_FUNCTION_SYMBOL)
  IN  IF s = 0 THEN [type |-> "UNKNOWN", error |-> TRUE]
      ELSE handle_incompatability(v.vals[1], symbols[s].type)

(* What a visitor checks when its children are done, and what it returns.   *)
Outcome(v) ==
  CASE v.kind = "expression"      -> handle_incompatability(v.vals[1], v.vals[2])
    [] v.kind = "factor"          -> [type |-> v.vals[1], error |-> FALSE]
    [] v.kind = "condition"       ->
         [type |-> "BOOL", error |-> ~compatible(v.vals[1], v.vals[2])]
    [] v.kind = "condition_list"  -> [type |-> "BOOL", error |-> FALSE]
    [] v.kind = "decl_with_asign" ->
         IF compatible(v.type, v.vals[1]) THEN [type |-> "NONE", error |-> FALSE]
                                          ELSE handle_incompatability(v.type, v.vals[1])
    [] v.kind = "assign"          -> handle_incompatability(symbols[v.symbol].type, v.vals[1])
    [] v.kind = "get_sementic"    ->
         [type |-> "NONE", error |-> symbols[v.symbol].type \notin {"INT", "UNKNOWN"}]
    [] v.kind = "get_decl_sementic" -> [type |-> "NONE", error |-> v.type # "INT"]
    [] v.kind = "print_sem"       ->
         [type |-> "NONE", error |-> v.vals[1] \notin {"INT", "STRING", "UNKNOWN"}]
    [] v.kind \in Calls           -> CheckArguments(v)
    [] v.kind = "return_statement" -> CheckReturn(v)
    [] OTHER                      -> [type |-> "NONE", error |-> FALSE]

Return ==
  /\ Len(visits) > 1 /\ At("leave")
  /\ visits' = Returned(Outcome(Top).type)
  /\ error' = (error \/ Outcome(Top).error)
  /\ UNCHANGED <<visited, scopes, symbols, GlobalStrings, string_ids>>

Next ==
  \/ accept \/ EndOfList \/ Return
  \/ symbol_table_add_scope \/ symbol_table_remove_scope
  \/ create_new_variable \/ DeclareFunction \/ DeclareHelper \/ parameter \/ PublishParameters
  \/ FindVariable \/ FindFunction \/ Identifier \/ Literal \/ StringLiteral

Spec == Init /\ [][Next]_vars

-----------------------------------------------------------------------------
(* The scopes of the language: the constructs whose declarations end with   *)
(* them, the two branches of an if-else being one each.                     *)
Scoped == Functions \cup {"block", "if_statement", "if_else_statement", "while_statement",
                          "do_while_statement", "for_statement", "for_change_statement"}
SameBranch(p, q) == p.kind = "if_else_statement" => (p.at > 5 <=> q.at > 5)

(* A declaration is visible where every such construct around it is around  *)
(* the use too.                                                             *)
Visible(declaration, use) ==
  \A i \in DOMAIN declaration :
    declaration[i].kind \in Scoped =>
      /\ i \in DOMAIN use /\ use[i].id = declaration[i].id
      /\ SameBranch(declaration[i], use[i])

LookingUp == visits # <<>> /\ (Step(Top) \in {"find", "find_function"} \cup (Valued \ {"Condition"}))

(* Where a name is looked up it means its latest declaration visible there, *)
(* whatever scopes were opened, closed or left early before: the stack of   *)
(* hash maps implements the nesting of the program.                         *)
ResolvesLexically ==
  LookingUp =>
    \A n \in Names :
      LET visible == {s \in DOMAIN symbols : /\ symbols[s].name = n
                                             /\ Visible(symbols[s].path, Path(Len(visits)))}
          found   == symbol_table_lookup_symbol(n)
      IN  IF visible = {} THEN found = 0
          ELSE found \in visible /\ \A s \in visible : s <= found

(* A visitor leaves as many scopes as it found.                             *)
ScopesRestored == At("leave") => Len(scopes) = Top.base

(* A return is checked against the innermost function around it, also after *)
(* a function nested in that one has ended, and outside of functions        *)
(* against none.                                                            *)
ReturnsToItsFunction ==
  (At("leave") /\ Top.kind = "return_statement") =>
    LET around == {i \in DOMAIN visits : visits[i].kind \in Functions}
        found  == symbol_table_lookup_symbol(CURRENT_FUNCTION_SYMBOL)
    IN  IF around = {} THEN found = 0
        ELSE \E i \in around : /\ \A j \in around : j <= i
                               /\ found = visits[i].symbol + 1

(* function_call follows the info of the function it finds without a check: *)
(* wherever a name can be looked up, also inside the function itself, a     *)
(* function has its FunctionInfo.                                           *)
CalleeKnown ==
  LookingUp =>
    \A n \in Names :
      LET s == symbol_table_lookup_symbol(n)
      IN  s # 0 /\ symbols[s].kind = "FUNCTION" => symbols[s].info # 0

(* The FunctionInfo a call is checked against lists the types of exactly    *)
(* the parameters that were declared, in their order, with duplicates       *)
(* refused and functions nested in one another.                             *)
IsParameterOf(s, h) ==
  /\ s \in DOMAIN symbols /\ symbols[s].kind = "VARIABLE"
  /\ LET p == symbols[s].path[Len(symbols[s].path)]
     IN  p.id = symbols[h].path[Len(symbols[h].path)].id /\ p.at \in {4, 5}
         /\ p.kind = "function_decl"
ParametersRecorded ==
  \A f \in DOMAIN symbols : symbols[f].info # 0 =>
    LET h == symbols[f].info
    IN  {s \in DOMAIN symbols : IsParameterOf(s, h)} = h + 1 .. h + Len(symbols[h].params)
        /\ \A i \in DOMAIN symbols[h].params : symbols[h].params[i] = symbols[h + i].type

(* The type UNKNOWN, which agrees with every type, is given to nothing      *)
(* before an error is reported: an accepted program was checked throughout. *)
NoSilentUnknown ==
  (\E i \in DOMAIN visits : \E k \in DOMAIN visits[i].vals : visits[i].vals[k] = "UNKNOWN")
    => error

=============================================================================
