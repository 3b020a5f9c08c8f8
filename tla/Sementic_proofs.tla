----------------------------- MODULE Sementic_proofs -----------------------------
(***************************************************************************)
(* Whatever program is walked, however deep and with however many names:   *)
(* a visitor leaves as many scopes as it found, also when it refuses a     *)
(* name, and so a return is checked against its own function, every callee *)
(* has its FunctionInfo, and no type is UNKNOWN without an error.  Names   *)
(* resolve lexically, and the FunctionInfo of a function lists the types   *)
(* of exactly the parameters that were declared for it.                    *)
(***************************************************************************)
EXTENDS Sementic, TLAPS, SequenceTheorems, WellFoundedInduction

(* The places of a script between its "open" and its "close". *)
Inside(kind) ==
  CASE kind = "block"                      -> 2..3
    [] kind = "if_statement"               -> 2..5
    [] kind = "if_else_statement"          -> (3..5) \cup (7..9)
    [] kind = "while_statement"            -> 3..4
    [] kind = "do_while_statement"         -> 2..4
    [] kind = "for_statement"              -> 2..6
    [] kind = "for_change_statement"       -> 2..7
    [] kind = "function_decl"              -> 3..9
    [] kind = "function_decl_gets_nothing" -> 3..7
    [] OTHER                               -> {}

(* The scopes a visit has open itself. *)
Own(v) == IF v.at \in Inside(v.kind) THEN 1 ELSE 0

(* A function whose helper is in its scope. *)
Helping(v) == v.kind \in Functions /\ v.at > 3 /\ v.at \in Inside(v.kind)

(* A function whose FunctionInfo is still its helper's alone. *)
Unpublished(v) ==
  \/ v.kind = "function_decl" /\ v.at \in 2..6
  \/ v.kind = "function_decl_gets_nothing" /\ v.at \in 2..4

(* Kinds whose result depends on the value of their one child, the last. *)
Unary  == {"factor", "decl_with_asign", "assign", "print_sem", "return_statement"}
Binary == {"expression", "condition"}

CF == CURRENT_FUNCTION_SYMBOL

(* What is known of one visit, sy being the symbols and e the error flag:   *)
(* it has the values its result depends on, ...                             *)
Values(v, e) ==
  /\ v.at # 0
  /\ v.type \in VariableTypes \cup {"NONE"}
  /\ v.kind \in Named => v.name \in Names
  /\ v.kind \in Unary /\ Step(v) = "leave" => Len(v.vals) >= 1
  /\ v.kind \in Binary => Len(v.vals) >= v.at - 1
  /\ e \/ \A k \in 1..Len(v.vals) : v.vals[k] # "UNKNOWN"

(* ... and the symbol it found or declared, behind which a function's       *)
(* helper comes.                                                            *)
Refers(v, sy) ==
  /\ v.symbol \in 0..Len(sy)
  /\ v.kind \in Functions \cup Calls \cup {"assign", "get_sementic"} /\ v.at > 1
       => v.symbol # 0
  /\ v.kind \in Functions /\ v.at > 1 => sy[v.symbol].name # CF
  /\ v.kind \in Functions /\ v.at \in 2..3 => v.symbol = Len(sy)
  /\ v.kind \in Functions /\ v.at > 3 => v.symbol < Len(sy) /\ sy[v.symbol + 1].name = CF

(* The scopes that are open beside the global one are those of the visits,  *)
(* in their order, and all visits but the last wait for a child.            *)
Nested(vs, depth) ==
  /\ vs[1].kind = "program"
  /\ \A i \in 1..Len(vs) : vs[i].base >= 1 /\ (i > 1 => vs[i].kind # "program")
  /\ \A i \in 1..Len(vs) - 1 : /\ Step(vs[i]) \in Visiting
                               /\ vs[i + 1].base = vs[i].base + Own(vs[i])
  /\ \A i, k \in 1..Len(vs) : i < k => vs[i].base + Own(vs[i]) <= vs[k].base
  /\ depth = vs[Len(vs)].base + Own(vs[Len(vs)])

(* The helpers in the scopes are those of the functions around.             *)
Helpers(vs, sc) ==
  /\ \A i \in 1..Len(vs) : Helping(vs[i]) => sc[vs[i].base + 1][CF] = vs[i].symbol + 1
  /\ \A j \in 1..Len(sc) :
       sc[j][CF] # 0 => \E i \in 1..Len(vs) : Helping(vs[i]) /\ j = vs[i].base + 1

VisitsInv(vs, sc, sy, e) ==
  /\ vs \in Seq(Visits) /\ vs # <<>>
  /\ Nested(vs, Len(sc))
  /\ \A i \in 1..Len(vs) : Values(vs[i], e) /\ Refers(vs[i], sy)
  /\ Helpers(vs, sc)

(* The tables, and what is in them. *)
TablesInv(sc, sy) ==
  /\ sc \in Seq([Identifiers -> Nat]) /\ sc # <<>>
  /\ sy \in Seq(Symbols)
  /\ \A j \in 1..Len(sc), n \in Identifiers : sc[j][n] \in 0..Len(sy)
  /\ \A s \in 1..Len(sy) : /\ sy[s].info \in 0..Len(sy)
                           /\ sy[s].type # "UNKNOWN"
                           /\ sy[s].name = CF => sy[s].info = s

(* Only the function that is being declared has no FunctionInfo. *)
Published(v, sy) ==
  \A s \in 1..Len(sy) :
    sy[s].kind = "FUNCTION" /\ sy[s].info = 0 => Unpublished(v) /\ s = v.symbol

Others ==
  /\ visited \in Nat
  /\ GlobalStrings \in [Strings -> Int] /\ string_ids \in Nat
  /\ error \in BOOLEAN

IInv ==
  /\ VisitsInv(visits, scopes, symbols, error)
  /\ TablesInv(scopes, symbols)
  /\ Published(Top, symbols)
  /\ Others

-----------------------------------------------------------------------------
(* What the scripts are like. *)

Steps(k, at) == IF at \in DOMAIN ir_visitor[k] THEN ir_visitor[k][at] ELSE "leave"

Checked == {"declare", "declare_function", "find", "find_function"}

(* A scope is open between "open" and "close" only. *)
ScopeSteps(k, at) ==
  /\ Steps(k, at) = "open"  => at \notin Inside(k) /\ at + 1 \in Inside(k)
  /\ Steps(k, at) = "close" => at \in Inside(k) /\ at + 1 \notin Inside(k)
  /\ Steps(k, at) = "leave" => at \notin Inside(k) /\ at + 1 \notin Inside(k)
  /\ Steps(k, at) \notin {"open", "close"} => (at \in Inside(k) <=> at + 1 \in Inside(k))

(* What can be refused comes first, and never in the program itself. *)
CheckedSteps(k, at) ==
  /\ Steps(k, at) \in Checked => at = 1 /\ at \notin Inside(k) /\ k \in Named
  /\ k \in Functions /\ at = 1 => Steps(k, at) = "declare_function"
  /\ k \in Calls /\ at = 1 => Steps(k, at) = "find_function"
  /\ k \in {"assign", "get_sementic"} /\ at = 1 => Steps(k, at) = "find"
  /\ Steps(k, at) = "declare_function" => k \in Functions
  /\ Steps(k, at) = "declare" => k \notin Functions \cup Calls \cup {"assign", "get_sementic"}
  /\ Steps(k, at) = "find_function" => k \in Calls
  /\ Steps(k, at) = "find" => k \in {"assign", "get_sementic"}

(* A function has its helper before anything is visited in it, and is       *)
(* published before any name is looked up.                                  *)
FunctionSteps(k, at) ==
  /\ Steps(k, at) = "declare_helper" => k \in Functions /\ at = 3 /\ at \in Inside(k)
  /\ Steps(k, at) \in {"Parameter", "Parameters"} =>
       k = "function_decl" /\ at \in 4..5 /\ at \in Inside(k)
  /\ Steps(k, at) = "publish" =>
       \/ k = "function_decl" /\ at = 6
       \/ k = "function_decl_gets_nothing" /\ at = 4
  /\ k \in Functions /\ Steps(k, at) \in Visiting => at > 4 /\ at \in Inside(k)
  /\ k \in Functions /\ at = 2 => Steps(k, at) = "open"
  /\ k \in Functions /\ at = 3 => Steps(k, at) = "declare_helper"
  /\ k = "function_decl" /\ at \in 2..6 =>
       Steps(k, at) \in {"open", "declare_helper", "Parameter", "Parameters", "publish"}
  /\ k = "function_decl_gets_nothing" /\ at \in 2..4 =>
       Steps(k, at) \in {"open", "declare_helper", "publish"}

(* The values a result is computed from have been given. *)
ValueSteps(k, at) ==
  /\ k \in Unary => /\ Steps(k, at) # "leave" /\ Steps(k, at + 1) = "leave"
                        => Steps(k, at) \in Valued \ Repeated
                    /\ Steps(k, 1) # "leave"
                    /\ Steps(k, at) = "leave" => Steps(k, at + 1) = "leave"
  /\ k \in Binary => /\ at <= 2 => Steps(k, at) \in Valued \ Repeated
                     /\ at > 2 => Steps(k, at) = "leave"

LEMMA Scripts ==
  ASSUME NEW k \in Kinds, NEW at \in Nat \ {0}
  PROVE  ScopeSteps(k, at) /\ CheckedSteps(k, at) /\ FunctionSteps(k, at) /\ ValueSteps(k, at)
<1> USE DEF Steps, Inside, ScopeSteps, CheckedSteps, FunctionSteps, ValueSteps, Checked, Named,
            Functions, Calls, Visiting, Valued, Repeated, Unary, Binary
<1>1. CASE k = "program"
  BY <1>1 DEF ir_visitor, program
<1>2. CASE k = "block"
  BY <1>2 DEF ir_visitor, block
<1>3. CASE k = "if_statement"
  BY <1>3 DEF ir_visitor, if_statement
<1>4. CASE k = "if_else_statement"
  BY <1>4 DEF ir_visitor, if_else_statement
<1>5. CASE k = "while_statement"
  BY <1>5 DEF ir_visitor, while_statement
<1>6. CASE k = "do_while_statement"
  BY <1>6 DEF ir_visitor, do_while_statement
<1>7. CASE k = "for_statement"
  BY <1>7 DEF ir_visitor, for_statement
<1>8. CASE k = "for_change_statement"
  BY <1>8 DEF ir_visitor, for_change_statement
<1>9. CASE k = "function_decl"
  BY <1>9 DEF ir_visitor, function_decl
<1>10. CASE k = "function_decl_gets_nothing"
  BY <1>10 DEF ir_visitor, function_decl_gets_nothing
<1>11. CASE k = "function_call"
  BY <1>11 DEF ir_visitor, function_call
<1>12. CASE k = "function_call_with_nothing"
  BY <1>12 DEF ir_visitor, function_call_with_nothing
<1>13. CASE k = "return_statement"
  BY <1>13 DEF ir_visitor, return_statement
<1>14. CASE k = "decl"
  BY <1>14 DEF ir_visitor, decl
<1>15. CASE k = "decl_with_asign"
  BY <1>15 DEF ir_visitor, decl_with_asign
<1>16. CASE k = "assign"
  BY <1>16 DEF ir_visitor, assign
<1>17. CASE k = "get_sementic"
  BY <1>17 DEF ir_visitor, get_sementic
<1>18. CASE k = "get_decl_sementic"
  BY <1>18 DEF ir_visitor, get_decl_sementic
<1>19. CASE k = "print_sem"
  BY <1>19 DEF ir_visitor, print_sem
<1>20. CASE k = "expression"
  BY <1>20 DEF ir_visitor, expression
<1>21. CASE k = "factor"
  BY <1>21 DEF ir_visitor, factor
<1>22. CASE k = "condition"
  BY <1>22 DEF ir_visitor, condition
<1>23. CASE k = "condition_list"
  BY <1>23 DEF ir_visitor, condition_list
<1>24. k \in {"program", "block", "if_statement", "if_else_statement", "while_statement",
              "do_while_statement", "for_statement", "for_change_statement",
              "function_decl", "function_decl_gets_nothing", "function_call",
              "function_call_with_nothing", "return_statement", "decl",
              "decl_with_asign", "assign", "get_sementic", "get_decl_sementic",
              "print_sem", "expression", "factor", "condition", "condition_list"}
  BY DEF Kinds, ir_visitor
<1> QED
  BY <1>1, <1>2, <1>3, <1>4, <1>5, <1>6, <1>7, <1>8, <1>9, <1>10, <1>11, <1>12, <1>13,
     <1>14, <1>15, <1>16, <1>17, <1>18, <1>19, <1>20, <1>21, <1>22, <1>23, <1>24

-----------------------------------------------------------------------------
(* One visit *)

(* A visit that goes on in the same scopes, ...                             *)
InPlace(v, w) ==
  /\ w \in Visits
  /\ w.kind = v.kind /\ w.base = v.base
  /\ Own(w) = Own(v)
  /\ (Helping(w) <=> Helping(v))
  /\ Helping(v) => w.symbol = v.symbol

(* ... and with its function as far declared.                               *)
Follows(v, w) ==
  /\ InPlace(v, w)
  /\ Unpublished(v) => Unpublished(w) /\ w.symbol = v.symbol

LEMMA GivenVisit ==
  ASSUME NEW v \in Visits, NEW e \in BOOLEAN, NEW f \in BOOLEAN, NEW sy,
         Values(v, e), Refers(v, sy), e => f,
         Step(v) \in Visiting \cup Valued \cup {"Parameter", "Parameters"},
         NEW val \in DataTypes, f \/ val # "UNKNOWN"
  PROVE  Follows(v, Given(v, val)) /\ Values(Given(v, val), f) /\ Refers(Given(v, val), sy)
<1> DEFINE w == Given(v, val)
<1>1. /\ v.kind \in Kinds /\ v.at \in Nat \ {0} /\ v.vals \in Seq(DataTypes)
      /\ Len(v.vals) \in Nat
  BY DEF Visits, Values
<1>2. Step(v) = Steps(v.kind, v.at)
  BY DEF Step, Steps
<1>3. /\ w.kind = v.kind /\ w.id = v.id /\ w.name = v.name /\ w.type = v.type
      /\ w.symbol = v.symbol /\ w.base = v.base
      /\ w.at = IF Step(v) \in Repeated THEN v.at ELSE v.at + 1
      /\ w.vals = IF Step(v) \in Valued THEN Append(v.vals, val) ELSE v.vals
  BY DEF Given, Visits
<1>4. /\ w.vals \in Seq(DataTypes)
      /\ Len(w.vals) = IF Step(v) \in Valued THEN Len(v.vals) + 1 ELSE Len(v.vals)
      /\ f \/ \A k \in 1..Len(w.vals) : w.vals[k] # "UNKNOWN"
  BY <1>1, <1>3 DEF Values
<1>5. w \in Visits
  <2>1. ASSUME NEW a \in Nat, NEW b \in Seq(DataTypes)
        PROVE  [v EXCEPT !.at = a, !.vals = b] \in Visits
    BY DEF Visits
  <2>2. w = [v EXCEPT !.at = w.at, !.vals = w.vals]
    BY <1>3 DEF Given
  <2>3. w.at \in Nat
    BY <1>1, <1>3
  <2>4. w.vals \in Seq(DataTypes)
    BY <1>4
  <2>5. [v EXCEPT !.at = w.at, !.vals = w.vals] \in Visits
    BY <2>1, <2>3, <2>4
  <2> HIDE DEF w
  <2> QED
    BY <2>2, <2>5
<1>6. /\ ScopeSteps(v.kind, v.at) /\ CheckedSteps(v.kind, v.at)
      /\ FunctionSteps(v.kind, v.at) /\ ValueSteps(v.kind, v.at)
  BY <1>1, Scripts
<1>7. Step(w) = Steps(v.kind, w.at)
  BY <1>3 DEF Step, Steps
<1> HIDE DEF w
<1>8. Own(w) = Own(v)
  BY <1>1, <1>2, <1>3, <1>6 DEF Own, ScopeSteps, Visiting, Valued
<1>9. Helping(w) <=> Helping(v)
  BY <1>1, <1>2, <1>3, <1>6 DEF Helping, ScopeSteps, FunctionSteps, Visiting, Valued, Functions
<1>10. Unpublished(v) => Unpublished(w)
  BY <1>1, <1>2, <1>3, <1>6 DEF Unpublished, FunctionSteps, Visiting, Valued, Repeated, Functions
<1>11. Values(w, f)
  <2>1. w.kind \in Unary /\ Step(w) = "leave" => Len(w.vals) >= 1
    BY <1>1, <1>2, <1>3, <1>4, <1>6, <1>7 DEF ValueSteps, Values, Visiting, Valued
  <2>2. w.kind \in Binary => Len(w.vals) >= w.at - 1
    BY <1>1, <1>2, <1>3, <1>4, <1>6 DEF ValueSteps, Values, Visiting, Valued
  <2> QED
    BY <1>1, <1>3, <1>4, <2>1, <2>2 DEF Values
<1>12. Refers(w, sy)
  BY <1>1, <1>2, <1>3, <1>6 DEF Refers, CheckedSteps, FunctionSteps, Visiting, Valued, Functions
<1> QED
  BY <1>3, <1>5, <1>8, <1>9, <1>10, <1>11, <1>12 DEF Follows, InPlace, w

LEMMA EndedList ==
  ASSUME NEW v \in Visits, NEW e, NEW sy, Values(v, e), Refers(v, sy), Step(v) \in Repeated
  PROVE  Follows(v, Advanced(v)) /\ Values(Advanced(v), e) /\ Refers(Advanced(v), sy)
<1> DEFINE w == Advanced(v)
<1>1. v.kind \in Kinds /\ v.at \in Nat \ {0}
  BY DEF Visits, Values
<1>2. Step(v) = Steps(v.kind, v.at)
  BY DEF Step, Steps
<1>3. /\ w \in Visits /\ w.kind = v.kind /\ w.name = v.name /\ w.type = v.type
      /\ w.symbol = v.symbol /\ w.base = v.base /\ w.vals = v.vals /\ w.at = v.at + 1
  BY <1>1 DEF Advanced, Visits
<1>4. /\ ScopeSteps(v.kind, v.at) /\ CheckedSteps(v.kind, v.at)
      /\ FunctionSteps(v.kind, v.at) /\ ValueSteps(v.kind, v.at)
  BY <1>1, Scripts
<1>5. Step(w) = Steps(v.kind, w.at)
  BY <1>3 DEF Step, Steps
<1> HIDE DEF w
<1>6. Own(w) = Own(v)
  BY <1>1, <1>2, <1>3, <1>4 DEF Own, ScopeSteps, Repeated
<1>7. Helping(w) <=> Helping(v)
  BY <1>1, <1>2, <1>3, <1>4 DEF Helping, ScopeSteps, FunctionSteps, Repeated, Visiting, Functions
<1>8. Unpublished(v) => Unpublished(w)
  BY <1>1, <1>2, <1>3, <1>4 DEF Unpublished, FunctionSteps, Repeated, Visiting, Functions
<1>9. Values(w, e)
  <2>1. ~ (w.kind \in Unary /\ Step(w) = "leave") /\ w.kind \notin Binary
    BY <1>1, <1>2, <1>3, <1>4, <1>5 DEF ValueSteps, Repeated
  <2> QED
    BY <1>1, <1>3, <2>1 DEF Values
<1>10. Refers(w, sy)
  BY <1>1, <1>2, <1>3, <1>4 DEF Refers, CheckedSteps, FunctionSteps, Repeated, Visiting, Functions
<1> QED
  BY <1>3, <1>6, <1>7, <1>8, <1>9, <1>10 DEF Follows, InPlace, w

-----------------------------------------------------------------------------
(* Looking names up *)

LEMMA Innermost ==
  ASSUME NEW N \in Nat, NEW J, J \subseteq 1..N, J # {}
  PROVE  \E j \in J : \A i \in J : i <= j
<1> DEFINE T == {t \in Nat : \E j \in J : t = N - j}
<1>1. T \subseteq Nat /\ T # {}
  <2>1. PICK j \in J : j \in 1..N
    OBVIOUS
  <2>2. N - j \in T
    BY <2>1
  <2> QED
    BY <2>2
<1>2. PICK t \in T : \A u \in T : ~ (<<u, t>> \in OpToRel(<, Nat))
  <2> HIDE DEF T
  <2> QED
    BY <1>1, NatLessThanWellFounded, WFMin
<1>3. PICK j \in J : t = N - j
  OBVIOUS
<1>4. ASSUME NEW i \in J
      PROVE  i <= j
  <2>1. N - i \in T /\ N - i \in Nat /\ i \in 1..N /\ j \in 1..N
    OBVIOUS
  <2>2. ~ (N - i < N - j)
    <3> HIDE DEF T
    <3> QED
      BY <1>1, <1>2, <1>3, <2>1 DEF OpToRel
  <2> QED
    BY <2>1, <2>2
<1> QED
  BY <1>4

(* A name means what the innermost scope with an entry for it says.         *)
LEMMA Lookup ==
  ASSUME TablesInv(scopes, symbols), NEW n \in Identifiers
  PROVE  \/ /\ symbol_table_lookup_symbol(n) = 0
            /\ \A j \in 1..Len(scopes) : scopes[j][n] = 0
         \/ \E j \in 1..Len(scopes) :
              /\ scopes[j][n] # 0
              /\ \A i \in 1..Len(scopes) : scopes[i][n] # 0 => i <= j
              /\ symbol_table_lookup_symbol(n) = scopes[j][n]
              /\ symbol_table_lookup_symbol(n) \in 1..Len(symbols)
<1> DEFINE J == {j \in 1..Len(scopes) : scopes[j][n] # 0}
           k == CHOOSE j \in J : \A i \in J : i <= j
<1>0. Len(scopes) \in Nat /\ Len(symbols) \in Nat
  BY DEF TablesInv
<1>1. CASE J = {}
  BY <1>1 DEF symbol_table_lookup_symbol
<1>2. CASE J # {}
  <2>1. \E j \in J : \A i \in J : i <= j
    BY <1>0, <1>2, Innermost
  <2>2. k \in J /\ \A i \in J : i <= k
    <3> HIDE DEF J
    <3> QED
      BY <2>1
  <2>3. symbol_table_lookup_symbol(n) = scopes[k][n]
    BY <1>2 DEF symbol_table_lookup_symbol
  <2> HIDE DEF k
  <2>4. /\ k \in 1..Len(scopes) /\ scopes[k][n] # 0
        /\ \A i \in 1..Len(scopes) : scopes[i][n] # 0 => i <= k
    BY <2>2
  <2>5. scopes[k][n] \in 0..Len(symbols)
    BY <2>4 DEF TablesInv
  <2>6. symbol_table_lookup_symbol(n) \in 1..Len(symbols)
    BY <1>0, <2>3, <2>4, <2>5
  <2> QED
    BY <2>3, <2>4, <2>6
<1> QED
  BY <1>1, <1>2

-----------------------------------------------------------------------------
(* The stack of visits *)

Grown(sy, sy2) ==
  /\ Len(sy) \in Nat /\ Len(sy2) \in Nat /\ Len(sy) <= Len(sy2)
  /\ \A s \in 1..Len(sy) : sy2[s].name = sy[s].name

SameHelpers(sc, sc2) ==
  /\ Len(sc2) = Len(sc)
  /\ \A j \in 1..Len(sc) : sc2[j][CF] = sc[j][CF]

LEMMA OwnScope ==
  ASSUME NEW v
  PROVE  Own(v) \in {0, 1} /\ (Helping(v) => Own(v) = 1)
BY DEF Own, Helping

(* A visit that waits for a child is not disturbed by what its child does.  *)
LEMMA Waiting ==
  ASSUME NEW v \in Visits, NEW e \in BOOLEAN, NEW f \in BOOLEAN, NEW sy, NEW sy2,
         Values(v, e), Refers(v, sy), Step(v) \in Visiting, e => f, Grown(sy, sy2)
  PROVE  Values(v, f) /\ Refers(v, sy2) /\ ~ Unpublished(v)
<1>1. v.kind \in Kinds /\ v.at \in Nat \ {0} /\ v.symbol \in Nat
  BY DEF Visits, Values
<1>2. Step(v) = Steps(v.kind, v.at)
  BY DEF Step, Steps
<1>3. v.kind \in Functions => v.at > 4
  BY <1>1, <1>2, Scripts DEF FunctionSteps
<1>4. v.kind \in Functions /\ v.at \in 2..6 => v.kind # "function_decl"
  BY <1>1, <1>2, Scripts DEF FunctionSteps, Visiting
<1>5. ~ Unpublished(v)
  BY <1>1, <1>3, <1>4 DEF Unpublished, Functions
<1>6. Values(v, f)
  BY DEF Values
<1>7. Refers(v, sy2)
  <2>1. /\ v.symbol \in 0..Len(sy) /\ Len(sy) \in Nat /\ Len(sy2) \in Nat
        /\ Len(sy) <= Len(sy2)
    BY DEF Refers, Grown
  <2>2. v.kind \in Functions =>
          /\ v.symbol # 0 /\ sy[v.symbol].name # CF
          /\ v.symbol < Len(sy) /\ sy[v.symbol + 1].name = CF
    BY <1>1, <1>3 DEF Refers
  <2>3. v.kind \in Functions => v.symbol \in 1..Len(sy) /\ v.symbol + 1 \in 1..Len(sy)
    BY <1>1, <2>1, <2>2
  <2>4. v.kind \in Functions => /\ sy2[v.symbol].name # CF
                                 /\ sy2[v.symbol + 1].name = CF /\ v.symbol < Len(sy2)
    BY <2>1, <2>2, <2>3 DEF Grown
  <2> QED
    BY <1>1, <1>3, <2>1, <2>4 DEF Refers
<1> QED
  BY <1>5, <1>6, <1>7

(* Another last visit of the same construct, with or without a scope open.  *)
LEMMA TopReplaced ==
  ASSUME NEW vs, NEW sc, NEW sy, NEW e \in BOOLEAN, NEW sy2, NEW f \in BOOLEAN,
         NEW w \in Visits, VisitsInv(vs, sc, sy, e), e => f, Grown(sy, sy2),
         w.kind = vs[Len(vs)].kind, w.base = vs[Len(vs)].base,
         Values(w, f), Refers(w, sy2)
  PROVE  LET us == [vs EXCEPT ![Len(vs)] = w]
         IN  /\ us \in Seq(Visits) /\ us # <<>> /\ Len(us) = Len(vs) /\ Len(vs) \in Nat
             /\ us[Len(vs)] = w /\ \A i \in 1..Len(vs) - 1 : us[i] = vs[i]
             /\ Nested(us, w.base + Own(w))
             /\ \A i \in 1..Len(us) : Values(us[i], f) /\ Refers(us[i], sy2)
<1> DEFINE n  == Len(vs)
           us == [vs EXCEPT ![n] = w]
<1>1. /\ vs \in Seq(Visits) /\ n \in Nat /\ n >= 1
      /\ \A i \in 1..n : vs[i] \in Visits
  BY DEF VisitsInv
<1>2. /\ us \in Seq(Visits) /\ Len(us) = n
      /\ us[n] = w /\ \A i \in 1..n - 1 : us[i] = vs[i]
  BY <1>1, ExceptSeq
<1> HIDE DEF us
<1>3. \A i \in 1..n : us[i].kind = vs[i].kind /\ us[i].base = vs[i].base
  <2>1. \A i \in 1..n : i = n \/ i \in 1..n - 1
    BY <1>1
  <2> QED
    BY <1>2, <2>1
<1>4. Nested(us, w.base + Own(w))
  <2>1. Nested(vs, Len(sc)) /\ Len(us) = n
    BY <1>2 DEF VisitsInv
  <2>2. us[1].kind = "program"
    BY <1>1, <1>3, <2>1 DEF Nested
  <2>3. \A i \in 1..n : us[i].base >= 1 /\ (i > 1 => us[i].kind # "program")
    BY <1>1, <1>3, <2>1 DEF Nested
  <2>4. ASSUME NEW i \in 1..n - 1
        PROVE  Step(us[i]) \in Visiting /\ us[i + 1].base = us[i].base + Own(us[i])
    <3>1. i \in 1..n /\ i + 1 \in 1..n
      BY <1>1
    <3>2. Step(vs[i]) \in Visiting /\ vs[i + 1].base = vs[i].base + Own(vs[i])
      BY <2>1 DEF Nested
    <3> QED
      BY <1>2, <1>3, <3>1, <3>2
  <2>5. ASSUME NEW i \in 1..n, NEW k \in 1..n, i < k
        PROVE  us[i].base + Own(us[i]) <= us[k].base
    <3>1. vs[i].base + Own(vs[i]) <= vs[k].base
      BY <2>1, <2>5 DEF Nested
    <3>2. us[i] = vs[i]
      BY <1>1, <1>2, <2>5
    <3> QED
      BY <1>3, <3>1, <3>2
  <2> QED
    BY <1>2, <2>1, <2>2, <2>3, <2>4, <2>5 DEF Nested
<1>5. \A i \in 1..Len(us) : Values(us[i], f) /\ Refers(us[i], sy2)
  <2> SUFFICES ASSUME NEW i \in 1..n
               PROVE  Values(us[i], f) /\ Refers(us[i], sy2)
    BY <1>2
  <2>1. CASE i = n
    BY <1>2, <2>1
  <2>2. CASE i \in 1..n - 1
    <3>1. vs[i] \in Visits /\ Values(vs[i], e) /\ Refers(vs[i], sy) /\ Step(vs[i]) \in Visiting
      BY <1>1, <2>2 DEF VisitsInv, Nested
    <3> QED
      BY <1>2, <2>2, <3>1, Waiting
  <2> QED
    BY <1>1, <2>1, <2>2
<1>6. us # <<>>
  BY <1>1, <1>2
<1> QED
  BY <1>1, <1>2, <1>4, <1>5, <1>6 DEF us

(* Helpers are in scopes that are there.                                    *)
LEMMA HelperScope ==
  ASSUME NEW vs, NEW sc, NEW sy, NEW e, VisitsInv(vs, sc, sy, e),
         NEW i \in 1..Len(vs), Helping(vs[i])
  PROVE  /\ vs[i].base + 1 \in 1..Len(sc)
         /\ i < Len(vs) => vs[i].base + 1 <= vs[Len(vs)].base
<1>1. /\ Len(vs) \in Nat /\ vs[i] \in Visits /\ vs[Len(vs)] \in Visits
      /\ Own(vs[i]) = 1 /\ Own(vs[Len(vs)]) \in {0, 1}
  BY OwnScope DEF VisitsInv
<1>2. vs[i].base \in Nat /\ vs[Len(vs)].base \in Nat
  BY <1>1 DEF Visits
<1>3. i < Len(vs) => vs[i].base + Own(vs[i]) <= vs[Len(vs)].base
  BY <1>1 DEF VisitsInv, Nested
<1>4. Len(sc) = vs[Len(vs)].base + Own(vs[Len(vs)])
  BY DEF VisitsInv, Nested
<1> QED
  BY <1>1, <1>2, <1>3, <1>4

LEMMA TopGoesOn ==
  ASSUME NEW vs, NEW sc, NEW sy, NEW e \in BOOLEAN,
         NEW sc2, NEW sy2, NEW f \in BOOLEAN, NEW w,
         VisitsInv(vs, sc, sy, e), e => f, Grown(sy, sy2), SameHelpers(sc, sc2),
         InPlace(vs[Len(vs)], w), Values(w, f), Refers(w, sy2)
  PROVE  VisitsInv([vs EXCEPT ![Len(vs)] = w], sc2, sy2, f)
<1> DEFINE n  == Len(vs)
           us == [vs EXCEPT ![n] = w]
<1>1. /\ us \in Seq(Visits) /\ us # <<>> /\ Len(us) = n /\ n \in Nat
      /\ us[n] = w /\ \A i \in 1..n - 1 : us[i] = vs[i]
      /\ Nested(us, w.base + Own(w))
      /\ \A i \in 1..Len(us) : Values(us[i], f) /\ Refers(us[i], sy2)
  BY TopReplaced DEF Follows, InPlace
<1> HIDE DEF us
<1>2. Nested(us, Len(sc2))
  BY <1>1 DEF VisitsInv, Nested, Follows, InPlace, SameHelpers
<1>3. \A i \in 1..n : /\ us[i].base = vs[i].base
                      /\ (Helping(us[i]) <=> Helping(vs[i]))
                      /\ Helping(vs[i]) => us[i].symbol = vs[i].symbol
  <2>1. \A i \in 1..n : i = n \/ i \in 1..n - 1
    BY <1>1
  <2> QED
    BY <1>1, <2>1 DEF Follows, InPlace
<1>4. Helpers(us, sc2)
  <2>1. ASSUME NEW i \in 1..n, Helping(us[i])
        PROVE  sc2[us[i].base + 1][CF] = us[i].symbol + 1
    <3>1. Helping(vs[i]) /\ us[i].base = vs[i].base /\ us[i].symbol = vs[i].symbol
      BY <1>1, <1>3, <2>1
    <3>2. vs[i].base + 1 \in 1..Len(sc) /\ sc[vs[i].base + 1][CF] = vs[i].symbol + 1
      BY <3>1, HelperScope DEF VisitsInv, Helpers
    <3> QED
      BY <3>1, <3>2 DEF SameHelpers
  <2>2. ASSUME NEW j \in 1..Len(sc), sc2[j][CF] # 0
        PROVE  \E i \in 1..n : Helping(us[i]) /\ j = us[i].base + 1
    <3>1. PICK i \in 1..n : Helping(vs[i]) /\ j = vs[i].base + 1
      BY <2>2 DEF VisitsInv, Helpers, SameHelpers
    <3>2. Helping(us[i]) /\ us[i].base = vs[i].base
      BY <1>1, <1>3, <3>1
    <3> QED
      BY <3>1, <3>2
  <2> QED
    BY <1>1, <2>1, <2>2 DEF Helpers, SameHelpers
<1> QED
  BY <1>1, <1>2, <1>4 DEF VisitsInv, us

(* Without the last visit, if it has closed its scope.                      *)
LEMMA Ended ==
  ASSUME NEW vs, NEW sc, NEW sy, NEW e, VisitsInv(vs, sc, sy, e),
         Len(vs) > 1, Own(vs[Len(vs)]) = 0
  PROVE  LET us == SubSeq(vs, 1, Len(vs) - 1)
         IN  /\ VisitsInv(us, sc, sy, e) /\ Len(us) = Len(vs) - 1
             /\ us[Len(us)] \in Visits /\ Values(us[Len(us)], e) /\ Refers(us[Len(us)], sy)
             /\ Step(us[Len(us)]) \in Visiting
<1> DEFINE n  == Len(vs)
           us == SubSeq(vs, 1, n - 1)
<1>1. /\ vs \in Seq(Visits) /\ n \in Nat
      /\ \A i \in 1..n : vs[i] \in Visits /\ vs[i].base \in Nat /\ Own(vs[i]) \in {0, 1}
  <2>1. vs \in Seq(Visits) /\ n \in Nat
    BY DEF VisitsInv
  <2>2. \A i \in 1..n : vs[i] \in Visits
    BY <2>1
  <2> QED
    BY <2>1, <2>2, OwnScope DEF Visits
<1>2. us \in Seq(Visits) /\ Len(us) = n - 1 /\ \A i \in 1..n - 1 : us[i] = vs[i]
  BY <1>1
<1> HIDE DEF us
<1>3. us # <<>> /\ n - 1 \in 1..n
  BY <1>1, <1>2
<1>4. Nested(us, Len(sc))
  <2>1. vs[n].base = vs[n - 1].base + Own(vs[n - 1])
    <3>1. n - 1 \in 1..n - 1 /\ (n - 1) + 1 = n
      BY <1>1
    <3>2. vs[(n - 1) + 1].base = vs[n - 1].base + Own(vs[n - 1])
      BY <3>1 DEF VisitsInv, Nested
    <3> QED
      BY <3>1, <3>2
  <2>2. Len(sc) = us[Len(us)].base + Own(us[Len(us)])
    <3>1. Len(sc) = vs[n].base
      BY <1>1 DEF VisitsInv, Nested
    <3>2. us[Len(us)] = vs[n - 1]
      BY <1>1, <1>2
    <3> QED
      BY <2>1, <3>1, <3>2
  <2>3. us[1].kind = "program"
    BY <1>1, <1>2, <1>3 DEF VisitsInv, Nested
  <2>4. \A i \in 1..n - 1 : us[i].base >= 1 /\ (i > 1 => us[i].kind # "program")
    BY <1>1, <1>2 DEF VisitsInv, Nested
  <2>5. ASSUME NEW i \in 1..(n - 1) - 1
        PROVE  Step(us[i]) \in Visiting /\ us[i + 1].base = us[i].base + Own(us[i])
    <3>1. i \in 1..n - 1 /\ i + 1 \in 1..n - 1
      BY <1>1
    <3>2. Step(vs[i]) \in Visiting /\ vs[i + 1].base = vs[i].base + Own(vs[i])
      BY <3>1 DEF VisitsInv, Nested
    <3> QED
      BY <1>2, <3>1, <3>2
  <2>6. ASSUME NEW i \in 1..n - 1, NEW k \in 1..n - 1, i < k
        PROVE  us[i].base + Own(us[i]) <= us[k].base
    <3>1. i \in 1..n /\ k \in 1..n
      BY <1>1
    <3>2. vs[i].base + Own(vs[i]) <= vs[k].base
      BY <2>6, <3>1 DEF VisitsInv, Nested
    <3> QED
      BY <1>2, <3>2
  <2> QED
    BY <1>2, <2>2, <2>3, <2>4, <2>5, <2>6 DEF Nested
<1>5. \A i \in 1..Len(us) : Values(us[i], e) /\ Refers(us[i], sy)
  BY <1>1, <1>2 DEF VisitsInv
<1>6. Helpers(us, sc)
  <2>1. ~ Helping(vs[n])
    BY <1>1 DEF Own, Helping
  <2>2. ASSUME NEW j \in 1..Len(sc), sc[j][CF] # 0
        PROVE  \E i \in 1..n - 1 : Helping(us[i]) /\ j = us[i].base + 1
    <3>1. PICK i \in 1..n : Helping(vs[i]) /\ j = vs[i].base + 1
      BY <2>2 DEF VisitsInv, Helpers
    <3>2. i \in 1..n - 1
      BY <1>1, <2>1, <3>1
    <3> QED
      BY <1>2, <3>1, <3>2
  <2>3. ASSUME NEW i \in 1..n - 1, Helping(us[i])
        PROVE  sc[us[i].base + 1][CF] = us[i].symbol + 1
    <3>1. i \in 1..n /\ us[i] = vs[i]
      BY <1>1, <1>2
    <3> QED
      BY <2>3, <3>1 DEF VisitsInv, Helpers
  <2> QED
    BY <1>2, <2>2, <2>3 DEF Helpers
<1>7. Step(us[n - 1]) \in Visiting /\ us[n - 1] \in Visits
  BY <1>1, <1>2, <1>3 DEF VisitsInv, Nested
<1> QED
  BY <1>2, <1>3, <1>4, <1>5, <1>6, <1>7 DEF VisitsInv, us

(* The last visitor returns to the one that waits for it.                   *)
LEMMA GoesBack ==
  ASSUME VisitsInv(visits, scopes, symbols, error), error \in BOOLEAN,
         Len(symbols) \in Nat, Len(visits) > 1, Own(Top) = 0,
         NEW f \in BOOLEAN, error => f, NEW val \in DataTypes, f \/ val # "UNKNOWN"
  PROVE  VisitsInv(Returned(val), scopes, symbols, f)
<1> DEFINE us == SubSeq(visits, 1, Len(visits) - 1)
           v  == us[Len(us)]
<1>1. /\ VisitsInv(us, scopes, symbols, error) /\ Len(us) = Len(visits) - 1
      /\ v \in Visits /\ Values(v, error) /\ Refers(v, symbols) /\ Step(v) \in Visiting
  BY Ended DEF Top
<1>2. Returned(val) = [us EXCEPT ![Len(us)] = Given(v, val)]
  <2>1. us \in Seq(Visits) /\ Len(us) \in Nat /\ Len(us) \in DOMAIN us
    <3> HIDE DEF us
    <3> QED
      BY <1>1 DEF VisitsInv
  <2> QED
    BY <1>1, <2>1 DEF Returned
<1> HIDE DEF us, v
<1>3. Follows(v, Given(v, val)) /\ Values(Given(v, val), f) /\ Refers(Given(v, val), symbols)
  BY <1>1, GivenVisit
<1>4. Grown(symbols, symbols) /\ SameHelpers(scopes, scopes)
  BY DEF Grown, SameHelpers
<1>5. InPlace(us[Len(us)], Given(v, val))
  BY <1>3 DEF v, Follows
<1>6. VisitsInv([us EXCEPT ![Len(us)] = Given(v, val)], scopes, symbols, f)
  BY <1>1, <1>3, <1>4, <1>5, TopGoesOn
<1> QED
  BY <1>2, <1>6

-----------------------------------------------------------------------------
(* The steps *)

LEMMA Basics ==
  ASSUME IInv
  PROVE  /\ visits \in Seq(Visits) /\ Len(visits) \in Nat \ {0} /\ Top \in Visits
         /\ Len(scopes) \in Nat \ {0} /\ Len(symbols) \in Nat /\ error \in BOOLEAN
         /\ Values(Top, error) /\ Refers(Top, symbols) /\ Published(Top, symbols)
         /\ Top.kind \in Kinds /\ Top.at \in Nat \ {0} /\ Top.base \in Nat
         /\ Step(Top) = Steps(Top.kind, Top.at)
         /\ ScopeSteps(Top.kind, Top.at) /\ CheckedSteps(Top.kind, Top.at)
         /\ FunctionSteps(Top.kind, Top.at) /\ ValueSteps(Top.kind, Top.at)
         /\ Len(scopes) = Top.base + Own(Top)
<1>1. /\ visits \in Seq(Visits) /\ Len(visits) \in Nat \ {0} /\ Len(symbols) \in Nat
      /\ Len(scopes) \in Nat \ {0} /\ error \in BOOLEAN /\ Published(Top, symbols)
  BY EmptySeq DEF IInv, VisitsInv, TablesInv, Others
<1>2. /\ Top \in Visits /\ Values(Top, error) /\ Refers(Top, symbols)
      /\ Len(scopes) = Top.base + Own(Top)
  BY <1>1 DEF IInv, VisitsInv, Nested, Top
<1>3. Top.kind \in Kinds /\ Top.at \in Nat \ {0} /\ Top.base \in Nat
  BY <1>2 DEF Visits, Values
<1>4. Step(Top) = Steps(Top.kind, Top.at)
  BY DEF Step, Steps
<1> QED
  BY <1>1, <1>2, <1>3, <1>4, Scripts

LEMMA KeepsTables ==
  ASSUME IInv, NEW w, Follows(Top, w), Values(w, error'), Refers(w, symbols),
         visits' = WithTop(w), UNCHANGED <<scopes, symbols>>, error => error', Others'
  PROVE  IInv'
<1>1. Grown(symbols, symbols) /\ SameHelpers(scopes, scopes)
  BY Basics DEF Grown, SameHelpers
<1>2. error \in BOOLEAN /\ error' \in BOOLEAN
  BY Basics DEF Others
<1>3. VisitsInv(visits', scopes', symbols', error')
  BY <1>1, <1>2, TopGoesOn DEF WithTop, Top, IInv, Follows
<1>4. TablesInv(scopes', symbols')
  BY DEF IInv
<1>5. Top' = w
  BY Basics DEF Top, WithTop
<1>6. Published(w, symbols)
  BY Basics DEF Published, Follows, InPlace
<1> QED
  BY <1>3, <1>4, <1>5, <1>6 DEF IInv

(* A visitor that is done, or refuses, leaves to its parent.                *)
LEMMA KeepsTablesBack ==
  ASSUME IInv, NEW val \in DataTypes, Len(visits) > 1, Own(Top) = 0, ~ Unpublished(Top),
         visits' = Returned(val), UNCHANGED <<scopes, symbols>>,
         error => error', error' \/ val # "UNKNOWN", Others'
  PROVE  IInv'
<1>1. error \in BOOLEAN /\ error' \in BOOLEAN
  BY Basics DEF Others
<1>2. VisitsInv(visits', scopes', symbols', error')
  BY <1>1, Basics, GoesBack DEF IInv
<1>3. Published(Top', symbols')
  BY Basics DEF Published
<1> QED
  BY <1>2, <1>3 DEF IInv

LEMMA Refused ==
  ASSUME IInv, Step(Top) \in Checked, Refuse
  PROVE  IInv'
<1>1. /\ Top.kind \in Named /\ Top.at = 1 /\ Own(Top) = 0 /\ ~ Unpublished(Top)
  BY Basics DEF CheckedSteps, Own, Unpublished
<1>2. Len(visits) > 1
  <2>0. Len(visits) \in Nat /\ Len(visits) # 0
    BY Basics
  <2>1. Top.kind # "program"
    BY <1>1 DEF Named, Functions, Calls
  <2>2. Len(visits) # 1
    BY <2>1 DEF IInv, VisitsInv, Nested, Top
  <2>3. \A k \in Nat : k # 0 /\ k # 1 => k > 1
    OBVIOUS
  <2> QED
    BY <2>0, <2>2, <2>3
<1>3. Others'
  BY DEF Refuse, Others, IInv
<1> QED
  BY <1>1, <1>2, <1>3, KeepsTablesBack DEF Refuse, DataTypes

LEMMA EndOfListStep ==
  ASSUME IInv, EndOfList
  PROVE  IInv'
<1>1. /\ Follows(Top, Advanced(Top)) /\ Values(Advanced(Top), error)
      /\ Refers(Advanced(Top), symbols)
  BY Basics, EndedList DEF EndOfList
<1>2. Others'
  BY DEF EndOfList, Others, IInv
<1> QED
  BY <1>1, <1>2, KeepsTables DEF EndOfList

LEMMA AdvancedVisit ==
  ASSUME NEW v \in Visits, NEW s \in Nat
  PROVE  LET w == [Advanced(v) EXCEPT !.symbol = s]
         IN  /\ w \in Visits /\ w.kind = v.kind /\ w.name = v.name /\ w.type = v.type
             /\ w.symbol = s /\ w.base = v.base /\ w.vals = v.vals /\ w.at = v.at + 1
<1>1. Advanced(v) \in Visits
  BY DEF Advanced, Visits
<1>2. [Advanced(v) EXCEPT !.symbol = s] \in Visits
  BY <1>1 DEF Visits
<1> QED
  BY <1>2 DEF Advanced, Visits

LEMMA Found ==
  ASSUME IInv, NEW s \in 1..Len(symbols), Step(Top) \in {"find", "find_function"}
  PROVE  LET w == [Advanced(Top) EXCEPT !.symbol = s]
         IN  Follows(Top, w) /\ Values(w, error) /\ Refers(w, symbols)
<1> DEFINE w == [Advanced(Top) EXCEPT !.symbol = s]
<1>0. Top \in Visits /\ Top.at = 1 /\ s \in Nat
  BY Basics DEF CheckedSteps, Checked
<1>1. /\ w \in Visits /\ w.kind = Top.kind /\ w.name = Top.name /\ w.type = Top.type
      /\ w.symbol = s /\ w.base = Top.base /\ w.vals = Top.vals /\ w.at = 2
      /\ Top.at = 1 /\ s \in Nat
  BY <1>0, AdvancedVisit
<1>2. Top.kind \in Calls \cup {"assign", "get_sementic"} /\ Top.at \notin Inside(Top.kind)
  BY <1>1, Basics DEF CheckedSteps, Checked
<1>3. Step(w) = Steps(Top.kind, 2)
  BY <1>1 DEF Step, Steps
<1> HIDE DEF w
<1>4. 2 \notin Inside(Top.kind)
  BY <1>2 DEF Inside, Calls
<1>5. Own(w) = 0 /\ Own(Top) = 0
  BY <1>1, <1>2, <1>4 DEF Own
<1>6. ~ Helping(w) /\ ~ Helping(Top) /\ ~ Unpublished(w) /\ ~ Unpublished(Top)
  BY <1>1, <1>2 DEF Helping, Unpublished, Functions, Calls
<1>7. Values(w, error)
  <2>1. w.kind \in Unary => Step(w) # "leave"
    BY <1>1, <1>2, <1>3 DEF Unary, Calls, Steps, ir_visitor, assign
  <2>2. w.kind \notin Binary
    BY <1>1, <1>2 DEF Binary, Calls
  <2> QED
    BY <1>1, <2>1, <2>2, Basics DEF Values
<1>8. Refers(w, symbols)
  BY <1>1, <1>2, Basics DEF Refers, Functions, Calls
<1> QED
  BY <1>1, <1>5, <1>6, <1>7, <1>8 DEF Follows, InPlace, w

LEMMA SymbolFound ==
  ASSUME IInv, NEW n \in Identifiers
  PROVE  symbol_table_lookup_symbol(n) \in 0..Len(symbols)
BY Basics, Lookup DEF IInv

LEMMA FindStep ==
  ASSUME IInv, FindVariable \/ FindFunction
  PROVE  IInv'
<1> DEFINE s == symbol_table_lookup_symbol(Top.name)
<1>1. Step(Top) \in {"find", "find_function"}
  BY DEF FindVariable, FindFunction, At
<1>2. s \in 0..Len(symbols)
  <2>1. Top.kind \in Named
    BY <1>1, Basics DEF CheckedSteps, Checked
  <2>2. Top.name \in Identifiers
    BY <2>1, Basics DEF Values, Identifiers
  <2> QED
    BY <2>2, SymbolFound
<1>3. CASE Refuse
  BY <1>1, <1>3, Refused DEF Checked
<1>4. CASE s # 0 /\ visits' = WithTop([Advanced(Top) EXCEPT !.symbol = s]) /\
           UNCHANGED <<visited, scopes, symbols, GlobalStrings, string_ids, error>>
  <2> HIDE DEF s
  <2>1. s \in 1..Len(symbols)
    BY <1>2, <1>4, Basics
  <2>2. Others'
    BY <1>4 DEF Others, IInv
  <2> QED
    BY <1>1, <1>4, <2>1, <2>2, Found, KeepsTables
<1> QED
  BY <1>3, <1>4 DEF FindVariable, FindFunction

(* A value that is given without a visit.                                   *)
LEMMA GivesValue ==
  ASSUME IInv, Step(Top) \in Valued, NEW val \in DataTypes, error => error',
         error' \/ val # "UNKNOWN", visits' = WithTop(Given(Top, val)),
         UNCHANGED <<scopes, symbols>>, Others'
  PROVE  IInv'
<1>1. error \in BOOLEAN /\ error' \in BOOLEAN
  BY Basics DEF Others
<1>2. /\ Follows(Top, Given(Top, val)) /\ Values(Given(Top, val), error')
      /\ Refers(Given(Top, val), symbols)
  BY <1>1, Basics, GivenVisit
<1> QED
  BY <1>2, KeepsTables

LEMMA IdentifierStep ==
  ASSUME IInv, Identifier
  PROVE  IInv'
<1>1. Step(Top) \in Valued
  BY DEF Identifier, Expects
<1>2. PICK n \in Names :
        LET s == symbol_table_lookup_symbol(n)
        IN  /\ visits' = WithTop(Given(Top, IF s = 0 THEN "UNKNOWN" ELSE symbols[s].type))
            /\ error' = (error \/ s = 0)
  BY DEF Identifier
<1> DEFINE s   == symbol_table_lookup_symbol(n)
           val == IF s = 0 THEN "UNKNOWN" ELSE symbols[s].type
<1>3. s \in 0..Len(symbols)
  BY SymbolFound DEF Identifiers
<1>4. visits' = WithTop(Given(Top, val)) /\ error' = (error \/ s = 0)
  BY <1>2
<1> HIDE DEF s
<1>5. s # 0 => symbols[s] \in Symbols /\ symbols[s].type # "UNKNOWN"
  BY <1>3, Basics DEF IInv, TablesInv
<1>6. val \in DataTypes /\ (error' \/ val # "UNKNOWN") /\ (error => error')
  BY <1>4, <1>5, Basics DEF Symbols, DataTypes
<1>7. Others'
  BY <1>4, Basics DEF Identifier, Others, IInv
<1> HIDE DEF val
<1> QED
  BY <1>1, <1>4, <1>6, <1>7, GivesValue DEF Identifier

LEMMA LiteralStep ==
  ASSUME IInv, Literal
  PROVE  IInv'
<1>1. PICK t \in VariableTypes : visits' = WithTop(Given(Top, t))
  BY DEF Literal, VariableTypes
<1>2. t \in DataTypes /\ t # "UNKNOWN"
  BY DEF DataTypes, VariableTypes
<1>3. Others'
  BY DEF Literal, Others, IInv
<1> QED
  BY <1>1, <1>2, <1>3, GivesValue DEF Literal, Expects

LEMMA StringLiteralStep ==
  ASSUME IInv, StringLiteral
  PROVE  IInv'
<1>1. Others'
  BY DEF StringLiteral, Others, IInv
<1> QED
  BY <1>1, GivesValue DEF StringLiteral, At, Valued, DataTypes

LEMMA AcceptStep ==
  ASSUME IInv, accept
  PROVE  IInv'
<1> DEFINE n == Len(visits)
<1>0. PICK kind \in Allowed(Step(Top)) :
        \E name \in NamesOf(kind), type \in TypesOf(kind) :
          visits' = Append(visits, Started(kind, name, type))
  BY DEF accept
<1>1. PICK name \in NamesOf(kind), type \in TypesOf(kind) :
        visits' = Append(visits, Started(kind, name, type))
  BY <1>0
<1> DEFINE v  == Started(kind, name, type)
           us == Append(visits, v)
<1>2. /\ visits \in Seq(Visits) /\ n \in Nat \ {0} /\ Len(scopes) \in Nat \ {0}
      /\ Len(symbols) \in Nat /\ error \in BOOLEAN /\ visited \in Nat
      /\ \A i \in 1..n : visits[i] \in Visits
  BY Basics DEF IInv, Others
<1>3. Step(Top) \in Visiting /\ visited' = visited + 1
  BY DEF accept, Expects
<1>4. kind \in Kinds /\ kind # "program"
  BY <1>3 DEF Allowed, Visiting, InFunctions, Functions, Conditions, Expressions, Calls,
                 Kinds, ir_visitor
<1>5. name \in Names \cup {NoName} /\ (kind \in Named => name \in Names)
  BY DEF NamesOf
<1>6. type \in VariableTypes \cup {"NONE"} /\ type \in DataTypes
  BY DEF TypesOf, DataTypes
<1>7. /\ v.kind = kind /\ v.name = name /\ v.type = type /\ v.at = 1
      /\ v.symbol = 0 /\ v.vals = <<>> /\ v.base = Len(scopes) /\ v \in Visits
  BY <1>2, <1>4, <1>5, <1>6 DEF Started, Visits
<1> HIDE DEF v
<1>8. Own(v) = 0 /\ ~ Helping(v) /\ Step(v) = Steps(kind, 1)
  BY <1>7 DEF Own, Helping, Inside, Step, Steps
<1>9. ValueSteps(kind, 1)
  BY <1>4, Scripts
<1>10. Values(v, error) /\ Refers(v, symbols)
  BY <1>2, <1>5, <1>6, <1>7, <1>8, <1>9 DEF Values, Refers, ValueSteps
<1>11. us \in Seq(Visits) /\ us # <<>> /\ Len(us) = n + 1 /\ us[n + 1] = v
       /\ \A i \in 1..n : us[i] = visits[i]
  BY <1>2, <1>7
<1> HIDE DEF us
<1>12. \A i \in 1..n + 1 : i \in 1..n \/ i = n + 1
  BY <1>2
<1>13. Nested(us, Len(scopes))
  <2>1. Nested(visits, Len(scopes))
    BY DEF IInv, VisitsInv
  <2>2. us[1].kind = "program"
    BY <1>2, <1>11, <2>1 DEF Nested
  <2>3. \A i \in 1..n + 1 : us[i].base >= 1 /\ (i > 1 => us[i].kind # "program")
    BY <1>2, <1>4, <1>7, <1>11, <1>12, <2>1 DEF Nested
  <2>4. ASSUME NEW i \in 1..n
        PROVE  Step(us[i]) \in Visiting /\ us[i + 1].base = us[i].base + Own(us[i])
    <3>1. CASE i = n
      BY <1>2, <1>3, <1>7, <1>11, <2>1, <3>1 DEF Nested, Top
    <3>2. CASE i \in 1..n - 1
      <4>1. i + 1 \in 1..n
        BY <1>2, <3>2
      <4> QED
        BY <1>11, <2>1, <3>2, <4>1 DEF Nested
    <3> QED
      BY <1>2, <3>1, <3>2
  <2>5. ASSUME NEW i \in 1..n + 1, NEW k \in 1..n + 1, i < k
        PROVE  us[i].base + Own(us[i]) <= us[k].base
    <3>1. i \in 1..n /\ us[i] = visits[i]
      BY <1>2, <1>11, <2>5
    <3>2. CASE k \in 1..n
      BY <1>11, <2>1, <2>5, <3>1, <3>2 DEF Nested
    <3>3. CASE k = n + 1
      <4>1. us[k].base = visits[n].base + Own(visits[n])
        BY <1>7, <1>11, <2>1, <3>3 DEF Nested
      <4>2. /\ visits[i].base \in Nat /\ visits[n].base \in Nat
            /\ Own(visits[n]) \in {0, 1} /\ Own(visits[i]) \in {0, 1}
        <5>1. visits[i] \in Visits /\ visits[n] \in Visits
          BY <1>2, <3>1
        <5> QED
          BY <5>1, OwnScope DEF Visits
      <4>3. i < n => visits[i].base + Own(visits[i]) <= visits[n].base
        BY <1>2, <2>1, <3>1 DEF Nested
      <4> QED
        BY <1>2, <3>1, <4>1, <4>2, <4>3
    <3> QED
      BY <1>12, <3>2, <3>3
  <2>6. Len(scopes) = us[Len(us)].base + Own(us[Len(us)])
    BY <1>2, <1>7, <1>8, <1>11
  <2> QED
    BY <1>2, <1>11, <2>2, <2>3, <2>4, <2>5, <2>6 DEF Nested
<1>14. \A i \in 1..Len(us) : Values(us[i], error) /\ Refers(us[i], symbols)
  BY <1>10, <1>11, <1>12 DEF IInv, VisitsInv
<1>15. Helpers(us, scopes)
  <2>1. Helpers(visits, scopes)
    BY DEF IInv, VisitsInv
  <2>2. \A i \in 1..n + 1 : Helping(us[i]) => scopes[us[i].base + 1][CF] = us[i].symbol + 1
    BY <1>8, <1>11, <1>12, <2>1 DEF Helpers
  <2>3. ASSUME NEW j \in 1..Len(scopes), scopes[j][CF] # 0
        PROVE  \E i \in 1..n + 1 : Helping(us[i]) /\ j = us[i].base + 1
    <3>1. PICK i \in 1..n : Helping(visits[i]) /\ j = visits[i].base + 1
      BY <2>1, <2>3 DEF Helpers
    <3>2. i \in 1..n + 1
      BY <1>2
    <3> QED
      BY <1>11, <3>1, <3>2
  <2> QED
    BY <1>11, <2>2, <2>3 DEF Helpers
<1>16. VisitsInv(visits', scopes', symbols', error')
  BY <1>1, <1>11, <1>13, <1>14, <1>15 DEF VisitsInv, us, v, accept
<1>17. Published(Top', symbols')
  <2>1. ~ Unpublished(Top)
    BY <1>2, <1>3, Basics, Waiting DEF Grown
  <2> QED
    BY <2>1, Basics DEF Published, accept
<1>18. Others' /\ TablesInv(scopes', symbols')
  BY <1>2, <1>3 DEF accept, Others, IInv
<1> QED
  BY <1>16, <1>17, <1>18 DEF IInv

(* A visitor goes on to its next step.                                      *)
LEMMA NextStep ==
  ASSUME IInv, Step(Top) \in {"open", "close", "publish", "declare_helper"}
  PROVE  LET w == Advanced(Top)
         IN  /\ w \in Visits /\ w.kind = Top.kind /\ w.base = Top.base
             /\ w.symbol = Top.symbol /\ w.at = Top.at + 1 /\ Values(w, error)
<1> DEFINE w == Advanced(Top)
<1>1. Top \in Visits /\ Top.at \in Nat \ {0} /\ Top.kind \in Kinds /\ Values(Top, error)
  BY Basics
<1>2. /\ w \in Visits /\ w.kind = Top.kind /\ w.name = Top.name /\ w.type = Top.type
      /\ w.symbol = Top.symbol /\ w.base = Top.base /\ w.vals = Top.vals
      /\ w.at = Top.at + 1
  BY <1>1 DEF Advanced, Visits
<1> HIDE DEF w
<1>3. Top.kind \notin Unary \cup Binary
  <2>1. Top.kind \notin Binary
    BY Basics DEF ValueSteps, Valued
  <2>2. Top.kind \notin Unary
    BY <1>1, Basics DEF Unary, Steps, ir_visitor, factor, decl_with_asign, assign,
                           print_sem, return_statement
  <2> QED
    BY <2>1, <2>2
<1>4. Values(w, error)
  BY <1>1, <1>2, <1>3 DEF Values
<1> QED
  BY <1>2, <1>4 DEF w

LEMMA OpenStep ==
  ASSUME IInv, symbol_table_add_scope
  PROVE  IInv'
<1> DEFINE n == Len(visits)
           w == Advanced(Top)
<1>1. /\ w \in Visits /\ w.kind = Top.kind /\ w.base = Top.base
      /\ w.symbol = Top.symbol /\ w.at = Top.at + 1 /\ Values(w, error)
  BY NextStep DEF symbol_table_add_scope, At
<1>2. /\ Top.kind \in Kinds /\ Top.at \in Nat \ {0} /\ Steps(Top.kind, Top.at) = "open"
      /\ Top.at \notin Inside(Top.kind) /\ w.at \in Inside(Top.kind)
  BY <1>1, Basics DEF symbol_table_add_scope, At, ScopeSteps
<1> HIDE DEF w
<1>3. Own(Top) = 0 /\ Own(w) = 1 /\ ~ Helping(Top)
  BY <1>1, <1>2 DEF Own, Helping
<1>4. Top.kind \in Functions => Top.at = 1 \/ Top.at = 2
  <2>1. Top.kind \in Functions => Top.at < 4
    BY <1>2 DEF Functions, Steps, ir_visitor, function_decl, function_decl_gets_nothing
  <2>2. Top.kind \in Functions => Top.at # 3
    BY <1>2, Basics DEF FunctionSteps, symbol_table_add_scope, At
  <2> QED
    BY <1>2, <2>1, <2>2
<1>5. Top.kind \in Functions => Top.at = 2
  BY <1>2, <1>4, Basics DEF CheckedSteps
<1>6. ~ Helping(w) /\ (Unpublished(Top) => Unpublished(w))
  BY <1>1, <1>2, <1>5 DEF Helping, Unpublished, Functions
<1>7. Refers(w, symbols)
  BY <1>1, <1>2, <1>5, Basics DEF Refers, CheckedSteps, Functions, Calls
<1>8. /\ visits' = [visits EXCEPT ![n] = w] /\ scopes' = Append(scopes, scope_init)
      /\ symbols' = symbols /\ error' = error /\ Others'
  BY DEF symbol_table_add_scope, WithTop, w, Others, IInv
<1>9. /\ scopes \in Seq([Identifiers -> Nat]) /\ Len(scopes) \in Nat /\ Len(symbols) \in Nat
      /\ scope_init \in [Identifiers -> Nat] /\ n \in Nat
  BY Basics DEF IInv, TablesInv, scope_init
<1>10. /\ scopes' \in Seq([Identifiers -> Nat]) /\ scopes' # <<>> /\ Len(scopes') = Len(scopes) + 1
       /\ \A j \in 1..Len(scopes) : scopes'[j] = scopes[j]
       /\ scopes'[Len(scopes) + 1] = scope_init
  BY <1>8, <1>9, AppendProperties
<1>11. \A j \in 1..Len(scopes') : j \in 1..Len(scopes) \/ j = Len(scopes) + 1
  BY <1>9, <1>10
<1>12. \A m \in Identifiers : scope_init[m] = 0
  BY DEF scope_init
<1>13. TablesInv(scopes', symbols')
  BY <1>8, <1>9, <1>10, <1>11, <1>12 DEF IInv, TablesInv
<1>14. /\ visits' \in Seq(Visits) /\ visits' # <<>> /\ Len(visits') = n
       /\ visits'[n] = w /\ \A i \in 1..n - 1 : visits'[i] = visits[i]
       /\ Nested(visits', w.base + Own(w))
       /\ \A i \in 1..Len(visits') : Values(visits'[i], error) /\ Refers(visits'[i], symbols)
  <2>1. error \in BOOLEAN /\ Grown(symbols, symbols)
    BY Basics DEF Grown
  <2>2. VisitsInv(visits, scopes, symbols, error)
    BY DEF IInv
  <2>3. w.kind = visits[n].kind /\ w.base = visits[n].base /\ w \in Visits
    BY <1>1 DEF Top
  <2>4. Values(w, error) /\ Refers(w, symbols)
    BY <1>1, <1>7
  <2> DEFINE us == [visits EXCEPT ![n] = w]
  <2>5. /\ us \in Seq(Visits) /\ us # <<>> /\ Len(us) = n
        /\ us[n] = w /\ \A i \in 1..n - 1 : us[i] = visits[i]
        /\ Nested(us, w.base + Own(w))
        /\ \A i \in 1..Len(us) : Values(us[i], error) /\ Refers(us[i], symbols)
    BY <2>1, <2>2, <2>3, <2>4, TopReplaced
  <2>6. visits' = us
    BY <1>8
  <2> HIDE DEF us
  <2> QED
    BY <2>5, <2>6
<1>15. w.base + Own(w) = Len(scopes')
  BY <1>1, <1>3, <1>10, Basics
<1>16. \A i \in 1..n : i = n \/ i \in 1..n - 1
  BY <1>9
<1>17. Helpers(visits', scopes')
  <2>0. CF \in Identifiers
    BY DEF Identifiers, CF
  <2>1. ASSUME NEW i \in 1..n, Helping(visits'[i])
        PROVE  scopes'[visits'[i].base + 1][CF] = visits'[i].symbol + 1
    <3>1. visits'[i] = visits[i] /\ Helping(visits[i])
      BY <1>6, <1>14, <1>16, <2>1
    <3>2. visits[i].base + 1 \in 1..Len(scopes)
      BY <3>1, HelperScope DEF IInv
    <3> QED
      BY <1>10, <3>1, <3>2 DEF IInv, VisitsInv, Helpers
  <2>2. ASSUME NEW j \in 1..Len(scopes'), scopes'[j][CF] # 0
        PROVE  \E i \in 1..n : Helping(visits'[i]) /\ j = visits'[i].base + 1
    <3>1. j \in 1..Len(scopes) /\ scopes[j][CF] # 0
      BY <1>10, <1>11, <1>12, <2>0, <2>2
    <3>2. PICK i \in 1..n : Helping(visits[i]) /\ j = visits[i].base + 1
      BY <3>1 DEF IInv, VisitsInv, Helpers
    <3>3. visits'[i] = visits[i]
      BY <1>3, <1>14, <1>16, <3>2 DEF Top
    <3> QED
      BY <3>2, <3>3
  <2> QED
    BY <1>14, <2>1, <2>2 DEF Helpers
<1>18. VisitsInv(visits', scopes', symbols', error')
  BY <1>8, <1>14, <1>15, <1>17 DEF VisitsInv
<1>19. Published(Top', symbols')
  BY <1>1, <1>6, <1>8, <1>14, Basics DEF Published, Top
<1> QED
  BY <1>8, <1>13, <1>18, <1>19 DEF IInv

LEMMA CloseStep ==
  ASSUME IInv, symbol_table_remove_scope
  PROVE  IInv'
<1> DEFINE n == Len(visits)
           w == Advanced(Top)
           d == Len(scopes)
<1>1. /\ w \in Visits /\ w.kind = Top.kind /\ w.base = Top.base
      /\ w.symbol = Top.symbol /\ w.at = Top.at + 1 /\ Values(w, error)
  BY NextStep DEF symbol_table_remove_scope, At
<1>2. /\ Top.kind \in Kinds /\ Top.at \in Nat \ {0} /\ Steps(Top.kind, Top.at) = "close"
      /\ Top.at \in Inside(Top.kind) /\ w.at \notin Inside(Top.kind)
  BY <1>1, Basics DEF symbol_table_remove_scope, At, ScopeSteps
<1> HIDE DEF w
<1>3. Own(Top) = 1 /\ Own(w) = 0 /\ ~ Helping(w)
  BY <1>1, <1>2 DEF Own, Helping
<1>4. Top.kind \in Functions => Top.at > 6
  BY <1>2 DEF Functions, Steps, ir_visitor, function_decl, function_decl_gets_nothing, Inside
<1>5. ~ Unpublished(Top)
  BY <1>2, <1>4 DEF Unpublished, Functions
<1>6. Refers(w, symbols)
  BY <1>1, <1>2, <1>4, Basics DEF Refers, CheckedSteps, Functions, Calls, Inside
<1>7. /\ visits' = [visits EXCEPT ![n] = w] /\ scopes' = SubSeq(scopes, 1, d - 1)
      /\ symbols' = symbols /\ error' = error /\ Others'
  BY DEF symbol_table_remove_scope, WithTop, w, Others, IInv
<1>8. /\ scopes \in Seq([Identifiers -> Nat]) /\ d \in Nat /\ Len(symbols) \in Nat
      /\ n \in Nat \ {0} /\ Top.base \in Nat /\ d = Top.base + 1
  BY <1>3, Basics DEF IInv, TablesInv
<1>9. Top.base >= 1
  BY <1>8 DEF IInv, VisitsInv, Nested, Top
<1>10. /\ scopes' \in Seq([Identifiers -> Nat]) /\ Len(scopes') = d - 1
       /\ \A j \in 1..d - 1 : scopes'[j] = scopes[j]
  <2>1. \A j \in 1..d - 1 : scopes[j] \in [Identifiers -> Nat]
    BY <1>8
  <2> QED
    BY <1>7, <1>8, <1>9, <2>1, SubSeqProperties
<1>11. TablesInv(scopes', symbols')
  <2>1. \A j \in 1..d - 1 : j \in 1..d
    BY <1>8
  <2>2. \A j \in 1..Len(scopes'), m \in Identifiers : scopes'[j][m] \in 0..Len(symbols)
    BY <1>10, <2>1 DEF IInv, TablesInv
  <2>3. scopes' # <<>>
    BY <1>8, <1>9, <1>10
  <2> QED
    BY <1>7, <1>10, <2>2, <2>3 DEF IInv, TablesInv
<1>12. /\ visits' \in Seq(Visits) /\ visits' # <<>> /\ Len(visits') = n
       /\ visits'[n] = w /\ \A i \in 1..n - 1 : visits'[i] = visits[i]
       /\ Nested(visits', w.base + Own(w))
       /\ \A i \in 1..Len(visits') : Values(visits'[i], error) /\ Refers(visits'[i], symbols)
  <2> DEFINE us == [visits EXCEPT ![n] = w]
  <2>1. error \in BOOLEAN /\ Grown(symbols, symbols)
    BY Basics DEF Grown
  <2>2. VisitsInv(visits, scopes, symbols, error)
    BY DEF IInv
  <2>3. w.kind = visits[n].kind /\ w.base = visits[n].base /\ w \in Visits
    BY <1>1 DEF Top
  <2>4. Values(w, error) /\ Refers(w, symbols)
    BY <1>1, <1>6
  <2>5. /\ us \in Seq(Visits) /\ us # <<>> /\ Len(us) = n
        /\ us[n] = w /\ \A i \in 1..n - 1 : us[i] = visits[i]
        /\ Nested(us, w.base + Own(w))
        /\ \A i \in 1..Len(us) : Values(us[i], error) /\ Refers(us[i], symbols)
    BY <2>1, <2>2, <2>3, <2>4, TopReplaced
  <2>6. visits' = us
    BY <1>7
  <2> HIDE DEF us
  <2> QED
    BY <2>5, <2>6
<1>13. w.base + Own(w) = Len(scopes')
  BY <1>1, <1>3, <1>8, <1>10
<1>14. \A i \in 1..n : i = n \/ i \in 1..n - 1
  BY <1>8
<1>15. Helpers(visits', scopes')
  <2>1. ASSUME NEW i \in 1..n, Helping(visits'[i])
        PROVE  scopes'[visits'[i].base + 1][CF] = visits'[i].symbol + 1
    <3>1. i \in 1..n - 1 /\ visits'[i] = visits[i] /\ Helping(visits[i])
      BY <1>3, <1>12, <1>14, <2>1
    <3>2. i < n
      BY <1>8, <3>1
    <3>3. visits[i].base + 1 \in 1..d /\ visits[i].base + 1 <= Top.base
      BY <3>1, <3>2, HelperScope DEF IInv, Top
    <3>4. visits[i].base + 1 \in 1..d - 1
      BY <1>8, <3>3
    <3> QED
      BY <1>10, <3>1, <3>4 DEF IInv, VisitsInv, Helpers
  <2>2. ASSUME NEW j \in 1..Len(scopes'), scopes'[j][CF] # 0
        PROVE  \E i \in 1..n : Helping(visits'[i]) /\ j = visits'[i].base + 1
    <3>1. j \in 1..d /\ j \in 1..d - 1 /\ scopes[j][CF] # 0
      <4>1. j \in 1..d - 1
        BY <1>10
      <4>2. scopes'[j] = scopes[j]
        BY <1>10, <4>1
      <4> QED
        BY <1>8, <2>2, <4>1, <4>2
    <3>2. PICK i \in 1..n : Helping(visits[i]) /\ j = visits[i].base + 1
      BY <3>1 DEF IInv, VisitsInv, Helpers
    <3>3. i # n
      BY <1>8, <3>1, <3>2 DEF Top
    <3>4. visits'[i] = visits[i]
      BY <1>12, <1>14, <3>3
    <3> QED
      BY <3>2, <3>4
  <2> QED
    BY <1>12, <2>1, <2>2 DEF Helpers
<1>16. VisitsInv(visits', scopes', symbols', error')
  BY <1>7, <1>12, <1>13, <1>15 DEF VisitsInv
<1>17. Published(Top', symbols')
  BY <1>5, <1>7, Basics DEF Published
<1> QED
  BY <1>7, <1>11, <1>16, <1>17 DEF IInv

(* The symbols with more parameters recorded.                               *)
SameSymbols(sy) ==
  /\ sy \in Seq(Symbols) /\ Len(sy) = Len(symbols)
  /\ \A s \in 1..Len(symbols) : /\ sy[s].name = symbols[s].name /\ sy[s].kind = symbols[s].kind
                                /\ sy[s].type = symbols[s].type /\ sy[s].info = symbols[s].info
                                /\ sy[s].path = symbols[s].path

(* A new symbol, in the innermost scope.                                    *)
LEMMA Adding ==
  ASSUME IInv, NEW sy, SameSymbols(sy), NEW m \in Identifiers, NEW new \in Symbols,
         new.type # "UNKNOWN", new.info \in {0, Len(symbols) + 1},
         new.name = CF => new.info = Len(symbols) + 1
  PROVE  /\ TablesInv(AddedTo(m), Append(sy, new)) /\ Grown(symbols, Append(sy, new))
         /\ Len(Append(sy, new)) = Len(symbols) + 1
         /\ Append(sy, new)[Len(symbols) + 1] = new
         /\ \A s \in 1..Len(symbols) : Append(sy, new)[s] = sy[s]
         /\ Len(AddedTo(m)) = Len(scopes)
         /\ \A j \in 1..Len(scopes), k \in Identifiers :
              AddedTo(m)[j][k] = IF j = Len(scopes) /\ k = m THEN Len(symbols) + 1
                                                            ELSE scopes[j][k]
<1> DEFINE sy2 == Append(sy, new)
           d   == Len(scopes)
           sc2 == AddedTo(m)
<1>1. /\ scopes \in Seq([Identifiers -> Nat]) /\ d \in Nat \ {0} /\ Len(symbols) \in Nat
      /\ d \in 1..d /\ sy \in Seq(Symbols) /\ Len(sy) = Len(symbols)
  BY Basics DEF IInv, TablesInv, SameSymbols
<1>2. /\ sy2 \in Seq(Symbols) /\ Len(sy2) = Len(symbols) + 1 /\ sy2[Len(symbols) + 1] = new
      /\ \A s \in 1..Len(symbols) : sy2[s] = sy[s]
  BY <1>1, AppendProperties
<1> HIDE DEF sy2
<1>3. \A s \in 1..Len(symbols) + 1 : s \in 1..Len(symbols) \/ s = Len(symbols) + 1
  BY <1>1
<1>4. Grown(symbols, sy2)
  BY <1>1, <1>2 DEF Grown, SameSymbols
<1>5. \A s \in 1..Len(sy2) : /\ sy2[s].info \in 0..Len(sy2)
                             /\ sy2[s].type # "UNKNOWN"
                             /\ sy2[s].name = CF => sy2[s].info = s
  <2>1. \A s \in 1..Len(symbols) : /\ symbols[s].info \in 0..Len(symbols)
                                   /\ symbols[s].type # "UNKNOWN"
                                   /\ symbols[s].name = CF => symbols[s].info = s
    BY DEF IInv, TablesInv
  <2>2. \A s \in 1..Len(symbols) : /\ sy2[s].info = symbols[s].info
                                   /\ sy2[s].type = symbols[s].type
                                   /\ sy2[s].name = symbols[s].name
    BY <1>2 DEF SameSymbols
  <2> SUFFICES ASSUME NEW s \in 1..Len(symbols) + 1
               PROVE  /\ sy2[s].info \in 0..Len(symbols) + 1 /\ sy2[s].type # "UNKNOWN"
                      /\ sy2[s].name = CF => sy2[s].info = s
    BY <1>2
  <2>3. CASE s = Len(symbols) + 1
    BY <1>1, <1>2, <2>3
  <2>4. CASE s \in 1..Len(symbols)
    <3>1. symbols[s].info \in 0..Len(symbols) + 1
      BY <1>1, <2>1, <2>4
    <3>2. sy2[s].info = symbols[s].info
      BY <2>2, <2>4
    <3>3. sy2[s].type # "UNKNOWN" /\ (sy2[s].name = CF => sy2[s].info = s)
      BY <2>1, <2>2, <2>4
    <3> QED
      BY <3>1, <3>2, <3>3
  <2> QED
    BY <1>3, <2>3, <2>4
<1>6. /\ scopes[d] \in [Identifiers -> Nat]
      /\ sc2 = [scopes EXCEPT ![d] = [scopes[d] EXCEPT ![m] = Len(symbols) + 1]]
  BY <1>1 DEF AddedTo
<1>7. [scopes[d] EXCEPT ![m] = Len(symbols) + 1] \in [Identifiers -> Nat]
  BY <1>1, <1>6
<1>8. /\ sc2 \in Seq([Identifiers -> Nat]) /\ Len(sc2) = d
      /\ \A j \in 1..d : sc2[j] = IF j = d THEN [scopes[d] EXCEPT ![m] = Len(symbols) + 1]
                                           ELSE scopes[j]
  BY <1>1, <1>6, <1>7, ExceptSeq
<1> HIDE DEF sc2
<1>9. \A j \in 1..d, k \in Identifiers :
        sc2[j][k] = IF j = d /\ k = m THEN Len(symbols) + 1 ELSE scopes[j][k]
  BY <1>6, <1>8
<1>10. \A j \in 1..d, k \in Identifiers : sc2[j][k] \in 0..Len(sy2)
  <2> SUFFICES ASSUME NEW j \in 1..d, NEW k \in Identifiers
               PROVE  sc2[j][k] \in 0..Len(symbols) + 1
    BY <1>2
  <2>1. scopes[j][k] \in 0..Len(symbols)
    BY DEF IInv, TablesInv
  <2>2. sc2[j][k] = Len(symbols) + 1 \/ sc2[j][k] = scopes[j][k]
    BY <1>9
  <2> QED
    BY <1>1, <2>1, <2>2
<1>11. TablesInv(sc2, sy2)
  <2>1. sc2 # <<>>
    BY <1>1, <1>8
  <2> QED
    BY <1>2, <1>5, <1>8, <1>10, <2>1 DEF TablesInv
<1> QED
  BY <1>2, <1>4, <1>8, <1>9, <1>11 DEF sy2, sc2

LEMMA NewSymbol ==
  ASSUME IInv, NEW m \in Identifiers, NEW kind \in {"VARIABLE", "FUNCTION"}, NEW t \in DataTypes,
         NEW k \in 0..Len(visits)
  PROVE  /\ Symbol(m, kind, t, Path(k)) \in Symbols
         /\ Symbol(m, kind, t, Path(k)).type = t /\ Symbol(m, kind, t, Path(k)).info = 0
         /\ Symbol(m, kind, t, Path(k)).name = m /\ Symbol(m, kind, t, Path(k)).kind = kind
<1>1. k \in Nat /\ \A i \in 1..k : visits[i] \in Visits
  BY Basics
<1>2. \A i \in 1..k : Place(visits[i]) \in Places
  BY <1>1 DEF Place, Visits, Places
<1>3. Path(k) \in Seq(Places)
  <2> DEFINE place(i) == Place(visits[i])
  <2>1. \A i \in 1..k : place(i) \in Places
    BY <1>2
  <2>2. Path(k) = [i \in 1..k |-> place(i)]
    BY DEF Path
  <2> HIDE DEF place
  <2> QED
    BY <1>1, <2>1, <2>2, IsASeq
<1>4. <<>> \in Seq(VariableTypes)
  OBVIOUS
<1> QED
  BY <1>3, <1>4 DEF Symbol, Symbols

LEMMA NotHelper ==
  ASSUME NEW n \in Names
  PROVE  n \in Identifiers /\ n # CF
BY NamesAssumption DEF Identifiers, CF

(* A visitor that adds a name to the innermost scope, which is no helper.   *)
LEMMA Declares ==
  ASSUME IInv, NEW sy, SameSymbols(sy), NEW n \in Names, NEW new \in Symbols, new.name = n,
         new.type # "UNKNOWN", new.info = 0, new.kind = "FUNCTION" => Top.at = 1,
         NEW w, Follows(Top, w), Values(w, error'), Refers(w, Append(sy, new)),
         new.kind = "FUNCTION" => Unpublished(w) /\ w.symbol = Len(symbols) + 1,
         error => error', Others', visits' = WithTop(w), scopes' = AddedTo(n),
         symbols' = Append(sy, new)
  PROVE  IInv'
<1>1. n \in Identifiers /\ n # CF /\ CF \in Identifiers
  BY NotHelper DEF Identifiers, CF
<1>2. /\ TablesInv(AddedTo(n), Append(sy, new)) /\ Grown(symbols, Append(sy, new))
      /\ Len(Append(sy, new)) = Len(symbols) + 1
      /\ Append(sy, new)[Len(symbols) + 1] = new
      /\ \A s \in 1..Len(symbols) : Append(sy, new)[s] = sy[s]
      /\ Len(AddedTo(n)) = Len(scopes)
      /\ \A j \in 1..Len(scopes), k \in Identifiers :
           AddedTo(n)[j][k] = IF j = Len(scopes) /\ k = n THEN Len(symbols) + 1
                                                         ELSE scopes[j][k]
  BY <1>1, Adding
<1>3. SameHelpers(scopes, AddedTo(n))
  BY <1>1, <1>2 DEF SameHelpers
<1>4. error \in BOOLEAN /\ error' \in BOOLEAN
  BY Basics DEF Others
<1>5. VisitsInv([visits EXCEPT ![Len(visits)] = w], AddedTo(n), Append(sy, new), error')
  BY <1>2, <1>3, <1>4, TopGoesOn DEF Top, IInv, Follows
<1>6. VisitsInv(visits', scopes', symbols', error')
  BY <1>5 DEF WithTop
<1>7. Top' = w
  BY Basics DEF Top, WithTop
<1>8. Published(w, Append(sy, new))
  <2> SUFFICES ASSUME NEW s \in 1..Len(symbols) + 1, Append(sy, new)[s].kind = "FUNCTION",
                      Append(sy, new)[s].info = 0
               PROVE  Unpublished(w) /\ s = w.symbol
    BY <1>2 DEF Published
  <2>1. CASE s = Len(symbols) + 1
    BY <1>2, <2>1
  <2>2. CASE s \in 1..Len(symbols)
    <3>1. symbols[s].kind = "FUNCTION" /\ symbols[s].info = 0
      BY <1>2, <2>2 DEF SameSymbols
    <3>2. Unpublished(Top) /\ s = Top.symbol
      BY <2>2, <3>1, Basics DEF Published
    <3> QED
      BY <3>2 DEF Follows, InPlace
  <2> QED
    BY <2>1, <2>2, Basics
<1> QED
  BY <1>2, <1>6, <1>7, <1>8 DEF IInv

LEMMA DeclareStep ==
  ASSUME IInv, create_new_variable
  PROVE  IInv'
<1>1. Step(Top) = "declare"
  BY DEF create_new_variable, At
<1>2. CASE ~ CanAdd(Top.name)
  BY <1>1, <1>2, Refused DEF create_new_variable, Checked
<1>3. CASE CanAdd(Top.name)
  <2> DEFINE n   == Top.name
             new == Symbol(n, "VARIABLE", Top.type, Path(Len(visits) - 1))
             w   == Advanced(Top)
  <2>1. /\ Top \in Visits /\ Top.at = 1 /\ Top.kind \in Kinds /\ Top.kind \in Named
        /\ Top.kind \notin Functions \cup Calls \cup {"assign", "get_sementic"}
        /\ 1 \notin Inside(Top.kind) /\ 2 \notin Inside(Top.kind)
        /\ Values(Top, error) /\ Refers(Top, symbols) /\ Len(symbols) \in Nat
    BY <1>1, Basics DEF CheckedSteps, ScopeSteps, Checked
  <2>2. n \in Names /\ Top.type \in VariableTypes \cup {"NONE"}
    BY <2>1 DEF Values
  <2>3. Len(visits) - 1 \in 0..Len(visits) /\ Top.type \in DataTypes /\ Top.type # "UNKNOWN"
    BY <2>2, Basics DEF VariableTypes, DataTypes
  <2>4. /\ new \in Symbols /\ new.type = Top.type /\ new.info = 0 /\ new.name = n
        /\ new.kind = "VARIABLE"
    BY <2>2, <2>3, NewSymbol, NotHelper
  <2> HIDE DEF new
  <2>5. /\ w \in Visits /\ w.kind = Top.kind /\ w.name = n /\ w.type = Top.type /\ w.at = 2
        /\ w.symbol = Top.symbol /\ w.base = Top.base /\ w.vals = Top.vals
        /\ Step(w) = Steps(Top.kind, 2)
    BY <2>1 DEF Advanced, Visits, Step, Steps
  <2> HIDE DEF w
  <2>6. Follows(Top, w)
    BY <2>1, <2>5 DEF Follows, InPlace, Own, Helping, Unpublished, Functions
  <2>7. Values(w, error)
    <3>1. w.kind \in Unary => Step(w) # "leave"
      BY <2>1, <2>5 DEF Unary, Named, Functions, Calls, Steps, ir_visitor, decl_with_asign
    <3>2. w.kind \notin Binary
      BY <2>1, <2>5 DEF Binary, Named, Functions, Calls
    <3> QED
      BY <2>1, <2>5, <3>1, <3>2 DEF Values
  <2>8. /\ SameSymbols(symbols) /\ symbols \in Seq(Symbols)
        /\ Len(Append(symbols, new)) = Len(symbols) + 1
    BY <2>4 DEF SameSymbols, IInv, TablesInv
  <2>9. Refers(w, Append(symbols, new))
    BY <2>1, <2>5, <2>8 DEF Refers
  <2>10. /\ visits' = WithTop(w) /\ scopes' = AddedTo(n) /\ symbols' = Append(symbols, new)
         /\ error' = error /\ Others'
    BY <1>3 DEF create_new_variable, w, new, Others, IInv
  <2> QED
    BY <2>2, <2>3, <2>4, <2>6, <2>7, <2>8, <2>9, <2>10, Declares
<1> QED
  BY <1>2, <1>3

LEMMA DeclareFunctionStep ==
  ASSUME IInv, DeclareFunction
  PROVE  IInv'
<1>1. Step(Top) = "declare_function"
  BY DEF DeclareFunction, At
<1>2. CASE ~ CanAdd(Top.name)
  BY <1>1, <1>2, Refused DEF DeclareFunction, Checked
<1>3. CASE CanAdd(Top.name)
  <2> DEFINE n   == Top.name
             new == Symbol(n, "FUNCTION", Top.type, Path(Len(visits) - 1))
             w   == [Advanced(Top) EXCEPT !.symbol = Len(symbols) + 1]
  <2>1. /\ Top \in Visits /\ Top.at = 1 /\ Top.kind \in Kinds /\ Top.kind \in Functions
        /\ Values(Top, error) /\ Len(symbols) \in Nat
    BY <1>1, Basics DEF CheckedSteps, Checked
  <2>2. n \in Names /\ Top.type \in VariableTypes \cup {"NONE"}
    BY <2>1 DEF Values, Named
  <2>3. Len(visits) - 1 \in 0..Len(visits) /\ Top.type \in DataTypes /\ Top.type # "UNKNOWN"
    BY <2>2, Basics DEF VariableTypes, DataTypes
  <2>4. /\ new \in Symbols /\ new.type = Top.type /\ new.info = 0 /\ new.name = n
        /\ new.kind = "FUNCTION"
    BY <2>2, <2>3, NewSymbol, NotHelper
  <2> HIDE DEF new
  <2>5. /\ w \in Visits /\ w.kind = Top.kind /\ w.name = n /\ w.type = Top.type /\ w.at = 2
        /\ w.symbol = Len(symbols) + 1 /\ w.base = Top.base /\ w.vals = Top.vals
    <3>1. Len(symbols) + 1 \in Nat
      BY <2>1
    <3>2. /\ w \in Visits /\ w.kind = Top.kind /\ w.name = Top.name /\ w.type = Top.type
          /\ w.symbol = Len(symbols) + 1 /\ w.base = Top.base /\ w.vals = Top.vals
          /\ w.at = Top.at + 1
      BY <2>1, <3>1, AdvancedVisit
    <3> HIDE DEF w
    <3> QED
      BY <2>1, <3>2
  <2> HIDE DEF w
  <2>6. Follows(Top, w) /\ Unpublished(w)
    BY <2>1, <2>5 DEF Follows, InPlace, Own, Helping, Unpublished, Functions, Inside
  <2>7. Values(w, error)
    BY <2>1, <2>5 DEF Values, Functions, Unary, Binary
  <2>8. /\ SameSymbols(symbols) /\ symbols \in Seq(Symbols)
        /\ Len(Append(symbols, new)) = Len(symbols) + 1
        /\ Append(symbols, new)[Len(symbols) + 1] = new
    BY <2>4 DEF SameSymbols, IInv, TablesInv
  <2>9. Refers(w, Append(symbols, new))
    BY <2>1, <2>2, <2>4, <2>5, <2>8, NotHelper DEF Refers
  <2>10. /\ visits' = WithTop(w) /\ scopes' = AddedTo(n) /\ symbols' = Append(symbols, new)
         /\ error' = error /\ Others'
    BY <1>3 DEF DeclareFunction, w, new, Others, IInv
  <2> QED
    BY <2>1, <2>2, <2>3, <2>4, <2>5, <2>6, <2>7, <2>8, <2>9, <2>10, Declares
<1> QED
  BY <1>2, <1>3

(* A parameter is recorded somewhere, if it is declared.                    *)
LEMMA Recorded ==
  ASSUME IInv, NEW k, NEW t \in VariableTypes
  PROVE  SameSymbols([symbols EXCEPT ![k].params = Append(@, t)])
<1> DEFINE sy == [symbols EXCEPT ![k].params = Append(@, t)]
<1> SUFFICES SameSymbols(sy)
  OBVIOUS
<1>1. symbols \in Seq(Symbols) /\ Len(symbols) \in Nat /\ DOMAIN symbols = 1..Len(symbols)
  BY DEF IInv, TablesInv
<1>2. CASE k \notin 1..Len(symbols)
  <2>1. sy = symbols
    BY <1>1, <1>2
  <2> QED
    BY <1>1, <2>1 DEF SameSymbols
<1>3. CASE k \in 1..Len(symbols)
  <2> DEFINE s == [symbols[k] EXCEPT !.params = Append(symbols[k].params, t)]
  <2>1. symbols[k] \in Symbols
    BY <1>1, <1>3
  <2>2. symbols[k].params \in Seq(VariableTypes)
    BY <2>1 DEF Symbols
  <2>3. Append(symbols[k].params, t) \in Seq(VariableTypes)
    BY <2>2
  <2>4. /\ s \in Symbols /\ s.name = symbols[k].name /\ s.kind = symbols[k].kind
        /\ s.type = symbols[k].type /\ s.info = symbols[k].info
        /\ s.path = symbols[k].path
    BY <2>1, <2>3 DEF Symbols
  <2>5. sy = [symbols EXCEPT ![k] = s]
    BY <1>1, <1>3
  <2> HIDE DEF s, sy
  <2>6. /\ sy \in Seq(Symbols) /\ Len(sy) = Len(symbols)
        /\ \A j \in 1..Len(symbols) : sy[j] = IF j = k THEN s ELSE symbols[j]
    BY <1>1, <1>3, <2>4, <2>5, ExceptSeq
  <2> QED
    BY <2>4, <2>6 DEF SameSymbols
<1> QED
  BY <1>2, <1>3

LEMMA ParameterStep ==
  ASSUME IInv, parameter
  PROVE  IInv'
<1> DEFINE w == Given(Top, "NONE")
<1>1. Step(Top) \in {"Parameter", "Parameters"}
  BY DEF parameter, At
<1>2. /\ Top \in Visits /\ Values(Top, error) /\ Refers(Top, symbols) /\ error \in BOOLEAN
      /\ Top.kind = "function_decl" /\ Top.at \in 4..5 /\ Top.at \in Inside(Top.kind)
      /\ Len(symbols) \in Nat /\ Len(visits) \in Nat
  BY <1>1, Basics DEF FunctionSteps
<1>3. Helping(Top)
  BY <1>2 DEF Helping, Functions
<1>4. visits' = WithTop(w)
  BY DEF parameter
<1>5. PICK n \in Names, t \in VariableTypes :
        IF CanAdd(n)
          THEN LET h == symbol_table_lookup_symbol(CURRENT_FUNCTION_SYMBOL) IN
               /\ scopes' = AddedTo(n)
               /\ symbols' = Append([symbols EXCEPT ![symbols[h].info].params = Append(@, t)],
                                    Symbol(n, "VARIABLE", t, Path(Len(visits))))
               /\ UNCHANGED error
          ELSE error' = TRUE /\ UNCHANGED <<scopes, symbols>>
  BY DEF parameter
<1>6. /\ Follows(Top, w) /\ Values(w, error) /\ Values(w, TRUE) /\ Refers(w, symbols)
  <2>1. "NONE" \in DataTypes /\ "NONE" # "UNKNOWN"
    BY DEF DataTypes
  <2> QED
    BY <1>1, <1>2, <2>1, GivenVisit
<1>7. Others'
  BY <1>2, <1>5 DEF parameter, Others, IInv
<1> HIDE DEF w
<1>8. CASE CanAdd(n)
  <2> DEFINE h   == symbol_table_lookup_symbol(CURRENT_FUNCTION_SYMBOL)
             sy  == [symbols EXCEPT ![symbols[h].info].params = Append(@, t)]
             new == Symbol(n, "VARIABLE", t, Path(Len(visits)))
  <2>1. scopes' = AddedTo(n) /\ symbols' = Append(sy, new) /\ error' = error
    BY <1>5, <1>8
  <2>2. SameSymbols(sy)
    BY Recorded
  <2>3. t \in DataTypes /\ t # "UNKNOWN" /\ Len(visits) \in 0..Len(visits)
    BY <1>2 DEF VariableTypes, DataTypes
  <2>4. /\ new \in Symbols /\ new.type = t /\ new.info = 0 /\ new.name = n
        /\ new.kind = "VARIABLE"
    BY <2>3, NewSymbol, NotHelper
  <2> HIDE DEF sy, new
  <2>5. /\ Len(Append(sy, new)) = Len(symbols) + 1
        /\ \A s \in 1..Len(symbols) : Append(sy, new)[s].name = symbols[s].name
    BY <2>2, <2>4, AppendProperties DEF SameSymbols
  <2>6. Refers(w, Append(sy, new))
    <3>1. /\ w.kind = "function_decl" /\ w.at > 3 /\ w.at \in Nat
          /\ w.symbol \in 0..Len(symbols)
      <4>1. Helping(w)
        BY <1>3, <1>6 DEF Follows, InPlace
      <4> QED
        BY <1>2, <1>6, <4>1 DEF Follows, InPlace, Refers, Helping, Visits
    <3>2. /\ w.symbol # 0 /\ w.symbol < Len(symbols) /\ symbols[w.symbol].name # CF
          /\ symbols[w.symbol + 1].name = CF
      BY <1>6, <3>1 DEF Refers, Functions
    <3>3. w.symbol \in 1..Len(symbols) /\ w.symbol + 1 \in 1..Len(symbols)
      BY <1>2, <3>1, <3>2
    <3>4. /\ Append(sy, new)[w.symbol].name = symbols[w.symbol].name
          /\ Append(sy, new)[w.symbol + 1].name = CF
      BY <2>5, <3>2, <3>3
    <3> QED
      BY <1>2, <2>5, <3>1, <3>2, <3>3, <3>4 DEF Refers, Functions, Calls
  <2> QED
    BY <1>4, <1>6, <1>7, <2>1, <2>2, <2>3, <2>4, <2>6, Declares
<1>9. CASE ~ CanAdd(n)
  <2>1. error' = TRUE /\ UNCHANGED <<scopes, symbols>>
    BY <1>5, <1>9
  <2> QED
    BY <1>4, <1>6, <1>7, <2>1, KeepsTables
<1> QED
  BY <1>8, <1>9

LEMMA PublishStep ==
  ASSUME IInv, PublishParameters
  PROVE  IInv'
<1> DEFINE w  == Advanced(Top)
           f  == Top.symbol
           sy == [symbols EXCEPT ![f].info = symbols[f + 1].info]
<1>1. /\ w \in Visits /\ w.kind = Top.kind /\ w.base = Top.base
      /\ w.symbol = Top.symbol /\ w.at = Top.at + 1 /\ Values(w, error)
  BY NextStep DEF PublishParameters, At
<1>2. /\ Top.kind \in Functions /\ Top.at > 3 /\ Top.at \in Inside(Top.kind)
      /\ w.at \in Inside(Top.kind) /\ Top.at \in Nat
      /\ error \in BOOLEAN /\ Len(symbols) \in Nat
  <2>1. /\ Step(Top) = "publish" /\ Top.kind \in Kinds /\ Top.at \in Nat
        /\ error \in BOOLEAN /\ Len(symbols) \in Nat
    BY Basics DEF PublishParameters, At
  <2>2. \/ Top.kind = "function_decl" /\ Top.at = 6
        \/ Top.kind = "function_decl_gets_nothing" /\ Top.at = 4
    BY <2>1, Basics DEF FunctionSteps
  <2> QED
    BY <1>1, <2>1, <2>2 DEF Functions, Inside
<1> HIDE DEF w
<1>3. f \in 1..Len(symbols) /\ f + 1 \in 1..Len(symbols)
      /\ symbols[f + 1].name = CF /\ symbols[f].name # CF
  BY <1>2, Basics DEF Refers
<1>4. symbols[f + 1].info = f + 1
  BY <1>3 DEF IInv, TablesInv
<1>5. /\ symbols \in Seq(Symbols) /\ symbols[f] \in Symbols
      /\ \A s \in 1..Len(symbols) : /\ symbols[s].info \in 0..Len(symbols)
                                    /\ symbols[s].type # "UNKNOWN"
                                    /\ symbols[s].name = CF => symbols[s].info = s
  BY <1>3 DEF IInv, TablesInv
<1> DEFINE new == [symbols[f] EXCEPT !.info = f + 1]
<1>6. /\ new \in Symbols /\ new.name = symbols[f].name /\ new.kind = symbols[f].kind
      /\ new.type = symbols[f].type /\ new.info = f + 1
  <2>1. f + 1 \in Nat
    BY <1>3
  <2> QED
    BY <1>5, <2>1 DEF Symbols
<1>7. sy = [symbols EXCEPT ![f] = new]
  BY <1>3, <1>4, <1>5
<1> HIDE DEF new, sy
<1>8. /\ sy \in Seq(Symbols) /\ Len(sy) = Len(symbols)
      /\ \A s \in 1..Len(symbols) : sy[s] = IF s = f THEN new ELSE symbols[s]
  BY <1>3, <1>5, <1>6, <1>7, ExceptSeq
<1>9. \A s \in 1..Len(symbols) : sy[s].name = symbols[s].name /\ sy[s].kind = symbols[s].kind
  BY <1>6, <1>8
<1>10. Grown(symbols, sy) /\ SameHelpers(scopes, scopes)
  BY <1>2, <1>8, <1>9 DEF Grown, SameHelpers
<1>11. /\ visits' = [visits EXCEPT ![Len(visits)] = w] /\ scopes' = scopes /\ symbols' = sy
       /\ error' = error /\ Others'
  BY DEF PublishParameters, WithTop, w, sy, Others, IInv
<1>12. InPlace(Top, w)
  BY <1>1, <1>2 DEF InPlace, Own, Helping
<1>13. Refers(w, sy)
  BY <1>1, <1>2, <1>3, <1>8, <1>9 DEF Refers
<1>14. VisitsInv([visits EXCEPT ![Len(visits)] = w], scopes, sy, error)
  BY <1>1, <1>2, <1>10, <1>12, <1>13, TopGoesOn DEF Top, IInv
<1>15. TablesInv(scopes, sy)
  <2>1. \A s \in 1..Len(sy) : /\ sy[s].info \in 0..Len(sy)
                              /\ sy[s].type # "UNKNOWN"
                              /\ sy[s].name = CF => sy[s].info = s
    BY <1>2, <1>3, <1>5, <1>6, <1>8
  <2> QED
    BY <1>8, <2>1 DEF IInv, TablesInv
<1>16. Published(Top', sy)
  BY <1>3, <1>6, <1>8, <1>9, Basics DEF Published
<1> QED
  BY <1>11, <1>14, <1>15, <1>16 DEF IInv

(* The symbol of a helper gets its own number, and the innermost scope,     *)
(* its function's, says so.                                                 *)
LEMMA DeclareHelperStep ==
  ASSUME IInv, DeclareHelper
  PROVE  IInv'
<1> DEFINE n   == Len(visits)
           w   == Advanced(Top)
           p   == Symbol(CF, "FUNCTION", Top.type, Path(Len(visits)))
           new == [p EXCEPT !.info = Len(symbols) + 1]
           sy2 == Append(symbols, new)
           sc2 == AddedTo(CF)
<1>1. /\ w \in Visits /\ w.kind = Top.kind /\ w.base = Top.base
      /\ w.symbol = Top.symbol /\ w.at = Top.at + 1 /\ Values(w, error)
  BY NextStep DEF DeclareHelper, At
<1>2. /\ Top.kind \in Functions /\ Top.at = 3 /\ Top.at \in Inside(Top.kind)
      /\ Top.kind \in Kinds /\ Len(symbols) \in Nat /\ error \in BOOLEAN /\ n \in Nat \ {0}
      /\ Values(Top, error) /\ Refers(Top, symbols) /\ Top.base \in Nat
  BY Basics DEF DeclareHelper, At, FunctionSteps
<1> HIDE DEF w
<1>3. /\ w.at = 4 /\ w.at \in Inside(w.kind) /\ Own(Top) = 1 /\ Own(w) = 1
      /\ ~ Helping(Top) /\ Helping(w) /\ Unpublished(Top) /\ Unpublished(w)
  BY <1>1, <1>2 DEF Inside, Own, Helping, Unpublished, Functions
<1>4. Top.symbol = Len(symbols) /\ Top.symbol # 0 /\ symbols[Top.symbol].name # CF
  BY <1>2 DEF Refers
<1>5. CF \in Identifiers
  BY DEF Identifiers, CF
<1>6. new \in Symbols /\ new.name = CF /\ new.info = Len(symbols) + 1 /\ new.type # "UNKNOWN"
  <2>1. Top.type \in DataTypes /\ Top.type # "UNKNOWN" /\ n \in 0..n
    BY <1>2 DEF Values, VariableTypes, DataTypes
  <2>2. p \in Symbols /\ p.type = Top.type /\ p.name = CF
    BY <1>5, <2>1, NewSymbol
  <2> HIDE DEF p
  <2>3. Len(symbols) + 1 \in Nat
    BY <1>2
  <2> QED
    BY <2>1, <2>2, <2>3 DEF Symbols
<1> HIDE DEF new
<1>7. SameSymbols(symbols)
  BY DEF SameSymbols, IInv, TablesInv
<1>8. /\ TablesInv(sc2, sy2) /\ Grown(symbols, sy2) /\ Len(sy2) = Len(symbols) + 1
      /\ sy2[Len(symbols) + 1] = new /\ \A s \in 1..Len(symbols) : sy2[s] = symbols[s]
      /\ Len(sc2) = Len(scopes)
      /\ \A j \in 1..Len(scopes) :
           sc2[j][CF] = IF j = Len(scopes) THEN Len(symbols) + 1 ELSE scopes[j][CF]
  BY <1>5, <1>6, <1>7, Adding
<1>9. /\ visits' = [visits EXCEPT ![n] = w] /\ scopes' = sc2 /\ symbols' = sy2
      /\ error' = error /\ Others'
  BY DEF DeclareHelper, WithTop, w, new, Others, IInv, CF
<1> HIDE DEF sy2, sc2
<1>10. Refers(w, sy2)
  BY <1>1, <1>2, <1>3, <1>4, <1>6, <1>8 DEF Refers, Functions, Calls
<1> DEFINE us == [visits EXCEPT ![n] = w]
<1>11. /\ us \in Seq(Visits) /\ us # <<>> /\ Len(us) = n
       /\ us[n] = w /\ \A i \in 1..n - 1 : us[i] = visits[i]
       /\ Nested(us, w.base + Own(w))
       /\ \A i \in 1..Len(us) : Values(us[i], error) /\ Refers(us[i], sy2)
  <2>1. VisitsInv(visits, scopes, symbols, error)
    BY DEF IInv
  <2>2. w.kind = visits[n].kind /\ w.base = visits[n].base /\ w \in Visits
    BY <1>1 DEF Top
  <2> QED
    BY <1>1, <1>2, <1>8, <1>10, <2>1, <2>2, TopReplaced
<1> HIDE DEF us
<1>12. Len(scopes) = Top.base + 1 /\ Len(scopes) \in Nat
  BY <1>2, <1>3, Basics
<1>13. \A i \in 1..n : i = n \/ i \in 1..n - 1
  BY <1>2
<1>14. Helpers(us, sc2)
  <2>1. ASSUME NEW i \in 1..n, Helping(us[i])
        PROVE  sc2[us[i].base + 1][CF] = us[i].symbol + 1
    <3>1. CASE i = n
      <4>1. us[i].base + 1 = Len(scopes) /\ us[i].symbol = Len(symbols)
        BY <1>1, <1>4, <1>11, <1>12, <3>1
      <4>2. Len(scopes) \in 1..Len(scopes)
        BY <1>2, <1>12
      <4>3. sc2[Len(scopes)][CF] = Len(symbols) + 1
        BY <1>8, <4>2
      <4> QED
        BY <4>1, <4>3
    <3>2. CASE i \in 1..n - 1
      <4>1. us[i] = visits[i] /\ Helping(visits[i]) /\ i < n
        BY <1>2, <1>11, <2>1, <3>2
      <4>2. visits[i].base + 1 \in 1..Len(scopes) /\ visits[i].base + 1 <= Top.base
        BY <4>1, HelperScope DEF IInv, Top
      <4>3. scopes[visits[i].base + 1][CF] = visits[i].symbol + 1
        BY <4>1 DEF IInv, VisitsInv, Helpers
      <4>4. visits[i].base + 1 # Len(scopes)
        BY <1>2, <1>12, <4>2
      <4>5. sc2[visits[i].base + 1][CF] = scopes[visits[i].base + 1][CF]
        BY <1>8, <4>2, <4>4
      <4> QED
        BY <4>1, <4>3, <4>5
    <3> QED
      BY <1>13, <3>1, <3>2
  <2>2. ASSUME NEW j \in 1..Len(scopes), sc2[j][CF] # 0
        PROVE  \E i \in 1..n : Helping(us[i]) /\ j = us[i].base + 1
    <3>1. CASE j = Len(scopes)
      <4>1. n \in 1..n /\ us[n].base = Top.base /\ Helping(us[n])
        BY <1>1, <1>2, <1>3, <1>11
      <4> QED
        BY <1>12, <3>1, <4>1
    <3>2. CASE j # Len(scopes)
      <4>1. scopes[j][CF] # 0
        BY <1>8, <2>2, <3>2
      <4>2. PICK i \in 1..n : Helping(visits[i]) /\ j = visits[i].base + 1
        BY <4>1 DEF IInv, VisitsInv, Helpers
      <4>3. us[i] = visits[i]
        BY <1>3, <1>11, <1>13, <4>2 DEF Top
      <4> QED
        BY <4>2, <4>3
    <3> QED
      BY <3>1, <3>2
  <2> QED
    BY <1>8, <1>11, <2>1, <2>2 DEF Helpers
<1>15. VisitsInv(us, sc2, sy2, error)
  BY <1>1, <1>3, <1>8, <1>11, <1>12, <1>14 DEF VisitsInv
<1>16. us[Len(us)] = w
  BY <1>11
<1>17. Published(w, sy2)
  <2> SUFFICES ASSUME NEW s \in 1..Len(symbols) + 1, sy2[s].kind = "FUNCTION", sy2[s].info = 0
               PROVE  Unpublished(w) /\ s = w.symbol
    BY <1>8 DEF Published
  <2>1. s # Len(symbols) + 1
    BY <1>2, <1>6, <1>8
  <2>2. s \in 1..Len(symbols) /\ sy2[s] = symbols[s]
    BY <1>2, <1>8, <2>1
  <2> QED
    BY <1>1, <1>3, <2>2, Basics DEF Published
<1>18. visits' = us
  BY <1>9 DEF us
<1> QED
  BY <1>8, <1>9, <1>15, <1>16, <1>17, <1>18 DEF IInv, Top

(* What a visitor returns is a type, and UNKNOWN only with an error.        *)
LEMMA Outcomes ==
  ASSUME IInv, Step(Top) = "leave"
  PROVE  /\ Outcome(Top).type \in DataTypes
         /\ Outcome(Top).error \in BOOLEAN
         /\ error \/ Outcome(Top).error \/ Outcome(Top).type # "UNKNOWN"
<1> DEFINE v == Top
<1> SUFFICES /\ Outcome(v).type \in DataTypes /\ Outcome(v).error \in BOOLEAN
             /\ error \/ Outcome(v).error \/ Outcome(v).type # "UNKNOWN"
  OBVIOUS
<1>1. /\ v \in Visits /\ v.kind \in Kinds /\ v.at \in Nat \ {0} /\ error \in BOOLEAN
      /\ Values(v, error) /\ Refers(v, symbols) /\ Steps(v.kind, v.at) = "leave"
      /\ ValueSteps(v.kind, v.at) /\ Len(symbols) \in Nat
  BY Basics
<1>2. v.vals \in Seq(DataTypes) /\ Len(v.vals) \in Nat
  BY <1>1 DEF Visits
<1>3. \A k \in 1..Len(v.vals) : v.vals[k] \in DataTypes /\ (error \/ v.vals[k] # "UNKNOWN")
  BY <1>1, <1>2 DEF Values
<1>4. \A s \in 1..Len(symbols) : symbols[s].type \in DataTypes /\ symbols[s].type # "UNKNOWN"
  <2>1. \A s \in 1..Len(symbols) : symbols[s] \in Symbols /\ symbols[s].type # "UNKNOWN"
    BY DEF IInv, TablesInv
  <2> QED
    BY <2>1 DEF Symbols
<1>5. v.type \in DataTypes /\ v.type # "UNKNOWN"
  BY <1>1 DEF Values, VariableTypes, DataTypes
<1>6. {"NONE", "BOOL", "UNKNOWN"} \subseteq DataTypes
  BY DEF DataTypes, VariableTypes
<1>7. ASSUME NEW l \in DataTypes, NEW r
      PROVE  LET o == handle_incompatability(l, r)
             IN  /\ o.type \in DataTypes /\ o.error \in BOOLEAN
                 /\ l # "UNKNOWN" => o.error \/ o.type # "UNKNOWN"
  BY <1>6 DEF handle_incompatability
<1>8. v.kind \in Unary => 1 \in 1..Len(v.vals)
  BY <1>1, <1>2 DEF Values, Step, Steps
<1>9. v.kind \in Binary => 1 \in 1..Len(v.vals) /\ 2 \in 1..Len(v.vals)
  <2>1. v.kind \in Binary => v.at > 2
    BY <1>1 DEF ValueSteps, Valued
  <2> QED
    BY <1>1, <1>2, <2>1 DEF Values
<1>10. v.kind \in Calls \cup {"assign", "get_sementic"} => v.symbol \in 1..Len(symbols)
  <2>1. v.kind \in Calls \cup {"assign", "get_sementic"} => v.at # 1
    BY <1>1 DEF Calls, Steps, ir_visitor, function_call, function_call_with_nothing, assign,
                   get_sementic
  <2> QED
    BY <1>1, <2>1 DEF Refers
<1> HIDE DEF v
<1>11. CASE v.kind = "expression"
  <2>1. Outcome(v) = handle_incompatability(v.vals[1], v.vals[2])
    BY <1>11 DEF Outcome, Calls
  <2> QED
    BY <1>3, <1>7, <1>9, <1>11, <2>1 DEF Binary
<1>12. CASE v.kind = "factor"
  <2>1. Outcome(v) = [type |-> v.vals[1], error |-> FALSE]
    BY <1>12 DEF Outcome, Calls
  <2> QED
    BY <1>3, <1>8, <1>12, <2>1 DEF Unary
<1>13. CASE v.kind \in {"condition", "condition_list"}
  <2>1. Outcome(v).type = "BOOL" /\ Outcome(v).error \in BOOLEAN
    BY <1>13 DEF Outcome, Calls, compatible
  <2> QED
    BY <1>6, <2>1
<1>14. CASE v.kind = "decl_with_asign"
  <2>1. \/ Outcome(v) = [type |-> "NONE", error |-> FALSE]
        \/ Outcome(v) = handle_incompatability(v.type, v.vals[1])
    BY <1>14 DEF Outcome, Calls
  <2>2. CASE Outcome(v) = [type |-> "NONE", error |-> FALSE]
    BY <1>6, <2>2
  <2>3. CASE Outcome(v) = handle_incompatability(v.type, v.vals[1])
    BY <1>5, <1>7, <2>3
  <2> QED
    BY <2>1, <2>2, <2>3
<1>15. CASE v.kind = "assign"
  <2>1. Outcome(v) = handle_incompatability(symbols[v.symbol].type, v.vals[1])
    BY <1>15 DEF Outcome, Calls
  <2> QED
    BY <1>4, <1>7, <1>10, <1>15, <2>1
<1>16. CASE v.kind \in Calls
  <2>1. Outcome(v) = CheckArguments(v)
    BY <1>16 DEF Outcome, Calls
  <2>2. symbols[v.symbol].type \in DataTypes /\ symbols[v.symbol].type # "UNKNOWN"
    BY <1>4, <1>10, <1>16
  <2>3. /\ CheckArguments(v).type \in DataTypes /\ CheckArguments(v).error \in BOOLEAN
        /\ CheckArguments(v).error \/ CheckArguments(v).type # "UNKNOWN"
    BY <1>6, <2>2 DEF CheckArguments
  <2> QED
    BY <2>1, <2>3
<1>17. CASE v.kind = "return_statement"
  <2>1. Outcome(v) = CheckReturn(v)
    BY <1>17 DEF Outcome, Calls
  <2>2. v.vals[1] \in DataTypes /\ (error \/ v.vals[1] # "UNKNOWN")
    BY <1>3, <1>8, <1>17 DEF Unary
  <2>3. /\ CheckReturn(v).type \in DataTypes /\ CheckReturn(v).error \in BOOLEAN
        /\ error \/ CheckReturn(v).error \/ CheckReturn(v).type # "UNKNOWN"
    BY <1>6, <1>7, <2>2 DEF CheckReturn
  <2> QED
    BY <2>1, <2>3
<1>18. CASE v.kind \in {"get_sementic", "get_decl_sementic", "print_sem"}
  <2>1. Outcome(v).type = "NONE" /\ Outcome(v).error \in BOOLEAN
    BY <1>18 DEF Outcome, Calls
  <2> QED
    BY <1>6, <2>1
<1>19. CASE v.kind \notin Calls \cup {"expression", "factor", "condition", "condition_list",
              "decl_with_asign", "assign", "return_statement", "get_sementic",
              "get_decl_sementic", "print_sem"}
  <2>1. Outcome(v) = [type |-> "NONE", error |-> FALSE]
    BY <1>19 DEF Outcome
  <2> QED
    BY <1>6, <2>1
<1> QED
  BY <1>11, <1>12, <1>13, <1>14, <1>15, <1>16, <1>17, <1>18, <1>19

LEMMA ReturnStep ==
  ASSUME IInv, Return
  PROVE  IInv'
<1>1. Step(Top) = "leave" /\ Len(visits) > 1
  BY DEF Return, At
<1>2. /\ Outcome(Top).type \in DataTypes /\ Outcome(Top).error \in BOOLEAN
      /\ error \/ Outcome(Top).error \/ Outcome(Top).type # "UNKNOWN"
  BY <1>1, Outcomes
<1>3. error' = (error \/ Outcome(Top).error) /\ error \in BOOLEAN
  BY Basics DEF Return
<1>4. Own(Top) = 0 /\ ~ Unpublished(Top)
  <2>1. /\ Top.at \notin Inside(Top.kind) /\ Top.at \in Nat \ {0}
        /\ FunctionSteps(Top.kind, Top.at) /\ Steps(Top.kind, Top.at) = "leave"
    BY <1>1, Basics DEF ScopeSteps
  <2>2. ~ Unpublished(Top)
    BY <2>1 DEF Unpublished, FunctionSteps
  <2> QED
    BY <2>1, <2>2 DEF Own
<1>5. Others'
  BY <1>2, <1>3 DEF Return, Others, IInv
<1> QED
  BY <1>1, <1>2, <1>3, <1>4, <1>5, KeepsTablesBack DEF Return

-----------------------------------------------------------------------------
LEMMA Starts == Init => IInv
<1> SUFFICES ASSUME Init
             PROVE  IInv
  OBVIOUS
<1> DEFINE v == [kind |-> "program", id |-> 0, name |-> NoName, type |-> "NONE", at |-> 1,
                 symbol |-> 0, vals |-> <<>>, base |-> 1]
<1>1. visits = <<v>> /\ scopes = <<scope_init>> /\ symbols = <<>> /\ error = FALSE
  BY DEF Init
<1>2. v \in Visits
  BY DEF Visits, Kinds, ir_visitor, DataTypes
<1>3. Own(v) = 0 /\ ~ Helping(v) /\ Steps(v.kind, 1) # "leave"
  BY DEF Own, Helping, Inside, Functions, Steps, ir_visitor, program
<1>4. /\ v.kind = "program" /\ v.at = 1 /\ v.symbol = 0 /\ v.vals = <<>> /\ v.base = 1
      /\ v.type = "NONE"
  OBVIOUS
<1> HIDE DEF v
<1>5. Values(v, error) /\ Refers(v, symbols)
  BY <1>1, <1>4 DEF Values, Refers, Named, Functions, Calls, Unary, Binary
<1>6. visits \in Seq(Visits) /\ visits # <<>> /\ Len(visits) = 1 /\ visits[1] = v
  BY <1>1, <1>2
<1>7. /\ scopes \in Seq([Identifiers -> Nat]) /\ scopes # <<>> /\ Len(scopes) = 1
      /\ \A n \in Identifiers : scopes[1][n] = 0
  <2>1. scope_init \in [Identifiers -> Nat] /\ \A n \in Identifiers : scope_init[n] = 0
    BY DEF scope_init
  <2> QED
    BY <1>1, <2>1
<1>8. symbols \in Seq(Symbols) /\ Len(symbols) = 0
  BY <1>1
<1>9. Nested(visits, Len(scopes))
  BY <1>3, <1>4, <1>6, <1>7 DEF Nested
<1>10. Helpers(visits, scopes)
  <2>1. CF \in Identifiers
    BY DEF Identifiers, CF
  <2> QED
    BY <1>3, <1>6, <1>7, <2>1 DEF Helpers
<1>11. VisitsInv(visits, scopes, symbols, error)
  BY <1>5, <1>6, <1>9, <1>10 DEF VisitsInv
<1>12. TablesInv(scopes, symbols)
  BY <1>7, <1>8 DEF TablesInv
<1>13. Published(Top, symbols)
  BY <1>8 DEF Published
<1>14. Others
  <2>1. GlobalStrings \in [Strings -> Int]
    BY DEF Init
  <2>2. visited \in Nat /\ string_ids \in Nat /\ error \in BOOLEAN
    BY DEF Init
  <2> QED
    BY <2>1, <2>2 DEF Others
<1> QED
  BY <1>11, <1>12, <1>13, <1>14 DEF IInv

LEMMA Steady == IInv /\ [Next]_vars => IInv'
<1> SUFFICES ASSUME IInv, [Next]_vars
             PROVE  IInv'
  OBVIOUS
<1>1. CASE UNCHANGED vars
  BY <1>1 DEF vars, IInv, Others, Top
<1>2. CASE accept
  BY <1>2, AcceptStep
<1>3. CASE EndOfList
  BY <1>3, EndOfListStep
<1>4. CASE Return
  BY <1>4, ReturnStep
<1>5. CASE symbol_table_add_scope
  BY <1>5, OpenStep
<1>6. CASE symbol_table_remove_scope
  BY <1>6, CloseStep
<1>7. CASE create_new_variable
  BY <1>7, DeclareStep
<1>8. CASE DeclareFunction
  BY <1>8, DeclareFunctionStep
<1>9. CASE DeclareHelper
  BY <1>9, DeclareHelperStep
<1>10. CASE parameter
  BY <1>10, ParameterStep
<1>11. CASE PublishParameters
  BY <1>11, PublishStep
<1>12. CASE FindVariable \/ FindFunction
  BY <1>12, FindStep
<1>13. CASE Identifier
  BY <1>13, IdentifierStep
<1>14. CASE Literal
  BY <1>14, LiteralStep
<1>15. CASE StringLiteral
  BY <1>15, StringLiteralStep
<1> QED
  BY <1>1, <1>2, <1>3, <1>4, <1>5, <1>6, <1>7, <1>8, <1>9, <1>10, <1>11, <1>12, <1>13, <1>14, <1>15
     DEF Next

LEMMA Invariant == Spec => []IInv
BY Starts, Steady, PTL DEF Spec

-----------------------------------------------------------------------------
(* Whatever is walked, the numbers of symbols that scopes, visits and infos *)
(* hold are numbers of symbols (SymbolTable.c indexes its map with them).   *)
THEOREM NumbersOfSymbols == Spec => []TypeOK
<1>1. IInv => TypeOK
  BY DEF IInv, VisitsInv, TablesInv, Refers, Others, TypeOK
<1> QED
  BY <1>1, Invariant, PTL

(* Every visitor leaves as many scopes as it found, at any depth and also   *)
(* when it refuses a name, because it checks names before it opens a scope. *)
THEOREM ScopesBalance == Spec => []ScopesRestored
<1>1. IInv => ScopesRestored
  <2> SUFFICES ASSUME IInv, At("leave")
               PROVE  Len(scopes) = Top.base
    BY DEF ScopesRestored
  <2>1. /\ Len(scopes) = Top.base + Own(Top) /\ Top.base \in Nat
        /\ Top.at \notin Inside(Top.kind)
    BY Basics DEF At, ScopeSteps
  <2> QED
    BY <2>1 DEF Own
<1> QED
  BY <1>1, Invariant, PTL

(* return_statement checks against the innermost function around it: the    *)
(* helper it finds in the scopes is that function's, however many functions *)
(* have been nested, left or refused before.                                *)
THEOREM ReturnsAreChecked == Spec => []ReturnsToItsFunction
<1>1. IInv => ReturnsToItsFunction
  <2> SUFFICES ASSUME IInv, At("leave"), Top.kind = "return_statement"
               PROVE  LET around == {i \in DOMAIN visits : visits[i].kind \in Functions}
                          found  == symbol_table_lookup_symbol(CURRENT_FUNCTION_SYMBOL)
                      IN  IF around = {} THEN found = 0
                          ELSE \E i \in around : /\ \A j \in around : j <= i
                                                 /\ found = visits[i].symbol + 1
    BY DEF ReturnsToItsFunction
  <2> DEFINE n      == Len(visits)
             around == {i \in DOMAIN visits : visits[i].kind \in Functions}
             found  == symbol_table_lookup_symbol(CF)
  <2>1. /\ visits \in Seq(Visits) /\ n \in Nat \ {0} /\ DOMAIN visits = 1..n
        /\ \A i \in 1..n : visits[i] \in Visits
    BY Basics
  <2>2. /\ VisitsInv(visits, scopes, symbols, error) /\ TablesInv(scopes, symbols)
        /\ CF \in Identifiers
    BY DEF IInv, Identifiers, CF
  <2>3. \A i \in around : i \in 1..n - 1 /\ i < n
    BY <2>1 DEF Top, Functions
  <2>4. ASSUME NEW i \in around
        PROVE  Helping(visits[i])
    <3>1. /\ Step(visits[i]) \in Visiting /\ visits[i] \in Visits /\ visits[i].kind \in Functions
          /\ Values(visits[i], error)
      BY <2>1, <2>2, <2>3 DEF VisitsInv, Nested
    <3>2. visits[i].kind \in Kinds /\ visits[i].at \in Nat \ {0}
      BY <3>1 DEF Visits, Values
    <3>3. Steps(visits[i].kind, visits[i].at) \in Visiting
      BY <3>1 DEF Step, Steps
    <3>4. visits[i].at > 4 /\ visits[i].at \in Inside(visits[i].kind)
      BY <3>1, <3>2, <3>3, Scripts DEF FunctionSteps
    <3> QED
      BY <3>1, <3>2, <3>4 DEF Helping
  <2>5. \A i \in 1..n : Helping(visits[i]) => i \in around
    BY <2>1 DEF Helping
  <2>6. ASSUME NEW i \in around
        PROVE  /\ visits[i].base + 1 \in 1..Len(scopes) /\ visits[i].base \in Nat
               /\ visits[i].symbol \in Nat
               /\ scopes[visits[i].base + 1][CF] = visits[i].symbol + 1
               /\ scopes[visits[i].base + 1][CF] # 0
    <3>1. i \in 1..n /\ Helping(visits[i]) /\ visits[i] \in Visits
      BY <2>1, <2>3, <2>4
    <3>2. visits[i].base \in Nat /\ visits[i].symbol \in Nat
      BY <3>1 DEF Visits
    <3>3. scopes[visits[i].base + 1][CF] = visits[i].symbol + 1
      BY <2>2, <3>1 DEF VisitsInv, Helpers
    <3> QED
      BY <2>2, <3>1, <3>2, <3>3, HelperScope
  <2>7. ASSUME NEW i \in around, NEW j \in around, visits[j].base <= visits[i].base
        PROVE  j <= i
    <3>1. i \in 1..n /\ j \in 1..n /\ Helping(visits[i]) /\ Own(visits[i]) = 1
      BY <2>1, <2>3, <2>4, OwnScope
    <3>2. i < j => visits[i].base + 1 <= visits[j].base
      BY <2>2, <3>1 DEF VisitsInv, Nested
    <3> QED
      BY <2>6, <2>7, <3>1, <3>2
  <2> HIDE DEF found
  <2>8. CASE around = {}
    <3>1. \A j \in 1..Len(scopes) : scopes[j][CF] = 0
      BY <2>2, <2>5, <2>8 DEF VisitsInv, Helpers
    <3> QED
      BY <2>2, <2>8, <3>1, Lookup DEF found, CF
  <2>9. CASE around # {}
    <3>1. PICK j \in 1..Len(scopes) :
            /\ scopes[j][CF] # 0
            /\ \A i \in 1..Len(scopes) : scopes[i][CF] # 0 => i <= j
            /\ found = scopes[j][CF]
      BY <2>2, <2>6, <2>9, Lookup DEF found
    <3>2. PICK i \in 1..n : Helping(visits[i]) /\ j = visits[i].base + 1
      BY <2>2, <3>1 DEF VisitsInv, Helpers
    <3>3. i \in around /\ found = visits[i].symbol + 1
      BY <2>5, <2>6, <3>1, <3>2
    <3>4. ASSUME NEW k \in around
          PROVE  k <= i
      <4>1. visits[k].base + 1 <= j
        BY <2>6, <3>1
      <4>2. visits[k].base <= visits[i].base
        BY <2>6, <3>2, <3>3, <4>1
      <4> QED
        BY <2>7, <3>3, <4>2
    <3> QED
      BY <2>9, <3>3, <3>4 DEF found, CF
  <2> QED
    BY <2>8, <2>9
<1> QED
  BY <1>1, Invariant, PTL

(* Wherever a name can be looked up, also in the body of the function that  *)
(* is being declared, the functions it can mean have their FunctionInfo,    *)
(* which function_call follows unchecked.                                   *)
THEOREM CalleesHaveInfo == Spec => []CalleeKnown
<1>1. IInv => CalleeKnown
  <2> SUFFICES ASSUME IInv, LookingUp, NEW n \in Names,
                      symbol_table_lookup_symbol(n) # 0,
                      symbols[symbol_table_lookup_symbol(n)].kind = "FUNCTION"
               PROVE  symbols[symbol_table_lookup_symbol(n)].info # 0
    BY DEF CalleeKnown
  <2>1. symbol_table_lookup_symbol(n) \in 1..Len(symbols)
    BY Lookup, NotHelper DEF IInv
  <2>2. Step(Top) \in {"find", "find_function"} \cup (Valued \ {"Condition"})
    BY DEF LookingUp
  <2>3. ~ Unpublished(Top)
    <3>1. /\ Steps(Top.kind, Top.at) = Step(Top) /\ FunctionSteps(Top.kind, Top.at)
      BY Basics
    <3> QED
      BY <2>2, <3>1 DEF FunctionSteps, Unpublished, Valued
  <2> QED
    BY <2>1, <2>3, Basics DEF Published
<1> QED
  BY <1>1, Invariant, PTL

(* No value is of type UNKNOWN unless an error was reported, so that a      *)
(* program without errors was checked throughout.                           *)
THEOREM UnknownIsReported == Spec => []NoSilentUnknown
<1>1. IInv => NoSilentUnknown
  <2> SUFFICES ASSUME IInv, NEW i \in DOMAIN visits, NEW k \in DOMAIN visits[i].vals,
                      visits[i].vals[k] = "UNKNOWN"
               PROVE  error
    BY DEF NoSilentUnknown
  <2>1. i \in 1..Len(visits) /\ visits[i] \in Visits
    BY Basics
  <2>2. k \in 1..Len(visits[i].vals)
    BY <2>1 DEF Visits
  <2> QED
    BY <2>1, <2>2 DEF IInv, VisitsInv, Values
<1> QED
  BY <1>1, Invariant, PTL

-----------------------------------------------------------------------------
(***************************************************************************)
(* Names resolve lexically: a name that is looked up means its latest      *)
(* declaration that is visible there.  The scopes of Sementic.c know       *)
(* nothing of the tree; what ties them to it is that a scope is open as    *)
(* long as the visit it belongs to is at a place of its script between     *)
(* "open" and "close".                                                     *)
(*                                                                         *)
(* The FunctionInfo of a function lists the types of exactly the           *)
(* parameters that were declared for it.  A parameter is recorded in the   *)
(* info that is found under CURRENT_FUNCTION_SYMBOL; that this is the one  *)
(* of the function it stands in, and that nothing is declared between two  *)
(* parameters, is what has to be shown.                                    *)
(***************************************************************************)

(* The last place before the scope that is open at a place is closed.       *)
Last(kind, at) ==
  CASE kind = "block"                      -> 3
    [] kind = "if_statement"               -> 5
    [] kind = "if_else_statement"          -> IF at <= 5 THEN 5 ELSE 9
    [] kind = "while_statement"            -> 4
    [] kind = "do_while_statement"         -> 4
    [] kind = "for_statement"              -> 6
    [] kind = "for_change_statement"       -> 7
    [] kind = "function_decl"              -> 9
    [] kind = "function_decl_gets_nothing" -> 7
    [] OTHER                               -> 0

(* The visits a declaration stands in whose scopes end it, ...              *)
Around(path) == {i \in DOMAIN path : path[i].kind \in Scoped}

(* ... while they have the scope open that they had then.                   *)
Alive(vs, path) ==
  \A i \in Around(path) : /\ i \in 1..Len(vs) /\ vs[i].id = path[i].id
                          /\ vs[i].at <= Last(path[i].kind, path[i].at)

(* c visits have been started.  A visit keeps its place in the tree, and    *)
(* its steps come in order.                                                 *)
Ids(vs, c) == \A i \in 1..Len(vs) : vs[i].id <= c

Paths(vs, sy, c) ==
  \A s \in 1..Len(sy) : \A i \in Around(sy[s].path) :
    LET p == sy[s].path[i]
    IN  /\ p.at \in Inside(p.kind) /\ p.id <= c
        /\ i \in 1..Len(vs) /\ vs[i].id = p.id => vs[i].kind = p.kind /\ p.at <= vs[i].at

(* What is in a scope is a declaration alive in the construct the scope is  *)
(* for, ...                                                                 *)
Entry(vs, j, n, symbol) ==
  /\ symbol.name = n
  /\ Alive(vs, symbol.path)
  /\ \A i \in Around(symbol.path) : vs[i].base + 1 <= j
  /\ j > 1 => \E i \in Around(symbol.path) : vs[i].base + 1 = j

Entries(vs, sc, sy) ==
  \A j \in 1..Len(sc), n \in Names : sc[j][n] # 0 => Entry(vs, j, n, sy[sc[j][n]])

(* ... every declaration that is alive is in a scope, and those in outer    *)
(* scopes are older.                                                        *)
Kept(vs, sc, sy) ==
  \A s \in 1..Len(sy) : sy[s].name \in Names /\ Alive(vs, sy[s].path) =>
    \E j \in 1..Len(sc) : sc[j][sy[s].name] = s

Older(sc) ==
  \A j, k \in 1..Len(sc), n \in Names :
    j < k /\ sc[j][n] # 0 /\ sc[k][n] # 0 => sc[j][n] < sc[k][n]

(* Each scope but the global one is a visit's, and below an expression      *)
(* there are only expressions, which declare nothing.                       *)
Owners(vs, depth) ==
  \A j \in 2..depth : \E i \in 1..Len(vs) : Own(vs[i]) = 1 /\ vs[i].base + 1 = j

BelowExpressions(vs) ==
  \A i, k \in 1..Len(vs) : i < k /\ Step(vs[i]) \in Valued => vs[k].kind \in Expressions

Scoping(vs, sc, sy, c) ==
  /\ Ids(vs, c) /\ Paths(vs, sy, c)
  /\ Entries(vs, sc, sy) /\ Kept(vs, sc, sy) /\ Older(sc)

Shape(vs, depth) == Owners(vs, depth) /\ BelowExpressions(vs)

LInv ==
  /\ IInv
  /\ Scoping(visits, scopes, symbols, visited)
  /\ Shape(visits, Len(scopes))

-----------------------------------------------------------------------------
(* Places in the scripts *)

(* From a place inside, up to the last one, the same scope is open.         *)
LEMMA Regions ==
  ASSUME NEW k, NEW a \in Nat, a \in Inside(k)
  PROVE  /\ k \in Scoped /\ a <= Last(k, a)
         /\ \A b \in Nat : a <= b /\ b <= Last(k, a) => b \in Inside(k) /\ Last(k, b) = Last(k, a)
<1> USE DEF Inside, Last, Scoped, Functions
<1>1. CASE k \in {"block", "if_statement", "while_statement", "do_while_statement"}
  BY <1>1
<1>2. CASE k = "if_else_statement"
  BY <1>2
<1>3. CASE k \in {"for_statement", "for_change_statement"}
  BY <1>3
<1>4. CASE k \in {"function_decl", "function_decl_gets_nothing"}
  BY <1>4
<1> QED
  BY <1>1, <1>2, <1>3, <1>4

(* Where a scope is closed, and where children are visited.                 *)
ClosedLast(k, at) ==
  /\ at \in Inside(k) /\ Steps(k, at) = "close" => Last(k, at) = at
  /\ at \in Inside(k) /\ Steps(k, at) # "close" => at + 1 <= Last(k, at)

VisitedInside(k, at) ==
  k \in Scoped /\ Steps(k, at) \in Visiting =>
    /\ Steps(k, at) \notin Valued => at \in Inside(k)
    /\ \A a \in Inside(k) : (k = "if_else_statement" => (a > 5 <=> at > 5)) => at <= Last(k, a)

LEMMA ScriptScopes ==
  ASSUME NEW k \in Kinds, NEW at \in Nat \ {0}
  PROVE  ClosedLast(k, at) /\ VisitedInside(k, at)
<1> USE DEF Steps, Inside, Last, ClosedLast, VisitedInside, Visiting, Valued
<1>1. CASE k = "block"
  BY <1>1 DEF ir_visitor, block
<1>2. CASE k = "if_statement"
  BY <1>2 DEF ir_visitor, if_statement
<1>3. CASE k = "if_else_statement"
  BY <1>3 DEF ir_visitor, if_else_statement
<1>4. CASE k = "while_statement"
  BY <1>4 DEF ir_visitor, while_statement
<1>5. CASE k = "do_while_statement"
  BY <1>5 DEF ir_visitor, do_while_statement
<1>6. CASE k = "for_statement"
  BY <1>6 DEF ir_visitor, for_statement
<1>7. CASE k = "for_change_statement"
  BY <1>7 DEF ir_visitor, for_change_statement
<1>8. CASE k = "function_decl"
  BY <1>8 DEF ir_visitor, function_decl
<1>9. CASE k = "function_decl_gets_nothing"
  BY <1>9 DEF ir_visitor, function_decl_gets_nothing
<1>10. CASE k \notin Scoped
  BY <1>10 DEF Scoped, Functions
<1> QED
  BY <1>1, <1>2, <1>3, <1>4, <1>5, <1>6, <1>7, <1>8, <1>9, <1>10 DEF Scoped, Functions

-----------------------------------------------------------------------------
(* Going on *)

(* The visits vs2 come after vs, of which c had been started, and the first *)
(* d scopes of vs are still open.                                           *)
Continues(vs, vs2, c, d) ==
  /\ \A i \in 1..Len(vs2) :
       \/ /\ i \in 1..Len(vs) /\ vs2[i].id = vs[i].id
          /\ vs2[i].kind = vs[i].kind /\ vs2[i].base = vs[i].base /\ vs[i].at <= vs2[i].at
       \/ c < vs2[i].id
  /\ \A i \in 1..Len(vs) :
       Own(vs[i]) = 1 =>
         IF vs[i].base + 1 <= d
           THEN /\ i \in 1..Len(vs2) /\ vs2[i].id = vs[i].id
                /\ vs2[i].at <= Last(vs[i].kind, vs[i].at)
           ELSE i \in 1..Len(vs2) /\ vs2[i].id = vs[i].id =>
                  Last(vs[i].kind, vs[i].at) < vs2[i].at

SamePaths(sy, sy2) ==
  /\ sy \in Seq(Symbols) /\ Len(sy2) = Len(sy)
  /\ \A s \in 1..Len(sy) : sy2[s].name = sy[s].name /\ sy2[s].path = sy[s].path

LEMMA PathPlaces ==
  ASSUME NEW sy \in Seq(Symbols), NEW s \in 1..Len(sy), NEW i \in Around(sy[s].path)
  PROVE  LET p == sy[s].path[i]
         IN  p.kind \in Scoped /\ p.at \in Nat /\ p.id \in Nat /\ i \in Nat
<1>1. sy[s].path \in Seq(Places)
  <2>1. sy[s] \in Symbols
    OBVIOUS
  <2> QED
    BY <2>1 DEF Symbols
<1>2. i \in DOMAIN sy[s].path /\ sy[s].path[i].kind \in Scoped
  BY DEF Around
<1>3. sy[s].path[i] \in Places /\ i \in Nat
  BY <1>1, <1>2
<1> QED
  BY <1>2, <1>3 DEF Places

(* A visit that is alive in a path has its scope open.                      *)
LEMMA OpenHere ==
  ASSUME NEW vs \in Seq(Visits), NEW sy \in Seq(Symbols), NEW c, Paths(vs, sy, c),
         NEW s \in 1..Len(sy), Alive(vs, sy[s].path), NEW i \in Around(sy[s].path)
  PROVE  /\ i \in 1..Len(vs) /\ Own(vs[i]) = 1
         /\ Last(vs[i].kind, vs[i].at) = Last(sy[s].path[i].kind, sy[s].path[i].at)
<1> DEFINE p == sy[s].path[i]
<1>1. p.kind \in Scoped /\ p.at \in Nat
  BY PathPlaces
<1>2. i \in 1..Len(vs) /\ vs[i].id = p.id /\ vs[i].at <= Last(p.kind, p.at)
  BY DEF Alive
<1>3. p.at \in Inside(p.kind) /\ vs[i].kind = p.kind /\ p.at <= vs[i].at
  BY <1>2 DEF Paths
<1>4. vs[i].at \in Nat
  <2>1. vs[i] \in Visits
    BY <1>2
  <2> QED
    BY <2>1 DEF Visits
<1> HIDE DEF p
<1>5. vs[i].at \in Inside(p.kind) /\ Last(p.kind, vs[i].at) = Last(p.kind, p.at)
  BY <1>1, <1>2, <1>3, <1>4, Regions
<1> QED
  BY <1>2, <1>3, <1>5 DEF Own, p

LEMMA Between ==
  ASSUME NEW k \in Nat, NEW l \in Nat, NEW m \in Nat, k <= l, l <= m
  PROVE  k <= m
OBVIOUS

LEMMA LastPlace ==
  ASSUME NEW k, NEW at
  PROVE  Last(k, at) \in Nat
BY DEF Last

LEMMA Aged ==
  ASSUME NEW vs \in Seq(Visits), NEW vs2 \in Seq(Visits), NEW sc, NEW sc2, NEW sy, NEW sy2,
         NEW c \in Nat, NEW c2 \in Nat, c <= c2, NEW d \in Nat \ {0},
         Len(sc) \in Nat, Len(sc2) \in Nat, d <= Len(sc), d <= Len(sc2),
         Scoping(vs, sc, sy, c), SamePaths(sy, sy2), Ids(vs2, c2), Continues(vs, vs2, c, d),
         \A j \in 1..Len(sc), n \in Names : sc[j][n] \in 0..Len(sy),
         \A j \in 1..d, n \in Names : sc2[j][n] = sc[j][n],
         \A j \in 1..Len(sc2), n \in Names : d < j => sc2[j][n] = 0
  PROVE  Scoping(vs2, sc2, sy2, c2)
<1>1. /\ sy \in Seq(Symbols) /\ Len(sy) \in Nat /\ Len(sy2) = Len(sy)
      /\ \A s \in 1..Len(sy) : sy2[s].name = sy[s].name /\ sy2[s].path = sy[s].path
      /\ Len(vs) \in Nat /\ Len(vs2) \in Nat
      /\ \A i \in 1..Len(vs) : vs[i].at \in Nat /\ vs[i].id \in Nat /\ vs[i].base \in Nat
      /\ \A i \in 1..Len(vs2) : vs2[i].at \in Nat /\ vs2[i].id \in Nat
  <2>1. /\ \A i \in 1..Len(vs) : vs[i] \in Visits
        /\ \A i \in 1..Len(vs2) : vs2[i] \in Visits
    OBVIOUS
  <2>2. /\ \A i \in 1..Len(vs) : vs[i].at \in Nat /\ vs[i].id \in Nat /\ vs[i].base \in Nat
        /\ \A i \in 1..Len(vs2) : vs2[i].at \in Nat /\ vs2[i].id \in Nat
    BY <2>1 DEF Visits
  <2>3. Len(vs) \in Nat /\ Len(vs2) \in Nat
    OBVIOUS
  <2>4. /\ sy \in Seq(Symbols) /\ Len(sy) \in Nat /\ Len(sy2) = Len(sy)
        /\ \A s \in 1..Len(sy) : sy2[s].name = sy[s].name /\ sy2[s].path = sy[s].path
    BY DEF SamePaths
  <2> QED
    BY <2>2, <2>3, <2>4
<1>2. Paths(vs, sy, c) /\ Entries(vs, sc, sy) /\ Kept(vs, sc, sy) /\ Older(sc)
  BY DEF Scoping
<1>3. ASSUME NEW s \in 1..Len(sy), Alive(vs, sy[s].path), NEW i \in Around(sy[s].path)
      PROVE  /\ i \in 1..Len(vs) /\ Own(vs[i]) = 1 /\ vs[i].id = sy[s].path[i].id
             /\ Last(vs[i].kind, vs[i].at) = Last(sy[s].path[i].kind, sy[s].path[i].at)
  <2>1. sy \in Seq(Symbols)
    BY DEF SamePaths
  <2>2. /\ i \in 1..Len(vs) /\ Own(vs[i]) = 1
        /\ Last(vs[i].kind, vs[i].at) = Last(sy[s].path[i].kind, sy[s].path[i].at)
    BY <1>2, <1>3, <2>1, OpenHere
  <2> QED
    BY <1>3, <2>2 DEF Alive
<1>4. ASSUME NEW s \in 1..Len(sy), NEW i \in Around(sy[s].path),
             i \in 1..Len(vs2), vs2[i].id = sy[s].path[i].id
      PROVE  /\ i \in 1..Len(vs) /\ vs[i].id = sy[s].path[i].id /\ vs2[i].kind = vs[i].kind
             /\ vs2[i].base = vs[i].base /\ vs[i].at <= vs2[i].at
  <2>1. sy[s].path[i].id <= c /\ sy[s].path[i].id \in Nat
    BY <1>2, <1>1, PathPlaces DEF Paths
  <2>2. ~ (c < vs2[i].id)
    BY <1>1, <1>4, <2>1
  <2> QED
    BY <1>4, <2>2 DEF Continues
<1>5. Paths(vs2, sy2, c2)
  <2> SUFFICES ASSUME NEW s \in 1..Len(sy), NEW i \in Around(sy[s].path)
               PROVE  LET p == sy[s].path[i]
                      IN  /\ p.at \in Inside(p.kind) /\ p.id <= c2
                          /\ i \in 1..Len(vs2) /\ vs2[i].id = p.id
                               => vs2[i].kind = p.kind /\ p.at <= vs2[i].at
    BY <1>1 DEF Paths
  <2> DEFINE p == sy[s].path[i]
  <2>1. /\ p.at \in Inside(p.kind) /\ p.id <= c
        /\ i \in 1..Len(vs) /\ vs[i].id = p.id => vs[i].kind = p.kind /\ p.at <= vs[i].at
    BY <1>2 DEF Paths
  <2>2. p.id \in Nat /\ p.at \in Nat
    BY <1>1, PathPlaces
  <2>3. ASSUME i \in 1..Len(vs2), vs2[i].id = p.id
        PROVE  vs2[i].kind = p.kind /\ p.at <= vs2[i].at
    <3>1. /\ i \in 1..Len(vs) /\ vs[i].id = p.id /\ vs2[i].kind = vs[i].kind
          /\ vs[i].at <= vs2[i].at
      BY <1>4, <2>3
    <3>2. vs[i].at \in Nat /\ vs2[i].at \in Nat
      BY <1>1, <2>3, <3>1
    <3>3. vs2[i].kind = p.kind /\ p.at <= vs[i].at
      BY <2>1, <3>1
    <3> HIDE DEF p
    <3>4. p.at <= vs2[i].at
      BY <2>2, <3>1, <3>2, <3>3, Between
    <3> QED
      BY <3>1, <3>3, <3>4
  <2>4. p.id <= c2
    <3> HIDE DEF p
    <3> QED
      BY <2>1, <2>2
  <2> QED
    BY <2>1, <2>3, <2>4
<1>6. ASSUME NEW j \in 1..Len(sc2), NEW n \in Names, sc2[j][n] # 0
      PROVE  Entry(vs2, j, n, sy2[sc2[j][n]])
  <2>1. j \in 1..d /\ j \in 1..Len(sc)
    BY <1>6
  <2> DEFINE s    == sc[j][n]
             path == sy[s].path
  <2>2. sc2[j][n] = s /\ s \in 1..Len(sy)
    BY <1>1, <1>6, <2>1
  <2>3. Entry(vs, j, n, sy[s])
    BY <1>2, <1>6, <2>1, <2>2 DEF Entries
  <2>4. sy2[s].name = n /\ sy2[s].path = path
    BY <1>1, <2>2, <2>3 DEF Entry
  <2> HIDE DEF s
  <2>5. ASSUME NEW i \in Around(path)
        PROVE  /\ i \in 1..Len(vs2) /\ vs2[i].id = path[i].id /\ vs2[i].base = vs[i].base
               /\ vs2[i].at <= Last(path[i].kind, path[i].at)
    <3>1. Alive(vs, path) /\ vs[i].base + 1 <= j
      BY <2>3 DEF Entry
    <3>2. /\ i \in 1..Len(vs) /\ Own(vs[i]) = 1 /\ vs[i].id = path[i].id
          /\ Last(vs[i].kind, vs[i].at) = Last(path[i].kind, path[i].at)
      BY <1>3, <2>2, <3>1
    <3>3. vs[i].base + 1 <= d
      <4>1. vs[i].base \in Nat
        BY <1>1, <3>2
      <4> HIDE DEF path
      <4> QED
        BY <2>1, <3>1, <4>1
    <3>4. /\ i \in 1..Len(vs2) /\ vs2[i].id = vs[i].id
          /\ vs2[i].at <= Last(vs[i].kind, vs[i].at)
      BY <3>2, <3>3 DEF Continues
    <3>5. vs2[i].base = vs[i].base
      BY <1>4, <2>2, <3>2, <3>4
    <3> QED
      BY <3>2, <3>4, <3>5
  <2>6. Alive(vs2, path)
    BY <2>5 DEF Alive
  <2>7. \A i \in Around(path) : vs2[i].base + 1 <= j
    BY <2>3, <2>5 DEF Entry
  <2>8. j > 1 => \E i \in Around(path) : vs2[i].base + 1 = j
    BY <2>3, <2>5 DEF Entry
  <2> QED
    BY <2>2, <2>4, <2>6, <2>7, <2>8 DEF Entry
<1>7. ASSUME NEW s \in 1..Len(sy), sy[s].name \in Names, Alive(vs2, sy[s].path)
      PROVE  \E j \in 1..Len(sc2) : sc2[j][sy[s].name] = s
  <2> DEFINE path == sy[s].path
  <2>1. ASSUME NEW i \in Around(path)
        PROVE  /\ i \in 1..Len(vs) /\ vs[i].id = path[i].id
               /\ vs[i].at <= Last(path[i].kind, path[i].at)
    <3>1. /\ i \in 1..Len(vs2) /\ vs2[i].id = path[i].id
          /\ vs2[i].at <= Last(path[i].kind, path[i].at)
      BY <1>7 DEF Alive
    <3>2. i \in 1..Len(vs) /\ vs[i].id = path[i].id /\ vs[i].at <= vs2[i].at
      BY <1>4, <3>1
    <3>3. vs[i].at \in Nat /\ vs2[i].at \in Nat /\ Last(path[i].kind, path[i].at) \in Nat
      BY <1>1, <3>1, <3>2, LastPlace
    <3>4. vs[i].at <= Last(path[i].kind, path[i].at)
      BY <3>1, <3>2, <3>3, Between
    <3> QED
      BY <3>2, <3>4
  <2>2. Alive(vs, path)
    BY <2>1 DEF Alive
  <2>3. PICK j \in 1..Len(sc) : sc[j][sy[s].name] = s
    BY <1>2, <1>7, <2>2 DEF Kept
  <2>4. CASE j <= d
    <3>1. j \in 1..d /\ j \in 1..Len(sc2)
      BY <2>4
    <3>2. sc2[j][sy[s].name] = s
      BY <1>7, <2>3, <3>1
    <3> QED
      BY <3>1, <3>2
  <2>5. CASE d < j
    <3>1. Entry(vs, j, sy[s].name, sy[s])
      <4>1. sc[j][sy[s].name] # 0
        BY <1>1, <2>3
      <4> QED
        BY <1>2, <1>7, <2>3, <4>1 DEF Entries
    <3>2. j > 1
      BY <2>5
    <3>3. PICK i \in Around(path) : vs[i].base + 1 = j
      BY <3>1, <3>2 DEF Entry
    <3>4. /\ i \in 1..Len(vs) /\ Own(vs[i]) = 1 /\ vs[i].id = path[i].id
          /\ Last(vs[i].kind, vs[i].at) = Last(path[i].kind, path[i].at)
      BY <1>3, <2>2
    <3>5. /\ i \in 1..Len(vs2) /\ vs2[i].id = path[i].id /\ vs2[i].at \in Nat
          /\ vs2[i].at <= Last(path[i].kind, path[i].at)
      BY <1>1, <1>7 DEF Alive
    <3>6. ~ (vs[i].base + 1 <= d)
      BY <2>5, <3>3
    <3>7. Last(vs[i].kind, vs[i].at) < vs2[i].at
      BY <3>4, <3>5, <3>6 DEF Continues
    <3>8. Last(path[i].kind, path[i].at) \in Nat
      BY LastPlace
    <3> QED
      BY <3>4, <3>5, <3>7, <3>8
  <2> QED
    BY <2>4, <2>5
<1>8. Older(sc2)
  <2> SUFFICES ASSUME NEW j \in 1..Len(sc2), NEW k \in 1..Len(sc2), NEW n \in Names,
                      j < k, sc2[j][n] # 0, sc2[k][n] # 0
               PROVE  sc2[j][n] < sc2[k][n]
    BY DEF Older
  <2>1. j \in 1..d /\ k \in 1..d /\ j \in 1..Len(sc) /\ k \in 1..Len(sc)
    OBVIOUS
  <2> QED
    BY <1>2, <2>1 DEF Older
<1> QED
  BY <1>1, <1>5, <1>6, <1>7, <1>8 DEF Scoping, Entries, Kept

(* Scopes that visits have open are there, and those of all but the last    *)
(* visit are below its own.                                                 *)
LEMMA OwnBelow ==
  ASSUME NEW vs \in Seq(Visits), NEW d, Nested(vs, d), NEW i \in 1..Len(vs), Own(vs[i]) = 1
  PROVE  vs[i].base + 1 <= d /\ (i < Len(vs) => vs[i].base + 1 <= vs[Len(vs)].base)
<1>1. /\ Len(vs) \in Nat /\ vs[i] \in Visits /\ vs[Len(vs)] \in Visits
      /\ Own(vs[Len(vs)]) \in {0, 1}
  BY OwnScope
<1>2. vs[i].base \in Nat /\ vs[Len(vs)].base \in Nat
  BY <1>1 DEF Visits
<1>3. i < Len(vs) => vs[i].base + 1 <= vs[Len(vs)].base
  BY <1>1 DEF Nested
<1>4. d = vs[Len(vs)].base + Own(vs[Len(vs)])
  BY DEF Nested
<1> QED
  BY <1>1, <1>2, <1>3, <1>4

(* Where a visit that has a scope open is, the scope has not ended.         *)
LEMMA NotEnded ==
  ASSUME NEW v \in Visits, Own(v) = 1
  PROVE  v.at \in Nat /\ v.kind \in Scoped /\ v.at \in Inside(v.kind) /\ v.at <= Last(v.kind, v.at)
<1>1. v.at \in Nat /\ v.at \in Inside(v.kind)
  BY DEF Visits, Own
<1> QED
  BY <1>1, Regions

(* The last visit goes on, and has the d-th scope closed if it is its own.  *)
LEMMA Moved ==
  ASSUME NEW vs \in Seq(Visits), vs # <<>>, NEW depth, Nested(vs, depth), NEW c, NEW d \in Nat,
         Ids(vs, c), BelowExpressions(vs), NEW w \in Visits,
         w.id = vs[Len(vs)].id, w.kind = vs[Len(vs)].kind, w.base = vs[Len(vs)].base,
         vs[Len(vs)].at <= w.at, vs[Len(vs)].base <= d,
         Own(vs[Len(vs)]) = 1 =>
           IF vs[Len(vs)].base + 1 <= d
             THEN w.at <= Last(vs[Len(vs)].kind, vs[Len(vs)].at)
             ELSE Last(vs[Len(vs)].kind, vs[Len(vs)].at) < w.at
  PROVE  LET us == [vs EXCEPT ![Len(vs)] = w]
         IN  /\ us \in Seq(Visits) /\ Len(us) = Len(vs) /\ Len(vs) \in Nat /\ Len(vs) # 0
             /\ \A i \in 1..Len(vs) - 1 : us[i] = vs[i]
             /\ us[Len(vs)] = w
             /\ Ids(us, c) /\ BelowExpressions(us) /\ Continues(vs, us, c, d)
<1> DEFINE n  == Len(vs)
           us == [vs EXCEPT ![n] = w]
<1>1. n \in Nat /\ n # 0 /\ n \in 1..n
  <2>1. n \in Nat /\ n # 0
    BY EmptySeq
  <2> QED
    BY <2>1
<1>2. /\ us \in Seq(Visits) /\ Len(us) = n
      /\ us[n] = w /\ \A i \in 1..n - 1 : us[i] = vs[i]
  BY <1>1, ExceptSeq
<1> HIDE DEF us
<1>3. \A i \in 1..n : i = n \/ i \in 1..n - 1
  BY <1>1
<1>4. \A i \in 1..n : us[i].id = vs[i].id /\ us[i].kind = vs[i].kind /\ us[i].base = vs[i].base
  BY <1>2, <1>3
<1>5. Ids(us, c)
  BY <1>2, <1>4 DEF Ids
<1>6. BelowExpressions(us)
  <2> SUFFICES ASSUME NEW i \in 1..n, NEW k \in 1..n, i < k, Step(us[i]) \in Valued
               PROVE  us[k].kind \in Expressions
    BY <1>2 DEF BelowExpressions
  <2>1. us[i] = vs[i]
    BY <1>1, <1>2
  <2> QED
    BY <1>4, <2>1 DEF BelowExpressions
<1>7. \A i \in 1..n : vs[i].at \in Nat
  <2>1. \A i \in 1..n : vs[i] \in Visits
    OBVIOUS
  <2> QED
    BY <2>1 DEF Visits
<1>8. \A i \in 1..n : vs[i].at <= us[i].at
  BY <1>2, <1>3, <1>7
<1>9. ASSUME NEW i \in 1..n, Own(vs[i]) = 1
      PROVE  IF vs[i].base + 1 <= d
               THEN us[i].at <= Last(vs[i].kind, vs[i].at)
               ELSE Last(vs[i].kind, vs[i].at) < us[i].at
  <2>1. CASE i = n
    BY <1>2, <1>9, <2>1
  <2>2. CASE i \in 1..n - 1
    <3>1. us[i] = vs[i] /\ i < n /\ vs[i] \in Visits /\ vs[n] \in Visits
      BY <1>1, <1>2, <2>2
    <3>2. vs[i].base + 1 <= vs[n].base /\ vs[i].at <= Last(vs[i].kind, vs[i].at)
      BY <1>9, <3>1, OwnBelow, NotEnded
    <3>3. vs[i].base \in Nat /\ vs[n].base \in Nat
      BY <3>1 DEF Visits
    <3> QED
      BY <3>1, <3>2, <3>3
  <2> QED
    BY <1>3, <2>1, <2>2
<1>10. Continues(vs, us, c, d)
  BY <1>2, <1>4, <1>8, <1>9 DEF Continues
<1> QED
  BY <1>1, <1>2, <1>5, <1>6, <1>10 DEF us

(* A step of the last visit that neither opens nor closes its scope.        *)
LEMMA Moves ==
  ASSUME NEW vs \in Seq(Visits), vs # <<>>, NEW sc, NEW sy, NEW sy2, NEW c \in Nat,
         Nested(vs, Len(sc)), TablesInv(sc, sy),
         Scoping(vs, sc, sy, c), Shape(vs, Len(sc)), SamePaths(sy, sy2),
         NEW w \in Visits,
         w.id = vs[Len(vs)].id, w.kind = vs[Len(vs)].kind, w.base = vs[Len(vs)].base,
         vs[Len(vs)].at # 0, w.at \in {vs[Len(vs)].at, vs[Len(vs)].at + 1},
         Step(vs[Len(vs)]) \notin {"open", "close"}
  PROVE  LET us == [vs EXCEPT ![Len(vs)] = w]
         IN  Scoping(us, sc, sy2, c) /\ Shape(us, Len(sc))
<1> DEFINE n  == Len(vs)
           v  == vs[n]
           us == [vs EXCEPT ![n] = w]
           d  == Len(sc)
<1>1. n \in Nat /\ n # 0 /\ n \in 1..n
  <2>1. n \in Nat /\ n # 0
    BY EmptySeq
  <2> QED
    BY <2>1
<1>2. v \in Visits
  BY <1>1
<1>3. /\ v.kind \in Kinds /\ v.at \in Nat \ {0} /\ v.base \in Nat
      /\ Step(v) = Steps(v.kind, v.at)
  BY <1>2 DEF Visits, Step, Steps
<1>4. ScopeSteps(v.kind, v.at) /\ ClosedLast(v.kind, v.at)
  BY <1>3, Scripts, ScriptScopes
<1>5. d \in Nat /\ d # 0 /\ d = v.base + Own(v) /\ Own(v) \in {0, 1}
  <2>1. d \in Nat /\ d # 0
    BY EmptySeq DEF TablesInv
  <2> QED
    BY <2>1, OwnScope DEF Nested
<1>6. w.at \in Inside(w.kind) <=> v.at \in Inside(v.kind)
  BY <1>3, <1>4 DEF ScopeSteps
<1>7. Own(w) = Own(v)
  BY <1>6 DEF Own
<1>8. Own(v) = 1 => w.at <= Last(v.kind, v.at)
  <2> SUFFICES ASSUME Own(v) = 1
               PROVE  w.at <= Last(v.kind, v.at)
    OBVIOUS
  <2>1. v.at \in Inside(v.kind) /\ v.at <= Last(v.kind, v.at)
    BY <1>2, NotEnded
  <2>2. v.at + 1 <= Last(v.kind, v.at)
    BY <1>3, <1>4, <2>1 DEF ClosedLast
  <2> HIDE DEF v
  <2> QED
    BY <2>1, <2>2 DEF v
<1>9. /\ us \in Seq(Visits) /\ Len(us) = n /\ us[n] = w /\ \A i \in 1..n - 1 : us[i] = vs[i]
      /\ Ids(us, c) /\ BelowExpressions(us) /\ Continues(vs, us, c, d)
  <2>1. v.at <= w.at /\ v.base <= d /\ (Own(v) = 1 => v.base + 1 <= d)
    BY <1>3, <1>5
  <2>2. Ids(vs, c) /\ BelowExpressions(vs)
    BY DEF Scoping, Shape
  <2> QED
    BY <1>5, <1>8, <2>1, <2>2, Moved
<1> HIDE DEF us, d
<1>10. \A j \in 1..d, m \in Names : sc[j][m] \in 0..Len(sy)
  BY DEF TablesInv, Identifiers, d
<1>11. Scoping(us, sc, sy2, c)
  <2>1. d <= d /\ c <= c /\ \A j \in 1..d : ~ (d < j)
    BY <1>5
  <2> QED
    BY <1>5, <1>9, <1>10, <2>1, Aged DEF d
<1>12. Owners(us, d)
  <2> SUFFICES ASSUME NEW j \in 2..d
               PROVE  \E i \in 1..n : Own(us[i]) = 1 /\ us[i].base + 1 = j
    BY <1>9 DEF Owners
  <2>1. PICK i \in 1..n : Own(vs[i]) = 1 /\ vs[i].base + 1 = j
    BY DEF Shape, Owners, d
  <2>2. i = n \/ i \in 1..n - 1
    BY <1>1
  <2> QED
    BY <1>7, <1>9, <2>1, <2>2
<1> QED
  BY <1>9, <1>11, <1>12 DEF Shape, us, d

-----------------------------------------------------------------------------
(* The steps *)

LScopes == Scoping(visits, scopes, symbols, visited) /\ Shape(visits, Len(scopes))

LEMMA LBasics ==
  ASSUME LInv
  PROVE  /\ IInv /\ LScopes
         /\ visits \in Seq(Visits) /\ visits # <<>> /\ Len(visits) \in Nat /\ Len(visits) # 0
         /\ Top = visits[Len(visits)] /\ Nested(visits, Len(scopes)) /\ TablesInv(scopes, symbols)
         /\ visited \in Nat /\ Len(scopes) \in Nat /\ Len(scopes) # 0 /\ Len(symbols) \in Nat
         /\ symbols \in Seq(Symbols) /\ Top.at # 0 /\ SamePaths(symbols, symbols)
<1>1. IInv /\ LScopes
  BY DEF LInv, LScopes
<1>2. /\ visits \in Seq(Visits) /\ visits # <<>> /\ Nested(visits, Len(scopes))
      /\ TablesInv(scopes, symbols) /\ symbols \in Seq(Symbols) /\ visited \in Nat
  BY <1>1 DEF IInv, VisitsInv, TablesInv, Others
<1>3. /\ Len(visits) \in Nat /\ Len(visits) # 0 /\ Len(scopes) \in Nat /\ Len(scopes) # 0
      /\ Len(symbols) \in Nat /\ Top.at # 0
  BY <1>1, Basics
<1>4. SamePaths(symbols, symbols)
  BY <1>2 DEF SamePaths
<1> QED
  BY <1>1, <1>2, <1>3, <1>4 DEF Top

LEMMA Goes ==
  ASSUME LInv, NEW w \in Visits, w.id = Top.id, w.kind = Top.kind, w.base = Top.base,
         w.at \in {Top.at, Top.at + 1}, Step(Top) \notin {"open", "close"},
         visits' = WithTop(w), scopes' = scopes, SamePaths(symbols, symbols'), visited' = visited
  PROVE  LScopes'
<1> DEFINE us == [visits EXCEPT ![Len(visits)] = w]
<1>1. Scoping(us, scopes, symbols', visited) /\ Shape(us, Len(scopes))
  BY LBasics, Moves DEF LScopes
<1>2. visits' = us
  BY DEF WithTop
<1> HIDE DEF us
<1> QED
  BY <1>1, <1>2 DEF LScopes

LEMMA GivenPlace ==
  ASSUME NEW v \in Visits, NEW val \in DataTypes
  PROVE  LET w == Given(v, val)
         IN  /\ w \in Visits /\ w.id = v.id /\ w.kind = v.kind /\ w.base = v.base
             /\ w.at \in {v.at, v.at + 1}
<1> DEFINE a == IF Step(v) \in Repeated THEN v.at ELSE v.at + 1
           b == IF Step(v) \in Valued THEN Append(v.vals, val) ELSE v.vals
<1>1. v.at \in Nat /\ v.vals \in Seq(DataTypes)
  BY DEF Visits
<1>2. a \in Nat /\ a \in {v.at, v.at + 1} /\ b \in Seq(DataTypes)
  BY <1>1
<1>3. Given(v, val) = [v EXCEPT !.at = a, !.vals = b]
  BY DEF Given, Visits
<1> HIDE DEF a, b
<1> QED
  BY <1>2, <1>3 DEF Visits

LEMMA AdvancedPlace ==
  ASSUME NEW v \in Visits, NEW s \in Nat
  PROVE  /\ Advanced(v) \in Visits /\ [Advanced(v) EXCEPT !.symbol = s] \in Visits
         /\ Advanced(v).id = v.id /\ Advanced(v).kind = v.kind /\ Advanced(v).base = v.base
         /\ Advanced(v).at = v.at + 1
         /\ [Advanced(v) EXCEPT !.symbol = s].id = v.id
         /\ [Advanced(v) EXCEPT !.symbol = s].kind = v.kind
         /\ [Advanced(v) EXCEPT !.symbol = s].base = v.base
         /\ [Advanced(v) EXCEPT !.symbol = s].at = v.at + 1
<1>1. [Advanced(v) EXCEPT !.symbol = s] \in Visits
  BY AdvancedVisit
<1>2. Advanced(v) \in Visits
  BY DEF Advanced, Visits
<1> QED
  BY <1>1, <1>2 DEF Advanced, Visits

(* The last visitor returns, or refuses, and its parent goes on.            *)
LEMMA Back ==
  ASSUME LInv, NEW val \in DataTypes, Len(visits) > 1, Own(Top) = 0,
         visits' = Returned(val), UNCHANGED <<visited, scopes, symbols>>
  PROVE  LScopes'
<1> DEFINE n  == Len(visits)
           us == SubSeq(visits, 1, n - 1)
           v  == us[Len(us)]
           d  == Len(scopes)
<1>1. /\ VisitsInv(us, scopes, symbols, error) /\ Len(us) = n - 1
      /\ v \in Visits /\ Values(v, error) /\ Step(v) \in Visiting
  BY LBasics, Ended DEF IInv
<1>2. /\ n \in Nat /\ d \in Nat /\ d # 0 /\ us \in Seq(Visits) /\ us # <<>>
      /\ \A i \in 1..n - 1 : us[i] = visits[i] /\ i \in 1..n
  <2>1. us \in Seq(Visits) /\ us # <<>>
    <3> HIDE DEF us
    <3> QED
      BY <1>1 DEF VisitsInv
  <2>2. n \in Nat /\ d \in Nat /\ d # 0 /\ visits \in Seq(Visits)
    BY LBasics
  <2> QED
    BY <2>1, <2>2
<1>3. visits' = [us EXCEPT ![Len(us)] = Given(v, val)]
  <2>1. Len(us) \in DOMAIN us
    BY <1>1, <1>2
  <2> QED
    BY <1>1, <2>1 DEF Returned
<1> HIDE DEF us, v
<1>4. \A i \in 1..n : Own(visits[i]) = 1 => i \in 1..n - 1
  BY <1>2 DEF Top
<1>5. Nested(us, d)
  BY <1>1 DEF VisitsInv
<1>6. Ids(us, visited)
  BY <1>1, <1>2, LBasics DEF LScopes, Scoping, Ids
<1>7. \A i \in 1..n : visits[i].at \in Nat /\ visits[i].base \in Nat
  <2>1. \A i \in 1..n : visits[i] \in Visits
    BY LBasics
  <2> QED
    BY <2>1 DEF Visits
<1>8. Continues(visits, us, visited, d)
  <2>1. ASSUME NEW i \in 1..n, Own(visits[i]) = 1
        PROVE  /\ visits[i].base + 1 <= d /\ i \in 1..n - 1 /\ us[i] = visits[i]
               /\ visits[i].at <= Last(visits[i].kind, visits[i].at)
    <3>1. visits[i] \in Visits
      BY LBasics
    <3> QED
      BY <1>2, <1>4, <2>1, <3>1, LBasics, OwnBelow, NotEnded
  <2>2. ASSUME NEW i \in 1..n - 1
        PROVE  /\ i \in 1..n /\ us[i].id = visits[i].id /\ us[i].kind = visits[i].kind
               /\ us[i].base = visits[i].base /\ visits[i].at <= us[i].at
    BY <1>2, <1>7
  <2> QED
    BY <1>1, <2>1, <2>2 DEF Continues
<1>9. Scoping(us, scopes, symbols, visited)
  <2>1. /\ d <= d /\ visited <= visited /\ \A j \in 1..d : ~ (d < j)
        /\ visited \in Nat
    BY <1>2, LBasics
  <2>2. \A j \in 1..d, m \in Names : scopes[j][m] \in 0..Len(symbols)
    BY LBasics DEF TablesInv, Identifiers
  <2> QED
    BY <1>2, <1>6, <1>8, <2>1, <2>2, LBasics, Aged DEF LScopes
<1>10. Shape(us, d)
  <2>1. Owners(us, d)
    <3> SUFFICES ASSUME NEW j \in 2..d
                 PROVE  \E i \in 1..n - 1 : Own(us[i]) = 1 /\ us[i].base + 1 = j
      BY <1>1 DEF Owners
    <3>1. PICK i \in 1..n : Own(visits[i]) = 1 /\ visits[i].base + 1 = j
      BY LBasics DEF LScopes, Shape, Owners
    <3> QED
      BY <1>2, <1>4, <3>1
  <2>2. BelowExpressions(us)
    BY <1>1, <1>2, LBasics DEF LScopes, Shape, BelowExpressions
  <2> QED
    BY <2>1, <2>2 DEF Shape
<1>11. /\ Given(v, val) \in Visits /\ Given(v, val).id = v.id /\ Given(v, val).kind = v.kind
       /\ Given(v, val).base = v.base /\ Given(v, val).at \in {v.at, v.at + 1}
  BY <1>1, GivenPlace
<1>12. v.at # 0 /\ Step(v) \notin {"open", "close"}
  BY <1>1 DEF Values, Visiting
<1> DEFINE ts == [us EXCEPT ![Len(us)] = Given(v, val)]
<1>13. Scoping(ts, scopes, symbols, visited) /\ Shape(ts, d)
  BY <1>2, <1>5, <1>9, <1>10, <1>11, <1>12, LBasics, Moves DEF v
<1> HIDE DEF ts
<1> QED
  BY <1>3, <1>13 DEF LScopes, ts

LEMMA RefusedBack ==
  ASSUME LInv, Step(Top) \in Checked, Refuse
  PROVE  LScopes'
<1>1. Top.kind \in Named /\ Own(Top) = 0
  BY LBasics, Basics DEF CheckedSteps, Own
<1>2. Len(visits) > 1
  <2>1. Top.kind # "program"
    BY <1>1 DEF Named, Functions, Calls
  <2>2. Len(visits) # 1
    BY <2>1, LBasics DEF Nested
  <2>3. \A k \in Nat : k # 0 /\ k # 1 => k > 1
    OBVIOUS
  <2> QED
    BY <2>2, <2>3, LBasics
<1>3. "NONE" \in DataTypes
  BY DEF DataTypes
<1> QED
  BY <1>1, <1>2, <1>3, Back DEF Refuse

LEMMA ReturnBack ==
  ASSUME LInv, Return
  PROVE  LScopes'
<1>1. Step(Top) = "leave" /\ Len(visits) > 1
  BY DEF Return, At
<1>2. Outcome(Top).type \in DataTypes
  BY <1>1, LBasics, Outcomes
<1>3. Own(Top) = 0
  BY <1>1, LBasics, Basics DEF ScopeSteps, Own
<1> QED
  BY <1>1, <1>2, <1>3, Back DEF Return

LEMMA PlainSteps ==
  ASSUME LInv, EndOfList \/ FindVariable \/ FindFunction \/ Identifier \/ Literal \/ StringLiteral
  PROVE  LScopes'
<1>0. Top \in Visits /\ 0 \in Nat
  BY LBasics, Basics
<1>1. CASE EndOfList
  <2>1. Step(Top) \notin {"open", "close"}
    BY <1>1 DEF EndOfList, Repeated
  <2> QED
    BY <1>0, <1>1, <2>1, LBasics, AdvancedPlace, Goes DEF EndOfList
<1>2. CASE FindVariable \/ FindFunction
  <2> DEFINE s == symbol_table_lookup_symbol(Top.name)
  <2>1. Step(Top) \in {"find", "find_function"}
    BY <1>2 DEF FindVariable, FindFunction, At
  <2>2. CASE Refuse
    BY <2>1, <2>2, RefusedBack DEF Checked
  <2>3. CASE visits' = WithTop([Advanced(Top) EXCEPT !.symbol = s]) /\
             UNCHANGED <<visited, scopes, symbols, GlobalStrings, string_ids, error>>
    <3>1. Top.name \in Identifiers
      BY <2>1, LBasics, Basics DEF CheckedSteps, Checked, Values, Identifiers
    <3>2. s \in Nat
      BY <3>1, LBasics, SymbolFound
    <3> HIDE DEF s
    <3> QED
      BY <1>0, <2>1, <2>3, <3>2, LBasics, AdvancedPlace, Goes
  <2> QED
    BY <1>2, <2>2, <2>3 DEF FindVariable, FindFunction
<1>3. CASE Identifier \/ Literal \/ StringLiteral
  <2>1. Step(Top) \in Valued /\ UNCHANGED <<visited, scopes, symbols>>
    BY <1>3 DEF Identifier, Literal, StringLiteral, Expects, At, Valued
  <2>2. \E val \in DataTypes : visits' = WithTop(Given(Top, val))
    <3>1. CASE Identifier
      <4>1. PICK m \in Names :
              LET s == symbol_table_lookup_symbol(m)
              IN  visits' = WithTop(Given(Top, IF s = 0 THEN "UNKNOWN" ELSE symbols[s].type))
        BY <3>1 DEF Identifier
      <4> DEFINE s   == symbol_table_lookup_symbol(m)
                 val == IF s = 0 THEN "UNKNOWN" ELSE symbols[s].type
      <4>2. visits' = WithTop(Given(Top, val)) /\ s \in 0..Len(symbols)
        BY <4>1, LBasics, SymbolFound DEF Identifiers
      <4> HIDE DEF s
      <4>3. s # 0 => symbols[s] \in Symbols
        BY <4>2, LBasics
      <4>4. val \in DataTypes
        BY <4>3 DEF Symbols, DataTypes
      <4> HIDE DEF val
      <4> QED
        BY <4>2, <4>4
    <3>2. CASE Literal
      <4>1. PICK t \in VariableTypes : visits' = WithTop(Given(Top, t))
        BY <3>2 DEF Literal, VariableTypes
      <4> QED
        BY <4>1 DEF DataTypes
    <3>3. CASE StringLiteral
      BY <3>3 DEF StringLiteral, DataTypes
    <3> QED
      BY <1>3, <3>1, <3>2, <3>3
  <2>3. PICK val \in DataTypes : visits' = WithTop(Given(Top, val))
    BY <2>2
  <2>4. Step(Top) \notin {"open", "close"} /\ SamePaths(symbols, symbols')
    BY <2>1, LBasics DEF Valued
  <2> QED
    BY <1>0, <2>1, <2>3, <2>4, GivenPlace, Goes
<1> QED
  BY <1>1, <1>2, <1>3

LEMMA Opens ==
  ASSUME LInv, symbol_table_add_scope
  PROVE  LScopes'
<1> DEFINE n   == Len(visits)
           w   == Advanced(Top)
           d   == Len(scopes)
           us  == [visits EXCEPT ![n] = w]
           sc2 == Append(scopes, scope_init)
<1>1. /\ Step(Top) = "open" /\ visits' = us /\ scopes' = sc2
      /\ UNCHANGED <<visited, symbols>>
  BY DEF symbol_table_add_scope, At, WithTop
<1>2. /\ Top \in Visits /\ w \in Visits /\ w.id = Top.id /\ w.kind = Top.kind
      /\ w.base = Top.base /\ w.at = Top.at + 1 /\ Top.at \in Nat /\ Top.base \in Nat
      /\ Top.at \notin Inside(Top.kind) /\ w.at \in Inside(Top.kind) /\ d = Top.base + Own(Top)
  BY <1>1, LBasics, Basics, AdvancedPlace DEF ScopeSteps
<1> HIDE DEF w
<1>3. Own(Top) = 0 /\ Own(w) = 1 /\ d = Top.base /\ d \in Nat /\ d # 0 /\ n \in Nat /\ n # 0
  <2>1. Own(Top) = 0 /\ Own(w) = 1
    BY <1>2 DEF Own
  <2> QED
    BY <1>2, <2>1, LBasics
<1>4. /\ us \in Seq(Visits) /\ Len(us) = n /\ us[n] = w
      /\ \A i \in 1..n - 1 : us[i] = visits[i]
      /\ Ids(us, visited) /\ BelowExpressions(us) /\ Continues(visits, us, visited, d)
  <2>1. Top.at <= w.at /\ Top.base <= d
    BY <1>2, <1>3
  <2>2. Ids(visits, visited) /\ BelowExpressions(visits)
    BY LBasics DEF LScopes, Scoping, Shape
  <2>3. /\ visits \in Seq(Visits) /\ visits # <<>> /\ Nested(visits, d) /\ Top = visits[n]
    BY LBasics
  <2>4. /\ w.id = visits[n].id /\ w.kind = visits[n].kind /\ w.base = visits[n].base
        /\ visits[n].at <= w.at /\ visits[n].base <= d /\ Own(visits[n]) = 0
    BY <1>2, <1>3, <2>1, <2>3
  <2> HIDE DEF d
  <2> QED
    BY <1>2, <1>3, <2>2, <2>3, <2>4, Moved
<1> HIDE DEF us
<1>5. /\ scopes \in Seq([Identifiers -> Nat]) /\ scope_init \in [Identifiers -> Nat]
      /\ \A m \in Names : scope_init[m] = 0
  BY LBasics DEF TablesInv, scope_init, Identifiers
<1>6. /\ Len(sc2) = d + 1 /\ sc2[d + 1] = scope_init
      /\ \A j \in 1..d : sc2[j] = scopes[j]
  BY <1>5, AppendProperties
<1> HIDE DEF sc2, d
<1>7. \A j \in 1..d, m \in Names : scopes[j][m] \in 0..Len(symbols)
  BY LBasics DEF TablesInv, Identifiers, d
<1>8. Scoping(us, sc2, symbols, visited)
  <2>1. /\ d \in Nat \ {0} /\ Len(sc2) \in Nat /\ d <= Len(sc2) /\ d <= d
        /\ visited <= visited /\ visited \in Nat /\ Len(scopes) = d
    BY <1>3, <1>6, LBasics DEF d
  <2>2. \A j \in 1..d, m \in Names : sc2[j][m] = scopes[j][m]
    BY <1>6
  <2>3. \A j \in 1..Len(sc2), m \in Names : d < j => sc2[j][m] = 0
    <3>1. \A j \in 1..Len(sc2) : d < j => j = d + 1
      BY <1>3, <1>6
    <3> QED
      BY <1>5, <1>6, <3>1
  <2> QED
    BY <1>4, <1>7, <2>1, <2>2, <2>3, LBasics, Aged DEF LScopes
<1>9. Owners(us, d + 1)
  <2> SUFFICES ASSUME NEW j \in 2..d + 1
               PROVE  \E i \in 1..n : Own(us[i]) = 1 /\ us[i].base + 1 = j
    BY <1>4 DEF Owners
  <2>1. CASE j = d + 1
    <3>1. n \in 1..n /\ us[n].base + 1 = j /\ Own(us[n]) = 1
      BY <1>2, <1>3, <1>4, <2>1
    <3> QED
      BY <3>1
  <2>2. CASE j \in 2..d
    <3>1. PICK i \in 1..n : Own(visits[i]) = 1 /\ visits[i].base + 1 = j
      BY <2>2, LBasics DEF LScopes, Shape, Owners, d
    <3>2. i \in 1..n - 1
      BY <1>3, <3>1, LBasics
    <3> QED
      BY <1>4, <3>1, <3>2
  <2> QED
    BY <1>3, <2>1, <2>2
<1> QED
  BY <1>1, <1>4, <1>6, <1>8, <1>9 DEF LScopes, Shape

LEMMA Closes ==
  ASSUME LInv, symbol_table_remove_scope
  PROVE  LScopes'
<1> DEFINE n   == Len(visits)
           w   == Advanced(Top)
           d   == Len(scopes)
           us  == [visits EXCEPT ![n] = w]
           sc2 == SubSeq(scopes, 1, d - 1)
<1>1. /\ Step(Top) = "close" /\ visits' = us /\ scopes' = sc2
      /\ UNCHANGED <<visited, symbols>>
  BY DEF symbol_table_remove_scope, At, WithTop
<1>2. /\ Top \in Visits /\ w \in Visits /\ w.id = Top.id /\ w.kind = Top.kind
      /\ w.base = Top.base /\ w.at = Top.at + 1 /\ Top.at \in Nat /\ Top.base \in Nat
      /\ Top.at \in Inside(Top.kind) /\ w.at \notin Inside(Top.kind) /\ d = Top.base + Own(Top)
  BY <1>1, LBasics, Basics, AdvancedPlace DEF ScopeSteps
<1> HIDE DEF w
<1>3. Last(Top.kind, Top.at) = Top.at
  BY <1>1, <1>2, LBasics, Basics, ScriptScopes DEF ClosedLast
<1>4. Own(Top) = 1 /\ Own(w) = 0 /\ d - 1 = Top.base /\ d \in Nat /\ n \in Nat /\ n # 0
  <2>1. Own(Top) = 1 /\ Own(w) = 0
    BY <1>2 DEF Own
  <2> QED
    BY <1>2, <2>1, LBasics
<1>5. d - 1 \in Nat /\ d - 1 # 0
  <2>1. n \in 1..n
    BY <1>4
  <2>2. Top.base >= 1
    BY <2>1, LBasics DEF Nested
  <2> QED
    BY <1>2, <1>4, <2>2
<1>6. /\ us \in Seq(Visits) /\ Len(us) = n /\ us[n] = w
      /\ \A i \in 1..n - 1 : us[i] = visits[i]
      /\ Ids(us, visited) /\ BelowExpressions(us) /\ Continues(visits, us, visited, d - 1)
  <2>1. /\ Top.at <= w.at /\ Top.base <= d - 1 /\ ~ (Top.base + 1 <= d - 1)
        /\ Last(Top.kind, Top.at) < w.at
    BY <1>2, <1>3, <1>4
  <2>2. Ids(visits, visited) /\ BelowExpressions(visits)
    BY LBasics DEF LScopes, Scoping, Shape
  <2>3. /\ visits \in Seq(Visits) /\ visits # <<>> /\ Nested(visits, d) /\ Top = visits[n]
    BY LBasics
  <2> DEFINE e == d - 1
  <2>4. /\ w.id = visits[n].id /\ w.kind = visits[n].kind /\ w.base = visits[n].base
        /\ visits[n].at <= w.at /\ visits[n].base <= e /\ ~ (visits[n].base + 1 <= e)
        /\ Last(visits[n].kind, visits[n].at) < w.at /\ e \in Nat
    BY <1>2, <1>5, <2>1, <2>3
  <2> HIDE DEF d, e
  <2>5. /\ us \in Seq(Visits) /\ Len(us) = n /\ us[n] = w
        /\ \A i \in 1..n - 1 : us[i] = visits[i]
        /\ Ids(us, visited) /\ BelowExpressions(us) /\ Continues(visits, us, visited, e)
    BY <1>2, <2>2, <2>3, <2>4, Moved
  <2> QED
    BY <2>5 DEF e
<1> HIDE DEF us
<1>7. Len(sc2) = d - 1 /\ \A j \in 1..d - 1 : sc2[j] = scopes[j] /\ j \in 1..d
  <2>1. scopes \in Seq([Identifiers -> Nat])
    BY LBasics DEF TablesInv
  <2>2. \A j \in 1..d - 1 : scopes[j] \in [Identifiers -> Nat] /\ j \in 1..d
    BY <1>4, <2>1
  <2>3. /\ Len(SubSeq(scopes, 1, d - 1)) = d - 1
        /\ \A j \in 1..d - 1 : SubSeq(scopes, 1, d - 1)[j] = scopes[j]
    <3> DEFINE e == d - 1
    <3>1. e \in Nat /\ 1..e \subseteq 1..Len(scopes)
      BY <1>4, <1>5
    <3> HIDE DEF e
    <3> SUFFICES /\ Len(SubSeq(scopes, 1, e)) = e
                 /\ \A j \in 1..e : SubSeq(scopes, 1, e)[j] = scopes[j]
      BY DEF e
    <3> QED
      BY <2>1, <3>1
  <2> QED
    BY <2>2, <2>3
<1> HIDE DEF sc2
<1>8. \A j \in 1..Len(scopes), m \in Names : scopes[j][m] \in 0..Len(symbols)
  BY LBasics DEF TablesInv, Identifiers
<1>9. Scoping(us, sc2, symbols, visited)
  <2>1. /\ d - 1 \in Nat \ {0} /\ Len(sc2) \in Nat /\ d - 1 <= Len(sc2) /\ d - 1 <= Len(scopes)
        /\ visited <= visited /\ visited \in Nat /\ Len(scopes) \in Nat
        /\ \A j \in 1..Len(sc2) : ~ (d - 1 < j)
    BY <1>4, <1>5, <1>7, LBasics
  <2>2. \A j \in 1..d - 1, m \in Names : sc2[j][m] = scopes[j][m]
    BY <1>7
  <2> DEFINE e == d - 1
  <2> HIDE DEF e
  <2>3. /\ e \in Nat \ {0} /\ Len(sc2) \in Nat /\ e <= Len(sc2) /\ e <= Len(scopes)
        /\ \A j \in 1..Len(sc2) : ~ (e < j)
        /\ \A j \in 1..e, m \in Names : sc2[j][m] = scopes[j][m]
        /\ Continues(visits, us, visited, e)
    BY <1>6, <2>1, <2>2 DEF e
  <2> QED
    BY <1>6, <1>8, <2>1, <2>3, LBasics, Aged DEF LScopes
<1>10. Owners(us, d - 1)
  <2> SUFFICES ASSUME NEW j \in 2..d - 1
               PROVE  \E i \in 1..n : Own(us[i]) = 1 /\ us[i].base + 1 = j
    BY <1>6 DEF Owners
  <2>1. j \in 2..d /\ j # Top.base + 1
    BY <1>4
  <2>2. PICK i \in 1..n : Own(visits[i]) = 1 /\ visits[i].base + 1 = j
    BY <2>1, LBasics DEF LScopes, Shape, Owners
  <2>3. i \in 1..n - 1
    BY <1>4, <2>1, <2>2, LBasics
  <2> QED
    BY <1>6, <2>2, <2>3
<1> QED
  BY <1>1, <1>6, <1>7, <1>9, <1>10 DEF LScopes, Shape

(* Expressions visit expressions only.                                      *)
LEMMA ExpressionSteps ==
  ASSUME NEW k \in Expressions, NEW at \in Nat, Steps(k, at) \in Visiting
  PROVE  Steps(k, at) \in Valued
<1> USE DEF Steps, Visiting, Valued, ir_visitor
<1>1. CASE k = "function_call"
  BY <1>1 DEF function_call
<1>2. CASE k = "function_call_with_nothing"
  BY <1>2 DEF function_call_with_nothing
<1>3. CASE k = "condition"
  BY <1>3 DEF condition
<1>4. CASE k = "condition_list"
  BY <1>4 DEF condition_list
<1>5. CASE k = "expression"
  BY <1>5 DEF expression
<1>6. CASE k = "factor"
  BY <1>6 DEF factor
<1> QED
  BY <1>1, <1>2, <1>3, <1>4, <1>5, <1>6 DEF Expressions, Conditions, Calls

LEMMA Accepts ==
  ASSUME LInv, accept
  PROVE  LScopes'
<1> DEFINE n == Len(visits)
           d == Len(scopes)
<1>0. PICK kind \in Allowed(Step(Top)) :
        \E name \in NamesOf(kind), type \in TypesOf(kind) :
          visits' = Append(visits, Started(kind, name, type))
  BY DEF accept
<1>1. PICK name \in NamesOf(kind), type \in TypesOf(kind) :
        visits' = Append(visits, Started(kind, name, type))
  BY <1>0
<1> DEFINE v  == Started(kind, name, type)
           us == Append(visits, v)
<1>2. /\ visits \in Seq(Visits) /\ n \in Nat /\ n # 0 /\ d \in Nat /\ d # 0 /\ visited \in Nat
      /\ \A i \in 1..n : visits[i] \in Visits
  BY LBasics
<1>3. /\ Step(Top) \in Visiting /\ visited' = visited + 1 /\ UNCHANGED <<scopes, symbols>>
      /\ visits' = us
  BY <1>1 DEF accept, Expects
<1>4. v.id = visited + 1 /\ v.kind = kind
  BY DEF Started
<1>5. us \in Seq(Visits)
  <2>1. kind \in Kinds
    BY <1>3 DEF Allowed, Visiting, InFunctions, Functions, Conditions, Expressions, Calls,
                   Kinds, ir_visitor
  <2>2. name \in Names \cup {NoName} /\ type \in DataTypes
    BY DEF NamesOf, TypesOf, DataTypes
  <2>3. v \in Visits
    BY <1>2, <2>1, <2>2 DEF Started, Visits
  <2> HIDE DEF v
  <2> QED
    BY <1>2, <2>3
<1> HIDE DEF v
<1>6. Len(us) = n + 1 /\ us[n + 1] = v /\ \A i \in 1..n : us[i] = visits[i] /\ i \in 1..n + 1
  BY <1>2
<1> HIDE DEF us
<1>7. \A i \in 1..n + 1 : i \in 1..n \/ i = n + 1
  BY <1>2
<1>8. \A i \in 1..n : visits[i].at \in Nat /\ visits[i].id \in Nat
  BY <1>2 DEF Visits
<1>9. Ids(us, visited + 1)
  <2>1. \A i \in 1..n : visits[i].id <= visited + 1
    BY <1>2, <1>8, LBasics DEF LScopes, Scoping, Ids
  <2> QED
    BY <1>2, <1>4, <1>6, <1>7, <2>1 DEF Ids
<1>10. Continues(visits, us, visited, d)
  <2>1. ASSUME NEW i \in 1..n, Own(visits[i]) = 1
        PROVE  visits[i].base + 1 <= d /\ visits[i].at <= Last(visits[i].kind, visits[i].at)
    BY <1>2, <2>1, LBasics, OwnBelow, NotEnded
  <2>2. visited < us[n + 1].id
    BY <1>2, <1>4, <1>6
  <2>3. ASSUME NEW i \in 1..n
        PROVE  /\ us[i].id = visits[i].id /\ us[i].kind = visits[i].kind
               /\ us[i].base = visits[i].base /\ visits[i].at <= us[i].at
               /\ i \in 1..n + 1 /\ us[i].at = visits[i].at
    BY <1>6, <1>8
  <2> QED
    BY <1>6, <1>7, <2>1, <2>2, <2>3 DEF Continues
<1>11. Scoping(us, scopes, symbols, visited + 1)
  <2>1. /\ d <= d /\ visited <= visited + 1 /\ visited + 1 \in Nat
        /\ \A j \in 1..d : ~ (d < j)
    BY <1>2
  <2>2. \A j \in 1..d, m \in Names : scopes[j][m] \in 0..Len(symbols)
    BY LBasics DEF TablesInv, Identifiers
  <2> QED
    BY <1>2, <1>5, <1>9, <1>10, <2>1, <2>2, LBasics, Aged DEF LScopes
<1>12. Owners(us, d)
  <2> SUFFICES ASSUME NEW j \in 2..d
               PROVE  \E i \in 1..n + 1 : Own(us[i]) = 1 /\ us[i].base + 1 = j
    BY <1>6 DEF Owners
  <2>1. PICK i \in 1..n : Own(visits[i]) = 1 /\ visits[i].base + 1 = j
    BY LBasics DEF LScopes, Shape, Owners
  <2> QED
    BY <1>6, <2>1
<1>13. BelowExpressions(us)
  <2> SUFFICES ASSUME NEW i \in 1..n + 1, NEW k \in 1..n + 1, i < k, Step(us[i]) \in Valued
               PROVE  us[k].kind \in Expressions
    BY <1>6 DEF BelowExpressions
  <2>1. i \in 1..n /\ us[i] = visits[i]
    BY <1>2, <1>6
  <2>2. CASE k \in 1..n
    BY <1>6, <2>1, <2>2, LBasics DEF LScopes, Shape, BelowExpressions
  <2>3. CASE k = n + 1
    <3>1. Step(Top) \in Valued
      <4>1. CASE i = n
        BY <2>1, <4>1, LBasics
      <4>2. CASE i < n
        <5>1. Top.kind \in Expressions
          BY <1>2, <2>1, <4>2, LBasics DEF LScopes, Shape, BelowExpressions
        <5> QED
          BY <1>3, <5>1, LBasics, Basics, ExpressionSteps
      <4> QED
        BY <1>2, <2>1, <4>1, <4>2
    <3>2. kind \in Expressions
      BY <3>1 DEF Allowed, Valued, Expressions
    <3> QED
      BY <1>4, <1>6, <2>3, <3>2
  <2> QED
    BY <1>7, <2>2, <2>3
<1> QED
  BY <1>3, <1>11, <1>12, <1>13 DEF LScopes, Shape

(* A new declaration in the visits up to the m-th, of which all that are    *)
(* for a scope have it open.                                                *)
LEMMA Added ==
  ASSUME LInv, NEW sy, SameSymbols(sy), NEW n \in Identifiers, n \in Names => CanAdd(n),
         NEW new \in Symbols, NEW m \in 0..Len(visits), new.name = n, new.path = Path(m),
         new.type # "UNKNOWN", new.info \in {0, Len(symbols) + 1},
         n = CF => new.info = Len(symbols) + 1,
         \A i \in 1..m : visits[i].kind \in Scoped => Own(visits[i]) = 1,
         \A i \in 1..Len(visits) : Own(visits[i]) = 1 => i \in 1..m
  PROVE  /\ Scoping(visits, AddedTo(n), Append(sy, new), visited)
         /\ Len(AddedTo(n)) = Len(scopes) /\ TablesInv(AddedTo(n), Append(sy, new))
         /\ Append(sy, new) \in Seq(Symbols)
<1> DEFINE sc2  == AddedTo(n)
           sy2  == Append(sy, new)
           d    == Len(scopes)
           t    == Len(symbols) + 1
           path == Path(m)
<1>1. /\ TablesInv(sc2, sy2) /\ Len(sy2) = t /\ sy2[t] = new
      /\ \A s \in 1..Len(symbols) : sy2[s] = sy[s]
      /\ Len(sc2) = d
      /\ \A j \in 1..d, k \in Identifiers :
           sc2[j][k] = IF j = d /\ k = n THEN t ELSE scopes[j][k]
  BY LBasics, Adding
<1>2. sy2 \in Seq(Symbols)
  <2> HIDE DEF sy2
  <2> QED
    BY <1>1 DEF TablesInv
<1> HIDE DEF sc2, sy2
<1>3. /\ d \in Nat /\ d # 0 /\ d \in 1..d /\ t \in Nat /\ m \in Nat /\ Len(symbols) \in Nat
      /\ Scoping(visits, scopes, symbols, visited) /\ Owners(visits, d)
      /\ visits \in Seq(Visits) /\ \A i \in 1..m : i \in 1..Len(visits)
      /\ Nested(visits, d)
  <2>1. /\ d \in Nat /\ d # 0 /\ Len(symbols) \in Nat /\ Len(visits) \in Nat
        /\ Scoping(visits, scopes, symbols, visited) /\ Owners(visits, d)
        /\ visits \in Seq(Visits) /\ Nested(visits, d)
    BY LBasics DEF LScopes, Shape
  <2> QED
    BY <2>1
<1>4. \A s \in 1..Len(symbols) : sy2[s].name = symbols[s].name /\ sy2[s].path = symbols[s].path
  BY <1>1 DEF SameSymbols
<1>5. \A s \in 1..t : s = t \/ s \in 1..Len(symbols)
  BY <1>3
<1>6. ASSUME NEW i \in 1..m
      PROVE  path[i].id = visits[i].id /\ path[i].kind = visits[i].kind /\ path[i].at = visits[i].at
  BY DEF Path, Place
<1>7. DOMAIN path = 1..m
  BY DEF Path
<1> HIDE DEF path, t, d
<1>8. ASSUME NEW i \in Around(path)
      PROVE  /\ i \in 1..m /\ i \in 1..Len(visits) /\ path[i].id = visits[i].id
             /\ path[i].kind = visits[i].kind /\ path[i].at = visits[i].at
             /\ path[i].at \in Inside(path[i].kind) /\ path[i].at \in Nat
             /\ visits[i].at <= Last(path[i].kind, path[i].at)
             /\ visits[i].base + 1 <= d
  <2>1. i \in 1..m /\ path[i].kind \in Scoped
    BY <1>7, <1>8 DEF Around
  <2>2. /\ path[i].id = visits[i].id /\ path[i].kind = visits[i].kind
        /\ path[i].at = visits[i].at
    BY <1>6, <2>1
  <2>3. i \in 1..Len(visits) /\ Own(visits[i]) = 1 /\ visits[i] \in Visits
    BY <1>3, <2>1, <2>2
  <2>4. visits[i].at \in Inside(visits[i].kind) /\ visits[i].at \in Nat
        /\ visits[i].at <= Last(visits[i].kind, visits[i].at)
    BY <2>3, NotEnded
  <2>5. visits[i].base + 1 <= d
    BY <1>3, <2>3, OwnBelow
  <2> QED
    BY <2>1, <2>2, <2>3, <2>4, <2>5
<1>9. Paths(visits, sy2, visited)
  <2> SUFFICES ASSUME NEW s \in 1..t, NEW i \in Around(sy2[s].path)
               PROVE  LET p == sy2[s].path[i]
                      IN  /\ p.at \in Inside(p.kind) /\ p.id <= visited
                          /\ i \in 1..Len(visits) /\ visits[i].id = p.id
                               => visits[i].kind = p.kind /\ p.at <= visits[i].at
    BY <1>1 DEF Paths
  <2>1. CASE s = t
    <3>1. sy2[s].path = path
      BY <1>1, <2>1 DEF path
    <3>2. visits[i].id <= visited
      BY <1>3, <1>8, <3>1 DEF Scoping, Ids
    <3> QED
      BY <1>8, <3>1, <3>2
  <2>2. CASE s \in 1..Len(symbols)
    BY <1>3, <1>4, <2>2 DEF Scoping, Paths
  <2> QED
    BY <1>5, <2>1, <2>2
<1>10. Entry(visits, d, n, new)
  <2>1. Alive(visits, path)
    BY <1>8 DEF Alive
  <2>2. ASSUME d > 1
        PROVE  \E i \in Around(path) : visits[i].base + 1 = d
    <3>1. d \in 2..d
      BY <1>3, <2>2
    <3>2. PICK i \in 1..Len(visits) : Own(visits[i]) = 1 /\ visits[i].base + 1 = d
      BY <1>3, <3>1 DEF Owners
    <3>3. i \in 1..m /\ visits[i].kind \in Scoped
      BY <1>3, <3>2, NotEnded
    <3>4. i \in Around(path)
      BY <1>6, <1>7, <3>3 DEF Around
    <3> QED
      BY <3>2, <3>4
  <2> QED
    BY <1>8, <2>1, <2>2 DEF Entry, path
<1>11. \A k \in Names : k \in Identifiers
  BY DEF Identifiers
<1>12. Entries(visits, sc2, sy2)
  <2> SUFFICES ASSUME NEW j \in 1..d, NEW k \in Names, sc2[j][k] # 0
               PROVE  Entry(visits, j, k, sy2[sc2[j][k]])
    BY <1>1 DEF Entries
  <2>1. CASE j = d /\ k = n
    BY <1>1, <1>10, <1>11, <2>1
  <2>2. CASE ~ (j = d /\ k = n)
    <3>1. sc2[j][k] = scopes[j][k]
      BY <1>1, <1>11, <2>2
    <3>2. Entry(visits, j, k, symbols[scopes[j][k]])
      BY <1>3, <2>2, <3>1 DEF Scoping, Entries, d
    <3>3. scopes[j][k] \in 1..Len(symbols)
      <4>1. scopes[j][k] \in 0..Len(symbols)
        BY <1>11, LBasics DEF TablesInv, d
      <4> QED
        BY <1>3, <3>1, <4>1
    <3> QED
      BY <1>4, <3>1, <3>2, <3>3 DEF Entry
  <2> QED
    BY <2>1, <2>2
<1>13. Kept(visits, sc2, sy2)
  <2> SUFFICES ASSUME NEW s \in 1..t, sy2[s].name \in Names, Alive(visits, sy2[s].path)
               PROVE  \E j \in 1..d : sc2[j][sy2[s].name] = s
    BY <1>1 DEF Kept
  <2>1. CASE s = t
    <3>1. sc2[d][n] = t
      BY <1>1, <1>3
    <3> QED
      BY <1>1, <1>3, <2>1, <3>1
  <2>2. CASE s \in 1..Len(symbols)
    <3>1. sy2[s].name = symbols[s].name /\ sy2[s].path = symbols[s].path
      BY <1>4, <2>2
    <3>2. PICK j \in 1..d : scopes[j][symbols[s].name] = s
      BY <1>3, <2>2, <3>1 DEF Scoping, Kept, d
    <3>3. ~ (j = d /\ symbols[s].name = n)
      <4>1. s # 0
        BY <1>3, <2>2
      <4>2. n \in Names => scopes[d][n] = 0
        BY DEF CanAdd, Scope, d
      <4> QED
        BY <3>1, <3>2, <4>1, <4>2
    <3>4. sc2[j][symbols[s].name] = s
      BY <1>1, <1>11, <3>1, <3>2, <3>3
    <3> QED
      BY <3>1, <3>4
  <2> QED
    BY <1>5, <2>1, <2>2
<1>14. Older(sc2)
  <2> SUFFICES ASSUME NEW j \in 1..d, NEW k \in 1..d, NEW x \in Names,
                      j < k, sc2[j][x] # 0, sc2[k][x] # 0
               PROVE  sc2[j][x] < sc2[k][x]
    BY <1>1 DEF Older
  <2>1. j # d /\ x \in Identifiers
    BY <1>3, <1>11
  <2>2. sc2[j][x] = scopes[j][x] /\ scopes[j][x] \in 0..Len(symbols)
    BY <1>1, <2>1, LBasics DEF TablesInv, d
  <2>3. CASE k = d /\ x = n
    <3>1. sc2[k][x] = t
      BY <1>1, <2>1, <2>3
    <3> QED
      BY <1>3, <2>2, <3>1 DEF t
  <2>4. CASE ~ (k = d /\ x = n)
    <3>1. sc2[k][x] = scopes[k][x]
      BY <1>1, <2>1, <2>4
    <3> QED
      BY <1>3, <2>2, <3>1 DEF Scoping, Older, d
  <2> QED
    BY <2>3, <2>4
<1>15. Scoping(visits, sc2, sy2, visited)
  BY <1>3, <1>9, <1>12, <1>13, <1>14 DEF Scoping
<1> QED
  BY <1>1, <1>2, <1>15 DEF sc2, sy2, d

(* A declaration stands in no expression, so that whatever scopes there are *)
(* around it are open.                                                      *)
LEMMA OpenAround ==
  ASSUME LInv, Top.kind \notin Expressions, NEW i \in 1..Len(visits) - 1,
         visits[i].kind \in Scoped
  PROVE  Own(visits[i]) = 1
<1>1. i \in 1..Len(visits) /\ i < Len(visits) /\ Len(visits) \in 1..Len(visits)
  BY LBasics
<1>2. /\ visits[i] \in Visits /\ Values(visits[i], error) /\ Step(visits[i]) \in Visiting
  BY <1>1, LBasics DEF Nested, IInv, VisitsInv
<1>3. Step(visits[i]) \notin Valued
  BY <1>1, LBasics DEF LScopes, Shape, BelowExpressions
<1>4. visits[i].kind \in Kinds /\ visits[i].at \in Nat \ {0}
  BY <1>2 DEF Visits, Values
<1>5. Step(visits[i]) = Steps(visits[i].kind, visits[i].at)
  BY DEF Step, Steps
<1>6. visits[i].at \in Inside(visits[i].kind)
  BY <1>2, <1>3, <1>4, <1>5, ScriptScopes DEF VisitedInside
<1> QED
  BY <1>6 DEF Own

LEMMA Declared ==
  ASSUME LInv, NEW sy, SameSymbols(sy), NEW n \in Identifiers, n \in Names => CanAdd(n),
         NEW new \in Symbols, NEW m \in {Len(visits) - 1, Len(visits)},
         new.name = n, new.path = Path(m),
         new.type # "UNKNOWN", new.info \in {0, Len(symbols) + 1},
         n = CF => new.info = Len(symbols) + 1,
         Own(Top) = IF m = Len(visits) THEN 1 ELSE 0, Top.kind \notin Expressions,
         NEW w \in Visits, w.id = Top.id, w.kind = Top.kind, w.base = Top.base,
         w.at \in {Top.at, Top.at + 1}, Step(Top) \notin {"open", "close"},
         visits' = WithTop(w), scopes' = AddedTo(n), symbols' = Append(sy, new),
         visited' = visited
  PROVE  LScopes'
<1> DEFINE us  == [visits EXCEPT ![Len(visits)] = w]
           sc2 == AddedTo(n)
           sy2 == Append(sy, new)
<1>0. m \in 0..Len(visits) /\ \A i \in 1..Len(visits) : i = Len(visits) \/ i \in 1..Len(visits) - 1
  BY LBasics
<1>1. ASSUME NEW i \in 1..m, visits[i].kind \in Scoped
      PROVE  Own(visits[i]) = 1
  <2>1. i \in 1..Len(visits) - 1 \/ (i = Len(visits) /\ m = Len(visits))
    BY LBasics
  <2>2. CASE i \in 1..Len(visits) - 1
    BY <1>1, <2>2, OpenAround
  <2>3. CASE i = Len(visits) /\ m = Len(visits)
    BY <2>3, LBasics
  <2> QED
    BY <2>1, <2>2, <2>3
<1>2. ASSUME NEW i \in 1..Len(visits), Own(visits[i]) = 1
      PROVE  i \in 1..m
  BY <1>0, <1>2, LBasics
<1>3. /\ Scoping(visits, sc2, sy2, visited)
      /\ Len(sc2) = Len(scopes) /\ TablesInv(sc2, sy2) /\ sy2 \in Seq(Symbols)
  BY <1>0, <1>1, <1>2, Added
<1> HIDE DEF sc2, sy2
<1>4. SamePaths(sy2, sy2)
  BY <1>3 DEF SamePaths
<1>5. Scoping(us, sc2, sy2, visited) /\ Shape(us, Len(sc2))
  <2>1. Shape(visits, Len(sc2)) /\ Nested(visits, Len(sc2))
    BY <1>3, LBasics DEF LScopes
  <2> QED
    BY <1>3, <1>4, <2>1, LBasics, Moves
<1>6. visits' = us
  BY DEF WithTop
<1> HIDE DEF us
<1> QED
  BY <1>5, <1>6 DEF LScopes, sc2, sy2

LEMMA DeclaresName ==
  ASSUME LInv, create_new_variable \/ DeclareFunction
  PROVE  LScopes'
<1>1. Step(Top) \in {"declare", "declare_function"}
  BY DEF create_new_variable, DeclareFunction, At
<1>2. CASE ~ CanAdd(Top.name)
  BY <1>1, <1>2, RefusedBack DEF create_new_variable, DeclareFunction, Checked
<1>3. CASE CanAdd(Top.name)
  <2> DEFINE n == Top.name
             m == Len(visits) - 1
  <2>1. /\ Top \in Visits /\ Top.kind \in Named /\ Top.at \notin Inside(Top.kind)
        /\ Top.kind \notin Calls /\ Values(Top, error) /\ Len(symbols) \in Nat
    BY <1>1, LBasics, Basics DEF CheckedSteps, Checked, Functions, Calls
  <2>2. Top.kind \notin Expressions /\ Own(Top) = 0 /\ Step(Top) \notin {"open", "close"}
    BY <1>1, <2>1 DEF Named, Functions, Expressions, Conditions, Calls, Own
  <2>3. n \in Names /\ n \in Identifiers /\ n # CF /\ Top.type \in DataTypes /\ Top.type # "UNKNOWN"
    BY <2>1, NotHelper DEF Values, VariableTypes, DataTypes
  <2>4. m \in 0..Len(visits) /\ m # Len(visits) /\ m \in {Len(visits) - 1, Len(visits)}
    BY LBasics
  <2> DEFINE new(kind) == Symbol(n, kind, Top.type, Path(m))
  <2>5. PICK kind \in {"VARIABLE", "FUNCTION"}, s \in Nat :
          /\ symbols' = Append(symbols, new(kind))
          /\ \/ visits' = WithTop(Advanced(Top))
             \/ visits' = WithTop([Advanced(Top) EXCEPT !.symbol = s])
          /\ scopes' = AddedTo(n) /\ visited' = visited
    <3>1. CASE create_new_variable
      BY <1>3, <3>1 DEF create_new_variable
    <3>2. CASE DeclareFunction
      <4>1. Len(symbols) + 1 \in Nat
        BY <2>1
      <4> QED
        BY <1>3, <3>2, <4>1 DEF DeclareFunction
    <3> QED
      BY <3>1, <3>2
  <2>6. /\ new(kind) \in Symbols /\ new(kind).type = Top.type /\ new(kind).info = 0
        /\ new(kind).name = n /\ new(kind).path = Path(m)
    BY <2>3, <2>4, LBasics, NewSymbol DEF Symbol
  <2> HIDE DEF new
  <2>7. SameSymbols(symbols)
    BY LBasics DEF SameSymbols
  <2>8. PICK w \in Visits : /\ w.id = Top.id /\ w.kind = Top.kind /\ w.base = Top.base
                            /\ w.at = Top.at + 1 /\ visits' = WithTop(w)
    BY <2>1, <2>5, AdvancedPlace
  <2> HIDE DEF n, m
  <2> QED
    BY <1>3, <2>2, <2>3, <2>4, <2>5, <2>6, <2>7, <2>8, Declared DEF n, m
<1> QED
  BY <1>2, <1>3

LEMMA DeclaresHelper ==
  ASSUME LInv, DeclareHelper
  PROVE  LScopes'
<1> DEFINE p   == Symbol(CF, "FUNCTION", Top.type, Path(Len(visits)))
           new == [p EXCEPT !.info = Len(symbols) + 1]
<1>1. /\ Step(Top) = "declare_helper" /\ Top \in Visits /\ Top.kind \in Functions
      /\ Top.at \in Inside(Top.kind) /\ Values(Top, error) /\ Len(symbols) \in Nat
  BY LBasics, Basics DEF DeclareHelper, At, FunctionSteps
<1>2. Top.kind \notin Expressions /\ Own(Top) = 1 /\ Step(Top) \notin {"open", "close"}
  BY <1>1 DEF Functions, Expressions, Conditions, Calls, Own
<1>3. CF \in Identifiers /\ CF \notin Names
  BY NamesAssumption DEF Identifiers, CF
<1>4. /\ new \in Symbols /\ new.name = CF /\ new.info = Len(symbols) + 1
      /\ new.type # "UNKNOWN" /\ new.path = Path(Len(visits))
  <2>1. Top.type \in DataTypes /\ Top.type # "UNKNOWN" /\ Len(visits) \in 0..Len(visits)
    BY <1>1, LBasics DEF Values, VariableTypes, DataTypes
  <2>2. p \in Symbols /\ p.type = Top.type /\ p.name = CF /\ p.path = Path(Len(visits))
    BY <1>3, <2>1, LBasics, NewSymbol DEF Symbol
  <2> HIDE DEF p
  <2>3. Len(symbols) + 1 \in Nat
    BY <1>1
  <2> QED
    BY <2>1, <2>2, <2>3 DEF Symbols
<1>5. SameSymbols(symbols) /\ 0 \in Nat
  BY LBasics DEF SameSymbols
<1>6. /\ visits' = WithTop(Advanced(Top)) /\ scopes' = AddedTo(CF)
      /\ symbols' = Append(symbols, new) /\ visited' = visited
  BY DEF DeclareHelper, CF
<1> HIDE DEF new
<1> QED
  BY <1>1, <1>2, <1>3, <1>4, <1>5, <1>6, AdvancedPlace, Declared

LEMMA DeclaresParameter ==
  ASSUME LInv, parameter
  PROVE  LScopes'
<1> DEFINE w == Given(Top, "NONE")
<1>1. Step(Top) \in {"Parameter", "Parameters"} /\ visits' = WithTop(w) /\ visited' = visited
  BY DEF parameter, At
<1>2. /\ Top \in Visits /\ Top.kind = "function_decl" /\ Top.at \in Inside(Top.kind)
  BY <1>1, LBasics, Basics DEF FunctionSteps
<1>3. Top.kind \notin Expressions /\ Own(Top) = 1 /\ Step(Top) \notin {"open", "close"}
  BY <1>1, <1>2 DEF Expressions, Conditions, Calls, Own
<1>4. /\ w \in Visits /\ w.id = Top.id /\ w.kind = Top.kind /\ w.base = Top.base
      /\ w.at \in {Top.at, Top.at + 1}
  <2>1. "NONE" \in DataTypes
    BY DEF DataTypes
  <2> QED
    BY <1>2, <2>1, GivenPlace
<1> HIDE DEF w
<1>5. PICK n \in Names, t \in VariableTypes :
        IF CanAdd(n)
          THEN LET h == symbol_table_lookup_symbol(CURRENT_FUNCTION_SYMBOL) IN
               /\ scopes' = AddedTo(n)
               /\ symbols' = Append([symbols EXCEPT ![symbols[h].info].params = Append(@, t)],
                                    Symbol(n, "VARIABLE", t, Path(Len(visits))))
               /\ UNCHANGED error
          ELSE error' = TRUE /\ UNCHANGED <<scopes, symbols>>
  BY DEF parameter
<1>6. CASE ~ CanAdd(n)
  <2>1. SamePaths(symbols, symbols') /\ scopes' = scopes
    BY <1>5, <1>6, LBasics
  <2> QED
    BY <1>1, <1>3, <1>4, <2>1, Goes
<1>7. CASE CanAdd(n)
  <2> DEFINE h   == symbol_table_lookup_symbol(CURRENT_FUNCTION_SYMBOL)
             sy  == [symbols EXCEPT ![symbols[h].info].params = Append(@, t)]
             new == Symbol(n, "VARIABLE", t, Path(Len(visits)))
  <2>1. scopes' = AddedTo(n) /\ symbols' = Append(sy, new)
    BY <1>5, <1>7
  <2>2. SameSymbols(sy)
    BY LBasics, Recorded
  <2>3. t \in DataTypes /\ t # "UNKNOWN" /\ Len(visits) \in 0..Len(visits)
    BY LBasics DEF VariableTypes, DataTypes
  <2>4. n \in Identifiers /\ n # CF
    BY NotHelper
  <2>5. /\ new \in Symbols /\ new.type = t /\ new.info = 0 /\ new.name = n
        /\ new.path = Path(Len(visits))
    BY <2>3, <2>4, LBasics, NewSymbol DEF Symbol
  <2> HIDE DEF sy, new
  <2> QED
    BY <1>1, <1>3, <1>4, <1>7, <2>1, <2>2, <2>3, <2>4, <2>5, Declared
<1> QED
  BY <1>6, <1>7

LEMMA Publishes ==
  ASSUME LInv, PublishParameters
  PROVE  LScopes'
<1> DEFINE f  == Top.symbol
           k  == symbols[f + 1].info
           sy == [symbols EXCEPT ![f].info = k]
<1>1. /\ Step(Top) = "publish" /\ visits' = WithTop(Advanced(Top)) /\ symbols' = sy
      /\ scopes' = scopes /\ visited' = visited
  BY DEF PublishParameters, At
<1>2. SamePaths(symbols, sy)
  <2>1. /\ symbols \in Seq(Symbols) /\ DOMAIN symbols = 1..Len(symbols) /\ Len(symbols) \in Nat
        /\ \A s \in 1..Len(symbols) : symbols[s] \in Symbols
    BY LBasics
  <2>2. Len(sy) = Len(symbols)
    BY <2>1
  <2>3. ASSUME NEW s \in 1..Len(symbols)
        PROVE  sy[s].name = symbols[s].name /\ sy[s].path = symbols[s].path
    <3>1. sy[s] = IF s = f THEN [symbols[s] EXCEPT !.info = k] ELSE symbols[s]
      BY <2>1
    <3>2. symbols[s] \in Symbols
      BY <2>1
    <3> HIDE DEF sy, k
    <3> QED
      BY <3>1, <3>2 DEF Symbols
  <2> QED
    BY <2>1, <2>2, <2>3 DEF SamePaths
<1> HIDE DEF sy
<1>3. Top \in Visits /\ 0 \in Nat
  BY LBasics, Basics
<1> QED
  BY <1>1, <1>2, <1>3, AdvancedPlace, Goes

-----------------------------------------------------------------------------
LEMMA LStarts == Init => LInv
<1> SUFFICES ASSUME Init
             PROVE  LInv
  OBVIOUS
<1> DEFINE v == [kind |-> "program", id |-> 0, name |-> NoName, type |-> "NONE", at |-> 1,
                 symbol |-> 0, vals |-> <<>>, base |-> 1]
<1>1. /\ visits = <<v>> /\ scopes = <<scope_init>> /\ symbols = <<>> /\ visited = 0
      /\ v.id = 0
  BY DEF Init
<1> HIDE DEF v
<1>2. Len(visits) = 1 /\ visits[1].id = 0 /\ Len(scopes) = 1 /\ Len(symbols) = 0
  BY <1>1
<1>3. \A n \in Names : scopes[1][n] = 0
  BY <1>1 DEF scope_init, Identifiers
<1>4. Ids(visits, visited) /\ Paths(visits, symbols, visited)
  BY <1>1, <1>2 DEF Ids, Paths
<1>5. Entries(visits, scopes, symbols) /\ Kept(visits, scopes, symbols) /\ Older(scopes)
  BY <1>2, <1>3 DEF Entries, Kept, Older
<1>6. Owners(visits, Len(scopes)) /\ BelowExpressions(visits)
  BY <1>2 DEF Owners, BelowExpressions
<1> QED
  BY <1>4, <1>5, <1>6, Starts DEF LInv, Scoping, Shape

LEMMA LSteady == LInv /\ [Next]_vars => LInv'
<1> SUFFICES ASSUME LInv, [Next]_vars
             PROVE  LInv'
  OBVIOUS
<1>1. IInv'
  BY Steady DEF LInv
<1>2. LScopes'
  <2>1. CASE UNCHANGED vars
    BY <2>1, LBasics DEF vars, LScopes
  <2>2. CASE EndOfList \/ FindVariable \/ FindFunction \/ Identifier \/ Literal \/ StringLiteral
    BY <2>2, PlainSteps
  <2>3. CASE accept
    BY <2>3, Accepts
  <2>4. CASE Return
    BY <2>4, ReturnBack
  <2>5. CASE symbol_table_add_scope
    BY <2>5, Opens
  <2>6. CASE symbol_table_remove_scope
    BY <2>6, Closes
  <2>7. CASE create_new_variable \/ DeclareFunction
    BY <2>7, DeclaresName
  <2>8. CASE DeclareHelper
    BY <2>8, DeclaresHelper
  <2>9. CASE parameter
    BY <2>9, DeclaresParameter
  <2>10. CASE PublishParameters
    BY <2>10, Publishes
  <2> QED
    BY <2>1, <2>2, <2>3, <2>4, <2>5, <2>6, <2>7, <2>8, <2>9, <2>10 DEF Next
<1> QED
  BY <1>1, <1>2 DEF LInv, LScopes

(* Where a name is looked up, a declaration is visible if it is alive.      *)
LEMMA VisibleAlive ==
  ASSUME LInv, LookingUp, NEW s \in 1..Len(symbols)
  PROVE  Visible(symbols[s].path, Path(Len(visits))) <=> Alive(visits, symbols[s].path)
<1> DEFINE path == symbols[s].path
           use  == Path(Len(visits))
<1>1. /\ visits \in Seq(Visits) /\ Len(visits) \in Nat /\ DOMAIN use = 1..Len(visits)
      /\ \A i \in 1..Len(visits) : visits[i] \in Visits
  BY LBasics DEF Path
<1>2. \A i \in 1..Len(visits) : use[i].id = visits[i].id /\ use[i].at = visits[i].at
  BY DEF Path, Place
<1> HIDE DEF use
<1>3. ASSUME NEW i \in 1..Len(visits)
      PROVE  VisitedInside(visits[i].kind, visits[i].at) /\ visits[i].at \in Nat
             /\ (visits[i].kind \in Scoped => Steps(visits[i].kind, visits[i].at) \in Visiting)
  <2>1. visits[i].kind \in Kinds /\ visits[i].at \in Nat \ {0}
    <3>1. visits[i] \in Visits /\ Values(visits[i], error)
      BY <1>1, LBasics DEF IInv, VisitsInv
    <3> QED
      BY <3>1 DEF Visits, Values
  <2>2. Step(visits[i]) = Steps(visits[i].kind, visits[i].at)
    BY DEF Step, Steps
  <2>3. CASE i = Len(visits)
    <3>1. visits[i] = Top /\ Step(Top) \in {"find", "find_function"} \cup Valued
      BY <2>3, LBasics DEF LookingUp
    <3>2. Step(Top) \in {"find", "find_function"} => Top.kind \notin Scoped
      BY LBasics, Basics DEF CheckedSteps, Scoped, Functions, Calls
    <3> QED
      BY <2>1, <2>2, <3>1, <3>2, ScriptScopes DEF Visiting, Valued
  <2>4. CASE i \in 1..Len(visits) - 1
    BY <2>1, <2>2, <2>4, LBasics, ScriptScopes DEF Nested
  <2> QED
    BY <1>1, <2>3, <2>4
<1>4. ASSUME NEW i \in Around(path), i \in 1..Len(visits), visits[i].id = path[i].id
      PROVE  SameBranch(path[i], use[i]) <=> visits[i].at <= Last(path[i].kind, path[i].at)
  <2> DEFINE k == path[i].kind
             a == path[i].at
             b == visits[i].at
  <2>1. /\ k \in Scoped /\ a \in Nat /\ a \in Inside(k) /\ visits[i].kind = k /\ a <= b
    <3>1. path[i].kind \in Scoped /\ path[i].at \in Nat
      BY <1>4, LBasics, PathPlaces
    <3>2. Paths(visits, symbols, visited)
      BY LBasics DEF LScopes, Scoping
    <3> QED
      BY <1>4, <3>1, <3>2 DEF Paths
  <2>2. b \in Nat /\ Steps(k, b) \in Visiting /\ VisitedInside(k, b) /\ use[i].at = b
    BY <1>2, <1>3, <1>4, <2>1
  <2>3. SameBranch(path[i], use[i]) <=> (k = "if_else_statement" => (a > 5 <=> b > 5))
    BY <2>2 DEF SameBranch
  <2> HIDE DEF a, b, k
  <2>4. (k = "if_else_statement" => (a > 5 <=> b > 5)) => b <= Last(k, a)
    BY <2>1, <2>2 DEF VisitedInside
  <2>5. ASSUME b <= Last(k, a), k = "if_else_statement"
        PROVE  a > 5 <=> b > 5
    <3>1. b \in Inside(k) /\ Last(k, b) = Last(k, a)
      BY <2>1, <2>2, <2>5, Regions
    <3> QED
      BY <2>1, <2>2, <2>5, <3>1 DEF Last, Inside
  <2> QED
    BY <2>3, <2>4, <2>5 DEF a, b, k
<1>5. Visible(path, use) <=>
        \A i \in Around(path) : /\ i \in 1..Len(visits) /\ visits[i].id = path[i].id
                                /\ SameBranch(path[i], use[i])
  <2> HIDE DEF path
  <2> QED
    BY <1>1, <1>2 DEF Visible, Around
<1> HIDE DEF path
<1> QED
  BY <1>4, <1>5 DEF Alive, path, use

(* Where a name is looked up it means its latest declaration visible there, *)
(* at any depth of nesting and of shadowing, whatever scopes were opened,   *)
(* closed or left early before: the stack of hash maps implements the       *)
(* nesting of the program.                                                  *)
THEOREM NamesResolveLexically == Spec => []ResolvesLexically
<1>1. LInv => ResolvesLexically
  <2> SUFFICES ASSUME LInv, LookingUp, NEW n \in Names
               PROVE  LET visible == {s \in DOMAIN symbols :
                                        /\ symbols[s].name = n
                                        /\ Visible(symbols[s].path, Path(Len(visits)))}
                          found   == symbol_table_lookup_symbol(n)
                      IN  IF visible = {} THEN found = 0
                          ELSE found \in visible /\ \A s \in visible : s <= found
    BY DEF ResolvesLexically
  <2> DEFINE visible == {s \in DOMAIN symbols :
                           /\ symbols[s].name = n
                           /\ Visible(symbols[s].path, Path(Len(visits)))}
             found   == symbol_table_lookup_symbol(n)
  <2>1. /\ TablesInv(scopes, symbols) /\ n \in Identifiers /\ Len(symbols) \in Nat
        /\ DOMAIN symbols = 1..Len(symbols)
        /\ Entries(visits, scopes, symbols) /\ Kept(visits, scopes, symbols) /\ Older(scopes)
    BY LBasics DEF Identifiers, LScopes, Scoping
  <2>2. visible = {s \in 1..Len(symbols) : symbols[s].name = n /\ Alive(visits, symbols[s].path)}
    BY <2>1, VisibleAlive
  <2>3. \A s \in visible : s \in 1..Len(symbols) /\ \E k \in 1..Len(scopes) : scopes[k][n] = s
    BY <2>1, <2>2 DEF Kept
  <2>4. ASSUME \A j \in 1..Len(scopes) : scopes[j][n] = 0
        PROVE  visible = {}
    BY <2>3, <2>4
  <2>5. ASSUME NEW j \in 1..Len(scopes), scopes[j][n] # 0,
               \A i \in 1..Len(scopes) : scopes[i][n] # 0 => i <= j,
               found = scopes[j][n], found \in 1..Len(symbols)
        PROVE  found \in visible /\ \A s \in visible : s <= found
    <3> HIDE DEF found, visible
    <3>1. Entry(visits, j, n, symbols[found])
      BY <2>1, <2>5 DEF Entries
    <3>2. found \in visible
      BY <2>2, <2>5, <3>1 DEF Entry
    <3>3. ASSUME NEW s \in visible
          PROVE  s <= found
      <4>1. PICK k \in 1..Len(scopes) : scopes[k][n] = s
        BY <2>3
      <4>2. s \in 1..Len(symbols) /\ s # 0
        BY <2>1, <2>3
      <4>3. k <= j
        BY <2>5, <4>1, <4>2
      <4>4. CASE k = j
        BY <2>1, <2>5, <4>1, <4>4
      <4>5. CASE k < j
        <5>1. scopes[k][n] < scopes[j][n]
          BY <2>1, <2>5, <4>1, <4>2, <4>5 DEF Older
        <5> QED
          BY <2>1, <2>5, <4>1, <4>2, <5>1
      <4> QED
        BY <4>3, <4>4, <4>5
    <3> QED
      BY <3>2, <3>3
  <2>6. \/ found = 0 /\ \A j \in 1..Len(scopes) : scopes[j][n] = 0
        \/ \E j \in 1..Len(scopes) :
             /\ scopes[j][n] # 0
             /\ \A i \in 1..Len(scopes) : scopes[i][n] # 0 => i <= j
             /\ found = scopes[j][n] /\ found \in 1..Len(symbols)
    <3> HIDE DEF visible
    <3> QED
      BY <2>1, Lookup
  <2> HIDE DEF found, visible
  <2>7. IF visible = {} THEN found = 0 ELSE found \in visible /\ \A s \in visible : s <= found
    BY <2>4, <2>5, <2>6
  <2> QED
    BY <2>7 DEF found, visible
<1>2. Spec => []LInv
  BY LStarts, LSteady, PTL DEF Spec
<1> QED
  BY <1>1, <1>2, PTL

-----------------------------------------------------------------------------
(* The parameters in the infos.                                             *)

(* The place a symbol is declared at, and what is declared by a parameter.  *)
Home(symbol) == symbol.path[Len(symbol.path)]
AsParameter(symbol) ==
  symbol.kind = "VARIABLE" /\ Home(symbol).kind = "function_decl" /\ Home(symbol).at \in {4, 5}

(* Visits are numbered in the order in which they start, c being the last.  *)
Numbered(vs, c) ==
  /\ \A i \in 1..Len(vs) : vs[i].id <= c
  /\ \A i, k \in 1..Len(vs) : i < k => vs[i].id < vs[k].id

Homes(sy, c) == \A s \in 1..Len(sy) : Home(sy[s]).id \in 0..c

(* A helper stands in the function that has declared it, as long as that is *)
(* being visited.                                                           *)
Headed(vs, sy) ==
  /\ \A i \in 1..Len(vs) : vs[i].kind \in Functions /\ vs[i].at > 3
       => Home(sy[vs[i].symbol + 1]).id = vs[i].id
  /\ \A h \in 1..Len(sy), i \in 1..Len(vs) :
       sy[h].name = CF /\ vs[i].id = Home(sy[h]).id
         => vs[i].kind \in Functions /\ vs[i].at > 3 /\ h = vs[i].symbol + 1

(* The parameters of a function are the symbols behind its helper.          *)
Lists(sy) ==
  \A h \in 1..Len(sy) : sy[h].name = CF =>
    /\ h + Len(sy[h].params) <= Len(sy)
    /\ \A s \in 1..Len(sy) : AsParameter(sy[s]) /\ Home(sy[s]).id = Home(sy[h]).id
         <=> h < s /\ s <= h + Len(sy[h].params)
    /\ \A i \in 1..Len(sy[h].params) : sy[h].params[i] = sy[h + i].type

(* A parameter stands in a function with a helper, no function has two, and *)
(* every FunctionInfo is a helper's.                                        *)
Owned(sy) ==
  /\ \A s \in 1..Len(sy) : AsParameter(sy[s]) =>
       \E h \in 1..Len(sy) : sy[h].name = CF /\ Home(sy[h]).id = Home(sy[s]).id
  /\ \A g, h \in 1..Len(sy) :
       sy[g].name = CF /\ sy[h].name = CF /\ Home(sy[g]).id = Home(sy[h]).id => g = h
  /\ \A f \in 1..Len(sy) : sy[f].info # 0 => sy[sy[f].info].name = CF

(* While parameters are declared, the last one is the last symbol.          *)
Listing(v) == v.kind = "function_decl" /\ v.at \in {4, 5}
Growing(v, sy) ==
  Listing(v) => Len(sy) = v.symbol + 1 + Len(sy[v.symbol + 1].params)

Placed(vs, sy, c) == Numbered(vs, c) /\ Homes(sy, c) /\ Headed(vs, sy)
Tables(sy) == Lists(sy) /\ Owned(sy)

PInv ==
  /\ LInv
  /\ Placed(visits, symbols, visited)
  /\ Tables(symbols)
  /\ Growing(Top, symbols)

-----------------------------------------------------------------------------
(* Visits *)

(* A function that waits for a child is past its parameters.                *)
LEMMA WaitsLate ==
  ASSUME NEW v \in Visits, NEW e, Values(v, e), Step(v) \in Visiting
  PROVE  /\ v.kind \in Functions => v.at > 4
         /\ v.kind = "function_decl" => v.at > 6
<1>1. v.kind \in Kinds /\ v.at \in Nat \ {0} /\ Steps(v.kind, v.at) \in Visiting
  BY DEF Visits, Values, Step, Steps
<1>2. FunctionSteps(v.kind, v.at)
  BY <1>1, Scripts
<1> QED
  BY <1>1, <1>2 DEF FunctionSteps, Visiting, Functions

LEMMA SymbolStays ==
  ASSUME NEW v \in Visits, NEW val
  PROVE  /\ Given(v, val).symbol = v.symbol
         /\ Advanced(v).symbol = v.symbol
BY DEF Given, Advanced, Visits

(* Old symbols stay where they are, and new ones are no helpers.            *)
SameHomes(sy, sy2) ==
  /\ Len(sy) \in Nat /\ Len(sy2) \in Nat /\ Len(sy) <= Len(sy2)
  /\ \A s \in 1..Len(sy) : sy2[s].name = sy[s].name /\ sy2[s].path = sy[s].path
  /\ \A s \in 1..Len(sy2) : s \notin 1..Len(sy) => sy2[s].name # CF

(* A function past the declaration of its helper refers to a symbol.        *)
Referring(vs, sy) ==
  \A i \in 1..Len(vs) :
    vs[i].kind \in Functions /\ vs[i].at > 3 => vs[i].symbol + 1 \in 1..Len(sy)

(* The last visit goes on without declaring a helper.                       *)
GoesOn(v, w) ==
  /\ w.id = v.id /\ w.kind = v.kind /\ v.at <= w.at
  /\ v.kind \in Functions /\ v.at > 3 => w.symbol = v.symbol
  /\ v.kind \in Functions /\ w.at > 3 => v.at > 3

LEMMA LastGoesOn ==
  ASSUME NEW vs \in Seq(Visits), vs # <<>>, NEW sy, NEW sy2, NEW c, NEW w \in Visits,
         Numbered(vs, c), Headed(vs, sy), Referring(vs, sy), SameHomes(sy, sy2),
         GoesOn(vs[Len(vs)], w)
  PROVE  LET us == [vs EXCEPT ![Len(vs)] = w] IN Numbered(us, c) /\ Headed(us, sy2)
<1> DEFINE n  == Len(vs)
           us == [vs EXCEPT ![n] = w]
<1>1. n \in Nat /\ n # 0 /\ n \in 1..n
  <2>1. n \in Nat /\ n # 0
    BY EmptySeq
  <2> QED
    BY <2>1
<1>2. /\ us \in Seq(Visits) /\ Len(us) = n
      /\ us[n] = w /\ \A i \in 1..n - 1 : us[i] = vs[i]
  BY <1>1, ExceptSeq
<1> HIDE DEF us
<1>3. \A i \in 1..n : i = n \/ i \in 1..n - 1
  BY <1>1
<1>4. \A i \in 1..n : vs[i].at \in Nat /\ us[i].at \in Nat
  <2>1. \A i \in 1..n : vs[i] \in Visits /\ us[i] \in Visits
    BY <1>2
  <2> QED
    BY <2>1 DEF Visits
<1>5. \A i \in 1..n : GoesOn(vs[i], us[i])
  <2>1. ASSUME NEW i \in 1..n - 1
        PROVE  GoesOn(vs[i], us[i])
    <3>1. us[i] = vs[i] /\ i \in 1..n
      BY <1>1, <1>2
    <3> QED
      BY <1>4, <3>1 DEF GoesOn
  <2> QED
    BY <1>2, <1>3, <2>1
<1>6. Numbered(us, c)
  BY <1>2, <1>5 DEF Numbered, GoesOn
<1>7. \A s \in 1..Len(sy) : Home(sy2[s]) = Home(sy[s])
  BY DEF Home, SameHomes
<1>8. ASSUME NEW i \in 1..n, us[i].kind \in Functions, us[i].at > 3
      PROVE  Home(sy2[us[i].symbol + 1]).id = us[i].id
  <2>1. /\ vs[i].kind \in Functions /\ vs[i].at > 3 /\ us[i].symbol = vs[i].symbol
        /\ us[i].id = vs[i].id
    BY <1>5, <1>8 DEF GoesOn
  <2>2. vs[i].symbol + 1 \in 1..Len(sy) /\ Home(sy[vs[i].symbol + 1]).id = vs[i].id
    BY <2>1 DEF Referring, Headed
  <2> QED
    BY <1>7, <2>1, <2>2
<1>9. ASSUME NEW h \in 1..Len(sy2), NEW i \in 1..n, sy2[h].name = CF, us[i].id = Home(sy2[h]).id
      PROVE  us[i].kind \in Functions /\ us[i].at > 3 /\ h = us[i].symbol + 1
  <2>1. h \in 1..Len(sy) /\ sy[h].name = CF /\ vs[i].id = Home(sy[h]).id
    BY <1>5, <1>7, <1>9 DEF SameHomes, GoesOn
  <2>2. vs[i].kind \in Functions /\ vs[i].at > 3 /\ h = vs[i].symbol + 1
    BY <2>1 DEF Headed
  <2> QED
    BY <1>4, <1>5, <2>2 DEF GoesOn
<1>10. Headed(us, sy2)
  BY <1>2, <1>8, <1>9 DEF Headed
<1> QED
  BY <1>6, <1>10 DEF us

-----------------------------------------------------------------------------
(* Tables *)

(* Old symbols stay what they are, and new ones are neither helpers nor     *)
(* parameters.                                                              *)
SameLists(sy, sy2) ==
  /\ \A s \in 1..Len(sy) :
       sy2[s].kind = sy[s].kind /\ sy2[s].type = sy[s].type /\ sy2[s].params = sy[s].params
  /\ \A s \in 1..Len(sy2) : s \notin 1..Len(sy) => ~ AsParameter(sy2[s])
  /\ \A f \in 1..Len(sy2) : sy2[f].info # 0 => sy2[sy2[f].info].name = CF

LEMMA TablesStay ==
  ASSUME NEW sy \in Seq(Symbols), NEW sy2, Tables(sy), SameHomes(sy, sy2), SameLists(sy, sy2)
  PROVE  Tables(sy2)
<1>1. /\ Len(sy) \in Nat /\ Len(sy2) \in Nat /\ Len(sy) <= Len(sy2)
      /\ \A s \in 1..Len(sy) : s \in 1..Len(sy2)
  BY DEF SameHomes
<1>2. \A s \in 1..Len(sy) : Home(sy2[s]) = Home(sy[s]) /\ (AsParameter(sy2[s]) <=> AsParameter(sy[s]))
  BY DEF Home, AsParameter, SameHomes, SameLists
<1>3. \A s \in 1..Len(sy2) : AsParameter(sy2[s]) \/ sy2[s].name = CF => s \in 1..Len(sy)
  BY DEF SameHomes, SameLists
<1>4. \A s \in 1..Len(sy) : Len(sy[s].params) \in Nat
  <2>1. \A s \in 1..Len(sy) : sy[s] \in Symbols
    OBVIOUS
  <2> QED
    BY <2>1 DEF Symbols
<1>5. Lists(sy2)
  <2> SUFFICES ASSUME NEW h \in 1..Len(sy2), sy2[h].name = CF
               PROVE  /\ h + Len(sy2[h].params) <= Len(sy2)
                      /\ \A s \in 1..Len(sy2) :
                           AsParameter(sy2[s]) /\ Home(sy2[s]).id = Home(sy2[h]).id
                             <=> h < s /\ s <= h + Len(sy2[h].params)
                      /\ \A i \in 1..Len(sy2[h].params) : sy2[h].params[i] = sy2[h + i].type
    BY DEF Lists
  <2>1. /\ h \in 1..Len(sy) /\ sy[h].name = CF /\ sy2[h].params = sy[h].params
        /\ Len(sy[h].params) \in Nat
    BY <1>3, <1>4 DEF SameHomes, SameLists
  <2>2. /\ h + Len(sy[h].params) <= Len(sy)
        /\ \A s \in 1..Len(sy) : AsParameter(sy[s]) /\ Home(sy[s]).id = Home(sy[h]).id
             <=> h < s /\ s <= h + Len(sy[h].params)
        /\ \A i \in 1..Len(sy[h].params) : sy[h].params[i] = sy[h + i].type
    BY <2>1 DEF Tables, Lists
  <2>3. \A i \in 1..Len(sy[h].params) : h + i \in 1..Len(sy)
    BY <1>1, <2>1, <2>2
  <2>4. \A i \in 1..Len(sy[h].params) : sy[h].params[i] = sy2[h + i].type
    BY <2>2, <2>3 DEF SameLists
  <2>5. h + Len(sy[h].params) <= Len(sy2)
    BY <1>1, <2>1, <2>2
  <2>6. ASSUME NEW s \in 1..Len(sy2)
        PROVE  AsParameter(sy2[s]) /\ Home(sy2[s]).id = Home(sy2[h]).id
                 <=> h < s /\ s <= h + Len(sy[h].params)
    <3>1. h < s /\ s <= h + Len(sy[h].params) => s \in 1..Len(sy)
      BY <1>1, <2>1, <2>2
    <3>2. CASE s \in 1..Len(sy)
      BY <1>2, <2>1, <2>2, <3>2
    <3>3. CASE s \notin 1..Len(sy)
      BY <1>3, <3>1, <3>3
    <3> QED
      BY <3>2, <3>3
  <2> QED
    BY <2>1, <2>4, <2>5, <2>6
<1>6. Owned(sy2)
  <2>1. ASSUME NEW s \in 1..Len(sy2), AsParameter(sy2[s])
        PROVE  \E h \in 1..Len(sy2) : sy2[h].name = CF /\ Home(sy2[h]).id = Home(sy2[s]).id
    <3>1. s \in 1..Len(sy) /\ AsParameter(sy[s]) /\ Home(sy2[s]) = Home(sy[s])
      BY <1>2, <1>3, <2>1
    <3>2. PICK h \in 1..Len(sy) : sy[h].name = CF /\ Home(sy[h]).id = Home(sy[s]).id
      BY <3>1 DEF Tables, Owned
    <3>3. h \in 1..Len(sy2) /\ sy2[h].name = CF /\ Home(sy2[h]) = Home(sy[h])
      BY <1>1, <1>2, <3>2 DEF SameHomes
    <3> QED
      BY <3>1, <3>2, <3>3
  <2>2. ASSUME NEW g \in 1..Len(sy2), NEW h \in 1..Len(sy2), sy2[g].name = CF, sy2[h].name = CF,
               Home(sy2[g]).id = Home(sy2[h]).id
        PROVE  g = h
    <3>1. g \in 1..Len(sy) /\ h \in 1..Len(sy) /\ sy[g].name = CF /\ sy[h].name = CF
      BY <1>3, <2>2 DEF SameHomes
    <3>2. Home(sy[g]).id = Home(sy[h]).id
      BY <1>2, <2>2, <3>1
    <3> QED
      BY <3>1, <3>2 DEF Tables, Owned
  <2> QED
    BY <2>1, <2>2 DEF Owned, SameLists
<1> QED
  BY <1>5, <1>6 DEF Tables

-----------------------------------------------------------------------------
(* Steps *)

PRest == Placed(visits, symbols, visited) /\ Tables(symbols) /\ Growing(Top, symbols)

LEMMA PBasics ==
  ASSUME PInv
  PROVE  /\ LInv /\ IInv /\ PRest
         /\ visits \in Seq(Visits) /\ visits # <<>> /\ Len(visits) \in Nat /\ Len(visits) # 0
         /\ Len(visits) \in 1..Len(visits) /\ Top = visits[Len(visits)] /\ Top \in Visits
         /\ Top.at \in Nat \ {0} /\ Top.kind \in Kinds
         /\ visited \in Nat /\ symbols \in Seq(Symbols) /\ Len(symbols) \in Nat
         /\ Referring(visits, symbols) /\ SameHomes(symbols, symbols)
         /\ SameLists(symbols, symbols)
<1>1. LInv /\ IInv /\ PRest
  BY DEF PInv, PRest, LInv
<1>2. /\ visits \in Seq(Visits) /\ visits # <<>> /\ Len(visits) \in Nat /\ Len(visits) # 0
      /\ Top = visits[Len(visits)] /\ visited \in Nat /\ symbols \in Seq(Symbols)
      /\ Len(symbols) \in Nat
  BY <1>1, LBasics
<1>3. Top \in Visits /\ Top.at \in Nat \ {0} /\ Top.kind \in Kinds
  BY <1>1, Basics
<1>4. Referring(visits, symbols)
  <2> SUFFICES ASSUME NEW i \in 1..Len(visits), visits[i].kind \in Functions, visits[i].at > 3
               PROVE  visits[i].symbol + 1 \in 1..Len(symbols)
    BY DEF Referring
  <2>1. Refers(visits[i], symbols)
    BY <1>1 DEF IInv, VisitsInv
  <2> QED
    BY <1>2, <2>1 DEF Refers
<1>5. SameHomes(symbols, symbols)
  BY <1>2 DEF SameHomes
<1>6. SameLists(symbols, symbols)
  BY <1>1 DEF SameLists, PRest, Tables, Owned
<1> QED
  BY <1>1, <1>2, <1>3, <1>4, <1>5, <1>6

LEMMA Continued ==
  ASSUME PInv, NEW w \in Visits, GoesOn(Top, w), visits' = WithTop(w), visited' = visited,
         SameHomes(symbols, symbols'), SameLists(symbols, symbols'),
         \A s \in 1..Len(symbols') : s \notin 1..Len(symbols) => Home(symbols'[s]).id \in 0..visited,
         Listing(w) => Listing(Top) /\ w.symbol = Top.symbol /\ symbols' = symbols
  PROVE  PRest'
<1> DEFINE us == [visits EXCEPT ![Len(visits)] = w]
<1>1. Numbered(us, visited) /\ Headed(us, symbols')
  BY PBasics, LastGoesOn DEF PRest, Placed
<1>2. visits' = us /\ Top' = w
  <2>1. visits' = us /\ us[Len(visits)] = w /\ Len(us) = Len(visits)
    BY PBasics DEF WithTop
  <2> QED
    BY <2>1 DEF Top
<1> HIDE DEF us
<1>3. Homes(symbols', visited)
  BY PBasics DEF PRest, Placed, Homes, SameHomes, Home
<1>4. Tables(symbols')
  BY PBasics, TablesStay DEF PRest
<1>5. Growing(w, symbols')
  BY PBasics DEF Growing, PRest
<1> QED
  BY <1>1, <1>2, <1>3, <1>4, <1>5 DEF PRest, Placed

(* Only what opens a scope or declares makes a function list parameters.    *)
LEMMA NothingDeclared ==
  ASSUME PInv, NEW w \in Visits, GoesOn(Top, w), visits' = WithTop(w),
         UNCHANGED <<visited, symbols>>, Listing(w) => Listing(Top) /\ w.symbol = Top.symbol
  PROVE  PRest'
<1>1. symbols' = symbols /\ visited' = visited
  OBVIOUS
<1>2. \A s \in 1..Len(symbols) : s \notin 1..Len(symbols) => Home(symbols[s]).id \in 0..visited
  OBVIOUS
<1>3. SameHomes(symbols, symbols') /\ SameLists(symbols, symbols')
  BY <1>1, PBasics
<1> QED
  BY <1>1, <1>2, <1>3, Continued

LEMMA GivesOn ==
  ASSUME NEW v \in Visits, v.at # 0, NEW val \in DataTypes,
         Step(v) \in Visiting \cup {"Printed", "Parameter", "Parameters"}
  PROVE  /\ Given(v, val) \in Visits /\ GoesOn(v, Given(v, val))
         /\ Given(v, val).symbol = v.symbol
         /\ Listing(Given(v, val)) => Listing(v)
<1> DEFINE w == Given(v, val)
<1>1. v.kind \in Kinds /\ v.at \in Nat \ {0} /\ Step(v) = Steps(v.kind, v.at)
  BY DEF Visits, Step, Steps
<1>2. FunctionSteps(v.kind, v.at)
  BY <1>1, Scripts
<1>3. /\ w \in Visits /\ w.id = v.id /\ w.kind = v.kind /\ w.at \in {v.at, v.at + 1}
      /\ w.symbol = v.symbol
  BY GivenPlace, SymbolStays
<1> HIDE DEF w
<1>4. v.kind \in Functions => v.at > 3
  BY <1>1, <1>2 DEF FunctionSteps, Visiting
<1> QED
  BY <1>1, <1>3, <1>4 DEF GoesOn, Listing, Functions, w

LEMMA EndsList ==
  ASSUME PInv, EndOfList
  PROVE  PRest'
<1>1. /\ Step(Top) \in Repeated /\ visits' = WithTop(Advanced(Top))
      /\ UNCHANGED <<visited, symbols>>
  BY DEF EndOfList
<1>2. FunctionSteps(Top.kind, Top.at) /\ Step(Top) = Steps(Top.kind, Top.at)
  BY PBasics, Basics
<1>3. /\ Advanced(Top) \in Visits /\ Advanced(Top).id = Top.id /\ Advanced(Top).kind = Top.kind
      /\ Advanced(Top).at = Top.at + 1 /\ Advanced(Top).symbol = Top.symbol
  <2>1. 0 \in Nat
    OBVIOUS
  <2> QED
    BY <2>1, PBasics, AdvancedPlace, SymbolStays
<1>4. Top.kind \in Functions => Top.at > 3
  BY <1>1, <1>2, PBasics DEF FunctionSteps, Repeated, Visiting
<1>5. GoesOn(Top, Advanced(Top)) /\ (Listing(Advanced(Top)) => Listing(Top))
  BY <1>3, <1>4, PBasics DEF GoesOn, Listing, Functions
<1> QED
  BY <1>1, <1>3, <1>5, NothingDeclared

LEMMA OpensOrCloses ==
  ASSUME PInv, symbol_table_add_scope \/ symbol_table_remove_scope
  PROVE  PRest'
<1>1. /\ Step(Top) \in {"open", "close"} /\ visits' = WithTop(Advanced(Top))
      /\ UNCHANGED <<visited, symbols>>
  BY DEF symbol_table_add_scope, symbol_table_remove_scope, At
<1>2. ScopeSteps(Top.kind, Top.at) /\ Step(Top) = Steps(Top.kind, Top.at)
  BY PBasics, Basics
<1>3. /\ Advanced(Top) \in Visits /\ Advanced(Top).id = Top.id /\ Advanced(Top).kind = Top.kind
      /\ Advanced(Top).at = Top.at + 1 /\ Advanced(Top).symbol = Top.symbol
  <2>1. 0 \in Nat
    OBVIOUS
  <2> QED
    BY <2>1, PBasics, AdvancedPlace, SymbolStays
<1>4. Top.kind \in Functions => Top.at = 2 \/ Top.at > 6
  <2>1. /\ Top.at \in Nat
        /\ \/ Top.at \notin Inside(Top.kind) /\ Top.at + 1 \in Inside(Top.kind)
           \/ Top.at \in Inside(Top.kind) /\ Top.at + 1 \notin Inside(Top.kind)
    BY <1>1, <1>2, PBasics DEF ScopeSteps
  <2>2. CASE Top.kind = "function_decl"
    BY <2>1, <2>2 DEF Inside
  <2>3. CASE Top.kind = "function_decl_gets_nothing"
    BY <2>1, <2>3 DEF Inside
  <2> QED
    BY <2>2, <2>3 DEF Functions
<1>5. GoesOn(Top, Advanced(Top)) /\ ~ Listing(Advanced(Top))
  BY <1>3, <1>4, PBasics DEF GoesOn, Listing, Functions
<1> QED
  BY <1>1, <1>3, <1>5, NothingDeclared

(* The last visitor returns, or refuses, and its parent goes on.            *)
LEMMA GivesBack ==
  ASSUME PInv, NEW val \in DataTypes, Len(visits) > 1, Own(Top) = 0,
         visits' = Returned(val), UNCHANGED <<visited, symbols>>
  PROVE  PRest'
<1> DEFINE n  == Len(visits)
           us == SubSeq(visits, 1, n - 1)
           v  == us[Len(us)]
           w  == Given(v, val)
<1>1. /\ VisitsInv(us, scopes, symbols, error) /\ Len(us) = n - 1
      /\ v \in Visits /\ Values(v, error) /\ Step(v) \in Visiting
  BY PBasics, Ended DEF IInv
<1>2. /\ n \in Nat /\ us \in Seq(Visits) /\ us # <<>>
      /\ \A i \in 1..n - 1 : us[i] = visits[i] /\ i \in 1..n
  <2>1. us \in Seq(Visits) /\ us # <<>>
    <3> HIDE DEF us
    <3> QED
      BY <1>1 DEF VisitsInv
  <2>2. n \in Nat /\ visits \in Seq(Visits)
    BY PBasics
  <2> QED
    BY <2>1, <2>2
<1>3. visits' = [us EXCEPT ![Len(us)] = w]
  <2>1. Len(us) \in DOMAIN us
    BY <1>1, <1>2
  <2> QED
    BY <1>1, <2>1 DEF Returned
<1> HIDE DEF us
<1>4. Numbered(us, visited) /\ Headed(us, symbols) /\ Referring(us, symbols)
  <2>1. Numbered(visits, visited) /\ Headed(visits, symbols) /\ Referring(visits, symbols)
    BY PBasics DEF PRest, Placed
  <2>2. Numbered(us, visited)
    BY <1>1, <1>2, <2>1 DEF Numbered
  <2>3. Headed(us, symbols)
    BY <1>1, <1>2, <2>1 DEF Headed
  <2>4. Referring(us, symbols)
    BY <1>1, <1>2, <2>1 DEF Referring
  <2> QED
    BY <2>2, <2>3, <2>4
<1>5. v.at # 0 /\ (v.kind = "function_decl" => v.at > 6)
  BY <1>1, WaitsLate DEF Values
<1>6. w \in Visits /\ GoesOn(v, w)
  BY <1>1, <1>5, GivesOn
<1>7. ~ Listing(w)
  <2>1. v.at \in Nat
    BY <1>1 DEF Visits
  <2> HIDE DEF v, w
  <2> QED
    BY <1>5, <1>6, <2>1 DEF Listing, GoesOn, Visits
<1> DEFINE ts == [us EXCEPT ![Len(us)] = w]
<1>8. Numbered(ts, visited) /\ Headed(ts, symbols)
  BY <1>2, <1>4, <1>6, PBasics, LastGoesOn
<1>9. Top' = w
  <2>1. Len(us) \in 1..Len(us)
    BY <1>1, <1>2, PBasics
  <2>2. Len(ts) = Len(us) /\ ts[Len(us)] = w
    BY <1>2, <2>1
  <2> QED
    BY <1>3, <2>2 DEF Top
<1> HIDE DEF ts, w
<1> QED
  BY <1>3, <1>7, <1>8, <1>9, PBasics DEF PRest, Placed, Growing, ts

LEMMA RefusesBack ==
  ASSUME PInv, Step(Top) \in Checked, Refuse
  PROVE  PRest'
<1>1. Top.kind \in Named /\ Own(Top) = 0
  BY PBasics, Basics DEF CheckedSteps, Own
<1>2. Len(visits) > 1
  <2>1. Top.kind # "program"
    BY <1>1 DEF Named, Functions, Calls
  <2>2. Len(visits) # 1
    BY <2>1, PBasics, LBasics DEF Nested
  <2>3. \A k \in Nat : k # 0 /\ k # 1 => k > 1
    OBVIOUS
  <2> QED
    BY <2>2, <2>3, PBasics
<1>3. "NONE" \in DataTypes
  BY DEF DataTypes
<1> QED
  BY <1>1, <1>2, <1>3, GivesBack DEF Refuse

LEMMA ReturnsBack ==
  ASSUME PInv, Return
  PROVE  PRest'
<1>1. Step(Top) = "leave" /\ Len(visits) > 1
  BY DEF Return, At
<1>2. Outcome(Top).type \in DataTypes
  BY <1>1, PBasics, Outcomes
<1>3. Own(Top) = 0
  BY <1>1, PBasics, Basics DEF ScopeSteps, Own
<1> QED
  BY <1>1, <1>2, <1>3, GivesBack DEF Return

LEMMA GivesAValue ==
  ASSUME PInv, NEW val \in DataTypes, visits' = WithTop(Given(Top, val)),
         Step(Top) \in Visiting \cup {"Printed", "Parameter", "Parameters"},
         UNCHANGED <<visited, symbols>>
  PROVE  PRest'
<1>1. Top \in Visits /\ Top.at # 0
  BY PBasics
<1> QED
  BY <1>1, GivesOn, NothingDeclared

LEMMA UsesNames ==
  ASSUME PInv, FindVariable \/ FindFunction \/ Identifier \/ Literal \/ StringLiteral
  PROVE  PRest'
<1>1. CASE FindVariable \/ FindFunction
  <2> DEFINE s == symbol_table_lookup_symbol(Top.name)
             w == [Advanced(Top) EXCEPT !.symbol = s]
  <2>1. Step(Top) \in {"find", "find_function"} /\ Step(Top) \in Checked
    BY <1>1 DEF FindVariable, FindFunction, At, Checked
  <2>2. CASE Refuse
    BY <2>1, <2>2, RefusesBack
  <2>3. CASE visits' = WithTop(w) /\ UNCHANGED <<visited, symbols>>
    <3>1. Top.kind \in Named /\ Top.kind \notin Functions
      BY <2>1, PBasics, Basics DEF CheckedSteps, Checked, Functions, Calls
    <3>2. s \in Nat
      <4>1. Top.name \in Identifiers
        BY <3>1, PBasics, Basics, NotHelper DEF Values
      <4> QED
        BY <4>1, PBasics, SymbolFound
    <3>3. w \in Visits /\ w.id = Top.id /\ w.kind = Top.kind /\ w.at = Top.at + 1
      BY <3>2, PBasics, AdvancedPlace
    <3> HIDE DEF w, s
    <3>4. GoesOn(Top, w) /\ ~ Listing(w)
      BY <3>1, <3>3, PBasics DEF GoesOn, Listing, Functions
    <3> QED
      BY <2>3, <3>3, <3>4, NothingDeclared
  <2> QED
    BY <1>1, <2>2, <2>3 DEF FindVariable, FindFunction
<1>2. CASE Identifier
  <2>1. PICK n \in Names :
          visits' = WithTop(Given(Top, IF symbol_table_lookup_symbol(n) = 0 THEN "UNKNOWN"
                                       ELSE symbols[symbol_table_lookup_symbol(n)].type))
    BY <1>2 DEF Identifier
  <2>2. symbol_table_lookup_symbol(n) \in 0..Len(symbols)
    BY PBasics, SymbolFound, NotHelper
  <2>3. \A s \in 1..Len(symbols) : symbols[s].type \in DataTypes
    <3>1. \A s \in 1..Len(symbols) : symbols[s] \in Symbols
      BY PBasics
    <3> QED
      BY <3>1 DEF Symbols
  <2>4. (IF symbol_table_lookup_symbol(n) = 0 THEN "UNKNOWN"
         ELSE symbols[symbol_table_lookup_symbol(n)].type) \in DataTypes
    <3>1. symbol_table_lookup_symbol(n) # 0
            => symbol_table_lookup_symbol(n) \in 1..Len(symbols)
      BY <2>2, PBasics
    <3> QED
      BY <2>3, <3>1 DEF DataTypes
  <2>5. Step(Top) \in Visiting /\ UNCHANGED <<visited, symbols>>
    BY <1>2 DEF Identifier, Expects, Valued, Visiting
  <2> QED
    BY <2>1, <2>4, <2>5, GivesAValue
<1>3. CASE Literal
  <2>1. PICK t \in VariableTypes : visits' = WithTop(Given(Top, t))
    BY <1>3 DEF Literal, VariableTypes
  <2>2. Step(Top) \in Visiting /\ UNCHANGED <<visited, symbols>> /\ t \in DataTypes
    BY <1>3 DEF Literal, Expects, Valued, Visiting, VariableTypes, DataTypes
  <2> QED
    BY <2>1, <2>2, GivesAValue
<1>4. CASE StringLiteral
  <2>1. /\ Step(Top) = "Printed" /\ UNCHANGED <<visited, symbols>> /\ "STRING" \in DataTypes
        /\ visits' = WithTop(Given(Top, "STRING"))
    BY <1>4 DEF StringLiteral, At, DataTypes
  <2> QED
    BY <2>1, GivesAValue
<1> QED
  BY <1>1, <1>2, <1>3, <1>4

LEMMA AcceptsVisit ==
  ASSUME PInv, accept
  PROVE  PRest'
<1> DEFINE n == Len(visits)
<1>1. PICK kind, name, type : visits' = Append(visits, Started(kind, name, type))
  BY DEF accept
<1> DEFINE v == Started(kind, name, type)
<1>2. v.id = visited + 1 /\ v.at = 1
  BY DEF Started
<1> HIDE DEF v
<1>3. /\ Len(visits') = n + 1 /\ visits'[n + 1] = v /\ n \in Nat
      /\ \A i \in 1..n : visits'[i] = visits[i]
  BY <1>1, PBasics DEF v
<1>4. \A i \in 1..n + 1 : i = n + 1 \/ i \in 1..n
  BY <1>3
<1>5. /\ Numbered(visits, visited) /\ Homes(symbols, visited) /\ Headed(visits, symbols)
      /\ Tables(symbols) /\ visited \in Nat
  BY PBasics DEF PRest, Placed
<1>6. visited' = visited + 1 /\ symbols' = symbols
  BY DEF accept
<1>7. Numbered(visits', visited')
  <2>1. \A i \in 1..n : visits[i] \in Visits
    BY PBasics
  <2>2. \A i \in 1..n : visits[i].id \in Nat
    BY <2>1 DEF Visits
  <2>3. ASSUME NEW i \in 1..n + 1
        PROVE  visits'[i].id <= visited + 1
    BY <1>2, <1>3, <1>4, <1>5, <2>2 DEF Numbered
  <2>4. ASSUME NEW i \in 1..n + 1, NEW k \in 1..n + 1, i < k
        PROVE  visits'[i].id < visits'[k].id
    <3>1. i \in 1..n
      BY <1>3, <2>4
    <3>2. visits'[i].id = visits[i].id /\ visits[i].id <= visited /\ visits[i].id \in Nat
      BY <1>3, <1>5, <2>2, <3>1 DEF Numbered
    <3>3. CASE k \in 1..n
      BY <1>3, <1>5, <2>4, <3>1, <3>3 DEF Numbered
    <3>4. CASE k = n + 1
      BY <1>2, <1>3, <1>5, <3>2, <3>4
    <3> QED
      BY <1>4, <3>3, <3>4
  <2> QED
    BY <1>3, <1>6, <2>3, <2>4 DEF Numbered
<1>8. Homes(symbols', visited')
  BY <1>5, <1>6 DEF Homes
<1>9. Headed(visits', symbols')
  <2>1. ASSUME NEW i \in 1..n + 1, visits'[i].kind \in Functions, visits'[i].at > 3
        PROVE  Home(symbols[visits'[i].symbol + 1]).id = visits'[i].id
    <3>1. i \in 1..n /\ visits'[i] = visits[i]
      BY <1>2, <1>3, <1>4, <2>1
    <3> QED
      BY <1>5, <2>1, <3>1 DEF Headed
  <2>2. ASSUME NEW h \in 1..Len(symbols), NEW i \in 1..n + 1, symbols[h].name = CF,
               visits'[i].id = Home(symbols[h]).id
        PROVE  /\ visits'[i].kind \in Functions /\ visits'[i].at > 3
               /\ h = visits'[i].symbol + 1
    <3>1. i # n + 1
      BY <1>2, <1>3, <1>5, <2>2 DEF Homes
    <3>2. i \in 1..n /\ visits'[i] = visits[i]
      BY <1>3, <1>4, <3>1
    <3> QED
      BY <1>5, <2>2, <3>2 DEF Headed
  <2> QED
    BY <1>3, <1>6, <2>1, <2>2 DEF Headed
<1>10. Growing(Top', symbols')
  BY <1>2, <1>3 DEF Top, Growing, Listing
<1> QED
  BY <1>5, <1>6, <1>7, <1>8, <1>9, <1>10 DEF PRest, Placed

-----------------------------------------------------------------------------
(* Declarations *)

(* A new symbol that is neither a helper nor a parameter.                   *)
LEMMA OneMore ==
  ASSUME PInv, NEW w \in Visits, GoesOn(Top, w), ~ Listing(w), visits' = WithTop(w),
         visited' = visited, NEW new \in Symbols, symbols' = Append(symbols, new),
         new.name # CF, new.info = 0, ~ AsParameter(new), Home(new).id \in 0..visited
  PROVE  PRest'
<1>1. /\ Len(symbols') = Len(symbols) + 1 /\ symbols'[Len(symbols) + 1] = new
      /\ \A s \in 1..Len(symbols) : symbols'[s] = symbols[s]
      /\ Len(symbols) \in Nat
  BY PBasics
<1>2. \A s \in 1..Len(symbols) + 1 : s \notin 1..Len(symbols) => s = Len(symbols) + 1
  BY <1>1
<1>3. SameHomes(symbols, symbols')
  BY <1>1, <1>2 DEF SameHomes
<1>4. SameLists(symbols, symbols')
  <2>1. ASSUME NEW f \in 1..Len(symbols'), symbols'[f].info # 0
        PROVE  symbols'[symbols'[f].info].name = CF
    <3>1. f \in 1..Len(symbols) /\ symbols'[f] = symbols[f]
      BY <1>1, <1>2, <2>1
    <3>2. symbols[symbols[f].info].name = CF
      BY <2>1, <3>1, PBasics DEF PRest, Tables, Owned
    <3>3. symbols[f].info \in 1..Len(symbols)
      <4>1. symbols[f].info \in 0..Len(symbols)
        BY <3>1, PBasics, LBasics DEF TablesInv
      <4> QED
        BY <1>1, <2>1, <3>1, <4>1
    <3> QED
      BY <1>1, <3>1, <3>2, <3>3
  <2> QED
    BY <1>1, <1>2, <2>1 DEF SameLists
<1>5. \A s \in 1..Len(symbols') : s \notin 1..Len(symbols) => Home(symbols'[s]).id \in 0..visited
  BY <1>1, <1>2
<1> QED
  BY <1>3, <1>4, <1>5, Continued

(* The k-th visit as the place of a declaration.                            *)
LEMMA HomeOf ==
  ASSUME PInv, NEW k \in 1..Len(visits), NEW symbol, symbol.path = Path(k)
  PROVE  /\ Home(symbol) = Place(visits[k]) /\ Home(symbol).id \in 0..visited
         /\ Home(symbol).id = visits[k].id /\ Home(symbol).kind = visits[k].kind
         /\ Home(symbol).at = visits[k].at
<1>1. k \in Nat /\ Len(Path(k)) = k /\ Path(k)[k] = Place(visits[k])
  BY PBasics DEF Path
<1>2. visits[k] \in Visits /\ visits[k].id <= visited /\ visited \in Nat
  BY PBasics DEF PRest, Placed, Numbered
<1> QED
  BY <1>1, <1>2 DEF Home, Place, Visits

LEMMA DeclaresAName ==
  ASSUME PInv, create_new_variable \/ DeclareFunction
  PROVE  PRest'
<1> DEFINE n == Len(visits)
           m == Top.name
<1>1. Step(Top) \in {"declare", "declare_function"} /\ Step(Top) \in Checked
  BY DEF create_new_variable, DeclareFunction, At, Checked
<1>2. CASE ~ CanAdd(m)
  BY <1>1, <1>2, RefusesBack DEF create_new_variable, DeclareFunction
<1>3. CASE CanAdd(m)
  <2> DEFINE kind == IF create_new_variable THEN "VARIABLE" ELSE "FUNCTION"
             new  == Symbol(m, kind, Top.type, Path(n - 1))
  <2>1. Top.kind \in Named /\ Top.at = 1
    BY <1>1, PBasics, Basics DEF CheckedSteps, Checked
  <2>2. m \in Identifiers /\ m # CF /\ Top.type \in DataTypes
    BY <2>1, PBasics, Basics, NotHelper DEF Values, VariableTypes, DataTypes
  <2>3. n \in Nat /\ n - 1 \in 1..n
    <3>1. Top.kind # "program"
      BY <2>1 DEF Named, Functions, Calls
    <3>2. n # 1
      BY <3>1, PBasics, LBasics DEF Nested
    <3>3. n \in Nat /\ n # 0
      BY PBasics
    <3> HIDE DEF n
    <3> QED
      BY <3>2, <3>3
  <2>4. kind \in {"VARIABLE", "FUNCTION"}
    OBVIOUS
  <2>5. /\ new \in Symbols /\ new.info = 0 /\ new.name = m /\ new.kind = kind
        /\ new.path = Path(n - 1)
    <3>1. n - 1 \in 0..n
      BY <2>3
    <3> HIDE DEF kind
    <3> QED
      BY <2>2, <2>4, <3>1, PBasics, NewSymbol DEF Symbol
  <2>6. symbols' = Append(symbols, new) /\ visited' = visited
    <3>1. CASE create_new_variable
      BY <1>3, <3>1 DEF create_new_variable
    <3>2. CASE ~ create_new_variable
      BY <1>3, <3>2 DEF DeclareFunction
    <3> QED
      BY <3>1, <3>2
  <2>7. PICK w \in Visits : /\ w.id = Top.id /\ w.kind = Top.kind
                            /\ w.at = Top.at + 1 /\ visits' = WithTop(w)
    <3>1. CASE create_new_variable
      <4>1. visits' = WithTop(Advanced(Top))
        BY <1>3, <3>1 DEF create_new_variable
      <4>2. 0 \in Nat
        OBVIOUS
      <4> QED
        BY <4>1, <4>2, PBasics, AdvancedPlace
    <3>2. CASE DeclareFunction
      <4>1. visits' = WithTop([Advanced(Top) EXCEPT !.symbol = Len(symbols) + 1])
        BY <1>3, <3>2 DEF DeclareFunction
      <4>2. Len(symbols) + 1 \in Nat
        BY PBasics
      <4> QED
        BY <4>1, <4>2, PBasics, AdvancedPlace
    <3> QED
      BY <3>1, <3>2
  <2> HIDE DEF kind, new
  <2>8. GoesOn(Top, w) /\ ~ Listing(w)
    BY <2>1, <2>7 DEF GoesOn, Listing
  <2>9. /\ Home(new).id \in 0..visited /\ Home(new).kind = visits[n - 1].kind
        /\ Home(new).at = visits[n - 1].at
    BY <2>3, <2>5, HomeOf
  <2>10. ~ AsParameter(new)
    <3>1. n - 1 \in 1..n - 1 /\ visits[n - 1] \in Visits
      BY <2>3, PBasics
    <3>2. Step(visits[n - 1]) \in Visiting /\ Values(visits[n - 1], error)
      BY <2>3, <3>1, PBasics DEF IInv, VisitsInv, Nested
    <3>3. visits[n - 1].kind = "function_decl" => visits[n - 1].at > 6
      BY <3>1, <3>2, WaitsLate
    <3> QED
      BY <2>9, <3>3 DEF AsParameter
  <2> HIDE DEF n, m
  <2> QED
    BY <2>2, <2>5, <2>6, <2>7, <2>8, <2>9, <2>10, OneMore
<1> QED
  BY <1>2, <1>3

LEMMA PublishesInfo ==
  ASSUME PInv, PublishParameters
  PROVE  PRest'
<1> DEFINE f  == Top.symbol
           sy == [symbols EXCEPT ![f].info = symbols[f + 1].info]
           w  == Advanced(Top)
<1>1. /\ Step(Top) = "publish" /\ visits' = WithTop(w) /\ symbols' = sy
      /\ visited' = visited
  BY DEF PublishParameters, At
<1>2. /\ \/ Top.kind = "function_decl" /\ Top.at = 6
         \/ Top.kind = "function_decl_gets_nothing" /\ Top.at = 4
      /\ Refers(Top, symbols)
  BY <1>1, PBasics, Basics DEF FunctionSteps
<1>3. w \in Visits /\ w.id = Top.id /\ w.kind = Top.kind /\ w.at = Top.at + 1 /\ w.symbol = f
  <2>1. 0 \in Nat
    OBVIOUS
  <2> QED
    BY <2>1, PBasics, AdvancedPlace, SymbolStays
<1> HIDE DEF w
<1>4. GoesOn(Top, w) /\ ~ Listing(w)
  BY <1>2, <1>3 DEF GoesOn, Listing
<1>5. /\ f \in 1..Len(symbols) /\ f + 1 \in 1..Len(symbols)
      /\ symbols[f + 1].name = CF /\ symbols[f].name # CF
  <2>1. f \in Nat /\ Len(symbols) \in Nat
    BY PBasics DEF Visits
  <2> QED
    BY <1>2, <2>1 DEF Refers, Functions
<1>6. symbols[f + 1].info = f + 1
  BY <1>5, PBasics, LBasics DEF TablesInv
<1>7. /\ Len(sy) = Len(symbols) /\ Len(symbols) \in Nat
      /\ \A s \in 1..Len(symbols) : s # f => sy[s] = symbols[s]
      /\ sy[f] = [symbols[f] EXCEPT !.info = f + 1]
  BY <1>5, <1>6, PBasics
<1>8. /\ sy[f].name = symbols[f].name /\ sy[f].kind = symbols[f].kind
      /\ sy[f].type = symbols[f].type /\ sy[f].path = symbols[f].path
      /\ sy[f].params = symbols[f].params /\ sy[f].info = f + 1
  <2>1. symbols[f] \in Symbols
    BY <1>5, PBasics
  <2> HIDE DEF sy, f
  <2> QED
    BY <1>7, <2>1 DEF Symbols
<1> HIDE DEF sy, f
<1>9. \A s \in 1..Len(symbols) :
        /\ sy[s].name = symbols[s].name /\ sy[s].kind = symbols[s].kind
        /\ sy[s].type = symbols[s].type /\ sy[s].path = symbols[s].path
        /\ sy[s].params = symbols[s].params
  BY <1>7, <1>8
<1>10. SameHomes(symbols, sy)
  BY <1>7, <1>9 DEF SameHomes
<1>11. SameLists(symbols, sy)
  <2>1. ASSUME NEW s \in 1..Len(symbols), sy[s].info # 0
        PROVE  sy[sy[s].info].name = CF
    <3>1. CASE s = f
      BY <1>5, <1>8, <1>9, <3>1
    <3>2. CASE s # f
      <4>1. sy[s].info = symbols[s].info /\ symbols[symbols[s].info].name = CF
        BY <1>7, <2>1, <3>2, PBasics DEF PRest, Tables, Owned
      <4>2. symbols[s].info \in 0..Len(symbols)
        BY PBasics, LBasics DEF TablesInv
      <4>3. symbols[s].info \in 1..Len(symbols)
        BY <1>7, <2>1, <4>1, <4>2
      <4> QED
        BY <1>9, <4>1, <4>3
    <3> QED
      BY <3>1, <3>2
  <2> QED
    BY <1>7, <1>9, <2>1 DEF SameLists
<1>12. \A s \in 1..Len(symbols') : s \notin 1..Len(symbols) => Home(symbols'[s]).id \in 0..visited
  BY <1>1, <1>7
<1> QED
  BY <1>1, <1>3, <1>4, <1>10, <1>11, <1>12, Continued

LEMMA DeclaresAHelper ==
  ASSUME PInv, DeclareHelper
  PROVE  PRest'
<1> DEFINE n   == Len(visits)
           L   == Len(symbols)
           w   == Advanced(Top)
           p   == Symbol(CF, "FUNCTION", Top.type, Path(n))
           new == [p EXCEPT !.info = L + 1]
           us  == [visits EXCEPT ![n] = w]
           sy  == Append(symbols, new)
<1>1. /\ Step(Top) = "declare_helper" /\ visits' = us /\ symbols' = sy /\ visited' = visited
  BY DEF DeclareHelper, At, CF, WithTop
<1>2. /\ Top.kind \in Functions /\ Top.at = 3 /\ Refers(Top, symbols) /\ Values(Top, error)
      /\ L \in Nat /\ n \in Nat /\ n # 0 /\ n \in 1..n /\ Top = visits[n]
  BY <1>1, PBasics, Basics DEF FunctionSteps
<1>3. w \in Visits /\ w.id = Top.id /\ w.kind = Top.kind /\ w.at = 4 /\ w.symbol = L
  <2>1. 0 \in Nat
    OBVIOUS
  <2>2. Top.symbol = L
    BY <1>2 DEF Refers
  <2>3. /\ w \in Visits /\ w.id = Top.id /\ w.kind = Top.kind /\ w.at = Top.at + 1
        /\ w.symbol = Top.symbol
    BY <2>1, PBasics, AdvancedPlace, SymbolStays
  <2> HIDE DEF w
  <2> QED
    BY <1>2, <2>2, <2>3
<1>4. /\ new \in Symbols /\ new.name = CF /\ new.info = L + 1 /\ new.kind = "FUNCTION"
      /\ new.path = Path(n) /\ new.params = <<>>
  <2>1. Top.type \in DataTypes /\ CF \in Identifiers /\ n \in 0..n
    BY <1>2 DEF Values, VariableTypes, DataTypes, Identifiers, CF
  <2>2. /\ p \in Symbols /\ p.name = CF /\ p.kind = "FUNCTION" /\ p.path = Path(n)
        /\ p.params = <<>>
    BY <2>1, PBasics, NewSymbol DEF Symbol
  <2> HIDE DEF p
  <2>3. L + 1 \in Nat
    BY <1>2
  <2> HIDE DEF L, n
  <2> QED
    BY <2>2, <2>3 DEF Symbols
<1> HIDE DEF w, new
<1>5. /\ us \in Seq(Visits) /\ Len(us) = n /\ us[n] = w /\ \A i \in 1..n - 1 : us[i] = visits[i]
  BY <1>2, <1>3, PBasics, ExceptSeq
<1>6. /\ Len(sy) = L + 1 /\ sy[L + 1] = new /\ \A s \in 1..L : sy[s] = symbols[s]
  BY <1>2, <1>4, PBasics
<1> HIDE DEF us, sy
<1>7. \A i \in 1..n : i = n \/ (i \in 1..n - 1 /\ i < n)
  BY <1>2
<1>8. \A s \in 1..L + 1 : s = L + 1 \/ s \in 1..L
  BY <1>2
<1>9. Home(new).id = Top.id /\ Home(new).id \in 0..visited
  BY <1>2, <1>4, HomeOf
<1>10. /\ Numbered(visits, visited) /\ Homes(symbols, visited) /\ Headed(visits, symbols)
       /\ Lists(symbols) /\ Owned(symbols) /\ Referring(visits, symbols)
  BY PBasics DEF PRest, Placed, Tables
<1>11. \A i \in 1..n : us[i].id = visits[i].id
  BY <1>2, <1>3, <1>5, <1>7
<1>12. Numbered(us, visited)
  BY <1>5, <1>10, <1>11 DEF Numbered
<1>13. Homes(sy, visited)
  BY <1>6, <1>8, <1>9, <1>10 DEF Homes
<1>14. \A h \in 1..L : symbols[h].name = CF => Home(symbols[h]).id # Top.id   \* as at = 3
  BY <1>2, <1>10 DEF Headed
<1>15. Headed(us, sy)
  <2>1. ASSUME NEW i \in 1..n, us[i].kind \in Functions, us[i].at > 3
        PROVE  Home(sy[us[i].symbol + 1]).id = us[i].id
    <3>1. CASE i = n
      BY <1>3, <1>5, <1>6, <1>9, <3>1
    <3>2. CASE i \in 1..n - 1
      <4>1. us[i] = visits[i] /\ visits[i].symbol + 1 \in 1..L
        BY <1>5, <1>10, <2>1, <3>2 DEF Referring
      <4> QED
        BY <1>6, <1>10, <2>1, <4>1 DEF Headed
    <3> QED
      BY <1>7, <3>1, <3>2
  <2>2. ASSUME NEW h \in 1..L + 1, NEW i \in 1..n, sy[h].name = CF, us[i].id = Home(sy[h]).id
        PROVE  us[i].kind \in Functions /\ us[i].at > 3 /\ h = us[i].symbol + 1
    <3>1. CASE h = L + 1
      <4>1. visits[i].id = visits[n].id
        BY <1>2, <1>6, <1>9, <1>11, <2>2, <3>1
      <4>2. \A k \in 1..n : visits[k].id \in Nat
        <5>1. \A k \in 1..n : visits[k] \in Visits
          BY PBasics
        <5> QED
          BY <5>1 DEF Visits
      <4>3. ~ (i < n)
        BY <1>2, <1>10, <4>1, <4>2 DEF Numbered
      <4> QED
        BY <1>2, <1>3, <1>5, <1>7, <3>1, <4>3
    <3>2. CASE h \in 1..L
      <4>1. sy[h] = symbols[h] /\ visits[i].id = Home(symbols[h]).id /\ symbols[h].name = CF
        BY <1>6, <1>11, <2>2, <3>2
      <4>2. us[i] = visits[i]
        BY <1>2, <1>5, <1>7, <1>14, <3>2, <4>1
      <4> QED
        BY <1>10, <3>2, <4>1, <4>2 DEF Headed
    <3> QED
      BY <1>8, <3>1, <3>2
  <2> QED
    BY <1>5, <1>6, <2>1, <2>2 DEF Headed
<1>16. ~ AsParameter(new)
  BY <1>4 DEF AsParameter
<1>17. Lists(sy)
  <2> SUFFICES ASSUME NEW h \in 1..L + 1, sy[h].name = CF
               PROVE  /\ h + Len(sy[h].params) <= L + 1
                      /\ \A s \in 1..L + 1 : AsParameter(sy[s]) /\ Home(sy[s]).id = Home(sy[h]).id
                           <=> h < s /\ s <= h + Len(sy[h].params)
                      /\ \A i \in 1..Len(sy[h].params) : sy[h].params[i] = sy[h + i].type
    BY <1>6 DEF Lists
  <2>1. CASE h = L + 1
    <3>1. Len(sy[h].params) = 0
      BY <1>4, <1>6, <2>1
    <3>2. ASSUME NEW s \in 1..L + 1, AsParameter(sy[s]), Home(sy[s]).id = Home(sy[h]).id
          PROVE  FALSE
      <4>1. s \in 1..L /\ sy[s] = symbols[s]
        BY <1>6, <1>8, <1>16, <3>2
      <4>2. PICK g \in 1..L : symbols[g].name = CF /\ Home(symbols[g]).id = Home(symbols[s]).id
        BY <1>10, <3>2, <4>1 DEF Owned
      <4> QED
        BY <1>6, <1>9, <1>14, <2>1, <3>2, <4>1, <4>2
    <3> QED
      BY <1>2, <2>1, <3>1, <3>2
  <2>2. CASE h \in 1..L
    <3>1. sy[h] = symbols[h] /\ symbols[h].name = CF /\ Len(symbols[h].params) \in Nat
      <4>1. symbols[h] \in Symbols
        BY <2>2, PBasics
      <4> QED
        BY <1>6, <2>2, <4>1 DEF Symbols
    <3>2. /\ h + Len(symbols[h].params) <= L
          /\ \A s \in 1..L : AsParameter(symbols[s]) /\ Home(symbols[s]).id = Home(symbols[h]).id
               <=> h < s /\ s <= h + Len(symbols[h].params)
          /\ \A i \in 1..Len(symbols[h].params) : symbols[h].params[i] = symbols[h + i].type
      BY <1>10, <2>2, <3>1 DEF Lists
    <3>3. \A i \in 1..Len(symbols[h].params) : h + i \in 1..L
      BY <1>2, <2>2, <3>1, <3>2
    <3>4. ASSUME NEW s \in 1..L + 1
          PROVE  AsParameter(sy[s]) /\ Home(sy[s]).id = Home(symbols[h]).id
                   <=> h < s /\ s <= h + Len(symbols[h].params)
      <4>1. CASE s = L + 1
        BY <1>2, <1>6, <1>16, <3>1, <3>2, <4>1
      <4>2. CASE s \in 1..L
        BY <1>6, <3>2, <4>2
      <4> QED
        BY <1>8, <4>1, <4>2
    <3>5. \A i \in 1..Len(symbols[h].params) : symbols[h].params[i] = sy[h + i].type
      BY <1>6, <3>2, <3>3
    <3>6. h + Len(symbols[h].params) <= L + 1
      BY <1>2, <2>2, <3>1, <3>2
    <3> QED
      BY <3>1, <3>4, <3>5, <3>6
  <2> QED
    BY <1>8, <2>1, <2>2
<1>18. Owned(sy)
  <2>1. ASSUME NEW s \in 1..L + 1, AsParameter(sy[s])
        PROVE  \E h \in 1..L + 1 : sy[h].name = CF /\ Home(sy[h]).id = Home(sy[s]).id
    <3>1. s \in 1..L /\ sy[s] = symbols[s]
      BY <1>6, <1>8, <1>16, <2>1
    <3>2. PICK h \in 1..L : symbols[h].name = CF /\ Home(symbols[h]).id = Home(symbols[s]).id
      BY <1>10, <2>1, <3>1 DEF Owned
    <3>3. h \in 1..L + 1
      BY <1>2
    <3> QED
      BY <1>6, <3>1, <3>2, <3>3
  <2>2. ASSUME NEW g \in 1..L + 1, NEW h \in 1..L + 1, sy[g].name = CF, sy[h].name = CF,
               Home(sy[g]).id = Home(sy[h]).id
        PROVE  g = h
    <3>1. CASE g = L + 1
      BY <1>6, <1>8, <1>9, <1>14, <2>2, <3>1
    <3>2. CASE h = L + 1
      BY <1>6, <1>8, <1>9, <1>14, <2>2, <3>2
    <3>3. CASE g \in 1..L /\ h \in 1..L
      BY <1>6, <1>10, <2>2, <3>3 DEF Owned
    <3> QED
      BY <1>8, <3>1, <3>2, <3>3
  <2>3. ASSUME NEW f \in 1..L + 1, sy[f].info # 0
        PROVE  sy[sy[f].info].name = CF
    <3>1. CASE f = L + 1
      BY <1>4, <1>6, <3>1
    <3>2. CASE f \in 1..L
      <4>1. sy[f] = symbols[f] /\ symbols[symbols[f].info].name = CF
        BY <1>6, <1>10, <2>3, <3>2 DEF Owned
      <4>2. symbols[f].info \in 0..L
        BY <3>2, PBasics, LBasics DEF TablesInv
      <4>3. symbols[f].info \in 1..L
        BY <1>2, <2>3, <4>1, <4>2
      <4> QED
        BY <1>6, <4>1, <4>3
    <3> QED
      BY <1>8, <3>1, <3>2
  <2> QED
    BY <1>6, <2>1, <2>2, <2>3 DEF Owned
<1>19. Growing(w, sy)
  <2>1. sy[w.symbol + 1] = new /\ Len(new.params) = 0 /\ w.symbol + 1 = Len(sy)
    BY <1>3, <1>4, <1>6
  <2>2. Len(sy) \in Nat
    BY <1>2, <1>6
  <2> QED
    BY <2>1, <2>2 DEF Growing
<1>20. Top' = w
  BY <1>1, <1>5 DEF Top
<1> QED
  BY <1>1, <1>12, <1>13, <1>15, <1>17, <1>18, <1>19, <1>20 DEF PRest, Placed, Tables

(* While parameters are declared, CURRENT_FUNCTION_SYMBOL means the helper  *)
(* of their function.                                                       *)
LEMMA HelperFound ==
  ASSUME IInv, Helping(Top)
  PROVE  symbol_table_lookup_symbol(CF) = Top.symbol + 1
<1>1. /\ TablesInv(scopes, symbols) /\ VisitsInv(visits, scopes, symbols, error)
      /\ CF \in Identifiers /\ Len(visits) \in 1..Len(visits) /\ Top = visits[Len(visits)]
  <2>1. Len(visits) \in Nat \ {0}
    BY Basics
  <2> QED
    BY <2>1 DEF IInv, Identifiers, CF, Top
<1>2. Len(scopes) = Top.base + 1 /\ Len(scopes) \in 1..Len(scopes)
  BY Basics, OwnScope
<1>3. scopes[Len(scopes)][CF] = Top.symbol + 1 /\ Top.symbol + 1 # 0
  <2>1. Top.symbol \in Nat
    BY Basics DEF Visits
  <2> QED
    BY <1>1, <1>2, <2>1 DEF VisitsInv, Helpers
<1>4. PICK j \in 1..Len(scopes) :
        /\ \A i \in 1..Len(scopes) : scopes[i][CF] # 0 => i <= j
        /\ symbol_table_lookup_symbol(CF) = scopes[j][CF]
  BY <1>1, <1>2, <1>3, Lookup
<1>5. j = Len(scopes)
  BY <1>2, <1>3, <1>4
<1> QED
  BY <1>3, <1>4, <1>5

LEMMA ListsParameter ==
  ASSUME PInv, parameter
  PROVE  PRest'
<1> DEFINE w == Given(Top, "NONE")
           L == Len(symbols)
           h == Top.symbol + 1
<1>1. /\ Step(Top) \in {"Parameter", "Parameters"} /\ visits' = WithTop(w)
      /\ visited' = visited /\ "NONE" \in DataTypes
  BY DEF parameter, At, DataTypes
<1>2. /\ Top.kind = "function_decl" /\ Top.at \in 4..5 /\ Top.at \in Inside(Top.kind)
      /\ Refers(Top, symbols)
  BY <1>1, PBasics, Basics DEF FunctionSteps
<1>3. PICK n \in Names, t \in VariableTypes :
        IF CanAdd(n)
          THEN LET k == symbol_table_lookup_symbol(CURRENT_FUNCTION_SYMBOL) IN
               /\ scopes' = AddedTo(n)
               /\ symbols' = Append([symbols EXCEPT ![symbols[k].info].params = Append(@, t)],
                                    Symbol(n, "VARIABLE", t, Path(Len(visits))))
               /\ UNCHANGED error
          ELSE error' = TRUE /\ UNCHANGED <<scopes, symbols>>
  BY DEF parameter
<1>4. CASE ~ CanAdd(n)
  <2>1. symbols' = symbols
    BY <1>3, <1>4
  <2> QED
    BY <1>1, <2>1, GivesAValue
<1>5. CASE CanAdd(n)
  <2> DEFINE sy1 == [symbols EXCEPT ![h].params = Append(@, t)]
             new == Symbol(n, "VARIABLE", t, Path(Len(visits)))
             sy  == Append(sy1, new)
             us  == [visits EXCEPT ![Len(visits)] = w]
  <2>1. /\ h \in 1..L /\ symbols[h].name = CF /\ symbols[h].info = h /\ symbols[h] \in Symbols
        /\ L \in Nat
    <3>1. Top.symbol \in Nat /\ L \in Nat
      BY PBasics DEF Visits
    <3>2. h \in 1..L /\ symbols[h].name = CF
      BY <1>2, <3>1 DEF Refers, Functions
    <3> HIDE DEF h
    <3> QED
      BY <3>1, <3>2, PBasics, LBasics DEF TablesInv
  <2>2. symbols' = sy
    <3>1. Helping(Top)
      BY <1>2 DEF Helping, Functions
    <3>2. symbol_table_lookup_symbol(CURRENT_FUNCTION_SYMBOL) = h
      BY <3>1, PBasics, HelperFound DEF CF
    <3> QED
      BY <1>3, <1>5, <2>1, <3>2
  <2>3. /\ Len(sy1) = L /\ sy1 \in Seq(Symbols)
        /\ \A s \in 1..L : s # h => sy1[s] = symbols[s]
        /\ sy1[h] = [symbols[h] EXCEPT !.params = Append(@, t)]
    <3>1. SameSymbols(sy1)
      BY PBasics, Recorded
    <3>2. sy1 \in Seq(Symbols) /\ Len(sy1) = L
      BY <3>1 DEF SameSymbols
    <3>3. h \in DOMAIN symbols /\ DOMAIN symbols = 1..L
      BY <2>1, PBasics
    <3>4. \A s \in 1..L : s # h => sy1[s] = symbols[s]
      BY <3>3
    <3>5. sy1[h] = [symbols[h] EXCEPT !.params = Append(@, t)]
      BY <3>3
    <3> QED
      BY <3>2, <3>4, <3>5
  <2> DEFINE len == Len(symbols[h].params)
  <2>4. /\ sy1[h].name = CF /\ sy1[h].kind = symbols[h].kind /\ sy1[h].type = symbols[h].type
        /\ sy1[h].path = symbols[h].path /\ sy1[h].info = h /\ len \in Nat
        /\ Len(sy1[h].params) = len + 1 /\ sy1[h].params[len + 1] = t
        /\ \A i \in 1..len : sy1[h].params[i] = symbols[h].params[i]
    <3>1. symbols[h].params \in Seq(VariableTypes)
      BY <2>1 DEF Symbols
    <3>2. sy1[h].params = Append(symbols[h].params, t)
      BY <2>1, <2>3 DEF Symbols
    <3>3. /\ sy1[h].name = symbols[h].name /\ sy1[h].kind = symbols[h].kind
          /\ sy1[h].type = symbols[h].type /\ sy1[h].path = symbols[h].path
          /\ sy1[h].info = symbols[h].info
      <4> HIDE DEF sy1, h
      <4> QED
        BY <2>1, <2>3 DEF Symbols
    <3> HIDE DEF sy1, h
    <3> QED
      BY <2>1, <3>1, <3>2, <3>3
  <2>5. /\ new \in Symbols /\ new.name = n /\ n # CF /\ new.kind = "VARIABLE" /\ new.type = t
        /\ new.info = 0 /\ new.path = Path(Len(visits))
    <3>1. t \in DataTypes /\ Len(visits) \in 0..Len(visits) /\ n \in Identifiers /\ n # CF
      BY PBasics, NotHelper DEF VariableTypes, DataTypes
    <3> QED
      BY <3>1, PBasics, NewSymbol DEF Symbol
  <2> HIDE DEF sy1, new
  <2>6. Len(sy) = L + 1 /\ sy[L + 1] = new /\ \A s \in 1..L : sy[s] = sy1[s]
    BY <2>1, <2>3, <2>5
  <2> HIDE DEF sy
  <2>7. \A s \in 1..L :
          /\ sy[s].name = symbols[s].name /\ sy[s].kind = symbols[s].kind
          /\ sy[s].type = symbols[s].type /\ sy[s].path = symbols[s].path
          /\ sy[s].info = symbols[s].info
          /\ s # h => sy[s].params = symbols[s].params
    <3> SUFFICES ASSUME NEW s \in 1..L
                 PROVE  /\ sy[s].name = symbols[s].name /\ sy[s].kind = symbols[s].kind
                        /\ sy[s].type = symbols[s].type /\ sy[s].path = symbols[s].path
                        /\ sy[s].info = symbols[s].info
                        /\ s # h => sy[s].params = symbols[s].params
      OBVIOUS
    <3>1. CASE s = h
      BY <2>1, <2>4, <2>6, <3>1
    <3>2. CASE s # h
      BY <2>3, <2>6, <3>2
    <3> QED
      BY <3>1, <3>2
  <2> HIDE DEF h
  <2>8. \A s \in 1..L + 1 : s = L + 1 \/ s \in 1..L
    BY <2>1
  <2>9. SameHomes(symbols, sy)
    BY <2>1, <2>5, <2>6, <2>7, <2>8 DEF SameHomes
  <2>10. \A s \in 1..L : Home(sy[s]) = Home(symbols[s])
                         /\ (AsParameter(sy[s]) <=> AsParameter(symbols[s]))
    BY <2>7 DEF Home, AsParameter
  <2>11. /\ Home(new).id = Top.id /\ Home(new).id \in 0..visited /\ AsParameter(new)
    <3>1. /\ Home(new).id = Top.id /\ Home(new).id \in 0..visited
          /\ Home(new).kind = Top.kind /\ Home(new).at = Top.at
      BY <2>5, PBasics, HomeOf
    <3> QED
      BY <1>2, <2>5, <3>1 DEF AsParameter
  <2>12. /\ Numbered(visits, visited) /\ Homes(symbols, visited) /\ Headed(visits, symbols)
         /\ Lists(symbols) /\ Owned(symbols) /\ Growing(Top, symbols)
    BY PBasics DEF PRest, Placed, Tables
  <2>13. Home(symbols[h]).id = Top.id
    BY <1>2, <2>12, PBasics DEF Headed, Functions, h
  <2>14. L = h + len
    BY <1>2, <2>12 DEF Growing, Listing, h
  <2>15. w \in Visits /\ GoesOn(Top, w) /\ w.symbol = Top.symbol
    BY <1>1, PBasics, GivesOn
  <2> HIDE DEF w
  <2>16. Numbered(us, visited) /\ Headed(us, sy)
    BY <2>9, <2>12, <2>15, PBasics, LastGoesOn
  <2>17. Top' = w
    <3>1. visits' = us /\ Len(us) = Len(visits) /\ us[Len(visits)] = w
      BY <1>1, PBasics DEF WithTop
    <3> QED
      BY <3>1 DEF Top
  <2>18. visits' = us
    BY <1>1 DEF WithTop
  <2> HIDE DEF us
  <2>19. Homes(sy, visited)
    BY <2>6, <2>8, <2>10, <2>11, <2>12 DEF Homes
  <2>20. Len(sy[h].params) = len + 1 /\ len \in Nat
    BY <2>1, <2>4, <2>6
  <2>21. Growing(w, sy)
    BY <2>1, <2>6, <2>14, <2>15, <2>20 DEF Growing, h
  <2>22. \A g \in 1..L + 1 : sy[g].name = CF => g \in 1..L /\ symbols[g].name = CF
    BY <2>5, <2>6, <2>7, <2>8
  <2>23. Lists(sy)
    <3> SUFFICES ASSUME NEW g \in 1..L + 1, sy[g].name = CF
                 PROVE  /\ g + Len(sy[g].params) <= L + 1
                        /\ \A s \in 1..L + 1 : AsParameter(sy[s]) /\ Home(sy[s]).id = Home(sy[g]).id
                             <=> g < s /\ s <= g + Len(sy[g].params)
                        /\ \A i \in 1..Len(sy[g].params) : sy[g].params[i] = sy[g + i].type
      BY <2>6 DEF Lists
    <3> DEFINE old == Len(symbols[g].params)
    <3>1. /\ g \in 1..L /\ symbols[g].name = CF /\ old \in Nat
      <4>1. g \in 1..L /\ symbols[g].name = CF
        BY <2>22
      <4>2. symbols[g] \in Symbols
        BY <4>1, PBasics
      <4> QED
        BY <4>1, <4>2 DEF Symbols
    <3>2. /\ g + old <= L
          /\ \A s \in 1..L : AsParameter(symbols[s]) /\ Home(symbols[s]).id = Home(symbols[g]).id
               <=> g < s /\ s <= g + old
          /\ \A i \in 1..old : symbols[g].params[i] = symbols[g + i].type
      BY <2>12, <3>1 DEF Lists
    <3>3. \A i \in 1..old : g + i \in 1..L
      BY <2>1, <3>1, <3>2
    <3>4. Home(sy[g]) = Home(symbols[g])
      BY <2>10, <3>1
    <3>5. CASE g = h
      <4> DEFINE more == Len(sy[h].params)
      <4>1. more = len + 1 /\ old = len
        BY <2>20, <3>5
      <4>2. ASSUME NEW s \in 1..L + 1
            PROVE  AsParameter(sy[s]) /\ Home(sy[s]).id = Home(sy[g]).id
                     <=> g < s /\ s <= g + more
        <5>1. CASE s = L + 1
          BY <2>1, <2>6, <2>11, <2>13, <2>14, <2>20, <3>4, <3>5, <4>1, <5>1
        <5>2. CASE s \in 1..L
          <6>1. s <= h + more /\ s <= h + old
            <7> HIDE DEF more, old, len
            <7> QED
              BY <2>1, <2>14, <2>20, <4>1, <5>2
          <6> HIDE DEF more, old
          <6> QED
            BY <2>10, <3>2, <3>4, <3>5, <5>2, <6>1
        <5> QED
          BY <2>8, <5>1, <5>2
      <4>3. ASSUME NEW i \in 1..more
            PROVE  sy[h].params[i] = sy[h + i].type
        <5>1. i = len + 1 \/ i \in 1..len
          BY <2>20, <4>1
        <5>2. sy[h] = sy1[h]
          BY <2>1, <2>6
        <5>3. CASE i = len + 1
          <6>1. h + i = L + 1
            BY <2>1, <2>14, <2>20, <5>3
          <6> QED
            BY <2>4, <2>5, <2>6, <5>2, <5>3, <6>1
        <5>4. CASE i \in 1..len
          <6>1. symbols[h].params[i] = symbols[h + i].type /\ h + i \in 1..L
            BY <3>2, <3>3, <3>5, <4>1, <5>4
          <6> QED
            BY <2>4, <2>7, <5>2, <5>4, <6>1
        <5> QED
          BY <5>1, <5>3, <5>4
      <4>4. g + more <= L + 1
        BY <2>1, <2>14, <2>20, <3>5, <4>1
      <4> QED
        BY <3>5, <4>2, <4>3, <4>4
    <3>6. CASE g # h
      <4>1. sy[g].params = symbols[g].params
        BY <2>7, <3>1, <3>6
      <4>2. Home(symbols[g]).id # Top.id
        BY <2>1, <2>12, <2>13, <3>1, <3>6 DEF Owned
      <4>3. ASSUME NEW s \in 1..L + 1
            PROVE  AsParameter(sy[s]) /\ Home(sy[s]).id = Home(sy[g]).id
                     <=> g < s /\ s <= g + old
        <5>1. CASE s = L + 1
          BY <2>1, <2>6, <2>11, <3>1, <3>2, <3>4, <4>2, <5>1
        <5>2. CASE s \in 1..L
          BY <2>10, <3>2, <3>4, <5>2
        <5> QED
          BY <2>8, <5>1, <5>2
      <4>4. \A i \in 1..old : symbols[g].params[i] = sy[g + i].type
        BY <2>7, <3>2, <3>3
      <4>5. g + old <= L + 1
        BY <2>1, <3>1, <3>2
      <4> QED
        BY <4>1, <4>3, <4>4, <4>5
    <3> QED
      BY <3>5, <3>6
  <2>24. Owned(sy)
    <3>1. ASSUME NEW s \in 1..L + 1, AsParameter(sy[s])
          PROVE  \E g \in 1..L + 1 : sy[g].name = CF /\ Home(sy[g]).id = Home(sy[s]).id
      <4>1. CASE s = L + 1
        <5>1. h \in 1..L + 1 /\ sy[h].name = CF /\ Home(sy[h]).id = Top.id
          BY <2>1, <2>7, <2>10, <2>13
        <5> QED
          BY <2>6, <2>11, <4>1, <5>1
      <4>2. CASE s \in 1..L
        <5>1. AsParameter(symbols[s])
          BY <2>10, <3>1, <4>2
        <5>2. PICK g \in 1..L : symbols[g].name = CF /\ Home(symbols[g]).id = Home(symbols[s]).id
          BY <2>12, <4>2, <5>1 DEF Owned
        <5>3. g \in 1..L + 1
          BY <2>1
        <5> QED
          BY <2>7, <2>10, <4>2, <5>2, <5>3
      <4> QED
        BY <2>8, <4>1, <4>2
    <3>2. ASSUME NEW f \in 1..L + 1, NEW g \in 1..L + 1, sy[f].name = CF, sy[g].name = CF,
                 Home(sy[f]).id = Home(sy[g]).id
          PROVE  f = g
      <4>1. f \in 1..L /\ g \in 1..L /\ symbols[f].name = CF /\ symbols[g].name = CF
        BY <2>22, <3>2
      <4>2. Home(symbols[f]).id = Home(symbols[g]).id
        BY <2>10, <3>2, <4>1
      <4> QED
        BY <2>12, <4>1, <4>2 DEF Owned
    <3>3. ASSUME NEW f \in 1..L + 1, sy[f].info # 0
          PROVE  sy[sy[f].info].name = CF
      <4>1. f \in 1..L
        BY <2>5, <2>6, <2>8, <3>3
      <4>2. sy[f].info = symbols[f].info /\ symbols[symbols[f].info].name = CF
        BY <2>7, <2>12, <3>3, <4>1 DEF Owned
      <4>3. symbols[f].info \in 0..L
        BY <4>1, PBasics, LBasics DEF TablesInv
      <4>4. symbols[f].info \in 1..L
        BY <2>1, <3>3, <4>2, <4>3
      <4> QED
        BY <2>7, <4>2, <4>4
    <3> QED
      BY <2>6, <3>1, <3>2, <3>3 DEF Owned
  <2> QED
    BY <1>1, <2>2, <2>16, <2>17, <2>18, <2>19, <2>21, <2>23, <2>24 DEF PRest, Placed, Tables
<1> QED
  BY <1>4, <1>5

-----------------------------------------------------------------------------
LEMMA PStarts == Init => PInv
<1> SUFFICES ASSUME Init
             PROVE  PInv
  OBVIOUS
<1> DEFINE v == [kind |-> "program", id |-> 0, name |-> NoName, type |-> "NONE", at |-> 1,
                 symbol |-> 0, vals |-> <<>>, base |-> 1]
<1>1. /\ visits = <<v>> /\ symbols = <<>> /\ visited = 0 /\ v.id = 0 /\ v.kind = "program"
  BY DEF Init
<1> HIDE DEF v
<1>2. Len(visits) = 1 /\ visits[1] = v /\ Len(symbols) = 0 /\ Top = v
  BY <1>1 DEF Top
<1>3. Numbered(visits, visited) /\ Homes(symbols, visited) /\ Headed(visits, symbols)
  BY <1>1, <1>2 DEF Numbered, Homes, Headed, Functions
<1>4. Lists(symbols) /\ Owned(symbols)
  BY <1>2 DEF Lists, Owned
<1>5. Growing(Top, symbols)
  BY <1>1, <1>2 DEF Growing, Listing
<1> QED
  BY <1>3, <1>4, <1>5, LStarts DEF PInv, Placed, Tables

LEMMA PSteady == PInv /\ [Next]_vars => PInv'
<1> SUFFICES ASSUME PInv, [Next]_vars
             PROVE  PInv'
  OBVIOUS
<1>1. LInv'
  BY LSteady DEF PInv
<1>2. PRest'
  <2>1. CASE UNCHANGED vars
    BY <2>1, PBasics DEF vars, PRest, Placed, Tables, Top
  <2>2. CASE accept
    BY <2>2, AcceptsVisit
  <2>3. CASE EndOfList
    BY <2>3, EndsList
  <2>4. CASE Return
    BY <2>4, ReturnsBack
  <2>5. CASE symbol_table_add_scope \/ symbol_table_remove_scope
    BY <2>5, OpensOrCloses
  <2>6. CASE create_new_variable \/ DeclareFunction
    BY <2>6, DeclaresAName
  <2>7. CASE DeclareHelper
    BY <2>7, DeclaresAHelper
  <2>8. CASE parameter
    BY <2>8, ListsParameter
  <2>9. CASE PublishParameters
    BY <2>9, PublishesInfo
  <2>10. CASE FindVariable \/ FindFunction \/ Identifier \/ Literal \/ StringLiteral
    BY <2>10, UsesNames
  <2> QED
    BY <2>1, <2>2, <2>3, <2>4, <2>5, <2>6, <2>7, <2>8, <2>9, <2>10 DEF Next
<1> QED
  BY <1>1, <1>2 DEF PInv, PRest

(* Whatever is declared before, inside and behind a function, also when a   *)
(* parameter is refused as a duplicate, the FunctionInfo its calls are      *)
(* checked against lists the types of exactly its parameters, in order.     *)
THEOREM InfosListParameters == Spec => []ParametersRecorded
<1>1. PInv => ParametersRecorded
  <2> SUFFICES ASSUME PInv, NEW f \in DOMAIN symbols, symbols[f].info # 0
               PROVE  LET h == symbols[f].info
                      IN  /\ {s \in DOMAIN symbols : IsParameterOf(s, h)}
                               = h + 1 .. h + Len(symbols[h].params)
                          /\ \A i \in DOMAIN symbols[h].params :
                               symbols[h].params[i] = symbols[h + i].type
    BY DEF ParametersRecorded
  <2> DEFINE h   == symbols[f].info
             len == Len(symbols[h].params)
  <2>1. symbols \in Seq(Symbols) /\ Len(symbols) \in Nat /\ f \in 1..Len(symbols)
    BY PBasics
  <2>2. h \in 1..Len(symbols) /\ symbols[h].name = CF
    <3>1. h \in 0..Len(symbols) /\ symbols[h].name = CF
      BY <2>1, PBasics, LBasics DEF TablesInv, PRest, Tables, Owned
    <3> QED
      BY <2>1, <3>1
  <2> HIDE DEF h
  <2>3. symbols[h].params \in Seq(VariableTypes) /\ len \in Nat
    <3>1. symbols[h] \in Symbols
      BY <2>1, <2>2
    <3>2. symbols[h].params \in Seq(VariableTypes)
      BY <3>1 DEF Symbols
    <3> QED
      BY <3>2
  <2>4. /\ h + len <= Len(symbols)
        /\ \A s \in 1..Len(symbols) : AsParameter(symbols[s]) /\ Home(symbols[s]).id = Home(symbols[h]).id
             <=> h < s /\ s <= h + len
        /\ \A i \in 1..len : symbols[h].params[i] = symbols[h + i].type
    BY <2>2, PBasics DEF PRest, Tables, Lists
  <2>5. \A s \in 1..Len(symbols) :
          IsParameterOf(s, h) <=> AsParameter(symbols[s]) /\ Home(symbols[s]).id = Home(symbols[h]).id
    BY <2>1 DEF IsParameterOf, AsParameter, Home
  <2>6. {s \in DOMAIN symbols : IsParameterOf(s, h)} = h + 1 .. h + len
    <3>1. \A s \in 1..Len(symbols) : IsParameterOf(s, h) <=> s \in h + 1 .. h + len
      <4>1. \A s \in 1..Len(symbols) : s \in h + 1 .. h + len <=> h < s /\ s <= h + len
        <5> HIDE DEF len
        <5> QED
          BY <2>2, <2>3
      <4> HIDE DEF len
      <4> QED
        BY <2>4, <2>5, <4>1
    <3>2. \A s \in h + 1 .. h + len : s \in 1..Len(symbols)
      BY <2>1, <2>2, <2>3, <2>4
    <3> QED
      BY <2>1, <3>1, <3>2
  <2>7. DOMAIN symbols[h].params = 1..len
    BY <2>3
  <2> QED
    BY <2>4, <2>6, <2>7 DEF h
<1>2. Spec => []PInv
  BY PStarts, PSteady, PTL DEF Spec
<1> QED
  BY <1>1, <1>2, PTL

=============================================================================
