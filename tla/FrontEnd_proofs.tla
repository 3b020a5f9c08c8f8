---------------------------- MODULE FrontEnd_proofs ----------------------------
(***************************************************************************)
(* For every grammar: the states are the canonical collection, FOLLOW is    *)
(* exact, and every cell of the tables holds what the items of its state    *)
(* call for.  So, whatever the program is, a rule is only reduced when its  *)
(* right side is on top of the stack, an error after the first token can be *)
(* reported, and a program is accepted with a tree derived from all of it.  *)
(* Without conflicts, no program of the language is refused.                *)
(*                                                                         *)
(* The loops of the generator are recursive functions; what they compute is *)
(* proved by unrolling them: StepsOn is what one pass may do, Runs is the    *)
(* whole run, and Unrolled says that there is one.                          *)
(***************************************************************************)
EXTENDS Derivations, FiniteSetTheorems, NaturalsInduction, WellFoundedInduction, TLAPS

(* Sets of numbers, and loops *)

LEMMA Smallest ==
    ASSUME NEW J, J \subseteq Nat, J # {}
    PROVE  \E j \in J : \A i \in J : j <= i
<1>1. PICK j \in J : \A u \in J : ~ (<<u, j>> \in OpToRel(<, Nat))
  BY NatLessThanWellFounded, WFMin
<1>2. ASSUME NEW i \in J PROVE j <= i
  <2>1. i \in Nat /\ j \in Nat /\ ~ (i < j)
    BY <1>1 DEF OpToRel
  <2> QED BY <2>1
<1> QED BY <1>2

LEMMA Counted ==
    ASSUME NEW n \in Nat, NEW I, 0 \in I, \A k \in 0..n - 1 : k \in I => k + 1 \in I
    PROVE  0..n \subseteq I
<1> DEFINE J == {k \in 0..n : k \notin I}
<1>1. SUFFICES ASSUME J # {} PROVE FALSE
  OBVIOUS
<1>2. PICK j \in J : \A i \in J : j <= i
  <2>1. J \subseteq Nat
    OBVIOUS
  <2> HIDE DEF J
  <2> QED BY <1>1, <2>1, Smallest
<1>3. j \in 0..n /\ j # 0 /\ j \notin I
  OBVIOUS
<1>4. j - 1 \in 0..n - 1 /\ j - 1 \notin J
  BY <1>2, <1>3
<1>5. j - 1 \in I /\ (j - 1) + 1 = j
  BY <1>3, <1>4
<1> QED BY <1>3, <1>4, <1>5

LEMMA Reached ==
    ASSUME NEW n \in Nat, NEW I, 0 \in I, \A k \in 1..n : k - 1 \in I => k \in I
    PROVE  n \in I
<1>1. ASSUME NEW k \in 0..n - 1, k \in I PROVE k + 1 \in I
  <2>1. k + 1 \in 1..n /\ (k + 1) - 1 = k
    OBVIOUS
  <2> QED BY <1>1, <2>1
<1>2. 0..n \subseteq I
  BY <1>1, Counted
<1> QED BY <1>2

(* A loop of n steps, each of which stays in a set.  Named, since facts     *)
(* about sets of functions are not found by the provers.                    *)
StepsOn(S, n, step) == step \in [1..n -> [S -> S]]

Runs(g, S, n, start, step) ==
    /\ g \in [0..n -> S] /\ g[0] = start
    /\ \A k \in 1..n : g[k] = step[k][g[k - 1]]

LEMMA Unrolled ==
    ASSUME NEW S, NEW n \in Nat, NEW start \in S, NEW step, StepsOn(S, n, step)
    PROVE  \E g : Runs(g, S, n, start, step)
<1> DEFINE I == {m \in 0..n : \E g : Runs(g, S, m, start, step)}
<1>1. 0 \in I
  <2> DEFINE g == [k \in 0..0 |-> start]
  <2>1. g \in [0..0 -> S] /\ g[0] = start /\ \A k \in 1..0 : g[k] = step[k][g[k - 1]]
    OBVIOUS
  <2> HIDE DEF g
  <2>2. Runs(g, S, 0, start, step)
    BY <2>1 DEF Runs
  <2> QED BY <2>2
<1>2. ASSUME NEW m \in 0..n - 1, m \in I PROVE m + 1 \in I
  <2>1. PICK g : Runs(g, S, m, start, step)
    BY <1>2
  <2> DEFINE h == [k \in 0..m + 1 |-> IF k = m + 1 THEN step[m + 1][g[m]] ELSE g[k]]
  <2>2. g \in [0..m -> S] /\ g[0] = start /\ \A k \in 1..m : g[k] = step[k][g[k - 1]]
    BY <2>1 DEF Runs
  <2>3. m + 1 \in 1..n /\ step[m + 1] \in [S -> S] /\ g[m] \in S
    BY <2>2 DEF StepsOn
  <2>4. step[m + 1][g[m]] \in S
    BY <2>3
  <2>5. h \in [0..m + 1 -> S] /\ h[0] = start
    BY <2>2, <2>4
  <2>6. ASSUME NEW k \in 1..m + 1 PROVE h[k] = step[k][h[k - 1]]
    <3>1. k - 1 \in 0..m /\ h[k - 1] = g[k - 1]
      OBVIOUS
    <3>2. CASE k = m + 1
      BY <3>1, <3>2
    <3>3. CASE k # m + 1
      BY <3>1, <3>3, <2>2
    <3> QED BY <3>2, <3>3
  <2> HIDE DEF h
  <2>7. Runs(h, S, m + 1, start, step)
    BY <2>5, <2>6 DEF Runs
  <2>8. m + 1 \in 0..n
    BY <1>2
  <2> QED BY <2>7, <2>8
<1>3. n \in I
  <2> HIDE DEF I
  <2>1. 0..n \subseteq I
    BY <1>1, <1>2, Counted
  <2> QED BY <2>1
<1> QED BY <1>3

LEMMA Greatest ==
    ASSUME NEW b \in Nat, NEW J, J \subseteq 0..b, J # {}
    PROVE  \E j \in J : \A i \in J : i <= j
<1> DEFINE K == {b - j : j \in J}
<1>1. K \subseteq Nat /\ K # {}
  <2>1. ASSUME NEW j \in J PROVE b - j \in Nat
    <3>1. j \in 0..b
      OBVIOUS
    <3> QED BY <3>1
  <2>2. K # {}
    OBVIOUS
  <2> QED BY <2>1, <2>2
<1>2. PICK m \in K : \A i \in K : m <= i
  <2> HIDE DEF K
  <2> QED BY <1>1, Smallest
<1>3. PICK j \in J : m = b - j
  OBVIOUS
<1>4. ASSUME NEW i \in J PROVE i <= j
  <2>1. b - i \in K /\ i \in 0..b /\ j \in 0..b
    OBVIOUS
  <2>2. b - j <= b - i
    BY <1>2, <1>3, <2>1
  <2> QED BY <2>1, <2>2
<1> QED BY <1>4

(* The n-th of a set, from above. *)
HasRanked(T, n) == \E r \in T : Cardinality({q \in T : q >= r}) = n

LEMMA Ranked ==
    ASSUME NEW b \in Nat, NEW T, T \subseteq 0..b, NEW n \in 1..Cardinality(T)
    PROVE  HasRanked(T, n)
<1>1. IsFiniteSet(T) /\ Cardinality(T) \in Nat
  <2>1. IsFiniteSet(0..b)
    BY FS_Interval
  <2>2. IsFiniteSet(T)
    BY <2>1, FS_Subset
  <2> QED BY <2>2, FS_CardinalityType
<1> DEFINE Above(r) == {q \in T : q >= r}
           I == {m \in 0..n - 1 : \E r \in T : Cardinality(Above(r)) = m + 1}
<1>2. ASSUME NEW U \in SUBSET T, U # T, \A u \in U, q \in T : q >= u => q \in U
      PROVE  \E r \in T : Above(r) = U \cup {r} /\ r \notin U
  <2>1. T \ U \subseteq 0..b /\ T \ U # {}
    BY <1>2
  <2>2. PICK r \in T \ U : \A i \in T \ U : i <= r
    <3> DEFINE W == T \ U
    <3> HIDE DEF W
    <3>1. \E j \in W : \A i \in W : i <= j
      BY <2>1, Greatest DEF W
    <3> QED BY <3>1 DEF W
  <2>3. ASSUME NEW q \in T PROVE q >= r <=> q \in U \cup {r}
    <3>1. q \in 0..b /\ r \in 0..b
      OBVIOUS
    <3>2. CASE q \in U
      <4>1. r >= q => r \in U
        BY <1>2, <3>2
      <4> QED BY <4>1, <2>2, <3>1, <3>2
    <3>3. CASE q \notin U
      BY <3>3, <3>1, <2>2
    <3> QED BY <3>2, <3>3
  <2>4. Above(r) = U \cup {r}
    BY <2>3, <1>2
  <2> QED BY <2>4
<1>3. 0 \in I
  <2>1. T # {}
    BY <1>1, FS_EmptySet
  <2>2. PICK r \in T : Above(r) = {} \cup {r}
    BY <2>1, <1>2
  <2> DEFINE A == Above(r)
  <2>3. A = {r}
    BY <2>2
  <2>4. Cardinality(A) = 1
    <3> HIDE DEF A
    <3> QED BY <2>3, FS_Singleton
  <2> QED BY <2>4
<1>4. ASSUME NEW m \in 0..(n - 1) - 1, m \in I PROVE m + 1 \in I
  <2>1. PICK r \in T : Cardinality(Above(r)) = m + 1
    BY <1>4
  <2> DEFINE U == Above(r)
  <2>2. U \in SUBSET T /\ \A u \in U, q \in T : q >= u => q \in U
    OBVIOUS
  <2>3. U # T
    BY <2>1
  <2>4. IsFiniteSet(U)
    BY <1>1, FS_Subset
  <2>5. PICK p \in T : Above(p) = U \cup {p} /\ p \notin U
    <3> HIDE DEF U
    <3> QED BY <2>2, <2>3, <1>2
  <2>6. Cardinality(Above(p)) = (m + 1) + 1
    <3>1. Cardinality(U \cup {p}) = Cardinality(U) + 1
      <4> HIDE DEF U
      <4> QED BY <2>4, <2>5, FS_AddElement
    <3> QED BY <3>1, <2>1, <2>5
  <2>7. m + 1 \in 0..n - 1
    OBVIOUS
  <2> QED BY <2>6, <2>7
<1>5. n - 1 \in I
  <2> HIDE DEF I
  <2>1. 0..n - 1 \subseteq I
    BY <1>3, <1>4, Counted
  <2> QED BY <2>1
<1>6. PICK r \in T : Cardinality(Above(r)) = (n - 1) + 1
  BY <1>5
<1> QED BY <1>6 DEF HasRanked
-----------------------------------------------------------------------------
(* The lists of the generator *)
-----------------------------------------------------------------------------
(* Lists, in which nothing is twice, as sets *)

LEMMA InSequence ==
    ASSUME NEW S, NEW s \in Seq(S)
    PROVE  /\ Len(s) \in Nat /\ DOMAIN s = 1..Len(s)
           /\ \A i \in 1..Len(s) : s[i] \in S
           /\ s # <<>> => Len(s) # 0
OBVIOUS

LEMMA IsSequenceOf ==
    ASSUME NEW S, NEW T, NEW s \in Seq(S), \A i \in 1..Len(s) : s[i] \in T
    PROVE  s \in Seq(T)
OBVIOUS

LEMMA AppendSequence ==
    ASSUME NEW S, NEW s \in Seq(S), NEW e \in S
    PROVE  /\ Append(s, e) \in Seq(S) /\ Len(Append(s, e)) = Len(s) + 1
           /\ Append(s, e)[Len(s) + 1] = e
           /\ \A m \in 1..Len(s) : Append(s, e)[m] = s[m]
OBVIOUS

Distinct(s) == \A i, j \in 1..Len(s) : s[i] = s[j] => i = j

LEMMA ElementsOf ==
    ASSUME NEW S, NEW s \in Seq(S)
    PROVE  /\ ToSet(s) = {s[i] : i \in 1..Len(s)} /\ ToSet(s) \subseteq S
           /\ \A e : Contains(s, e) <=> e \in ToSet(s)
BY DEF ToSet, Contains

LEMMA ElementsAppended ==
    ASSUME NEW S, NEW s \in Seq(S), NEW e \in S
    PROVE  /\ ToSet(Append(s, e)) = ToSet(s) \cup {e}
           /\ Distinct(s) /\ e \notin ToSet(s) => Distinct(Append(s, e))
<1> DEFINE t == Append(s, e)
           n == Len(s)
<1>1. /\ t \in Seq(S) /\ Len(t) = n + 1 /\ t[n + 1] = e /\ n \in Nat
      /\ \A m \in 1..n : t[m] = s[m]
  BY AppendSequence
<1>2. ToSet(s) = {s[i] : i \in 1..n} /\ ToSet(t) = {t[i] : i \in 1..n + 1}
  BY <1>1, ElementsOf
<1> HIDE DEF t, n
<1>3. ToSet(t) = ToSet(s) \cup {e}
  <2>1. ASSUME NEW x \in ToSet(t) PROVE x \in ToSet(s) \cup {e}
    <3>1. PICK i \in 1..n + 1 : t[i] = x
      BY <1>2
    <3>2. CASE i = n + 1
      BY <3>1, <3>2, <1>1
    <3>3. CASE i # n + 1
      <4>1. i \in 1..n
        BY <3>3, <1>1
      <4> QED BY <3>1, <4>1, <1>1, <1>2
    <3> QED BY <3>2, <3>3
  <2>2. ASSUME NEW x \in ToSet(s) PROVE x \in ToSet(t)
    <3>1. PICK i \in 1..n : s[i] = x
      BY <1>2
    <3>2. i \in 1..n + 1
      BY <1>1
    <3> QED BY <3>1, <3>2, <1>1, <1>2
  <2>3. e \in ToSet(t)
    <3>1. n + 1 \in 1..n + 1
      BY <1>1
    <3> QED BY <3>1, <1>1, <1>2
  <2> QED BY <2>1, <2>2, <2>3
<1>4. ASSUME Distinct(s), e \notin ToSet(s) PROVE Distinct(t)
  <2> SUFFICES ASSUME NEW i \in 1..n + 1, NEW j \in 1..n + 1, t[i] = t[j] PROVE i = j
    BY <1>1 DEF Distinct
  <2>1. CASE i = n + 1 /\ j = n + 1
    BY <2>1
  <2>2. CASE i \in 1..n /\ j \in 1..n
    BY <2>2, <1>1, <1>4 DEF Distinct, n
  <2>3. CASE i = n + 1 /\ j \in 1..n
    BY <2>3, <1>1, <1>2, <1>4
  <2>4. CASE i \in 1..n /\ j = n + 1
    BY <2>4, <1>1, <1>2, <1>4
  <2> QED BY <2>1, <2>2, <2>3, <2>4, <1>1
<1> QED BY <1>3, <1>4 DEF t

LEMMA ElementsFinite ==
    ASSUME NEW S, NEW s \in Seq(S)
    PROVE  IsFiniteSet(ToSet(s))
<1> DEFINE T == ToSet(s)
           n == Len(s)
           f == [i \in 1..n |-> s[i]]
<1>1. n \in Nat /\ T = {s[i] : i \in 1..n}
  BY ElementsOf
<1>2. f \in Surjection(1..n, T)
  BY <1>1 DEF Surjection
<1>3. ExistsSurjection(1..n, T)
  BY <1>2 DEF ExistsSurjection
<1> HIDE DEF T, n
<1> QED BY <1>1, <1>3, FS_NatSurjection DEF T

LEMMA DistinctCounted ==
    ASSUME NEW S, NEW s \in Seq(S), Distinct(s)
    PROVE  IsFiniteSet(ToSet(s)) /\ Cardinality(ToSet(s)) = Len(s)
<1> DEFINE T == ToSet(s)
           n == Len(s)
           f == [i \in 1..n |-> s[i]]
<1>1. n \in Nat /\ T = {s[i] : i \in 1..n}
  BY ElementsOf
<1>2. f \in Surjection(1..n, T) /\ f \in Injection(1..n, T)
  BY <1>1 DEF Surjection, Injection, Distinct, IsInjective
<1>3. ExistsBijection(1..n, T)
  BY <1>2 DEF ExistsBijection, Bijection
<1> HIDE DEF T, n
<1>4. Cardinality(T) = n
  BY <1>1, <1>3, FS_CountingElements
<1>5. IsFiniteSet(T)
  BY <1>1, <1>3, FS_NatBijection
<1> QED BY <1>4, <1>5 DEF T, n

(* Lists that are told apart by what is in them. *)
LEMMA EqualStates ==
    ASSUME NEW S, NEW s \in Seq(S), NEW t \in Seq(S), Distinct(s), Distinct(t)
    PROVE  state_equals(s, t) <=> ToSet(s) = ToSet(t)
<1> DEFINE A == ToSet(s)
           B == ToSet(t)
<1>1. IsFiniteSet(A) /\ IsFiniteSet(B) /\ Cardinality(A) = Len(s) /\ Cardinality(B) = Len(t)
  BY DistinctCounted
<1>2. state_equals(s, t) <=> Len(s) = Len(t) /\ A \subseteq B
  BY DEF state_equals
<1> HIDE DEF A, B
<1>3. A \subseteq B /\ Cardinality(A) = Cardinality(B) => A = B
  BY <1>1, FS_Subset
<1>4. state_equals(s, t) <=> A = B
  BY <1>1, <1>2, <1>3
<1> QED BY <1>4 DEF A, B

-----------------------------------------------------------------------------
(* The lists of the generator *)

(* The items: no dot is behind the end of its rule. *)
Item == (1..Len(rules)) \X Nat
Proper(S) == \A i \in S : i \in Item /\ i[2] <= Len(rules[i[1]].right)

Begins(R) == {<<r, 0>> : r \in R}

LEMMA RulesPopped ==
    ASSUME Len(rules) \in Nat, NEW A
    PROVE  /\ get_all_nonterminals_rule(A) \in Seq(1..Len(rules))
           /\ Distinct(get_all_nonterminals_rule(A))
           /\ ToSet(get_all_nonterminals_rule(A)) = RulesOf(A)
<1> DEFINE all == RulesOf(A)
           Above(r) == {q \in all : q >= r}
           f == get_all_nonterminals_rule(A)
           m == Cardinality(all)
<1>1. all \subseteq 1..Len(rules) /\ all \subseteq 0..Len(rules)
  <2>1. all \subseteq 1..Len(rules)
    BY DEF RulesOf
  <2>2. 1..Len(rules) \subseteq 0..Len(rules)
    OBVIOUS
  <2> HIDE DEF all
  <2> QED BY <2>1, <2>2
<1>2. IsFiniteSet(all) /\ m \in Nat
  <2>1. IsFiniteSet(0..Len(rules))
    BY FS_Interval
  <2> HIDE DEF all
  <2> QED BY <1>1, <2>1, FS_Subset, FS_CardinalityType
<1>3. f = [n \in 1..m |-> CHOOSE r \in all : Cardinality(Above(r)) = n]
  BY DEF get_all_nonterminals_rule
<1> HIDE DEF all, f, m
<1>4. ASSUME NEW n \in 1..m PROVE f[n] \in all /\ Cardinality(Above(f[n])) = n
  <2>1. HasRanked(all, n)
    BY <1>1, Ranked DEF m
  <2>2. \E r \in all : Cardinality(Above(r)) = n
    BY <2>1 DEF HasRanked
  <2>3. f[n] = CHOOSE r \in all : Cardinality(Above(r)) = n
    BY <1>3
  <2> HIDE DEF Above
  <2> QED BY <2>2, <2>3
<1>5. \A r \in all : IsFiniteSet(Above(r)) /\ Cardinality(Above(r)) \in 1..m
  <2> SUFFICES ASSUME NEW r \in all
               PROVE  IsFiniteSet(Above(r)) /\ Cardinality(Above(r)) \in 1..m
    OBVIOUS
  <2> DEFINE U == Above(r)
  <2>1. U \subseteq all /\ r \in U
    BY <1>1
  <2> HIDE DEF U
  <2>2. IsFiniteSet(U) /\ Cardinality(U) <= m /\ Cardinality(U) \in Nat
    BY <1>2, <2>1, FS_Subset, FS_CardinalityType DEF m
  <2>3. Cardinality(U) # 0
    BY <2>1, <2>2, FS_EmptySet
  <2> QED BY <1>2, <2>2, <2>3 DEF U
<1>6. ASSUME NEW r \in all, NEW s \in all, r < s
      PROVE  Cardinality(Above(r)) # Cardinality(Above(s))
  <2> DEFINE U == Above(r)
             V == Above(s)
  <2>1. \A q \in all : q \in 1..Len(rules)
    BY <1>1
  <2>4. ASSUME NEW q \in V PROVE q \in U
    BY <2>1, <1>6
  <2>5. r \in U /\ r \notin V
    BY <2>1, <1>6
  <2>6. V \subseteq U
    <3> HIDE DEF U, V
    <3> QED BY <2>4
  <2>2. IsFiniteSet(U)
    BY <1>5
  <2> HIDE DEF U, V
  <2>3. Cardinality(U) # Cardinality(V)
    BY <2>2, <2>5, <2>6, FS_Subset
  <2> QED BY <2>3 DEF U, V
<1>7. \A r, s \in all : Cardinality(Above(r)) = Cardinality(Above(s)) => r = s
  <2> SUFFICES ASSUME NEW r \in all, NEW s \in all, r # s
               PROVE  Cardinality(Above(r)) # Cardinality(Above(s))
    OBVIOUS
  <2>1. r < s \/ s < r
    BY <1>1
  <2> HIDE DEF Above
  <2> QED BY <2>1, <1>6
<1>8. f \in [1..m -> 1..Len(rules)]
  BY <1>1, <1>3, <1>4
<1>9. f \in Seq(1..Len(rules)) /\ Len(f) = m
  BY <1>2, <1>8
<1>10. Distinct(f)
  <2> HIDE DEF Above
  <2>1. ASSUME NEW i \in 1..m, NEW j \in 1..m, f[i] = f[j] PROVE i = j
    BY <1>4, <2>1
  <2> QED BY <2>1, <1>9 DEF Distinct
<1>11. ToSet(f) = all
  <2>1. ToSet(f) = {f[i] : i \in 1..m}
    BY <1>9, ElementsOf
  <2>2. ASSUME NEW r \in all PROVE r \in ToSet(f)
    <3> DEFINE n == Cardinality(Above(r))
    <3>1. n \in 1..m
      BY <1>5
    <3>2. f[n] = r
      <4>1. f[n] \in all /\ Cardinality(Above(f[n])) = n
        BY <1>4, <3>1
      <4> HIDE DEF Above
      <4> QED BY <4>1, <1>7
    <3> HIDE DEF n
    <3> QED BY <2>1, <3>1, <3>2
  <2> QED BY <2>1, <2>2, <1>4
<1> QED BY <1>9, <1>10, <1>11 DEF f, all

(* What is appended: the begins of the popped rules that are not there. *)
LEMMA RulesAppended ==
    ASSUME Len(rules) \in Nat, NEW items \in Seq(Item), NEW A
    PROVE  \E new : /\ add_nonterminal_rules_to_state(items, A) = items \o new
                    /\ new \in Seq(Item) /\ Distinct(new)
                    /\ ToSet(new) = Begins(RulesOf(A)) \ ToSet(items)
<1> DEFINE popped == get_all_nonterminals_rule(A)
           n == Len(popped)
           E(l, k) == IF Contains(items, <<popped[k], 0>>) THEN l
                      ELSE Append(l, <<popped[k], 0>>)
           L == Seq((1..Len(rules)) \X {0})
<1>0. popped \in Seq(1..Len(rules)) /\ Distinct(popped) /\ ToSet(popped) = RulesOf(A)
  BY RulesPopped
<1>1. <<>> \in L /\ n \in Nat
  BY <1>0
<1>2. \A k \in 1..n, l \in L : E(l, k) \in L
  <2> SUFFICES ASSUME NEW k \in 1..n, NEW l \in L PROVE E(l, k) \in L
    OBVIOUS
  <2>1. popped[k] \in 1..Len(rules)
    BY <1>0
  <2> HIDE DEF popped
  <2>2. <<popped[k], 0>> \in (1..Len(rules)) \X {0}
    BY <2>1
  <2> QED BY <2>2
<1>3. n = Len(popped)
  OBVIOUS
<1> HIDE DEF popped, n, L, E

<1>4. \E g : g = [k \in 0..n |-> IF k = 0 THEN <<>> ELSE E(g[k - 1], k)]
  <2> DEFINE step == [k \in 1..n |-> [l \in L |-> E(l, k)]]
  <2>1. StepsOn(L, n, step)
    BY <1>2 DEF StepsOn
  <2> HIDE DEF step
  <2>2. PICK g : Runs(g, L, n, <<>>, step)
    BY <1>1, <2>1, Unrolled
  <2>3. ASSUME NEW k \in 0..n
        PROVE  g[k] = IF k = 0 THEN <<>> ELSE E(g[k - 1], k)
    <3>1. CASE k = 0
      BY <2>2, <3>1 DEF Runs
    <3>2. CASE k # 0
      <4>1. k \in 1..n /\ k - 1 \in 0..n
        BY <3>2, <1>1
      <4>2. g[k - 1] \in L /\ g[k] = step[k][g[k - 1]]
        BY <4>1, <2>2 DEF Runs
      <4> QED BY <3>2, <4>1, <4>2 DEF step
    <3> QED BY <3>1, <3>2
  <2>4. g \in [0..n -> L]
    BY <2>2 DEF Runs
  <2>5. g = [k \in 0..n |-> IF k = 0 THEN <<>> ELSE E(g[k - 1], k)]
    BY <2>3, <2>4
  <2> QED BY <2>5
<1> DEFINE added == CHOOSE g : g = [k \in 0..n |-> IF k = 0 THEN <<>> ELSE E(g[k - 1], k)]
<1>5. added = [k \in 0..n |-> IF k = 0 THEN <<>> ELSE E(added[k - 1], k)]
  BY <1>4, Zenon

<1> HIDE DEF added
<1>6. /\ added[0] = <<>>
      /\ \A k \in 1..n : added[k] = E(added[k - 1], k)
  BY <1>1, <1>5
<1>7. add_nonterminal_rules_to_state(items, A) = items \o added[n]
  BY Zenon DEF add_nonterminal_rules_to_state, added, E, n, popped
<1> DEFINE Some(k) == {<<popped[j], 0>> : j \in 1..k} \ ToSet(items)
           I == {k \in 0..n : /\ added[k] \in Seq(Item) /\ Distinct(added[k])
                              /\ ToSet(added[k]) = Some(k)}
<1>8. 0 \in I
  <2>1. <<>> \in Seq(Item) /\ Distinct(<<>>) /\ ToSet(<<>>) = {}
    BY DEF Distinct, ToSet
  <2>2. Some(0) = {}
    OBVIOUS
  <2>3. 0 \in 0..n
    BY <1>1
  <2> HIDE DEF Some
  <2> QED BY <1>6, <2>1, <2>2, <2>3
<1>9. ASSUME NEW k \in 1..n, k - 1 \in I PROVE k \in I
  <2> DEFINE l == added[k - 1]
             e == <<popped[k], 0>>
  <2>1. l \in Seq(Item) /\ Distinct(l) /\ ToSet(l) = Some(k - 1) /\ added[k] = E(l, k)
    BY <1>6, <1>9
  <2>2. popped[k] \in 1..Len(rules) /\ \A j \in 1..k - 1 : popped[j] # popped[k]
    BY <1>0, <1>3, <1>1 DEF Distinct
  <2>3. e \in Item /\ (Contains(items, e) <=> e \in ToSet(items))
    BY <2>2, ElementsOf DEF Item
  <2>4. Some(k) = IF e \in ToSet(items) THEN Some(k - 1) ELSE Some(k - 1) \cup {e}
    <3>1. 1..k = (1..k - 1) \cup {k}
      BY <1>1
    <3>2. {<<popped[j], 0>> : j \in 1..k} = {<<popped[j], 0>> : j \in 1..k - 1} \cup {e}
      BY <3>1
    <3> HIDE DEF e
    <3> QED BY <3>2
  <2>5. e \notin Some(k - 1)
    BY <2>2
  <2>6. added[k] = IF e \in ToSet(items) THEN l ELSE Append(l, e)
    BY <2>1, <2>3 DEF E
  <2> HIDE DEF l, e, Some
  <2>7. added[k] \in Seq(Item) /\ Distinct(added[k]) /\ ToSet(added[k]) = Some(k)
    <3>1. CASE e \in ToSet(items)
      BY <3>1, <2>1, <2>4, <2>6
    <3>2. CASE e \notin ToSet(items)
      BY <3>2, <2>1, <2>3, <2>4, <2>5, <2>6, ElementsAppended, AppendSequence
    <3> QED BY <3>1, <3>2
  <2>8. k \in 0..n
    BY <1>1
  <2> QED BY <2>7, <2>8
<1>10. n \in I
  <2> HIDE DEF I
  <2> QED BY <1>1, <1>8, <1>9, Reached
<1>11. Some(n) = Begins(RulesOf(A)) \ ToSet(items)
  <2>1. RulesOf(A) = {popped[j] : j \in 1..n}
    BY <1>0, <1>3, ElementsOf
  <2> QED BY <2>1 DEF Begins
<1> QED BY <1>7, <1>10, <1>11

(* A list that begins with another one. *)
Extends(items, longer) ==
    /\ longer \in Seq(Item) /\ Len(items) <= Len(longer)
    /\ \A i \in 1..Len(items) : longer[i] = items[i]

LEMMA RulesAdded ==
    ASSUME Len(rules) \in Nat, NEW items \in Seq(Item), NEW A
    PROVE  LET longer == add_nonterminal_rules_to_state(items, A)
           IN  /\ Extends(items, longer)
               /\ ToSet(longer) = ToSet(items) \cup Begins(RulesOf(A))
               /\ Distinct(items) => Distinct(longer)
<1> DEFINE longer == add_nonterminal_rules_to_state(items, A)
<1>1. PICK new : /\ longer = items \o new /\ new \in Seq(Item) /\ Distinct(new)
                 /\ ToSet(new) = Begins(RulesOf(A)) \ ToSet(items)
  BY RulesAppended
<1> HIDE DEF longer
<1> DEFINE m == Len(items)
           n == Len(new)
<1>2. /\ m \in Nat /\ n \in Nat /\ longer \in Seq(Item) /\ Len(longer) = m + n
      /\ \A i \in 1..m : longer[i] = items[i]
      /\ \A i \in m + 1..m + n : longer[i] = new[i - m]
  BY <1>1
<1>3. /\ ToSet(items) = {items[i] : i \in 1..m} /\ ToSet(new) = {new[i] : i \in 1..n}
      /\ ToSet(longer) = {longer[i] : i \in 1..m + n}
  <2>1. ToSet(items) = {items[i] : i \in 1..m} /\ ToSet(new) = {new[i] : i \in 1..n}
    BY <1>1, ElementsOf
  <2>2. ToSet(longer) = {longer[i] : i \in 1..Len(longer)}
    BY <1>2, ElementsOf
  <2> QED BY <2>1, <2>2, <1>2
<1>4. Distinct(items) => \A i, j \in 1..m : items[i] = items[j] => i = j
  BY DEF Distinct
<1>5. \A i, j \in 1..n : new[i] = new[j] => i = j
  BY <1>1 DEF Distinct
<1> HIDE DEF m, n
<1>6. ToSet(longer) = ToSet(items) \cup ToSet(new)
  <2>1. ASSUME NEW x \in ToSet(longer) PROVE x \in ToSet(items) \cup ToSet(new)
    <3>1. PICK i \in 1..m + n : longer[i] = x
      BY <1>3
    <3>2. CASE i <= m
      BY <3>1, <3>2, <1>2, <1>3
    <3>3. CASE i > m
      <4>1. i \in m + 1..m + n /\ i - m \in 1..n
        BY <3>3, <1>2
      <4> QED BY <3>1, <4>1, <1>2, <1>3
    <3> QED BY <3>2, <3>3, <1>2
  <2>2. ASSUME NEW x \in ToSet(items) PROVE x \in ToSet(longer)
    <3>1. PICK i \in 1..m : items[i] = x
      BY <1>3
    <3>2. i \in 1..m + n
      BY <1>2
    <3> QED BY <3>1, <3>2, <1>2, <1>3
  <2>3. ASSUME NEW x \in ToSet(new) PROVE x \in ToSet(longer)
    <3>1. PICK i \in 1..n : new[i] = x
      BY <1>3
    <3>2. m + i \in m + 1..m + n /\ (m + i) - m = i /\ m + i \in 1..m + n
      BY <1>2
    <3>3. longer[m + i] = x
      BY <3>1, <3>2, <1>2
    <3> QED BY <3>2, <3>3, <1>3
  <2> QED BY <2>1, <2>2, <2>3
<1>7. ASSUME Distinct(items) PROVE Distinct(longer)
  <2> SUFFICES ASSUME NEW i \in 1..m + n, NEW j \in 1..m + n, longer[i] = longer[j], i < j
               PROVE  FALSE
    <3>1. ASSUME NEW i \in 1..m + n, NEW j \in 1..m + n, longer[i] = longer[j], i # j
          PROVE  FALSE
      <4>1. i < j \/ j < i
        BY <3>1, <1>2
      <4> QED BY <3>1, <4>1
    <3> QED BY <3>1, <1>2 DEF Distinct
  <2>1. CASE j <= m
    <3>1. i \in 1..m /\ j \in 1..m
      BY <2>1, <1>2
    <3> QED BY <3>1, <1>2, <1>4, <1>7
  <2>2. CASE i <= m /\ j > m
    <3>1. i \in 1..m /\ j \in m + 1..m + n /\ j - m \in 1..n
      BY <2>2, <1>2
    <3>2. longer[i] \in ToSet(items) /\ longer[j] \in ToSet(new)
      BY <3>1, <1>2, <1>3
    <3> QED BY <3>2, <1>1
  <2>3. CASE i > m
    <3>1. i \in m + 1..m + n /\ j \in m + 1..m + n /\ i - m \in 1..n /\ j - m \in 1..n /\ i - m # j - m
      BY <2>3, <1>2
    <3>2. new[i - m] = new[j - m]
      BY <3>1, <1>2
    <3> QED BY <3>1, <3>2, <1>5
  <2> QED BY <2>1, <2>2, <2>3, <1>2
<1>8. ToSet(longer) = ToSet(items) \cup Begins(RulesOf(A))
  BY <1>1, <1>6
<1>9. Extends(items, longer)
  BY <1>2 DEF Extends, m
<1> QED BY <1>7, <1>8, <1>9 DEF longer

-----------------------------------------------------------------------------
(* What may stand behind the dot of an item, and behind the dots of a set.  *)
NextSymbol == {get_next_symbol(i) : i \in Item}
OpenIn(S) == {i \in S : ~at_end_of_content(i)}
NextOf(S) == {get_next_symbol(i) : i \in OpenIn(S)}

LEMMA SymbolsListed ==
    ASSUME Len(rules) \in Nat, NEW state \in Seq(Item)
    PROVE  /\ get_possible_transition_symbols(state) \in Seq(NextSymbol)
           /\ ToSet(get_possible_transition_symbols(state)) = NextOf(ToSet(state))
<1> DEFINE n == Len(state)
           L == Seq(NextSymbol)
           E(l, i) == IF at_end_of_content(state[i]) THEN l
                      ELSE add_if_doesnt_exist(l, get_next_symbol(state[i]))
<1>1. <<>> \in L /\ n \in Nat
  OBVIOUS
<1>2. \A i \in 1..n, l \in L : E(l, i) \in L
  <2> SUFFICES ASSUME NEW i \in 1..n, NEW l \in L PROVE E(l, i) \in L
    OBVIOUS
  <2> DEFINE X == get_next_symbol(state[i])
  <2>1. state[i] \in Item
    OBVIOUS
  <2>2. X \in NextSymbol
    BY <2>1 DEF NextSymbol
  <2> HIDE DEF X
  <2>3. add_if_doesnt_exist(l, X) \in L
    BY <2>2 DEF add_if_doesnt_exist
  <2> QED BY <2>3 DEF X
<1>3. n = Len(state) /\ ToSet(state) = {state[i] : i \in 1..n} /\ \A i \in 1..n : state[i] \in Item
  BY ElementsOf
<1> HIDE DEF n, L, E

<1>4. \E g : g = [i \in 0..n |-> IF i = 0 THEN <<>> ELSE E(g[i - 1], i)]
  <2> DEFINE step == [i \in 1..n |-> [l \in L |-> E(l, i)]]
  <2>1. StepsOn(L, n, step)
    BY <1>2 DEF StepsOn
  <2> HIDE DEF step
  <2>2. PICK g : Runs(g, L, n, <<>>, step)
    BY <1>1, <2>1, Unrolled
  <2>3. ASSUME NEW i \in 0..n
        PROVE  g[i] = IF i = 0 THEN <<>> ELSE E(g[i - 1], i)
    <3>1. CASE i = 0
      BY <2>2, <3>1 DEF Runs
    <3>2. CASE i # 0
      <4>1. i \in 1..n /\ i - 1 \in 0..n
        BY <3>2, <1>1
      <4>2. g[i - 1] \in L /\ g[i] = step[i][g[i - 1]]
        BY <4>1, <2>2 DEF Runs
      <4> QED BY <3>2, <4>1, <4>2 DEF step
    <3> QED BY <3>1, <3>2
  <2>4. g \in [0..n -> L]
    BY <2>2 DEF Runs
  <2>5. g = [i \in 0..n |-> IF i = 0 THEN <<>> ELSE E(g[i - 1], i)]
    BY <2>3, <2>4
  <2> QED BY <2>5
<1> DEFINE listed == CHOOSE g : g = [i \in 0..n |-> IF i = 0 THEN <<>> ELSE E(g[i - 1], i)]
<1>5. listed = [i \in 0..n |-> IF i = 0 THEN <<>> ELSE E(listed[i - 1], i)]
  BY <1>4, Zenon

<1>6. get_possible_transition_symbols(state) = listed[n]
  BY Zenon DEF get_possible_transition_symbols, listed, E, n
<1> HIDE DEF listed
<1>7. /\ listed[0] = <<>>
      /\ \A i \in 1..n : listed[i] = E(listed[i - 1], i)
  BY <1>1, <1>5

<1> DEFINE Some(k) == {get_next_symbol(state[j]) : j \in {j \in 1..k : ~at_end_of_content(state[j])}}
           I == {k \in 0..n : listed[k] \in L /\ ToSet(listed[k]) = Some(k)}
<1>8. 0 \in I
  <2>1. ToSet(<<>>) = {}
    BY DEF ToSet
  <2>2. Some(0) = {}
    OBVIOUS
  <2>3. 0 \in 0..n
    BY <1>1
  <2> HIDE DEF Some
  <2> QED BY <1>1, <1>7, <2>1, <2>2, <2>3
<1>9. ASSUME NEW k \in 1..n, k - 1 \in I PROVE k \in I
  <2> DEFINE l == listed[k - 1]
             X == get_next_symbol(state[k])
             c == at_end_of_content(state[k])
  <2>1. l \in L /\ ToSet(l) = Some(k - 1) /\ listed[k] = E(l, k)
    BY <1>7, <1>9
  <2>2. listed[k] = IF c THEN l ELSE add_if_doesnt_exist(l, X)
    BY <2>1 DEF E
  <2>3. Some(k) = IF c THEN Some(k - 1) ELSE Some(k - 1) \cup {X}
    <3>1. 1..k = (1..k - 1) \cup {k}
      BY <1>1
    <3> QED BY <3>1
  <2>4. X \in NextSymbol
    BY <1>3 DEF NextSymbol
  <2> HIDE DEF l, X, c, Some
  <2>5. ToSet(add_if_doesnt_exist(l, X)) = Some(k - 1) \cup {X}
    <3>1. Contains(l, X) <=> X \in ToSet(l)
      BY <2>1, ElementsOf DEF L
    <3>2. ToSet(Append(l, X)) = ToSet(l) \cup {X}
      BY <2>1, <2>4, ElementsAppended DEF L
    <3> QED BY <2>1, <3>1, <3>2 DEF add_if_doesnt_exist
  <2>6. ToSet(listed[k]) = Some(k)
    BY <2>1, <2>2, <2>3, <2>5
  <2>7. listed[k] \in L
    BY <1>2, <2>1
  <2>8. k \in 0..n
    BY <1>1
  <2> QED BY <2>6, <2>7, <2>8
<1>10. n \in I
  <2> HIDE DEF I
  <2> QED BY <1>1, <1>8, <1>9, Reached
<1>11. Some(n) = NextOf(ToSet(state))
  BY <1>3 DEF NextOf, OpenIn
<1> QED BY <1>6, <1>10, <1>11 DEF L

(* The rules: each is for a nonterminal, and has a symbol.                  *)
Name == STRING \cup {"START'", "PROGRAM", "$"}
RuleOf(S) == [left : S, right : Seq(S)]

Ruled ==
    /\ rules \in Seq(RuleOf(Name))
    /\ \A r \in 1..Len(rules) : rules[r].right # <<>> /\ rules[r].left \in Nonterminal

LEMMA RuledRule ==
    ASSUME Ruled
    PROVE  /\ Len(rules) \in Nat
           /\ \A r \in 1..Len(rules) :
                  /\ rules[r].left \in Name /\ rules[r].left \in Nonterminal
                  /\ rules[r].right \in Seq(Name) /\ Len(rules[r].right) \in Nat \ {0}
                  /\ \A i \in 1..Len(rules[r].right) : rules[r].right[i] \in Name
<1>1. rules \in Seq(RuleOf(Name))
  BY DEF Ruled
<1>2. Len(rules) \in Nat
  BY <1>1
<1>3. ASSUME NEW r \in 1..Len(rules)
      PROVE  /\ rules[r].left \in Name /\ rules[r].left \in Nonterminal
             /\ rules[r].right \in Seq(Name) /\ Len(rules[r].right) \in Nat \ {0}
             /\ \A i \in 1..Len(rules[r].right) : rules[r].right[i] \in Name
  <2>1. rules[r] \in RuleOf(Name)
    BY <1>1, InSequence
  <2>2. rules[r].left \in Name /\ rules[r].right \in Seq(Name)
    BY <2>1 DEF RuleOf
  <2>3. rules[r].right # <<>> /\ rules[r].left \in Nonterminal
    BY DEF Ruled
  <2> QED BY <2>2, <2>3, InSequence
<1> QED BY <1>2, <1>3

(* What the items of a set call for. *)
Called(S) == UNION {Begins(RulesOf(X)) : X \in NextOf(S)}

LEMMA ItemsVisited ==
    ASSUME Ruled, NEW items \in Seq(Item)
    PROVE  LET longer == visit_items(items)
           IN  /\ Extends(items, longer)
               /\ ToSet(longer) = ToSet(items) \cup Called(ToSet(items))
               /\ Distinct(items) => Distinct(longer)
<1> DEFINE symbols_of == get_possible_transition_symbols(items)
           n == Len(symbols_of)
           L == Seq(Item)
           E(l, i) == IF isNonterminal(symbols_of[i])
                      THEN add_nonterminal_rules_to_state(l, symbols_of[i]) ELSE l
<1>0. Len(rules) \in Nat
  BY RuledRule
<1>1. items \in L /\ n \in Nat
  BY <1>0, SymbolsListed
<1>2. \A i \in 1..n, l \in L : E(l, i) \in L
  <2> SUFFICES ASSUME NEW i \in 1..n, NEW l \in L PROVE E(l, i) \in L
    OBVIOUS
  <2> DEFINE X == symbols_of[i]
  <2> HIDE DEF symbols_of, X
  <2>1. Extends(l, add_nonterminal_rules_to_state(l, X))
    BY <1>0, RulesAdded
  <2> QED BY <2>1 DEF X, Extends
<1>3. NextOf(ToSet(items)) = {symbols_of[i] : i \in 1..n}
  BY <1>0, SymbolsListed, ElementsOf
<1> HIDE DEF n, L, E, symbols_of

<1>4. \E g : g = [i \in 0..n |-> IF i = 0 THEN items ELSE E(g[i - 1], i)]
  <2> DEFINE step == [i \in 1..n |-> [l \in L |-> E(l, i)]]
  <2>1. StepsOn(L, n, step)
    BY <1>2 DEF StepsOn
  <2> HIDE DEF step
  <2>2. PICK g : Runs(g, L, n, items, step)
    BY <1>1, <2>1, Unrolled
  <2>3. ASSUME NEW i \in 0..n
        PROVE  g[i] = IF i = 0 THEN items ELSE E(g[i - 1], i)
    <3>1. CASE i = 0
      BY <2>2, <3>1 DEF Runs
    <3>2. CASE i # 0
      <4>1. i \in 1..n /\ i - 1 \in 0..n
        BY <3>2, <1>1
      <4>2. g[i - 1] \in L /\ g[i] = step[i][g[i - 1]]
        BY <4>1, <2>2 DEF Runs
      <4> QED BY <3>2, <4>1, <4>2 DEF step
    <3> QED BY <3>1, <3>2
  <2>4. g \in [0..n -> L]
    BY <2>2 DEF Runs
  <2>5. g = [i \in 0..n |-> IF i = 0 THEN items ELSE E(g[i - 1], i)]
    BY <2>3, <2>4
  <2> QED BY <2>5
<1> DEFINE visited == CHOOSE g : g = [i \in 0..n |-> IF i = 0 THEN items ELSE E(g[i - 1], i)]
<1>5. visited = [i \in 0..n |-> IF i = 0 THEN items ELSE E(visited[i - 1], i)]
  BY <1>4, Zenon

<1>6. visit_items(items) = visited[n]
  BY Zenon DEF visit_items, symbols_of, visited, E, n
<1> HIDE DEF visited
<1>7. /\ visited[0] = items
      /\ \A i \in 1..n : visited[i] = E(visited[i - 1], i)
  BY <1>1, <1>5

<1> DEFINE Some(k) == UNION {Begins(RulesOf(symbols_of[i])) : i \in 1..k}
           I == {k \in 0..n : /\ Extends(items, visited[k])
                              /\ ToSet(visited[k]) = ToSet(items) \cup Some(k)
                              /\ Distinct(items) => Distinct(visited[k])}
<1>8. 0 \in I
  <2>1. Some(0) = {}
    OBVIOUS
  <2>2. Extends(items, items)
    BY DEF Extends
  <2>3. 0 \in 0..n
    BY <1>1
  <2> HIDE DEF Some
  <2> QED BY <1>7, <2>1, <2>2, <2>3
<1>9. ASSUME NEW k \in 1..n, k - 1 \in I PROVE k \in I
  <2> DEFINE l == visited[k - 1]
             X == symbols_of[k]
             longer == add_nonterminal_rules_to_state(l, X)
  <2>1. /\ Extends(items, l) /\ ToSet(l) = ToSet(items) \cup Some(k - 1)
        /\ Distinct(items) => Distinct(l)
        /\ visited[k] = IF isNonterminal(X) THEN longer ELSE l
    BY <1>7, <1>9 DEF E
  <2>2. Some(k) = Some(k - 1) \cup Begins(RulesOf(X))
    <3>1. 1..k = (1..k - 1) \cup {k}
      BY <1>1
    <3> QED BY <3>1
  <2>3. ~isNonterminal(X) => Begins(RulesOf(X)) = {}
    <3>1. ~isNonterminal(X) => RulesOf(X) = {}
      BY RuledRule DEF isNonterminal, RulesOf
    <3> QED BY <3>1 DEF Begins
  <2>4. l \in Seq(Item)
    BY <2>1 DEF Extends
  <2>5. /\ Extends(l, longer) /\ ToSet(longer) = ToSet(l) \cup Begins(RulesOf(X))
        /\ Distinct(l) => Distinct(longer)
    <3> HIDE DEF l, X
    <3> QED BY <1>0, <2>4, RulesAdded
  <2> HIDE DEF l, X, longer, Some
  <2>6. Extends(items, longer)
    BY <2>1, <2>4, <2>5, <1>1 DEF Extends, L
  <2>7. k \in 0..n
    BY <1>1
  <2> QED BY <2>1, <2>2, <2>3, <2>5, <2>6, <2>7
<1>10. n \in I
  <2> HIDE DEF I
  <2> QED BY <1>1, <1>8, <1>9, Reached
<1>11. Some(n) = Called(ToSet(items))
  BY <1>3 DEF Called
<1> QED BY <1>6, <1>10, <1>11

-----------------------------------------------------------------------------
(* What can be reached by a relation *)

(* A set that no step of R leaves. *)
ClosedUnder(R, T) == \A p \in R : p[1] \in T => p[2] \in T

LEMMA Reaches ==
    ASSUME NEW R, IsFiniteSet(R), NEW s
    PROVE  /\ s \in Reach(R, s) /\ ClosedUnder(R, Reach(R, s))
           /\ \A T : s \in T /\ ClosedUnder(R, T) => Reach(R, s) \subseteq T
<1> DEFINE n == Cardinality(R)
           targets == {p[2] : p \in R}
           U == {s} \cup targets
           L == SUBSET U
           E(W, i) == W \cup {p[2] : p \in {q \in R : q[1] \in W}}
<1>1. {s} \in L /\ n \in Nat
  BY FS_CardinalityType
<1>2. \A i \in 1..n, l \in L : E(l, i) \in L
  OBVIOUS
<1>3. IsFiniteSet(U) /\ Cardinality(U) <= n + 1
  <2> DEFINE f == [p \in R |-> p[2]]
  <2>1. f \in Surjection(R, targets)
    BY DEF Surjection
  <2>2. IsFiniteSet(targets) /\ Cardinality(targets) <= n
    <3> HIDE DEF targets, f
    <3> QED BY <2>1, FS_Surjection
  <2>3. Cardinality(targets) \in Nat
    BY <2>2, FS_CardinalityType
  <2>4. IsFiniteSet(targets \cup {s}) /\ Cardinality(targets \cup {s}) <= Cardinality(targets) + 1
    <3> HIDE DEF targets
    <3>1. /\ IsFiniteSet(targets \cup {s})
          /\ Cardinality(targets \cup {s}) =
                 IF s \in targets THEN Cardinality(targets) ELSE Cardinality(targets) + 1
      BY <2>2, FS_AddElement
    <3> QED BY <2>3, <3>1
  <2>5. U = targets \cup {s}
    OBVIOUS
  <2>6. Cardinality(U) \in Nat
    BY <2>4, <2>5, FS_CardinalityType
  <2> HIDE DEF targets, U, n
  <2> QED BY <1>1, <2>2, <2>3, <2>4, <2>5, <2>6
<1>0. \A W \in L : W \subseteq U
  OBVIOUS
<1>20. ClosedUnder(R, U)
  BY DEF ClosedUnder
<1> HIDE DEF n, L, E, U

<1>4. \E g : g = [i \in 0..n |-> IF i = 0 THEN {s} ELSE E(g[i - 1], i)]
  <2> DEFINE step == [i \in 1..n |-> [l \in L |-> E(l, i)]]
  <2>1. StepsOn(L, n, step)
    BY <1>2 DEF StepsOn
  <2> HIDE DEF step
  <2>2. PICK g : Runs(g, L, n, {s}, step)
    BY <1>1, <2>1, Unrolled
  <2>3. ASSUME NEW i \in 0..n
        PROVE  g[i] = IF i = 0 THEN {s} ELSE E(g[i - 1], i)
    <3>1. CASE i = 0
      BY <2>2, <3>1 DEF Runs
    <3>2. CASE i # 0
      <4>1. i \in 1..n /\ i - 1 \in 0..n
        BY <3>2, <1>1
      <4>2. g[i - 1] \in L /\ g[i] = step[i][g[i - 1]]
        BY <4>1, <2>2 DEF Runs
      <4> QED BY <3>2, <4>1, <4>2 DEF step
    <3> QED BY <3>1, <3>2
  <2>4. g \in [0..n -> L]
    BY <2>2 DEF Runs
  <2>5. g = [i \in 0..n |-> IF i = 0 THEN {s} ELSE E(g[i - 1], i)]
    BY <2>3, <2>4
  <2> QED BY <2>5
<1> DEFINE within == CHOOSE g : g = [i \in 0..n |-> IF i = 0 THEN {s} ELSE E(g[i - 1], i)]
<1>5. within = [i \in 0..n |-> IF i = 0 THEN {s} ELSE E(within[i - 1], i)]
  BY <1>4, Zenon

<1>6. Reach(R, s) = within[n]
  <2>1. within = CHOOSE g : g = [i \in 0..n |-> IF i = 0 THEN {s} ELSE
            LET W == g[i - 1] IN W \cup {p[2] : p \in {q \in R : q[1] \in W}}]
    BY Zenon DEF within, E
  <2> QED BY <2>1, Zenon DEF Reach, n
<1> HIDE DEF within
<1>7. /\ within[0] = {s}
      /\ \A i \in 1..n : within[i] = E(within[i - 1], i)
  <2>1. 0 \in 0..n /\ \A i \in 1..n : i \in 0..n /\ i # 0
    BY <1>1
  <2> QED BY <2>1, <1>5
<1>8. \A l \in L : IsFiniteSet(l) /\ Cardinality(l) \in Nat /\ Cardinality(l) <= Cardinality(U)
  BY <1>0, <1>3, FS_Subset, FS_CardinalityType
<1> DEFINE I == {i \in 0..n : /\ within[i] \in L /\ s \in within[i]
                              /\ ClosedUnder(R, within[i]) \/ Cardinality(within[i]) >= i + 1}
<1>9. 0 \in I
  <2>1. Cardinality({s}) = 1
    BY FS_Singleton
  <2>2. within[0] \in L /\ s \in within[0] /\ 0 \in 0..n
    BY <1>1, <1>7
  <2>3. Cardinality(within[0]) >= 0 + 1
    BY <2>1, <1>7
  <2> HIDE DEF L
  <2> QED BY <2>2, <2>3
<1>10. ASSUME NEW i \in 1..n, i - 1 \in I PROVE i \in I
  <2> DEFINE W == within[i - 1]
             V == within[i]
  <2>1. /\ W \in L /\ s \in W /\ V = E(W, i) /\ i \in 0..n
        /\ ClosedUnder(R, W) \/ Cardinality(W) >= (i - 1) + 1
    BY <1>7, <1>10, <1>1
  <2> HIDE DEF V, W
  <2>2. V \in L /\ W \subseteq V
    BY <2>1, <1>2 DEF E
  <2>3. CASE ClosedUnder(R, W)
    <3>1. V = W
      BY <2>1, <2>3 DEF ClosedUnder, E
    <3> QED BY <3>1, <2>1, <2>3 DEF V, W
  <2>4. CASE ~ClosedUnder(R, W)
    <3>1. W # V
      BY <2>1, <2>4 DEF ClosedUnder, E
    <3>2. IsFiniteSet(V) /\ Cardinality(V) \in Nat /\ Cardinality(W) \in Nat
      BY <1>8, <2>1, <2>2
    <3>3. Cardinality(W) < Cardinality(V)
      BY <3>1, <3>2, <2>2, FS_Subset
    <3>4. Cardinality(V) >= i + 1
      BY <3>2, <3>3, <2>1, <2>4
    <3> QED BY <3>4, <2>1, <2>2 DEF V, W
  <2> QED BY <2>3, <2>4
<1>11. n \in I
  <2> HIDE DEF I
  <2> QED BY <1>1, <1>9, <1>10, Reached
<1>12. ClosedUnder(R, within[n])
  <2> SUFFICES ASSUME Cardinality(within[n]) >= n + 1 PROVE ClosedUnder(R, within[n])
    BY <1>11
  <2>1. within[n] \in L /\ within[n] \subseteq U
    BY <1>11, <1>0
  <2>2. Cardinality(within[n]) \in Nat /\ Cardinality(within[n]) <= Cardinality(U) /\ Cardinality(U) \in Nat
    BY <2>1, <1>8, <1>3, FS_CardinalityType
  <2>3. Cardinality(within[n]) = Cardinality(U)
    BY <2>2, <1>3, <1>1
  <2>4. within[n] = U
    BY <2>1, <2>3, <1>3, FS_Subset
  <2> QED BY <2>4, <1>20
<1>13. ASSUME NEW T, s \in T, ClosedUnder(R, T) PROVE within[n] \subseteq T
  <2> DEFINE J == {i \in 0..n : within[i] \subseteq T}
  <2>1. 0 \in J
    BY <1>13, <1>7, <1>1
  <2>2. ASSUME NEW i \in 1..n, i - 1 \in J PROVE i \in J
    <3>1. within[i] = E(within[i - 1], i) /\ within[i - 1] \subseteq T /\ i \in 0..n
      BY <1>7, <2>2, <1>1
    <3> QED BY <3>1, <1>13 DEF E, ClosedUnder
  <2>3. n \in J
    <3> HIDE DEF J
    <3> QED BY <1>1, <2>1, <2>2, Reached
  <2> QED BY <2>3
<1> QED BY <1>6, <1>11, <1>12, <1>13

LEMMA StepsFinite ==
    ASSUME Ruled
    PROVE  IsFiniteSet(FirstSteps(rules))
<1> DEFINE n == Len(rules)
           S == FirstSteps(rules)
           f == [r \in 1..n |-> <<rules[r].left, rules[r].right[1]>>]
<1>1. n \in Nat /\ ToSet(rules) = {rules[r] : r \in 1..n}
  BY ElementsOf DEF Ruled
<1>2. S = {<<rules[r].left, rules[r].right[1]>> : r \in 1..n}
  BY <1>1 DEF FirstSteps
<1> HIDE DEF S, n
<1>3. f \in Surjection(1..n, S)
  BY <1>2 DEF Surjection
<1>4. ExistsSurjection(1..n, S)
  BY <1>3 DEF ExistsSurjection
<1>5. IsFiniteSet(S)
  <2> HIDE DEF f
  <2> QED BY <1>1, <1>4, FS_NatSurjection
<1> QED BY <1>5 DEF S

(* What the symbols of the rules begin with. *)
FirstReach(X) == Reach(FirstSteps(rules), X)

LEMMA FirstReached ==
    ASSUME Ruled, NEW X
    PROVE  /\ X \in FirstReach(X)
           /\ \A r \in 1..Len(rules) :
                  rules[r].left \in FirstReach(X) => rules[r].right[1] \in FirstReach(X)
           /\ \A T : /\ X \in T
                     /\ \A r \in 1..Len(rules) : rules[r].left \in T => rules[r].right[1] \in T
                     => FirstReach(X) \subseteq T
<1> DEFINE S == FirstSteps(rules)
<1>1. S = {<<rules[r].left, rules[r].right[1]>> : r \in 1..Len(rules)}
  <2>1. ToSet(rules) = {rules[r] : r \in 1..Len(rules)}
    BY ElementsOf DEF Ruled
  <2> QED BY <2>1 DEF FirstSteps
<1>2. IsFiniteSet(S)
  BY StepsFinite
<1>3. \A T : ClosedUnder(S, T) <=>
          \A r \in 1..Len(rules) : rules[r].left \in T => rules[r].right[1] \in T
  <2> SUFFICES ASSUME NEW T
               PROVE  ClosedUnder(S, T) <=>
                      \A r \in 1..Len(rules) : rules[r].left \in T => rules[r].right[1] \in T
    OBVIOUS
  <2> DEFINE step(r) == <<rules[r].left, rules[r].right[1]>>
  <2>1. \A r \in 1..Len(rules) : step(r) \in S /\ step(r)[1] = rules[r].left /\ step(r)[2] = rules[r].right[1]
    BY <1>1
  <2>2. \A p \in S : \E r \in 1..Len(rules) : p = step(r)
    BY <1>1
  <2> HIDE DEF S, step
  <2> QED BY <2>1, <2>2 DEF ClosedUnder
<1> HIDE DEF S
<1>4. /\ X \in Reach(S, X) /\ ClosedUnder(S, Reach(S, X))
      /\ \A T : X \in T /\ ClosedUnder(S, T) => Reach(S, X) \subseteq T
  BY <1>2, Reaches
<1> QED BY <1>3, <1>4 DEF FirstReach, S

LEMMA FirstsAre ==
    ASSUME NEW X, NEW Y
    PROVE  <<X, Y>> \in Firsts <=> X \in Symbols /\ Y \in FirstReach(X)
BY DEF Firsts, Closure, FirstReach

LEMMA SymbolsAre ==
    ASSUME Ruled, NEW r \in 1..Len(rules)
    PROVE  /\ rules[r].left \in Symbols
           /\ \A i \in 1..Len(rules[r].right) : rules[r].right[i] \in Symbols
<1>1. ToSet(rules) = {rules[q] : q \in 1..Len(rules)}
  BY ElementsOf DEF Ruled
<1>2. rules[r] \in ToSet(rules)
  BY <1>1
<1>3. ToSet(rules[r].right) = {rules[r].right[i] : i \in 1..Len(rules[r].right)}
  BY RuledRule, ElementsOf
<1> QED BY <1>2, <1>3 DEF Symbols

-----------------------------------------------------------------------------
(* The closure: the least set that holds the items and all that they call   *)
(* for.                                                                     *)
SetClosed(S) == Called(S) \subseteq S

Least(S, K) ==
    /\ K \subseteq S /\ SetClosed(S)
    /\ \A C : K \subseteq C /\ SetClosed(C) => S \subseteq C

LEMMA CalledOf ==
    ASSUME NEW S, NEW x
    PROVE  x \in Called(S) <=> \E i \in S : /\ ~at_end_of_content(i)
                                            /\ \E r \in RulesOf(get_next_symbol(i)) : x = <<r, 0>>
BY DEF Called, NextOf, OpenIn, Begins

LEMMA LeastIsOne ==
    ASSUME NEW S, NEW T, NEW K, Least(S, K), Least(T, K)
    PROVE  S = T
BY DEF Least

(* The rules whose begin is not in a set. *)
Absent(S) == {r \in 1..Len(rules) : <<r, 0>> \notin S}

LEMMA RoundAdds ==
    ASSUME Ruled, NEW l \in Seq(Item), Distinct(l), visit_items(l) # l, NEW n \in Nat,
           Cardinality(Absent(ToSet(l))) <= n
    PROVE  n # 0 /\ Cardinality(Absent(ToSet(visit_items(l)))) <= n - 1
<1> DEFINE m == visit_items(l)
           A == Absent(ToSet(l))
           B == Absent(ToSet(m))
<1>1. Extends(l, m) /\ Distinct(m) /\ ToSet(m) = ToSet(l) \cup Called(ToSet(l))
  BY ItemsVisited
<1>2. m # l
  OBVIOUS
<1> HIDE DEF m
<1>3. Len(l) < Len(m)
  <2>1. m \in Seq(Item) /\ Len(l) <= Len(m) /\ \A i \in 1..Len(l) : m[i] = l[i]
    BY <1>1 DEF Extends
  <2> SUFFICES ASSUME Len(l) = Len(m) PROVE m = l
    BY <1>2, <2>1
  <2> QED BY <2>1
<1> DEFINE k == Len(l) + 1
<1>4. k \in 1..Len(m) /\ Len(l) \in Nat /\ m[k] \in ToSet(m)
  <2>1. m \in Seq(Item) /\ ToSet(m) = {m[i] : i \in 1..Len(m)}
    BY <1>1, ElementsOf DEF Extends
  <2>2. k \in 1..Len(m) /\ Len(l) \in Nat
    BY <2>1, <1>3
  <2> QED BY <2>1, <2>2
<1>5. m[k] \notin ToSet(l)
  <2> SUFFICES ASSUME m[k] \in ToSet(l) PROVE FALSE
    OBVIOUS
  <2>1. PICK i \in 1..Len(l) : l[i] = m[k]
    BY ElementsOf
  <2>2. m[i] = m[k] /\ i \in 1..Len(m) /\ i # k
    BY <1>1, <1>3, <1>4, <2>1 DEF Extends
  <2> QED BY <2>2, <1>1, <1>4 DEF Distinct
<1>6. m[k] \in Called(ToSet(l))
  BY <1>1, <1>4, <1>5
<1>7. PICK r \in 1..Len(rules) : m[k] = <<r, 0>>
  <2>1. PICK i \in ToSet(l) : \E r \in RulesOf(get_next_symbol(i)) : m[k] = <<r, 0>>
    BY <1>6, CalledOf
  <2> QED BY <2>1 DEF RulesOf
<1>8. r \in A /\ r \notin B /\ B \subseteq A
  BY <1>1, <1>4, <1>5, <1>7 DEF Absent
<1>9. IsFiniteSet(A)
  <2>1. IsFiniteSet(1..Len(rules))
    BY RuledRule, FS_Interval
  <2>2. A \subseteq 1..Len(rules)
    BY DEF Absent
  <2> QED BY <2>1, <2>2, FS_Subset
<1>10. Cardinality(A) <= n
  OBVIOUS
<1> HIDE DEF A, B
<1>11. Cardinality(B) < Cardinality(A) /\ Cardinality(A) \in Nat /\ Cardinality(B) \in Nat
  <2>1. IsFiniteSet(B)
    BY <1>8, <1>9, FS_Subset
  <2>2. Cardinality(A) \in Nat /\ Cardinality(B) \in Nat
    BY <1>9, <2>1, FS_CardinalityType
  <2>3. Cardinality(B) <= Cardinality(A) /\ (Cardinality(B) = Cardinality(A) => B = A)
    BY <1>8, <1>9, FS_Subset
  <2> QED BY <2>2, <2>3, <1>8
<1>12. n # 0 /\ Cardinality(B) <= n - 1
  BY <1>10, <1>11
<1> QED BY <1>12 DEF B, m

LEMMA ClosureLeast ==
    ASSUME Ruled, NEW items \in Seq(Item), Distinct(items)
    PROVE  /\ closure(items) \in Seq(Item) /\ Distinct(closure(items))
           /\ Least(ToSet(closure(items)), ToSet(items))
<1> DEFINE n == Len(rules)
           Items == Seq((1..Len(rules)) \X Nat)
           L == [Items -> Items]
           id == [l \in Items |-> l]
           E(h, i) == [l \in Items |->
                          IF visit_items(l) = l THEN l ELSE h[visit_items(l)]]
<1>0. Items = Seq(Item)
  BY DEF Item
<1>1. id \in L /\ n \in Nat
  BY RuledRule
<1>20. \A l \in Items : visit_items(l) \in Items
  BY <1>0, ItemsVisited DEF Extends
<1>2. \A i \in 1..n, h \in L : E(h, i) \in L
  <2> SUFFICES ASSUME NEW i \in 1..n, NEW h \in L PROVE E(h, i) \in L
    OBVIOUS
  <2> HIDE DEF Items
  <2>1. \A l \in Items : h[l] \in Items
    OBVIOUS
  <2> QED BY <2>1, <1>20
<1> HIDE DEF n, L, E, id

<1>4. \E g : g = [i \in 0..n |-> IF i = 0 THEN id ELSE E(g[i - 1], i)]
  <2> DEFINE step == [i \in 1..n |-> [h \in L |-> E(h, i)]]
  <2>1. StepsOn(L, n, step)
    BY <1>2 DEF StepsOn
  <2> HIDE DEF step
  <2>2. PICK g : Runs(g, L, n, id, step)
    BY <1>1, <2>1, Unrolled
  <2>3. ASSUME NEW i \in 0..n
        PROVE  g[i] = IF i = 0 THEN id ELSE E(g[i - 1], i)
    <3>1. CASE i = 0
      BY <2>2, <3>1 DEF Runs
    <3>2. CASE i # 0
      <4>1. i \in 1..n /\ i - 1 \in 0..n
        BY <3>2, <1>1
      <4>2. g[i - 1] \in L /\ g[i] = step[i][g[i - 1]]
        BY <4>1, <2>2 DEF Runs
      <4> QED BY <3>2, <4>1, <4>2 DEF step
    <3> QED BY <3>1, <3>2
  <2>4. g \in [0..n -> L]
    BY <2>2 DEF Runs
  <2>5. g = [i \in 0..n |-> IF i = 0 THEN id ELSE E(g[i - 1], i)]
    BY <2>3, <2>4
  <2> QED BY <2>5
<1> DEFINE rounds == CHOOSE g : g = [i \in 0..n |-> IF i = 0 THEN id ELSE E(g[i - 1], i)]
<1>5. rounds = [i \in 0..n |-> IF i = 0 THEN id ELSE E(rounds[i - 1], i)]
  BY <1>4, Zenon

<1>6. closure(items) = rounds[n][items]
  BY Zenon DEF closure, rounds, E, n, id, Items
<1> HIDE DEF rounds
<1>7. /\ rounds[0] = id
      /\ \A i \in 1..n : rounds[i] = E(rounds[i - 1], i)
  <2>1. 0 \in 0..n /\ \A i \in 1..n : i \in 0..n /\ i # 0
    BY <1>1
  <2> QED BY <2>1, <1>5
<1> DEFINE Good(l, m) == /\ m \in Seq(Item) /\ Distinct(m)
                         /\ Least(ToSet(m), ToSet(l))
           I == {i \in 0..n : \A l \in Items :
                     Distinct(l) /\ Cardinality(Absent(ToSet(l))) <= i => Good(l, rounds[i][l])}
<1>8. ASSUME NEW l \in Items, Distinct(l), visit_items(l) = l PROVE Good(l, l)
  <2>1. l \in Seq(Item)
    BY <1>0
  <2>2. ToSet(visit_items(l)) = ToSet(l) \cup Called(ToSet(l))
    BY <2>1, ItemsVisited
  <2>3. SetClosed(ToSet(l))
    BY <2>2, <1>8 DEF SetClosed
  <2> QED BY <2>1, <2>3, <1>8 DEF Least
<1>9. 0 \in I
  <2> SUFFICES ASSUME NEW l \in Items, Distinct(l), Cardinality(Absent(ToSet(l))) <= 0
               PROVE  Good(l, rounds[0][l])
    BY <1>1
  <2>1. visit_items(l) = l
    BY <1>0, RoundAdds
  <2>2. rounds[0][l] = l
    BY <1>7 DEF id
  <2> HIDE DEF Good
  <2> QED BY <2>1, <2>2, <1>8
<1>10. ASSUME NEW i \in 1..n, i - 1 \in I PROVE i \in I
  <2> SUFFICES ASSUME NEW l \in Items, Distinct(l), Cardinality(Absent(ToSet(l))) <= i
               PROVE  Good(l, rounds[i][l])
    BY <1>1
  <2> DEFINE m == visit_items(l)
             x == rounds[i - 1][m]
  <2>1. rounds[i][l] = IF m = l THEN l ELSE x
    <3>1. rounds[i] = [q \in Items |->
                          IF visit_items(q) = q THEN q ELSE rounds[i - 1][visit_items(q)]]
      BY <1>7 DEF E
    <3> HIDE DEF Items
    <3> QED BY <3>1
  <2>2. CASE m = l
    <3>1. Good(l, l)
      BY <1>8, <2>2
    <3> HIDE DEF Good
    <3> QED BY <2>1, <2>2, <3>1
  <2>3. CASE m # l
    <3>1. i \in Nat /\ l \in Seq(Item)
      BY <1>1, <1>0
    <3>2. Cardinality(Absent(ToSet(m))) <= i - 1
      BY <2>3, <3>1, RoundAdds
    <3>3. Distinct(m) /\ m \in Items /\ ToSet(m) = ToSet(l) \cup Called(ToSet(l))
      BY <3>1, <1>20, ItemsVisited
    <3>4. Good(m, x)
      BY <3>2, <3>3, <1>10
    <3>5. Least(ToSet(x), ToSet(l))
      <4>1. Least(ToSet(x), ToSet(m))
        BY <3>4
      <4> HIDE DEF m, x
      <4>2. ASSUME NEW C, ToSet(l) \subseteq C, SetClosed(C) PROVE ToSet(x) \subseteq C
        <5>1. Called(ToSet(l)) \subseteq C
          BY <4>2, CalledOf DEF SetClosed
        <5> QED BY <5>1, <4>1, <4>2, <3>3 DEF Least
      <4> QED BY <4>1, <4>2, <3>3 DEF Least
    <3>6. Good(l, x)
      BY <3>4, <3>5
    <3> HIDE DEF Good, m, x
    <3> QED BY <3>6, <2>1, <2>3
  <2> QED BY <2>2, <2>3
<1>11. n \in I
  <2> HIDE DEF I
  <2> QED BY <1>1, <1>9, <1>10, Reached
<1>12. Cardinality(Absent(ToSet(items))) <= n
  <2> DEFINE A == Absent(ToSet(items))
  <2>1. A \subseteq 1..n
    BY DEF Absent, n
  <2>2. IsFiniteSet(1..n) /\ Cardinality(1..n) = n
    <3>1. Cardinality(1..n) = IF 1 > n THEN 0 ELSE n - 1 + 1
      BY <1>1, FS_Interval
    <3> QED BY <3>1, <1>1, FS_Interval
  <2> HIDE DEF A
  <2>3. Cardinality(A) <= n
    BY <2>1, <2>2, FS_Subset
  <2> QED BY <2>3 DEF A
<1>13. items \in Items
  BY <1>0
<1>14. Good(items, rounds[n][items])
  BY <1>11, <1>12, <1>13
<1> QED BY <1>6, <1>14

(* What it is to be, is the least such set too. *)
LEMMA NextIsSymbol ==
    ASSUME Ruled, NEW S, Proper(S), NEW i \in S, ~at_end_of_content(i)
    PROVE  /\ i[1] \in 1..Len(rules) /\ i[2] \in Nat /\ i[2] + 1 \in 1..Len(rules[i[1]].right)
           /\ get_next_symbol(i) \in Symbols /\ get_next_symbol(i) \in Name
<1>1. i \in Item /\ i[2] <= Len(rules[i[1]].right) /\ i[2] # Len(rules[i[1]].right)
  BY DEF Proper, at_end_of_content
<1>2. i[1] \in 1..Len(rules) /\ i[2] \in Nat
  BY <1>1 DEF Item
<1>3. Len(rules[i[1]].right) \in Nat /\ i[2] + 1 \in 1..Len(rules[i[1]].right)
  BY <1>1, <1>2, RuledRule
<1>4. rules[i[1]].right[i[2] + 1] \in Symbols /\ rules[i[1]].right[i[2] + 1] \in Name
  BY <1>2, <1>3, SymbolsAre, RuledRule
<1> QED BY <1>2, <1>3, <1>4 DEF get_next_symbol

LEMMA ClosureOfLeast ==
    ASSUME Ruled, NEW K, Proper(K)
    PROVE  Proper(ClosureOf(K, Firsts)) /\ Least(ClosureOf(K, Firsts), K)
<1> DEFINE C == ClosureOf(K, Firsts)
           Begun(r) == \E i \in K : ~at_end_of_content(i) /\ rules[r].left \in FirstReach(get_next_symbol(i))
<1>1. \A x : x \in C <=> x \in K \/ \E r \in 1..Len(rules) : x = <<r, 0>> /\ Begun(r)
  <2>1. \A i \in K : \A Y : ~at_end_of_content(i) =>
            (<<get_next_symbol(i), Y>> \in Firsts <=> Y \in FirstReach(get_next_symbol(i)))
    BY FirstsAre, NextIsSymbol
  <2> QED BY <2>1 DEF ClosureOf
<1> HIDE DEF C
<1>2. ASSUME NEW r \in 1..Len(rules)
      PROVE  /\ <<r, 0>> \in Item /\ 0 <= Len(rules[r].right)
             /\ ~at_end_of_content(<<r, 0>>) /\ get_next_symbol(<<r, 0>>) = rules[r].right[1]
  BY RuledRule DEF Item, at_end_of_content, get_next_symbol
<1>3. Proper(C)
  BY <1>1, <1>2 DEF Proper
<1>4. K \subseteq C
  BY <1>1
<1>5. SetClosed(C)
  <2> SUFFICES ASSUME NEW x \in Called(C) PROVE x \in C
    BY DEF SetClosed
  <2>1. PICK i \in C : ~at_end_of_content(i) /\ \E r \in RulesOf(get_next_symbol(i)) : x = <<r, 0>>
    BY CalledOf
  <2>2. PICK r \in RulesOf(get_next_symbol(i)) : x = <<r, 0>>
    BY <2>1
  <2>3. r \in 1..Len(rules) /\ rules[r].left = get_next_symbol(i)
    BY <2>2 DEF RulesOf
  <2>4. CASE i \in K
    <3>1. rules[r].left \in FirstReach(get_next_symbol(i))
      BY <2>3, FirstReached
    <3> QED BY <3>1, <2>1, <2>2, <2>3, <2>4, <1>1
  <2>5. CASE i \notin K
    <3>1. PICK q \in 1..Len(rules) : i = <<q, 0>> /\ Begun(q)
      BY <2>5, <1>1
    <3>2. PICK j \in K : ~at_end_of_content(j) /\ rules[q].left \in FirstReach(get_next_symbol(j))
      BY <3>1
    <3>3. get_next_symbol(i) = rules[q].right[1]
      BY <3>1, <1>2
    <3>4. rules[r].left \in FirstReach(get_next_symbol(j))
      BY <2>3, <3>2, <3>3, FirstReached
    <3> QED BY <3>2, <3>4, <2>2, <2>3, <1>1
  <2> QED BY <2>4, <2>5
<1>6. ASSUME NEW D, K \subseteq D, SetClosed(D), NEW r \in 1..Len(rules), Begun(r)
      PROVE  <<r, 0>> \in D
  <2>1. PICK i \in K : ~at_end_of_content(i) /\ rules[r].left \in FirstReach(get_next_symbol(i))
    BY <1>6
  <2> DEFINE X == get_next_symbol(i)
             T == {B \in FirstReach(X) : \A q \in RulesOf(B) : <<q, 0>> \in D}
  <2>2. ASSUME NEW j \in D, ~at_end_of_content(j), NEW q \in RulesOf(get_next_symbol(j))
        PROVE  <<q, 0>> \in D
    <3>1. <<q, 0>> \in Called(D)
      BY <2>2, CalledOf
    <3> QED BY <3>1, <1>6 DEF SetClosed
  <2>3. X \in T
    BY <2>1, <2>2, <1>6, FirstReached
  <2>4. ASSUME NEW q \in 1..Len(rules), rules[q].left \in T PROVE rules[q].right[1] \in T
    <3>1. q \in RulesOf(rules[q].left) /\ rules[q].right[1] \in FirstReach(X)
      BY <2>4, FirstReached DEF RulesOf
    <3>2. <<q, 0>> \in D
      BY <2>4, <3>1
    <3>3. \A p \in RulesOf(rules[q].right[1]) : <<p, 0>> \in D
      BY <1>2, <2>2, <3>2
    <3> QED BY <3>1, <3>3
  <2>5. FirstReach(X) \subseteq T
    <3> HIDE DEF T, X
    <3> QED BY <2>3, <2>4, FirstReached
  <2>6. r \in RulesOf(rules[r].left)
    BY DEF RulesOf
  <2> QED BY <2>1, <2>5, <2>6
<1>7. Least(C, K)
  BY <1>1, <1>4, <1>5, <1>6 DEF Least
<1> QED BY <1>3, <1>7 DEF C

LEMMA ClosureExact ==
    ASSUME Ruled, NEW items \in Seq(Item), Distinct(items), Proper(ToSet(items))
    PROVE  /\ closure(items) \in Seq(Item) /\ Distinct(closure(items))
           /\ ToSet(closure(items)) = ClosureOf(ToSet(items), Firsts)
BY ClosureLeast, ClosureOfLeast, LeastIsOne

-----------------------------------------------------------------------------
(* The items of a set that go on through X, a symbol further; and the set   *)
(* they lead to.                                                            *)
MovedIn(S, X) == {<<i[1], i[2] + 1>> : i \in {j \in OpenIn(S) : get_next_symbol(j) = X}}
StepTo(S, X) == ClosureOf(MovedIn(S, X), Firsts)

LEMMA MovedInOf ==
    ASSUME NEW S, NEW X, NEW x
    PROVE  x \in MovedIn(S, X) <=> \E i \in S : /\ ~at_end_of_content(i) /\ get_next_symbol(i) = X
                                                /\ x = <<i[1], i[2] + 1>>
BY DEF MovedIn, OpenIn

LEMMA ItemsMoved ==
    ASSUME NEW state \in Seq(Item), Distinct(state), NEW X
    PROVE  /\ moved_items(state, X) \in Seq(Item) /\ Distinct(moved_items(state, X))
           /\ ToSet(moved_items(state, X)) = MovedIn(ToSet(state), X)
<1> DEFINE n == Len(state)
           L == Seq(Item)
           E(l, i) == IF has_transition_through(state[i], X)
                      THEN Append(l, <<state[i][1], state[i][2] + 1>>) ELSE l
<1>1. <<>> \in L /\ n \in Nat
  OBVIOUS
<1>3. /\ n = Len(state) /\ ToSet(state) = {state[i] : i \in 1..n}
      /\ \A i \in 1..n : state[i] \in Item /\ <<state[i][1], state[i][2] + 1>> \in Item
                         /\ state[i] = <<state[i][1], state[i][2]>> /\ state[i][2] \in Nat
      /\ \A i, j \in 1..n : state[i] = state[j] => i = j
  <2>1. n = Len(state) /\ ToSet(state) = {state[i] : i \in 1..n}
    BY ElementsOf
  <2>2. \A i \in 1..n : state[i] \in Item
    OBVIOUS
  <2>3. \A e \in Item : <<e[1], e[2] + 1>> \in Item /\ e = <<e[1], e[2]>> /\ e[2] \in Nat
    BY DEF Item
  <2>4. \A i, j \in 1..n : state[i] = state[j] => i = j
    BY DEF Distinct
  <2> HIDE DEF n
  <2> QED BY <2>1, <2>2, <2>3, <2>4
<1>2. \A i \in 1..n, l \in L : E(l, i) \in L
  <2> SUFFICES ASSUME NEW i \in 1..n, NEW l \in L PROVE E(l, i) \in L
    OBVIOUS
  <2> DEFINE e == <<state[i][1], state[i][2] + 1>>
  <2>1. e \in Item
    BY <1>3
  <2> HIDE DEF e
  <2>2. Append(l, e) \in L
    BY <2>1
  <2> QED BY <2>2 DEF e
<1> HIDE DEF n, L, E

<1>4. \E g : g = [i \in 0..n |-> IF i = 0 THEN <<>> ELSE E(g[i - 1], i)]
  <2> DEFINE step == [i \in 1..n |-> [l \in L |-> E(l, i)]]
  <2>1. StepsOn(L, n, step)
    BY <1>2 DEF StepsOn
  <2> HIDE DEF step
  <2>2. PICK g : Runs(g, L, n, <<>>, step)
    BY <1>1, <2>1, Unrolled
  <2>3. ASSUME NEW i \in 0..n
        PROVE  g[i] = IF i = 0 THEN <<>> ELSE E(g[i - 1], i)
    <3>1. CASE i = 0
      BY <2>2, <3>1 DEF Runs
    <3>2. CASE i # 0
      <4>1. i \in 1..n /\ i - 1 \in 0..n
        BY <3>2, <1>1
      <4>2. g[i - 1] \in L /\ g[i] = step[i][g[i - 1]]
        BY <4>1, <2>2 DEF Runs
      <4> QED BY <3>2, <4>1, <4>2 DEF step
    <3> QED BY <3>1, <3>2
  <2>4. g \in [0..n -> L]
    BY <2>2 DEF Runs
  <2>5. g = [i \in 0..n |-> IF i = 0 THEN <<>> ELSE E(g[i - 1], i)]
    BY <2>3, <2>4
  <2> QED BY <2>5
<1> DEFINE moved == CHOOSE g : g = [i \in 0..n |-> IF i = 0 THEN <<>> ELSE E(g[i - 1], i)]
<1>5. moved = [i \in 0..n |-> IF i = 0 THEN <<>> ELSE E(moved[i - 1], i)]
  BY <1>4, Zenon

<1>6. moved_items(state, X) = moved[n]
  BY Zenon DEF moved_items, moved, E, n
<1> HIDE DEF moved
<1>7. /\ moved[0] = <<>>
      /\ \A i \in 1..n : moved[i] = E(moved[i - 1], i)
  BY <1>1, <1>5

<1> DEFINE c(j) == has_transition_through(state[j], X)
           e(j) == <<state[j][1], state[j][2] + 1>>
           Some(k) == {e(j) : j \in {j \in 1..k : c(j)}}
           I == {k \in 0..n : /\ moved[k] \in L /\ Distinct(moved[k])
                              /\ ToSet(moved[k]) = Some(k)}
<1>8. 0 \in I
  <2>1. ToSet(<<>>) = {} /\ Distinct(<<>>)
    BY DEF ToSet, Distinct
  <2>2. Some(0) = {}
    OBVIOUS
  <2>3. 0 \in 0..n
    BY <1>1
  <2> HIDE DEF Some
  <2> QED BY <1>1, <1>7, <2>1, <2>2, <2>3
<1>9. ASSUME NEW k \in 1..n, k - 1 \in I PROVE k \in I
  <2> DEFINE l == moved[k - 1]
  <2>1. l \in L /\ ToSet(l) = Some(k - 1) /\ Distinct(l) /\ moved[k] = E(l, k) /\ k \in 0..n
    BY <1>7, <1>9, <1>1
  <2>2. moved[k] = IF c(k) THEN Append(l, e(k)) ELSE l
    BY <2>1 DEF E
  <2>3. Some(k) = IF c(k) THEN Some(k - 1) \cup {e(k)} ELSE Some(k - 1)
    <3>1. 1..k = (1..k - 1) \cup {k}
      BY <1>1
    <3> HIDE DEF e, c
    <3> QED BY <3>1
  <2>4. e(k) \notin Some(k - 1)
    <3> SUFFICES ASSUME NEW j \in 1..k - 1, e(j) = e(k) PROVE FALSE
      OBVIOUS
    <3>1. j \in 1..n /\ j # k
      BY <1>1
    <3>2. state[j][1] = state[k][1] /\ state[j][2] + 1 = state[k][2] + 1
      OBVIOUS
    <3>3. state[j] = state[k]
      <4>1. state[j][2] \in Nat /\ state[k][2] \in Nat
        BY <3>1, <1>3
      <4>2. state[j][2] = state[k][2]
        BY <3>2, <4>1
      <4>3. <<state[j][1], state[j][2]>> = <<state[k][1], state[k][2]>>
        BY <3>2, <4>2
      <4> QED BY <3>1, <4>3, <1>3
    <3> QED BY <3>1, <3>3, <1>3
  <2>5. e(k) \in Item
    BY <1>3
  <2> HIDE DEF l, c, e, Some
  <2>6. CASE c(k)
    <3> DEFINE longer == Append(l, e(k))
    <3>1. l \in Seq(Item)
      BY <2>1 DEF L
    <3>2. longer \in Seq(Item)
      BY <3>1, <2>5, AppendSequence
    <3>3. ToSet(longer) = ToSet(l) \cup {e(k)} /\ Distinct(longer)
      BY <3>1, <2>1, <2>4, <2>5, ElementsAppended
    <3> HIDE DEF longer
    <3>4. moved[k] = longer
      BY <2>2, <2>6 DEF longer
    <3> QED BY <3>2, <3>3, <3>4, <2>1, <2>3, <2>6 DEF L
  <2>7. CASE ~c(k)
    BY <2>1, <2>2, <2>3, <2>7
  <2> QED BY <2>6, <2>7
<1>10. n \in I
  <2> HIDE DEF I
  <2> QED BY <1>1, <1>8, <1>9, Reached
<1>11. Some(n) = MovedIn(ToSet(state), X)
  <2>1. \A x : x \in Some(n) <=> \E j \in 1..n : c(j) /\ x = e(j)
    OBVIOUS
  <2>2. \A x : x \in MovedIn(ToSet(state), X) <=> \E j \in 1..n : c(j) /\ x = e(j)
    BY <1>3, MovedInOf DEF has_transition_through
  <2> HIDE DEF Some, c, e
  <2> QED BY <2>1, <2>2
<1> QED BY <1>6, <1>10, <1>11 DEF L

LEMMA MovedProper ==
    ASSUME Ruled, NEW S, Proper(S), NEW X
    PROVE  Proper(MovedIn(S, X))
<1> SUFFICES ASSUME NEW i \in S, ~at_end_of_content(i)
             PROVE  <<i[1], i[2] + 1>> \in Item /\ i[2] + 1 <= Len(rules[i[1]].right)
  BY MovedInOf DEF Proper
<1> QED BY NextIsSymbol, RuledRule DEF Item

LEMMA GotoExact ==
    ASSUME Ruled, NEW state \in Seq(Item), Distinct(state), Proper(ToSet(state)), NEW X
    PROVE  /\ goto_state(state, X) \in Seq(Item) /\ Distinct(goto_state(state, X))
           /\ ToSet(goto_state(state, X)) = StepTo(ToSet(state), X)
           /\ Proper(ToSet(goto_state(state, X)))
<1> DEFINE kernel == moved_items(state, X)
<1>1. goto_state(state, X) = closure(kernel)
  BY Zenon DEF goto_state
<1>2. /\ kernel \in Seq(Item) /\ Distinct(kernel)
      /\ ToSet(kernel) = MovedIn(ToSet(state), X) /\ Proper(ToSet(kernel))
  BY ItemsMoved, MovedProper
<1> HIDE DEF kernel
<1> QED BY <1>1, <1>2, ClosureExact, ClosureOfLeast DEF StepTo

(* A step leads somewhere just when an item goes on through it.             *)
LEMMA StepSomewhere ==
    ASSUME NEW S, NEW X
    PROVE  StepTo(S, X) # {} <=> MovedIn(S, X) # {}
BY DEF StepTo, ClosureOf

LEMMA NextMoves ==
    ASSUME NEW S, NEW X
    PROVE  X \in NextOf(S) <=> MovedIn(S, X) # {}
BY DEF NextOf, MovedIn

-----------------------------------------------------------------------------
(* Finding a state *)

(* States: lists of items in which none is twice. *)
Lists(sts) ==
    /\ sts \in Seq(Seq(Item))
    /\ \A n \in 1..Len(sts) : Distinct(sts[n]) /\ Proper(ToSet(sts[n]))

LEMMA ListsOf ==
    ASSUME NEW sts, Lists(sts)
    PROVE  /\ Len(sts) \in Nat
           /\ \A n \in 1..Len(sts) : /\ sts[n] \in Seq(Item) /\ Distinct(sts[n])
                                     /\ Proper(ToSet(sts[n]))
BY InSequence DEF Lists

LEMMA FoundState ==
    ASSUME NEW sts, Lists(sts), NEW s \in Seq(Item), Distinct(s)
    PROVE  IF find_state(sts, s) = Missing
           THEN \A i \in 1..Len(sts) : ToSet(sts[i]) # ToSet(s)
           ELSE find_state(sts, s) \in 1..Len(sts) /\ ToSet(sts[find_state(sts, s)]) = ToSet(s)
<1> DEFINE equal == {i \in 1..Len(sts) : state_equals(sts[i], s)}
<1>0. Len(sts) \in Nat /\ \A i \in 1..Len(sts) : state_equals(sts[i], s) <=> ToSet(sts[i]) = ToSet(s)
  BY ListsOf, EqualStates
<1>1. CASE equal = {}
  BY <1>0, <1>1 DEF find_state
<1>2. CASE equal # {}
  <2>1. equal \subseteq Nat
    OBVIOUS
  <2>2. \E j \in equal : \A i \in equal : j <= i
    <3> HIDE DEF equal
    <3> QED BY <1>2, <2>1, Smallest
  <2> DEFINE m == CHOOSE i \in equal : \A j \in equal : i <= j
  <2>3. find_state(sts, s) = m
    BY <1>2 DEF find_state
  <2>4. m \in equal
    <3> HIDE DEF equal
    <3> QED BY <2>2
  <2> HIDE DEF m
  <2>5. m \in 1..Len(sts) /\ ToSet(sts[m]) = ToSet(s) /\ m # Missing
    BY <2>4, <1>0 DEF Missing
  <2> QED BY <2>3, <2>5
<1> QED BY <1>1, <1>2

-----------------------------------------------------------------------------
(* The terminals of a right side are added, behind those that are there.    *)
LEMMA SymbolsAdded ==
    ASSUME NEW list \in Seq(Name), NEW content \in Seq(Name)
    PROVE  LET added == add_symbols_in_content(list, content)
           IN  /\ added \in Seq(Name)
               /\ ToSet(added) = ToSet(list) \cup (ToSet(content) \ Nonterminal)
               /\ list # <<>> => added # <<>> /\ added[1] = list[1]
<1> DEFINE n == Len(content)
           L == Seq(Name)
           E(l, i) == add_symbol(l, content[i])
<1>1. list \in L /\ n \in Nat
  OBVIOUS
<1>3. n = Len(content) /\ ToSet(content) = {content[i] : i \in 1..n} /\ \A i \in 1..n : content[i] \in Name
  BY ElementsOf
<1>2. \A i \in 1..n, l \in L : E(l, i) \in L
  <2> SUFFICES ASSUME NEW i \in 1..n, NEW l \in L PROVE E(l, i) \in L
    OBVIOUS
  <2> DEFINE X == content[i]
  <2>1. X \in Name
    OBVIOUS
  <2> HIDE DEF X
  <2>2. add_symbol(l, X) \in L
    BY <2>1 DEF add_symbol, add_if_doesnt_exist
  <2> QED BY <2>2 DEF X
<1> HIDE DEF n, L, E

<1>4. \E g : g = [i \in 0..n |-> IF i = 0 THEN list ELSE E(g[i - 1], i)]
  <2> DEFINE step == [i \in 1..n |-> [l \in L |-> E(l, i)]]
  <2>1. StepsOn(L, n, step)
    BY <1>2 DEF StepsOn
  <2> HIDE DEF step
  <2>2. PICK g : Runs(g, L, n, list, step)
    BY <1>1, <2>1, Unrolled
  <2>3. ASSUME NEW i \in 0..n
        PROVE  g[i] = IF i = 0 THEN list ELSE E(g[i - 1], i)
    <3>1. CASE i = 0
      BY <2>2, <3>1 DEF Runs
    <3>2. CASE i # 0
      <4>1. i \in 1..n /\ i - 1 \in 0..n
        BY <3>2, <1>1
      <4>2. g[i - 1] \in L /\ g[i] = step[i][g[i - 1]]
        BY <4>1, <2>2 DEF Runs
      <4> QED BY <3>2, <4>1, <4>2 DEF step
    <3> QED BY <3>1, <3>2
  <2>4. g \in [0..n -> L]
    BY <2>2 DEF Runs
  <2>5. g = [i \in 0..n |-> IF i = 0 THEN list ELSE E(g[i - 1], i)]
    BY <2>3, <2>4
  <2> QED BY <2>5
<1> DEFINE put == CHOOSE g : g = [i \in 0..n |-> IF i = 0 THEN list ELSE E(g[i - 1], i)]
<1>5. put = [i \in 0..n |-> IF i = 0 THEN list ELSE E(put[i - 1], i)]
  BY <1>4, Zenon

<1>6. add_symbols_in_content(list, content) = put[n]
  BY Zenon DEF add_symbols_in_content, put, E, n
<1> HIDE DEF put
<1>7. /\ put[0] = list
      /\ \A i \in 1..n : put[i] = E(put[i - 1], i)
  BY <1>1, <1>5

<1> DEFINE Some(k) == {content[j] : j \in 1..k} \ Nonterminal
           I == {k \in 0..n : /\ put[k] \in L /\ ToSet(put[k]) = ToSet(list) \cup Some(k)
                              /\ list # <<>> => put[k] # <<>> /\ put[k][1] = list[1]}
<1>8. 0 \in I
  <2>1. Some(0) = {}
    OBVIOUS
  <2>2. 0 \in 0..n
    BY <1>1
  <2> HIDE DEF Some
  <2> QED BY <1>1, <1>7, <2>1, <2>2
<1>9. ASSUME NEW k \in 1..n, k - 1 \in I PROVE k \in I
  <2> DEFINE l == put[k - 1]
             X == content[k]
             longer == Append(l, X)
             keeps == list # <<>> => l # <<>> /\ l[1] = list[1]
  <2>1. /\ l \in Seq(Name) /\ ToSet(l) = ToSet(list) \cup Some(k - 1)
        /\ keeps /\ put[k] = add_symbol(l, X) /\ k \in 0..n
    BY <1>7, <1>9, <1>1 DEF E, L
  <2>2. Some(k) = Some(k - 1) \cup ({X} \ Nonterminal)
    <3>1. 1..k = (1..k - 1) \cup {k}
      BY <1>1
    <3> QED BY <3>1
  <2>3. X \in Name
    BY <1>3
  <2>4. put[k] = IF X \in Nonterminal \/ X \in ToSet(l) THEN l ELSE longer
    <3>1. Contains(l, X) <=> X \in ToSet(l)
      BY <2>1, ElementsOf
    <3> HIDE DEF l, X
    <3> QED BY <2>1, <3>1 DEF add_symbol, add_if_doesnt_exist, isNonterminal
  <2> HIDE DEF l, X, Some
  <2>5. longer \in Seq(Name) /\ ToSet(longer) = ToSet(l) \cup {X} /\ longer # <<>>
        /\ (l # <<>> => longer[1] = l[1])
    <3>1. longer \in Seq(Name) /\ Len(longer) = Len(l) + 1 /\ \A m \in 1..Len(l) : longer[m] = l[m]
      BY <2>1, <2>3, AppendSequence
    <3>2. ToSet(longer) = ToSet(l) \cup {X}
      BY <2>1, <2>3, ElementsAppended
    <3>3. l # <<>> => 1 \in 1..Len(l)
      BY <2>1
    <3>4. Len(l) \in Nat
      BY <2>1
    <3> HIDE DEF longer
    <3>5. longer # <<>>
      <4>1. Len(longer) # 0
        BY <3>1, <3>4
      <4> QED BY <4>1
    <3> QED BY <3>1, <3>2, <3>3, <3>5
  <2>6. CASE X \in Nonterminal \/ X \in ToSet(l)
    <3>1. put[k] = l
      BY <2>4, <2>6
    <3>2. ToSet(l) = ToSet(list) \cup Some(k)
      BY <2>1, <2>2, <2>6
    <3> QED BY <2>1, <3>1, <3>2 DEF L
  <2>7. CASE ~(X \in Nonterminal \/ X \in ToSet(l))
    <3>1. put[k] = longer
      BY <2>4, <2>7
    <3> HIDE DEF longer
    <3>2. ToSet(longer) = ToSet(list) \cup Some(k)
      BY <2>1, <2>2, <2>5, <2>7
    <3> QED BY <2>1, <2>5, <3>1, <3>2 DEF L
  <2> QED BY <2>6, <2>7
<1>10. n \in I
  <2> HIDE DEF I
  <2> QED BY <1>1, <1>8, <1>9, Reached
<1>11. Some(n) = ToSet(content) \ Nonterminal
  BY <1>3
<1> HIDE DEF Some
<1> QED BY <1>6, <1>10, <1>11 DEF L

-----------------------------------------------------------------------------
(* The rows of the tables *)

Cell == [type : {"error", "shift", "reduce", "accept"}, value : Nat]

Leadsto(s, X, n) == n \in State /\ ItemsOf(n) = StepTo(ItemsOf(s), X)

(* What the first j items of state s call for. *)
Complete(s, k) == at_end_of_content(states[s][k])
LeftOf(s, k) == rules[states[s][k][1]].left

Accepts(s, j) == \E k \in 1..j : Complete(s, k) /\ LeftOf(s, k) = "START'"

ReducedBy(s, t, j) ==
    {states[s][k][1] : k \in {k \in 1..j : /\ Complete(s, k) /\ LeftOf(s, k) # "START'"
                                           /\ t \in follow[LeftOf(s, k)]}}

CellMade(s, t, cell, j) ==
    /\ cell \in Cell
    /\ cell.type = "accept" <=> t = "$" /\ Accepts(s, j)
    /\ cell.type = "shift" <=> MovedIn(ItemsOf(s), t) # {} /\ ~(t = "$" /\ Accepts(s, j))
    /\ cell.type = "shift" => Leadsto(s, t, cell.value)
    /\ cell.type = "reduce" => cell.value \in ReducedBy(s, t, j)
    /\ cell.type = "error" => ReducedBy(s, t, j) = {}

RowMade(s, row, j) ==
    /\ row \in [Terminal -> Cell]
    /\ \A t \in Terminal : CellMade(s, t, row[t], j)

LEMMA ReduceMade ==
    ASSUME NEW s \in State, NEW j \in 1..Len(states[s]), Len(states[s]) \in Nat,
           states[s][j] \in Item, NEW row, RowMade(s, row, j - 1)
    PROVE  RowMade(s, make_reduce_from_state(row, states[s][j]), j)
<1> DEFINE item == states[s][j]
           left == LeftOf(s, j)
           new == make_reduce_from_state(row, item)
           Accept == [type |-> "accept", value |-> 0]
           Reduce == [type |-> "reduce", value |-> item[1]]
           takes(t) == /\ Complete(s, j) /\ left # "START'" /\ t \in follow[left]
<1>1. row \in [Terminal -> Cell] /\ \A t \in Terminal : CellMade(s, t, row[t], j - 1)
  BY DEF RowMade
<1>2. 1..j = (1..j - 1) \cup {j}
  OBVIOUS
<1>3. Accepts(s, j) <=> Accepts(s, j - 1) \/ (Complete(s, j) /\ left = "START'")
  BY <1>2 DEF Accepts
<1>4. \A t : ReducedBy(s, t, j) = ReducedBy(s, t, j - 1) \cup (IF takes(t) THEN {item[1]} ELSE {})
  BY <1>2 DEF ReducedBy
<1>5. Accept \in Cell /\ Accept.type = "accept"
  BY DEF Cell
<1>6. Reduce \in Cell /\ Reduce.type = "reduce" /\ Reduce.value = item[1]
  <2>1. item[1] \in Nat
    BY DEF Item
  <2> HIDE DEF item
  <2> QED BY <2>1 DEF Cell
<1>7. CASE ~Complete(s, j)
  <2>1. new = row
    BY <1>7 DEF make_reduce_from_state, Complete
  <2>2. (Accepts(s, j) <=> Accepts(s, j - 1)) /\ \A t : ReducedBy(s, t, j) = ReducedBy(s, t, j - 1)
    BY <1>3, <1>4, <1>7
  <2> HIDE DEF new
  <2> QED BY <1>1, <2>1, <2>2 DEF RowMade, CellMade, new
<1>8. CASE Complete(s, j) /\ left = "START'"
  <2>1. new = [row EXCEPT !["$"] = Accept]
    BY <1>8 DEF make_reduce_from_state, Complete, LeftOf
  <2>2. Accepts(s, j) /\ \A t : ReducedBy(s, t, j) = ReducedBy(s, t, j - 1)
    BY <1>3, <1>4, <1>8
  <2> HIDE DEF new, Accept
  <2>3. new \in [Terminal -> Cell]
    BY <1>1, <1>5, <2>1
  <2>4. ASSUME NEW t \in Terminal PROVE CellMade(s, t, new[t], j)
    <3>1. CASE t = "$"
      <4>1. new[t] = Accept
        BY <3>1, <2>1, <1>1
      <4> QED BY <4>1, <3>1, <2>2, <1>5 DEF CellMade
    <3>2. CASE t # "$"
      <4>1. new[t] = row[t]
        BY <3>2, <2>1, <1>1
      <4> QED BY <4>1, <3>2, <2>2, <1>1 DEF CellMade
    <3> QED BY <3>1, <3>2
  <2>5. RowMade(s, new, j)
    BY <2>3, <2>4 DEF RowMade
  <2> QED BY <2>5 DEF new
<1>9. CASE Complete(s, j) /\ left # "START'"
  <2> DEFINE C(t) == t \in follow[left] /\ row[t].type = "error"
  <2>1. new = [t \in DOMAIN row |-> IF C(t) THEN Reduce ELSE row[t]]
    BY <1>9 DEF make_reduce_from_state, Complete, LeftOf
  <2>2. (Accepts(s, j) <=> Accepts(s, j - 1)) /\ \A t : takes(t) <=> t \in follow[left]
    BY <1>3, <1>9
  <2>3. \A t : C(t) <=> takes(t) /\ row[t].type = "error"
    BY <2>2
  <2> HIDE DEF new, Reduce, C, takes, item, left
  <2>4. new \in [Terminal -> Cell]
    BY <1>1, <1>6, <2>1
  <2>5. ASSUME NEW t \in Terminal PROVE CellMade(s, t, new[t], j)
    <3>1. new[t] = IF C(t) THEN Reduce ELSE row[t]
      BY <2>1, <1>1
    <3>2. CellMade(s, t, row[t], j - 1)
      BY <1>1
    <3>3. CASE C(t)
      <4>1. new[t] = Reduce /\ row[t].type = "error" /\ item[1] \in ReducedBy(s, t, j)
        BY <3>1, <3>3, <2>3, <1>4
      <4>2. ~(t = "$" /\ Accepts(s, j)) /\ ~(MovedIn(ItemsOf(s), t) # {})
        BY <4>1, <3>2, <2>2 DEF CellMade
      <4> QED BY <4>1, <4>2, <1>6 DEF CellMade
    <3>4. CASE ~C(t)
      <4>1. new[t] = row[t] /\ (takes(t) => row[t].type # "error")
        BY <3>1, <3>4, <2>3
      <4>2. /\ \A v \in ReducedBy(s, t, j - 1) : v \in ReducedBy(s, t, j)
            /\ row[t].type = "error" => ReducedBy(s, t, j) = ReducedBy(s, t, j - 1)
        BY <4>1, <1>4
      <4> QED BY <4>1, <4>2, <3>2, <2>2 DEF CellMade
    <3> QED BY <3>3, <3>4
  <2>6. RowMade(s, new, j)
    BY <2>4, <2>5 DEF RowMade
  <2> QED BY <2>6 DEF new, item
<1> QED BY <1>7, <1>8, <1>9

LEMMA ReducesMade ==
    ASSUME NEW s \in State, states[s] \in Seq(Item), NEW row, RowMade(s, row, 0)
    PROVE  RowMade(s, make_reduces(row, states[s]), Len(states[s]))
<1> DEFINE state == states[s]
           n == Len(state)
           L == [Terminal -> Cell]
           E(r, j) == make_reduce_from_state(r, state[j])
<1>1. row \in L /\ n \in Nat
  BY DEF RowMade
<1>3. \A j \in 1..n : state[j] \in Item
  OBVIOUS
<1>2. \A j \in 1..n, r \in L : E(r, j) \in L
  <2> SUFFICES ASSUME NEW j \in 1..n, NEW r \in L PROVE E(r, j) \in L
    OBVIOUS
  <2> DEFINE item == state[j]
  <2>1. item \in Item
    BY <1>3
  <2> HIDE DEF item
  <2>2. item[1] \in Nat
    BY <2>1 DEF Item
  <2>3. make_reduce_from_state(r, item) \in L
    BY <2>2 DEF make_reduce_from_state, Cell
  <2> QED BY <2>3 DEF item
<1> HIDE DEF n, L, E
<1>4. \E g : g = [j \in 0..n |-> IF j = 0 THEN row ELSE E(g[j - 1], j)]
  <2> DEFINE step == [j \in 1..n |-> [l \in L |-> E(l, j)]]
  <2>1. StepsOn(L, n, step)
    BY <1>2 DEF StepsOn
  <2> HIDE DEF step
  <2>2. PICK g : Runs(g, L, n, row, step)
    BY <1>1, <2>1, Unrolled
  <2>3. ASSUME NEW j \in 0..n
        PROVE  g[j] = IF j = 0 THEN row ELSE E(g[j - 1], j)
    <3>1. CASE j = 0
      BY <2>2, <3>1 DEF Runs
    <3>2. CASE j # 0
      <4>1. j \in 1..n /\ j - 1 \in 0..n
        BY <3>2, <1>1
      <4>2. g[j - 1] \in L /\ g[j] = step[j][g[j - 1]]
        BY <4>1, <2>2 DEF Runs
      <4> QED BY <3>2, <4>1, <4>2 DEF step
    <3> QED BY <3>1, <3>2
  <2>4. g \in [0..n -> L]
    BY <2>2 DEF Runs
  <2>5. g = [j \in 0..n |-> IF j = 0 THEN row ELSE E(g[j - 1], j)]
    BY <2>3, <2>4
  <2> QED BY <2>5
<1> DEFINE steps == CHOOSE g : g = [j \in 0..n |-> IF j = 0 THEN row ELSE E(g[j - 1], j)]
<1>5. steps = [j \in 0..n |-> IF j = 0 THEN row ELSE E(steps[j - 1], j)]
  BY <1>4, Zenon

<1>6. make_reduces(row, state) = steps[n]
  BY Zenon DEF make_reduces, steps, E, n
<1> HIDE DEF steps
<1>7. /\ steps[0] = row
      /\ \A j \in 1..n : steps[j] = E(steps[j - 1], j)
  <2>1. 0 \in 0..n /\ \A i \in 1..n : i \in 0..n /\ i # 0
    BY <1>1
  <2> QED BY <2>1, <1>5
<1> DEFINE I == {j \in 0..n : RowMade(s, steps[j], j)}
<1>8. 0 \in I
  BY <1>1, <1>7
<1>9. ASSUME NEW j \in 1..n, j - 1 \in I PROVE j \in I
  <2>1. RowMade(s, steps[j - 1], j - 1) /\ steps[j] = make_reduce_from_state(steps[j - 1], states[s][j])
    BY <1>7, <1>9 DEF E
  <2>2. states[s][j] \in Item /\ j \in 1..Len(states[s]) /\ Len(states[s]) \in Nat /\ j \in 0..n
    BY <1>1, <1>3 DEF n
  <2>3. RowMade(s, steps[j], j)
    BY <2>1, <2>2, ReduceMade
  <2> QED BY <2>2, <2>3
<1>10. n \in I
  <2> HIDE DEF I
  <2> QED BY <1>1, <1>8, <1>9, Reached
<1> QED BY <1>6, <1>10 DEF n

-----------------------------------------------------------------------------
(* The invariant of the generator *)

Stages == {"rules", "start", "states", "symbols", "follow", "transitions", "reduces", "ready"}

(* The start rule is the last; it is there as soon as the states are made.  *)
RulesOK == \E g \in Grammars : rules = IF stage = "rules" THEN g ELSE Append(g, StartRule)

(* The symbols behind the dots of state m for which the loop has been through. *)
Visited(m) ==
    IF stage # "states" \/ m < at THEN NextOf(ItemsOf(m))
    ELSE IF m = at
    THEN LET listed == get_possible_transition_symbols(states[m])
         IN  {listed[k] : k \in {k \in 1..Len(listed) : k < turn}}
    ELSE {}

Found(S) == \E n \in State : ItemsOf(n) = S

(* No state is there twice; the first is that of the start, every other one *)
(* comes from a step of one before it; and a step that the loop has been    *)
(* through leads to one of them.                                            *)
StatesOK ==
    /\ Lists(states)
    /\ \A i, j \in State : ItemsOf(i) = ItemsOf(j) => i = j
    /\ stage \in {"rules", "start"} <=> states = <<>>
    /\ states = <<>> => at = 1 /\ turn = 1
    /\ stage \notin {"rules", "start"} =>
           /\ ItemsOf(1) = ClosureOf({<<Len(rules), 0>>}, Firsts)
           /\ \A n \in State \ {1} : \E m \in 1..n - 1 : \E X \in NextOf(ItemsOf(m)) :
                  ItemsOf(n) = StepTo(ItemsOf(m), X)
           /\ \A m \in State : \A X \in Visited(m) : Found(StepTo(ItemsOf(m), X))

(* The terminals of the rules that have been gone through.                  *)
TermsOf(n) == (UNION {ToSet(rules[r].right) : r \in 1..n}) \ Nonterminal

Through ==
    IF stage \in {"rules", "start", "states"} THEN 0
    ELSE IF stage = "symbols" THEN at - 1 ELSE Len(rules)

TerminalsOK ==
    /\ terminals \in Seq(Name) /\ Through \in 0..Len(rules)
    /\ ToSet(terminals) = TermsOf(Through)
    /\ Through = Len(rules) => terminals # <<>> /\ terminals[1] # "$"

GotosMade(s, row) ==
    /\ row \in [nonterminal_list -> Nat]
    /\ \A A \in nonterminal_list :
           IF MovedIn(ItemsOf(s), A) = {} THEN row[A] = Missing ELSE Leadsto(s, A, row[A])

(* So many items of state s have been gone through for reductions.          *)
Reduces(s) ==
    IF stage = "ready" \/ (stage = "reduces" /\ s < at) THEN Len(states[s]) ELSE 0

TablesOK ==
    stage \in {"transitions", "reduces", "ready"} =>
        /\ actionTable \in [State -> [Terminal -> Cell]]
        /\ gotoTable \in [State -> [nonterminal_list -> Nat]]
        /\ \A s \in State :
               IF stage = "transitions" /\ s >= at
               THEN /\ actionTable[s] = [t \in Terminal |-> ErrorCell]
                    /\ gotoTable[s] = [A \in nonterminal_list |-> Missing]
               ELSE /\ RowMade(s, actionTable[s], Reduces(s))
                    /\ GotosMade(s, gotoTable[s])

GInv ==
    /\ stage \in Stages /\ at \in Nat \ {0} /\ turn \in Nat \ {0}
    /\ RulesOK /\ StatesOK /\ TerminalsOK /\ TablesOK

-----------------------------------------------------------------------------
(* What the grammars are assumed to be. *)
LEMMA GrammarRules ==
    ASSUME NEW g \in Grammars
    PROVE  /\ g \in Seq(RuleOf(Name)) /\ Len(g) \in Nat \ {0}
           /\ \A r \in 1..Len(g) :
                  /\ g[r].left \in Nonterminal /\ g[r].left # "START'" /\ g[r].right # <<>>
                  /\ g[r].left \in STRING /\ g[r].right \in Seq(STRING)
                  /\ \A i \in 1..Len(g[r].right) : g[r].right[i] # "START'" /\ g[r].right[i] # "$"
           /\ \E r \in 1..Len(g) : \E i \in 1..Len(g[r].right) : g[r].right[i] \notin Nonterminal
<1>1. /\ g \in Seq(RuleOf(STRING))
      /\ \A r \in 1..Len(g) :
             /\ g[r].left \in Nonterminal \ {"START'"} /\ g[r].right # <<>>
             /\ \A i \in 1..Len(g[r].right) : g[r].right[i] \notin {"START'", "$"}
      /\ \E r \in 1..Len(g) : \E i \in 1..Len(g[r].right) : g[r].right[i] \notin Nonterminal
  BY GrammarsAssumption DEF RuleOf
<1>2. \A r \in 1..Len(g) : g[r].left \in STRING /\ g[r].right \in Seq(STRING) /\ g[r] \in RuleOf(Name)
  <2> SUFFICES ASSUME NEW r \in 1..Len(g)
               PROVE  g[r].left \in STRING /\ g[r].right \in Seq(STRING) /\ g[r] \in RuleOf(Name)
    OBVIOUS
  <2>1. g[r] \in RuleOf(STRING)
    BY <1>1, InSequence
  <2>2. STRING \subseteq Name
    BY DEF Name
  <2> HIDE DEF Name
  <2>3. g[r].left \in STRING /\ g[r].left \in Name /\ g[r].right \in Seq(STRING)
    BY <2>1, <2>2 DEF RuleOf
  <2>4. g[r].right \in Seq(Name)
    <3> DEFINE s == g[r].right
    <3>1. s \in Seq(STRING)
      BY <2>3
    <3> HIDE DEF s
    <3>2. \A i \in 1..Len(s) : s[i] \in Name
      BY <3>1, <2>2, InSequence
    <3>3. s \in Seq(Name)
      BY <3>1, <3>2, IsSequenceOf
    <3> QED BY <3>3 DEF s
  <2>5. g[r] = [left |-> g[r].left, right |-> g[r].right]
    BY <2>1 DEF RuleOf
  <2> QED BY <2>3, <2>4, <2>5 DEF RuleOf
<1>3. g \in Seq(RuleOf(Name))
  BY <1>1, <1>2, IsSequenceOf
<1>4. Len(g) \in Nat \ {0}
  <2>1. Len(g) \in Nat
    BY <1>1
  <2>2. Len(g) # 0
    BY <1>1
  <2> QED BY <2>1, <2>2
<1> QED BY <1>1, <1>2, <1>3, <1>4

(* With the start rule behind them. *)
Started ==
    /\ Len(rules) \in Nat \ {0} /\ rules[Len(rules)] = StartRule
    /\ \A r \in 1..Len(rules) - 1 :
           /\ rules[r].left # "START'"
           /\ \A i \in 1..Len(rules[r].right) :
                  rules[r].right[i] # "START'" /\ rules[r].right[i] # "$"
    /\ \E r \in 1..Len(rules) - 1 : \E i \in 1..Len(rules[r].right) :
           rules[r].right[i] \notin Nonterminal

LEMMA StartRuleIs ==
    /\ StartRule \in RuleOf(Name) /\ StartRule.left = "START'" /\ StartRule.left \in Nonterminal
    /\ StartRule.right = <<"PROGRAM", "$">> /\ StartRule.right # <<>> /\ Len(StartRule.right) = 2
    /\ StartRule.right[1] = "PROGRAM" /\ StartRule.right[2] = "$" /\ "$" \notin Nonterminal
    /\ "PROGRAM" \in Nonterminal
<1>1. {"START'", "PROGRAM", "$"} \subseteq Name
  BY DEF Name
<1>2. "START'" \in Name /\ <<"PROGRAM", "$">> \in Seq(Name)
  <2> HIDE DEF Name
  <2> QED BY <1>1
<1>3. StartRule \in RuleOf(Name)
  BY <1>2 DEF StartRule, RuleOf
<1>4. {"START'", "PROGRAM"} \subseteq Nonterminal /\ "$" \notin Nonterminal
  BY GrammarsAssumption
<1> QED BY <1>3, <1>4 DEF StartRule

LEMMA RulesGiven ==
    ASSUME RulesOK
    PROVE  Ruled /\ (stage # "rules" => Started)
<1>1. PICK g \in Grammars : rules = IF stage = "rules" THEN g ELSE Append(g, StartRule)
  BY DEF RulesOK
<1> DEFINE n == Len(g)
<1>2. /\ g \in Seq(RuleOf(Name)) /\ n \in Nat \ {0}
      /\ \A r \in 1..n : /\ g[r].left \in Nonterminal /\ g[r].left # "START'" /\ g[r].right # <<>>
                         /\ \A i \in 1..Len(g[r].right) : g[r].right[i] # "START'" /\ g[r].right[i] # "$"
      /\ \E r \in 1..n : \E i \in 1..Len(g[r].right) : g[r].right[i] \notin Nonterminal
  BY GrammarRules
<1>3. CASE stage = "rules"
  <2>1. rules = g
    BY <1>1, <1>3
  <2> QED BY <2>1, <1>2, <1>3 DEF Ruled
<1>4. CASE stage # "rules"
  <2>1. rules = Append(g, StartRule)
    BY <1>1, <1>4
  <2>2. /\ rules \in Seq(RuleOf(Name)) /\ Len(rules) = n + 1
        /\ rules[n + 1] = StartRule /\ \A r \in 1..n : rules[r] = g[r]
    BY <2>1, <1>2, StartRuleIs, AppendSequence
  <2> HIDE DEF n
  <2>3. Ruled
    <3>1. ASSUME NEW r \in 1..Len(rules)
          PROVE  rules[r].right # <<>> /\ rules[r].left \in Nonterminal
      <4>1. r \in 1..n \/ r = n + 1
        BY <2>2, <1>2
      <4> QED BY <4>1, <2>2, <1>2, StartRuleIs
    <3> QED BY <2>2, <3>1 DEF Ruled
  <2>4. Started
    <3>1. Len(rules) - 1 = n /\ Len(rules) \in Nat \ {0}
      BY <2>2, <1>2
    <3>2. rules[Len(rules)] = StartRule
      BY <2>2
    <3>3. \E r \in 1..n : \E i \in 1..Len(rules[r].right) : rules[r].right[i] \notin Nonterminal
      BY <2>2, <1>2
    <3>4. \A r \in 1..n :
              /\ rules[r].left # "START'"
              /\ \A i \in 1..Len(rules[r].right) :
                     rules[r].right[i] # "START'" /\ rules[r].right[i] # "$"
      BY <2>2, <1>2
    <3> QED BY <3>1, <3>2, <3>3, <3>4 DEF Started
  <2> QED BY <2>3, <2>4
<1> QED BY <1>3, <1>4

LEMMA ItemsAre ==
    ASSUME Ruled, Lists(states), NEW s \in State
    PROVE  /\ ItemsOf(s) = ToSet(states[s]) /\ Proper(ItemsOf(s)) /\ ItemsOf(s) \subseteq Item
           /\ states[s] \in Seq(Item) /\ Distinct(states[s])
           /\ ToSet(get_possible_transition_symbols(states[s])) = NextOf(ItemsOf(s))
           /\ \A X : /\ goto_state(states[s], X) \in Seq(Item) /\ Distinct(goto_state(states[s], X))
                     /\ ToSet(goto_state(states[s], X)) = StepTo(ItemsOf(s), X)
                     /\ Proper(ToSet(goto_state(states[s], X)))
<1>1. states[s] \in Seq(Item) /\ Distinct(states[s]) /\ Proper(ToSet(states[s]))
  BY ListsOf DEF State
<1>2. ItemsOf(s) = ToSet(states[s]) /\ ToSet(states[s]) \subseteq Item
  BY <1>1, ElementsOf DEF ItemsOf
<1>3. ToSet(get_possible_transition_symbols(states[s])) = NextOf(ToSet(states[s]))
  BY <1>1, SymbolsListed, RuledRule
<1> QED BY <1>1, <1>2, <1>3, GotoExact

-----------------------------------------------------------------------------
(* What stays as long as the rules, and the states, stay.                   *)

LEMMA RulesSame ==
    ASSUME UNCHANGED rules
    PROVE  /\ Item' = Item /\ Firsts' = Firsts /\ (Ruled' <=> Ruled) /\ (Started' <=> Started)
           /\ \A K, F : ClosureOf(K, F)' = ClosureOf(K, F)
           /\ \A S : NextOf(S)' = NextOf(S) /\ (Proper(S)' <=> Proper(S))
           /\ \A S, X : MovedIn(S, X)' = MovedIn(S, X) /\ StepTo(S, X)' = StepTo(S, X)
           /\ \A n : TermsOf(n)' = TermsOf(n)
           /\ nonterminal_list' = nonterminal_list
           /\ \A s : get_possible_transition_symbols(s)' = get_possible_transition_symbols(s)
<1>1. Item' = Item /\ (Ruled' <=> Ruled) /\ (Started' <=> Started)
  BY DEF Item, Ruled, Started
<1>2. Firsts' = Firsts
  <2>1. Symbols' = Symbols /\ FirstSteps(rules)' = FirstSteps(rules)
    BY DEF Symbols, FirstSteps
  <2> QED BY <2>1 DEF Firsts, Closure
<1>3. \A i : (at_end_of_content(i)' <=> at_end_of_content(i)) /\ get_next_symbol(i)' = get_next_symbol(i)
  BY DEF at_end_of_content, get_next_symbol
<1>4. \A K, F : ClosureOf(K, F)' = ClosureOf(K, F)
  BY <1>3 DEF ClosureOf
<1>5. \A S : NextOf(S)' = NextOf(S) /\ (Proper(S)' <=> Proper(S))
  BY <1>1, <1>3 DEF NextOf, OpenIn, Proper
<1>6. \A S, X : MovedIn(S, X)' = MovedIn(S, X)
  BY <1>3 DEF MovedIn, OpenIn
<1>7. \A S, X : StepTo(S, X)' = StepTo(S, X)
  BY <1>2, <1>4, <1>6 DEF StepTo
<1>8. (\A n : TermsOf(n)' = TermsOf(n)) /\ nonterminal_list' = nonterminal_list
  BY DEF TermsOf, nonterminal_list, isNonterminal
<1>9. \A s : get_possible_transition_symbols(s)' = get_possible_transition_symbols(s)
  BY <1>3 DEF get_possible_transition_symbols
<1> QED BY <1>1, <1>2, <1>4, <1>5, <1>6, <1>7, <1>8, <1>9

LEMMA StatesSame ==
    ASSUME UNCHANGED <<rules, states>>
    PROVE  /\ State' = State /\ (Lists(states)' <=> Lists(states))
           /\ \A s : ItemsOf(s)' = ItemsOf(s)
           /\ \A S : Found(S)' <=> Found(S)
           /\ \A s, X, n : Leadsto(s, X, n)' <=> Leadsto(s, X, n)
<1>1. State' = State /\ \A s : ItemsOf(s)' = ItemsOf(s)
  BY DEF State, ItemsOf
<1>2. Lists(states)' <=> Lists(states)
  BY RulesSame DEF Lists
<1>3. \A S : Found(S)' <=> Found(S)
  BY <1>1 DEF Found
<1>4. \A s, X, n : Leadsto(s, X, n)' <=> Leadsto(s, X, n)
  BY <1>1, RulesSame DEF Leadsto
<1> QED BY <1>1, <1>2, <1>3, <1>4

LEMMA StatesKept ==
    ASSUME StatesOK, UNCHANGED <<rules, states>>,
           stage \notin {"rules", "start"}, stage' \notin {"rules", "start"},
           \A m \in State : Visited(m)' \subseteq Visited(m)
    PROVE  StatesOK'
<1>1. /\ Lists(states)'
      /\ \A i, j \in State' : ItemsOf(i)' = ItemsOf(j)' => i = j
  BY StatesSame DEF StatesOK
<1>2. states' # <<>>
  BY DEF StatesOK
<1>3. ItemsOf(1)' = ClosureOf({<<Len(rules), 0>>}, Firsts)'
  BY StatesSame, RulesSame DEF StatesOK
<1>4. \A n \in State' \ {1} : \E m \in 1..n - 1 : \E X \in NextOf(ItemsOf(m))' :
          ItemsOf(n)' = StepTo(ItemsOf(m), X)'
  BY StatesSame, RulesSame DEF StatesOK
<1>5. \A m \in State' : \A X \in Visited(m)' : Found(StepTo(ItemsOf(m), X))'
  <2> SUFFICES ASSUME NEW m \in State, NEW X \in Visited(m)'
               PROVE  Found(StepTo(ItemsOf(m), X))'
    BY StatesSame
  <2>1. Found(StepTo(ItemsOf(m), X))
    BY DEF StatesOK
  <2>2. StepTo(ItemsOf(m), X)' = StepTo(ItemsOf(m), X)
    BY StatesSame, RulesSame
  <2>3. \E n \in State : ItemsOf(n) = StepTo(ItemsOf(m), X)
    BY <2>1 DEF Found
  <2>4. \E n \in State' : ItemsOf(n)' = StepTo(ItemsOf(m), X)'
    BY <2>2, <2>3, StatesSame
  <2> QED BY <2>4 DEF Found
<1> QED BY <1>1, <1>2, <1>3, <1>4, <1>5 DEF StatesOK

LEMMA RulesKept ==
    ASSUME RulesOK, UNCHANGED rules, stage # "rules", stage' # "rules"
    PROVE  RulesOK'
BY DEF RulesOK

-----------------------------------------------------------------------------
(* The operations, from the first *)

LEMMA NoTerms == TermsOf(0) = {} /\ TermsOf(0)' = {}
BY DEF TermsOf

LEMMA GInvInit == TablesInit => GInv
<1> SUFFICES ASSUME TablesInit PROVE GInv
  OBVIOUS
<1>1. /\ rules \in Grammars /\ states = <<>> /\ terminals = <<>> /\ stage = "rules"
      /\ at = 1 /\ turn = 1
  BY DEF TablesInit
<1>2. RulesOK
  BY <1>1 DEF RulesOK
<1>3. Len(rules) \in Nat \ {0}
  BY <1>1, GrammarRules
<1>4. StatesOK
  <2>1. Lists(states)
    BY <1>1 DEF Lists
  <2>2. State = {}
    BY <1>1 DEF State
  <2> QED BY <2>1, <2>2, <1>1 DEF StatesOK
<1>5. TerminalsOK
  <2>1. Through = 0 /\ terminals \in Seq(Name) /\ ToSet(terminals) = {}
    BY <1>1 DEF Through, ToSet
  <2> QED BY <2>1, <1>3, NoTerms DEF TerminalsOK
<1> QED BY <1>1, <1>2, <1>4, <1>5 DEF GInv, Stages, TablesOK

LEMMA StartingRule ==
    ASSUME GInv, add_starting_rule
    PROVE  GInv'
<1>1. /\ stage = "rules" /\ stage' = "start" /\ rules' = Append(rules, StartRule)
      /\ UNCHANGED <<states, terminals, at, turn>>
  BY DEF add_starting_rule
<1>2. rules \in Grammars
  BY <1>1 DEF GInv, RulesOK
<1>3. RulesOK'
  BY <1>1, <1>2 DEF RulesOK
<1>4. Len(rules') \in Nat \ {0}
  <2>1. rules \in Seq(RuleOf(Name)) /\ Len(rules) \in Nat
    BY <1>2, GrammarRules
  <2>2. Len(rules') = Len(rules) + 1
    BY <1>1, <2>1, StartRuleIs, AppendSequence
  <2> QED BY <2>1, <2>2
<1>5. states' = <<>> /\ at' = 1 /\ turn' = 1
  BY <1>1 DEF GInv, StatesOK
<1>6. StatesOK'
  <2>1. Lists(states)'
    BY <1>5 DEF Lists
  <2>2. State' = {}
    BY <1>5 DEF State
  <2> QED BY <2>1, <2>2, <1>1, <1>5 DEF StatesOK
<1>7. TerminalsOK'
  <2>1. Through = 0 /\ Through' = 0
    BY <1>1 DEF Through
  <2>2. terminals' \in Seq(Name) /\ ToSet(terminals)' = {}
    BY <1>1, <2>1, NoTerms DEF GInv, TerminalsOK
  <2> QED BY <2>1, <2>2, <1>4, NoTerms DEF TerminalsOK
<1> QED BY <1>1, <1>3, <1>6, <1>7 DEF GInv, Stages, TablesOK

LEMMA StartingState ==
    ASSUME GInv, init_starting_state
    PROVE  GInv'
<1> DEFINE e == <<Len(rules), 0>>
           kernel == <<e>>
           first == closure(kernel)
<1>1. /\ stage = "start" /\ stage' = "states" /\ states' = <<first>>
      /\ UNCHANGED <<rules, terminals, at, turn>>
  BY DEF init_starting_state
<1>2. Ruled /\ Started
  BY <1>1, RulesGiven DEF GInv
<1>3. kernel \in Seq(Item) /\ Distinct(kernel) /\ ToSet(kernel) = {e} /\ Proper({e})
  <2>1. Len(rules) \in 1..Len(rules)
    BY <1>2 DEF Started
  <2>2. e \in Item /\ 0 <= Len(rules[Len(rules)].right)
    BY <2>1, <1>2, RuledRule DEF Item
  <2>3. e[1] = Len(rules) /\ e[2] = 0
    OBVIOUS
  <2>4. Proper({e})
    BY <2>2, <2>3 DEF Proper
  <2> HIDE DEF e
  <2>5. kernel \in Seq(Item) /\ Distinct(kernel) /\ ToSet(kernel) = {e}
    BY <2>2 DEF Distinct, ToSet
  <2> QED BY <2>4, <2>5
<1>4. first \in Seq(Item) /\ Distinct(first) /\ ToSet(first) = ClosureOf({e}, Firsts)
      /\ Proper(ToSet(first))
  <2> HIDE DEF kernel, e
  <2> QED BY <1>2, <1>3, ClosureExact, ClosureOfLeast
<1> HIDE DEF first, kernel
<1>5. states' \in Seq(Seq(Item)) /\ Len(states') = 1 /\ states'[1] = first
  <2> DEFINE S == Seq(Item)
  <2>1. first \in S
    BY <1>4
  <2> HIDE DEF S
  <2>2. states' \in Seq(S)
    BY <2>1, <1>1
  <2> QED BY <2>2, <1>1 DEF S
<1>6. Lists(states)'
  BY <1>1, <1>4, <1>5, RulesSame DEF Lists
<1>7. State' = {1} /\ ItemsOf(1)' = ToSet(first)
  <2>1. State' = {1}
    BY <1>5 DEF State
  <2>2. ItemsOf(1)' = {first[i] : i \in 1..Len(first)}
    BY <1>5 DEF ItemsOf
  <2> QED BY <2>1, <2>2, <1>4, ElementsOf
<1>8. Visited(1)' = {}
  <2>1. at' = 1 /\ turn' = 1 /\ stage' = "states"
    BY <1>1 DEF GInv, StatesOK
  <2> DEFINE listed == get_possible_transition_symbols(states[1])'
  <2>2. Visited(1)' = {listed[k] : k \in {k \in 1..Len(listed) : k < 1}}
    BY <2>1 DEF Visited
  <2> HIDE DEF listed
  <2> QED BY <2>2
<1>9. StatesOK'
  <2>1. ItemsOf(1)' = ClosureOf({<<Len(rules), 0>>}, Firsts)'
    BY <1>1, <1>4, <1>7, RulesSame
  <2>2. states' # <<>>
    <3>1. 1 \in State'
      BY <1>7
    <3> QED BY <3>1 DEF State
  <2> QED BY <2>1, <2>2, <1>1, <1>6, <1>7, <1>8 DEF StatesOK
<1>10. RulesOK' /\ TablesOK'
  BY <1>1, RulesKept DEF GInv, TablesOK
<1>11. TerminalsOK'
  BY <1>1, RulesSame DEF GInv, TerminalsOK, Through
<1> QED BY <1>1, <1>9, <1>10, <1>11 DEF GInv, Stages

LEMMA NewState ==
    ASSUME GInv, create_a_new_state_for_single_transition
    PROVE  GInv'
<1> DEFINE listed == get_possible_transition_symbols(states[at])
           X == listed[turn]
           new == goto_state(states[at], X)
           N == Len(states)
<1>1. /\ stage = "states" /\ at <= N /\ turn <= Len(listed)
      /\ states' = IF new # <<>> /\ find_state(states, new) = Missing
                   THEN Append(states, new) ELSE states
      /\ UNCHANGED <<rules, terminals, stage, at>> /\ turn' = turn + 1
  BY DEF create_a_new_state_for_single_transition
<1>2. Ruled /\ Started
  BY <1>1, RulesGiven DEF GInv
<1>3. Lists(states) /\ N \in Nat /\ at \in State /\ turn \in Nat \ {0}
  BY <1>1, ListsOf DEF GInv, StatesOK, State
<1>4. /\ new \in Seq(Item) /\ Distinct(new) /\ Proper(ToSet(new))
      /\ ToSet(new) = StepTo(ItemsOf(at), X)
      /\ ToSet(listed) = NextOf(ItemsOf(at))
  BY <1>2, <1>3, ItemsAre
<1>5. listed \in Seq(NextSymbol)
  <2>1. states[at] \in Seq(Item) /\ Len(rules) \in Nat
    BY <1>2, <1>3, ItemsAre, RuledRule
  <2> QED BY <2>1, SymbolsListed
<1> HIDE DEF listed
<1>6. turn \in 1..Len(listed) /\ X \in NextOf(ItemsOf(at))
  <2>1. turn \in 1..Len(listed)
    BY <1>1, <1>3, <1>5
  <2> QED BY <2>1, <1>4, <1>5, ElementsOf
<1>7. StepTo(ItemsOf(at), X) # {}
  BY <1>6, NextMoves, StepSomewhere
<1> HIDE DEF X, new
<1>8. new # <<>>
  <2>1. ToSet(<<>>) = {}
    BY DEF ToSet
  <2> QED BY <2>1, <1>4, <1>7
<1> DEFINE Known == find_state(states, new) # Missing
<1>9. IF Known THEN states' = states /\ Found(ToSet(new))
      ELSE states' = Append(states, new) /\ \A i \in State : ItemsOf(i) # ToSet(new)
  <2>1. IF find_state(states, new) = Missing
        THEN \A i \in 1..N : ToSet(states[i]) # ToSet(new)
        ELSE find_state(states, new) \in 1..N /\ ToSet(states[find_state(states, new)]) = ToSet(new)
    BY <1>3, <1>4, FoundState
  <2>2. \A i \in State : ItemsOf(i) = ToSet(states[i])
    BY <1>2, <1>3, ItemsAre
  <2>3. State = 1..N
    BY DEF State
  <2> QED BY <2>1, <2>2, <2>3, <1>1, <1>8 DEF Found
(* The states that were there stay, and the one that was sought is there.   *)
<1>10. /\ Lists(states') /\ State \subseteq State'
       /\ \A i \in State : ItemsOf(i)' = ItemsOf(i) /\ states'[i] = states[i]
       /\ \A i, j \in State' : ItemsOf(i)' = ItemsOf(j)' => i = j
       /\ \A i \in State' : i \in State \/ (i = N + 1 /\ ItemsOf(i)' = ToSet(new))
       /\ \E n \in State' : ItemsOf(n)' = ToSet(new)
  <2>0. \A i, j \in State : ItemsOf(i) = ItemsOf(j) => i = j
    BY DEF GInv, StatesOK
  <2>1. CASE Known
    <3>1. State' = State /\ \A i : ItemsOf(i)' = ItemsOf(i)
      BY <1>9, <2>1 DEF State, ItemsOf
    <3> QED BY <3>1, <2>0, <2>1, <1>3, <1>9 DEF Found
  <2>2. CASE ~Known
    <3>1. /\ states' \in Seq(Seq(Item)) /\ Len(states') = N + 1
          /\ states'[N + 1] = new /\ \A i \in 1..N : states'[i] = states[i]
      <4> DEFINE S == Seq(Item)
      <4>1. states \in Seq(S) /\ new \in S
        BY <1>3, <1>4 DEF Lists
      <4>2. states' = Append(states, new)
        BY <1>9, <2>2
      <4> HIDE DEF S, N
      <4>3. /\ states' \in Seq(S) /\ Len(states') = Len(states) + 1
            /\ states'[Len(states) + 1] = new /\ \A i \in 1..Len(states) : states'[i] = states[i]
        BY <4>1, <4>2, AppendSequence
      <4> QED BY <4>3 DEF S, N
    <3>2. State' = 1..N + 1 /\ State = 1..N
      BY <3>1 DEF State
    <3>3. \A i \in State : ItemsOf(i)' = ItemsOf(i) /\ states'[i] = states[i]
      BY <3>1, <3>2 DEF ItemsOf
    <3>0. PICK last : last = N + 1
      OBVIOUS
    <3>4. ItemsOf(last)' = ToSet(new)
      <4>1. ItemsOf(last)' = {new[i] : i \in 1..Len(new)}
        BY <3>0, <3>1 DEF ItemsOf
      <4> QED BY <4>1, <1>4, ElementsOf
    <3> HIDE DEF N, Known
    <3>5. \A i \in State' : i \in State \/ i = last
      BY <3>0, <3>2, <1>3
    <3>6. State \subseteq State' /\ last \in State'
      BY <3>0, <3>2, <1>3
    <3>7. Lists(states')
      <4>1. ASSUME NEW i \in 1..Len(states')
            PROVE  Distinct(states'[i]) /\ Proper(ToSet(states'[i]))
        <5>1. i \in State \/ i = N + 1
          BY <3>0, <3>1, <3>2, <3>5
        <5>2. \A j \in State : Distinct(states[j]) /\ Proper(ToSet(states[j]))
          BY <1>3, ListsOf DEF State
        <5> QED BY <5>1, <5>2, <3>1, <3>3, <1>4
      <4> QED BY <4>1, <3>1 DEF Lists
    <3>8. \A i \in State : ItemsOf(i)' # ItemsOf(last)'
      BY <3>3, <3>4, <1>9, <2>2
    <3> QED BY <3>0, <3>3, <3>4, <3>5, <3>6, <3>7, <3>8, <2>0
  <2> QED BY <2>1, <2>2
<1>11. StatesOK'
  <2>1. Lists(states)'
    BY <1>1, <1>10, RulesSame DEF Lists
  <2>2. states # <<>> /\ 1 \in State /\ at \in State /\ states' # <<>>
    <3>1. states # <<>> /\ 1 \in State
      BY <1>1, <1>3 DEF GInv, StatesOK, State
    <3>2. 1 \in State'
      BY <3>1, <1>10
    <3> QED BY <3>1, <3>2, <1>3 DEF State
  <2>3. ItemsOf(1)' = ClosureOf({<<Len(rules), 0>>}, Firsts)'
    BY <1>1, <1>10, <2>2, RulesSame DEF GInv, StatesOK
  <2>4. ASSUME NEW n \in State' \ {1}
        PROVE  \E m \in 1..n - 1 : \E Y \in NextOf(ItemsOf(m))' : ItemsOf(n)' = StepTo(ItemsOf(m), Y)'
    <3>1. CASE n \in State
      <4>1. PICK m \in 1..n - 1 : \E Y \in NextOf(ItemsOf(m)) : ItemsOf(n) = StepTo(ItemsOf(m), Y)
        BY <1>1, <3>1 DEF GInv, StatesOK
      <4>2. m \in State
        BY <3>1, <1>3 DEF State
      <4> QED BY <4>1, <4>2, <3>1, <1>1, <1>10, RulesSame
    <3>2. CASE n \notin State
      <4>1. n = N + 1 /\ ItemsOf(n)' = StepTo(ItemsOf(at), X)
        BY <3>2, <1>4, <1>10
      <4>2. at \in 1..n - 1
        BY <4>1, <1>3 DEF State
      <4>3. ItemsOf(at)' = ItemsOf(at) /\ X \in NextOf(ItemsOf(at))'
        BY <1>1, <1>3, <1>6, <1>10, RulesSame
      <4> QED BY <4>1, <4>2, <4>3, <1>1, RulesSame
    <3> QED BY <3>1, <3>2
  <2>5. ASSUME NEW m \in State', NEW Y \in Visited(m)'
        PROVE  Found(StepTo(ItemsOf(m), Y))'
    <3>1. m \in State /\ (Y \in Visited(m) \/ (m = at /\ Y = X))
      <4>1. CASE m < at
        <5>1. m \in State
          BY <4>1, <1>3, <1>10 DEF State
        <5>2. Visited(m)' = NextOf(ItemsOf(m)) /\ Visited(m) = NextOf(ItemsOf(m))
          BY <4>1, <5>1, <1>1, <1>10, RulesSame DEF Visited
        <5> QED BY <5>1, <5>2
      <4>2. CASE m = at
        <5>1. listed' = listed
          BY <1>1, <1>3, <1>10, RulesSame DEF listed
        <5>2. /\ Visited(m)' = {listed[k] : k \in {k \in 1..Len(listed) : k < turn + 1}}
              /\ Visited(m) = {listed[k] : k \in {k \in 1..Len(listed) : k < turn}}
          <6>1. /\ Visited(m)' = {listed'[k] : k \in {k \in 1..Len(listed') : k < turn'}}
                /\ Visited(m) = {listed[k] : k \in {k \in 1..Len(listed) : k < turn}}
            BY <4>2, <1>1, <1>3 DEF Visited, listed, State
          <6> QED BY <5>1, <6>1, <1>1
        <5>3. \A k \in 1..Len(listed) : k < turn + 1 => k < turn \/ k = turn
          BY <1>3, <1>6
        <5> QED BY <4>2, <5>2, <5>3, <1>3 DEF X
      <4>3. CASE ~(m < at) /\ m # at
        BY <4>3, <1>1 DEF Visited
      <4> QED BY <4>1, <4>2, <4>3
    <3>2. ItemsOf(m)' = ItemsOf(m) /\ StepTo(ItemsOf(m), Y)' = StepTo(ItemsOf(m), Y)
      BY <3>1, <1>1, <1>10, RulesSame
    <3>3. \E n \in State' : ItemsOf(n)' = StepTo(ItemsOf(m), Y)
      <4>1. CASE Y \in Visited(m)
        <5>1. Found(StepTo(ItemsOf(m), Y))
          BY <3>1, <4>1, <1>1 DEF GInv, StatesOK
        <5> QED BY <5>1, <1>10 DEF Found
      <4>2. CASE m = at /\ Y = X
        BY <4>2, <1>4, <1>10
      <4> QED BY <3>1, <4>1, <4>2
    <3> QED BY <3>2, <3>3 DEF Found
  <2>6. \A i, j \in State' : ItemsOf(i)' = ItemsOf(j)' => i = j
    BY <1>10
  <2> QED BY <2>1, <2>2, <2>3, <2>4, <2>5, <2>6, <1>1 DEF StatesOK
<1>12. RulesOK' /\ TablesOK'
  BY <1>1, RulesKept DEF GInv, TablesOK
<1>13. TerminalsOK'
  BY <1>1, RulesSame DEF GInv, TerminalsOK, Through
<1> QED BY <1>1, <1>3, <1>11, <1>12, <1>13 DEF GInv, Stages

LEMMA NextState ==
    ASSUME GInv, create_transition_states_for_possible_transitions
    PROVE  GInv'
<1> DEFINE listed == get_possible_transition_symbols(states[at])
<1>1. /\ stage = "states" /\ at <= Len(states) /\ turn > Len(listed)
      /\ at' = at + 1 /\ turn' = 1 /\ UNCHANGED <<rules, states, terminals, stage>>
  BY DEF create_transition_states_for_possible_transitions, tables
<1>2. Ruled /\ Lists(states) /\ at \in State
  BY <1>1, RulesGiven, ListsOf DEF GInv, StatesOK, State
<1>3. ToSet(listed) = NextOf(ItemsOf(at)) /\ listed \in Seq(NextSymbol)
  BY <1>2, ItemsAre, SymbolsListed, RuledRule
<1>4. ASSUME NEW m \in State PROVE Visited(m)' \subseteq Visited(m)
  <2>1. CASE m < at
    BY <2>1, <1>1, StatesSame, RulesSame DEF Visited, GInv
  <2>2. CASE m = at
    <3>1. Visited(m)' = NextOf(ItemsOf(m))
      BY <2>2, <1>1, StatesSame, RulesSame DEF Visited, GInv
    <3>2. Visited(m) = {listed[k] : k \in {k \in 1..Len(listed) : k < turn}}
      BY <2>2, <1>1 DEF Visited, GInv
    <3> HIDE DEF listed
    <3>3. Len(listed) \in Nat /\ \A k \in 1..Len(listed) : k < turn
      BY <1>1, <1>3 DEF GInv
    <3>4. NextOf(ItemsOf(at)) = {listed[k] : k \in 1..Len(listed)}
      BY <1>3, ElementsOf
    <3> QED BY <2>2, <3>1, <3>2, <3>3, <3>4
  <2>3. CASE ~(m < at) /\ m # at
    <3>1. ~(m < at')
      BY <2>3, <1>1 DEF GInv, State
    <3> DEFINE list2 == get_possible_transition_symbols(states[m])'
    <3>2. Visited(m)' \subseteq {list2[k] : k \in {k \in 1..Len(list2) : k < 1}}
      BY <3>1, <1>1 DEF Visited
    <3> HIDE DEF list2
    <3>3. {list2[k] : k \in {k \in 1..Len(list2) : k < 1}} = {}
      OBVIOUS
    <3> QED BY <3>2, <3>3
  <2> QED BY <2>1, <2>2, <2>3
<1>5. StatesOK'
  BY <1>1, <1>4, StatesKept DEF GInv
<1>6. RulesOK' /\ TablesOK'
  BY <1>1, RulesKept DEF GInv, TablesOK
<1>7. TerminalsOK'
  BY <1>1, RulesSame DEF GInv, TerminalsOK, Through
<1>8. at' \in Nat \ {0}
  BY <1>1 DEF GInv
<1> QED BY <1>1, <1>5, <1>6, <1>7, <1>8 DEF GInv, Stages

LEMMA SymbolsInit ==
    ASSUME GInv, symbols_init
    PROVE  GInv'
<1>1. /\ stage = "states" /\ at > Len(states) /\ stage' = "symbols" /\ at' = 1
      /\ UNCHANGED <<rules, states, terminals, turn>>
  BY DEF symbols_init, tables
<1>2. Len(rules) \in Nat \ {0} /\ Lists(states)
  BY <1>1, RulesGiven DEF GInv, Started, StatesOK
<1>3. ASSUME NEW m \in State PROVE Visited(m)' \subseteq Visited(m)
  <2>1. m < at
    BY <1>1, <1>2, ListsOf DEF State, GInv
  <2> QED BY <2>1, <1>1, StatesSame, RulesSame DEF Visited
<1>4. StatesOK'
  BY <1>1, <1>3, StatesKept DEF GInv
<1>5. RulesOK' /\ TablesOK'
  BY <1>1, RulesKept DEF GInv, TablesOK
<1>6. TerminalsOK'
  <2>1. Through = 0 /\ Through' = 0
    BY <1>1 DEF Through
  <2> QED BY <2>1, <1>1, RulesSame DEF GInv, TerminalsOK
<1> QED BY <1>1, <1>4, <1>5, <1>6 DEF GInv, Stages

(* Behind the states, what is found of them stays. *)
LEMMA StatesStay ==
    ASSUME GInv, stage \notin {"rules", "start", "states"}, stage' \notin {"rules", "start", "states"},
           UNCHANGED <<rules, states>>
    PROVE  RulesOK' /\ StatesOK'
<1>1. \A m \in State : Visited(m)' \subseteq Visited(m)
  BY StatesSame, RulesSame DEF Visited
<1> QED BY <1>1, StatesKept, RulesKept DEF GInv

LEMMA SymbolsCollected ==
    ASSUME GInv, collect_symbols
    PROVE  GInv'
<1> DEFINE right == rules[at].right
           added == add_symbols_in_content(terminals, right)
           N == Len(rules)
<1>1. /\ stage = "symbols" /\ at <= N /\ terminals' = added /\ at' = at + 1
      /\ UNCHANGED <<rules, states, stage, turn>>
  BY DEF collect_symbols
<1>2. Ruled /\ Started /\ N \in Nat \ {0} /\ at \in 1..N
  <2>1. RulesOK /\ at \in Nat \ {0}
    BY DEF GInv
  <2>2. Ruled /\ Started
    BY <2>1, <1>1, RulesGiven
  <2>3. N \in Nat \ {0}
    BY ONLY <2>2 DEF Started
  <2>4. at \in 1..N
    BY ONLY <2>1, <2>3, <1>1
  <2> QED BY ONLY <2>2, <2>3, <2>4
<1>3. right \in Seq(Name)
  BY <1>2, RuledRule
<1>4. terminals \in Seq(Name) /\ ToSet(terminals) = TermsOf(at - 1)
  BY <1>1 DEF GInv, TerminalsOK, Through
<1>5. /\ added \in Seq(Name) /\ ToSet(added) = ToSet(terminals) \cup (ToSet(right) \ Nonterminal)
      /\ terminals # <<>> => added # <<>> /\ added[1] = terminals[1]
  BY <1>3, <1>4, SymbolsAdded
<1>6. ToSet(added) = TermsOf(at)
  <2>1. 1..at = (1..at - 1) \cup {at}
    BY <1>2
  <2>2. TermsOf(at) = TermsOf(at - 1) \cup (ToSet(right) \ Nonterminal)
    <3> DEFINE elements(r) == ToSet(rules[r].right)
    <3> HIDE DEF elements
    <3>1. UNION {elements(r) : r \in 1..at} = (UNION {elements(r) : r \in 1..at - 1}) \cup elements(at)
      BY <2>1
    <3> QED BY <3>1 DEF TermsOf, elements
  <2> QED BY <2>2, <1>4, <1>5
(* Behind the last rule of the grammar there is a terminal, which is not    *)
(* the end of the program.                                                  *)
<1>7. ASSUME at = N PROVE added # <<>> /\ added[1] # "$"
  <2>1. PICK r \in 1..N - 1 : \E i \in 1..Len(rules[r].right) : rules[r].right[i] \notin Nonterminal
    BY <1>2 DEF Started
  <2>2. PICK i \in 1..Len(rules[r].right) : rules[r].right[i] \notin Nonterminal
    BY <2>1
  <2>3. ASSUME NEW q \in 1..N - 1
        PROVE  ToSet(rules[q].right) = {rules[q].right[j] : j \in 1..Len(rules[q].right)}
    <3> DEFINE content == rules[q].right
    <3>1. content \in Seq(Name)
      BY <1>2, RuledRule
    <3> HIDE DEF content
    <3>2. ToSet(content) = {content[j] : j \in 1..Len(content)}
      BY <3>1, ElementsOf
    <3> QED BY <3>2 DEF content
  <2>4. rules[r].right[i] \in TermsOf(N - 1)
    <3>1. rules[r].right[i] \in ToSet(rules[r].right)
      BY <2>2, <2>3
    <3> QED BY <3>1, <2>1, <2>2 DEF TermsOf
  <2>5. "$" \notin TermsOf(N - 1)
    <3> SUFFICES ASSUME "$" \in TermsOf(N - 1) PROVE FALSE
      OBVIOUS
    <3>1. PICK q \in 1..N - 1 : "$" \in ToSet(rules[q].right)
      BY DEF TermsOf
    <3>2. PICK j \in 1..Len(rules[q].right) : rules[q].right[j] = "$"
      BY <3>1, <2>3
    <3> QED BY <3>2, <1>2 DEF Started
  <2>6. terminals # <<>>
    BY <2>4, <1>4, <1>7 DEF ToSet
  <2>7. terminals[1] \in ToSet(terminals)
    BY <2>6, <1>4, ElementsOf, InSequence
  <2> QED BY <2>5, <2>6, <2>7, <1>4, <1>5, <1>7
<1> HIDE DEF right, added
<1>8. TerminalsOK'
  <2>1. Through' = at /\ at \in 0..N
    BY <1>1, <1>2 DEF Through
  <2>2. \A n : TermsOf(n)' = TermsOf(n)
    BY <1>1, RulesSame
  <2>3. TermsOf(Through)' = TermsOf(at)
    BY <2>1, <1>1 DEF TermsOf
  <2> QED BY <2>1, <2>3, <1>1, <1>5, <1>6, <1>7 DEF TerminalsOK
<1>9. RulesOK' /\ StatesOK'
  BY <1>1, StatesStay
<1> QED BY <1>1, <1>2, <1>8, <1>9 DEF GInv, TablesOK

LEMMA TerminalsStay ==
    ASSUME GInv, stage \notin {"rules", "start", "states"},
           stage = "symbols" => at > Len(rules),
           stage' \notin {"rules", "start", "states", "symbols"}, UNCHANGED <<rules, terminals>>
    PROVE  TerminalsOK'
<1>1. Through = Len(rules) /\ Through' = Len(rules)
  <2>1. Through \in 0..Len(rules)
    BY DEF GInv, TerminalsOK
  <2> QED BY <2>1 DEF Through, GInv
<1>2. TermsOf(Through)' = TermsOf(Through)
  BY <1>1 DEF TermsOf
<1> QED BY <1>1, <1>2 DEF GInv, TerminalsOK

LEMMA FollowComputed ==
    ASSUME GInv, follow_init \/ compute_follow \/ next_round_of_follow
    PROVE  GInv'
<1>1. /\ \/ stage = "symbols" /\ at > Len(rules)
         \/ stage = "follow"
      /\ stage' = "follow" /\ at' \in Nat \ {0}
      /\ UNCHANGED <<rules, states, terminals, turn>>
  BY DEF GInv, follow_init, compute_follow, next_round_of_follow, tables
<1>2. RulesOK' /\ StatesOK'
  BY <1>1, StatesStay
<1>3. TerminalsOK'
  BY <1>1, TerminalsStay
<1> QED BY <1>1, <1>2, <1>3 DEF GInv, Stages, TablesOK

(* As soon as there are tables, only they change. *)
LEMMA TablesKept ==
    ASSUME GInv, stage \in {"follow", "transitions", "reduces"},
           stage' \in {"transitions", "reduces", "ready"},
           UNCHANGED <<rules, states, terminals, turn>>, at' \in Nat \ {0}, TablesOK'
    PROVE  GInv'
<1>1. RulesOK' /\ StatesOK'
  BY StatesStay
<1>2. TerminalsOK'
  BY TerminalsStay
<1> QED BY <1>1, <1>2 DEF GInv, Stages

(* A row only depends on what the generator is through with. *)
LEMMA RowsKept ==
    ASSUME UNCHANGED <<rules, states, terminals, follow>>
    PROVE  /\ State' = State /\ Terminal' = Terminal /\ nonterminal_list' = nonterminal_list
           /\ \A s, row, j : RowMade(s, row, j)' <=> RowMade(s, row, j)
           /\ \A s, row : GotosMade(s, row)' <=> GotosMade(s, row)
<1>1. /\ State' = State /\ Terminal' = Terminal /\ nonterminal_list' = nonterminal_list
      /\ \A s : ItemsOf(s)' = ItemsOf(s)
      /\ \A S, X : MovedIn(S, X)' = MovedIn(S, X)
      /\ \A s, X, n : Leadsto(s, X, n)' <=> Leadsto(s, X, n)
  BY StatesSame, RulesSame DEF Terminal
<1>2. \A s, k : (Complete(s, k)' <=> Complete(s, k)) /\ LeftOf(s, k)' = LeftOf(s, k)
  BY DEF Complete, at_end_of_content, LeftOf
<1>3. \A s, j : Accepts(s, j)' <=> Accepts(s, j)
  BY <1>2 DEF Accepts
<1>4. \A s, t, j : ReducedBy(s, t, j)' = ReducedBy(s, t, j)
  BY <1>2 DEF ReducedBy
<1>5. \A s, X : MovedIn(ItemsOf(s), X)' = MovedIn(ItemsOf(s), X)
  BY <1>1
<1>6. \A s, t, cell, j : CellMade(s, t, cell, j)' <=> CellMade(s, t, cell, j)
  BY <1>1, <1>3, <1>4, <1>5 DEF CellMade
<1>7. \A s, row, j : RowMade(s, row, j)' <=> RowMade(s, row, j)
  BY <1>1, <1>6 DEF RowMade
<1>8. \A s, row : GotosMade(s, row)' <=> GotosMade(s, row)
  BY <1>1, <1>5 DEF GotosMade
<1> QED BY <1>1, <1>7, <1>8

LEMMA TerminalSet ==
    ASSUME TerminalsOK
    PROVE  Terminal = ToSet(terminals)
BY InSequence DEF TerminalsOK, ToSet, Terminal

LEMMA TablesBegun ==
    ASSUME GInv, init_tables
    PROVE  GInv'
<1> DEFINE row == [t \in ToSet(terminals) |-> ErrorCell]
           gotos == [A \in nonterminal_list |-> Missing]
<1>1. /\ stage = "follow" /\ stage' = "transitions" /\ at' = 1
      /\ UNCHANGED <<rules, states, terminals, follow, turn>>
      /\ actionTable' = [i \in 1..Len(states) |-> row]
      /\ gotoTable' = [i \in 1..Len(states) |-> gotos]
  BY DEF init_tables
<1>2. ToSet(terminals) = Terminal
  BY TerminalSet DEF GInv
<1>3. ErrorCell \in Cell
  BY DEF ErrorCell, Cell
<1>4. row \in [Terminal -> Cell] /\ gotos \in [nonterminal_list -> Nat]
      /\ row = [t \in Terminal |-> ErrorCell]
  BY <1>2, <1>3 DEF Missing
<1> HIDE DEF row, gotos
<1>5. /\ actionTable' \in [State -> [Terminal -> Cell]]
      /\ gotoTable' \in [State -> [nonterminal_list -> Nat]]
      /\ \A s \in State : actionTable'[s] = row /\ gotoTable'[s] = gotos
  BY <1>1, <1>4 DEF State
<1>6. \A s \in State : s >= 1
  BY DEF State
<1>7. TablesOK'
  <2>1. State' = State /\ Terminal' = Terminal /\ nonterminal_list' = nonterminal_list
    BY <1>1, RowsKept
  <2>2. row = [t \in Terminal' |-> ErrorCell] /\ gotos = [A \in nonterminal_list' |-> Missing]
    BY <2>1, <1>4 DEF gotos
  <2> QED BY <1>1, <1>5, <1>6, <2>1, <2>2 DEF TablesOK
<1> QED BY <1>1, <1>7, TablesKept

LEMMA TransitionsInserted ==
    ASSUME GInv, insert_state_transitions_into_table
    PROVE  GInv'
<1> DEFINE symbols_of == ToSet(get_possible_transition_symbols(states[at]))
           from == find_state(states, states[at])
           to(X) == find_state(states, goto_state(states[at], X))
           Shift(t) == [type |-> "shift", value |-> to(t)]
           C(X) == X \in symbols_of /\ to(X) # Missing
<1>1. /\ stage = "transitions" /\ at <= Len(states) /\ stage' = stage /\ at' = at + 1
      /\ UNCHANGED <<rules, states, terminals, follow, turn>>
      /\ actionTable' = [actionTable EXCEPT ![from] =
                            [t \in DOMAIN @ |-> IF C(t) THEN Shift(t) ELSE @[t]]]
      /\ gotoTable' = [gotoTable EXCEPT ![from] =
                            [A \in DOMAIN @ |-> IF C(A) THEN to(A) ELSE @[A]]]
  BY DEF insert_state_transitions_into_table
<1>2. Ruled /\ Lists(states) /\ Len(states) \in Nat /\ at \in State /\ State = 1..Len(states)
  BY <1>1, RulesGiven, ListsOf DEF GInv, StatesOK, State
<1>3. from = at
  <2>1. states[at] \in Seq(Item) /\ Distinct(states[at]) /\ \A i \in State : ItemsOf(i) = ToSet(states[i])
    BY <1>2, ItemsAre
  <2>2. IF from = Missing THEN \A i \in 1..Len(states) : ToSet(states[i]) # ToSet(states[at])
        ELSE from \in 1..Len(states) /\ ToSet(states[from]) = ToSet(states[at])
    BY <1>2, <2>1, FoundState
  <2> HIDE DEF from
  <2>3. from \in State /\ ItemsOf(from) = ItemsOf(at)
    BY <1>2, <2>1, <2>2
  <2> QED BY <2>3, <1>2 DEF GInv, StatesOK
(* A symbol behind a dot leads to a state; no other one leads anywhere.     *)
<1>4. ASSUME NEW X
      PROVE  IF MovedIn(ItemsOf(at), X) = {} THEN ~C(X) ELSE C(X) /\ Leadsto(at, X, to(X))
  <2>1. X \in symbols_of <=> MovedIn(ItemsOf(at), X) # {}
    BY <1>2, ItemsAre, NextMoves
  <2>2. /\ goto_state(states[at], X) \in Seq(Item) /\ Distinct(goto_state(states[at], X))
        /\ ToSet(goto_state(states[at], X)) = StepTo(ItemsOf(at), X)
        /\ \A i \in State : ItemsOf(i) = ToSet(states[i])
    BY <1>2, ItemsAre
  <2>3. IF to(X) = Missing THEN \A i \in 1..Len(states) : ItemsOf(i) # StepTo(ItemsOf(at), X)
        ELSE to(X) \in 1..Len(states) /\ ItemsOf(to(X)) = StepTo(ItemsOf(at), X)
    <3> DEFINE new == goto_state(states[at], X)
    <3>1. to(X) = find_state(states, new)
      OBVIOUS
    <3> HIDE DEF new, to
    <3>2. IF to(X) = Missing THEN \A i \in 1..Len(states) : ToSet(states[i]) # ToSet(new)
          ELSE to(X) \in 1..Len(states) /\ ToSet(states[to(X)]) = ToSet(new)
      BY <1>2, <2>2, <3>1, FoundState DEF new
    <3> QED BY <3>2, <2>2, <1>2 DEF new
  <2>4. MovedIn(ItemsOf(at), X) # {} => Found(StepTo(ItemsOf(at), X))
    <3>1. X \in NextOf(ItemsOf(at)) => X \in Visited(at)
      BY <1>1 DEF Visited
    <3> QED BY <3>1, <1>1, <1>2, NextMoves DEF GInv, StatesOK
  <2> HIDE DEF symbols_of, to
  <2> QED BY <2>1, <2>3, <2>4, <1>2 DEF Found, Leadsto
<1> HIDE DEF from
<1>5. /\ actionTable \in [State -> [Terminal -> Cell]]
      /\ gotoTable \in [State -> [nonterminal_list -> Nat]]
      /\ actionTable[at] = [t \in Terminal |-> ErrorCell]
      /\ gotoTable[at] = [A \in nonterminal_list |-> Missing]
  <2>1. at >= at
    BY <1>2
  <2> QED BY <2>1, <1>1, <1>2 DEF GInv, TablesOK
<1> DEFINE row == [t \in Terminal |-> IF C(t) THEN Shift(t) ELSE ErrorCell]
           gotos == [A \in nonterminal_list |-> IF C(A) THEN to(A) ELSE Missing]
<1>6. actionTable' = [actionTable EXCEPT ![at] = row]
  <2>1. [t \in DOMAIN actionTable[at] |-> IF C(t) THEN Shift(t) ELSE actionTable[at][t]] = row
    <3> HIDE DEF C, Shift
    <3> QED BY <1>5
  <2> HIDE DEF C, Shift, row
  <2> QED BY <1>1, <1>3, <2>1
<1>7. gotoTable' = [gotoTable EXCEPT ![at] = gotos]
  <2>1. [A \in DOMAIN gotoTable[at] |-> IF C(A) THEN to(A) ELSE gotoTable[at][A]] = gotos
    <3> HIDE DEF C, to
    <3> QED BY <1>5
  <2> HIDE DEF C, to, gotos
  <2> QED BY <1>1, <1>3, <2>1
<1>8. \A t : C(t) => Shift(t) \in Cell /\ Shift(t).type = "shift" /\ Shift(t).value = to(t) /\ to(t) \in Nat
  <2>1. \A t : C(t) => to(t) \in State
    <3> HIDE DEF C, to
    <3> QED BY <1>4 DEF Leadsto
  <2> QED BY <2>1 DEF Cell, State
<1> HIDE DEF C, to, Shift
<1>9. row \in [Terminal -> Cell] /\ RowMade(at, row, 0)
  <2>1. ErrorCell \in Cell /\ ErrorCell.type = "error"
    BY DEF ErrorCell, Cell
  <2>2. \A t \in Terminal : row[t] = (IF C(t) THEN Shift(t) ELSE ErrorCell) /\ row[t] \in Cell
    BY <2>1, <1>8
  <2>3. ~Accepts(at, 0) /\ \A t : ReducedBy(at, t, 0) = {}
    BY DEF Accepts, ReducedBy
  <2>4. ASSUME NEW t \in Terminal PROVE CellMade(at, t, row[t], 0)
    <3>1. CASE C(t)
      <4>1. row[t] = Shift(t)
        BY <2>2, <3>1
      <4> HIDE DEF row
      <4> QED BY <4>1, <2>2, <2>3, <3>1, <1>4, <1>8 DEF CellMade
    <3>2. CASE ~C(t)
      <4>1. row[t] = ErrorCell
        BY <2>2, <3>2
      <4> HIDE DEF row
      <4> QED BY <4>1, <2>1, <2>3, <3>2, <1>4 DEF CellMade
    <3> QED BY <3>1, <3>2
  <2>5. row \in [Terminal -> Cell]
    BY <2>2
  <2> HIDE DEF row
  <2> QED BY <2>4, <2>5 DEF RowMade
<1>10. gotos \in [nonterminal_list -> Nat] /\ GotosMade(at, gotos)
  <2>1. Missing \in Nat
    BY DEF Missing
  <2>2. \A A \in nonterminal_list : gotos[A] \in Nat /\ gotos[A] = IF C(A) THEN to(A) ELSE Missing
    BY <2>1, <1>8
  <2>3. gotos \in [nonterminal_list -> Nat]
    BY <2>2
  <2> HIDE DEF gotos
  <2>4. \A A \in nonterminal_list :
            IF MovedIn(ItemsOf(at), A) = {} THEN gotos[A] = Missing ELSE Leadsto(at, A, gotos[A])
    BY <2>2, <1>4
  <2> QED BY <2>3, <2>4 DEF GotosMade
<1> HIDE DEF row, gotos
<1>11. actionTable' \in [State -> [Terminal -> Cell]] /\ gotoTable' \in [State -> [nonterminal_list -> Nat]]
  BY <1>5, <1>6, <1>7, <1>9, <1>10
<1>12. ASSUME NEW s \in State
       PROVE  IF s >= at'
              THEN /\ actionTable'[s] = [t \in Terminal |-> ErrorCell]
                   /\ gotoTable'[s] = [A \in nonterminal_list |-> Missing]
              ELSE RowMade(s, actionTable'[s], 0) /\ GotosMade(s, gotoTable'[s])
  <2>1. IF s >= at
        THEN /\ actionTable[s] = [t \in Terminal |-> ErrorCell]
             /\ gotoTable[s] = [A \in nonterminal_list |-> Missing]
        ELSE RowMade(s, actionTable[s], 0) /\ GotosMade(s, gotoTable[s])
    BY <1>1 DEF GInv, TablesOK, Reduces
  <2>2. s \in Nat /\ at \in Nat
    BY <1>2
  <2>3. CASE s = at
    <3>1. actionTable'[s] = row /\ gotoTable'[s] = gotos /\ ~(s >= at')
      BY <2>3, <2>2, <1>1, <1>2, <1>5, <1>6, <1>7
    <3> QED BY <3>1, <2>3, <1>9, <1>10
  <2>4. CASE s # at
    <3>1. actionTable'[s] = actionTable[s] /\ gotoTable'[s] = gotoTable[s] /\ (s >= at' <=> s >= at)
      BY <2>4, <2>2, <1>1, <1>5, <1>6, <1>7
    <3> QED BY <3>1, <2>1
  <2> QED BY <2>3, <2>4
<1>13. TablesOK'
  <2>1. \A s : Reduces(s)' = 0
    BY <1>1 DEF Reduces
  <2>2. /\ State' = State /\ Terminal' = Terminal /\ nonterminal_list' = nonterminal_list
        /\ \A s, r, j : RowMade(s, r, j)' <=> RowMade(s, r, j)
        /\ \A s, r : GotosMade(s, r)' <=> GotosMade(s, r)
    BY <1>1, RowsKept
  <2>3. ASSUME NEW s \in State', ~(s >= at')
        PROVE  RowMade(s, actionTable[s], Reduces(s))' /\ GotosMade(s, gotoTable[s])'
    <3>1. RowMade(s, actionTable'[s], 0) /\ GotosMade(s, gotoTable'[s])
      BY <2>2, <2>3, <1>12
    <3>2. PICK r, q : r = actionTable'[s] /\ q = gotoTable'[s]
      OBVIOUS
    <3>3. RowMade(s, r, 0)' /\ GotosMade(s, q)'
      BY <3>1, <3>2, <2>2
    <3> QED BY <3>2, <3>3, <2>1
  <2>4. \A s \in State' : s >= at' => /\ actionTable'[s] = [t \in Terminal' |-> ErrorCell]
                                      /\ gotoTable'[s] = [A \in nonterminal_list' |-> Missing]
    BY <2>2, <1>12
  <2> QED BY <2>2, <2>3, <2>4, <1>1, <1>11 DEF TablesOK
<1>14. at' \in Nat \ {0}
  BY <1>1 DEF GInv
<1> QED BY <1>1, <1>13, <1>14, TablesKept

LEMMA ReducesBegun ==
    ASSUME GInv, begin_reduces \/ tables_done
    PROVE  GInv'
<1>1. /\ \/ stage = "transitions" /\ stage' = "reduces" /\ at' = 1
         \/ stage = "reduces" /\ stage' = "ready" /\ at' = at
      /\ at > Len(states)
      /\ UNCHANGED <<rules, states, terminals, follow, turn, actionTable, gotoTable>>
  BY DEF begin_reduces, tables_done, tables
<1>2. Lists(states) /\ Len(states) \in Nat /\ State = 1..Len(states) /\ at' \in Nat \ {0}
  BY <1>1, ListsOf DEF GInv, StatesOK, State
<1>3. /\ State' = State /\ Terminal' = Terminal /\ nonterminal_list' = nonterminal_list
      /\ \A s, r, j : RowMade(s, r, j)' <=> RowMade(s, r, j)
      /\ \A s, r : GotosMade(s, r)' <=> GotosMade(s, r)
  BY <1>1, RowsKept
<1>4. ASSUME NEW s \in State
      PROVE  RowMade(s, actionTable[s], Reduces(s)) /\ GotosMade(s, gotoTable[s])
  <2>1. ~(s >= at)
    BY <1>1, <1>2 DEF GInv
  <2> QED BY <2>1, <1>1 DEF GInv, TablesOK
<1>5. ASSUME NEW s \in State PROVE Reduces(s)' = Reduces(s)
  <2>1. CASE stage = "transitions"
    <3>1. ~(s < 1)
      BY <1>2
    <3> QED BY <2>1, <3>1, <1>1 DEF Reduces
  <2>2. CASE stage = "reduces"
    <3>1. s < at
      BY <1>1, <1>2 DEF GInv
    <3> QED BY <2>2, <3>1, <1>1 DEF Reduces
  <2> QED BY <2>1, <2>2, <1>1
<1>6. TablesOK'
  <2>1. ASSUME NEW s \in State
        PROVE  RowMade(s, actionTable[s], Reduces(s))' /\ GotosMade(s, gotoTable[s])'
    <3>1. PICK r, q, j : r = actionTable[s] /\ q = gotoTable[s] /\ j = Reduces(s)
      OBVIOUS
    <3>2. RowMade(s, r, j)' /\ GotosMade(s, q)'
      BY <3>1, <1>3, <1>4
    <3> QED BY <3>1, <3>2, <1>1, <1>5
  <2>2. actionTable' \in [State' -> [Terminal' -> Cell]] /\ gotoTable' \in [State' -> [nonterminal_list' -> Nat]]
    BY <1>1, <1>3 DEF GInv, TablesOK
  <2> QED BY <2>1, <2>2, <1>1, <1>3 DEF TablesOK
<1> QED BY <1>1, <1>2, <1>6, TablesKept

LEMMA ReducesBuilt ==
    ASSUME GInv, build_reduces
    PROVE  GInv'
<1> DEFINE row == make_reduces(actionTable[at], states[at])
<1>1. /\ stage = "reduces" /\ at <= Len(states) /\ stage' = stage /\ at' = at + 1
      /\ UNCHANGED <<rules, states, terminals, follow, gotoTable, turn>>
      /\ actionTable' = [actionTable EXCEPT ![at] = row]
  BY DEF build_reduces
<1>2. /\ Ruled /\ Lists(states) /\ Len(states) \in Nat /\ State = 1..Len(states)
      /\ at \in State /\ at' \in Nat \ {0}
  BY <1>1, RulesGiven, ListsOf DEF GInv, StatesOK, State
<1>3. /\ State' = State /\ Terminal' = Terminal /\ nonterminal_list' = nonterminal_list
      /\ \A s, r, j : RowMade(s, r, j)' <=> RowMade(s, r, j)
      /\ \A s, r : GotosMade(s, r)' <=> GotosMade(s, r)
  BY <1>1, RowsKept
<1>4. /\ actionTable \in [State -> [Terminal -> Cell]]
      /\ gotoTable \in [State -> [nonterminal_list -> Nat]]
      /\ \A s \in State : RowMade(s, actionTable[s], Reduces(s)) /\ GotosMade(s, gotoTable[s])
  BY <1>1 DEF GInv, TablesOK
<1>5. RowMade(at, row, Len(states[at])) /\ row \in [Terminal -> Cell]
  <2>1. Reduces(at) = 0 /\ states[at] \in Seq(Item)
    BY <1>1, <1>2, ItemsAre DEF Reduces
  <2>2. RowMade(at, actionTable[at], 0)
    BY <2>1, <1>2, <1>4
  <2>3. RowMade(at, row, Len(states[at]))
    BY <2>1, <2>2, <1>2, ReducesMade
  <2> QED BY <2>3 DEF RowMade
<1> HIDE DEF row
<1>6. ASSUME NEW s \in State
      PROVE  RowMade(s, actionTable'[s], Reduces(s)') /\ GotosMade(s, gotoTable'[s])
  <2>1. CASE s = at
    <3>1. actionTable'[s] = row
      BY <2>1, <1>1, <1>4
    <3>2. Reduces(s)' = Len(states[at])
      BY <2>1, <1>1, <1>2 DEF Reduces
    <3> QED BY <3>1, <3>2, <2>1, <1>1, <1>4, <1>5
  <2>2. CASE s # at
    <3>1. actionTable'[s] = actionTable[s]
      BY <2>2, <1>1, <1>4
    <3>2. s < at' <=> s < at
      BY <2>2, <1>1, <1>2
    <3>3. Reduces(s)' = Reduces(s)
      BY <3>2, <1>1 DEF Reduces
    <3> QED BY <3>1, <3>3, <1>1, <1>4
  <2> QED BY <2>1, <2>2
<1>7. TablesOK'
  <2>1. ASSUME NEW s \in State
        PROVE  RowMade(s, actionTable[s], Reduces(s))' /\ GotosMade(s, gotoTable[s])'
    <3>1. PICK r, q, j : r = actionTable'[s] /\ q = gotoTable'[s] /\ j = Reduces(s)'
      OBVIOUS
    <3>2. RowMade(s, r, j)' /\ GotosMade(s, q)'
      BY <3>1, <1>3, <1>6
    <3> QED BY <3>1, <3>2
  <2>2. actionTable' \in [State' -> [Terminal' -> Cell]] /\ gotoTable' \in [State' -> [nonterminal_list' -> Nat]]
    BY <1>1, <1>3, <1>4, <1>5
  <2> QED BY <2>1, <2>2, <1>1, <1>3 DEF TablesOK
<1> QED BY <1>1, <1>2, <1>7, TablesKept

(* Whatever the parser does leaves the tables alone.                        *)
LEMMA GInvSame ==
    ASSUME GInv, UNCHANGED generatorVars
    PROVE  GInv'
<1>1. UNCHANGED <<rules, states, terminals, follow, actionTable, gotoTable, stage, at, turn>>
  BY DEF generatorVars, tables
<1>2. RulesOK'
  BY <1>1 DEF GInv, RulesOK
<1>3. \A m : Visited(m)' = Visited(m)
  <2> SUFFICES ASSUME NEW m PROVE Visited(m)' = Visited(m)
    OBVIOUS
  <2>1. NextOf(ItemsOf(m))' = NextOf(ItemsOf(m))
    BY <1>1, StatesSame, RulesSame
  <2> DEFINE listed == get_possible_transition_symbols(states[m])
  <2>2. listed' = listed
    BY <1>1, RulesSame
  <2>3. /\ stage # "states" \/ m < at => Visited(m) = NextOf(ItemsOf(m)) /\ Visited(m)' = NextOf(ItemsOf(m))'
        /\ ~(stage # "states" \/ m < at) /\ m = at =>
               /\ Visited(m) = {listed[k] : k \in {k \in 1..Len(listed) : k < turn}}
               /\ Visited(m)' = {listed'[k] : k \in {k \in 1..Len(listed') : k < turn}}
        /\ ~(stage # "states" \/ m < at) /\ m # at => Visited(m) = {} /\ Visited(m)' = {}
    BY <1>1 DEF Visited
  <2> HIDE DEF listed
  <2> QED BY <2>1, <2>2, <2>3
<1>4. StatesOK'
  <2>1. CASE stage \in {"rules", "start"}
    <3>1. states = <<>> /\ StatesOK
      BY <2>1 DEF GInv, StatesOK
    <3>2. Lists(states)' /\ State' = {}
      <4>1. State' = {}
        BY <3>1, <1>1 DEF State
      <4> QED BY <4>1, <3>1, <1>1, StatesSame DEF StatesOK
    <3> QED BY <3>1, <3>2, <2>1, <1>1 DEF StatesOK
  <2>2. CASE stage \notin {"rules", "start"}
    BY <2>2, <1>1, <1>3, StatesKept DEF GInv
  <2> QED BY <2>1, <2>2
<1>5. TerminalsOK'
  <2>1. Through' = Through /\ \A n : TermsOf(n)' = TermsOf(n)
    BY <1>1, RulesSame DEF Through
  <2>2. TermsOf(Through)' = TermsOf(Through)
    BY <2>1, <1>1 DEF TermsOf
  <2> QED BY <2>1, <2>2, <1>1 DEF GInv, TerminalsOK
<1>6. TablesOK'
  <2> SUFFICES ASSUME stage \in {"transitions", "reduces", "ready"} PROVE TablesOK'
    BY <1>1 DEF TablesOK
  <2>1. /\ State' = State /\ Terminal' = Terminal /\ nonterminal_list' = nonterminal_list
        /\ \A s, r, j : RowMade(s, r, j)' <=> RowMade(s, r, j)
        /\ \A s, r : GotosMade(s, r)' <=> GotosMade(s, r)
    BY <1>1, RowsKept
  <2>2. \A s : Reduces(s)' = Reduces(s)
    BY <1>1 DEF Reduces
  <2>3. TablesOK
    BY DEF GInv
  <2>4. ASSUME NEW s \in State, ~(stage = "transitions" /\ s >= at)
        PROVE  RowMade(s, actionTable[s], Reduces(s))' /\ GotosMade(s, gotoTable[s])'
    <3>1. PICK r, q, j : r = actionTable[s] /\ q = gotoTable[s] /\ j = Reduces(s)
      OBVIOUS
    <3>2. RowMade(s, r, j) /\ GotosMade(s, q)
      BY <3>1, <2>3, <2>4 DEF TablesOK
    <3>3. RowMade(s, r, j)' /\ GotosMade(s, q)'
      BY <3>2, <2>1
    <3> QED BY <3>1, <3>3, <1>1, <2>2
  <2> QED BY <2>1, <2>3, <2>4, <1>1 DEF TablesOK
<1> QED BY <1>1, <1>2, <1>4, <1>5, <1>6 DEF GInv

LEMMA GInvNext ==
    ASSUME GInv, TablesNext
    PROVE  GInv'
BY StartingRule, StartingState, NewState, NextState, SymbolsInit, SymbolsCollected,
   FollowComputed, TablesBegun, TransitionsInserted, ReducesBegun, ReducesBuilt DEF TablesNext

-----------------------------------------------------------------------------
(* What is so of the tables when they are made *)

LEMMA MovedIs == \A s, X : Moved(s, X) = MovedIn(ItemsOf(s), X) /\ Open(s) = OpenIn(ItemsOf(s))
BY DEF Moved, Open, MovedIn, OpenIn

LEMMA Inside ==
    ASSUME GInv, stage \notin {"rules", "start"}
    PROVE  /\ Ruled /\ Started /\ Lists(states) /\ Len(states) \in Nat \ {0} /\ 1 \in State
           /\ \A s \in State : /\ Proper(ItemsOf(s)) /\ ItemsOf(s) = ToSet(states[s])
                               /\ states[s] \in Seq(Item)
<1>1. Ruled /\ Started /\ Lists(states) /\ states # <<>>
  BY RulesGiven DEF GInv, StatesOK
<1>2. Len(states) \in Nat \ {0}
  BY <1>1, ListsOf DEF Lists
<1> QED BY <1>1, <1>2, ItemsAre DEF State

LEMMA GInvCanonical == GInv => StatesCanonical
<1> DEFINE first == Firsts
           Steps == UNION {{<<s, ClosureOf(Moved(s, get_next_symbol(i)), first)>> :
                               i \in Open(s)} : s \in 1..Len(states)}
           ToNew == {step \in Steps : \A s \in 1..step[1] : ItemsOf(s) # step[2]}
           Sets == {ToSet(s) : s \in ToSet(states)}
<1> SUFFICES ASSUME GInv, stage = "transitions", at = 1
             PROVE  /\ ItemsOf(1) = ClosureOf({<<Len(rules), 0>>}, first)
                    /\ Cardinality(Sets) = Len(states)
                    /\ {step[2] : step \in Steps} \subseteq Sets
                    /\ {ItemsOf(n) : n \in 2..Len(states)} \subseteq {step[2] : step \in ToNew}
  BY DEF StatesCanonical
<1>1. /\ Ruled /\ Lists(states) /\ Len(states) \in Nat \ {0} /\ State = 1..Len(states)
      /\ \A s \in State : ItemsOf(s) = ToSet(states[s]) /\ Proper(ItemsOf(s))
  BY Inside DEF State
<1>2. /\ ItemsOf(1) = ClosureOf({<<Len(rules), 0>>}, Firsts)
      /\ \A i, j \in State : ItemsOf(i) = ItemsOf(j) => i = j
      /\ \A n \in State \ {1} : \E m \in 1..n - 1 : \E X \in NextOf(ItemsOf(m)) :
             ItemsOf(n) = StepTo(ItemsOf(m), X)
      /\ \A m \in State : \A X \in NextOf(ItemsOf(m)) : Found(StepTo(ItemsOf(m), X))
  BY DEF GInv, StatesOK, Visited
<1>3. Sets = {ItemsOf(i) : i \in State}
  <2> DEFINE S == Seq(Item)
  <2>1. states \in Seq(S)
    BY <1>1 DEF Lists
  <2> HIDE DEF S
  <2>2. ToSet(states) = {states[i] : i \in 1..Len(states)}
    BY <2>1, ElementsOf
  <2> QED BY <2>2, <1>1
<1>4. \A x : x \in Steps <=> \E s \in State : \E X \in NextOf(ItemsOf(s)) :
                                 x = <<s, StepTo(ItemsOf(s), X)>>
  <2>1. \A s, X : StepTo(ItemsOf(s), X) = ClosureOf(Moved(s, X), first)
    BY MovedIs DEF StepTo
  <2>2. \A s : NextOf(ItemsOf(s)) = {get_next_symbol(i) : i \in Open(s)}
    BY MovedIs DEF NextOf
  <2> QED BY <2>1, <2>2, <1>1
<1> HIDE DEF Steps
<1>5. Cardinality(Sets) = Len(states)
  <2> DEFINE S == SUBSET Item
             sets == [i \in 1..Len(states) |-> ItemsOf(i)]
  <2>1. \A i \in 1..Len(states) : ItemsOf(i) \in S
    BY <1>1 DEF Proper
  <2> HIDE DEF S
  <2>2. sets \in Seq(S) /\ Len(sets) = Len(states)
    BY <2>1, <1>1
  <2>3. Distinct(sets)
    BY <2>2, <1>1, <1>2 DEF Distinct
  <2>4. ToSet(sets) = Sets
    <3>1. ToSet(sets) = {sets[i] : i \in 1..Len(sets)}
      <4> HIDE DEF sets
      <4> QED BY <2>2, ElementsOf
    <3> QED BY <3>1, <2>2, <1>1, <1>3
  <2> HIDE DEF sets
  <2> QED BY <2>2, <2>3, <2>4, DistinctCounted
<1>6. {step[2] : step \in Steps} \subseteq Sets
  <2> SUFFICES ASSUME NEW step \in Steps PROVE step[2] \in Sets
    OBVIOUS
  <2>1. PICK s \in State : \E X \in NextOf(ItemsOf(s)) : step = <<s, StepTo(ItemsOf(s), X)>>
    BY <1>4
  <2>2. PICK X \in NextOf(ItemsOf(s)) : step = <<s, StepTo(ItemsOf(s), X)>>
    BY <2>1
  <2>3. Found(StepTo(ItemsOf(s), X)) /\ step[2] = StepTo(ItemsOf(s), X)
    BY <2>2, <1>2
  <2> QED BY <2>3, <1>3 DEF Found
<1>7. {ItemsOf(n) : n \in 2..Len(states)} \subseteq {step[2] : step \in ToNew}
  <2> SUFFICES ASSUME NEW n \in 2..Len(states)
               PROVE  \E step \in ToNew : step[2] = ItemsOf(n)
    OBVIOUS
  <2>1. n \in State \ {1}
    BY <1>1
  <2>2. PICK m \in 1..n - 1 : \E X \in NextOf(ItemsOf(m)) : ItemsOf(n) = StepTo(ItemsOf(m), X)
    BY <2>1, <1>2
  <2> DEFINE step == <<m, ItemsOf(n)>>
  <2>3. m \in State /\ step \in Steps
    BY <2>2, <1>1, <1>4
  <2>4. step[1] = m /\ step[2] = ItemsOf(n)
    OBVIOUS
  <2>5. \A s \in 1..m : ItemsOf(s) # ItemsOf(n)
    <3> SUFFICES ASSUME NEW s \in 1..m PROVE ItemsOf(s) # ItemsOf(n)
      OBVIOUS
    <3>1. s \in State /\ s # n
      BY <2>1, <1>1
    <3> QED BY <3>1, <2>1, <1>2
  <2> HIDE DEF step
  <2> QED BY <2>3, <2>4, <2>5
<1> QED BY <1>2, <1>5, <1>6, <1>7

(* A step goes on with what the state before it has open.                   *)
LEMMA StepContinues ==
    ASSUME Ruled, NEW s \in State, Proper(ItemsOf(s)), NEW X, NEW n, Leadsto(s, X, n)
    PROVE  n \in State /\ Continues(s, X, n)
<1>1. n \in State /\ ItemsOf(n) = ClosureOf(MovedIn(ItemsOf(s), X), Firsts)
  BY DEF Leadsto, StepTo
<1>2. ASSUME NEW i \in ItemsOf(n), i[2] > 0
      PROVE  rules[i[1]].right[i[2]] = X /\ <<i[1], i[2] - 1>> \in ItemsOf(s)
  <2>1. i \in MovedIn(ItemsOf(s), X) \/ \E r : i = <<r, 0>>
    BY <1>1 DEF ClosureOf
  <2>2. i \in MovedIn(ItemsOf(s), X)
    BY <2>1, <1>2
  <2>3. PICK j \in ItemsOf(s) : /\ ~at_end_of_content(j) /\ get_next_symbol(j) = X
                                /\ i = <<j[1], j[2] + 1>>
    BY <2>2, MovedInOf
  <2>4. j \in Item
    BY DEF Proper
  <2>5. j = <<j[1], j[2]>> /\ j[2] \in Nat
    BY <2>4 DEF Item
  <2>6. i[1] = j[1] /\ i[2] = j[2] + 1 /\ i[2] - 1 = j[2]
    BY <2>3, <2>5
  <2> QED BY <2>3, <2>5, <2>6 DEF get_next_symbol
<1> QED BY <1>1, <1>2 DEF Continues

(* The item an index stands for.                                            *)
LEMMA CompleteItem ==
    ASSUME Ruled, NEW s \in State, states[s] \in Seq(Item), NEW k \in 1..Len(states[s])
    PROVE  LET i == states[s][k]
           IN  /\ i \in ItemsOf(s) /\ i = <<i[1], i[2]>> /\ i[1] \in Rule /\ i[2] \in Nat
               /\ Complete(s, k) <=> at_end_of_content(i)
               /\ Complete(s, k) <=> i[2] = Len(rules[i[1]].right)
               /\ LeftOf(s, k) = rules[i[1]].left
<1>1. states[s][k] \in Item
  OBVIOUS
<1>2. states[s][k] \in ItemsOf(s)
  BY DEF ItemsOf
<1> QED BY <1>1, <1>2 DEF Item, Rule, Complete, LeftOf, at_end_of_content

LEMMA GInvFits ==
    ASSUME GInv, stage = "ready"
    PROVE  TablesConsistent
<1>1. /\ Ruled /\ Started /\ Lists(states) /\ 1 \in State
      /\ \A s \in State : Proper(ItemsOf(s)) /\ states[s] \in Seq(Item)
  BY Inside
<1>2. ASSUME NEW s \in State
      PROVE  RowMade(s, actionTable[s], Len(states[s])) /\ GotosMade(s, gotoTable[s])
  BY DEF GInv, TablesOK, Reduces
<1>3. Len(terminals) \in Nat \ {0}
  BY DEF GInv, TerminalsOK, Through
<1>4. \A r \in Rule : Len(rules[r].right) \in Nat \ {0}
  BY <1>1, RuledRule DEF Rule
<1>5. \A s \in State : \A i \in ItemsOf(s) : i[2] \in Nat
  BY <1>1 DEF Proper, Item
<1>6. \A i \in ItemsOf(1) : i[2] = 0
  <2>1. ItemsOf(1) = ClosureOf({<<Len(rules), 0>>}, Firsts)
    BY DEF GInv, StatesOK
  <2> SUFFICES ASSUME NEW i \in ItemsOf(1) PROVE i[2] = 0
    OBVIOUS
  <2>2. i = <<Len(rules), 0>> \/ \E r : i = <<r, 0>>
    BY <2>1 DEF ClosureOf
  <2>3. \E r : i = <<r, 0>>
    BY <2>2
  <2> QED BY <2>3
<1>7. ASSUME NEW s \in State, NEW t \in Terminal, NEW cell, cell = actionTable[s][t]
      PROVE  /\ cell.type # "goto"
             /\ cell.type = "shift" => cell.value \in State /\ Continues(s, t, cell.value)
             /\ cell.type = "reduce" =>
                    /\ cell.value \in Rule
                    /\ <<cell.value, Len(rules[cell.value].right)>> \in ItemsOf(s)
  <2>1. CellMade(s, t, cell, Len(states[s]))
    BY <1>2, <1>7 DEF RowMade
  <2>2. cell.type # "goto"
    BY <2>1 DEF CellMade, Cell
  <2>3. ASSUME cell.type = "shift" PROVE cell.value \in State /\ Continues(s, t, cell.value)
    BY <2>1, <2>3, <1>1, StepContinues DEF CellMade
  <2>4. ASSUME cell.type = "reduce"
        PROVE  /\ cell.value \in Rule
               /\ <<cell.value, Len(rules[cell.value].right)>> \in ItemsOf(s)
    <3>1. cell.value \in ReducedBy(s, t, Len(states[s]))
      BY <2>1, <2>4 DEF CellMade
    <3>2. PICK k \in 1..Len(states[s]) : Complete(s, k) /\ cell.value = states[s][k][1]
      BY <3>1 DEF ReducedBy
    <3>3. PICK i : i = states[s][k]
      OBVIOUS
    <3>4. /\ i \in ItemsOf(s) /\ i = <<i[1], i[2]>> /\ i[1] \in Rule
          /\ i[2] = Len(rules[i[1]].right)
      BY <3>2, <3>3, <1>1, CompleteItem
    <3>5. cell.value = i[1]
      BY <3>2, <3>3
    <3> QED BY ONLY <3>4, <3>5
  <2> QED BY <2>2, <2>3, <2>4
<1>8. ASSUME NEW s \in State, NEW r \in Rule, NEW n, n = gotoTable[s][rules[r].left], n # Missing
      PROVE  n \in State /\ Continues(s, rules[r].left, n)
  <2>1. rules[r].left \in nonterminal_list
    BY DEF nonterminal_list, Rule
  <2>2. Leadsto(s, rules[r].left, n)
    BY <2>1, <1>2, <1>8 DEF GotosMade
  <2> QED BY <2>2, <1>1, StepContinues
<1> QED BY <1>1, <1>3, <1>4, <1>5, <1>6, <1>7, <1>8 DEF TablesConsistent

(* A rule that is complete for the start accepts; the others are reduced.   *)
LEMMA CellsCalledFor ==
    ASSUME Ruled, Started, NEW s \in State, states[s] \in Seq(Item)
    PROVE  /\ Accepts(s, Len(states[s])) <=> <<Len(rules), 2>> \in ItemsOf(s)
           /\ \A t : ReducedBy(s, t, Len(states[s])) = Reduced(s, t)
<1> DEFINE n == Len(states[s])
           It(k) == states[s][k]
<1>1. \A k \in 1..n : LET i == It(k)
                      IN  /\ i \in ItemsOf(s) /\ i = <<i[1], i[2]>> /\ i[1] \in Rule /\ i[2] \in Nat
                          /\ Complete(s, k) <=> at_end_of_content(i)
                          /\ Complete(s, k) <=> i[2] = Len(rules[i[1]].right)
                          /\ LeftOf(s, k) = rules[i[1]].left
  BY CompleteItem
<1>2. ItemsOf(s) = {It(k) : k \in 1..n}
  BY DEF ItemsOf
<1>3. \A r \in Rule : rules[r].left = "START'" <=> r = Len(rules)
  BY StartRuleIs DEF Started, Rule
<1>4. Len(rules) \in Rule /\ Len(rules[Len(rules)].right) = 2 /\ rules[Len(rules)].left = "START'"
  BY StartRuleIs DEF Started, Rule
<1> HIDE DEF It, n
<1>5. Accepts(s, n) <=> <<Len(rules), 2>> \in ItemsOf(s)
  <2>1. ASSUME Accepts(s, n) PROVE <<Len(rules), 2>> \in ItemsOf(s)
    <3>1. PICK k \in 1..n : Complete(s, k) /\ LeftOf(s, k) = "START'"
      BY <2>1 DEF Accepts
    <3>2. It(k)[1] = Len(rules)
      BY <3>1, <1>1, <1>3
    <3>3. It(k) = <<Len(rules), 2>>
      BY <3>1, <3>2, <1>1, <1>4
    <3> QED BY <3>3, <1>1
  <2>2. ASSUME <<Len(rules), 2>> \in ItemsOf(s) PROVE Accepts(s, n)
    <3>1. PICK k \in 1..n : It(k) = <<Len(rules), 2>>
      BY <2>2, <1>2
    <3>2. It(k)[1] = Len(rules) /\ It(k)[2] = 2
      BY <3>1
    <3>3. Complete(s, k) /\ LeftOf(s, k) = "START'"
      BY <3>2, <1>1, <1>4
    <3> QED BY <3>3 DEF Accepts
  <2> QED BY <2>1, <2>2
<1>6. ASSUME NEW t PROVE ReducedBy(s, t, n) = Reduced(s, t)
  <2>1. ReducedBy(s, t, n) =
          {It(k)[1] : k \in {k \in 1..n : /\ at_end_of_content(It(k))
                                          /\ rules[It(k)[1]].left # "START'"
                                          /\ t \in follow[rules[It(k)[1]].left]}}
    BY <1>1 DEF ReducedBy, It
  <2> QED BY <2>1, <1>2 DEF Reduced
<1> QED BY <1>5, <1>6 DEF n

LEMMA GInvJustified == GInv => CellsJustified
<1> DEFINE Leads(s, X, n) ==
               n \in 1..Len(states) /\ ItemsOf(n) = ClosureOf(Moved(s, X), Firsts)
<1> SUFFICES ASSUME GInv, stage = "ready", NEW s \in 1..Len(states)
             PROVE  /\ \A t \in ToSet(terminals) :
                           LET cell == actionTable[s][t]
                               accepts == t = "$" /\ <<Len(rules), 2>> \in ItemsOf(s)
                               shifts == Moved(s, t) # {}
                           IN  /\ cell.type = "accept" <=> accepts
                               /\ cell.type = "shift" <=> shifts /\ ~accepts
                               /\ cell.type = "shift" => Leads(s, t, cell.value)
                               /\ cell.type = "reduce" => cell.value \in Reduced(s, t)
                               /\ cell.type = "error" => Reduced(s, t) = {}
                    /\ \A A \in nonterminal_list :
                           LET n == gotoTable[s][A]
                           IN  IF Moved(s, A) = {} THEN n = Missing ELSE Leads(s, A, n)
  BY DEF CellsJustified
<1>1. s \in State /\ Ruled /\ Started /\ states[s] \in Seq(Item)
  BY Inside DEF State
<1>2. RowMade(s, actionTable[s], Len(states[s])) /\ GotosMade(s, gotoTable[s])
  BY <1>1 DEF GInv, TablesOK, Reduces
<1>3. \A X, n : Leads(s, X, n) <=> Leadsto(s, X, n)
  BY MovedIs DEF Leadsto, StepTo, State
<1>4. ToSet(terminals) = Terminal
  BY TerminalSet DEF GInv
<1>5. /\ Accepts(s, Len(states[s])) <=> <<Len(rules), 2>> \in ItemsOf(s)
      /\ \A t : ReducedBy(s, t, Len(states[s])) = Reduced(s, t)
  BY <1>1, CellsCalledFor
<1> HIDE DEF Leads
<1>6. ASSUME NEW t \in Terminal, NEW cell, cell = actionTable[s][t]
      PROVE  LET accepts == t = "$" /\ <<Len(rules), 2>> \in ItemsOf(s)
                 shifts == Moved(s, t) # {}
             IN  /\ cell.type = "accept" <=> accepts
                 /\ cell.type = "shift" <=> shifts /\ ~accepts
                 /\ cell.type = "shift" => Leads(s, t, cell.value)
                 /\ cell.type = "reduce" => cell.value \in Reduced(s, t)
                 /\ cell.type = "error" => Reduced(s, t) = {}
  <2>1. CellMade(s, t, cell, Len(states[s]))
    BY <1>2, <1>6 DEF RowMade
  <2> QED BY <2>1, <1>3, <1>5, MovedIs DEF CellMade
<1>7. ASSUME NEW A \in nonterminal_list, NEW n, n = gotoTable[s][A]
      PROVE  IF Moved(s, A) = {} THEN n = Missing ELSE Leads(s, A, n)
  BY <1>2, <1>3, <1>7, MovedIs DEF GotosMade
<1> QED BY <1>4, <1>6, <1>7

-----------------------------------------------------------------------------
(***************************************************************************)
(* The parser, with any tables that agree with their states.               *)
(***************************************************************************)

Symbol == Terminal \cup {rules[r].left : r \in Rule}

IsSequence(s) == s \in Seq({s[i] : i \in DOMAIN s})

(* Below the k-th state of a stack are the symbols its rules have passed. *)
Spelled(st, sy, k) ==
    \A i \in ItemsOf(st[k]) :
        /\ i[2] < k
        /\ \A j \in 1..i[2] : sy[k - 1 - i[2] + j] = rules[i[1]].right[j]

(* The next action is the one of the state on top, or the step of that      *)
(* state through the symbol that was just reduced to.                       *)
Pending ==
    IF action.type = "goto"
    THEN /\ Len(stack) = Len(symbols)
         /\ \E r \in Rule : /\ symbols[Len(symbols)] = rules[r].left
                            /\ action.value = gotoTable[Top(stack)][rules[r].left]
    ELSE /\ Len(stack) = Len(symbols) + 1
         /\ action = get_next_action(Top(stack), queue_peek)

InLoop ==
    /\ stack \in Seq(State) /\ stack # <<>>
    /\ symbols \in Seq(Symbol)
    /\ IsSequence(nodes) /\ Len(nodes) = Len(symbols)
    /\ \A k \in 1..Len(stack) : Spelled(stack, symbols, k)
    /\ Pending

IInv ==
    /\ TablesConsistent
    /\ taken \in Nat
    /\ phase = "loop" => InLoop

-----------------------------------------------------------------------------
(* Sequences of trees: they have no set of elements of their own. *)

LEMMA AppendIsSequence ==
    ASSUME NEW s, IsSequence(s), NEW e
    PROVE  IsSequence(Append(s, e)) /\ Len(Append(s, e)) = Len(s) + 1
<1> DEFINE S == {s[i] : i \in DOMAIN s} \cup {e}
<1>1. s \in Seq(S)
  BY DEF IsSequence
<1>2. Append(s, e) \in Seq(S) /\ Len(Append(s, e)) = Len(s) + 1
  BY <1>1
<1> DEFINE t == Append(s, e)
<1>3. t \in Seq({t[i] : i \in DOMAIN t})
  BY <1>2
<1> QED
  BY <1>2, <1>3 DEF IsSequence

LEMMA PopSequence ==
    ASSUME NEW S, NEW s \in Seq(S), NEW n \in Nat, n <= Len(s)
    PROVE  /\ Pop(s, n) \in Seq(S) /\ Len(Pop(s, n)) = Len(s) - n
           /\ \A m \in 1..Len(s) - n : Pop(s, n)[m] = s[m]
<1>1. Len(s) \in Nat /\ Len(s) - n \in 0..Len(s)
  OBVIOUS
<1>2. /\ Pop(s, n) \in Seq(S) /\ Len(Pop(s, n)) = Len(s) - n
      /\ \A m \in 1..Len(s) - n : Pop(s, n)[m] = s[m]
  BY <1>1 DEF Pop
<1> QED
  BY <1>2

LEMMA PopIsSequence ==
    ASSUME NEW s, IsSequence(s), NEW n \in Nat, n <= Len(s)
    PROVE  IsSequence(Pop(s, n)) /\ Len(Pop(s, n)) = Len(s) - n
<1> DEFINE S == {s[i] : i \in DOMAIN s}
<1>1. s \in Seq(S)
  BY DEF IsSequence
<1>2. Pop(s, n) \in Seq(S) /\ Len(Pop(s, n)) = Len(s) - n
  BY <1>1 DEF Pop
<1> DEFINE t == Pop(s, n)
<1>3. t \in Seq({t[i] : i \in DOMAIN t})
  BY <1>2
<1> QED
  BY <1>2, <1>3 DEF IsSequence

-----------------------------------------------------------------------------
(* The two stacks *)

(* Pushing a state that continues the top of the stack with its symbol. *)
LEMMA PushSpelled ==
    ASSUME TablesConsistent,
           NEW st \in Seq(State), st # <<>>, NEW sy, NEW sx,
           NEW X, NEW v \in State, Continues(Top(st), X, v),
           \A k \in 1..Len(st) : Spelled(st, sy, k),
           \A m \in 1..Len(st) - 1 : sx[m] = sy[m],
           sx[Len(st)] = X
    PROVE  \A k \in 1..Len(Append(st, v)) : Spelled(Append(st, v), sx, k)
<1> DEFINE L == Len(st)
<1>1. L \in Nat /\ L > 0 /\ Len(Append(st, v)) = L + 1 /\ st[L] \in State
  OBVIOUS
<1>2. SUFFICES ASSUME NEW k \in 1..L + 1, NEW i \in ItemsOf(Append(st, v)[k])
               PROVE  /\ i[2] < k
                      /\ \A j \in 1..i[2] : sx[k - 1 - i[2] + j] = rules[i[1]].right[j]
  BY <1>1 DEF Spelled
<1>3. CASE k \in 1..L
  <2>1. Append(st, v)[k] = st[k] /\ st[k] \in State
    BY <1>1, <1>3
  <2>2. i[2] \in Nat /\ i[2] < k
        /\ \A j \in 1..i[2] : sy[k - 1 - i[2] + j] = rules[i[1]].right[j]
    <3>1. i \in ItemsOf(st[k]) /\ Spelled(st, sy, k)
      BY <1>2, <1>3, <2>1
    <3>2. i[2] \in Nat
      BY <2>1, <3>1 DEF TablesConsistent
    <3> QED BY <3>1, <3>2 DEF Spelled
  <2>3. \A j \in 1..i[2] : k - 1 - i[2] + j \in 1..L - 1
    BY <1>1, <1>3, <2>2
  <2> QED
    BY <2>2, <2>3
<1>4. CASE k = L + 1
  <2>1. i \in ItemsOf(v) /\ i[2] \in Nat
    <3>1. Append(st, v)[k] = v
      BY <1>1, <1>4
    <3>2. i \in ItemsOf(v)
      BY <1>2, <3>1
    <3> QED
      BY <3>2 DEF TablesConsistent
  <2>2. CASE i[2] = 0
    BY <1>1, <1>4, <2>2
  <2>3. CASE i[2] > 0
    <3> DEFINE h == <<i[1], i[2] - 1>>
    <3>1. rules[i[1]].right[i[2]] = X /\ h \in ItemsOf(st[L])
      BY <2>1, <2>3 DEF Continues, Top
    <3>2. h[1] = i[1] /\ h[2] = i[2] - 1 /\ h[2] \in Nat
      BY <2>1, <2>3
    <3>3. h[2] < L /\ \A j \in 1..h[2] : sy[L - 1 - h[2] + j] = rules[h[1]].right[j]
      BY <1>1, <3>1 DEF Spelled
    <3> HIDE DEF h
    <3>4. i[2] < k
      BY <1>1, <1>4, <2>1, <3>2, <3>3
    <3>5. ASSUME NEW j \in 1..i[2]
          PROVE  sx[k - 1 - i[2] + j] = rules[i[1]].right[j]
      <4>1. k - 1 - i[2] + j = L - i[2] + j
        BY <1>1, <1>4, <2>1
      <4>2. CASE j = i[2]
        <5>1. k - 1 - i[2] + j = L
          BY <1>1, <2>1, <4>1, <4>2
        <5> QED
          BY <3>1, <4>2, <5>1
      <4>3. CASE j < i[2]
        <5>1. j \in 1..h[2] /\ L - 1 - h[2] + j = L - i[2] + j
          BY <1>1, <2>1, <3>2, <4>3
        <5>2. L - i[2] + j \in 1..L - 1
          <6>1. PICK n : n = i[2]
            OBVIOUS
          <6>2. L \in Nat /\ n \in Nat /\ j \in Nat /\ 1 <= j /\ j < n
            BY <1>1, <2>1, <4>3, <6>1
          <6>3. n - 1 < L
            BY <3>2, <3>3, <6>1
          <6>4. L - n + j \in 1..L - 1
            BY ONLY <6>2, <6>3
          <6> QED
            BY ONLY <6>1, <6>4
        <5>3. sy[L - i[2] + j] = rules[i[1]].right[j]
          BY <3>2, <3>3, <5>1
        <5>4. sx[L - i[2] + j] = sy[L - i[2] + j]
          BY <1>1, <5>2
        <5> QED
          BY ONLY <4>1, <5>3, <5>4
      <4> QED
        BY <2>1, <4>2, <4>3
    <3> QED
      BY <3>4, <3>5
  <2> QED
    BY <2>1, <2>2, <2>3
<1> QED
  BY <1>1, <1>3, <1>4

(* What is left of the stacks when both are popped still fits. *)
LEMMA PopSpelled ==
    ASSUME TablesConsistent,
           NEW st \in Seq(State), NEW sy, NEW sx,
           NEW n \in Nat, n < Len(st),
           \A k \in 1..Len(st) : Spelled(st, sy, k),
           \A m \in 1..Len(st) - n - 1 : sx[m] = sy[m]
    PROVE  \A k \in 1..Len(Pop(st, n)) : Spelled(Pop(st, n), sx, k)
<1> DEFINE L == Len(st) - n
<1>1. L \in Nat /\ L > 0 /\ Len(Pop(st, n)) = L /\ L <= Len(st)
      /\ \A k \in 1..L : Pop(st, n)[k] = st[k] /\ st[k] \in State
  <2>1. Len(st) \in Nat /\ L \in Nat /\ L > 0 /\ L <= Len(st)
    OBVIOUS
  <2>2. Len(Pop(st, n)) = L /\ \A k \in 1..L : Pop(st, n)[k] = st[k]
    BY <2>1 DEF Pop
  <2>3. \A k \in 1..L : st[k] \in State
    BY <2>1
  <2> QED
    BY <2>1, <2>2, <2>3
<1> HIDE DEF L
<1>2. SUFFICES ASSUME NEW k \in 1..L, NEW i \in ItemsOf(st[k])
               PROVE  /\ i[2] < k
                      /\ \A j \in 1..i[2] : sx[k - 1 - i[2] + j] = rules[i[1]].right[j]
  BY <1>1 DEF Spelled
<1>3. i[2] \in Nat /\ i[2] < k
      /\ \A j \in 1..i[2] : sy[k - 1 - i[2] + j] = rules[i[1]].right[j]
  <2>1. k \in 1..Len(st) /\ st[k] \in State
    BY <1>1
  <2>2. i[2] \in Nat
    BY <2>1 DEF TablesConsistent
  <2>3. Spelled(st, sy, k)
    BY <2>1
  <2> QED
    BY <2>2, <2>3 DEF Spelled
<1>4. ASSUME NEW j \in 1..i[2]
      PROVE  k - 1 - i[2] + j \in 1..L - 1
  <2> DEFINE p == i[2]
  <2>1. p \in Nat /\ p < k /\ j \in 1..p /\ k \in 1..L /\ L \in Nat
    BY <1>1, <1>3
  <2> HIDE DEF p
  <2>2. k - 1 - p + j \in 1..L - 1
    BY <2>1
  <2> QED
    BY <2>2 DEF p
<1>5. \A m \in 1..L - 1 : sx[m] = sy[m]
  BY DEF L
<1> QED
  BY <1>3, <1>4, <1>5

-----------------------------------------------------------------------------
(* The steps *)

(* The invariant after a step that leaves the tables alone. *)
LEMMA NextInLoop ==
    ASSUME UNCHANGED tableVars,
           stack' \in Seq(State), stack' # <<>>,
           symbols' \in Seq(Symbol),
           IsSequence(nodes'), Len(nodes') = Len(symbols'),
           \A k \in 1..Len(stack') : Spelled(stack', symbols', k),
           IF action'.type = "goto"
           THEN /\ Len(stack') = Len(symbols')
                /\ \E r \in Rule :
                      /\ symbols'[Len(symbols')] = rules[r].left
                      /\ action'.value = gotoTable[Top(stack')][rules[r].left]
           ELSE /\ Len(stack') = Len(symbols') + 1
                /\ action' = get_next_action(Top(stack'), queue_peek')
    PROVE  InLoop'
<1>1. rules' = rules /\ states' = states /\ terminals' = terminals
      /\ actionTable' = actionTable /\ gotoTable' = gotoTable
  BY DEF tableVars
<1>2. State' = State /\ Rule' = Rule /\ Terminal' = Terminal
  BY <1>1 DEF State, Rule, Terminal
<1>3. Symbol' = Symbol
  BY <1>1, <1>2 DEF Symbol
<1>4. (\A k \in 1..Len(stack) : Spelled(stack, symbols, k))'
  BY <1>1 DEF Spelled, ItemsOf
<1>5. Pending'
  BY <1>1, <1>2 DEF Pending, get_next_action, associationArray, Top
<1>6. IsSequence(nodes)'
  BY DEF IsSequence
<1> QED
  BY <1>2, <1>3, <1>4, <1>5, <1>6 DEF InLoop

LEMMA TablesStay ==
    ASSUME TablesConsistent, UNCHANGED tableVars
    PROVE  TablesConsistent'
<1>1. rules' = rules /\ states' = states /\ terminals' = terminals
      /\ actionTable' = actionTable /\ gotoTable' = gotoTable
  BY DEF tableVars
<1>2. State' = State /\ Rule' = Rule /\ Terminal' = Terminal
  BY <1>1 DEF State, Rule, Terminal
<1>3. \A s : ItemsOf(s)' = ItemsOf(s)
  BY <1>1 DEF ItemsOf
<1>4. \A s, X, n : Continues(s, X, n) => Continues(s, X, n)'
  BY <1>1, <1>3 DEF Continues
<1>5. ASSUME NEW s \in State, NEW t \in Terminal, NEW cell, cell = actionTable[s][t]
      PROVE  /\ cell.type # "goto"
             /\ cell.type = "shift" =>
                    cell.value \in State /\ Continues(s, t, cell.value)'
             /\ cell.type = "reduce" =>
                    /\ cell.value \in Rule
                    /\ <<cell.value, Len(rules'[cell.value].right)>> \in ItemsOf(s)'
  <2>1. /\ cell.type # "goto"
        /\ cell.type = "shift" =>
               cell.value \in State /\ Continues(s, t, cell.value)
        /\ cell.type = "reduce" =>
               /\ cell.value \in Rule
               /\ <<cell.value, Len(rules[cell.value].right)>> \in ItemsOf(s)
    BY <1>5 DEF TablesConsistent
  <2> QED
    BY <1>1, <1>3, <1>4, <2>1
<1>6. ASSUME NEW s \in State, NEW r \in Rule, NEW X, X = rules[r].left,
             NEW n, n = gotoTable[s][X], n # Missing
      PROVE  n \in State /\ Continues(s, X, n)'
  <2>1. n \in State /\ Continues(s, X, n)
    BY <1>6 DEF TablesConsistent
  <2> QED
    BY <1>4, <2>1
<1>7. /\ State # {} /\ Len(terminals') \in Nat \ {0}
      /\ \A r \in Rule : Len(rules'[r].right) \in Nat \ {0}
  BY <1>1 DEF TablesConsistent
<1>8. /\ \A s \in State : \A i \in ItemsOf(s)' : i[2] \in Nat
      /\ \A i \in ItemsOf(1)' : i[2] = 0
  BY <1>1, <1>3 DEF TablesConsistent
<1>9. (\A s \in State : \A t \in Terminal :
          LET cell == actionTable[s][t]
          IN  /\ cell.type # "goto"
              /\ cell.type = "shift" =>
                     cell.value \in State /\ Continues(s, t, cell.value)
              /\ cell.type = "reduce" =>
                     /\ cell.value \in Rule
                     /\ <<cell.value, Len(rules[cell.value].right)>> \in ItemsOf(s))'
  BY <1>1, <1>2, <1>5
<1>10. (\A s \in State, r \in Rule :
          LET n == gotoTable[s][rules[r].left]
          IN  n # Missing => n \in State /\ Continues(s, rules[r].left, n))'
  BY <1>1, <1>2, <1>6 DEF Missing
<1> QED
  BY <1>2, <1>7, <1>8, <1>9, <1>10 DEF TablesConsistent

(* A shift in the state on top is a step of that state through the column   *)
(* of the token, and a goto one through the symbol reduced to.              *)
LEMMA StepOfTop ==
    ASSUME TablesConsistent, InLoop
    PROVE  /\ Top(stack) \in State
           /\ associationArray(queue_peek) \in Terminal
           /\ action.type = "shift" =>
                 /\ action.value \in State
                 /\ Continues(Top(stack), associationArray(queue_peek), action.value)
           /\ action.type = "reduce" =>
                 /\ action.value \in Rule
                 /\ <<action.value, Len(rules[action.value].right)>> \in ItemsOf(Top(stack))
           /\ action.type = "goto" /\ action.value # Missing =>
                 /\ action.value \in State
                 /\ Continues(Top(stack), symbols[Len(symbols)], action.value)
<1>1. Top(stack) \in State
  <2>1. stack \in Seq(State) /\ stack # <<>>
    BY DEF InLoop
  <2> QED
    BY <2>1 DEF Top
<1>2. associationArray(queue_peek) \in Terminal
  <2>1. Len(terminals) \in Nat \ {0}
    BY DEF TablesConsistent
  <2>2. terminals[1] \in Terminal
    BY <2>1 DEF Terminal
  <2> QED
    BY <2>2 DEF associationArray
<1>3. action.type # "goto" =>
          action = actionTable[Top(stack)][associationArray(queue_peek)]
  BY DEF InLoop, Pending, get_next_action
<1>4. ASSUME action.type = "shift"
      PROVE  /\ action.value \in State
             /\ Continues(Top(stack), associationArray(queue_peek), action.value)
  BY <1>1, <1>2, <1>3, <1>4 DEF TablesConsistent
<1>5. ASSUME action.type = "reduce"
      PROVE  /\ action.value \in Rule
             /\ <<action.value, Len(rules[action.value].right)>> \in ItemsOf(Top(stack))
  BY <1>1, <1>2, <1>3, <1>5 DEF TablesConsistent
<1>6. ASSUME action.type = "goto", action.value # Missing
      PROVE  /\ action.value \in State
             /\ Continues(Top(stack), symbols[Len(symbols)], action.value)
  <2>1. PICK r \in Rule : /\ symbols[Len(symbols)] = rules[r].left
                          /\ action.value = gotoTable[Top(stack)][rules[r].left]
    BY <1>6 DEF InLoop, Pending
  <2> QED
    BY <1>1, <1>6, <2>1 DEF TablesConsistent
<1> QED
  BY <1>1, <1>2, <1>4, <1>5, <1>6

(* What the complete item on top says of the stacks. *)
LEMMA ReducePossible ==
    ASSUME TablesConsistent, InLoop, action.type = "reduce"
    PROVE  LET right == rules[action.value].right
           IN  /\ Len(stack) = Len(symbols) + 1
               /\ Len(right) \in Nat \ {0} /\ Len(right) < Len(stack)
               /\ \A j \in 1..Len(right) :
                      symbols[Len(symbols) - Len(right) + j] = right[j]
<1> DEFINE right == rules[action.value].right
           item == <<action.value, Len(right)>>
<1>1. action.value \in Rule /\ item \in ItemsOf(Top(stack))
  BY StepOfTop
<1>2. Len(stack) = Len(symbols) + 1 /\ Len(stack) \in 1..Len(stack) /\ Len(symbols) \in Nat
  <2>1. stack \in Seq(State) /\ stack # <<>> /\ symbols \in Seq(Symbol)
    BY DEF InLoop
  <2>2. Len(stack) = Len(symbols) + 1
    BY DEF InLoop, Pending
  <2> QED
    BY <2>1, <2>2
<1>3. Spelled(stack, symbols, Len(stack))
  BY <1>2 DEF InLoop
<1>4. Len(right) \in Nat \ {0}
  BY <1>1 DEF TablesConsistent
<1>5. item[2] = Len(right) /\ item[1] = action.value
  OBVIOUS
<1>6. item[2] < Len(stack)
      /\ \A j \in 1..item[2] :
            symbols[Len(stack) - 1 - item[2] + j] = rules[item[1]].right[j]
  BY <1>1, <1>3 DEF Spelled, Top
<1> HIDE DEF item
<1>7. \A j \in 1..Len(right) : Len(stack) - 1 - Len(right) + j = Len(symbols) - Len(right) + j
  BY <1>2, <1>4
<1> QED
  BY <1>2, <1>4, <1>5, <1>6, <1>7

-----------------------------------------------------------------------------
(* The operations *)

(* The state a shift or a goto pushes asks the table for the next action. *)
LEMMA AskedAction ==
    ASSUME TablesConsistent, NEW s \in State, NEW t
    PROVE  get_next_action(s, t).type # "goto"
<1>1. Len(terminals) \in Nat \ {0}
  BY DEF TablesConsistent
<1>2. associationArray(t) \in Terminal
  BY <1>1 DEF associationArray, Terminal
<1> QED
  BY <1>2 DEF TablesConsistent, get_next_action

LEMMA InitStep ==
    ASSUME IInv, init_parser_variables
    PROVE  InLoop'
<1> USE DEF IInv
<1>1. stack' = <<1>> /\ nodes' = <<>> /\ symbols' = <<>> /\ UNCHANGED <<tokens, taken>>
      /\ UNCHANGED tableVars /\ action' = get_next_action(1, queue_peek)
  BY DEF init_parser_variables
<1>2. 1 \in State /\ stack' \in Seq(State) /\ Len(stack') = 1 /\ stack'[1] = 1
  BY <1>1 DEF TablesConsistent, State
<1>3. symbols' \in Seq(Symbol) /\ Len(symbols') = 0 /\ IsSequence(nodes') /\ Len(nodes') = 0
  BY <1>1 DEF IsSequence
<1>4. \A k \in 1..Len(stack') : Spelled(stack', symbols', k)
  BY <1>2 DEF TablesConsistent, Spelled
<1>5. action' = get_next_action(Top(stack'), queue_peek') /\ queue_peek' = queue_peek
  BY <1>1, <1>2 DEF Top, queue_peek
<1>6. action'.type # "goto"
  BY <1>1, <1>2, AskedAction
<1> QED
  BY <1>1, <1>2, <1>3, <1>4, <1>5, <1>6, NextInLoop

LEMMA ShiftStep ==
    ASSUME IInv, handle_shift
    PROVE  InLoop'
<1> DEFINE v == action.value
           X == associationArray(queue_peek)
<1>1. TablesConsistent /\ InLoop /\ action.type = "shift" /\ taken \in Nat
  BY DEF IInv, handle_shift
<1>2. /\ UNCHANGED tableVars /\ tokens' = tokens /\ taken' = taken + 1
      /\ stack' = Append(stack, v) /\ symbols' = Append(symbols, X)
      /\ nodes' = Append(nodes, create_terminal_node(tokens[taken + 1]))
      /\ action' = get_next_action(v, tokens[taken + 2].type)
  BY DEF handle_shift
<1>3. v \in State /\ Continues(Top(stack), X, v) /\ X \in Symbol
  BY <1>1, StepOfTop DEF Symbol
<1>4. stack \in Seq(State) /\ stack # <<>> /\ symbols \in Seq(Symbol)
      /\ IsSequence(nodes) /\ Len(nodes) = Len(symbols)
      /\ \A k \in 1..Len(stack) : Spelled(stack, symbols, k)
  BY <1>1 DEF InLoop
<1>5. Len(stack) = Len(symbols) + 1
  BY <1>1 DEF InLoop, Pending
<1> HIDE DEF v, X
<1>6. stack' \in Seq(State) /\ stack' # <<>> /\ Len(stack') = Len(stack) + 1 /\ Top(stack') = v
  BY <1>2, <1>3, <1>4 DEF Top
<1>7. symbols' \in Seq(Symbol) /\ Len(symbols') = Len(symbols) + 1
      /\ symbols'[Len(stack)] = X /\ \A m \in 1..Len(stack) - 1 : symbols'[m] = symbols[m]
  BY <1>2, <1>3, <1>4, <1>5
<1>8. IsSequence(nodes') /\ Len(nodes') = Len(nodes) + 1
  BY <1>2, <1>4, AppendIsSequence
<1>9. \A k \in 1..Len(stack') : Spelled(stack', symbols', k)
  BY <1>1, <1>2, <1>3, <1>4, <1>7, PushSpelled
<1>10. action' = get_next_action(Top(stack'), queue_peek')
  <2>1. taken' + 1 = taken + 2
    BY <1>1, <1>2
  <2>2. queue_peek' = tokens[taken + 2].type
    BY <1>2, <2>1 DEF queue_peek
  <2> QED
    BY <1>2, <1>6, <2>2
<1>11. action'.type # "goto"
  BY <1>1, <1>2, <1>3, AskedAction
<1>12. Len(stack') = Len(symbols') + 1 /\ Len(nodes') = Len(symbols')
  BY <1>4, <1>5, <1>6, <1>7, <1>8
<1> QED
  BY <1>2, <1>6, <1>7, <1>8, <1>9, <1>10, <1>11, <1>12, NextInLoop

LEMMA GotoStep ==
    ASSUME IInv, handle_goto
    PROVE  InLoop'
<1> DEFINE v == action.value
           X == symbols[Len(symbols)]
<1>1. TablesConsistent /\ InLoop /\ action.type = "goto" /\ v # Missing
  BY DEF IInv, handle_goto
<1>2. /\ UNCHANGED tableVars /\ tokens' = tokens /\ taken' = taken
      /\ stack' = Append(stack, v) /\ symbols' = symbols /\ nodes' = nodes
      /\ action' = get_next_action(v, queue_peek)
  BY DEF handle_goto, history
<1>3. v \in State /\ Continues(Top(stack), X, v)
  BY <1>1, StepOfTop
<1>4. stack \in Seq(State) /\ stack # <<>> /\ symbols \in Seq(Symbol)
      /\ IsSequence(nodes) /\ Len(nodes) = Len(symbols)
      /\ \A k \in 1..Len(stack) : Spelled(stack, symbols, k)
  BY <1>1 DEF InLoop
<1>5. Len(stack) = Len(symbols)
  BY <1>1 DEF InLoop, Pending
<1> HIDE DEF v, X
<1>6. stack' \in Seq(State) /\ stack' # <<>> /\ Len(stack') = Len(stack) + 1 /\ Top(stack') = v
  BY <1>2, <1>3, <1>4 DEF Top
<1>7. symbols'[Len(stack)] = X /\ \A m \in 1..Len(stack) - 1 : symbols'[m] = symbols[m]
  BY <1>2, <1>5 DEF X
<1>8. \A k \in 1..Len(stack') : Spelled(stack', symbols', k)
  BY <1>1, <1>2, <1>3, <1>4, <1>7, PushSpelled
<1>9. action' = get_next_action(Top(stack'), queue_peek')
  BY <1>2, <1>6 DEF queue_peek
<1>10. action'.type # "goto"
  BY <1>1, <1>2, <1>3, AskedAction
<1>11. Len(stack') = Len(symbols') + 1
  BY <1>2, <1>5, <1>6
<1> QED
  BY <1>2, <1>4, <1>6, <1>8, <1>9, <1>10, <1>11, NextInLoop

LEMMA ReduceStep ==
    ASSUME IInv, handle_reduce
    PROVE  InLoop'
<1> DEFINE rule == rules[action.value]
           n == Len(rule.right)
           A == rule.left
           parent == create_nonterminal_node(A, Latest(nodes, n))
<1>1. TablesConsistent /\ InLoop /\ action.type = "reduce"
  BY DEF IInv, handle_reduce
<1>2. /\ UNCHANGED tableVars
      /\ stack' = Pop(stack, n) /\ symbols' = Append(Pop(symbols, n), A)
      /\ nodes' = IF n = 1 THEN nodes ELSE Append(Pop(nodes, n), parent)
      /\ action' = [type |-> "goto", value |-> gotoTable[Top(stack')][A]]
  BY DEF handle_reduce
<1>3. Len(stack) = Len(symbols) + 1 /\ n \in Nat \ {0} /\ n < Len(stack)
  BY <1>1, ReducePossible
<1>4. stack \in Seq(State) /\ stack # <<>> /\ symbols \in Seq(Symbol)
      /\ IsSequence(nodes) /\ Len(nodes) = Len(symbols)
      /\ \A k \in 1..Len(stack) : Spelled(stack, symbols, k)
  BY <1>1 DEF InLoop
<1>5. action.value \in Rule /\ A \in Symbol
  BY <1>1, StepOfTop DEF Symbol
<1> HIDE DEF rule, n, A, parent
<1>6. stack' \in Seq(State) /\ stack' # <<>> /\ Len(stack') = Len(stack) - n
  <2>1. n \in Nat /\ n <= Len(stack)
    BY <1>3, <1>4
  <2>2. stack' \in Seq(State) /\ Len(stack') = Len(stack) - n
    BY <1>2, <1>4, <2>1, PopSequence
  <2>3. Len(stack') > 0
    BY <1>3, <1>4, <2>2
  <2> QED
    BY <2>2, <2>3
<1>7. /\ symbols' \in Seq(Symbol) /\ Len(symbols') = Len(symbols) - n + 1
      /\ symbols'[Len(symbols')] = A
      /\ \A m \in 1..Len(stack) - n - 1 : symbols'[m] = symbols[m]
  <2> DEFINE rest == Pop(symbols, n)
  <2>1. n \in Nat /\ n <= Len(symbols) /\ Len(symbols) \in Nat
    BY <1>3, <1>4
  <2>2. rest \in Seq(Symbol) /\ Len(rest) = Len(symbols) - n
        /\ \A m \in 1..Len(symbols) - n : rest[m] = symbols[m]
    BY <1>4, <2>1, PopSequence
  <2>3. symbols' = Append(rest, A)
    BY <1>2
  <2> HIDE DEF rest
  <2>4. /\ symbols' \in Seq(Symbol) /\ Len(symbols') = Len(rest) + 1
        /\ symbols'[Len(rest) + 1] = A
        /\ \A m \in 1..Len(rest) : symbols'[m] = rest[m]
    BY <1>5, <2>2, <2>3, AppendSequence
  <2>5. Len(stack) - n - 1 = Len(rest)
    BY <1>3, <2>1, <2>2
  <2> QED
    BY <2>2, <2>4, <2>5
<1>8. IsSequence(nodes') /\ Len(nodes') = Len(nodes) - n + 1
  <2>1. CASE n = 1
    BY <1>2, <1>4, <2>1 DEF IsSequence
  <2>2. CASE n # 1
    <3>1. n \in Nat /\ n <= Len(nodes) /\ Len(nodes) \in Nat
      BY <1>3, <1>4
    <3>2. IsSequence(Pop(nodes, n)) /\ Len(Pop(nodes, n)) = Len(nodes) - n
      BY <1>4, <3>1, PopIsSequence
    <3> QED
      BY <1>2, <2>2, <3>2, AppendIsSequence
  <2> QED
    BY <2>1, <2>2
<1>9. \A k \in 1..Len(stack') : Spelled(stack', symbols', k)
  BY <1>1, <1>2, <1>3, <1>4, <1>7, PopSpelled
<1>10. Len(nodes') = Len(symbols') /\ Len(stack') = Len(symbols')
  BY <1>3, <1>4, <1>6, <1>7, <1>8
<1>11. action'.type = "goto" /\ action'.value = gotoTable[Top(stack')][A]
  BY <1>2
<1>12. \E r \in Rule : /\ symbols'[Len(symbols')] = rules[r].left
                       /\ action'.value = gotoTable[Top(stack')][rules[r].left]
  BY <1>5, <1>7, <1>11 DEF A, rule
<1> QED
  BY <1>2, <1>6, <1>7, <1>8, <1>9, <1>10, <1>11, <1>12, NextInLoop

-----------------------------------------------------------------------------
LEMMA StepInv ==
    ASSUME IInv, [ParserNext]_<<tableVars, parserVars>>
    PROVE  IInv'
<1>1. UNCHANGED tableVars
  BY DEF ParserNext, init_parser_variables, handle_shift, handle_reduce, handle_goto,
         handle_error, handle_accept, try_to_extract_main_root_from_stack
<1>2. TablesConsistent'
  BY <1>1, TablesStay DEF IInv
<1>3. CASE init_parser_variables
  BY <1>2, <1>3, InitStep DEF IInv, init_parser_variables
<1>4. CASE handle_shift
  BY <1>2, <1>4, ShiftStep DEF IInv, handle_shift
<1>5. CASE handle_reduce
  BY <1>2, <1>5, ReduceStep DEF IInv, handle_reduce
<1>6. CASE handle_goto
  BY <1>2, <1>6, GotoStep DEF IInv, handle_goto
<1>7. CASE handle_error
  BY <1>2, <1>7 DEF IInv, handle_error
<1>8. CASE handle_accept
  BY <1>2, <1>8 DEF IInv, handle_accept
<1>9. CASE try_to_extract_main_root_from_stack
  BY <1>2, <1>9 DEF IInv, try_to_extract_main_root_from_stack
<1>10. CASE UNCHANGED <<tableVars, parserVars>>
  <2>1. UNCHANGED <<tokens, taken, stack, nodes, action, phase, symbols>>
    BY <1>10 DEF tableVars, parserVars, history
  <2>2. InLoop => InLoop'
    <3> SUFFICES ASSUME InLoop PROVE InLoop'
      OBVIOUS
    <3>1. queue_peek' = queue_peek
      BY <2>1 DEF queue_peek
    <3> QED
      BY <1>1, <2>1, <3>1, NextInLoop DEF InLoop, Pending
  <2> QED
    BY <1>2, <2>1, <2>2 DEF IInv
<1> QED
  BY <1>3, <1>4, <1>5, <1>6, <1>7, <1>8, <1>9, <1>10 DEF ParserNext

LEMMA IInvSpells ==
    ASSUME IInv
    PROVE  StackSpells
<1> SUFFICES ASSUME phase = "loop", action.type = "reduce"
             PROVE  LET right == rules[action.value].right
                    IN  /\ Len(right) < Len(stack) /\ Len(right) <= Len(nodes)
                        /\ \A k \in 1..Len(right) :
                               symbols[Len(symbols) - Len(right) + k] = right[k]
  BY DEF StackSpells
<1>1. TablesConsistent /\ InLoop
  BY DEF IInv
<1>2. Len(nodes) = Len(symbols) /\ Len(symbols) \in Nat
  BY <1>1 DEF InLoop
<1> DEFINE right == rules[action.value].right
<1>3. /\ Len(stack) = Len(symbols) + 1
      /\ Len(right) \in Nat \ {0} /\ Len(right) < Len(stack)
      /\ \A j \in 1..Len(right) : symbols[Len(symbols) - Len(right) + j] = right[j]
  BY <1>1, ReducePossible
<1> HIDE DEF right
<1>4. Len(right) <= Len(nodes)
  BY <1>2, <1>3
<1> QED
  BY <1>3, <1>4 DEF right

(* The parser never reduces a rule whose right side is not on the stack,    *)
(* nor takes more off a stack than is there: for every grammar whose tables *)
(* agree with their states, and every input (Parser.c:102).                 *)
THEOREM ReducesWhatIsThere == ParserSpec => []StackSpells
<1>1. TablesConsistent /\ ParserInit => IInv
  BY DEF ParserInit, IInv
<1>2. IInv /\ [ParserNext]_<<tableVars, parserVars>> => IInv'
  BY StepInv
<1>3. IInv => StackSpells
  BY IInvSpells
<1> QED
  BY <1>1, <1>2, <1>3, PTL DEF ParserSpec

-----------------------------------------------------------------------------
(* The report of an error *)

(* A shift adds a node, and a reduction takes nodes off only to add one. *)
NodeForToken ==
    /\ IInv
    /\ phase \in {"start", "crashed"} => taken = 0
    /\ phase = "loop" /\ taken # 0 => nodes # <<>>

LEMMA NodesAdded ==
    ASSUME IInv
    PROVE  /\ handle_shift => nodes' # <<>>
           /\ handle_reduce => nodes' = nodes \/ nodes' # <<>>
<1>1. CASE handle_shift
  <2>1. IsSequence(nodes)
    BY <1>1 DEF IInv, InLoop, handle_shift
  <2>2. nodes' = Append(nodes, create_terminal_node(tokens[taken + 1]))
    BY <1>1 DEF handle_shift
  <2>3. Len(nodes') = Len(nodes) + 1 /\ Len(nodes) \in Nat
    BY <2>1, <2>2, AppendIsSequence DEF IsSequence
  <2> QED
    BY <1>1, <2>3 DEF handle_shift, handle_reduce
<1>2. CASE handle_reduce
  <2> DEFINE rule == rules[action.value]
             n == Len(rule.right)
             rest == Pop(nodes, n)
             parent == create_nonterminal_node(rule.left, Latest(nodes, n))
  <2>1. TablesConsistent /\ InLoop /\ action.type = "reduce"
    BY <1>2 DEF IInv, handle_reduce
  <2>2. n \in Nat \ {0} /\ n < Len(stack) /\ Len(stack) = Len(symbols) + 1
    BY <2>1, ReducePossible
  <2>3. IsSequence(nodes) /\ Len(nodes) = Len(symbols) /\ Len(symbols) \in Nat
    BY <2>1 DEF InLoop
  <2>4. nodes' = IF n = 1 THEN nodes ELSE Append(rest, parent)
    BY <1>2 DEF handle_reduce
  <2> HIDE DEF rule, n, parent
  <2>5. n <= Len(nodes)
    BY <2>2, <2>3
  <2>6. IsSequence(rest)
    BY <2>2, <2>3, <2>5, PopIsSequence
  <2> HIDE DEF rest
  <2>7. Len(Append(rest, parent)) = Len(rest) + 1 /\ Len(rest) \in Nat
    BY <2>6, AppendIsSequence DEF IsSequence
  <2>8. nodes' = nodes \/ nodes' # <<>>
    BY <2>4, <2>7
  <2> QED
    BY <1>2, <2>8 DEF handle_shift, handle_reduce
<1> QED
  BY <1>1, <1>2

LEMMA NodeForTokenStep ==
    ASSUME NodeForToken, [ParserNext]_<<tableVars, parserVars>>
    PROVE  NodeForToken'
<1>1. IInv' /\ IInv
  BY StepInv DEF NodeForToken
<1>2. CASE init_parser_variables
  BY <1>1, <1>2 DEF NodeForToken, init_parser_variables
<1>3. CASE handle_shift
  BY <1>1, <1>3, NodesAdded DEF NodeForToken, handle_shift
<1>4. CASE handle_reduce
  <2>1. phase' = "loop" /\ taken' = taken /\ phase = "loop"
    BY <1>4 DEF handle_reduce
  <2>2. nodes' = nodes \/ nodes' # <<>>
    BY <1>1, <1>4, NodesAdded
  <2> QED
    BY <1>1, <2>1, <2>2 DEF NodeForToken
<1>5. CASE handle_goto
  BY <1>1, <1>5 DEF NodeForToken, handle_goto
<1>6. CASE handle_error
  BY <1>1, <1>6 DEF NodeForToken, handle_error
<1>7. CASE handle_accept
  BY <1>1, <1>7 DEF NodeForToken, handle_accept
<1>8. CASE try_to_extract_main_root_from_stack
  BY <1>1, <1>8 DEF NodeForToken, try_to_extract_main_root_from_stack
<1>9. CASE UNCHANGED <<tableVars, parserVars>>
  BY <1>1, <1>9 DEF NodeForToken, tableVars, parserVars, history
<1> QED
  BY <1>2, <1>3, <1>4, <1>5, <1>6, <1>7, <1>8, <1>9 DEF ParserNext

(* handle_error reads a token that is no longer there when there is no node *)
(* (Parser.c:73): that can only be at the first token, for every grammar    *)
(* and every input.                                                         *)
THEOREM ReportsAfterFirstToken == ParserSpec => []CrashOnlyAtStart
<1>1. TablesConsistent /\ ParserInit => NodeForToken
  BY DEF ParserInit, IInv, NodeForToken
<1>2. NodeForToken /\ [ParserNext]_<<tableVars, parserVars>> => NodeForToken'
  BY NodeForTokenStep
<1>3. NodeForToken => CrashOnlyAtStart
  BY DEF NodeForToken, CrashOnlyAtStart
<1> QED
  BY <1>1, <1>2, <1>3, PTL DEF ParserSpec

-----------------------------------------------------------------------------
(***************************************************************************)
(* The generator and the parser together.                                  *)
(***************************************************************************)

(* No program before the tables, and no parser before the program. *)
FInv ==
    /\ GInv
    /\ tokens # <<>> => stage = "ready"
    /\ phase # "start" => tokens # <<>>
    /\ taken \in Nat
    /\ phase = "loop" => InLoop
    /\ phase \in {"start", "crashed"} => taken = 0
    /\ phase = "loop" /\ taken # 0 => nodes # <<>>

LEMMA FInvInit == Init => FInv
BY GInvInit DEF Init, ParserInit, FInv

LEMMA MakeTablesStep ==
    ASSUME FInv, MakeTables
    PROVE  FInv'
<1>1. TablesNext /\ UNCHANGED <<tokens, taken, phase>>
  BY DEF MakeTables, parserVars
<1>2. stage # "ready"
  BY <1>1 DEF TablesNext, add_starting_rule, init_starting_state,
        create_a_new_state_for_single_transition,
        create_transition_states_for_possible_transitions, symbols_init, collect_symbols,
        follow_init, compute_follow, next_round_of_follow, init_tables,
        insert_state_transitions_into_table, begin_reduces, build_reduces, tables_done
<1>3. phase = "start" /\ tokens = <<>>
  BY <1>2 DEF FInv
<1>4. GInv'
  BY <1>1, GInvNext DEF FInv
<1> QED BY <1>1, <1>3, <1>4 DEF FInv

LEMMA TokenizeStep ==
    ASSUME FInv, tokenize
    PROVE  FInv'
<1>1. stage = "ready" /\ tokens = <<>> /\ UNCHANGED generatorVars /\ UNCHANGED <<taken, phase>>
  BY DEF tokenize
<1>2. GInv' /\ stage' = stage
  BY <1>1, GInvSame DEF FInv, generatorVars
<1>3. phase = "start"
  BY <1>1 DEF FInv
<1> QED BY <1>1, <1>2, <1>3 DEF FInv

LEMMA ParserStep ==
    ASSUME FInv, ParserNext, UNCHANGED generatorVars
    PROVE  FInv'
<1>1. tokens # <<>> /\ UNCHANGED tokens
  BY DEF FInv, ParserNext, init_parser_variables, handle_shift, handle_reduce, handle_goto,
         handle_error, handle_accept, try_to_extract_main_root_from_stack
<1>2. TablesConsistent
  BY <1>1, GInvFits DEF FInv
<1>3. NodeForToken
  BY <1>2 DEF FInv, NodeForToken, IInv
<1>4. NodeForToken'
  BY <1>3, NodeForTokenStep
<1>5. GInv' /\ stage' = stage
  BY GInvSame DEF FInv, generatorVars
<1> QED BY <1>1, <1>4, <1>5 DEF FInv, NodeForToken, IInv

LEMMA FInvNext ==
    ASSUME FInv, [Next]_vars
    PROVE  FInv'
<1>1. CASE MakeTables
  BY <1>1, MakeTablesStep
<1>2. CASE tokenize
  BY <1>2, TokenizeStep
<1>3. CASE commit_parser
  BY <1>3, ParserStep DEF commit_parser
<1>4. CASE UNCHANGED vars
  <2>1. UNCHANGED generatorVars /\ UNCHANGED <<tableVars, parserVars>>
    BY <1>4 DEF vars, generatorVars, tables, tableVars
  <2>2. GInv' /\ stage' = stage /\ UNCHANGED <<tokens, taken, phase, nodes>>
    BY <2>1, GInvSame DEF FInv, generatorVars, parserVars
  <2>3. phase = "loop" => InLoop'
    <3> SUFFICES ASSUME phase = "loop" PROVE InLoop'
      OBVIOUS
    <3>1. TablesConsistent
      BY GInvFits DEF FInv
    <3>2. IInv
      BY <3>1 DEF FInv, IInv
    <3>3. IInv'
      BY <2>1, <3>2, StepInv
    <3> QED BY <2>2, <3>3 DEF IInv
  <2> QED BY <2>2, <2>3 DEF FInv
<1> QED BY <1>1, <1>2, <1>3, <1>4 DEF Next

THEOREM Invariance == Spec => []FInv
BY FInvInit, FInvNext, PTL DEF Spec

(* The tables are what the parser takes them to be, for every grammar whose *)
(* rules have a right side: a state that was taken for another one that is  *)
(* equal to it goes on with the same rules, a transition is only entered    *)
(* where its state was found, and only what is complete is reduced          *)
(* (ParserTablesTables.c, ParserTableStates.c).                             *)
THEOREM TablesAreMade == Spec => []TablesFitParser
<1>1. FInv => TablesFitParser
  BY GInvFits DEF FInv, TablesFitParser
<1> QED BY <1>1, Invariance, PTL

(* The states are the canonical collection, for every grammar: none is     *)
(* missing, none is there twice and none was not reached, although a state *)
(* is searched by its items in any order, is closed while its list grows   *)
(* (ParserTableStates.c:84), and is only made when a step first leads to  *)
(* it (ParserTableStates.c:189).                                           *)
THEOREM CollectionIsCanonical == Spec => []StatesCanonical
<1>1. FInv => StatesCanonical
  BY GInvCanonical DEF FInv
<1> QED BY <1>1, Invariance, PTL

(* Every cell holds what the items of its state call for, and none is left  *)
(* empty that they call for, for every grammar: the transitions find the    *)
(* state that was made for them, and the reductions fill in what those left *)
(* (ParserTablesTables.c).                                                  *)
THEOREM CellsAreCalledFor == Spec => []CellsJustified
<1>1. FInv => CellsJustified
  BY GInvJustified DEF FInv
<1> QED BY <1>1, Invariance, PTL

(* With the tables the generator makes, and every program: the parser never *)
(* reduces a rule whose right side is not on the stack (Parser.c:102).      *)
THEOREM ParsesWhatIsThere == Spec => []StackSpells
<1>1. FInv => StackSpells
  <2> SUFFICES ASSUME FInv, phase = "loop" PROVE StackSpells
    BY DEF StackSpells
  <2>1. TablesConsistent
    BY GInvFits DEF FInv
  <2>2. IInv
    BY <2>1 DEF FInv, IInv
  <2> QED BY <2>2, IInvSpells
<1> QED BY <1>1, Invariance, PTL

(* With the tables the generator makes, and every program: once a token is  *)
(* taken, handle_error finds the token before it (Parser.c:73).             *)
THEOREM CrashesOnlyAtStart == Spec => []CrashOnlyAtStart
<1>1. FInv => CrashOnlyAtStart
  BY DEF FInv, CrashOnlyAtStart
<1> QED BY <1>1, Invariance, PTL

-----------------------------------------------------------------------------
(* The start and the end of a program in the tables *)

(* No step leads to where the program starts: "START'" is in no right side. *)
LEMMA StartNowhere ==
    ASSUME Ruled, Started, NEW S, Proper(S), NEW X
    PROVE  <<Len(rules), 0>> \notin StepTo(S, X)
<1> DEFINE N == Len(rules)
<1>1. N \in 1..N /\ N \in Nat
  BY DEF Started
<1>2. ASSUME NEW r \in 1..N, NEW i \in 1..Len(rules[r].right)
      PROVE  rules[r].right[i] # "START'"
  <2>1. CASE r = N
    <3>1. i \in 1..2 /\ rules[r].right = <<"PROGRAM", "$">>
      BY <2>1, StartRuleIs DEF Started
    <3> QED BY <3>1
  <2>2. CASE r # N
    BY <2>2, <1>1 DEF Started
  <2> QED BY <2>1, <2>2
<1> SUFFICES ASSUME <<N, 0>> \in StepTo(S, X) PROVE FALSE
  OBVIOUS
<1>3. <<N, 0>> \notin MovedIn(S, X)
  <2> SUFFICES ASSUME <<N, 0>> \in MovedIn(S, X) PROVE FALSE
    OBVIOUS
  <2>1. PICK j \in S : <<N, 0>> = <<j[1], j[2] + 1>>
    BY MovedInOf
  <2>2. j[2] \in Nat
    BY DEF Proper, Item
  <2> QED BY <2>1, <2>2
<1>4. PICK i \in MovedIn(S, X) : /\ ~at_end_of_content(i)
                                 /\ <<get_next_symbol(i), rules[N].left>> \in Firsts
  <2>1. PICK r : <<N, 0>> = <<r, 0>> /\ \E i \in MovedIn(S, X) :
            /\ ~at_end_of_content(i) /\ <<get_next_symbol(i), rules[r].left>> \in Firsts
    BY <1>3 DEF StepTo, ClosureOf
  <2>2. r = N
    BY <2>1
  <2> QED BY <2>1, <2>2
<1> DEFINE next == get_next_symbol(i)
<1>5. next # "START'"
  <2>1. Proper(MovedIn(S, X))
    BY MovedProper
  <2>2. i[1] \in 1..N /\ i[2] + 1 \in 1..Len(rules[i[1]].right)
    BY <2>1, <1>4, NextIsSymbol
  <2> QED BY <2>2, <1>2 DEF get_next_symbol
<1>6. "START'" \in FirstReach(next)
  BY <1>4, FirstsAre, StartRuleIs DEF Started
<1> HIDE DEF next
<1>7. FirstReach(next) \subseteq FirstReach(next) \ {"START'"}
  <2> DEFINE T == FirstReach(next) \ {"START'"}
  <2>1. next \in T
    BY <1>5, FirstReached
  <2>2. \A r \in 1..N : rules[r].left \in T => rules[r].right[1] \in T
    <3> SUFFICES ASSUME NEW r \in 1..N, rules[r].left \in T PROVE rules[r].right[1] \in T
      OBVIOUS
    <3>1. rules[r].right[1] \in FirstReach(next)
      BY FirstReached
    <3>2. 1 \in 1..Len(rules[r].right)
      BY RuledRule
    <3> QED BY <3>1, <3>2, <1>2
  <2> HIDE DEF T
  <2> QED BY <2>1, <2>2, FirstReached DEF T
<1> QED BY <1>6, <1>7

(* Behind the end of the program only the start rule goes on, to its end.   *)
LEMMA EndStep ==
    ASSUME Ruled, Started, NEW s \in State, Proper(ItemsOf(s)), NEW v, Leadsto(s, "$", v),
           MovedIn(ItemsOf(s), "$") # {}
    PROVE  <<Len(rules), 2>> \in ItemsOf(v)
<1> DEFINE N == Len(rules)
<1>1. PICK x : x \in MovedIn(ItemsOf(s), "$")
  OBVIOUS
<1>2. PICK j \in ItemsOf(s) : /\ ~at_end_of_content(j) /\ get_next_symbol(j) = "$"
                              /\ x = <<j[1], j[2] + 1>>
  BY <1>1, MovedInOf
<1>3. j[1] \in 1..N /\ j[2] \in Nat /\ j[2] + 1 \in 1..Len(rules[j[1]].right)
      /\ rules[j[1]].right[j[2] + 1] = "$"
  BY <1>2, NextIsSymbol DEF get_next_symbol
<1>4. j[1] = N
  <2> SUFFICES ASSUME j[1] # N PROVE FALSE
    OBVIOUS
  <2>1. j[1] \in 1..N - 1
    BY <1>3 DEF Started
  <2>2. \A i \in 1..Len(rules[j[1]].right) : rules[j[1]].right[i] # "$"
    BY <2>1 DEF Started
  <2> HIDE DEF N
  <2> QED BY <1>3, <2>2
<1>5. j[2] + 1 = 2
  <2>1. rules[N].right = <<"PROGRAM", "$">> /\ Len(rules[N].right) = 2
    BY StartRuleIs DEF Started
  <2>2. j[2] + 1 \in 1..2 /\ rules[N].right[j[2] + 1] = "$"
    BY <2>1, <1>3, <1>4
  <2>3. j[2] + 1 # 1
    BY <2>1, <2>2
  <2> QED BY <2>2, <2>3
<1>6. <<N, 2>> \in MovedIn(ItemsOf(s), "$")
  BY <1>1, <1>2, <1>4, <1>5
<1> QED BY <1>6 DEF Leadsto, StepTo, ClosureOf

(* The tables that are ready, as the parser uses them.                      *)
LEMMA Ready ==
    ASSUME GInv, stage = "ready"
    PROVE  /\ Ruled /\ Started /\ TablesConsistent
           /\ \A s \in State : Proper(ItemsOf(s))
           /\ "$" \in Terminal /\ terminals[1] # "$"
           /\ \A s \in State, t \in Terminal :
                  LET cell == actionTable[s][t]
                  IN  /\ cell.type = "accept" <=> t = "$" /\ <<Len(rules), 2>> \in ItemsOf(s)
                      /\ cell.type = "shift" => MovedIn(ItemsOf(s), t) # {} /\ Leadsto(s, t, cell.value)
           /\ \A s \in State, r \in Rule :
                  gotoTable[s][rules[r].left] # Missing =>
                      Leadsto(s, rules[r].left, gotoTable[s][rules[r].left])
<1>1. /\ Ruled /\ Started /\ TablesConsistent
      /\ \A s \in State : Proper(ItemsOf(s)) /\ states[s] \in Seq(Item)
  BY Inside, GInvFits
<1>2. "$" \in Terminal /\ terminals[1] # "$"
  <2>1. Terminal = TermsOf(Len(rules)) /\ terminals[1] # "$"
    BY TerminalSet DEF GInv, TerminalsOK, Through
  <2>2. "$" \in ToSet(rules[Len(rules)].right)
    BY <1>1, StartRuleIs DEF Started, ToSet
  <2>3. Len(rules) \in 1..Len(rules)
    BY <1>1 DEF Started
  <2> QED BY <2>1, <2>2, <2>3, StartRuleIs DEF TermsOf
<1>3. \A s \in State : RowMade(s, actionTable[s], Len(states[s])) /\ GotosMade(s, gotoTable[s])
  BY DEF GInv, TablesOK, Reduces
<1>4. ASSUME NEW s \in State, NEW t \in Terminal, NEW cell, cell = actionTable[s][t]
      PROVE  /\ cell.type = "accept" <=> t = "$" /\ <<Len(rules), 2>> \in ItemsOf(s)
             /\ cell.type = "shift" => MovedIn(ItemsOf(s), t) # {} /\ Leadsto(s, t, cell.value)
  <2>1. CellMade(s, t, cell, Len(states[s]))
    BY <1>3, <1>4 DEF RowMade
  <2>2. Accepts(s, Len(states[s])) <=> <<Len(rules), 2>> \in ItemsOf(s)
    BY <1>1, CellsCalledFor
  <2> QED BY <2>1, <2>2 DEF CellMade
<1>5. ASSUME NEW s \in State, NEW r \in Rule, gotoTable[s][rules[r].left] # Missing
      PROVE  Leadsto(s, rules[r].left, gotoTable[s][rules[r].left])
  <2>1. rules[r].left \in nonterminal_list
    BY DEF nonterminal_list, Rule
  <2> QED BY <2>1, <1>3, <1>5 DEF GotosMade
<1> QED BY <1>1, <1>2, <1>4, <1>5

-----------------------------------------------------------------------------
(***************************************************************************)
(* What is accepted is derived.                                            *)
(***************************************************************************)

(* The program ends with two tokens that it has nowhere else.               *)
TokensOK ==
    tokens # <<>> =>
        /\ Len(tokens) \in Nat /\ Len(tokens) >= 2
        /\ \A i \in 1..Len(tokens) : tokens[i].type = "$" <=> i > Len(tokens) - 2

Lines == \A n \in 1..Len(derivation) : IsToken(n) \/ IsReduction(n)

WholeTree(tree) ==
    \E n \in 1..Len(derivation) :
        LET step == derivation[n]
        IN  /\ step.symbol = "PROGRAM" /\ step.tree = tree
            /\ step.from = 0 /\ step.to = Len(tokens) - 2

(* The tokens that the k-th node stands for end where the next one's begin. *)
End(k) == IF k = 0 THEN 0 ELSE derivation[made[k]].to

(* Every node is the tree of a step of the derivation, and together they    *)
(* stand for what was taken.                                                *)
Derived ==
    /\ IsSequence(derivation) /\ Lines
    /\ made \in Seq(1..Len(derivation)) /\ Len(made) = Len(symbols)
    /\ \A k \in 1..Len(made) :
           LET step == derivation[made[k]]
           IN  step.symbol = symbols[k] /\ step.tree = nodes[k] /\ step.from = End(k - 1)
    /\ taken = End(Len(made))

(* The start rule is begun at the bottom of the stack and nowhere else.     *)
Aligned ==
    \A k \in 1..Len(stack) : \A i \in ItemsOf(stack[k]) : i[1] = Len(rules) => k = i[2] + 1

(* Behind the end of the program nothing but acceptance is possible.        *)
Reading ==
    /\ taken < Len(tokens)
    /\ taken = Len(tokens) - 1 => action.type = "accept"

Outcome ==
    /\ phase \in {"start", "loop"} => ~failed
    /\ phase # "done" => root = NoTree
    /\ phase = "stopped" =>
           IF failed THEN action.type # "accept"
           ELSE /\ action.type = "accept" /\ Lines /\ WholeTree(nodes[Len(nodes) - 1])
    /\ phase = "done" => IF failed THEN root = NoTree ELSE Lines /\ WholeTree(root)

AInv ==
    /\ FInv /\ TokensOK /\ Outcome
    /\ phase = "loop" => Derived /\ Aligned /\ Reading

-----------------------------------------------------------------------------
(* The lines of a derivation *)

LEMMA SequenceAppended ==
    ASSUME NEW s, IsSequence(s), NEW e
    PROVE  /\ Len(s) \in Nat /\ IsSequence(Append(s, e)) /\ Len(Append(s, e)) = Len(s) + 1
           /\ Append(s, e)[Len(s) + 1] = e
           /\ \A m \in 1..Len(s) : Append(s, e)[m] = s[m]
<1> DEFINE S == {s[i] : i \in DOMAIN s} \cup {e}
<1>1. s \in Seq(S) /\ e \in S
  BY DEF IsSequence
<1> HIDE DEF S
<1>2. /\ Len(s) \in Nat /\ Len(Append(s, e)) = Len(s) + 1 /\ Append(s, e)[Len(s) + 1] = e
      /\ \A m \in 1..Len(s) : Append(s, e)[m] = s[m]
  BY <1>1, AppendSequence
<1> QED BY <1>2, AppendIsSequence

LEMMA SequencePopped ==
    ASSUME NEW s, IsSequence(s), NEW n \in Nat, n <= Len(s)
    PROVE  /\ Len(s) \in Nat /\ IsSequence(Pop(s, n)) /\ Len(Pop(s, n)) = Len(s) - n
           /\ \A m \in 1..Len(s) - n : Pop(s, n)[m] = s[m]
           /\ Latest(s, n) = [i \in 1..n |-> s[Len(s) - n + i]]
<1> DEFINE S == {s[i] : i \in DOMAIN s}
<1>1. s \in Seq(S)
  BY DEF IsSequence
<1> HIDE DEF S
<1>2. \A m \in 1..Len(s) - n : Pop(s, n)[m] = s[m]
  BY <1>1, PopSequence
<1>4. Len(s) \in Nat
  BY <1>1
<1>3. Latest(s, n) = [i \in 1..n |-> s[Len(s) - n + i]]
  BY <1>1 DEF Latest
<1> QED BY <1>2, <1>3, <1>4, PopIsSequence

LEMMA LatestIn ==
    ASSUME NEW S, NEW s \in Seq(S), NEW n \in Nat, n <= Len(s)
    PROVE  /\ Len(s) \in Nat /\ Latest(s, n) \in Seq(S) /\ Len(Latest(s, n)) = n
           /\ \A i \in 1..n : Latest(s, n)[i] = s[Len(s) - n + i] /\ Len(s) - n + i \in 1..Len(s)
BY DEF Latest

LEMMA LeafStays ==
    ASSUME UNCHANGED <<terminals, tokens>>, NEW n
    PROVE  Leaf(n)' = Leaf(n)
BY DEF Leaf, associationArray, Terminal, create_terminal_node

(* IsReduction, of any derivation.                                          *)
Applied(D, n) ==
    LET step == D[n]
        part(i) == D[step.parts[i]]
        last == Len(step.parts)
    IN  /\ \E r \in RulesOf(step.symbol) :
               /\ Len(rules[r].right) = last
               /\ \A i \in 1..last :
                      step.parts[i] \in 1..n - 1 /\ part(i).symbol = rules[r].right[i]
        /\ step.from = part(1).from /\ step.to = part(last).to
        /\ \A i \in 2..last : part(i).from = part(i - 1).to
        /\ step.tree = IF last = 1 THEN part(1).tree
                       ELSE create_nonterminal_node(step.symbol,
                                [i \in 1..last |-> part(i).tree])

LEMMA AppliedIs ==
    ASSUME NEW n
    PROVE  /\ IsReduction(n) <=> Applied(derivation, n)
           /\ UNCHANGED rules => (IsReduction(n)' <=> Applied(derivation', n))
<1>1. IsReduction(n) <=> Applied(derivation, n)
  BY DEF IsReduction, Applied
<1>2. ASSUME UNCHANGED rules PROVE IsReduction(n)' <=> Applied(derivation', n)
  BY <1>2 DEF IsReduction, Applied, RulesOf, create_nonterminal_node
<1> QED BY <1>1, <1>2

LEMMA AppliedStays ==
    ASSUME \A r \in Rule : Len(rules[r].right) \in Nat \ {0},
           NEW D, NEW E, NEW n \in Nat, n > 0, \A m \in 1..n : E[m] = D[m], Applied(D, n)
    PROVE  Applied(E, n)
<1> DEFINE step == D[n]
           part(i) == D[step.parts[i]]
           last == Len(step.parts)
<1>1. E[n] = step
  OBVIOUS
<1>2. PICK r \in RulesOf(step.symbol) :
             /\ Len(rules[r].right) = last
             /\ \A i \in 1..last :
                    step.parts[i] \in 1..n - 1 /\ part(i).symbol = rules[r].right[i]
  BY DEF Applied
<1>3. /\ step.from = part(1).from /\ step.to = part(last).to
      /\ \A i \in 2..last : part(i).from = part(i - 1).to
      /\ step.tree = IF last = 1 THEN part(1).tree
                     ELSE create_nonterminal_node(step.symbol, [i \in 1..last |-> part(i).tree])
  BY DEF Applied
<1>4. last \in Nat \ {0}
  BY <1>2 DEF RulesOf, Rule
<1>5. \A i \in 1..last : E[step.parts[i]] = part(i)
  <2> SUFFICES ASSUME NEW i \in 1..last PROVE E[step.parts[i]] = part(i)
    OBVIOUS
  <2>1. step.parts[i] \in 1..n - 1
    BY <1>2
  <2> QED BY <2>1
<1> DEFINE q(i) == E[step.parts[i]]
<1> HIDE DEF last, part, step, q
<1>6. \A i \in 1..last : q(i) = part(i)
  BY <1>5 DEF q, part, step
<1>7. [i \in 1..last |-> q(i).tree] = [i \in 1..last |-> part(i).tree]
  BY <1>6
<1>8. /\ step.from = q(1).from /\ step.to = q(last).to
      /\ \A i \in 2..last : q(i).from = q(i - 1).to
      /\ step.tree = IF last = 1 THEN q(1).tree
                     ELSE create_nonterminal_node(step.symbol, [i \in 1..last |-> q(i).tree])
  <2>1. q(1) = part(1) /\ q(last) = part(last)
    BY <1>4, <1>6
  <2>2. \A i \in 2..last : q(i) = part(i) /\ q(i - 1) = part(i - 1)
    BY <1>4, <1>6
  <2> QED BY <2>1, <2>2, <1>3, <1>7
<1>9. \A i \in 1..last : step.parts[i] \in 1..n - 1 /\ q(i).symbol = rules[r].right[i]
  BY <1>2, <1>6
<1>10. \E p \in RulesOf(step.symbol) :
           /\ Len(rules[p].right) = last
           /\ \A i \in 1..last : step.parts[i] \in 1..n - 1 /\ q(i).symbol = rules[p].right[i]
  BY <1>2, <1>9
<1>11. \E p \in RulesOf(E[n].symbol) :
           /\ Len(rules[p].right) = Len(E[n].parts)
           /\ \A i \in 1..Len(E[n].parts) :
                  E[n].parts[i] \in 1..n - 1 /\ E[E[n].parts[i]].symbol = rules[p].right[i]
  BY <1>1, <1>10 DEF q, last
<1>12. /\ E[n].from = E[E[n].parts[1]].from /\ E[n].to = E[E[n].parts[Len(E[n].parts)]].to
       /\ \A i \in 2..Len(E[n].parts) : E[E[n].parts[i]].from = E[E[n].parts[i - 1]].to
  BY <1>1, <1>8 DEF q, last
<1>13. E[n].tree = IF Len(E[n].parts) = 1 THEN E[E[n].parts[1]].tree
                   ELSE create_nonterminal_node(E[n].symbol,
                            [i \in 1..Len(E[n].parts) |-> E[E[n].parts[i]].tree])
  BY <1>1, <1>8 DEF q, last
<1> QED BY <1>11, <1>12, <1>13 DEF Applied

LEMMA LineStays ==
    ASSUME \A r \in Rule : Len(rules[r].right) \in Nat \ {0},
           UNCHANGED <<rules, terminals, tokens>>, NEW n \in Nat, n > 0,
           \A m \in 1..n : derivation'[m] = derivation[m], IsToken(n) \/ IsReduction(n)
    PROVE  (IsToken(n) \/ IsReduction(n))'
<1>1. CASE IsToken(n)
  <2>1. PICK t : t = derivation[n].to
    OBVIOUS
  <2>2. t \in 1..Len(tokens) /\ derivation[n] = Leaf(t)
    BY <1>1, <2>1 DEF IsToken
  <2>3. Leaf(t)' = Leaf(t)
    BY LeafStays
  <2>4. derivation'[n] = derivation[n]
    OBVIOUS
  <2>5. derivation'[n].to = t /\ derivation'[n] = Leaf(t)' /\ t \in 1..Len(tokens')
    BY <2>1, <2>2, <2>3, <2>4
  <2> QED BY <2>5 DEF IsToken
<1>2. CASE IsReduction(n)
  <2>1. Applied(derivation', n)
    BY <1>2, AppliedIs, AppliedStays
  <2> QED BY <2>1, AppliedIs
<1> QED BY <1>1, <1>2

(* A line is added, for a node that takes the place of those behind the     *)
(* m-th.                                                                    *)
LEMMA LineAdded ==
    ASSUME TablesConsistent, Derived, UNCHANGED <<rules, terminals, tokens>>,
           NEW m \in 0..Len(made), NEW step, NEW n, n = Len(derivation) + 1,
           derivation' = Append(derivation, step), made' = Append(Pop(made, Len(made) - m), n),
           Len(symbols') = m + 1, symbols'[m + 1] = step.symbol, nodes'[m + 1] = step.tree,
           \A k \in 1..m : symbols'[k] = symbols[k] /\ nodes'[k] = nodes[k],
           step.from = End(m), taken' = step.to,
           (IsToken(n) \/ IsReduction(n))'
    PROVE  Derived'
<1>1. /\ n \in Nat \ {0} /\ IsSequence(derivation') /\ Len(derivation') = n /\ derivation'[n] = step
      /\ \A i \in 1..n - 1 : derivation'[i] = derivation[i]
  <2>1. IsSequence(derivation)
    BY DEF Derived
  <2> QED BY <2>1, SequenceAppended
<1>2. /\ made' \in Seq(1..n) /\ Len(made') = m + 1 /\ made'[m + 1] = n
      /\ \A k \in 1..m : made'[k] = made[k] /\ made[k] \in 1..n - 1
  <2> DEFINE rest == Pop(made, Len(made) - m)
  <2>1. made \in Seq(1..n - 1)
    BY <1>1 DEF Derived
  <2>2. Len(made) \in Nat /\ \A k \in 1..Len(made) : made[k] \in 1..n - 1
    BY <2>1, InSequence
  <2>3. /\ rest \in Seq(1..n - 1) /\ Len(rest) = m
        /\ \A k \in 1..m : rest[k] = made[k]
    <3>1. PICK j : j = Len(made) - m
      OBVIOUS
    <3>2. j \in Nat /\ j <= Len(made) /\ Len(made) - j = m
      BY <2>2, <3>1
    <3> DEFINE S == 1..n - 1
    <3>3. made \in Seq(S)
      BY <2>1
    <3> HIDE DEF S
    <3>4. /\ Pop(made, j) \in Seq(S) /\ Len(Pop(made, j)) = m
          /\ \A k \in 1..m : Pop(made, j)[k] = made[k]
      BY <3>2, <3>3, PopSequence
    <3> QED BY <3>1, <3>4 DEF S
  <2> HIDE DEF rest
  <2>4. rest \in Seq(1..n)
    <3>1. \A k \in 1..Len(rest) : rest[k] \in 1..n
      BY <2>3, <1>1
    <3> QED BY <2>3, <3>1, IsSequenceOf
  <2>5. n \in 1..n /\ made' = Append(rest, n)
    BY <1>1 DEF rest
  <2>6. /\ made' \in Seq(1..n) /\ Len(made') = Len(rest) + 1 /\ made'[Len(rest) + 1] = n
        /\ \A k \in 1..Len(rest) : made'[k] = rest[k]
    <3> DEFINE S == 1..n
    <3>1. rest \in Seq(S) /\ n \in S
      BY <2>4, <2>5
    <3> HIDE DEF S
    <3>2. /\ Append(rest, n) \in Seq(S) /\ Len(Append(rest, n)) = Len(rest) + 1
          /\ Append(rest, n)[Len(rest) + 1] = n
          /\ \A k \in 1..Len(rest) : Append(rest, n)[k] = rest[k]
      BY <3>1, AppendSequence
    <3> QED BY <2>5, <3>2 DEF S
  <2> QED BY <2>2, <2>3, <2>6
<1>3. \A i \in 1..n : (IsToken(i) \/ IsReduction(i))'
  <2> SUFFICES ASSUME NEW i \in 1..n - 1 PROVE (IsToken(i) \/ IsReduction(i))'
    BY <1>1
  <2>1. i \in 1..Len(derivation) /\ i \in Nat /\ i > 0 /\ \A j \in 1..i : j \in 1..n - 1
    BY <1>1
  <2>2. IsToken(i) \/ IsReduction(i)
    BY <2>1 DEF Derived, Lines
  <2>3. \A r \in Rule : Len(rules[r].right) \in Nat \ {0}
    BY DEF TablesConsistent
  <2> QED BY <2>1, <2>2, <2>3, <1>1, LineStays
<1>4. \A k \in 0..m : End(k)' = End(k)
  <2> SUFFICES ASSUME NEW k \in 0..m, k # 0 PROVE End(k)' = End(k)
    BY DEF End
  <2>1. made'[k] = made[k] /\ derivation'[made[k]] = derivation[made[k]]
    BY <1>1, <1>2
  <2> QED BY <2>1 DEF End
<1>5. m \in Nat /\ m <= Len(made) /\ Len(made) \in Nat
  <2>1. made \in Seq(1..Len(derivation))
    BY DEF Derived
  <2> QED BY <2>1
<1>6. ASSUME NEW k \in 1..m + 1
      PROVE  LET l == derivation'[made'[k]]
             IN  l.symbol = symbols'[k] /\ l.tree = nodes'[k] /\ l.from = End(k - 1)'
  <2>1. CASE k = m + 1
    <3>1. derivation'[made'[k]] = step
      BY <2>1, <1>1, <1>2
    <3>2. End(m)' = End(m)
      BY <1>4, <1>5
    <3>3. k - 1 = m
      BY <2>1, <1>5
    <3>4. PICK p : p = k - 1
      OBVIOUS
    <3>5. End(p)' = End(p) /\ p = m
      BY <3>3, <3>4, <1>4, <1>5
    <3> QED BY <2>1, <3>1, <3>4, <3>5
  <2>2. CASE k # m + 1
    <3>1. k \in 1..m /\ k \in 1..Len(made) /\ k - 1 \in 0..m
      BY <2>2, <1>5
    <3>2. derivation'[made'[k]] = derivation[made[k]]
      BY <3>1, <1>1, <1>2
    <3>3. derivation[made[k]].symbol = symbols[k] /\ derivation[made[k]].tree = nodes[k]
          /\ derivation[made[k]].from = End(k - 1)
      BY <3>1 DEF Derived
    <3>4. PICK p : p = k - 1
      OBVIOUS
    <3>5. End(p)' = End(p)
      BY <3>1, <3>4, <1>4
    <3> QED BY <3>1, <3>2, <3>3, <3>4, <3>5
  <2> QED BY <2>1, <2>2
<1>7. taken' = End(Len(made))'
  <2>1. Len(made') # 0 /\ made'[Len(made')] = n
    BY <1>2, <1>5
  <2> QED BY <2>1, <1>1 DEF End
<1> QED BY <1>1, <1>2, <1>3, <1>6, <1>7 DEF Derived, Lines

(* What the invariants say of the stacks in the loop.                       *)
LEMMA DerivedStacks ==
    ASSUME InLoop, Derived
    PROVE  /\ Len(symbols) \in Nat /\ Len(made) = Len(symbols) /\ Len(nodes) = Len(symbols)
           /\ symbols \in Seq(Symbol) /\ IsSequence(nodes) /\ IsSequence(derivation)
           /\ made \in Seq(1..Len(derivation)) /\ Len(derivation) \in Nat
           /\ \A k \in 1..Len(made) : made[k] \in 1..Len(derivation)
<1>1. /\ Len(made) = Len(symbols) /\ Len(nodes) = Len(symbols)
      /\ symbols \in Seq(Symbol) /\ IsSequence(nodes) /\ IsSequence(derivation)
      /\ made \in Seq(1..Len(derivation))
  BY DEF InLoop, Derived
<1>2. Len(derivation) \in Nat
  BY <1>1, SequenceAppended
<1> QED BY <1>1, <1>2, InSequence

LEMMA PoppedNone ==
    ASSUME NEW S, NEW s \in Seq(S)
    PROVE  Pop(s, 0) = s
BY DEF Pop

LEMMA ShiftDerived ==
    ASSUME TablesConsistent, InLoop, Derived, handle_shift, taken \in Nat, taken < Len(tokens),
           Len(tokens) \in Nat
    PROVE  Derived'
<1>1. /\ symbols' = Append(symbols, associationArray(queue_peek))
      /\ nodes' = Append(nodes, create_terminal_node(tokens[taken + 1]))
      /\ derivation' = Append(derivation, Leaf(taken + 1))
      /\ made' = Append(made, Len(derivation) + 1)
      /\ taken' = taken + 1 /\ UNCHANGED <<rules, terminals, tokens>>
  BY DEF handle_shift, tableVars
<1>2. PICK n, m, t, step : n = Len(derivation) + 1 /\ m = Len(made) /\ t = taken + 1 /\ step = Leaf(t)
  OBVIOUS
<1>3. /\ m \in Nat /\ m \in 0..Len(made) /\ made' = Append(Pop(made, Len(made) - m), n)
      /\ Len(symbols) = m /\ Len(nodes) = m /\ Len(derivation) \in Nat
  BY <1>1, <1>2, DerivedStacks, PoppedNone
<1>4. /\ step.symbol = associationArray(queue_peek) /\ step.tree = create_terminal_node(tokens[taken + 1])
      /\ step.from = taken /\ step.to = taken + 1
  BY <1>2 DEF Leaf, queue_peek
<1>5. /\ Len(symbols') = m + 1 /\ symbols'[m + 1] = step.symbol
      /\ \A k \in 1..m : symbols'[k] = symbols[k]
  <2>1. symbols \in Seq(Symbol) /\ associationArray(queue_peek) \in Symbol
    BY DerivedStacks, StepOfTop DEF Symbol
  <2> QED BY <2>1, <1>1, <1>3, <1>4, AppendSequence
<1>6. nodes'[m + 1] = step.tree /\ \A k \in 1..m : nodes'[k] = nodes[k]
  BY <1>1, <1>3, <1>4, DerivedStacks, SequenceAppended
<1>7. step.from = End(m)
  BY <1>2, <1>4 DEF Derived
<1>8. IsToken(n)'
  <2>1. derivation'[n] = step
    BY <1>1, <1>2, DerivedStacks, SequenceAppended
  <2>2. Leaf(t)' = Leaf(t)
    BY <1>1, LeafStays
  <2>3. derivation'[n].to = t /\ t \in 1..Len(tokens') /\ derivation'[n] = Leaf(t)'
    BY <2>1, <2>2, <1>1, <1>2, <1>4
  <2> QED BY <2>3 DEF IsToken
<1>9. derivation' = Append(derivation, step) /\ taken' = step.to
  BY <1>1, <1>2, <1>4
<1> QED BY <1>1, <1>2, <1>3, <1>5, <1>6, <1>7, <1>8, <1>9, LineAdded

LEMMA ReduceDerived ==
    ASSUME TablesConsistent, InLoop, Derived, handle_reduce
    PROVE  Derived'
<1> DEFINE rule == rules[action.value]
           right == rule.right
           len == Len(right)
           A == rule.left
           parent == create_nonterminal_node(A, Latest(nodes, len))
           tree == Top(nodes')
           parts == Latest(made, len)
           step == Branch(A, parts, tree)
<1>0. PICK n, M, m : n = Len(derivation) + 1 /\ M = Len(made) /\ m = M - len
  OBVIOUS
<1> DEFINE q(i) == derivation[made[m + i]]
<1>1. /\ symbols' = Append(Pop(symbols, len), A)
      /\ nodes' = IF len = 1 THEN nodes ELSE Append(Pop(nodes, len), parent)
      /\ derivation' = Append(derivation, step) /\ made' = Append(Pop(made, len), n)
      /\ taken' = taken /\ UNCHANGED <<rules, terminals, tokens>> /\ action.type = "reduce"
  BY <1>0 DEF handle_reduce, tableVars
<1>2. /\ len \in Nat \ {0} /\ len < Len(stack) /\ Len(stack) = Len(symbols) + 1
      /\ \A j \in 1..len : symbols[Len(symbols) - len + j] = right[j]
  BY <1>1, ReducePossible
<1>3. action.value \in Rule /\ A \in Symbol
  BY <1>1, StepOfTop DEF Symbol
<1> HIDE DEF rule, A, parent, tree, step, right, len
<1>4. /\ m \in Nat /\ M \in Nat /\ m + len = M /\ m \in 0..M /\ len = M - m
      /\ Len(symbols) = M /\ Len(nodes) = M /\ n \in Nat \ {0}
      /\ \A i \in 1..len : m + i \in 1..M
  <2>1. M \in Nat /\ Len(symbols) = M /\ Len(nodes) = M /\ n \in Nat \ {0}
    BY <1>0, DerivedStacks
  <2>2. len <= M
    BY <2>1, <1>2
  <2> QED BY <2>1, <2>2, <1>0, <1>2
<1>5. /\ Len(symbols') = m + 1 /\ symbols'[m + 1] = A
      /\ \A k \in 1..m : symbols'[k] = symbols[k]
  <2> DEFINE rest == Pop(symbols, len)
  <2>1. rest \in Seq(Symbol) /\ Len(rest) = m /\ \A k \in 1..m : rest[k] = symbols[k]
    <3>1. symbols \in Seq(Symbol) /\ len \in Nat /\ len <= Len(symbols) /\ Len(symbols) - len = m
      BY <1>2, <1>4, DerivedStacks
    <3> QED BY <3>1, PopSequence
  <2> HIDE DEF rest
  <2> QED BY <2>1, <1>1, <1>3, AppendSequence DEF rest
<1>6. nodes'[m + 1] = tree /\ \A k \in 1..m : nodes'[k] = nodes[k]
  <2>1. CASE len = 1
    <3>1. nodes' = nodes /\ tree = nodes'[M] /\ M = m + 1
      BY <2>1, <1>1, <1>4 DEF tree, Top
    <3> QED BY <3>1
  <2>2. CASE len # 1
    <3> DEFINE rest == Pop(nodes, len)
    <3>1. IsSequence(rest) /\ Len(rest) = m /\ \A k \in 1..m : rest[k] = nodes[k]
      <4>1. IsSequence(nodes) /\ len \in Nat /\ len <= Len(nodes) /\ Len(nodes) - len = m
        BY <1>2, <1>4, DerivedStacks
      <4> QED BY <4>1, SequencePopped
    <3>2. nodes' = Append(rest, parent)
      BY <2>2, <1>1
    <3> HIDE DEF rest
    <3>3. Len(nodes') = m + 1 /\ \A k \in 1..m : nodes'[k] = rest[k]
      BY <3>1, <3>2, SequenceAppended
    <3> QED BY <3>1, <3>3 DEF tree, Top
  <2> QED BY <2>1, <2>2
<1>7. /\ Len(parts) = len
      /\ \A i \in 1..len : parts[i] = made[m + i] /\ parts[i] \in 1..n - 1 /\ derivation[parts[i]] = q(i)
  <2>1. made \in Seq(1..Len(derivation)) /\ \A k \in 1..M : made[k] \in 1..n - 1
    BY <1>0, DerivedStacks
  <2> DEFINE S == 1..Len(derivation)
  <2>2. made \in Seq(S) /\ len \in Nat /\ len <= Len(made)
    BY <2>1, <1>0, <1>2, <1>4
  <2> HIDE DEF S
  <2>3. Len(parts) = len /\ \A i \in 1..len : parts[i] = made[Len(made) - len + i]
    BY <2>2, LatestIn
  <2> HIDE DEF parts
  <2>4. \A i \in 1..len : parts[i] = made[m + i]
    <3>1. Len(made) - len = m
      BY <1>0
    <3> QED BY <2>3, <3>1
  <2> QED BY <2>1, <2>3, <2>4, <1>4
<1>8. \A i \in 1..len : /\ q(i).symbol = right[i] /\ q(i).tree = nodes[m + i]
                        /\ q(i).from = End(m + i - 1) /\ q(i).to = End(m + i)
  <2> SUFFICES ASSUME NEW i \in 1..len
               PROVE  /\ q(i).symbol = right[i] /\ q(i).tree = nodes[m + i]
                      /\ q(i).from = End(m + i - 1) /\ q(i).to = End(m + i)
    OBVIOUS
  <2>1. PICK k : k = m + i
    OBVIOUS
  <2>2. k \in 1..M /\ k # 0 /\ k = Len(symbols) - len + i
    BY <2>1, <1>4
  <2>3. derivation[made[k]].symbol = symbols[k] /\ derivation[made[k]].tree = nodes[k]
        /\ derivation[made[k]].from = End(k - 1) /\ derivation[made[k]].to = End(k)
    BY <2>2, <1>0 DEF Derived, End
  <2>4. symbols[k] = right[i]
    BY <2>2, <1>2
  <2>5. q(i) = derivation[made[k]] /\ nodes[m + i] = nodes[k] /\ m + i = k
    BY <2>1 DEF q
  <2>6. m + i - 1 = k - 1
    BY <2>1, <1>4
  <2> HIDE DEF q
  <2> QED BY <2>3, <2>4, <2>5, <2>6
<1>9. taken = End(M)
  BY <1>0 DEF Derived
<1>10. /\ step.symbol = A /\ step.parts = parts /\ step.from = derivation[parts[1]].from
       /\ step.to = taken /\ step.tree = tree
  BY DEF step, Branch
<1> HIDE DEF parts, q
<1>11. step.from = End(m) /\ step.from = q(1).from /\ step.to = q(len).to
  <2>1. 1 \in 1..len /\ len \in 1..len /\ m + 1 - 1 = m /\ m + len = M
    BY <1>2, <1>4
  <2>2. q(1).from = End(m) /\ q(len).to = End(M)
    BY <2>1, <1>8
  <2> QED BY <2>1, <2>2, <1>7, <1>9, <1>10
<1>12. tree = IF len = 1 THEN q(1).tree
              ELSE create_nonterminal_node(A, [i \in 1..len |-> q(i).tree])
  <2>1. CASE len = 1
    <3>1. tree = nodes[m + 1] /\ 1 \in 1..len
      BY <2>1, <1>1, <1>4, <1>6
    <3> QED BY <2>1, <3>1, <1>8
  <2>2. CASE len # 1
    <3>1. tree = parent
      <4> DEFINE rest == Pop(nodes, len)
      <4>1. IsSequence(rest) /\ nodes' = Append(rest, parent)
        <5>1. IsSequence(nodes) /\ len \in Nat /\ len <= Len(nodes)
          BY <1>2, <1>4, DerivedStacks
        <5>2. IsSequence(rest)
          BY <5>1, SequencePopped
        <5> QED BY <2>2, <5>2, <1>1
      <4> HIDE DEF rest
      <4>2. Len(nodes') = Len(rest) + 1 /\ nodes'[Len(rest) + 1] = parent
        BY <4>1, SequenceAppended
      <4> QED BY <4>2 DEF tree, Top
    <3>2. Latest(nodes, len) = [i \in 1..len |-> nodes[Len(nodes) - len + i]]
      <4>1. IsSequence(nodes) /\ len \in Nat /\ len <= Len(nodes)
        BY <1>2, <1>4, DerivedStacks
      <4> QED BY <4>1, SequencePopped
    <3>3. \A i \in 1..len : nodes[Len(nodes) - len + i] = q(i).tree
      <4> SUFFICES ASSUME NEW i \in 1..len PROVE nodes[Len(nodes) - len + i] = q(i).tree
        OBVIOUS
      <4>1. Len(nodes) - len + i = m + i
        BY <1>2, <1>4
      <4> QED BY <4>1, <1>8
    <3>4. Latest(nodes, len) = [i \in 1..len |-> q(i).tree]
      BY <3>2, <3>3
    <3> QED BY <2>2, <3>1, <3>4 DEF parent
  <2> QED BY <2>1, <2>2
<1>13. \A i \in 2..len : q(i).from = q(i - 1).to
  <2> SUFFICES ASSUME NEW i \in 2..len PROVE q(i).from = q(i - 1).to
    OBVIOUS
  <2>1. i \in 1..len /\ i - 1 \in 1..len /\ m + i - 1 = m + (i - 1)
    BY <1>2, <1>4
  <2> QED BY <2>1, <1>8
<1>14. IsReduction(n)'
  <2> DEFINE D == derivation'
  <2>1. D[n] = step /\ \A i \in 1..n - 1 : D[i] = derivation[i]
    <3>1. Len(derivation) + 1 = n /\ Len(derivation) = n - 1 /\ IsSequence(derivation)
      BY <1>0, DerivedStacks
    <3> QED BY <3>1, <1>1, SequenceAppended
  <2> HIDE DEF D
  <2>2. \A i \in 1..len : parts[i] \in 1..n - 1 /\ D[parts[i]] = q(i)
    BY <2>1, <1>7
  <2>3. action.value \in RulesOf(A) /\ Len(rules[action.value].right) = len
        /\ \A i \in 1..len : q(i).symbol = rules[action.value].right[i]
    BY <1>3, <1>8 DEF RulesOf, Rule, A, rule, len, right
  <2>4. /\ step.from = D[parts[1]].from /\ step.to = D[parts[len]].to
        /\ \A i \in 2..len : D[parts[i]].from = D[parts[i - 1]].to
    <3>1. 1 \in 1..len /\ len \in 1..len /\ \A i \in 2..len : i \in 1..len /\ i - 1 \in 1..len
      BY <1>2
    <3> QED BY <3>1, <2>2, <1>11, <1>13
  <2>5. step.tree = IF len = 1 THEN D[parts[1]].tree
                    ELSE create_nonterminal_node(A, [i \in 1..len |-> D[parts[i]].tree])
    <3>1. [i \in 1..len |-> D[parts[i]].tree] = [i \in 1..len |-> q(i).tree]
      BY <2>2
    <3>2. len = 1 => D[parts[1]].tree = q(1).tree
      BY <2>2
    <3> QED BY <3>1, <3>2, <1>10, <1>12
  <2>6. Applied(D, n)
    <3> DEFINE d == D[n]
               p(i) == D[d.parts[i]]
               last == Len(d.parts)
    <3>1. d = step /\ d.parts = parts /\ last = len /\ d.symbol = A /\ \A i : p(i) = D[parts[i]]
      BY <2>1, <1>7, <1>10
    <3>2. d.tree = IF last = 1 THEN p(1).tree
                   ELSE create_nonterminal_node(d.symbol, [i \in 1..last |-> p(i).tree])
      <4> HIDE DEF d, p, last
      <4>1. [i \in 1..last |-> p(i).tree] = [i \in 1..len |-> D[parts[i]].tree]
        BY <3>1
      <4>2. last = 1 => p(1).tree = D[parts[1]].tree
        BY <3>1
      <4> QED BY <4>1, <4>2, <3>1, <2>5
    <3>3. d.from = p(1).from /\ d.to = p(last).to /\ \A i \in 2..last : p(i).from = p(i - 1).to
      <4> HIDE DEF d, p, last
      <4> QED BY <3>1, <2>4
    <3>4. action.value \in RulesOf(d.symbol) /\ Len(rules[action.value].right) = last
          /\ \A i \in 1..last : d.parts[i] \in 1..n - 1 /\ p(i).symbol = rules[action.value].right[i]
      <4> HIDE DEF d, p, last
      <4> QED BY <3>1, <2>2, <2>3
    <3> QED BY <3>2, <3>3, <3>4 DEF Applied
  <2> QED BY <2>6, <1>1, AppliedIs DEF D
<1>15. /\ m \in 0..Len(made) /\ made' = Append(Pop(made, Len(made) - m), n)
       /\ symbols'[m + 1] = step.symbol /\ nodes'[m + 1] = step.tree /\ taken' = step.to
  <2>1. Len(made) - m = len /\ m \in 0..Len(made)
    BY <1>0, <1>4
  <2> QED BY <2>1, <1>1, <1>5, <1>6, <1>10
<1>16. (IsToken(n) \/ IsReduction(n))'
  BY <1>14
<1> QED BY <1>0, <1>1, <1>5, <1>6, <1>11, <1>15, <1>16, LineAdded

-----------------------------------------------------------------------------
(* The start rule on the stack *)

(* A state that is pushed has only begun the start rule where the state     *)
(* below it has.                                                            *)
LEMMA AlignedPush ==
    ASSUME Ruled, Started, \A s \in State : Proper(ItemsOf(s)),
           stack \in Seq(State), stack # <<>>, Aligned, UNCHANGED <<rules, states>>,
           NEW X, NEW v \in State, Leadsto(Top(stack), X, v), stack' = Append(stack, v)
    PROVE  Aligned'
<1> DEFINE L == Len(stack)
           N == Len(rules)
<1>1. /\ L \in Nat \ {0} /\ Top(stack) \in State /\ Top(stack) = stack[L]
      /\ Len(stack') = L + 1 /\ stack'[L + 1] = v /\ \A k \in 1..L : stack'[k] = stack[k]
  BY DEF Top
<1>2. \A s : ItemsOf(s)' = ItemsOf(s)
  BY DEF ItemsOf
<1> SUFFICES ASSUME NEW k \in 1..L + 1, NEW i \in ItemsOf(stack'[k]), i[1] = N
             PROVE  k = i[2] + 1
  BY <1>1, <1>2 DEF Aligned
<1>3. CASE k # L + 1
  <2>1. k \in 1..L /\ i \in ItemsOf(stack[k])
    BY <1>1, <1>3
  <2> QED BY <2>1 DEF Aligned
<1>4. CASE k = L + 1
  <2>1. i \in ItemsOf(v) /\ i \in Item
    BY <1>1, <1>4 DEF Proper
  <2>2. i = <<N, i[2]>> /\ i[2] \in Nat
    BY <2>1 DEF Item
  <2>3. i[2] # 0
    <3>1. ItemsOf(v) = StepTo(ItemsOf(stack[L]), X) /\ Proper(ItemsOf(stack[L]))
      BY <1>1 DEF Leadsto
    <3>2. <<N, 0>> \notin StepTo(ItemsOf(stack[L]), X)
      BY <3>1, StartNowhere
    <3> QED BY <3>1, <3>2, <2>1, <2>2
  <2>4. <<N, i[2] - 1>> \in ItemsOf(stack[L])
    <3>1. stack[L] \in State /\ Proper(ItemsOf(stack[L])) /\ Leadsto(stack[L], X, v)
      BY <1>1
    <3>2. Continues(stack[L], X, v)
      BY <3>1, StepContinues
    <3>3. i[2] > 0
      BY <2>2, <2>3
    <3> QED BY <3>2, <3>3, <2>1 DEF Continues
  <2>5. PICK j : j = <<N, i[2] - 1>>
    OBVIOUS
  <2>6. j \in ItemsOf(stack[L]) /\ j[1] = N /\ j[2] = i[2] - 1
    BY <2>4, <2>5
  <2>7. L = j[2] + 1
    BY <2>6, <1>1 DEF Aligned
  <2> QED BY <2>2, <2>6, <2>7, <1>1, <1>4
<1> QED BY <1>3, <1>4

LEMMA AlignedPop ==
    ASSUME Aligned, UNCHANGED <<rules, states>>, NEW n \in Nat, n < Len(stack),
           stack \in Seq(State), stack' = Pop(stack, n)
    PROVE  Aligned'
<1>1. Len(stack') = Len(stack) - n /\ \A k \in 1..Len(stack) - n : stack'[k] = stack[k]
  <2>1. Len(stack) \in Nat /\ n <= Len(stack)
    OBVIOUS
  <2> QED BY <2>1, PopSequence
<1>2. \A k \in 1..Len(stack') : k \in 1..Len(stack) /\ stack'[k] = stack[k]
  BY <1>1
<1>3. \A s : ItemsOf(s)' = ItemsOf(s)
  BY DEF ItemsOf
<1> QED BY <1>2, <1>3 DEF Aligned

-----------------------------------------------------------------------------
(* What the tables and the stacks say together *)

(* What the steps of the parser rely on.                                    *)
Loops ==
    /\ FInv /\ TokensOK /\ phase = "loop" /\ Derived /\ Aligned /\ Reading

LEMMA LoopsOn ==
    ASSUME Loops
    PROVE  /\ stage = "ready" /\ TablesConsistent /\ InLoop /\ IInv
           /\ Len(tokens) - 2 \in Nat /\ Len(tokens) \in Nat /\ taken \in Nat /\ taken < Len(tokens)
           /\ stack \in Seq(State) /\ stack # <<>> /\ Top(stack) \in State
           /\ associationArray(queue_peek) \in Terminal
           /\ action.type # "goto" =>
                  action = actionTable[Top(stack)][associationArray(queue_peek)]
           /\ action.type = "goto" =>
                  \E r \in Rule : /\ symbols[Len(symbols)] = rules[r].left
                                  /\ action.value = gotoTable[Top(stack)][rules[r].left]
<1>1. tokens # <<>> /\ stage = "ready" /\ InLoop /\ taken \in Nat /\ GInv
  BY DEF Loops, FInv
<1>2. TablesConsistent /\ IInv
  BY <1>1, GInvFits DEF IInv
<1>3. Len(tokens) - 2 \in Nat /\ Len(tokens) \in Nat /\ taken < Len(tokens)
  BY <1>1 DEF Loops, TokensOK, Reading
<1>4. stack \in Seq(State) /\ stack # <<>> /\ Pending
  BY <1>1 DEF InLoop
<1>5. Top(stack) \in State /\ associationArray(queue_peek) \in Terminal
  BY <1>1, <1>2, StepOfTop
<1> QED BY <1>1, <1>2, <1>3, <1>4, <1>5 DEF Pending, get_next_action

-----------------------------------------------------------------------------
(* The steps in the loop *)

LEMMA TokensEnd ==
    ASSUME Loops, NEW i \in 1..Len(tokens)
    PROVE  tokens[i].type = "$" <=> i > Len(tokens) - 2
BY DEF Loops, TokensOK, FInv

(* A program has at least its two ends.                                     *)
LEMMA InitLoops ==
    ASSUME FInv, TokensOK, init_parser_variables
    PROVE  Derived' /\ Aligned' /\ Reading'
<1>1. /\ stack' = <<1>> /\ symbols' = <<>> /\ derivation' = <<>> /\ made' = <<>>
      /\ UNCHANGED <<tokens, taken, rules, states>> /\ phase = "start" /\ tokens # <<>>
  BY DEF init_parser_variables, tableVars
<1>2. taken = 0 /\ stage = "ready"
  BY <1>1 DEF FInv
<1>3. Derived'
  <2>1. IsSequence(derivation') /\ Len(made') = 0 /\ Len(symbols') = 0 /\ Len(derivation') = 0
        /\ made' \in Seq(1..Len(derivation'))
    BY <1>1 DEF IsSequence
  <2>2. Lines'
    BY <2>1 DEF Lines
  <2>3. End(Len(made))' = 0
    BY <2>1 DEF End
  <2> QED BY <1>1, <1>2, <2>1, <2>2, <2>3 DEF Derived, IsSequence
<1>4. Aligned'
  <2>1. TablesConsistent
    BY <1>2, GInvFits DEF FInv
  <2>2. Len(stack') = 1 /\ stack'[1] = 1 /\ ItemsOf(1)' = ItemsOf(1)
    BY <1>1 DEF ItemsOf
  <2> QED BY <2>1, <2>2 DEF TablesConsistent, Aligned
<1>5. Reading'
  <2>1. Len(tokens) \in Nat /\ Len(tokens) >= 2
    BY <1>1 DEF TokensOK
  <2>2. PICK l : l = Len(tokens)
    OBVIOUS
  <2>3. taken' = 0 /\ Len(tokens') = l
    BY <1>1, <1>2, <2>2
  <2>4. l \in Nat /\ l >= 2
    BY <2>1, <2>2
  <2>5. 0 < l /\ 0 # l - 1
    BY <2>4
  <2> QED BY <2>3, <2>5 DEF Reading
<1> QED BY <1>3, <1>4, <1>5

LEMMA ShiftLoops ==
    ASSUME Loops, handle_shift
    PROVE  Derived' /\ Aligned' /\ Reading'
<1> DEFINE X == associationArray(queue_peek)
           s == Top(stack)
           v == action.value
           L == Len(tokens)
<1>1. /\ stack' = Append(stack, v) /\ taken' = taken + 1 /\ action.type = "shift"
      /\ action' = get_next_action(v, tokens[taken + 2].type)
      /\ UNCHANGED <<tokens, rules, states, terminals, actionTable>>
  BY DEF handle_shift, tableVars
<1>2. /\ L \in Nat /\ L - 2 \in Nat /\ taken \in Nat /\ taken < L /\ GInv /\ stage = "ready"
      /\ s \in State /\ X \in Terminal /\ action = actionTable[s][X]
  BY <1>1, LoopsOn DEF Loops, FInv
<1>3. Ruled /\ Started /\ \A q \in State : Proper(ItemsOf(q))
  BY <1>2, Ready
<1>4. MovedIn(ItemsOf(s), X) # {} /\ Leadsto(s, X, v)
  BY <1>1, <1>2, Ready
<1>5. v \in State
  BY <1>4 DEF Leadsto
<1> HIDE DEF X, s, v, L
<1>6. Derived'
  BY <1>2, LoopsOn, ShiftDerived DEF L, Loops
<1>7. Aligned'
  BY <1>1, <1>3, <1>4, <1>5, LoopsOn, AlignedPush DEF s, Loops
<1>8. Reading'
  <2>1. taken # L - 1
    BY <1>1 DEF Loops, Reading, L
  <2>2. taken' < L /\ taken' \in Nat
    BY <2>1, <1>1, <1>2
  <2>3. ASSUME taken' = L - 1 PROVE action'.type = "accept"
    <3>1. taken + 1 \in 1..L /\ taken + 1 > L - 2 /\ taken + 2 \in 1..L /\ taken + 2 > L - 2
      BY <2>3, <1>1, <1>2
    <3>2. PICK i, j : i = taken + 1 /\ j = taken + 2
      OBVIOUS
    <3>3. tokens[i].type = "$" /\ tokens[j].type = "$"
      BY <3>1, <3>2, TokensEnd DEF L
    <3>4. "$" \in Terminal
      BY <1>2, Ready
    <3>5. X = "$" /\ associationArray(tokens[j].type) = "$"
      BY <3>2, <3>3, <3>4 DEF X, queue_peek, associationArray
    <3>6. <<Len(rules), 2>> \in ItemsOf(v)
      BY <3>5, <1>2, <1>3, <1>4, EndStep
    <3>7. actionTable[v]["$"].type = "accept"
      BY <3>4, <3>6, <1>2, <1>5, Ready
    <3> QED BY <3>2, <3>5, <3>7, <1>1 DEF get_next_action
  <2> QED BY <2>2, <2>3, <1>1 DEF Reading, L
<1> QED BY <1>6, <1>7, <1>8

LEMMA ReduceLoops ==
    ASSUME Loops, handle_reduce
    PROVE  Derived' /\ Aligned' /\ Reading'
<1> DEFINE n == Len(rules[action.value].right)
<1>1. /\ stack' = Pop(stack, n) /\ action.type = "reduce"
      /\ UNCHANGED <<tokens, taken, rules, states>>
  BY DEF handle_reduce, tableVars
<1>2. TablesConsistent /\ InLoop /\ stack \in Seq(State)
  BY LoopsOn
<1>3. n \in Nat /\ n < Len(stack)
  BY <1>1, <1>2, ReducePossible
<1> HIDE DEF n
<1>4. Derived'
  BY <1>2, ReduceDerived DEF Loops
<1>5. Aligned'
  BY <1>1, <1>2, <1>3, AlignedPop DEF Loops
<1>6. Reading'
  BY <1>1 DEF Loops, Reading
<1> QED BY <1>4, <1>5, <1>6

(* What a derivation says is not about the stack of states.                 *)
LEMMA DerivedStays ==
    ASSUME TablesConsistent, Derived,
           UNCHANGED <<derivation, made, symbols, nodes, taken, rules, terminals, tokens>>
    PROVE  Derived'
<1>1. \A k : End(k)' = End(k)
  BY DEF End
<1>2. Lines'
  <2> SUFFICES ASSUME NEW n \in 1..Len(derivation) PROVE (IsToken(n) \/ IsReduction(n))'
    BY DEF Lines
  <2>1. IsToken(n) \/ IsReduction(n)
    BY DEF Derived, Lines
  <2> QED BY <2>1, LineStays DEF TablesConsistent
<1>3. End(Len(made))' = End(Len(made)) /\ \A k \in 1..Len(made) : End(k - 1)' = End(k - 1)
  BY <1>1
<1> QED BY <1>2, <1>3 DEF Derived, IsSequence

LEMMA GotoLoops ==
    ASSUME Loops, handle_goto
    PROVE  Derived' /\ Aligned' /\ Reading'
<1> DEFINE s == Top(stack)
           v == action.value
<1>1. /\ stack' = Append(stack, v) /\ action.type = "goto" /\ v # Missing
      /\ UNCHANGED <<tokens, taken, rules, states, terminals>>
      /\ UNCHANGED <<derivation, made, symbols, nodes>>
  BY DEF handle_goto, tableVars, history
<1>2. GInv /\ stage = "ready" /\ s \in State /\ stack \in Seq(State) /\ stack # <<>>
  BY LoopsOn DEF Loops, FInv
<1>3. Ruled /\ Started /\ \A q \in State : Proper(ItemsOf(q))
  BY <1>2, Ready
<1>4. PICK r \in Rule : v = gotoTable[s][rules[r].left]
  BY <1>1, LoopsOn
<1>5. Leadsto(s, rules[r].left, v)
  BY <1>1, <1>2, <1>4, Ready
<1>6. v \in State
  BY <1>5 DEF Leadsto
<1> HIDE DEF s, v
<1>7. Derived'
  BY <1>1, LoopsOn, DerivedStays DEF Loops
<1>8. Aligned'
  BY <1>1, <1>2, <1>3, <1>5, <1>6, AlignedPush DEF s, Loops
<1>9. Reading'
  BY <1>1 DEF Loops, Reading
<1> QED BY <1>7, <1>8, <1>9

-----------------------------------------------------------------------------
(* The end *)

(* When a program is accepted, the stack holds it and its end, and nothing  *)
(* else.                                                                    *)
LEMMA AcceptedWhole ==
    ASSUME Loops, action.type = "accept"
    PROVE  Lines /\ WholeTree(nodes[Len(nodes) - 1])
<1> DEFINE X == associationArray(queue_peek)
           s == Top(stack)
           N == Len(rules)
           L == Len(tokens)
<1>1. /\ L \in Nat /\ L - 2 \in Nat /\ taken \in Nat /\ taken < L /\ GInv /\ stage = "ready"
      /\ s \in State /\ X \in Terminal /\ action = actionTable[s][X] /\ InLoop
      /\ stack \in Seq(State) /\ stack # <<>> /\ Derived
  BY LoopsOn DEF Loops, FInv
<1>2. Ruled /\ Started /\ "$" \in Terminal /\ terminals[1] # "$"
  BY <1>1, Ready
<1>3. <<N, 2>> \in ItemsOf(s)
  BY <1>1, Ready
<1>4. Len(stack) = 3 /\ stack[3] = s
  <2>1. Len(stack) \in 1..Len(stack) /\ s = stack[Len(stack)]
    BY <1>1 DEF Top
  <2> DEFINE i == <<N, 2>>
  <2>2. i \in ItemsOf(stack[Len(stack)]) /\ i[1] = N /\ i[2] = 2
    BY <2>1, <1>3
  <2> HIDE DEF i
  <2>3. Len(stack) = i[2] + 1
    BY <2>1, <2>2 DEF Loops, Aligned
  <2> QED BY <2>1, <2>2, <2>3
<1>5. Len(symbols) = 2 /\ Len(nodes) = 2 /\ Len(made) = 2
  <2>1. Len(stack) = Len(symbols) + 1 /\ Len(symbols) \in Nat /\ Len(made) = Len(symbols)
        /\ Len(nodes) = Len(symbols)
    BY <1>1, DerivedStacks DEF InLoop, Pending
  <2>2. PICK n : n = Len(symbols)
    OBVIOUS
  <2>3. n \in Nat /\ 3 = n + 1
    BY <2>1, <2>2, <1>4
  <2>4. n = 2
    BY <2>3
  <2> QED BY <2>1, <2>2, <2>4
<1>6. symbols[1] = "PROGRAM" /\ symbols[2] = "$"
  <2>1. rules[N].right[1] = "PROGRAM" /\ rules[N].right[2] = "$"
    BY <1>2, StartRuleIs DEF Started
  <2>2. Spelled(stack, symbols, 3)
    BY <1>1, <1>4 DEF InLoop
  <2>3. \A j \in 1..2 : symbols[3 - 1 - 2 + j] = rules[N].right[j]
    BY <2>2, <1>3, <1>4 DEF Spelled
  <2>4. symbols[3 - 1 - 2 + 1] = rules[N].right[1] /\ symbols[3 - 1 - 2 + 2] = rules[N].right[2]
    BY <2>3
  <2>5. symbols[1] = rules[N].right[1] /\ symbols[2] = rules[N].right[2]
    BY <2>4
  <2> QED BY <2>1, <2>5
<1> DEFINE first == derivation[made[1]]
           last == derivation[made[2]]
<1>7. /\ first.symbol = "PROGRAM" /\ first.tree = nodes[1] /\ first.from = 0
      /\ last.symbol = "$" /\ last.from = first.to /\ taken = last.to
      /\ made[1] \in 1..Len(derivation) /\ made[2] \in 1..Len(derivation)
  <2>1. \A k \in 1..2 : made[k] \in 1..Len(derivation)
    BY <1>1, <1>5, DerivedStacks
  <2>2. \A k \in 1..2 : /\ derivation[made[k]].symbol = symbols[k]
                        /\ derivation[made[k]].tree = nodes[k]
                        /\ derivation[made[k]].from = End(k - 1)
    BY <1>1, <1>5 DEF Derived
  <2>3. End(1 - 1) = 0 /\ End(2 - 1) = first.to /\ End(2) = last.to /\ taken = End(2)
    BY <1>1, <1>5 DEF Derived, End
  <2>4. 1 \in 1..2 /\ 2 \in 1..2
    OBVIOUS
  <2> HIDE DEF first, last
  <2>5. first.symbol = symbols[1] /\ first.tree = nodes[1] /\ first.from = End(1 - 1)
        /\ last.symbol = symbols[2] /\ last.from = End(2 - 1)
    BY <2>2, <2>4 DEF first, last
  <2> QED BY <2>1, <2>3, <2>4, <2>5, <1>6
<1>8. Lines
  BY <1>1 DEF Derived
<1>9. last = Leaf(taken) /\ taken \in 1..L
  <2>1. IsToken(made[2]) \/ IsReduction(made[2])
    BY <1>7, <1>8 DEF Lines
  <2>2. ~IsReduction(made[2])
    <3> SUFFICES ASSUME IsReduction(made[2]) PROVE FALSE
      OBVIOUS
    <3>1. PICK r : r \in RulesOf("$")
      BY <1>7 DEF IsReduction
    <3>2. r \in 1..N /\ rules[r].left = "$"
      BY <3>1 DEF RulesOf
    <3>3. rules[r].left \in Nonterminal
      BY <3>2, <1>2 DEF Ruled
    <3> QED BY <3>2, <3>3, StartRuleIs
  <2> QED BY <2>1, <2>2, <1>7 DEF IsToken
<1>10. tokens[taken].type = "$" /\ last.from = taken - 1
  <2>1. last.symbol = associationArray(tokens[taken].type) /\ last.from = taken - 1
    BY <1>9 DEF Leaf
  <2> QED BY <2>1, <1>2, <1>7 DEF associationArray
<1>11. taken = L - 1
  <2>1. taken > L - 2
    BY <1>9, <1>10, TokensEnd
  <2> QED BY <2>1, <1>1
<1>12. first.to = L - 2
  BY <1>7, <1>10, <1>11, <1>1
<1>13. nodes[Len(nodes) - 1] = nodes[1]
  BY <1>5
<1> QED BY <1>7, <1>8, <1>12, <1>13 DEF WholeTree

-----------------------------------------------------------------------------
(* The steps of the whole *)

(* The end of the program is not a token of it.                             *)
LEMMA QueuedEnds ==
    ASSUME NEW types \in Seq(STRING), "$" \notin ToSet(types)
    PROVE  LET q == Queued(types)
           IN  /\ Len(q) \in Nat /\ Len(q) >= 2
               /\ \A i \in 1..Len(q) : q[i].type = "$" <=> i > Len(q) - 2
<1> DEFINE ended == types \o <<"$", "$">>
           n == Len(types)
           q == Queued(types)
<1>1. n \in Nat /\ \A i \in 1..n : types[i] # "$"
  BY DEF ToSet
<1>2. Len(ended) = n + 2 /\ \A i \in 1..n + 2 : ended[i] = IF i <= n THEN types[i] ELSE "$"
  <2>1. <<"$", "$">> \in Seq({"$"}) /\ Len(<<"$", "$">>) = 2
        /\ \A i \in 1..2 : <<"$", "$">>[i] = "$"
    <3>1. <<"$", "$">>[1] = "$" /\ <<"$", "$">>[2] = "$"
      OBVIOUS
    <3>2. \A i \in 1..2 : i = 1 \/ i = 2
      OBVIOUS
    <3>3. <<"$", "$">> \in Seq({"$"}) /\ Len(<<"$", "$">>) = 2
      OBVIOUS
    <3> QED BY <3>1, <3>2, <3>3
  <2> DEFINE ends == <<"$", "$">>
             S == STRING \cup {"$"}
  <2>4. types \in Seq(S) /\ ends \in Seq(S)
    BY <2>1
  <2> HIDE DEF ends, S
  <2>2. Len(types \o ends) = n + 2
        /\ \A i \in 1..n + 2 : (types \o ends)[i] = IF i <= n THEN types[i] ELSE ends[i - n]
    BY <2>1, <2>4 DEF ends
  <2>3. \A i \in 1..n + 2 : i > n => i - n \in 1..2
    BY <1>1
  <2> QED BY <2>1, <2>2, <2>3, <1>1 DEF ends
<1>3. q = [i \in 1..Len(ended) |-> [type |-> ended[i], at |-> i]]
  BY DEF Queued
<1> HIDE DEF ended, n, q
<1>4. Len(q) = n + 2 /\ \A i \in 1..n + 2 : q[i].type = ended[i]
  BY <1>1, <1>2, <1>3
<1>5. \A i \in 1..n + 2 : q[i].type = "$" <=> i > n
  BY <1>1, <1>2, <1>4
<1>6. PICK l : l = Len(q)
  OBVIOUS
<1>7. l \in Nat /\ l >= 2 /\ l - 2 = n /\ l = n + 2
  BY <1>1, <1>4, <1>6
<1> QED BY <1>5, <1>6, <1>7 DEF q

LEMMA TokenizedEnds ==
    ASSUME FInv, tokenize
    PROVE  TokensOK'
<1>1. stage = "ready" /\ RulesOK /\ \E types \in Inputs(rules) : tokens' = Queued(types)
  BY DEF tokenize, FInv, GInv
<1>2. PICK g \in Grammars : rules = Append(g, StartRule)
  BY <1>1 DEF RulesOK
<1>3. PICK types \in Inputs(Append(g, StartRule)) : tokens' = Queued(types)
  BY <1>1, <1>2
<1>4. types \in Seq(STRING) /\ "$" \notin ToSet(types)
  BY InputsAssumption
<1> QED BY <1>3, <1>4, QueuedEnds DEF TokensOK

LEMMA AInvInit == Init => AInv
BY FInvInit DEF Init, ParserInit, AInv, TokensOK, Outcome

(* Before and behind the loop, and in it.                                   *)
LEMMA BeginningKeeps ==
    ASSUME AInv, FInv', UNCHANGED <<phase, root, failed>>, phase = "start", TokensOK'
    PROVE  AInv'
BY DEF AInv, Outcome

LEMMA LoopKeeps ==
    ASSUME AInv, FInv', UNCHANGED <<root, failed, tokens>>, phase \in {"start", "loop"},
           phase' = "loop", Derived', Aligned', Reading'
    PROVE  AInv'
<1>1. TokensOK'
  BY DEF AInv, TokensOK
<1>2. Outcome'
  BY DEF AInv, Outcome
<1> QED BY <1>1, <1>2 DEF AInv

(* What is derived stays so behind the loop.                                *)
LEMMA TreeStays ==
    ASSUME TablesConsistent, UNCHANGED <<derivation, rules, terminals, tokens>>, NEW tree,
           Lines, WholeTree(tree)
    PROVE  Lines' /\ WholeTree(tree)'
<1>1. Lines'
  <2> SUFFICES ASSUME NEW n \in 1..Len(derivation) PROVE (IsToken(n) \/ IsReduction(n))'
    BY DEF Lines
  <2>1. IsToken(n) \/ IsReduction(n)
    BY DEF Lines
  <2> QED BY <2>1, LineStays DEF TablesConsistent
<1>2. WholeTree(tree)'
  BY DEF WholeTree
<1> QED BY <1>1, <1>2

LEMMA EndKeeps ==
    ASSUME AInv, FInv', handle_error \/ handle_accept \/ try_to_extract_main_root_from_stack
    PROVE  AInv'
<1>1. UNCHANGED <<tokens, rules, terminals, derivation, action>> /\ phase # "start"
      /\ phase' \in {"stopped", "crashed", "done"}
  BY DEF handle_error, handle_accept, try_to_extract_main_root_from_stack, tableVars, history
<1>2. TokensOK' /\ TablesConsistent
  <2>1. TokensOK'
    BY <1>1 DEF AInv, TokensOK
  <2>2. TablesConsistent
    BY <1>1, GInvFits DEF AInv, FInv
  <2> QED BY <2>1, <2>2
<1>3. CASE handle_error
  <2>1. action.type # "accept" /\ phase = "loop" /\ root' = root
        /\ \/ phase' = "stopped" /\ failed' = TRUE
           \/ phase' = "crashed"
    BY <1>3 DEF handle_error
  <2>2. Outcome'
    BY <2>1, <1>1 DEF AInv, Outcome
  <2> QED BY <2>1, <2>2, <1>2 DEF AInv
<1>4. CASE handle_accept
  <2>1. action.type = "accept" /\ phase = "loop" /\ phase' = "stopped"
        /\ UNCHANGED <<root, failed, nodes>>
    BY <1>4 DEF handle_accept
  <2>2. Loops
    BY <2>1 DEF AInv, Loops
  <2>3. PICK tree : tree = nodes[Len(nodes) - 1]
    OBVIOUS
  <2>4. Lines /\ WholeTree(tree)
    BY <2>1, <2>2, <2>3, AcceptedWhole
  <2>5. Lines' /\ WholeTree(tree)'
    BY <2>4, <1>1, <1>2, TreeStays
  <2>6. tree = nodes'[Len(nodes') - 1]
    BY <2>1, <2>3
  <2>7. ~failed /\ root = NoTree
    BY <2>1 DEF AInv, Outcome
  <2>8. Outcome'
    <3>1. WholeTree(nodes[Len(nodes) - 1])'
      BY <2>5, <2>6 DEF WholeTree
    <3> QED BY <3>1, <2>1, <2>5, <2>7, <1>1 DEF Outcome
  <2> QED BY <2>1, <2>8, <1>2 DEF AInv
<1>5. CASE try_to_extract_main_root_from_stack
  <2>1. phase = "stopped" /\ phase' = "done" /\ failed' = failed
        /\ root' = IF action.type = "accept" THEN nodes[Len(nodes) - 1] ELSE root
    BY <1>5 DEF try_to_extract_main_root_from_stack
  <2>2. CASE failed
    <3>1. action.type # "accept" /\ root = NoTree
      BY <2>1, <2>2 DEF AInv, Outcome
    <3>2. Outcome'
      BY <2>1, <2>2, <3>1 DEF Outcome
    <3> QED BY <2>1, <3>2, <1>2 DEF AInv
  <2>3. CASE ~failed
    <3>1. action.type = "accept" /\ Lines /\ WholeTree(nodes[Len(nodes) - 1])
      BY <2>1, <2>3 DEF AInv, Outcome
    <3>2. PICK tree : tree = nodes[Len(nodes) - 1]
      OBVIOUS
    <3>3. WholeTree(tree) /\ root' = tree
      BY <2>1, <3>1, <3>2
    <3>4. Lines' /\ WholeTree(tree)'
      BY <3>1, <3>3, <1>1, <1>2, TreeStays
    <3>5. WholeTree(root)'
      BY <3>3, <3>4 DEF WholeTree
    <3>6. Outcome'
      BY <2>1, <2>3, <3>4, <3>5 DEF Outcome
    <3> QED BY <2>1, <3>6, <1>2 DEF AInv
  <2> QED BY <2>2, <2>3
<1> QED BY <1>3, <1>4, <1>5

LEMMA ParserKeeps ==
    ASSUME AInv, FInv', ParserNext
    PROVE  AInv'
<1>1. CASE init_parser_variables
  <2>1. UNCHANGED <<root, failed, tokens>> /\ phase = "start" /\ phase' = "loop"
    BY <1>1 DEF init_parser_variables
  <2>2. Derived' /\ Aligned' /\ Reading'
    BY <1>1, InitLoops DEF AInv
  <2> QED BY <2>1, <2>2, LoopKeeps
<1>2. CASE handle_shift \/ handle_reduce \/ handle_goto
  <2>1. UNCHANGED <<root, failed, tokens>> /\ phase = "loop" /\ phase' = "loop"
    BY <1>2 DEF handle_shift, handle_reduce, handle_goto
  <2>2. Loops
    BY <2>1 DEF AInv, Loops
  <2>3. Derived' /\ Aligned' /\ Reading'
    BY <1>2, <2>2, ShiftLoops, ReduceLoops, GotoLoops
  <2> QED BY <2>1, <2>3, LoopKeeps
<1>3. CASE handle_error \/ handle_accept \/ try_to_extract_main_root_from_stack
  BY <1>3, EndKeeps
<1> QED BY <1>1, <1>2, <1>3 DEF ParserNext

(* A step that changes nothing.                                             *)
LEMMA StutterKeeps ==
    ASSUME AInv, FInv', UNCHANGED vars
    PROVE  AInv'
<1>1. /\ UNCHANGED <<tokens, taken, stack, nodes, action, phase, root, failed>>
      /\ UNCHANGED <<symbols, derivation, made, rules, states, terminals>>
  BY DEF vars, parserVars, history, generatorVars, tables
<1>2. TokensOK'
  BY <1>1 DEF AInv, TokensOK
<1>3. phase # "start" => TablesConsistent
  BY GInvFits DEF AInv, FInv
<1>4. phase = "loop" => Derived' /\ Aligned' /\ Reading'
  <2> SUFFICES ASSUME phase = "loop" PROVE Derived' /\ Aligned' /\ Reading'
    OBVIOUS
  <2>1. Derived'
    BY <1>1, <1>3, DerivedStays DEF AInv
  <2>2. Aligned' /\ Reading'
    BY <1>1 DEF AInv, Aligned, Reading, ItemsOf
  <2> QED BY <2>1, <2>2
<1>5. Outcome'
  <2>1. ASSUME NEW tree, Lines, WholeTree(tree), phase # "start" PROVE Lines' /\ WholeTree(tree)'
    BY <2>1, <1>1, <1>3, TreeStays
  <2>2. CASE phase = "stopped" /\ ~failed
    <3>1. PICK tree : tree = nodes[Len(nodes) - 1]
      OBVIOUS
    <3>2. Lines' /\ WholeTree(tree)'
      BY <2>1, <2>2, <3>1 DEF AInv, Outcome
    <3>3. WholeTree(nodes[Len(nodes) - 1])'
      BY <3>1, <3>2, <1>1 DEF WholeTree
    <3> QED BY <2>2, <3>2, <3>3, <1>1 DEF AInv, Outcome
  <2>3. CASE phase = "done" /\ ~failed
    <3>1. PICK tree : tree = root
      OBVIOUS
    <3>2. Lines' /\ WholeTree(tree)'
      BY <2>1, <2>3, <3>1 DEF AInv, Outcome
    <3>3. WholeTree(root)'
      BY <3>1, <3>2, <1>1 DEF WholeTree
    <3> QED BY <2>3, <3>2, <3>3, <1>1 DEF AInv, Outcome
  <2>4. CASE failed \/ phase \notin {"stopped", "done"}
    BY <2>4, <1>1 DEF AInv, Outcome
  <2> QED BY <2>2, <2>3, <2>4
<1> QED BY <1>1, <1>2, <1>4, <1>5 DEF AInv

LEMMA AInvNext ==
    ASSUME AInv, [Next]_vars
    PROVE  AInv'
<1>1. FInv'
  BY FInvNext DEF AInv
<1>2. CASE MakeTables
  <2>1. TablesNext /\ UNCHANGED <<tokens, phase, root, failed>>
    BY <1>2 DEF MakeTables, parserVars
  <2>2. stage # "ready"
    BY <2>1 DEF TablesNext, add_starting_rule, init_starting_state,
          create_a_new_state_for_single_transition,
          create_transition_states_for_possible_transitions, symbols_init, collect_symbols,
          follow_init, compute_follow, next_round_of_follow, init_tables,
          insert_state_transitions_into_table, begin_reduces, build_reduces, tables_done
  <2>3. phase = "start" /\ tokens = <<>>
    BY <2>2 DEF AInv, FInv
  <2>4. TokensOK'
    BY <2>1, <2>3 DEF TokensOK
  <2> QED BY <2>1, <2>3, <2>4, <1>1, BeginningKeeps
<1>3. CASE tokenize
  <2>1. UNCHANGED <<phase, root, failed>> /\ tokens = <<>>
    BY <1>3 DEF tokenize
  <2>2. phase = "start"
    BY <2>1 DEF AInv, FInv
  <2>3. TokensOK'
    BY <1>3, TokenizedEnds DEF AInv
  <2> QED BY <2>1, <2>2, <2>3, <1>1, BeginningKeeps
<1>4. CASE commit_parser
  BY <1>1, <1>4, ParserKeeps DEF commit_parser
<1>5. CASE UNCHANGED vars
  BY <1>1, <1>5, StutterKeeps
<1> QED BY <1>2, <1>3, <1>4, <1>5 DEF Next

(* A program that is accepted has a tree that is derived from all of it, in *)
(* its order, and one that is not has none; and the tokens do not run out,  *)
(* although the loop never asks how many are left (Parser.c:210): for every *)
(* grammar and every program.                                               *)
THEOREM AcceptsWhatIsDerived == Spec => []AcceptedIsDerived
<1>1. AInv => AcceptedIsDerived
  BY DEF AInv, Reading, Outcome, Lines, WholeTree, AcceptedIsDerived
<1> QED BY <1>1, AInvInit, AInvNext, PTL DEF Spec

-----------------------------------------------------------------------------
(***************************************************************************)
(* FOLLOW.                                                                 *)
(***************************************************************************)

(* The steps from the left of each rule to something of it.                 *)
LEMMA ReachedBy ==
    ASSUME Ruled, NEW f, NEW R, NEW X,
           \A p : p \in R <=> \E r \in 1..Len(rules) : p = <<rules[r].left, f[r]>>
    PROVE  /\ X \in Reach(R, X)
           /\ \A r \in 1..Len(rules) : rules[r].left \in Reach(R, X) => f[r] \in Reach(R, X)
           /\ \A T : /\ X \in T
                     /\ \A r \in 1..Len(rules) : rules[r].left \in T => f[r] \in T
                     => Reach(R, X) \subseteq T
<1> DEFINE n == Len(rules)
           step(r) == <<rules[r].left, f[r]>>
           g == [r \in 1..n |-> step(r)]
<1>1. n \in Nat
  BY RuledRule
<1>2. g \in Surjection(1..n, R)
  BY DEF Surjection
<1> HIDE DEF g
<1>3. ExistsSurjection(1..n, R)
  BY <1>2 DEF ExistsSurjection
<1>4. IsFiniteSet(R)
  BY <1>1, <1>3, FS_NatSurjection
<1>5. /\ \A r \in 1..n : step(r) \in R /\ step(r)[1] = rules[r].left /\ step(r)[2] = f[r]
      /\ \A p \in R : \E r \in 1..n : p = step(r)
  OBVIOUS
<1> HIDE DEF step
<1>6. ASSUME NEW T
      PROVE  ClosedUnder(R, T) <=> \A r \in 1..n : rules[r].left \in T => f[r] \in T
  <2>1. ASSUME ClosedUnder(R, T), NEW r \in 1..n, rules[r].left \in T PROVE f[r] \in T
    BY <2>1, <1>5 DEF ClosedUnder
  <2>2. ASSUME \A r \in 1..n : rules[r].left \in T => f[r] \in T, NEW p \in R, p[1] \in T
        PROVE  p[2] \in T
    <3>1. PICK r \in 1..n : p = step(r)
      BY <1>5
    <3> QED BY <3>1, <2>2, <1>5
  <2> QED BY <2>1, <2>2 DEF ClosedUnder
<1>7. /\ X \in Reach(R, X) /\ ClosedUnder(R, Reach(R, X))
      /\ \A T : X \in T /\ ClosedUnder(R, T) => Reach(R, X) \subseteq T
  BY <1>4, Reaches
<1> QED BY <1>6, <1>7

(* What the symbols of the rules end with.                                  *)
LastReach(X) == Reach({<<r.left, Last(r.right)>> : r \in ToSet(rules)}, X)

LastOf(r) == rules[r].right[Len(rules[r].right)]

LEMMA LastReached ==
    ASSUME Ruled, NEW X
    PROVE  /\ X \in LastReach(X)
           /\ \A r \in 1..Len(rules) : rules[r].left \in LastReach(X) => LastOf(r) \in LastReach(X)
           /\ \A T : /\ X \in T
                     /\ \A r \in 1..Len(rules) : rules[r].left \in T => LastOf(r) \in T
                     => LastReach(X) \subseteq T
<1> DEFINE f == [r \in 1..Len(rules) |-> LastOf(r)]
           R == {<<r.left, Last(r.right)>> : r \in ToSet(rules)}
<1>1. \A p : p \in R <=> \E r \in 1..Len(rules) : p = <<rules[r].left, f[r]>>
  <2>1. ToSet(rules) = {rules[r] : r \in 1..Len(rules)}
    BY ElementsOf DEF Ruled
  <2>2. R = {<<rules[r].left, LastOf(r)>> : r \in 1..Len(rules)}
    BY <2>1 DEF Last, LastOf
  <2> QED BY <2>2
<1>2. \A r \in 1..Len(rules) : f[r] = LastOf(r)
  OBVIOUS
<1> HIDE DEF R, f
<1>3. /\ X \in Reach(R, X)
      /\ \A r \in 1..Len(rules) : rules[r].left \in Reach(R, X) => f[r] \in Reach(R, X)
      /\ \A T : /\ X \in T
                /\ \A r \in 1..Len(rules) : rules[r].left \in T => f[r] \in T
                => Reach(R, X) \subseteq T
  BY <1>1, ReachedBy
<1> QED BY <1>2, <1>3 DEF LastReach, R

(* The terminals that something derived from s begins with.                 *)
FirstTerminals(s) == FirstReach(s) \ Nonterminal

(* A symbol without rules begins with itself, and one with rules with what   *)
(* those begin with.                                                        *)
LEMMA FirstReachOf ==
    ASSUME Ruled, NEW A
    PROVE  /\ FirstReach(A) = {A} \cup UNION {FirstReach(rules[r].right[1]) : r \in RulesOf(A)}
           /\ IsFiniteSet(FirstReach(A))
<1> DEFINE n == Len(rules)
           first(r) == rules[r].right[1]
           below == UNION {FirstReach(first(r)) : r \in RulesOf(A)}
           T == {A} \cup below
<1> USE DEF RulesOf
<1>1. FirstReach(A) \subseteq T
  <2>1. \A r \in 1..n : rules[r].left \in T => first(r) \in T
    <3> SUFFICES ASSUME NEW r \in 1..n, rules[r].left \in T PROVE first(r) \in T
      OBVIOUS
    <3>1. CASE rules[r].left = A
      <4>1. first(r) \in FirstReach(first(r)) /\ r \in RulesOf(A)
        BY <3>1, FirstReached
      <4> QED BY <4>1
    <3>2. CASE rules[r].left # A
      <4>1. PICK q \in RulesOf(A) : rules[r].left \in FirstReach(first(q))
        BY <3>2
      <4>2. first(r) \in FirstReach(first(q))
        BY <4>1, FirstReached
      <4> QED BY <4>1, <4>2
    <3> QED BY <3>1, <3>2
  <2>2. A \in T
    OBVIOUS
  <2> HIDE DEF T
  <2> QED BY <2>1, <2>2, FirstReached
<1>2. ASSUME NEW r \in RulesOf(A) PROVE FirstReach(first(r)) \subseteq FirstReach(A)
  <2> DEFINE U == FirstReach(A)
  <2>1. first(r) \in U /\ \A q \in 1..n : rules[q].left \in U => first(q) \in U
    BY <1>2, FirstReached
  <2> HIDE DEF U
  <2>2. FirstReach(first(r)) \subseteq U
    BY <2>1, FirstReached
  <2> QED BY <2>2 DEF U
<1>3. A \in FirstReach(A)
  BY FirstReached
<1>4. IsFiniteSet(FirstReach(A))
  <2> DEFINE f == [r \in 1..n |-> first(r)]
             U == {first(r) : r \in 1..n}
  <2>1. f \in Surjection(1..n, U)
    BY DEF Surjection
  <2>2. ExistsSurjection(1..n, U)
    BY <2>1 DEF ExistsSurjection
  <2>3. n \in Nat
    BY RuledRule
  <2>4. IsFiniteSet(U)
    <3> HIDE DEF U, n
    <3> QED BY <2>2, <2>3, FS_NatSurjection
  <2>5. IsFiniteSet(U \cup {A})
    <3> HIDE DEF U
    <3> QED BY <2>4, FS_AddElement
  <2>6. FirstReach(A) \subseteq U \cup {A}
    <3> DEFINE V == U \cup {A}
    <3>1. A \in V /\ \A q \in 1..n : rules[q].left \in V => first(q) \in V
      OBVIOUS
    <3> HIDE DEF V
    <3>2. FirstReach(A) \subseteq V
      BY <3>1, FirstReached
    <3> QED BY <3>2 DEF V
  <2> HIDE DEF U
  <2> QED BY <2>5, <2>6, FS_Subset
<1> QED BY <1>1, <1>2, <1>3, <1>4

LEMMA FirstTerminalsOf ==
    ASSUME Ruled, NEW A
    PROVE  /\ A \notin Nonterminal => FirstTerminals(A) = {A}
           /\ A \in Nonterminal =>
                  FirstTerminals(A) = UNION {FirstTerminals(rules[r].right[1]) : r \in RulesOf(A)}
<1>1. FirstReach(A) = {A} \cup UNION {FirstReach(rules[r].right[1]) : r \in RulesOf(A)}
  BY FirstReachOf
<1>2. A \notin Nonterminal => RulesOf(A) = {}
  BY DEF Ruled, RulesOf
<1> QED BY <1>1, <1>2 DEF FirstTerminals

(* The recursion is right where it ends: below s there is no nonterminal    *)
(* that begins with itself.                                                 *)
LEMMA FirstSymbols ==
    ASSUME Ruled, NEW s,
           \A r \in 1..Len(rules) :
               rules[r].left \in FirstReach(s) => rules[r].left \notin FirstReach(rules[r].right[1])
    PROVE  first_symbols(s) = FirstTerminals(s)
<1> DEFINE E(f, A) == UNION {LET first == rules[r].right[1]
                             IN  IF isNonterminal(first) THEN f[first] ELSE {first}
                             : r \in RulesOf(A)}
           firsts == CHOOSE f : f = [A \in Nonterminal |-> E(f, A)]
<1>1. \E f : f = [A \in Nonterminal |-> E(f, A)]
  <2> DEFINE g == [A \in Nonterminal |-> FirstTerminals(A)]
  <2>1. ASSUME NEW A \in Nonterminal PROVE g[A] = E(g, A)
    <3> DEFINE part(r) == LET first == rules[r].right[1]
                          IN  IF isNonterminal(first) THEN g[first] ELSE {first}
    <3>1. \A r \in RulesOf(A) : part(r) = FirstTerminals(rules[r].right[1])
      BY FirstTerminalsOf DEF isNonterminal
    <3>2. g[A] = UNION {FirstTerminals(rules[r].right[1]) : r \in RulesOf(A)}
      BY FirstTerminalsOf
    <3> HIDE DEF part, g
    <3>3. g[A] = UNION {part(r) : r \in RulesOf(A)}
      BY <3>1, <3>2
    <3> QED BY <3>3 DEF part
  <2> HIDE DEF E
  <2>2. g = [A \in Nonterminal |-> E(g, A)]
    BY <2>1
  <2> QED BY <2>2
<1>2. firsts = [A \in Nonterminal |-> E(firsts, A)]
  <2> HIDE DEF E
  <2> QED BY <1>1, Zenon
<1>3. first_symbols(s) = IF isNonterminal(s) THEN firsts[s] ELSE {s}
  BY Zenon DEF first_symbols
<1>4. \A A \in Nonterminal : firsts[A] = E(firsts, A)
  <2> HIDE DEF firsts, E
  <2> QED BY <1>2
<1> HIDE DEF firsts
<1> DEFINE Bad == {A \in FirstReach(s) \cap Nonterminal : firsts[A] # FirstTerminals(A)}
           size(A) == Cardinality(FirstReach(A))
<1>5. Bad = {}
  <2> SUFFICES ASSUME Bad # {} PROVE FALSE
    OBVIOUS
  <2>1. \A A : size(A) \in Nat
    BY FirstReachOf, FS_CardinalityType
  <2>2. PICK A \in Bad : \A B \in Bad : size(A) <= size(B)
    <3> DEFINE J == {size(A) : A \in Bad}
    <3>1. J \subseteq Nat /\ J # {}
      BY <2>1
    <3> HIDE DEF J
    <3>2. PICK j \in J : \A i \in J : j <= i
      BY <3>1, Smallest
    <3> QED BY <3>2 DEF J
  <2>3. PICK r \in RulesOf(A) : LET first == rules[r].right[1]
                                IN  first \in Nonterminal /\ firsts[first] # FirstTerminals(first)
    <3> SUFFICES ASSUME \A r \in RulesOf(A) : LET first == rules[r].right[1]
                            IN  first \in Nonterminal => firsts[first] = FirstTerminals(first)
                 PROVE  FALSE
      OBVIOUS
    <3> DEFINE part(r) == LET first == rules[r].right[1]
                          IN  IF isNonterminal(first) THEN firsts[first] ELSE {first}
    <3>1. \A r \in RulesOf(A) : part(r) = FirstTerminals(rules[r].right[1])
      BY FirstTerminalsOf DEF isNonterminal
    <3>2. FirstTerminals(A) = UNION {FirstTerminals(rules[r].right[1]) : r \in RulesOf(A)}
      BY FirstTerminalsOf
    <3>3. firsts[A] = UNION {part(r) : r \in RulesOf(A)}
      BY <1>4
    <3> HIDE DEF part
    <3>4. firsts[A] = FirstTerminals(A)
      BY <3>1, <3>2, <3>3
    <3> QED BY <3>4
  <2> DEFINE first == rules[r].right[1]
  <2>4. r \in 1..Len(rules) /\ rules[r].left = A /\ A \in FirstReach(s)
    BY DEF RulesOf
  <2>5. first \in FirstReach(s) /\ A \notin FirstReach(first)
    BY <2>4, FirstReached
  <2>6. FirstReach(first) \subseteq FirstReach(A) /\ A \in FirstReach(A)
    BY FirstReachOf
  <2>7. size(first) < size(A)
    <3> DEFINE S == FirstReach(A)
               T == FirstReach(first)
    <3>1. IsFiniteSet(S) /\ IsFiniteSet(T)
      BY FirstReachOf
    <3>2. T \subseteq S /\ T # S
      BY <2>5, <2>6
    <3> HIDE DEF S, T
    <3>3. Cardinality(T) <= Cardinality(S) /\ Cardinality(T) # Cardinality(S)
      BY <3>1, <3>2, FS_Subset
    <3>4. Cardinality(T) \in Nat /\ Cardinality(S) \in Nat
      BY <3>1, FS_CardinalityType
    <3> QED BY <3>3, <3>4 DEF S, T
  <2>8. first \in Bad
    BY <2>3, <2>5
  <2> HIDE DEF Bad, size
  <2> QED BY <2>1, <2>2, <2>7, <2>8
<1>6. s \in FirstReach(s)
  BY FirstReached
<1> QED BY <1>3, <1>5, <1>6, FirstTerminalsOf DEF isNonterminal

-----------------------------------------------------------------------------
(* What FOLLOW is *)

Joined(B, s) ==
    \/ B = "START'" /\ s = "$"
    \/ \E r \in 1..Len(rules) : \E i \in 1..Len(rules[r].right) - 1 :
           B = rules[r].right[i] /\ s = rules[r].right[i + 1]

(* The terminal t can stand behind A: A ends what stands before it.         *)
Behind(A, t) ==
    /\ t \notin Nonterminal
    /\ \E B, s \in Symbols : Joined(B, s) /\ A \in LastReach(B) /\ t \in FirstReach(s)

LEMMA NeighboursAre ==
    ASSUME Ruled, NEW B, NEW s
    PROVE  <<B, s>> \in Neighbours \cup {<<"START'", "$">>} <=> Joined(B, s)
<1>1. ToSet(rules) = {rules[r] : r \in 1..Len(rules)}
  BY ElementsOf DEF Ruled
<1>2. <<B, s>> \in Neighbours <=>
          \E r \in 1..Len(rules) : \E i \in 1..Len(rules[r].right) - 1 :
              <<B, s>> = <<rules[r].right[i], rules[r].right[i + 1]>>
  <2> DEFINE pairs(q) == {<<q.right[i], q.right[i + 1]>> : i \in 1..Len(q.right) - 1}
  <2>1. Neighbours = UNION {pairs(q) : q \in ToSet(rules)}
    BY DEF Neighbours
  <2>2. \A q : <<B, s>> \in pairs(q) <=>
            \E i \in 1..Len(q.right) - 1 : <<B, s>> = <<q.right[i], q.right[i + 1]>>
    OBVIOUS
  <2> HIDE DEF pairs
  <2>3. <<B, s>> \in Neighbours <=> \E r \in 1..Len(rules) : <<B, s>> \in pairs(rules[r])
    BY <2>1, <1>1
  <2> QED BY <2>2, <2>3
<1> QED BY <1>2 DEF Joined

LEMMA ClosureIs ==
    ASSUME NEW R, NEW X, NEW Y
    PROVE  <<X, Y>> \in Closure(R) <=> X \in Symbols /\ Y \in Reach(R, X)
BY DEF Closure

LEMMA LastsAre ==
    ASSUME NEW X, NEW Y
    PROVE  <<X, Y>> \in Lasts <=> X \in Symbols /\ Y \in LastReach(X)
<1> DEFINE R == {<<r.left, Last(r.right)>> : r \in ToSet(rules)}
<1>1. Lasts = Closure(R) /\ LastReach(X) = Reach(R, X)
  BY DEF Lasts, LastReach
<1> HIDE DEF R
<1> QED BY <1>1, ClosureIs

LEMMA FollowOfIs ==
    ASSUME Ruled, Started
    PROVE  /\ FollowOf = [A \in DOMAIN follow |-> FollowOf[A]]
           /\ \A A \in DOMAIN follow : \A t : t \in FollowOf[A] <=> Behind(A, t)
<1> DEFINE joined == Neighbours \cup {<<"START'", "$">>}
           behind(A) == {n[2] : n \in {m \in joined : <<m[1], A>> \in Lasts}}
<1>1. FollowOf = [A \in DOMAIN follow |->
                     {f[2] : f \in {g \in Firsts : g[1] \in behind(A)}} \ Nonterminal]
  BY Zenon DEF FollowOf
<1>2. \A n \in joined : \E B, s : n = <<B, s>>
  BY DEF Neighbours
<1>3. \A B, A : <<B, A>> \in Lasts <=> B \in Symbols /\ A \in LastReach(B)
  BY LastsAre
<1>4. \A B, s : <<B, s>> \in joined <=> Joined(B, s)
  BY NeighboursAre
<1>5. \A n \in Firsts : \E X, Y : n = <<X, Y>>
  BY DEF Firsts, Closure
<1> HIDE DEF joined
<1>6. ASSUME NEW A, NEW s PROVE s \in behind(A) <=> \E B \in Symbols : Joined(B, s) /\ A \in LastReach(B)
  <2>1. ASSUME s \in behind(A) PROVE \E B \in Symbols : Joined(B, s) /\ A \in LastReach(B)
    <3>1. PICK n \in joined : n[2] = s /\ <<n[1], A>> \in Lasts
      BY <2>1
    <3>2. PICK B, z : n = <<B, z>>
      BY <1>2, <3>1
    <3>3. n[1] = B /\ z = s
      BY <3>1, <3>2
    <3> QED BY <3>1, <3>2, <3>3, <1>3, <1>4
  <2>2. ASSUME NEW B \in Symbols, Joined(B, s), A \in LastReach(B) PROVE s \in behind(A)
    <3>1. PICK n : n = <<B, s>>
      OBVIOUS
    <3>2. n \in joined /\ <<n[1], A>> \in Lasts /\ n[2] = s
      BY <3>1, <2>2, <1>3, <1>4
    <3> QED BY <3>2
  <2> QED BY <2>1, <2>2
<1> HIDE DEF behind
<1>7. \A s : (\E B \in Symbols : Joined(B, s)) => s \in Symbols
  <2> SUFFICES ASSUME NEW s, NEW B, Joined(B, s) PROVE s \in Symbols
    OBVIOUS
  <2>1. CASE s = "$"
    <3>1. Len(rules) \in 1..Len(rules) /\ rules[Len(rules)].right[2] = "$"
          /\ Len(rules[Len(rules)].right) = 2 /\ 2 \in 1..2
      BY StartRuleIs DEF Started
    <3> QED BY <3>1, <2>1, SymbolsAre
  <2>2. CASE s # "$"
    <3>1. PICK r \in 1..Len(rules) : \E i \in 1..Len(rules[r].right) - 1 : s = rules[r].right[i + 1]
      BY <2>2 DEF Joined
    <3>2. PICK i \in 1..Len(rules[r].right) - 1 : s = rules[r].right[i + 1]
      BY <3>1
    <3>3. i + 1 \in 1..Len(rules[r].right)
      BY RuledRule
    <3> QED BY <3>2, <3>3, SymbolsAre
  <2> QED BY <2>1, <2>2
<1>8. ASSUME NEW A \in DOMAIN follow, NEW t PROVE t \in FollowOf[A] <=> Behind(A, t)
  <2>1. t \in FollowOf[A] <=> t \notin Nonterminal /\ \E g \in Firsts : g[1] \in behind(A) /\ g[2] = t
    BY <1>1
  <2>2. (\E g \in Firsts : g[1] \in behind(A) /\ g[2] = t)
            <=> \E s \in behind(A) : s \in Symbols /\ t \in FirstReach(s)
    <3>1. ASSUME NEW g \in Firsts, g[1] \in behind(A), g[2] = t
          PROVE  \E s \in behind(A) : s \in Symbols /\ t \in FirstReach(s)
      <4>1. PICK X, Y : g = <<X, Y>>
        BY <1>5
      <4>2. X \in behind(A) /\ Y = t
        BY <4>1, <3>1
      <4> QED BY <4>1, <4>2, FirstsAre
    <3>2. ASSUME NEW s \in behind(A), s \in Symbols, t \in FirstReach(s)
          PROVE  \E g \in Firsts : g[1] \in behind(A) /\ g[2] = t
      <4>1. PICK g : g = <<s, t>>
        OBVIOUS
      <4>2. g \in Firsts /\ g[1] = s /\ g[2] = t
        BY <4>1, <3>2, FirstsAre
      <4> QED BY <4>2
    <3> QED BY <3>1, <3>2
  <2>3. (\E s \in behind(A) : s \in Symbols /\ t \in FirstReach(s))
            <=> \E B, s \in Symbols : Joined(B, s) /\ A \in LastReach(B) /\ t \in FirstReach(s)
    BY <1>6
  <2> QED BY <2>1, <2>2, <2>3 DEF Behind
<1>9. FollowOf = [A \in DOMAIN follow |-> FollowOf[A]]
  BY <1>1
<1> QED BY <1>8, <1>9

(* What rule r has to give and to hand on.                                  *)
Given(f, r) ==
    LET right == rules[r].right
    IN  \A i \in 1..Len(right) - 1 :
            right[i] \in Nonterminal => FirstTerminals(right[i + 1]) \subseteq f[right[i]]

Handed(f, r) ==
    LastOf(r) \in Nonterminal => f[rules[r].left] \subseteq f[LastOf(r)]

LEMMA BehindGrows ==
    ASSUME Ruled, Started
    PROVE  /\ Behind("START'", "$")
           /\ \A r \in 1..Len(rules) : \A i \in 1..Len(rules[r].right) - 1 :
                  \A t \in FirstTerminals(rules[r].right[i + 1]) : Behind(rules[r].right[i], t)
           /\ \A r \in 1..Len(rules) : \A t : Behind(rules[r].left, t) => Behind(LastOf(r), t)
<1>1. Behind("START'", "$")
  <2>1. Len(rules) \in 1..Len(rules) /\ rules[Len(rules)].right[2] = "$"
        /\ Len(rules[Len(rules)].right) = 2 /\ 2 \in 1..2
    BY StartRuleIs DEF Started
  <2>2. "$" \in Symbols /\ "START'" \in Symbols
    <3>1. PICK n : n = Len(rules)
      OBVIOUS
    <3>2. n \in 1..Len(rules) /\ 2 \in 1..Len(rules[n].right) /\ rules[n].right[2] = "$"
      BY <2>1, <3>1
    <3>3. \A r \in 1..Len(rules) : \A i \in 1..Len(rules[r].right) : rules[r].right[i] \in Symbols
      BY SymbolsAre
    <3>4. PICK x : x = rules[n].right[2]
      OBVIOUS
    <3>5. x \in Symbols
      BY <3>2, <3>3, <3>4
    <3>6. x = "$"
      BY <3>2, <3>4
    <3>7. "$" \in Symbols
      BY <3>5, <3>6, Zenon
    <3>8. "START'" \in Symbols
      BY DEF Symbols
    <3> QED BY <3>7, <3>8
  <2>3. "START'" \in LastReach("START'") /\ "$" \in FirstReach("$") /\ Joined("START'", "$")
    BY LastReached, FirstReached DEF Joined
  <2> QED BY <2>2, <2>3, StartRuleIs DEF Behind
<1>2. ASSUME NEW r \in 1..Len(rules), NEW i \in 1..Len(rules[r].right) - 1,
             NEW t \in FirstTerminals(rules[r].right[i + 1])
      PROVE  Behind(rules[r].right[i], t)
  <2> DEFINE B == rules[r].right[i]
             s == rules[r].right[i + 1]
  <2>1. i \in 1..Len(rules[r].right) /\ i + 1 \in 1..Len(rules[r].right)
    BY RuledRule
  <2>2. B \in Symbols /\ s \in Symbols
    BY <2>1, SymbolsAre
  <2>3. B \in LastReach(B) /\ t \in FirstReach(s) /\ t \notin Nonterminal
    BY LastReached DEF FirstTerminals
  <2>4. Joined(B, s)
    BY DEF Joined
  <2> QED BY <2>2, <2>3, <2>4 DEF Behind
<1>3. ASSUME NEW r \in 1..Len(rules), NEW t, Behind(rules[r].left, t) PROVE Behind(LastOf(r), t)
  <2>1. PICK B \in Symbols, s \in Symbols :
            Joined(B, s) /\ rules[r].left \in LastReach(B) /\ t \in FirstReach(s)
    BY <1>3 DEF Behind
  <2>2. LastOf(r) \in LastReach(B)
    BY <2>1, LastReached
  <2> QED BY <2>1, <2>2, <1>3 DEF Behind
<1> QED BY <1>1, <1>2, <1>3

(* There is nothing behind A but what is given and handed on.               *)
LEMMA BehindLeast ==
    ASSUME Ruled, NEW f, "$" \in f["START'"],
           \A r \in 1..Len(rules) : Given(f, r) /\ Handed(f, r),
           NEW A \in Nonterminal, NEW t, Behind(A, t)
    PROVE  t \in f[A]
<1>1. PICK B \in Symbols, s \in Symbols :
          Joined(B, s) /\ A \in LastReach(B) /\ t \in FirstReach(s)
  BY DEF Behind
<1>2. t \notin Nonterminal /\ t \in FirstTerminals(s)
  BY <1>1 DEF Behind, FirstTerminals
<1> DEFINE T == {X \in LastReach(B) : X \in Nonterminal => t \in f[X]}
<1>3. B \in T
  <2> SUFFICES ASSUME B \in Nonterminal PROVE t \in f[B]
    BY LastReached
  <2>1. CASE B = "START'" /\ s = "$"
    <3>1. FirstTerminals("$") = {"$"}
      BY FirstTerminalsOf, StartRuleIs
    <3> QED BY <2>1, <3>1, <1>2
  <2>2. CASE ~(B = "START'" /\ s = "$")
    <3>1. PICK r \in 1..Len(rules) : \E i \in 1..Len(rules[r].right) - 1 :
              B = rules[r].right[i] /\ s = rules[r].right[i + 1]
      BY <2>2, <1>1 DEF Joined
    <3>2. PICK i \in 1..Len(rules[r].right) - 1 : B = rules[r].right[i] /\ s = rules[r].right[i + 1]
      BY <3>1
    <3>3. Given(f, r)
      OBVIOUS
    <3>4. FirstTerminals(rules[r].right[i + 1]) \subseteq f[rules[r].right[i]]
      BY <3>2, <3>3 DEF Given
    <3> QED BY <3>2, <3>4, <1>2
  <2> QED BY <2>1, <2>2
<1>4. \A r \in 1..Len(rules) : rules[r].left \in T => LastOf(r) \in T
  <2> SUFFICES ASSUME NEW r \in 1..Len(rules), rules[r].left \in T PROVE LastOf(r) \in T
    OBVIOUS
  <2>1. LastOf(r) \in LastReach(B)
    BY LastReached
  <2>2. rules[r].left \in Nonterminal
    BY RuledRule
  <2>3. LastOf(r) \in Nonterminal => f[rules[r].left] \subseteq f[LastOf(r)]
    BY DEF Handed
  <2> QED BY <2>1, <2>2, <2>3
<1> HIDE DEF T
<1>5. LastReach(B) \subseteq T
  BY <1>3, <1>4, LastReached
<1> QED BY <1>1, <1>5 DEF T

-----------------------------------------------------------------------------
(* One pass of compute_follow *)

LEMMA ListedNonterminals ==
    ASSUME Ruled
    PROVE  /\ nonterminal_list \subseteq Nonterminal
           /\ \A r \in 1..Len(rules) :
                  /\ rules[r].left \in nonterminal_list
                  /\ \A i \in 1..Len(rules[r].right) :
                         rules[r].right[i] \in Nonterminal => rules[r].right[i] \in nonterminal_list
<1> DEFINE listed(r) == {rules[r].left} \cup {s \in ToSet(rules[r].right) : isNonterminal(s)}
<1>1. nonterminal_list = UNION {listed(r) : r \in 1..Len(rules)}
  BY DEF nonterminal_list
<1>2. ASSUME NEW r \in 1..Len(rules)
      PROVE  /\ listed(r) \subseteq Nonterminal /\ rules[r].left \in listed(r)
             /\ \A i \in 1..Len(rules[r].right) :
                    rules[r].right[i] \in Nonterminal => rules[r].right[i] \in listed(r)
  <2>1. rules[r].left \in Nonterminal /\ rules[r].right \in Seq(Name)
    BY RuledRule
  <2>2. \A i \in 1..Len(rules[r].right) : rules[r].right[i] \in ToSet(rules[r].right)
    <3> DEFINE content == rules[r].right
    <3> HIDE DEF content
    <3>1. content \in Seq(Name) => \A i \in 1..Len(content) : content[i] \in ToSet(content)
      BY ElementsOf
    <3> QED BY <2>1, <3>1 DEF content
  <2> QED BY <2>1, <2>2 DEF isNonterminal
<1> HIDE DEF listed
<1>3. \A r \in 1..Len(rules) : listed(r) \subseteq nonterminal_list
  BY <1>1
<1>4. nonterminal_list \subseteq Nonterminal
  BY <1>1, <1>2
<1>5. ASSUME NEW r \in 1..Len(rules)
      PROVE  /\ rules[r].left \in nonterminal_list
             /\ \A i \in 1..Len(rules[r].right) :
                    rules[r].right[i] \in Nonterminal => rules[r].right[i] \in nonterminal_list
  BY <1>2, <1>3
<1> QED BY <1>4, <1>5

(* Behind a nonterminal the recursion ends, and is right.                   *)
LEMMA GivenFirsts ==
    ASSUME RulesOK, stage # "rules", NEW r \in 1..Len(rules), NEW i \in 1..Len(rules[r].right) - 1,
           rules[r].right[i] \in Nonterminal
    PROVE  first_symbols(rules[r].right[i + 1]) = FirstTerminals(rules[r].right[i + 1])
<1> DEFINE s == rules[r].right[i + 1]
<1>1. PICK g \in Grammars : rules = Append(g, StartRule)
  BY DEF RulesOK
<1>2. Ruled /\ Started
  BY RulesGiven
<1>3. g \in Seq(RuleOf(Name)) /\ Len(g) \in Nat
  BY GrammarRules
<1>4. Len(rules) = Len(g) + 1 /\ rules[Len(g) + 1] = StartRule /\ \A q \in 1..Len(g) : rules[q] = g[q]
  BY <1>1, <1>3, StartRuleIs, AppendSequence
<1>5. ASSUME NEW q \in 1..Len(rules), rules[q].left \in FirstReach(s)
      PROVE  rules[q].left \notin FirstReach(rules[q].right[1])
  <2>1. CASE r \in 1..Len(g)
    <3> DEFINE steps == FirstSteps(rules)
               p == <<rules[q].left, rules[q].right[1]>>
    <3>1. p \in steps
      <4>1. rules[q] \in ToSet(rules)
        BY <1>2, ElementsOf DEF Ruled
      <4> QED BY <4>1 DEF FirstSteps
    <3>2. rules[r] = g[r] /\ Len(g[r].right) \in Nat
      BY <1>2, <1>4, <2>1, RuledRule
    <3>3. PICK k : k = i + 1
      OBVIOUS
    <3>4. k \in 2..Len(g[r].right) /\ k - 1 = i /\ g[r].right[k - 1] \in Nonterminal /\ g[r].right[k] = s
      BY <3>2, <3>3
    <3>5. steps = FirstSteps(Append(g, StartRule))
      BY <1>1
    <3> HIDE DEF steps
    <3>6. \A A \in Reach(steps, g[r].right[k]) :
              \A z \in steps : z[1] = A => A \notin Reach(steps, z[2])
      BY <2>1, <3>4, <3>5, FollowersAssumption
    <3>7. rules[q].left \in Reach(steps, g[r].right[k])
      BY <3>4, <1>5 DEF FirstReach, steps
    <3>8. p[1] = rules[q].left /\ p[2] = rules[q].right[1]
      OBVIOUS
    <3> HIDE DEF p
    <3>9. rules[q].left \notin Reach(steps, rules[q].right[1])
      BY <3>1, <3>6, <3>7, <3>8
    <3> QED BY <3>9 DEF FirstReach, steps
  <2>2. CASE r \notin 1..Len(g)
    <3>1. r = Len(g) + 1
      BY <2>2, <1>3, <1>4
    <3>2. i = 1 /\ s = "$"
      BY <3>1, <1>4, StartRuleIs
    <3>3. FirstReach(s) \subseteq {s}
      <4> DEFINE T == {s}
      <4>1. s \in T /\ \A z \in 1..Len(rules) : rules[z].left \in T => rules[z].right[1] \in T
        BY <1>2, <3>2, RuledRule, StartRuleIs
      <4> HIDE DEF T
      <4>2. FirstReach(s) \subseteq T
        BY <4>1, <1>2, FirstReached
      <4> QED BY <4>2 DEF T
    <3>4. rules[q].left \in Nonterminal /\ s \notin Nonterminal
      BY <1>2, <3>2, RuledRule, StartRuleIs
    <3> QED BY <3>3, <3>4, <1>5
  <2> QED BY <2>1, <2>2
<1> HIDE DEF s
<1>6. first_symbols(s) = FirstTerminals(s)
  BY <1>2, <1>5, FirstSymbols
<1> QED BY <1>6 DEF s

LEMMA FirstTerminalsNamed ==
    ASSUME Ruled, NEW s \in Name
    PROVE  FirstTerminals(s) \subseteq Name
<1>1. \A r \in 1..Len(rules) : rules[r].right[1] \in Name
  BY RuledRule
<1>2. FirstReach(s) \subseteq Name
  BY <1>1, FirstReached
<1> QED BY <1>2 DEF FirstTerminals

(* What the passes hand to each other.                                      *)
Following == [follow : [nonterminal_list -> SUBSET Name], changed : BOOLEAN]

(* h is g with W added behind B.                                            *)
Added(g, h, B, W) ==
    /\ h \in Following /\ h.follow[B] = g.follow[B] \cup W
    /\ \A A \in nonterminal_list \ {B} : h.follow[A] = g.follow[A]
    /\ g.changed => h.changed

LEMMA SymbolGiven ==
    ASSUME Ruled, NEW g \in Following, NEW B \in nonterminal_list, NEW s \in Name,
           first_symbols(s) = FirstTerminals(s), NEW h, h = add_symbol_as_follow(g, B, s)
    PROVE  /\ Added(g, h, B, FirstTerminals(s))
           /\ s \notin Nonterminal /\ s \notin g.follow[B] => h.changed
<1> DEFINE W == FirstTerminals(s)
           after == [g.follow EXCEPT ![B] = @ \cup W]
           c == g.changed \/ (s \notin Nonterminal /\ s \notin g.follow[B])
<1>1. W \subseteq Name
  BY FirstTerminalsNamed
<1>2. h = [follow |-> after, changed |-> c]
  <2>1. h = [follow |-> [g.follow EXCEPT ![B] = @ \cup first_symbols(s)],
             changed |-> g.changed \/ (~isNonterminal(s) /\ s \notin g.follow[B])]
    BY DEF add_symbol_as_follow
  <2>2. isNonterminal(s) <=> s \in Nonterminal
    BY DEF isNonterminal
  <2>3. [g.follow EXCEPT ![B] = @ \cup first_symbols(s)] = after
    BY Zenon
  <2>4. (g.changed \/ (~isNonterminal(s) /\ s \notin g.follow[B])) = c
    BY <2>2
  <2> HIDE DEF after, c
  <2> QED BY <2>1, <2>3, <2>4
<1>3. g.follow \in [nonterminal_list -> SUBSET Name] /\ g.changed \in BOOLEAN
  BY DEF Following
<1> HIDE DEF W
<1>4. /\ after \in [nonterminal_list -> SUBSET Name]
      /\ \A A \in nonterminal_list :
             after[A] = IF A = B THEN g.follow[A] \cup W ELSE g.follow[A]
  BY <1>1, <1>3
<1>5. c \in BOOLEAN
  BY <1>3
<1> HIDE DEF after
<1>6. h \in Following
  BY <1>2, <1>4, <1>5 DEF Following
<1>7. h.follow = after /\ h.changed = c
  BY <1>2
<1> QED BY <1>4, <1>6, <1>7 DEF W, Added

LEMMA LastGiven ==
    ASSUME Ruled, NEW g \in Following, NEW left \in nonterminal_list, NEW last \in nonterminal_list,
           NEW h, h = add_last_symbol_nonterminals_follow(g, left, last)
    PROVE  /\ Added(g, h, last, g.follow[left])
           /\ \A t \in g.follow[left] \ g.follow[last] : h.changed
<1> DEFINE after == [g.follow EXCEPT ![last] = @ \cup g.follow[left]]
           c == g.changed \/ ~(g.follow[left] \subseteq g.follow[last])
<1>1. h = [follow |-> after, changed |-> c]
  BY ListedNonterminals DEF add_last_symbol_nonterminals_follow, isNonterminal
<1>2. g.follow \in [nonterminal_list -> SUBSET Name] /\ g.changed \in BOOLEAN
  BY DEF Following
<1>3. /\ after \in [nonterminal_list -> SUBSET Name]
      /\ after[last] = g.follow[last] \cup g.follow[left]
      /\ \A A \in nonterminal_list \ {last} : after[A] = g.follow[A]
  BY <1>2
<1>4. c \in BOOLEAN
  BY <1>2
<1> HIDE DEF after
<1>5. h \in Following
  BY <1>1, <1>3, <1>4 DEF Following
<1>6. h.follow = after /\ h.changed = c
  BY <1>1
<1> QED BY <1>3, <1>5, <1>6 DEF Added

(* Of the rule r, the symbols from i on have been gone through: f is what    *)
(* there was before, and g is now.                                          *)
GoneThrough(f, r, g, i) ==
    LET right == rules[r].right
        last == LastOf(r)
    IN  /\ g \in Following
        /\ f.changed => g.changed
        /\ \A A \in nonterminal_list : f.follow[A] \subseteq g.follow[A]
        /\ \A A \in nonterminal_list : \A t \in g.follow[A] \ f.follow[A] :
               \/ A = last /\ t \in f.follow[rules[r].left]
               \/ \E j \in 1..Len(right) - 1 : A = right[j] /\ t \in FirstTerminals(right[j + 1])
        /\ \A j \in i..Len(right) - 1 :
               right[j] \in Nonterminal => FirstTerminals(right[j + 1]) \subseteq g.follow[right[j]]
        /\ ~g.changed => Handed(f.follow, r)
        /\ last \notin Nonterminal /\ i = Len(right) => g = f
        /\ \A j \in i..Len(right) - 1 :
               /\ j = Len(right) - 1 /\ last \notin Nonterminal
               /\ right[j] \in Nonterminal /\ last \notin f.follow[right[j]]
               => g.changed

LEMMA PassBegins ==
    ASSUME Ruled, NEW r \in 1..Len(rules), NEW f \in Following, NEW g,
           g = add_last_symbol_nonterminals_follow(f, rules[r].left, LastOf(r))
    PROVE  GoneThrough(f, r, g, Len(rules[r].right))
<1> DEFINE left == rules[r].left
           last == LastOf(r)
<1>1. PICK n : n = Len(rules[r].right)
  OBVIOUS
<1>2. n \in Nat \ {0} /\ last = rules[r].right[n] /\ left \in nonterminal_list
      /\ (last \in Nonterminal => last \in nonterminal_list)
  <2>1. n \in 1..n /\ n \in Nat \ {0}
    BY <1>1, RuledRule
  <2> QED BY <1>1, <2>1, ListedNonterminals DEF LastOf
<1>3. \A j : j \notin n..n - 1
  BY <1>2
<1>4. CASE last \in Nonterminal
  <2>1. Added(f, g, last, f.follow[left]) /\ \A t \in f.follow[left] \ f.follow[last] : g.changed
    <3> HIDE DEF left, last
    <3>1. g = add_last_symbol_nonterminals_follow(f, left, last)
      BY DEF left, last
    <3> QED BY <3>1, <1>2, <1>4, LastGiven
  <2>2. \A A \in nonterminal_list : f.follow[A] \subseteq g.follow[A]
    BY <2>1 DEF Added
  <2>3. \A A \in nonterminal_list : \A t \in g.follow[A] \ f.follow[A] :
            A = last /\ t \in f.follow[left]
    BY <2>1 DEF Added
  <2>4. ~g.changed => Handed(f.follow, r)
    <3> SUFFICES ASSUME ~g.changed PROVE Handed(f.follow, r)
      OBVIOUS
    <3>1. \A t \in f.follow[left] : t \in f.follow[last]
      BY <2>1
    <3> QED BY <3>1 DEF Handed
  <2>5. g \in Following
    BY <2>1 DEF Added
  <2>6. f.changed => g.changed
    BY <2>1 DEF Added
  <2> HIDE DEF left
  <2> QED BY <1>1, <1>3, <1>4, <2>2, <2>3, <2>4, <2>5, <2>6 DEF GoneThrough, left
<1>5. CASE last \notin Nonterminal
  <2>1. g = f
    BY <1>5 DEF add_last_symbol_nonterminals_follow, isNonterminal
  <2>2. Handed(f.follow, r)
    BY <1>5 DEF Handed
  <2> QED BY <1>1, <1>3, <2>1, <2>2 DEF GoneThrough
<1> QED BY <1>4, <1>5

LEMMA PassStep ==
    ASSUME Ruled, NEW r \in 1..Len(rules), NEW f \in Following, NEW g \in Following,
           NEW i \in 1..Len(rules[r].right) - 1, GoneThrough(f, r, g, i + 1),
           LET right == rules[r].right
           IN  right[i] \in Nonterminal =>
                   first_symbols(right[i + 1]) = FirstTerminals(right[i + 1]),
           NEW h, LET right == rules[r].right
                  IN  h = IF isNonterminal(right[i]) THEN add_symbol_as_follow(g, right[i], right[i + 1])
                          ELSE g
    PROVE  GoneThrough(f, r, h, i)
<1> DEFINE right == rules[r].right
           last == LastOf(r)
           left == rules[r].left
           B == right[i]
           s == right[i + 1]
           W == FirstTerminals(s)
           c(j) == right[j] \in Nonterminal => FirstTerminals(right[j + 1]) \subseteq h.follow[right[j]]
           d(j) == /\ j = Len(right) - 1 /\ last \notin Nonterminal
                   /\ right[j] \in Nonterminal /\ last \notin f.follow[right[j]]
                   => h.changed
<1>1. PICK n : n = Len(right) - 1
  OBVIOUS
<1>2. /\ n \in Nat /\ Len(right) = n + 1 /\ i \in 1..n /\ i + 1 \in 1..n + 1 /\ last = right[n + 1]
      /\ \A j \in 1..n + 1 : right[j] \in Name /\ (right[j] \in Nonterminal => right[j] \in nonterminal_list)
  BY <1>1, RuledRule, ListedNonterminals DEF LastOf
<1>3. /\ f.changed => g.changed
      /\ \A A \in nonterminal_list : f.follow[A] \subseteq g.follow[A]
      /\ \A A \in nonterminal_list : \A t \in g.follow[A] \ f.follow[A] :
             \/ A = last /\ t \in f.follow[left]
             \/ \E j \in 1..n : A = right[j] /\ t \in FirstTerminals(right[j + 1])
      /\ \A j \in i + 1..n :
             right[j] \in Nonterminal => FirstTerminals(right[j + 1]) \subseteq g.follow[right[j]]
      /\ ~g.changed => Handed(f.follow, r)
      /\ last \notin Nonterminal /\ i + 1 = n + 1 => g = f
      /\ \A j \in i + 1..n :
             /\ j = n /\ last \notin Nonterminal
             /\ right[j] \in Nonterminal /\ last \notin f.follow[right[j]]
             => g.changed
  BY <1>1, <1>2 DEF GoneThrough
<1>4. \A j \in i..n : j = i \/ j \in i + 1..n
  BY <1>2
<1>5. i # n + 1 /\ Len(right) # i
  BY <1>2
<1>6. CASE B \in Nonterminal
  <2>1. B \in nonterminal_list /\ s \in Name /\ first_symbols(s) = FirstTerminals(s)
    BY <1>2, <1>6
  <2>2. h = add_symbol_as_follow(g, B, s)
    BY <1>6 DEF isNonterminal
  <2>3. Added(g, h, B, W) /\ (s \notin Nonterminal /\ s \notin g.follow[B] => h.changed)
    <3> HIDE DEF B, s
    <3> QED BY <2>1, <2>2, SymbolGiven
  <2>4. h \in Following /\ (g.changed => h.changed) /\ h.follow[B] = g.follow[B] \cup W
    BY <2>3 DEF Added
  <2>5. \A A \in nonterminal_list : g.follow[A] \subseteq h.follow[A]
    BY <2>3 DEF Added
  <2>6. \A A \in nonterminal_list : f.follow[A] \subseteq h.follow[A]
    BY <2>5, <1>3
  <2>7. \A A \in nonterminal_list : \A t \in h.follow[A] \ f.follow[A] :
             \/ A = last /\ t \in f.follow[left]
             \/ \E j \in 1..n : A = right[j] /\ t \in FirstTerminals(right[j + 1])
    <3> SUFFICES ASSUME NEW A \in nonterminal_list, NEW t \in h.follow[A] \ f.follow[A], t \notin g.follow[A]
                 PROVE  \E j \in 1..n : A = right[j] /\ t \in FirstTerminals(right[j + 1])
      BY <1>3
    <3>1. A = B /\ t \in W
      BY <2>3 DEF Added
    <3> QED BY <3>1, <1>2
  <2>8. \A j \in i..n : c(j)
    <3> SUFFICES ASSUME NEW j \in i..n, right[j] \in Nonterminal
                 PROVE  FirstTerminals(right[j + 1]) \subseteq h.follow[right[j]]
      OBVIOUS
    <3>1. CASE j = i
      BY <3>1, <2>4
    <3>2. CASE j # i
      <4>1. j \in i + 1..n /\ j \in 1..n + 1
        BY <3>2, <1>2
      <4>2. FirstTerminals(right[j + 1]) \subseteq g.follow[right[j]] /\ right[j] \in nonterminal_list
        BY <4>1, <1>2, <1>3
      <4> QED BY <4>2, <2>5
    <3> QED BY <3>1, <3>2
  <2>9. \A j \in i..n : d(j)
    <3> SUFFICES ASSUME NEW j \in i..n, j = n, last \notin Nonterminal,
                        right[j] \in Nonterminal, last \notin f.follow[right[j]]
                 PROVE  h.changed
      BY <1>2
    <3>1. CASE j = i
      <4>1. g = f /\ s = last
        BY <3>1, <1>2, <1>3
      <4> QED BY <4>1, <3>1, <2>3
    <3>2. CASE j # i
      <4>1. j \in i + 1..n
        BY <3>2, <1>2
      <4> QED BY <4>1, <1>3, <2>4
    <3> QED BY <3>1, <3>2
  <2> HIDE DEF right, last, left, c, d
  <2>10. GoneThrough(f, r, h, i)
    BY <1>1, <1>2, <1>3, <1>5, <2>4, <2>6, <2>7, <2>8, <2>9 DEF GoneThrough, right, last, left, c, d
  <2> QED BY <2>10
<1>7. CASE B \notin Nonterminal
  <2>1. h = g
    BY <1>7 DEF isNonterminal
  <2>2. \A j \in i..n : c(j)
    BY <1>3, <1>4, <1>7, <2>1
  <2>3. \A j \in i..n : d(j)
    BY <1>2, <1>3, <1>4, <1>7, <2>1
  <2> QED BY <1>1, <1>2, <1>3, <1>5, <2>1, <2>2, <2>3 DEF GoneThrough
<1> QED BY <1>6, <1>7

(* The pass for a rule goes through all of it.                              *)
LEMMA FollowsAdded ==
    ASSUME Ruled, NEW r \in 1..Len(rules), NEW f \in Following,
           \A i \in 1..Len(rules[r].right) - 1 :
               rules[r].right[i] \in Nonterminal =>
                   first_symbols(rules[r].right[i + 1]) = FirstTerminals(rules[r].right[i + 1])
    PROVE  GoneThrough(f, r, add_appropriate_follows(f, rules[r]), 1)
<1> DEFINE rule == rules[r]
           m == Len(rule.right)
           n == m - 1
           start == add_last_symbol_nonterminals_follow(f, rule.left, rule.right[m])
           E(g, k) == IF isNonterminal(rule.right[m - k])
                      THEN add_symbol_as_follow(g, rule.right[m - k], rule.right[m - k + 1])
                      ELSE g
           before == CHOOSE b : b = [k \in 0..m - 1 |-> IF k = 0 THEN start ELSE E(b[k - 1], k)]
           P(g, i) == GoneThrough(f, r, g, i)
           step == [k \in 1..n |-> [g \in Following |-> E(g, k)]]
<1>1. add_appropriate_follows(f, rule) = before[n]
  BY Zenon DEF add_appropriate_follows, before, E, start
<1>2. m \in Nat \ {0} /\ n \in Nat
  BY RuledRule
<1>3. start \in Following /\ P(start, m)
  <2>1. start = add_last_symbol_nonterminals_follow(f, rules[r].left, LastOf(r))
    BY DEF LastOf
  <2> HIDE DEF start
  <2>2. GoneThrough(f, r, start, Len(rules[r].right))
    BY <2>1, PassBegins
  <2> QED BY <2>2 DEF GoneThrough
<1>4. ASSUME NEW k \in 1..n, NEW g \in Following
      PROVE  /\ E(g, k) \in Following
             /\ P(g, m - k + 1) => P(E(g, k), m - k)
  <2>1. PICK i : i = m - k
    OBVIOUS
  <2>2. i \in 1..m - 1 /\ m - k + 1 = i + 1 /\ i \in 1..m /\ i + 1 \in 1..m
    BY <2>1, <1>2
  <2> DEFINE h == E(g, k)
  <2>3. h = IF isNonterminal(rule.right[i]) THEN add_symbol_as_follow(g, rule.right[i], rule.right[i + 1])
            ELSE g
    BY <2>1
  <2> HIDE DEF h, E
  <2>4. P(g, i + 1) => P(h, i)
    BY <2>2, <2>3, PassStep
  <2>5. h \in Following
    <3>1. CASE rule.right[i] \in Nonterminal
      <4> DEFINE B == rule.right[i]
                 s == rule.right[i + 1]
      <4>1. B \in nonterminal_list /\ s \in Name /\ first_symbols(s) = FirstTerminals(s)
        BY <2>2, <3>1, RuledRule, ListedNonterminals
      <4>2. h = add_symbol_as_follow(g, B, s)
        BY <2>3, <3>1 DEF isNonterminal
      <4> HIDE DEF B, s
      <4>3. Added(g, h, B, FirstTerminals(s))
        BY <4>1, <4>2, SymbolGiven
      <4> QED BY <4>3 DEF Added
    <3>2. CASE rule.right[i] \notin Nonterminal
      BY <2>3, <3>2 DEF isNonterminal
    <3> QED BY <3>1, <3>2
  <2> QED BY <2>1, <2>2, <2>4, <2>5 DEF h
<1> HIDE DEF rule, m, start, E, P
<1>5. \E b : b = [k \in 0..n |-> IF k = 0 THEN start ELSE E(b[k - 1], k)]
  <2>1. StepsOn(Following, n, step)
    BY <1>4 DEF StepsOn
  <2> HIDE DEF step
  <2>2. PICK b : Runs(b, Following, n, start, step)
    BY <1>2, <1>3, <2>1, Unrolled
  <2>3. ASSUME NEW k \in 0..n
        PROVE  b[k] = IF k = 0 THEN start ELSE E(b[k - 1], k)
    <3>1. CASE k = 0
      BY <2>2, <3>1 DEF Runs
    <3>2. CASE k # 0
      <4>1. k \in 1..n /\ k - 1 \in 0..n
        BY <3>2, <1>2
      <4>2. b[k - 1] \in Following /\ b[k] = step[k][b[k - 1]]
        BY <4>1, <2>2 DEF Runs
      <4> QED BY <3>2, <4>1, <4>2 DEF step
    <3> QED BY <3>1, <3>2
  <2>4. b \in [0..n -> Following]
    BY <2>2 DEF Runs
  <2>5. b = [k \in 0..n |-> IF k = 0 THEN start ELSE E(b[k - 1], k)]
    BY <2>3, <2>4
  <2> QED BY <2>5
<1>6. before = [k \in 0..n |-> IF k = 0 THEN start ELSE E(before[k - 1], k)]
  BY <1>5, Zenon
<1> HIDE DEF before
<1>7. before[0] = start /\ \A k \in 1..n : before[k] = E(before[k - 1], k)
  BY <1>2, <1>6
<1> DEFINE I == {k \in 0..n : before[k] \in Following /\ P(before[k], m - k)}
<1>8. 0 \in I
  BY <1>2, <1>3, <1>7
<1>9. ASSUME NEW k \in 1..n, k - 1 \in I PROVE k \in I
  <2>1. m - (k - 1) = m - k + 1
    BY <1>2
  <2>2. before[k - 1] \in Following /\ P(before[k - 1], m - k + 1)
    BY <1>9, <2>1
  <2>3. k \in 0..n
    BY <1>2
  <2> QED BY <2>2, <2>3, <1>4, <1>7
<1>10. n \in I
  <2> HIDE DEF I, n
  <2> QED BY <1>2, <1>8, <1>9, Reached
<1>11. m - n = 1
  BY <1>2
<1> QED BY <1>1, <1>10, <1>11 DEF P, rule

-----------------------------------------------------------------------------
(* The invariant of the rounds *)

(* What is there is right, and each rule that was gone through has given.   *)
(* From the second round on all have, and a round that noticed no change    *)
(* has left nothing to hand on.  In the first one the start rule, which is  *)
(* the last, is noticed: the end of the program is new behind PROGRAM.      *)
FirstRound == at <= Len(rules) /\ \A A \in nonterminal_list \ {"START'"} : "$" \notin follow[A]

LaterRound ==
    /\ \A r \in 1..Len(rules) : Given(follow, r)
    /\ ~changed => \A r \in 1..Len(rules) : r < at => Handed(follow, r)

FollowOK ==
    /\ stage = "follow" =>
           /\ follow \in [nonterminal_list -> SUBSET Name] /\ changed \in BOOLEAN
           /\ "$" \in follow["START'"]
           /\ \A A \in nonterminal_list : \A t \in follow[A] : Behind(A, t)
           /\ \A r \in 1..Len(rules) : r < at => Given(follow, r)
           /\ FirstRound \/ LaterRound
    /\ stage \in {"transitions", "reduces", "ready"} =>
           follow = FollowOf /\ DOMAIN follow = nonterminal_list

LEMMA FollowsSame ==
    ASSUME UNCHANGED rules
    PROVE  /\ nonterminal_list' = nonterminal_list
           /\ \A f, r : (Given(f, r)' <=> Given(f, r)) /\ (Handed(f, r)' <=> Handed(f, r))
           /\ \A A, t : Behind(A, t)' <=> Behind(A, t)
<1>1. nonterminal_list' = nonterminal_list
  BY DEF nonterminal_list, isNonterminal
<1>2. \A X : FirstReach(X)' = FirstReach(X) /\ LastReach(X)' = LastReach(X)
  BY DEF FirstReach, LastReach, Reach, FirstSteps
<1>3. \A s : FirstTerminals(s)' = FirstTerminals(s)
  BY <1>2 DEF FirstTerminals
<1>4. \A f, r : (Given(f, r)' <=> Given(f, r)) /\ (Handed(f, r)' <=> Handed(f, r))
  BY <1>3 DEF Given, Handed, LastOf
<1>5. Symbols' = Symbols
  BY DEF Symbols
<1>6. \A B, s : Joined(B, s)' <=> Joined(B, s)
  BY DEF Joined
<1>7. \A A, t : Behind(A, t)' <=> Behind(A, t)
  BY <1>2, <1>5, <1>6 DEF Behind
<1> QED BY <1>1, <1>4, <1>7

(* Nothing is behind A but what is there, and all of that.                  *)
LEMMA FollowIs ==
    ASSUME Ruled, Started, DOMAIN follow = nonterminal_list,
           \E d : follow = [A \in nonterminal_list |-> d[A]],
           \A A \in nonterminal_list : \A t : t \in follow[A] <=> Behind(A, t)
    PROVE  follow = FollowOf
<1>1. ASSUME NEW A \in nonterminal_list PROVE follow[A] = FollowOf[A]
  <2>1. \A t : t \in FollowOf[A] <=> Behind(A, t)
    BY FollowOfIs
  <2>2. \A t : t \in FollowOf[A] <=> t \in follow[A]
    BY <2>1
  <2> DEFINE S == FollowOf[A]
  <2>3. \A t : t \in S <=> t \in follow[A]
    BY <2>2
  <2> HIDE DEF S
  <2>4. S = follow[A]
    BY <2>3
  <2> QED BY <2>4 DEF S
<1>2. FollowOf = [A \in nonterminal_list |-> FollowOf[A]]
  BY FollowOfIs
<1>3. follow = [A \in nonterminal_list |-> follow[A]]
  OBVIOUS
<1>4. follow = [A \in nonterminal_list |-> FollowOf[A]]
  BY <1>1, <1>3
<1> QED BY <1>2, <1>4

LEMMA FollowBegun ==
    ASSUME GInv, follow_init
    PROVE  FollowOK'
<1>1. /\ stage = "symbols" /\ stage' = "follow" /\ at' = 1 /\ changed' = FALSE /\ UNCHANGED rules
      /\ follow' = [A \in nonterminal_list |-> IF A = "START'" THEN {"$"} ELSE {}]
  BY DEF follow_init
<1>2. Ruled /\ Started
  BY <1>1, RulesGiven DEF GInv
<1>3. PICK n : n = Len(rules)
  OBVIOUS
<1>4. n \in Nat \ {0} /\ n = Len(rules')
  BY <1>1, <1>2, <1>3 DEF Started
<1>5. "START'" \in nonterminal_list /\ {"$"} \in SUBSET Name
  <2>1. Len(rules) \in 1..Len(rules) /\ rules[Len(rules)].left = "START'"
    BY <1>2, StartRuleIs DEF Started
  <2>2. rules[Len(rules)].left \in nonterminal_list
    BY <2>1, <1>2, ListedNonterminals
  <2>3. "$" \in Name
    BY DEF Name
  <2> HIDE DEF Name
  <2> QED BY <2>1, <2>2, <2>3
<1>6. follow' \in [nonterminal_list -> SUBSET Name] /\ follow'["START'"] = {"$"}
      /\ \A A \in nonterminal_list \ {"START'"} : follow'[A] = {}
  BY <1>1, <1>5
<1>7. Behind("START'", "$")
  BY <1>2, BehindGrows
<1>8. \A A \in nonterminal_list : \A t \in follow'[A] : Behind(A, t)
  BY <1>6, <1>7
<1>9. /\ nonterminal_list' = nonterminal_list
      /\ \A A, t : Behind(A, t)' <=> Behind(A, t)
  BY <1>1, FollowsSame
<1>10. FirstRound'
  BY <1>1, <1>4, <1>6, <1>9 DEF FirstRound
<1>11. \A r \in 1..Len(rules)' : ~(r < at')
  BY <1>1, <1>4
<1> QED BY <1>1, <1>6, <1>8, <1>9, <1>10, <1>11 DEF FollowOK

LEMMA FollowNextRound ==
    ASSUME GInv, FollowOK, next_round_of_follow
    PROVE  FollowOK'
<1>1. /\ stage = "follow" /\ stage' = "follow" /\ at > Len(rules) /\ at' = 1 /\ changed' = FALSE
      /\ UNCHANGED <<rules, follow>>
  BY DEF next_round_of_follow, tables
<1>2. Len(rules) \in Nat /\ at \in Nat
  BY <1>1, RulesGiven, RuledRule DEF GInv
<1>3. ~FirstRound
  BY <1>1, <1>2 DEF FirstRound
<1>4. \A r \in 1..Len(rules) : Given(follow, r)
  BY <1>1, <1>3 DEF FollowOK, LaterRound
<1>5. \A r \in 1..Len(rules) : ~(r < at')
  BY <1>1, <1>2
<1>6. /\ nonterminal_list' = nonterminal_list
      /\ \A f, r : Given(f, r)' <=> Given(f, r)
      /\ \A A, t : Behind(A, t)' <=> Behind(A, t)
  BY <1>1, FollowsSame
<1>7. \A r \in 1..Len(rules) : Given(follow, r)'
  <2>1. PICK f : f = follow
    OBVIOUS
  <2>2. \A r \in 1..Len(rules) : Given(f, r)'
    BY <2>1, <1>4, <1>6
  <2> QED BY <2>1, <2>2, <1>1 DEF Given
<1>8. LaterRound'
  BY <1>1, <1>5, <1>7 DEF LaterRound
<1> QED BY <1>1, <1>5, <1>6, <1>8 DEF FollowOK

LEMMA EndIsNew ==
    ASSUME Ruled, Started, NEW s, s # "$"
    PROVE  "$" \notin FirstTerminals(s)
<1> DEFINE T == {X \in FirstReach(s) : X # "$"}
<1>1. s \in T
  BY FirstReached
<1>2. \A r \in 1..Len(rules) : rules[r].left \in T => rules[r].right[1] \in T
  <2> SUFFICES ASSUME NEW r \in 1..Len(rules), rules[r].left \in T PROVE rules[r].right[1] \in T
    OBVIOUS
  <2>1. rules[r].right[1] \in FirstReach(s)
    BY FirstReached
  <2>2. CASE r = Len(rules)
    <3>1. rules[r] = StartRule
      BY <2>2 DEF Started
    <3>2. rules[r].right[1] = "PROGRAM" /\ "PROGRAM" \in Nonterminal /\ "$" \notin Nonterminal
      BY <3>1, StartRuleIs
    <3> QED BY <2>1, <3>2
  <2>3. CASE r # Len(rules)
    <3>1. r \in 1..Len(rules) - 1 /\ 1 \in 1..Len(rules[r].right)
      BY <2>3, RuledRule
    <3>2. rules[r].right[1] # "$"
      BY <3>1 DEF Started
    <3> QED BY <2>1, <3>2
  <2> QED BY <2>2, <2>3
<1> HIDE DEF T
<1>3. FirstReach(s) \subseteq T
  BY <1>1, <1>2, FirstReached
<1> QED BY <1>3 DEF T, FirstTerminals

LEMMA GivenGrows ==
    ASSUME Ruled, NEW f, NEW g, NEW r \in 1..Len(rules), Given(f, r),
           \A A \in nonterminal_list : f[A] \subseteq g[A]
    PROVE  Given(g, r)
<1> DEFINE right == rules[r].right
<1>1. \A i \in 1..Len(right) - 1 : right[i] \in Nonterminal => right[i] \in nonterminal_list
  <2>1. \A i \in 1..Len(right) - 1 : i \in 1..Len(right)
    BY RuledRule
  <2> QED BY <2>1, ListedNonterminals
<1>2. \A i \in 1..Len(right) - 1 :
          right[i] \in Nonterminal => FirstTerminals(right[i + 1]) \subseteq f[right[i]]
  BY DEF Given
<1> QED BY <1>1, <1>2 DEF Given

LEMMA FollowPass ==
    ASSUME GInv, FollowOK, compute_follow
    PROVE  FollowOK'
<1> DEFINE f == [follow |-> follow, changed |-> changed]
           h == add_appropriate_follows(f, rules[at])
           N == Len(rules)
           right == rules[at].right
           left == rules[at].left
<1>1. /\ stage = "follow" /\ stage' = "follow" /\ at <= N /\ at' = at + 1
      /\ follow' = h.follow /\ changed' = h.changed /\ UNCHANGED rules
  BY DEF compute_follow
<1>2. Ruled /\ Started /\ RulesOK /\ N \in Nat \ {0} /\ at \in 1..N /\ stage # "rules"
  <2>1. RulesOK /\ at \in Nat \ {0} /\ stage # "rules"
    BY <1>1 DEF GInv
  <2>2. Ruled /\ Started
    BY <2>1, RulesGiven
  <2>3. N \in Nat \ {0}
    BY <2>2 DEF Started
  <2>4. at \in 1..N
    <3> HIDE DEF N
    <3> QED BY <1>1, <2>1, <2>3
  <2> QED BY <2>1, <2>2, <2>3, <2>4
<1>3. /\ follow \in [nonterminal_list -> SUBSET Name] /\ changed \in BOOLEAN
      /\ "$" \in follow["START'"]
      /\ \A A \in nonterminal_list : \A t \in follow[A] : Behind(A, t)
      /\ \A r \in 1..N : r < at => Given(follow, r)
      /\ FirstRound \/ LaterRound
  BY <1>1 DEF FollowOK
<1>4. f \in Following /\ f.follow = follow /\ f.changed = changed
  BY <1>3 DEF Following
<1>5. GoneThrough(f, at, h, 1)
  <2>1. \A i \in 1..Len(rules[at].right) - 1 :
            rules[at].right[i] \in Nonterminal =>
                first_symbols(rules[at].right[i + 1]) = FirstTerminals(rules[at].right[i + 1])
    BY <1>2, GivenFirsts
  <2> HIDE DEF f
  <2> QED BY <1>2, <1>4, <2>1, FollowsAdded
<1> HIDE DEF f, h
<1>6. h \in Following
  BY <1>5 DEF GoneThrough
<1>7. changed => h.changed
  BY <1>4, <1>5 DEF GoneThrough
<1>8. \A A \in nonterminal_list : follow[A] \subseteq h.follow[A]
  BY <1>4, <1>5 DEF GoneThrough
<1>9. \A A \in nonterminal_list : \A t \in h.follow[A] \ follow[A] :
             \/ A = LastOf(at) /\ t \in follow[left]
             \/ \E j \in 1..Len(right) - 1 : A = right[j] /\ t \in FirstTerminals(right[j + 1])
  BY <1>4, <1>5 DEF GoneThrough
<1>10. Given(h.follow, at) /\ (~h.changed => Handed(follow, at))
  BY <1>4, <1>5 DEF GoneThrough, Given
<1>11. "START'" \in nonterminal_list /\ left \in nonterminal_list
  <2>1. N \in 1..N /\ rules[N].left = "START'"
    BY <1>2, StartRuleIs DEF Started
  <2> QED BY <2>1, <1>2, ListedNonterminals
<1>12. \A A \in nonterminal_list : \A t \in h.follow[A] : Behind(A, t)
  <2> SUFFICES ASSUME NEW A \in nonterminal_list, NEW t \in h.follow[A], t \notin follow[A]
               PROVE  Behind(A, t)
    BY <1>3
  <2>1. CASE A = LastOf(at) /\ t \in follow[left]
    <3>1. Behind(left, t)
      BY <2>1, <1>3, <1>11
    <3> QED BY <3>1, <2>1, <1>2, BehindGrows
  <2>2. CASE \E j \in 1..Len(right) - 1 : A = right[j] /\ t \in FirstTerminals(right[j + 1])
    BY <2>2, <1>2, BehindGrows
  <2> QED BY <2>1, <2>2, <1>9
<1>13. \A r \in 1..N : Given(follow, r) => Given(h.follow, r)
  BY <1>2, <1>8, GivenGrows
<1>14. \A r \in 1..N : r < at + 1 => Given(h.follow, r)
  <2>1. \A r \in 1..N : r < at + 1 => r < at \/ r = at
    BY <1>2
  <2> QED BY <2>1, <1>3, <1>10, <1>13
<1> DEFINE First == at + 1 <= N /\ \A A \in nonterminal_list \ {"START'"} : "$" \notin h.follow[A]
           Later == /\ \A r \in 1..N : Given(h.follow, r)
                    /\ ~h.changed => \A r \in 1..N : r < at + 1 => Handed(h.follow, r)
<1>15. ASSUME FirstRound, at # N PROVE First
  <2>1. at \in 1..N - 1 /\ at + 1 <= N
    BY <1>2, <1>15
  <2>2. ASSUME NEW A \in nonterminal_list \ {"START'"}, "$" \in h.follow[A] PROVE FALSE
    <3>1. "$" \notin follow[A]
      BY <1>15 DEF FirstRound
    <3>2. CASE A = LastOf(at) /\ "$" \in follow[left]
      <4>1. left # "START'"
        BY <2>1, <1>2 DEF Started
      <4> QED BY <4>1, <3>2, <1>11, <1>15 DEF FirstRound
    <3>3. CASE \E j \in 1..Len(right) - 1 : A = right[j] /\ "$" \in FirstTerminals(right[j + 1])
      <4>1. PICK j \in 1..Len(right) - 1 : "$" \in FirstTerminals(right[j + 1])
        BY <3>3
      <4>2. j + 1 \in 1..Len(right)
        BY <1>2, RuledRule
      <4>3. right[j + 1] # "$"
        BY <4>2, <2>1, <1>2 DEF Started
      <4> QED BY <4>1, <4>3, <1>2, EndIsNew
    <3> QED BY <2>2, <3>1, <3>2, <3>3, <1>9
  <2> QED BY <2>1, <2>2
<1>16. ASSUME FirstRound, at = N PROVE Later
  <2>1. rules[at] = StartRule
    BY <1>2, <1>16 DEF Started
  <2>2. /\ Len(right) = 2 /\ right[1] = "PROGRAM" /\ LastOf(at) = "$"
        /\ "PROGRAM" \in Nonterminal /\ "$" \notin Nonterminal
    BY <2>1, StartRuleIs DEF LastOf
  <2>3. "PROGRAM" \in nonterminal_list
    <3>1. 1 \in 1..Len(right)
      BY <2>2
    <3> QED BY <2>2, <3>1, <1>2, ListedNonterminals
  <2>4. "$" \notin follow["PROGRAM"]
    BY <2>3, <1>16 DEF FirstRound
  <2>5. h.changed
    <3>1. 1 \in 1..Len(right) - 1 /\ 1 = Len(right) - 1
      BY <2>2
    <3>2. LastOf(at) \notin Nonterminal /\ right[1] \in Nonterminal /\ LastOf(at) \notin f.follow[right[1]]
      BY <2>2, <2>4, <1>4
    <3> QED BY <3>1, <3>2, <1>5 DEF GoneThrough
  <2>6. \A r \in 1..N : Given(h.follow, r)
    <3>1. \A r \in 1..N : r < at + 1
      BY <1>2, <1>16
    <3> QED BY <3>1, <1>14
  <2> QED BY <2>5, <2>6
<1>17. ASSUME LaterRound PROVE Later
  <2>1. \A r \in 1..N : Given(h.follow, r)
    BY <1>13, <1>17 DEF LaterRound
  <2>2. ASSUME ~h.changed, NEW r \in 1..N, r < at + 1 PROVE Handed(h.follow, r)
    <3>1. Handed(follow, at) /\ Handed(follow, r)
      <4>1. r < at \/ r = at
        BY <2>2, <1>2
      <4> QED BY <4>1, <2>2, <1>7, <1>10, <1>17 DEF LaterRound
    <3>2. \A A \in nonterminal_list : \A t \in h.follow[A] : t \in follow[A]
      <4> SUFFICES ASSUME NEW A \in nonterminal_list, NEW t \in h.follow[A], t \notin follow[A]
                   PROVE  FALSE
        OBVIOUS
      <4>1. CASE A = LastOf(at) /\ t \in follow[left]
        <5>1. LastOf(at) \in Nonterminal
          BY <4>1, <1>2, ListedNonterminals
        <5> QED BY <5>1, <4>1, <3>1 DEF Handed
      <4>2. CASE \E j \in 1..Len(right) - 1 : A = right[j] /\ t \in FirstTerminals(right[j + 1])
        <5>1. PICK j \in 1..Len(right) - 1 : A = right[j] /\ t \in FirstTerminals(right[j + 1])
          BY <4>2
        <5>2. right[j] \in Nonterminal
          BY <5>1, <1>2, ListedNonterminals
        <5>3. Given(follow, at)
          BY <1>2, <1>17 DEF LaterRound
        <5> QED BY <5>1, <5>2, <5>3 DEF Given
      <4> QED BY <4>1, <4>2, <1>9
    <3>3. h.follow \in [nonterminal_list -> SUBSET Name]
      BY <1>6 DEF Following
    <3>4. \A A \in nonterminal_list : h.follow[A] = follow[A]
      BY <1>8, <3>2
    <3>5. h.follow = follow
      BY <1>3, <3>3, <3>4
    <3> QED BY <3>1, <3>5
  <2> QED BY <2>1, <2>2
<1>18. /\ nonterminal_list' = nonterminal_list
       /\ \A g, r : (Given(g, r)' <=> Given(g, r)) /\ (Handed(g, r)' <=> Handed(g, r))
       /\ \A A, t : Behind(A, t)' <=> Behind(A, t)
  BY <1>1, FollowsSame
<1>19. PICK F, c : F = h.follow /\ c = h.changed
  OBVIOUS
<1>20. follow' = F /\ changed' = c /\ at' = at + 1 /\ Len(rules)' = N /\ rules' = rules
  BY <1>1, <1>19
<1>21. /\ F \in [nonterminal_list -> SUBSET Name] /\ c \in BOOLEAN /\ "$" \in F["START'"]
       /\ \A A \in nonterminal_list : \A t \in F[A] : Behind(A, t)'
       /\ \A r \in 1..N : r < at + 1 => Given(F, r)'
  BY <1>3, <1>6, <1>8, <1>11, <1>12, <1>14, <1>18, <1>19 DEF Following
<1>22. FirstRound' \/ LaterRound'
  <2>1. CASE First
    <3>1. FirstRound'
      BY <2>1, <1>18, <1>19, <1>20 DEF FirstRound
    <3> QED BY <3>1
  <2>2. CASE Later
    <3>1. /\ \A r \in 1..N : Given(F, r)'
          /\ ~c => \A r \in 1..N : r < at + 1 => Handed(F, r)'
      BY <2>2, <1>18, <1>19
    <3>2. \A r \in 1..N : (Given(follow, r)' <=> Given(F, r)') /\ (Handed(follow, r)' <=> Handed(F, r)')
      BY <1>20 DEF Given, Handed
    <3>3. LaterRound'
      BY <3>1, <3>2, <1>20 DEF LaterRound
    <3> QED BY <3>3
  <2> HIDE DEF First, Later
  <2> QED BY <2>1, <2>2, <1>3, <1>15, <1>16, <1>17
<1>23. \A r \in 1..N : r < at + 1 => Given(follow, r)'
  <2>1. \A r \in 1..N : Given(follow, r)' <=> Given(F, r)'
    BY <1>20 DEF Given
  <2> QED BY <2>1, <1>21
<1> QED BY <1>1, <1>18, <1>20, <1>21, <1>22, <1>23 DEF FollowOK

LEMMA FollowEnds ==
    ASSUME GInv, FollowOK, init_tables
    PROVE  FollowOK'
<1>1. /\ stage = "follow" /\ stage' = "transitions" /\ at > Len(rules) /\ ~changed
      /\ UNCHANGED <<rules, follow>>
  BY DEF init_tables
<1>2. Ruled /\ Started /\ Len(rules) \in Nat \ {0} /\ at \in Nat
  BY <1>1, RulesGiven DEF GInv, Started
<1>3. /\ follow \in [nonterminal_list -> SUBSET Name] /\ "$" \in follow["START'"]
      /\ \A A \in nonterminal_list : \A t \in follow[A] : Behind(A, t)
  BY <1>1 DEF FollowOK
<1>4. LaterRound
  <2>1. ~FirstRound
    BY <1>1, <1>2 DEF FirstRound
  <2> QED BY <2>1, <1>1 DEF FollowOK
<1>5. \A r \in 1..Len(rules) : Given(follow, r) /\ Handed(follow, r)
  <2>1. \A r \in 1..Len(rules) : r < at
    BY <1>1, <1>2
  <2> QED BY <2>1, <1>1, <1>4 DEF LaterRound
<1>6. ASSUME NEW A \in nonterminal_list, NEW t PROVE t \in follow[A] <=> Behind(A, t)
  <2>1. A \in Nonterminal
    BY <1>2, ListedNonterminals
  <2>2. ASSUME Behind(A, t) PROVE t \in follow[A]
    <3>1. PICK f : f = follow
      OBVIOUS
    <3>2. "$" \in f["START'"] /\ \A r \in 1..Len(rules) : Given(f, r) /\ Handed(f, r)
      BY <3>1, <1>3, <1>5
    <3>3. t \in f[A]
      BY <3>2, <2>1, <2>2, <1>2, BehindLeast
    <3> QED BY <3>1, <3>3
  <2> QED BY <2>2, <1>3
<1>7. DOMAIN follow = nonterminal_list /\ follow = [A \in nonterminal_list |-> follow[A]]
  BY <1>3
<1>8. \E d : follow = [A \in nonterminal_list |-> d[A]]
  BY <1>7
<1>9. follow = FollowOf
  BY <1>2, <1>6, <1>7, <1>8, FollowIs
<1>10. FollowOf' = FollowOf
  BY <1>1 DEF FollowOf, Firsts, Lasts, Neighbours, Closure, Symbols, Reach, FirstSteps
<1>11. nonterminal_list' = nonterminal_list
  BY <1>1 DEF nonterminal_list, isNonterminal
<1> QED BY <1>1, <1>7, <1>9, <1>10, <1>11 DEF FollowOK

LEMMA FollowKept ==
    ASSUME FollowOK, UNCHANGED <<rules, follow>>,
           \/ UNCHANGED <<stage, at, changed>>
           \/ stage' \notin {"follow", "transitions", "reduces", "ready"}
           \/ /\ stage \in {"transitions", "reduces", "ready"}
              /\ stage' \in {"transitions", "reduces", "ready"}
    PROVE  FollowOK'
<1>1. FollowOf' = FollowOf
  BY DEF FollowOf, Firsts, Lasts, Neighbours, Closure, Symbols, Reach, FirstSteps
<1>2. stage' \in {"transitions", "reduces", "ready"} =>
          follow' = FollowOf' /\ DOMAIN follow' = nonterminal_list'
  <2>1. stage' \in {"transitions", "reduces", "ready"} => stage \in {"transitions", "reduces", "ready"}
    OBVIOUS
  <2>2. nonterminal_list' = nonterminal_list
    BY FollowsSame
  <2> QED BY <2>1, <2>2, <1>1 DEF FollowOK
<1>3. ASSUME stage' = "follow"
      PROVE  /\ follow' \in [nonterminal_list' -> SUBSET Name] /\ changed' \in BOOLEAN
             /\ "$" \in follow'["START'"]
             /\ \A A \in nonterminal_list' : \A t \in follow'[A] : Behind(A, t)'
             /\ \A r \in 1..Len(rules') : r < at' => Given(follow, r)'
             /\ FirstRound' \/ LaterRound'
  <2>1. stage = "follow" /\ UNCHANGED <<stage, at, changed>>
    BY <1>3
  <2>2. /\ nonterminal_list' = nonterminal_list
        /\ \A f, r : (Given(f, r)' <=> Given(f, r)) /\ (Handed(f, r)' <=> Handed(f, r))
        /\ \A A, t : Behind(A, t)' <=> Behind(A, t)
    BY FollowsSame
  <2>3. PICK f : f = follow
    OBVIOUS
  <2>4. \A r : (Given(follow, r)' <=> Given(f, r)') /\ (Handed(follow, r)' <=> Handed(f, r)')
    BY <2>3 DEF Given, Handed
  <2>5. \A r : (Given(follow, r)' <=> Given(follow, r)) /\ (Handed(follow, r)' <=> Handed(follow, r))
    BY <2>2, <2>3, <2>4
  <2>6. FirstRound' = FirstRound /\ LaterRound' = LaterRound
    BY <2>1, <2>2, <2>5 DEF FirstRound, LaterRound
  <2> QED BY <2>1, <2>2, <2>5, <2>6 DEF FollowOK
<1> QED BY <1>2, <1>3 DEF FollowOK

LEMMA FollowNext ==
    ASSUME GInv, FollowOK, [Next]_vars
    PROVE  FollowOK'
<1>1. CASE follow_init
  BY <1>1, FollowBegun
<1>2. CASE compute_follow
  BY <1>2, FollowPass
<1>3. CASE next_round_of_follow
  BY <1>3, FollowNextRound
<1>4. CASE init_tables
  BY <1>4, FollowEnds
<1>5. CASE add_starting_rule
  BY <1>5 DEF add_starting_rule, FollowOK
<1>6. CASE init_starting_state \/ create_a_new_state_for_single_transition
           \/ create_transition_states_for_possible_transitions \/ symbols_init \/ collect_symbols
  <2>1. /\ UNCHANGED <<rules, follow>>
        /\ stage' \notin {"follow", "transitions", "reduces", "ready"}
    BY <1>6 DEF init_starting_state, create_a_new_state_for_single_transition, tables,
          create_transition_states_for_possible_transitions, symbols_init, collect_symbols
  <2> QED BY <2>1, FollowKept
<1>7. CASE insert_state_transitions_into_table \/ begin_reduces \/ build_reduces \/ tables_done
  <2>1. /\ UNCHANGED <<rules, follow>>
        /\ stage \in {"transitions", "reduces", "ready"}
        /\ stage' \in {"transitions", "reduces", "ready"}
    BY <1>7 DEF insert_state_transitions_into_table, begin_reduces, build_reduces, tables_done, tables
  <2> QED BY <2>1, FollowKept
<1>8. CASE UNCHANGED generatorVars
  <2>1. UNCHANGED <<rules, follow, stage, at, changed>>
    BY <1>8 DEF generatorVars, tables
  <2> QED BY <2>1, FollowKept
<1>9. (tokenize \/ commit_parser \/ UNCHANGED vars) => UNCHANGED generatorVars
  BY DEF tokenize, commit_parser, vars
<1> QED BY <1>1, <1>2, <1>3, <1>4, <1>5, <1>6, <1>7, <1>8, <1>9 DEF Next, MakeTables, TablesNext

(* When the rounds end, the terminals kept for a nonterminal are those that *)
(* a derivation can have behind it, no more and no fewer, although a round  *)
(* does not notice what a nonterminal gives (ParserTableFollow.c:33): for   *)
(* every grammar.                                                          *)
THEOREM FollowIsExact == Spec => []FollowExact
<1>1. Init => FInv /\ FollowOK
  <2>1. Init => FollowOK
    BY DEF Init, TablesInit, FollowOK
  <2> QED BY <2>1, FInvInit
<1>2. FInv /\ FollowOK /\ [Next]_vars => (FInv /\ FollowOK)'
  BY FInvNext, FollowNext DEF FInv
<1>3. FInv /\ FollowOK => FollowExact
  BY DEF FollowOK, FollowExact
<1> QED BY <1>1, <1>2, <1>3, PTL DEF Spec

-----------------------------------------------------------------------------
(***************************************************************************)
(* What is refused is wrong.  What the grammar derives is the least set of  *)
(* rests that is complete: what holds of the rests of nothing, and of every *)
(* rest that has one symbol more in front, holds of all of them.            *)
(***************************************************************************)

RestsComplete(C) ==
    /\ Ends \subseteq C
    /\ \A r \in Rule : \A d, i, k, j \in Nat :
           <<r, d, k, j>> \in C /\ d # 0 /\ i <= k /\ Shows(C, rules[r].right[d], i, k)
           => <<r, d - 1, i, j>> \in C

Remaining == {x \in AnyRest : \A C : RestsComplete(C) => x \in C}

LEMMA ShowsMore ==
    ASSUME NEW W, NEW C, W \subseteq C, NEW X, NEW i, NEW j, Shows(W, X, i, j)
    PROVE  Shows(C, X, i, j)
BY DEF Shows

LEMMA EndsAre ==
    ASSUME NEW x \in Ends
    PROVE  \E r \in 1..Len(rules), k \in 0..Len(tokens) : x = <<r, Len(rules[r].right), k, k>>
BY DEF Ends

LEMMA RemainingComplete ==
    ASSUME Ruled, Len(tokens) \in Nat
    PROVE  RestsComplete(Remaining)
<1>1. ASSUME NEW x \in Ends PROVE x \in Remaining
  <2>1. PICK r \in 1..Len(rules), k \in 0..Len(tokens) : x = <<r, Len(rules[r].right), k, k>>
    BY <1>1, EndsAre
  <2>2. x \in AnyRest
    BY <2>1, RuledRule DEF AnyRest
  <2> QED BY <2>2, <1>1 DEF Remaining, RestsComplete
<1>2. ASSUME NEW r \in Rule, NEW d \in Nat, NEW i \in Nat, NEW k \in Nat, NEW j \in Nat,
             <<r, d, k, j>> \in Remaining, d # 0, i <= k,
             Shows(Remaining, rules[r].right[d], i, k)
      PROVE  <<r, d - 1, i, j>> \in Remaining
  <2>1. <<r, d - 1, i, j>> \in AnyRest
    BY <1>2 DEF AnyRest, Rule
  <2>2. ASSUME NEW C, RestsComplete(C) PROVE <<r, d - 1, i, j>> \in C
    <3>1. Remaining \subseteq C
      BY <2>2 DEF Remaining
    <3>2. Shows(C, rules[r].right[d], i, k)
      BY <1>2, <3>1, ShowsMore
    <3> QED BY <1>2, <3>1, <3>2, <2>2 DEF RestsComplete
  <2> QED BY <2>1, <2>2 DEF Remaining
<1> QED BY <1>1, <1>2 DEF RestsComplete

(* To show something of every rest that remains.                            *)
LEMMA OfEveryRest ==
    ASSUME NEW C, RestsComplete(C)
    PROVE  Remaining \subseteq C
BY DEF Remaining

LEMMA RestsGrow ==
    ASSUME Ruled, NEW C, RestsComplete(C), NEW W \in SUBSET AnyRest, W \subseteq C
    PROVE  Grown(W) \in SUBSET AnyRest /\ Grown(W) \subseteq C
<1> SUFFICES ASSUME NEW x \in Grown(W) PROVE x \in AnyRest /\ x \in C
  OBVIOUS
<1>1. CASE x \in W
  BY <1>1
<1>2. CASE x \notin W
  <2>0. PICK w \in W : /\ w[2] # 0
                       /\ \E i \in 0..w[3] : /\ Shows(W, rules[w[1]].right[w[2]], i, w[3])
                                             /\ x = <<w[1], w[2] - 1, i, w[4]>>
    BY <1>2 DEF Grown
  <2>1. PICK i \in 0..w[3] : /\ Shows(W, rules[w[1]].right[w[2]], i, w[3])
                             /\ x = <<w[1], w[2] - 1, i, w[4]>>
    BY <2>0
  <2>2. PICK r \in 1..Len(rules), d \in Nat, k \in Nat, j \in Nat : w = <<r, d, k, j>>
    BY DEF AnyRest
  <2>5. w[1] = r /\ w[2] = d /\ w[3] = k /\ w[4] = j
    BY <2>2
  <2>3. r \in Rule /\ i \in Nat /\ i <= k /\ d - 1 \in Nat
    BY <2>0, <2>5 DEF Rule
  <2>4. Shows(C, rules[r].right[d], i, k)
    BY <2>1, <2>5, ShowsMore
  <2> QED BY <2>0, <2>1, <2>2, <2>3, <2>4, <2>5 DEF RestsComplete, AnyRest, Rule
<1> QED BY <1>1, <1>2

(* The rounds, of which there are at most n.                                *)
Most == Len(rules) * (Len(tokens) + 1) * (Len(tokens) + 1) * (Len(tokens) + 1)

RestsRun(g, n) ==
    /\ \A W \in SUBSET AnyRest : g[0][W] = W
    /\ \A i \in 1..n : \A W \in SUBSET AnyRest :
           g[i][W] = IF Grown(W) = W THEN W ELSE g[i - 1][Grown(W)]

LEMMA AnyRestComplete ==
    ASSUME Ruled, Len(tokens) \in Nat
    PROVE  RestsComplete(AnyRest)
<1>1. ASSUME NEW x \in Ends PROVE x \in AnyRest
  <2>1. PICK q \in 1..Len(rules), k \in 0..Len(tokens) : x = <<q, Len(rules[q].right), k, k>>
    BY <1>1, EndsAre
  <2>2. Len(rules[q].right) \in Nat /\ k \in Nat
    BY RuledRule
  <2> QED BY <2>1, <2>2 DEF AnyRest
<1>2. ASSUME NEW r \in Rule, NEW d \in Nat, NEW i \in Nat, NEW j \in Nat, d # 0
      PROVE  <<r, d - 1, i, j>> \in AnyRest
  <2>1. d - 1 \in Nat
    BY <1>2
  <2> QED BY <2>1 DEF AnyRest, Rule
<1> QED BY ONLY <1>1, <1>2 DEF RestsComplete

LEMMA RestsRounds ==
    ASSUME Ruled, Len(tokens) \in Nat
    PROVE  Most \in Nat /\ \E g : RestsRun(g, Most) /\ Rests = g[Most][Ends]
<1> DEFINE n == Len(rules) * (Len(tokens) + 1) * (Len(tokens) + 1) * (Len(tokens) + 1)
           A == SUBSET AnyRest
           L == [A -> A]
           id == [W \in A |-> W]
           E(h, i) == [W \in A |-> LET more == Grown(W)
                                   IN  IF more = W THEN W ELSE h[more]]
<1>1. n \in Nat
  <2>1. Len(rules) \in Nat
    BY RuledRule
  <2>2. Len(rules) * (Len(tokens) + 1) \in Nat
    BY <2>1
  <2>3. Len(rules) * (Len(tokens) + 1) * (Len(tokens) + 1) \in Nat
    BY <2>2
  <2> QED BY <2>3
<1>2. \A W \in A : Grown(W) \in A
  BY AnyRestComplete, RestsGrow
<1>3. id \in L
  OBVIOUS
<1>4. \A i \in 1..n, h \in L : E(h, i) \in L
  <2> SUFFICES ASSUME NEW i \in 1..n, NEW h \in L PROVE E(h, i) \in L
    OBVIOUS
  <2> HIDE DEF A
  <2>1. \A W \in A : h[W] \in A
    OBVIOUS
  <2> QED BY <2>1, <1>2
<1> HIDE DEF n, L, E, id
<1>5. \E g : g = [i \in 0..n |-> IF i = 0 THEN id ELSE E(g[i - 1], i)]
  <2> DEFINE step == [i \in 1..n |-> [h \in L |-> E(h, i)]]
  <2>1. StepsOn(L, n, step)
    BY <1>4 DEF StepsOn
  <2> HIDE DEF step
  <2>2. PICK g : Runs(g, L, n, id, step)
    BY <1>1, <1>3, <2>1, Unrolled
  <2>3. ASSUME NEW i \in 0..n
        PROVE  g[i] = IF i = 0 THEN id ELSE E(g[i - 1], i)
    <3>1. CASE i = 0
      BY <2>2, <3>1 DEF Runs
    <3>2. CASE i # 0
      <4>1. i \in 1..n /\ i - 1 \in 0..n
        BY <3>2, <1>1
      <4>2. g[i - 1] \in L /\ g[i] = step[i][g[i - 1]]
        BY <4>1, <2>2 DEF Runs
      <4> QED BY <3>2, <4>1, <4>2 DEF step
    <3> QED BY <3>1, <3>2
  <2>4. g \in [0..n -> L]
    BY <2>2 DEF Runs
  <2>5. g = [i \in 0..n |-> IF i = 0 THEN id ELSE E(g[i - 1], i)]
    BY <2>3, <2>4
  <2> QED BY <2>5
<1> DEFINE rounds == CHOOSE g : g = [i \in 0..n |-> IF i = 0 THEN id ELSE E(g[i - 1], i)]
<1>6. rounds = [i \in 0..n |-> IF i = 0 THEN id ELSE E(rounds[i - 1], i)]
  BY <1>5, Zenon
<1>7. Rests = rounds[n][Ends]
  BY Zenon DEF Rests, rounds, E, n, id, A
<1> HIDE DEF rounds
<1>8. /\ rounds[0] = id
      /\ \A i \in 1..n : rounds[i] = E(rounds[i - 1], i)
  <2>1. 0 \in 0..n /\ \A i \in 1..n : i \in 0..n /\ i # 0
    BY <1>1
  <2> QED BY <2>1, <1>6
<1>9. \A W \in A : rounds[0][W] = W
  BY <1>8 DEF id
<1>10. ASSUME NEW i \in 1..n, NEW W \in A
       PROVE  rounds[i][W] = IF Grown(W) = W THEN W ELSE rounds[i - 1][Grown(W)]
  <2>1. rounds[i] = [V \in A |-> IF Grown(V) = V THEN V ELSE rounds[i - 1][Grown(V)]]
    BY <1>8 DEF E
  <2> HIDE DEF A
  <2> QED BY <2>1
<1>11. RestsRun(rounds, n)
  BY <1>9, <1>10 DEF RestsRun
<1>12. n = Most
  BY DEF n, Most
<1> QED BY <1>1, <1>7, <1>11, <1>12

LEMMA RestsRemain ==
    ASSUME Ruled, Len(tokens) \in Nat
    PROVE  Rests \subseteq Remaining
<1>1. Most \in Nat
  BY RestsRounds
<1>2. PICK g : RestsRun(g, Most) /\ Rests = g[Most][Ends]
  BY RestsRounds
<1> DEFINE A == SUBSET AnyRest
           I == {i \in 0..Most : \A W \in A : W \subseteq Remaining => g[i][W] \subseteq Remaining}
<1>3. 0 \in I
  BY <1>1, <1>2 DEF RestsRun
<1>4. ASSUME NEW i \in 1..Most, i - 1 \in I PROVE i \in I
  <2> SUFFICES ASSUME NEW W \in A, W \subseteq Remaining PROVE g[i][W] \subseteq Remaining
    BY <1>1
  <2>1. Grown(W) \in A /\ Grown(W) \subseteq Remaining
    BY RestsGrow, RemainingComplete
  <2>2. g[i][W] = IF Grown(W) = W THEN W ELSE g[i - 1][Grown(W)]
    BY <1>2 DEF RestsRun
  <2>3. g[i - 1][Grown(W)] \subseteq Remaining
    BY <1>4, <2>1
  <2> QED BY <2>2, <2>3
<1>5. Most \in I
  <2> HIDE DEF I
  <2> QED BY <1>1, <1>3, <1>4, Reached
<1>6. Ends \in A /\ Ends \subseteq Remaining
  BY RemainingComplete DEF RestsComplete, Remaining
<1> QED BY <1>2, <1>5, <1>6

(* What is left of a rule has a token for each of its symbols at least, so  *)
(* there are not more rests than rounds.                                    *)
Narrow == {x \in AnyRest :
               /\ x[2] <= Len(rules[x[1]].right) /\ x[4] <= Len(tokens)
               /\ x[3] + (Len(rules[x[1]].right) - x[2]) <= x[4]}

LEMMA NarrowIs ==
    ASSUME NEW r, NEW d, NEW i, NEW j
    PROVE  <<r, d, i, j>> \in Narrow <=>
               /\ r \in 1..Len(rules) /\ d \in Nat /\ i \in Nat /\ j \in Nat
               /\ d <= Len(rules[r].right) /\ j <= Len(tokens)
               /\ i + (Len(rules[r].right) - d) <= j
BY DEF Narrow, AnyRest

LEMMA NarrowComplete ==
    ASSUME Ruled, Len(tokens) \in Nat
    PROVE  RestsComplete(Narrow)
<1>1. ASSUME NEW x \in Ends PROVE x \in Narrow
  <2>1. PICK r \in 1..Len(rules), k \in 0..Len(tokens) : x = <<r, Len(rules[r].right), k, k>>
    BY <1>1, EndsAre
  <2>2. Len(rules[r].right) \in Nat
    BY RuledRule
  <2> QED BY <2>1, <2>2, NarrowIs
<1>2. ASSUME NEW r \in Rule, NEW d \in Nat, NEW i \in Nat, NEW k \in Nat, NEW j \in Nat,
             <<r, d, k, j>> \in Narrow, d # 0, i <= k, Shows(Narrow, rules[r].right[d], i, k)
      PROVE  <<r, d - 1, i, j>> \in Narrow
  <2>1. Len(rules[r].right) \in Nat /\ r \in 1..Len(rules)
    BY RuledRule DEF Rule
  <2>2. /\ d <= Len(rules[r].right) /\ j <= Len(tokens)
        /\ k + (Len(rules[r].right) - d) <= j
    BY <1>2, NarrowIs
  <2>3. i + 1 <= k
    <3>1. CASE k = i + 1
      BY <3>1
    <3>2. CASE \E p \in RulesOf(rules[r].right[d]) : <<p, 0, i, k>> \in Narrow
      <4>1. PICK p \in 1..Len(rules) : <<p, 0, i, k>> \in Narrow
        BY <3>2 DEF RulesOf
      <4>2. Len(rules[p].right) \in Nat \ {0}
        BY <4>1, RuledRule
      <4>3. i + (Len(rules[p].right) - 0) <= k /\ i \in Nat /\ k \in Nat
        BY <4>1, NarrowIs
      <4> QED BY ONLY <4>2, <4>3
    <3> QED BY <3>1, <3>2, <1>2 DEF Shows
  <2>4. d - 1 \in Nat /\ d - 1 <= Len(rules[r].right) /\ i + (Len(rules[r].right) - (d - 1)) <= j
    BY <1>2, <2>1, <2>2, <2>3
  <2> QED BY <2>1, <2>2, <2>4, NarrowIs
<1> QED BY <1>1, <1>2 DEF RestsComplete

LEMMA PairsCounted ==
    ASSUME NEW S, NEW U, IsFiniteSet(S), IsFiniteSet(U), NEW m, NEW n,
           Cardinality(S) = m, Cardinality(U) = n
    PROVE  IsFiniteSet(S \X U) /\ Cardinality(S \X U) = m * n
<1>1. IsFiniteSet(S \X U) /\ Cardinality(S \X U) = Cardinality(S) * Cardinality(U)
  BY FS_Product
<1> QED BY <1>1

LEMMA NarrowCounted ==
    ASSUME Ruled, Len(tokens) \in Nat
    PROVE  IsFiniteSet(Narrow) /\ Cardinality(Narrow) <= Most
<1> DEFINE T == Len(tokens)
           L == Len(rules)
           R == 1..L
           K == 0..T
           more(x) == Len(rules[x[1]].right) - x[2]
           f == [x \in Narrow |-> <<<<<<x[1], more(x)>>, x[3]>>, x[4]>>]
           P == ((R \X K) \X K) \X K
<1>1. L \in Nat /\ IsFiniteSet(R) /\ Cardinality(R) = L
  <2>1. L \in Nat
    BY RuledRule
  <2>2. 1 \in Int /\ L \in Int /\ (IF 1 > L THEN 0 ELSE L - 1 + 1) = L
    BY <2>1
  <2> HIDE DEF L
  <2> QED BY <2>1, <2>2, FS_Interval
<1>2. IsFiniteSet(K) /\ Cardinality(K) = T + 1
  <2>1. 0 \in Int /\ T \in Int /\ (IF 0 > T THEN 0 ELSE T - 0 + 1) = T + 1
    OBVIOUS
  <2> HIDE DEF T
  <2> QED BY <2>1, FS_Interval
<1>3. ASSUME NEW x \in Narrow
      PROVE  /\ x[1] \in R /\ more(x) \in K /\ x[3] \in K /\ x[4] \in K
             /\ x = <<x[1], x[2], x[3], x[4]>> /\ x[2] = Len(rules[x[1]].right) - more(x)
  <2>1. PICK r \in 1..Len(rules), d \in Nat, i \in Nat, j \in Nat : x = <<r, d, i, j>>
    BY DEF Narrow, AnyRest
  <2>2. d <= Len(rules[r].right) /\ j <= T /\ i + (Len(rules[r].right) - d) <= j
    BY <2>1, NarrowIs
  <2>3. Len(rules[r].right) \in Nat
    BY RuledRule
  <2>4. Len(rules[r].right) - d \in K /\ i \in K /\ j \in K
        /\ d = Len(rules[r].right) - (Len(rules[r].right) - d)
    BY <2>2, <2>3
  <2> QED BY <2>1, <2>4
<1> HIDE DEF R, K, more
<1>4. f \in Injection(Narrow, P)
  <2>1. \A x \in Narrow : f[x] \in P
    BY <1>3
  <2>2. ASSUME NEW x \in Narrow, NEW y \in Narrow, f[x] = f[y] PROVE x = y
    <3>1. x[1] = y[1] /\ more(x) = more(y) /\ x[3] = y[3] /\ x[4] = y[4]
      BY <2>2
    <3>2. x[2] = y[2]
      BY <1>3, <3>1
    <3> QED BY <1>3, <3>1, <3>2
  <2>3. f \in [Narrow -> P]
    <3> HIDE DEF P
    <3> QED BY <2>1
  <2> HIDE DEF f, P
  <2> QED BY <2>2, <2>3 DEF Injection, IsInjective
<1> HIDE DEF L, T, f, P
<1>5. IsFiniteSet(R \X K) /\ Cardinality(R \X K) = L * (T + 1)
  BY <1>1, <1>2, PairsCounted
<1>6. IsFiniteSet((R \X K) \X K) /\ Cardinality((R \X K) \X K) = L * (T + 1) * (T + 1)
  BY <1>2, <1>5, PairsCounted
<1>7. IsFiniteSet(P) /\ Cardinality(P) = L * (T + 1) * (T + 1) * (T + 1)
  <2>1. PICK S, m, n : S = (R \X K) \X K /\ m = L * (T + 1) * (T + 1) /\ n = T + 1
    OBVIOUS
  <2>2. IsFiniteSet(S) /\ Cardinality(S) = m /\ IsFiniteSet(K) /\ Cardinality(K) = n
    BY <1>2, <1>6, <2>1
  <2>3. IsFiniteSet(S \X K) /\ Cardinality(S \X K) = m * n
    <3>1. PICK U : U = K
      OBVIOUS
    <3>2. IsFiniteSet(S \X U) /\ Cardinality(S \X U) = Cardinality(S) * Cardinality(U)
      BY <2>2, <3>1, FS_Product
    <3> QED BY <2>2, <3>1, <3>2
  <2> QED BY <2>1, <2>3 DEF P
<1>8. Cardinality(P) = Most
  BY <1>7 DEF Most, L, T
<1> QED BY <1>4, <1>7, <1>8, FS_Injection

(* The rounds go on until nothing is added.                                 *)
RestsMet(g, i, W) ==
    /\ W \subseteq g[i][W] /\ g[i][W] \subseteq Narrow
    /\ Cardinality(Narrow) <= Cardinality(W) + i => Grown(g[i][W]) = g[i][W]

LEMMA RestsEnd ==
    ASSUME Ruled, Len(tokens) \in Nat
    PROVE  Rests \subseteq Narrow /\ Ends \subseteq Rests /\ Grown(Rests) = Rests
<1>1. Most \in Nat
  BY RestsRounds
<1>2. PICK g : RestsRun(g, Most) /\ Rests = g[Most][Ends]
  BY RestsRounds
<1>3. IsFiniteSet(Narrow) /\ Cardinality(Narrow) <= Most /\ Cardinality(Narrow) \in Nat
  BY NarrowCounted, FS_CardinalityType
<1> DEFINE A == SUBSET Narrow
           I == {i \in 0..Most : \A W \in A : RestsMet(g, i, W)}
<1>4. A \subseteq SUBSET AnyRest
  BY DEF Narrow
<1>5. ASSUME NEW W \in A
      PROVE  /\ Grown(W) \in A /\ W \subseteq Grown(W) /\ Cardinality(W) \in Nat
             /\ Cardinality(Narrow) <= Cardinality(W) => Grown(W) = W
             /\ Grown(W) # W => Cardinality(Grown(W)) \in Nat
                                /\ Cardinality(W) + 1 <= Cardinality(Grown(W))
  <2>1. Grown(W) \in A
    BY <1>4, NarrowComplete, RestsGrow
  <2>2. W \subseteq Grown(W)
    BY DEF Grown
  <2>3. IsFiniteSet(W) /\ IsFiniteSet(Grown(W)) /\ Cardinality(W) <= Cardinality(Narrow)
        /\ (Cardinality(Narrow) = Cardinality(W) => Narrow = W)
    BY <1>3, <2>1, FS_Subset
  <2>4. Cardinality(W) \in Nat /\ Cardinality(Grown(W)) \in Nat
    BY <2>3, FS_CardinalityType
  <2>5. Cardinality(W) <= Cardinality(Grown(W))
        /\ (Cardinality(Grown(W)) = Cardinality(W) => Grown(W) = W)
    BY <2>2, <2>3, FS_Subset
  <2>6. Cardinality(Narrow) <= Cardinality(W) => Grown(W) = W
    <3>1. Cardinality(Narrow) <= Cardinality(W) => Cardinality(Narrow) = Cardinality(W)
      BY <1>3, <2>3, <2>4
    <3> QED BY <3>1, <2>1, <2>2, <2>3
  <2> QED BY <2>1, <2>2, <2>4, <2>5, <2>6
<1>6. 0 \in I
  <2> SUFFICES ASSUME NEW W \in A PROVE RestsMet(g, 0, W)
    BY <1>1
  <2>1. g[0][W] = W
    BY <1>2, <1>4 DEF RestsRun
  <2>2. Cardinality(W) + 0 = Cardinality(W)
    BY <1>5
  <2> QED BY <2>1, <2>2, <1>5 DEF RestsMet
<1>7. ASSUME NEW i \in 1..Most, i - 1 \in I PROVE i \in I
  <2> SUFFICES ASSUME NEW W \in A PROVE RestsMet(g, i, W)
    BY <1>1
  <2>1. g[i][W] = IF Grown(W) = W THEN W ELSE g[i - 1][Grown(W)]
    BY <1>2, <1>4 DEF RestsRun
  <2>2. CASE Grown(W) = W
    <3>1. g[i][W] = W
      BY <2>1, <2>2
    <3> QED BY <3>1, <2>2 DEF RestsMet
  <2>3. CASE Grown(W) # W
    <3>1. PICK G : G = Grown(W)
      OBVIOUS
    <3>2. G \in A /\ W \subseteq G /\ Cardinality(W) + 1 <= Cardinality(G)
          /\ Cardinality(G) \in Nat /\ Cardinality(W) \in Nat
      BY <1>5, <2>3, <3>1
    <3>3. RestsMet(g, i - 1, G) /\ g[i][W] = g[i - 1][G]
      BY <1>7, <2>1, <2>3, <3>1, <3>2
    <3>4. Cardinality(Narrow) <= Cardinality(W) + i => Cardinality(Narrow) <= Cardinality(G) + (i - 1)
      BY <1>1, <1>3, <3>2
    <3>5. PICK V : V = g[i - 1][G]
      OBVIOUS
    <3>6. /\ G \subseteq V /\ V \subseteq Narrow /\ g[i][W] = V
          /\ Cardinality(Narrow) <= Cardinality(G) + (i - 1) => Grown(V) = V
      BY <3>3, <3>5 DEF RestsMet
    <3>7. W \subseteq V /\ (Cardinality(Narrow) <= Cardinality(W) + i => Grown(V) = V)
      BY <3>2, <3>4, <3>6
    <3> QED BY <3>6, <3>7 DEF RestsMet
  <2> QED BY <2>2, <2>3
<1>8. Most \in I
  <2> HIDE DEF I
  <2> QED BY <1>1, <1>6, <1>7, Reached
<1>9. Ends \in A
  BY NarrowComplete DEF RestsComplete
<1>10. Cardinality(Narrow) <= Cardinality(Ends) + Most
  <2>1. Cardinality(Ends) \in Nat
    BY <1>5, <1>9
  <2> QED BY <2>1, <1>1, <1>3
<1>11. RestsMet(g, Most, Ends)
  BY <1>8, <1>9
<1>12. PICK V : V = g[Most][Ends]
  OBVIOUS
<1>13. Ends \subseteq V /\ V \subseteq Narrow /\ Grown(V) = V
  BY <1>10, <1>11, <1>12 DEF RestsMet
<1> QED BY <1>2, <1>12, <1>13

(* So the rests are just what remains.                                      *)
LEMMA RestsAreAll ==
    ASSUME Ruled, Len(tokens) \in Nat
    PROVE  Rests = Remaining /\ RestsComplete(Rests)
<1>1. Ends \subseteq Rests /\ Grown(Rests) = Rests
  BY RestsEnd
<1>2. ASSUME NEW r \in Rule, NEW d \in Nat, NEW i \in Nat, NEW k \in Nat, NEW j \in Nat,
             <<r, d, k, j>> \in Rests, d # 0, i <= k, Shows(Rests, rules[r].right[d], i, k)
      PROVE  <<r, d - 1, i, j>> \in Rests
  <2>1. PICK w : w = <<r, d, k, j>>
    OBVIOUS
  <2>2. w[1] = r /\ w[2] = d /\ w[3] = k /\ w[4] = j /\ i \in 0..k
    BY <1>2, <2>1
  <2>3. w \in {v \in Rests : v[2] # 0}
    BY <1>2, <2>1, <2>2
  <2>4. i \in {m \in 0..w[3] : Shows(Rests, rules[w[1]].right[w[2]], m, w[3])}
    BY <1>2, <2>2
  <2>5. <<w[1], w[2] - 1, i, w[4]>> \in Grown(Rests)
    BY <2>3, <2>4 DEF Grown
  <2> QED BY <1>1, <2>2, <2>5
<1>3. RestsComplete(Rests)
  BY <1>1, <1>2 DEF RestsComplete
<1>4. Remaining \subseteq Rests
  BY <1>3, OfEveryRest
<1> QED BY <1>3, <1>4, RestsRemain

(* Rule r has begun: its first d symbols stand on the first h states, and   *)
(* its left side is awaited there, up to token j.                           *)
Begun(st, C, r, d, h, j) ==
    /\ <<rules[r].left, h, j>> \in C
    /\ h + d \in 1..Len(st) /\ <<r, d>> \in ItemsOf(st[h + d])

(* <<X, h, k>>: the tokens can be read to their end, when X comes to stand  *)
(* on the first h states and is shown up to token k.  It is the next symbol *)
(* of a rule that has begun.                                                *)
WaitsComplete(st, C) ==
    /\ <<"START'", 1, Len(tokens) - 1>> \in C
    /\ \A r \in Rule : \A d, h, j, k \in Nat :
           Begun(st, C, r, d, h, j) /\ d < Len(rules[r].right) /\ <<r, d + 1, k, j>> \in Remaining
           => <<rules[r].right[d + 1], h + d, k>> \in C

AnyWait == Name \X Nat \X Nat
Awaited(st) == {x \in AnyWait : \A C : WaitsComplete(st, C) => x \in C}

LEMMA AwaitedComplete ==
    ASSUME Ruled, Len(tokens) - 1 \in Nat, NEW st
    PROVE  WaitsComplete(st, Awaited(st))
<1>1. <<"START'", 1, Len(tokens) - 1>> \in Awaited(st)
  BY DEF Awaited, AnyWait, Name, WaitsComplete
<1>2. ASSUME NEW r \in Rule, NEW d \in Nat, NEW h \in Nat, NEW j \in Nat, NEW k \in Nat,
             Begun(st, Awaited(st), r, d, h, j), d < Len(rules[r].right),
             <<r, d + 1, k, j>> \in Remaining
      PROVE  <<rules[r].right[d + 1], h + d, k>> \in Awaited(st)
  <2>1. d + 1 \in 1..Len(rules[r].right)
    BY <1>2, RuledRule DEF Rule
  <2>2. rules[r].right[d + 1] \in Name
    BY <2>1, RuledRule DEF Rule
  <2>3. ASSUME NEW C, WaitsComplete(st, C) PROVE <<rules[r].right[d + 1], h + d, k>> \in C
    <3>1. Begun(st, C, r, d, h, j)
      BY <1>2, <2>3 DEF Begun, Awaited
    <3> QED BY <3>1, <1>2, <2>3 DEF WaitsComplete
  <2> QED BY <2>2, <2>3 DEF Awaited, AnyWait
<1> QED BY <1>1, <1>2 DEF WaitsComplete

(* To show something of everything that is awaited.                         *)
LEMMA OfEveryWait ==
    ASSUME NEW st, NEW C, WaitsComplete(st, C)
    PROVE  Awaited(st) \subseteq C
BY DEF Awaited

(* What is awaited on the first states of a stack depends on them only.     *)
LEMMA AwaitedBelow ==
    ASSUME Ruled, Len(tokens) - 1 \in Nat, NEW st, NEW sx, NEW m \in Nat,
           Len(st) \in Nat, Len(sx) \in Nat, m <= Len(st), m <= Len(sx), \A k \in 1..m : sx[k] = st[k],
           NEW X, NEW h \in Nat, NEW k, h <= m, <<X, h, k>> \in Awaited(st)
    PROVE  <<X, h, k>> \in Awaited(sx)
<1> DEFINE C == {x \in AnyWait : x[2] <= m => x \in Awaited(sx)}
<1>1. <<"START'", 1, Len(tokens) - 1>> \in C
  BY AwaitedComplete DEF WaitsComplete, AnyWait, Name
<1>2. ASSUME NEW r \in Rule, NEW d \in Nat, NEW g \in Nat, NEW j \in Nat, NEW i \in Nat,
             Begun(st, C, r, d, g, j), d < Len(rules[r].right), <<r, d + 1, i, j>> \in Remaining
      PROVE  <<rules[r].right[d + 1], g + d, i>> \in C
  <2>1. Len(rules[r].right) \in Nat /\ \A n \in 1..Len(rules[r].right) : rules[r].right[n] \in Name
    <3>1. r \in 1..Len(rules)
      BY DEF Rule
    <3> QED BY <3>1, RuledRule
  <2>2. rules[r].right[d + 1] \in Name
    <3>1. d + 1 \in 1..Len(rules[r].right)
      BY <1>2, <2>1
    <3> QED BY ONLY <2>1, <3>1
  <2>3. <<rules[r].right[d + 1], g + d, i>> \in AnyWait
    BY <2>2 DEF AnyWait
  <2>4. ASSUME g + d <= m PROVE <<rules[r].right[d + 1], g + d, i>> \in Awaited(sx)
    <3>1. <<rules[r].left, g, j>> \in Awaited(sx)
      BY <1>2, <2>4 DEF Begun
    <3>2. g + d \in 1..m
      BY <1>2, <2>4 DEF Begun
    <3>3. g + d \in 1..Len(sx) /\ sx[g + d] = st[g + d]
      BY <3>2
    <3>4. Begun(sx, Awaited(sx), r, d, g, j)
      BY <3>1, <3>3, <1>2 DEF Begun
    <3> QED BY <3>4, <1>2, AwaitedComplete DEF WaitsComplete
  <2> QED BY <2>3, <2>4
<1>3. WaitsComplete(st, C)
  <2> HIDE DEF C
  <2> QED BY <1>1, <1>2 DEF WaitsComplete
<1>4. <<X, h, k>> \in C
  <2> HIDE DEF C
  <2> QED BY <1>3, OfEveryWait
<1> QED BY <1>4

(* All but the start are awaited by a rule that has begun.                  *)
Awaits(st, r, d, h, j, X, k) ==
    /\ Begun(st, Awaited(st), r, d, h, j) /\ d < Len(rules[r].right)
    /\ <<r, d + 1, k, j>> \in Remaining /\ X = rules[r].right[d + 1]

LEMMA AwaitedBy ==
    ASSUME Ruled, Len(tokens) - 1 \in Nat, NEW st, NEW X, X # "START'", NEW H, NEW k,
           <<X, H, k>> \in Awaited(st)
    PROVE  \E r \in Rule : \E d, h, j \in Nat : H = h + d /\ Awaits(st, r, d, h, j, X, k)
<1> DEFINE C == {x \in Awaited(st) :
                     x[1] # "START'" =>
                         \E r \in Rule : \E d, h, j \in Nat :
                             x[2] = h + d /\ Awaits(st, r, d, h, j, x[1], x[3])}
<1>1. <<"START'", 1, Len(tokens) - 1>> \in C
  BY AwaitedComplete DEF WaitsComplete
<1>2. ASSUME NEW r \in Rule, NEW d \in Nat, NEW g \in Nat, NEW j \in Nat, NEW i \in Nat,
             Begun(st, C, r, d, g, j), d < Len(rules[r].right), <<r, d + 1, i, j>> \in Remaining
      PROVE  <<rules[r].right[d + 1], g + d, i>> \in C
  <2>1. Begun(st, Awaited(st), r, d, g, j)
    BY <1>2 DEF Begun
  <2>2. <<rules[r].right[d + 1], g + d, i>> \in Awaited(st)
    BY <1>2, <2>1, AwaitedComplete DEF WaitsComplete
  <2>3. Awaits(st, r, d, g, j, rules[r].right[d + 1], i)
    BY <1>2, <2>1 DEF Awaits
  <2> QED BY <2>2, <2>3
<1>3. WaitsComplete(st, C)
  <2> HIDE DEF C
  <2> QED BY <1>1, <1>2 DEF WaitsComplete
<1>4. <<X, H, k>> \in C
  <2> HIDE DEF C
  <2> QED BY <1>3, OfEveryWait
<1> QED BY <1>4

(* What token i + 1 stands for.                                             *)
Sign(i) == associationArray(tokens[i + 1].type)

Readable ==
    /\ Ruled /\ Started /\ Len(tokens) - 1 \in Nat
    /\ Terminal \cap Nonterminal = {} /\ \A type : associationArray(type) \in Terminal

(* What is left of a rule begins with the next token; when nothing is left  *)
(* it ends where it begins.                                                 *)
Fits(r, d, i, j) ==
    LET right == rules[r].right
    IN  /\ d <= Len(right)
        /\ d = Len(right) => i = j
        /\ d < Len(right) => i < Len(tokens) /\ Sign(i) \in FirstTerminals(right[d + 1])

LEMMA RestBegins ==
    ASSUME Readable, NEW r \in Rule, NEW d, NEW i, NEW j, <<r, d, i, j>> \in Remaining
    PROVE  d \in Nat /\ i \in Nat /\ j \in Nat /\ Fits(r, d, i, j)
<1> DEFINE C == {x \in AnyRest : Fits(x[1], x[2], x[3], x[4])}
<1>1. ASSUME NEW x \in Ends PROVE x \in C
  <2>1. PICK q \in 1..Len(rules), k \in 0..Len(tokens) : x = <<q, Len(rules[q].right), k, k>>
    BY <1>1, EndsAre
  <2>2. Len(tokens) \in Nat /\ Len(rules[q].right) \in Nat
    BY RuledRule DEF Readable
  <2>3. x \in AnyRest
    BY <2>1, <2>2 DEF AnyRest
  <2>4. Fits(q, Len(rules[q].right), k, k)
    BY <2>2 DEF Fits
  <2> QED BY <2>1, <2>3, <2>4
<1>2. ASSUME NEW q \in Rule, NEW e \in Nat, NEW g \in Nat, NEW k \in Nat, NEW l \in Nat,
             <<q, e, k, l>> \in C, e # 0, g <= k, Shows(C, rules[q].right[e], g, k)
      PROVE  <<q, e - 1, g, l>> \in C
  <2> DEFINE X == rules[q].right[e]
  <2>1. Fits(q, e, k, l) /\ Len(rules[q].right) \in Nat /\ Len(tokens) \in Nat
    BY <1>2, RuledRule DEF Readable, Rule
  <2>2. e - 1 < Len(rules[q].right) /\ e - 1 + 1 = e
    BY <2>1 DEF Fits
  <2>5. g < Len(tokens) /\ Sign(g) \in FirstTerminals(X)
    <3>1. CASE k = g + 1 /\ k <= Len(tokens) /\ X = associationArray(tokens[k].type)
      <4>1. X = Sign(g) /\ X \notin Nonterminal /\ g < Len(tokens)
        BY <3>1, <2>1 DEF Sign, Readable
      <4>2. FirstTerminals(X) = {X}
        BY <4>1, FirstTerminalsOf DEF Readable
      <4> QED BY <4>1, <4>2
    <3>2. CASE \E p \in RulesOf(X) : <<p, 0, g, k>> \in C
      <4>1. PICK p \in RulesOf(X) : <<p, 0, g, k>> \in C
        BY <3>2
      <4>2. /\ p \in 1..Len(rules) /\ rules[p].left = X /\ Len(rules[p].right) \in Nat \ {0}
            /\ X \in Nonterminal
        BY RuledRule DEF RulesOf, Readable
      <4>3. Fits(p, 0, g, k)
        BY <4>1
      <4>4. g < Len(tokens) /\ Sign(g) \in FirstTerminals(rules[p].right[1])
        BY <4>2, <4>3 DEF Fits
      <4>5. FirstTerminals(X) = UNION {FirstTerminals(rules[m].right[1]) : m \in RulesOf(X)}
        BY <4>2, FirstTerminalsOf DEF Readable
      <4> QED BY <4>4, <4>5
    <3> QED BY <3>1, <3>2, <1>2 DEF Shows
  <2>6. Fits(q, e - 1, g, l)
    BY <2>1, <2>2, <2>5 DEF Fits
  <2>7. <<q, e - 1, g, l>> \in AnyRest
    BY <1>2 DEF AnyRest, Rule
  <2> QED BY <2>6, <2>7
<1>3. RestsComplete(C)
  <2> HIDE DEF C
  <2> QED BY <1>1, <1>2 DEF RestsComplete
<1>4. <<r, d, i, j>> \in C
  <2> HIDE DEF C
  <2> QED BY <1>3, OfEveryRest
<1> QED BY <1>4 DEF AnyRest

(* Behind a nonterminal that is awaited comes what can follow it.           *)
LEMMA AwaitedFollows ==
    ASSUME Readable, Sign(Len(tokens) - 1) = "$", NEW st,
           NEW X \in Nonterminal, NEW h, NEW k, <<X, h, k>> \in Awaited(st)
    PROVE  Behind(X, Sign(k))
<1> DEFINE C == {x \in AnyWait : x[1] \in Nonterminal => Behind(x[1], Sign(x[3]))}
<1>1. <<"START'", 1, Len(tokens) - 1>> \in C
  BY BehindGrows DEF Readable, AnyWait, Name
<1>2. ASSUME NEW r \in Rule, NEW d \in Nat, NEW g \in Nat, NEW j \in Nat, NEW i \in Nat,
             Begun(st, C, r, d, g, j), d < Len(rules[r].right), <<r, d + 1, i, j>> \in Remaining
      PROVE  <<rules[r].right[d + 1], g + d, i>> \in C
  <2> DEFINE right == rules[r].right
  <2>1. r \in 1..Len(rules) /\ Len(right) \in Nat /\ d + 1 \in 1..Len(right)
        /\ right[d + 1] \in Name /\ rules[r].left \in Nonterminal
    <3>1. r \in 1..Len(rules) /\ Ruled
      BY DEF Readable, Rule
    <3>2. /\ Len(right) \in Nat /\ rules[r].left \in Nonterminal
          /\ \A m \in 1..Len(right) : right[m] \in Name
      BY ONLY <3>1, RuledRule
    <3>3. d + 1 \in 1..Len(right)
      BY <1>2, <3>2
    <3> QED BY ONLY <3>1, <3>2, <3>3
  <2>2. Fits(r, d + 1, i, j)
    BY <1>2, RestBegins
  <2>3. Behind(right[d + 1], Sign(i))
    <3>1. CASE d + 1 = Len(right)
      <4>1. i = j /\ right[d + 1] = LastOf(r)
        BY <2>2, <3>1 DEF Fits, LastOf
      <4>2. Behind(rules[r].left, Sign(j))
        BY <1>2, <2>1 DEF Begun
      <4> QED BY <4>1, <4>2, <2>1, BehindGrows DEF Readable
    <3>2. CASE d + 1 # Len(right)
      <4>1. d + 1 \in 1..Len(right) - 1 /\ Sign(i) \in FirstTerminals(right[d + 1 + 1])
        BY <2>1, <2>2, <3>2 DEF Fits
      <4> HIDE DEF right
      <4>2. \A m \in 1..Len(right) - 1 : \A t \in FirstTerminals(right[m + 1]) : Behind(right[m], t)
        BY <2>1, BehindGrows DEF Readable, right
      <4> QED BY <4>1, <4>2
    <3> QED BY <3>1, <3>2
  <2>4. <<right[d + 1], g + d, i>> \in AnyWait
    BY <2>1 DEF AnyWait
  <2> QED BY <2>3, <2>4
<1>3. WaitsComplete(st, C)
  <2> HIDE DEF C
  <2> QED BY <1>1, <1>2 DEF WaitsComplete
<1>4. <<X, h, k>> \in C
  <2> HIDE DEF C
  <2> QED BY <1>3, OfEveryWait
<1> QED BY <1>4

(* The next token is awaited by a rule in the state on top, when a rule     *)
(* there has something left: by that rule or by one that is open below it.  *)
TokenAwaited(st, i) ==
    \E q \in Rule : \E e, g, l \in Nat : g + e = Len(st) /\ Awaits(st, q, e, g, l, Sign(i), i + 1)

LEMMA NextAwaited ==
    ASSUME Readable, NEW st, Len(st) \in Nat \ {0}, SetClosed(ItemsOf(Top(st))),
           NEW r \in Rule, NEW d \in Nat, NEW h \in Nat, NEW i \in Nat, NEW j \in Nat,
           Begun(st, Awaited(st), r, d, h, j), h + d = Len(st), d < Len(rules[r].right),
           <<r, d, i, j>> \in Remaining
    PROVE  TokenAwaited(st, i)
<1> DEFINE P(q, e, k, l) ==
               e < Len(rules[q].right) =>
                   \A g \in Nat : Begun(st, Awaited(st), q, e, g, l) /\ g + e = Len(st)
                                  => TokenAwaited(st, k)
           C == {x \in Remaining : P(x[1], x[2], x[3], x[4])}
<1>0. Ruled /\ Len(tokens) \in Nat
  BY DEF Readable
<1>1. ASSUME NEW x \in Ends PROVE x \in C
  <2>1. PICK q \in 1..Len(rules), k \in 0..Len(tokens) : x = <<q, Len(rules[q].right), k, k>>
    BY <1>1, EndsAre
  <2>2. x \in Remaining
    BY <1>0, <1>1, RemainingComplete DEF RestsComplete
  <2>3. P(q, Len(rules[q].right), k, k)
    <3>1. Len(rules[q].right) \in Nat
      BY <1>0, RuledRule
    <3>2. ~(Len(rules[q].right) < Len(rules[q].right))
      BY ONLY <3>1
    <3> QED BY <3>2
  <2> HIDE DEF P
  <2> QED BY <2>1, <2>2, <2>3
<1>2. ASSUME NEW q \in Rule, NEW e \in Nat, NEW g \in Nat, NEW k \in Nat, NEW l \in Nat,
             <<q, e, k, l>> \in C, e # 0, g <= k, Shows(C, rules[q].right[e], g, k)
      PROVE  <<q, e - 1, g, l>> \in C
  <2> DEFINE X == rules[q].right[e]
  <2>1. <<q, e, k, l>> \in Remaining /\ C \subseteq Remaining
    BY <1>2
  <2>2. <<q, e - 1, g, l>> \in Remaining
    <3> HIDE DEF C
    <3>1. Shows(Remaining, X, g, k)
      BY <1>2, <2>1, ShowsMore
    <3> QED BY <1>0, <1>2, <2>1, <3>1, RemainingComplete DEF RestsComplete
  <2>3. P(q, e - 1, g, l)
    <3> SUFFICES ASSUME e - 1 < Len(rules[q].right), NEW b \in Nat,
                        Begun(st, Awaited(st), q, e - 1, b, l), b + (e - 1) = Len(st)
                 PROVE  TokenAwaited(st, g)
      OBVIOUS
    <3>0. Len(rules[q].right) \in Nat
      BY <1>0, RuledRule DEF Rule
    <3>1. e - 1 \in Nat /\ e - 1 + 1 = e
      BY <1>2
    <3>2. Awaits(st, q, e - 1, b, l, X, k)
      BY <2>1, <3>1 DEF Awaits
    <3>3. CASE k = g + 1 /\ k <= Len(tokens) /\ X = associationArray(tokens[k].type)
      <4>1. X = Sign(g) /\ k = g + 1
        BY <3>3 DEF Sign
      <4>2. Awaits(st, q, e - 1, b, l, Sign(g), g + 1)
        BY <4>1, <3>2
      <4> QED BY <4>2, <3>1 DEF TokenAwaited
    <3>4. CASE \E p \in RulesOf(X) : <<p, 0, g, k>> \in C
      <4>1. PICK p \in RulesOf(X) : <<p, 0, g, k>> \in C
        BY <3>4
      <4>2. p \in Rule /\ rules[p].left = X /\ 0 < Len(rules[p].right)
        <5>1. p \in 1..Len(rules) /\ rules[p].left = X
          BY DEF RulesOf
        <5>2. Len(rules[p].right) \in Nat \ {0}
          BY <5>1, <1>0, RuledRule
        <5>3. \A m \in Nat \ {0} : 0 < m
          OBVIOUS
        <5>4. 0 < Len(rules[p].right)
          BY <5>2, <5>3
        <5>5. p \in Rule
          BY <5>1 DEF Rule
        <5> HIDE DEF X
        <5> QED BY <5>1, <5>4, <5>5
      <4>3. <<X, Len(st), k>> \in Awaited(st)
        <5>1. WaitsComplete(st, Awaited(st))
          BY AwaitedComplete DEF Readable
        <5>2. <<rules[q].right[e - 1 + 1], b + (e - 1), k>> \in Awaited(st)
          BY <5>1, <3>1, <3>2 DEF WaitsComplete, Awaits
        <5> QED BY <5>2, <3>1
      <4>4. <<p, 0>> \in ItemsOf(Top(st))
        <5>1. <<q, e - 1>> \in ItemsOf(Top(st))
          BY DEF Begun, Top
        <5>2. ~at_end_of_content(<<q, e - 1>>) /\ get_next_symbol(<<q, e - 1>>) = X
          <6>1. PICK x : x = <<q, e - 1>>
            OBVIOUS
          <6>2. x[1] = q /\ x[2] = e - 1
            BY <6>1
          <6>3. ~at_end_of_content(x)
            <7>1. \A m, n \in Nat : m < n => m # n
              OBVIOUS
            <7> HIDE DEF X, P, C
            <7>2. e - 1 < Len(rules[q].right)
              OBVIOUS
            <7>3. e - 1 # Len(rules[q].right)
              BY ONLY <3>0, <3>1, <7>1, <7>2
            <7> QED BY ONLY <6>2, <7>3 DEF at_end_of_content
          <6>4. get_next_symbol(x) = X
            BY <6>2, <3>1 DEF get_next_symbol
          <6> QED BY <6>1, <6>3, <6>4
        <5>3. <<p, 0>> \in Called(ItemsOf(Top(st)))
          BY <4>1, <5>1, <5>2, CalledOf
        <5> QED BY <5>3 DEF SetClosed
      <4>5. Begun(st, Awaited(st), p, 0, Len(st), k)
        BY <4>2, <4>3, <4>4 DEF Begun, Top
      <4>6. P(p, 0, g, k)
        BY <4>1
      <4> QED BY <4>2, <4>5, <4>6
    <3> QED BY <3>3, <3>4, <1>2 DEF Shows
  <2> HIDE DEF P
  <2> QED BY <2>2, <2>3
<1>3. RestsComplete(C)
  <2> HIDE DEF C
  <2> QED BY <1>1, <1>2 DEF RestsComplete
<1>4. <<r, d, i, j>> \in C
  <2> HIDE DEF C
  <2> QED BY <1>3, OfEveryRest
<1> QED BY <1>4

(* Nothing is missing in the states.                                        *)
LEMMA StatesClosed ==
    ASSUME GInv, stage = "ready", NEW s \in State
    PROVE  SetClosed(ItemsOf(s))
<1>1. /\ Ruled /\ Started /\ \A m \in State : Proper(ItemsOf(m))
  BY Inside
<1>2. CASE s = 1
  <2>1. ItemsOf(1) = ClosureOf({<<Len(rules), 0>>}, Firsts)
    BY DEF GInv, StatesOK
  <2>2. Proper({<<Len(rules), 0>>})
    BY <1>1, RuledRule DEF Proper, Item, Started
  <2> QED BY <2>1, <2>2, <1>1, <1>2, ClosureOfLeast DEF Least
<1>3. CASE s # 1
  <2>1. PICK m \in 1..s - 1 : \E X \in NextOf(ItemsOf(m)) : ItemsOf(s) = StepTo(ItemsOf(m), X)
    BY <1>3 DEF GInv, StatesOK
  <2>2. PICK X : ItemsOf(s) = ClosureOf(MovedIn(ItemsOf(m), X), Firsts)
    BY <2>1 DEF StepTo
  <2>3. m \in State
    BY DEF State
  <2>4. Proper(MovedIn(ItemsOf(m), X))
    BY <2>3, <1>1, MovedProper
  <2> QED BY <2>2, <2>4, <1>1, ClosureOfLeast DEF Least
<1> QED BY <1>2, <1>3

LEMMA OnlyOne ==
    ASSUME NEW S, IsFiniteSet(S), Cardinality(S) <= 1, NEW a \in S, NEW b \in S
    PROVE  a = b
<1> SUFFICES ASSUME a # b PROVE FALSE
  OBVIOUS
<1>1. IsFiniteSet({a}) /\ Cardinality({a}) = 1
  BY FS_Singleton
<1>2. Cardinality({a} \cup {b}) = 2
  BY <1>1, FS_AddElement
<1>3. Cardinality({a} \cup {b}) <= Cardinality(S) /\ Cardinality(S) \in Nat
  <2>1. {a} \cup {b} \subseteq S
    OBVIOUS
  <2> QED BY <2>1, FS_Subset, FS_CardinalityType
<1> QED BY <1>2, <1>3

(* What a state that is made of an item with something left leads to.       *)
LEMMA ItemMoves ==
    ASSUME Ruled, NEW s \in State, Proper(ItemsOf(s)), NEW r, NEW d, <<r, d>> \in ItemsOf(s),
           d < Len(rules[r].right), NEW X, X = rules[r].right[d + 1]
    PROVE  /\ MovedIn(ItemsOf(s), X) # {}
           /\ \A n : Leadsto(s, X, n) => n \in State /\ <<r, d + 1>> \in ItemsOf(n)
<1>1. ~at_end_of_content(<<r, d>>) /\ get_next_symbol(<<r, d>>) = X
  BY DEF at_end_of_content, get_next_symbol
<1>2. <<r, d + 1>> \in MovedIn(ItemsOf(s), X)
  BY <1>1, MovedInOf
<1>3. MovedIn(ItemsOf(s), X) \subseteq StepTo(ItemsOf(s), X)
  BY DEF StepTo, ClosureOf
<1> QED BY <1>2, <1>3 DEF Leadsto

LEMMA ReadyMade ==
    ASSUME GInv, stage = "ready", NEW s \in State, NEW t \in Terminal
    PROVE  /\ Ruled /\ Started /\ Proper(ItemsOf(s))
           /\ CellMade(s, t, actionTable[s][t], Len(states[s]))
           /\ Accepts(s, Len(states[s])) <=> <<Len(rules), 2>> \in ItemsOf(s)
           /\ ReducedBy(s, t, Len(states[s])) = Reduced(s, t)
<1>1. Ruled /\ Started /\ Proper(ItemsOf(s)) /\ states[s] \in Seq(Item)
  BY Inside
<1>2. CellMade(s, t, actionTable[s][t], Len(states[s]))
  BY DEF GInv, TablesOK, Reduces, RowMade
<1>3. /\ Accepts(s, Len(states[s])) <=> <<Len(rules), 2>> \in ItemsOf(s)
      /\ ReducedBy(s, t, Len(states[s])) = Reduced(s, t)
  BY <1>1, CellsCalledFor
<1> QED BY ONLY <1>1, <1>2, <1>3

(* What a cell holds when the state has an item that is at the token.       *)
LEMMA CellShifts ==
    ASSUME GInv, stage = "ready", NEW s \in State, NEW t \in Terminal, NEW r, NEW d,
           <<r, d>> \in ItemsOf(s), d < Len(rules[r].right), t = rules[r].right[d + 1],
           NEW cell, cell = actionTable[s][t]
    PROVE  \/ cell.type = "accept"
           \/ cell.type = "shift" /\ cell.value \in State /\ <<r, d + 1>> \in ItemsOf(cell.value)
<1>1. CellMade(s, t, cell, Len(states[s]))
  BY ReadyMade
<1>2. /\ MovedIn(ItemsOf(s), t) # {}
      /\ \A n : Leadsto(s, t, n) => n \in State /\ <<r, d + 1>> \in ItemsOf(n)
  <2>1. Ruled /\ Proper(ItemsOf(s))
    BY ReadyMade
  <2> QED BY <2>1, ItemMoves
<1> QED BY ONLY <1>1, <1>2 DEF CellMade

LEMMA CellAccepts ==
    ASSUME GInv, stage = "ready", NEW s \in State, <<Len(rules), 2>> \in ItemsOf(s), "$" \in Terminal,
           NEW cell, cell = actionTable[s]["$"]
    PROVE  cell.type = "accept"
BY ReadyMade DEF CellMade

(* Or one that is complete: then no other action asks for the cell.         *)
ReducesBy(cell, r) == cell.type = "reduce" /\ cell.value = r

LEMMA CellReduces ==
    ASSUME GInv, stage = "ready", ConflictFree, NEW s \in State, NEW t \in Terminal, NEW r \in Rule,
           <<r, Len(rules[r].right)>> \in ItemsOf(s), r # Len(rules), t \in follow[rules[r].left],
           NEW cell, cell = actionTable[s][t]
    PROVE  cell.type = "accept" \/ ReducesBy(cell, r)
<1>1. Ruled /\ Started /\ Proper(ItemsOf(s))
  BY ReadyMade
<1>2. CellMade(s, t, cell, Len(states[s])) /\ ReducedBy(s, t, Len(states[s])) = Reduced(s, t)
  BY ReadyMade
<1>3. r \in 1..Len(rules) /\ r < Len(rules) /\ Len(rules) \in Nat
  <2>1. <<r, Len(rules[r].right)>> \in Item
    BY <1>1 DEF Proper
  <2> QED BY <2>1, <1>1, RuledRule DEF Item
<1>4. r \in Reduced(s, t)
  <2>1. at_end_of_content(<<r, Len(rules[r].right)>>)
    BY DEF at_end_of_content
  <2>2. rules[r].left # "START'"
    BY <1>1, <1>3 DEF Started
  <2> QED BY <2>1, <2>2 DEF Reduced
<1>5. IsFiniteSet(Reduced(s, t)) /\ Cardinality(Reduced(s, t)) \in Nat
  <2>1. Reduced(s, t) \subseteq 1..Len(rules)
    BY <1>1 DEF Reduced, Proper, Item
  <2>2. IsFiniteSet(1..Len(rules))
    BY <1>3, FS_Interval
  <2>3. IsFiniteSet(Reduced(s, t))
    BY <2>1, <2>2, FS_Subset
  <2> QED BY <2>3, FS_CardinalityType
<1>6. Cardinality(Reduced(s, t)) + (IF Moved(s, t) # {} THEN 1 ELSE 0) <= 1
  BY TerminalSet DEF ConflictFree, State, GInv
<1>7. cell.type # "error"
  BY <1>2, <1>4 DEF CellMade
<1>8. cell.type # "shift"
  <2> SUFFICES ASSUME cell.type = "shift" PROVE FALSE
    OBVIOUS
  <2>1. Moved(s, t) # {}
    BY <1>2, MovedIs DEF CellMade
  <2>2. Cardinality(Reduced(s, t)) = 0
    BY <2>1, <1>5, <1>6
  <2> QED BY <2>2, <1>4, <1>5, FS_EmptySet
<1>9. cell.type = "reduce" => cell.value = r
  <2>1. Cardinality(Reduced(s, t)) <= 1
    BY <1>5, <1>6
  <2>2. cell.type = "reduce" => cell.value \in Reduced(s, t)
    BY <1>2 DEF CellMade
  <2> QED BY <2>1, <2>2, <1>4, <1>5, OnlyOne
<1> QED BY <1>2, <1>7, <1>8, <1>9 DEF CellMade, Cell, ReducesBy

LEMMA ReadyGotos ==
    ASSUME GInv, stage = "ready", NEW s \in State, NEW r, NEW d, <<r, d>> \in ItemsOf(s),
           d < Len(rules[r].right), NEW A \in nonterminal_list, A = rules[r].right[d + 1],
           NEW n, n = gotoTable[s][A]
    PROVE  n # Missing /\ n \in State /\ <<r, d + 1>> \in ItemsOf(n)
<1>1. /\ Ruled /\ Started /\ Proper(ItemsOf(s))
  BY Inside
<1>2. GotosMade(s, gotoTable[s])
  BY DEF GInv, TablesOK
<1>3. MovedIn(ItemsOf(s), A) # {}
  BY <1>1, ItemMoves
<1>4. Leadsto(s, A, n)
  BY <1>2, <1>3 DEF GotosMade
<1>5. n \in State /\ <<r, d + 1>> \in ItemsOf(n)
  BY <1>1, <1>4, ItemMoves
<1> QED BY <1>5 DEF State, Missing

LEMMA LoopReads ==
    ASSUME Loops
    PROVE  /\ Readable /\ GInv /\ stage = "ready"
           /\ Sign(Len(tokens) - 1) = "$" /\ Sign(taken) = associationArray(queue_peek)
           /\ stack \in Seq(State) /\ Len(stack) \in Nat \ {0} /\ Top(stack) \in State
           /\ Sign(taken) \in Terminal /\ taken \in Nat
           /\ \A s \in State : SetClosed(ItemsOf(s))
           /\ action.type # "goto" => action = actionTable[Top(stack)][Sign(taken)]
<1>1. /\ GInv /\ stage = "ready" /\ TablesConsistent /\ Ruled /\ Started
      /\ "$" \in Terminal
  BY LoopsOn, Ready DEF Loops, FInv
<1>2. Terminal \cap Nonterminal = {}
  <2>1. Terminal = TermsOf(Len(rules))
    BY <1>1, TerminalSet DEF GInv, TerminalsOK, Through
  <2> QED BY <2>1 DEF TermsOf
<1>3. \A type : associationArray(type) \in Terminal
  <2>1. terminals[1] \in Terminal
    <3>1. Len(terminals) \in Nat \ {0}
      BY <1>1 DEF TablesConsistent
    <3>2. 1 \in 1..Len(terminals)
      BY <3>1
    <3> QED BY <3>2 DEF Terminal
  <2> QED BY <2>1 DEF associationArray
<1>4. Len(tokens) - 2 \in Nat /\ Len(tokens) - 1 \in Nat /\ Len(tokens) \in Nat
  BY LoopsOn
<1>5. Sign(Len(tokens) - 1) = "$"
  <2>1. Len(tokens) \in 1..Len(tokens) /\ Len(tokens) - 1 + 1 = Len(tokens)
    BY <1>4
  <2>2. tokens[Len(tokens)].type = "$"
    BY <2>1, TokensEnd
  <2> QED BY <2>1, <2>2, <1>1 DEF Sign, associationArray
<1>6. Sign(taken) = associationArray(queue_peek)
  BY DEF Sign, queue_peek
<1>7. /\ stack \in Seq(State) /\ Len(stack) \in Nat \ {0} /\ Top(stack) \in State /\ taken \in Nat
      /\ action.type # "goto" => action = actionTable[Top(stack)][Sign(taken)]
  BY <1>6, LoopsOn
<1>8. Readable
  BY <1>1, <1>2, <1>3, <1>4 DEF Readable
<1> QED BY <1>1, <1>3, <1>5, <1>6, <1>7, <1>8, StatesClosed DEF Sign

(* The start is awaited at the end only.                                    *)
LEMMA StartAwaited ==
    ASSUME Readable, NEW st, NEW h, NEW k, <<"START'", h, k>> \in Awaited(st)
    PROVE  k = Len(tokens) - 1
<1> DEFINE C == {x \in AnyWait : x[1] = "START'" => x[3] = Len(tokens) - 1}
<1>1. <<"START'", 1, Len(tokens) - 1>> \in C
  BY DEF Readable, AnyWait, Name
<1>2. ASSUME NEW r \in Rule, NEW d \in Nat, NEW g \in Nat, NEW j \in Nat, NEW i \in Nat,
             d < Len(rules[r].right)
      PROVE  <<rules[r].right[d + 1], g + d, i>> \in C
  <2>1. r \in 1..Len(rules) /\ d + 1 \in 1..Len(rules[r].right) /\ rules[r].right[d + 1] \in Name
    BY <1>2, RuledRule DEF Readable, Rule
  <2>2. rules[r].right[d + 1] # "START'"
    <3>1. CASE r = Len(rules)
      <4>1. rules[r].right = StartRule.right
        BY <3>1 DEF Readable, Started
      <4>2. d + 1 \in {1, 2}
        <5>1. Len(rules[r].right) = 2
          BY <4>1, StartRuleIs
        <5>2. d + 1 \in 1..2
          BY ONLY <2>1, <5>1
        <5> QED BY ONLY <5>2
      <4>3. StartRule.right[1] # "START'" /\ StartRule.right[2] # "START'"
        BY StartRuleIs
      <4> QED BY ONLY <4>2, <4>1, <4>3
    <3>2. CASE r # Len(rules)
      <4>1. r \in 1..Len(rules) - 1
        BY <2>1, <3>2 DEF Readable, Started
      <4> QED BY <4>1, <2>1 DEF Readable, Started
    <3> QED BY <3>1, <3>2
  <2> QED BY <2>1, <2>2 DEF AnyWait
<1>3. WaitsComplete(st, C)
  <2> HIDE DEF C
  <2> QED BY <1>1, <1>2 DEF WaitsComplete
<1>4. <<"START'", h, k>> \in C
  <2> HIDE DEF C
  <2> QED BY <1>3, OfEveryWait
<1> QED BY <1>4

(* The tokens behind the first i can be read with the states of st: a rule  *)
(* has begun there, and what is left of it is next.                         *)
Reads(st, i) ==
    \E r \in Rule : \E d, h, j \in Nat :
        Begun(st, Awaited(st), r, d, h, j) /\ h + d = Len(st) /\ <<r, d, i, j>> \in Remaining

LEMMA PushReads ==
    ASSUME Readable, NEW st \in Seq(State), Len(st) \in Nat \ {0}, NEW v \in State,
           NEW r \in Rule, NEW d \in Nat, NEW h \in Nat, NEW j \in Nat, NEW k,
           Begun(st, Awaited(st), r, d, h, j), h + d = Len(st),
           <<r, d + 1>> \in ItemsOf(v), <<r, d + 1, k, j>> \in Remaining
    PROVE  Reads(Append(st, v), k)
<1> DEFINE sx == Append(st, v)
<1>1. /\ Len(sx) = Len(st) + 1 /\ sx[Len(st) + 1] = v
      /\ \A m \in 1..Len(st) : sx[m] = st[m]
  BY AppendSequence
<1> HIDE DEF sx
<1>2. <<rules[r].left, h, j>> \in Awaited(sx)
  <2>1. <<rules[r].left, h, j>> \in Awaited(st) /\ h <= Len(st)
    BY DEF Begun
  <2>2. Ruled /\ Len(tokens) - 1 \in Nat
    BY DEF Readable
  <2>3. Len(sx) \in Nat /\ Len(st) <= Len(sx) /\ Len(st) \in Nat /\ Len(st) <= Len(st)
    BY <1>1
  <2>4. \A m \in 1..Len(st) : sx[m] = st[m]
    BY <1>1
  <2> HIDE DEF Awaited
  <2> QED BY <2>1, <2>2, <2>3, <2>4, AwaitedBelow
<1>3. h + (d + 1) = Len(sx) /\ Len(sx) \in 1..Len(sx) /\ d + 1 \in Nat /\ sx[Len(sx)] = v
  BY <1>1
<1>4. Begun(sx, Awaited(sx), r, d + 1, h, j)
  BY <1>2, <1>3 DEF Begun
<1>5. Reads(sx, k)
  BY <1>3, <1>4 DEF Reads
<1> QED BY <1>5 DEF sx

(* The cell of the next token goes on with it.                              *)
LEMMA CellReads ==
    ASSUME Loops, FollowOK, ConflictFree, action.type # "goto", Reads(stack, taken)
    PROVE  \/ action.type = "accept"
           \/ /\ action.type = "shift" /\ action.value \in State
              /\ Reads(Append(stack, action.value), taken + 1)
           \/ /\ action.type = "reduce" /\ action.value \in Rule
              /\ rules[action.value].left # "START'"
              /\ \E h \in Nat : /\ h + Len(rules[action.value].right) = Len(stack)
                                /\ <<rules[action.value].left, h, taken>> \in Awaited(stack)
<1> DEFINE t == Sign(taken)
           s == Top(stack)
<1>1. /\ Readable /\ GInv /\ stage = "ready" /\ s \in State /\ t \in Terminal
      /\ Sign(Len(tokens) - 1) = "$" /\ action = actionTable[s][t]
      /\ stack \in Seq(State) /\ Len(stack) \in Nat \ {0} /\ SetClosed(ItemsOf(s)) /\ taken \in Nat
  BY LoopReads
<1>2. PICK r \in Rule, d \in Nat, h \in Nat, j \in Nat :
          /\ Begun(stack, Awaited(stack), r, d, h, j) /\ h + d = Len(stack)
          /\ <<r, d, taken, j>> \in Remaining
  BY DEF Reads
<1>3. Fits(r, d, taken, j) /\ Len(rules[r].right) \in Nat /\ Ruled /\ Started
  BY <1>1, <1>2, RestBegins, RuledRule DEF Readable, Rule
<1>4. CASE d < Len(rules[r].right)
  <2>1. TokenAwaited(stack, taken)
    BY <1>1, <1>2, <1>4, NextAwaited
  <2>2. PICK q \in Rule, e \in Nat, g \in Nat, l \in Nat :
            g + e = Len(stack) /\ Awaits(stack, q, e, g, l, t, taken + 1)
    BY <2>1 DEF TokenAwaited
  <2>3. /\ Begun(stack, Awaited(stack), q, e, g, l) /\ e < Len(rules[q].right)
        /\ <<q, e + 1, taken + 1, l>> \in Remaining /\ t = rules[q].right[e + 1]
    BY <2>2 DEF Awaits
  <2>4. <<q, e>> \in ItemsOf(s)
    BY <2>2, <2>3 DEF Begun, Top
  <2>5. \/ action.type = "accept"
        \/ action.type = "shift" /\ action.value \in State /\ <<q, e + 1>> \in ItemsOf(action.value)
    <3>1. GInv /\ stage = "ready" /\ s \in State /\ t \in Terminal /\ action = actionTable[s][t]
      BY <1>1
    <3> HIDE DEF t, s
    <3> QED BY <3>1, <2>3, <2>4, CellShifts
  <2> QED BY <2>2, <2>3, <2>5, <1>1, PushReads
<1>5. CASE d = Len(rules[r].right)
  <2>1. taken = j
    BY <1>3, <1>5 DEF Fits
  <2>2. <<r, d>> \in ItemsOf(s) /\ <<rules[r].left, h, taken>> \in Awaited(stack)
    BY <1>2, <2>1 DEF Begun, Top
  <2>3. CASE r = Len(rules)
    <3>1. rules[r].left = "START'" /\ d = 2
      BY <1>3, <1>5, <2>3, StartRuleIs DEF Started
    <3>2. taken = Len(tokens) - 1
      BY <3>1, <2>2, <1>1, StartAwaited
    <3>3. t = "$"
      BY <3>2, <1>1
    <3> HIDE DEF t, s
    <3> QED BY <1>1, <2>2, <2>3, <3>1, <3>3, CellAccepts
  <2>4. CASE r # Len(rules)
    <3>1. r \in 1..Len(rules) - 1 /\ rules[r].left # "START'" /\ rules[r].left \in Nonterminal
          /\ rules[r].left \in nonterminal_list
      <4>1. r \in 1..Len(rules) - 1
        BY <2>4, <1>3 DEF Started, Rule
      <4> QED BY <4>1, <1>3, ListedNonterminals, RuledRule DEF Started, Rule
    <3>2. Behind(rules[r].left, t)
      BY <1>1, <2>2, <3>1, AwaitedFollows
    <3>3. t \in follow[rules[r].left]
      BY <3>1, <3>2, <1>1, <1>3, FollowOfIs DEF FollowOK
    <3>4. action.type = "accept" \/ (action.type = "reduce" /\ action.value = r)
      <4>1. GInv /\ stage = "ready" /\ s \in State /\ t \in Terminal /\ action = actionTable[s][t]
        BY <1>1
      <4> HIDE DEF t, s
      <4>2. <<r, Len(rules[r].right)>> \in ItemsOf(s)
        BY <2>2, <1>5
      <4>3. action.type = "accept" \/ ReducesBy(action, r)
        BY <4>1, <4>2, <2>4, <3>3, CellReduces
      <4> QED BY <4>3 DEF ReducesBy
    <3> QED BY <3>1, <3>4, <2>2, <1>2, <1>5
  <2> QED BY <2>3, <2>4
<1>6. d <= Len(rules[r].right)
  BY <1>3 DEF Fits
<1>7. d < Len(rules[r].right) \/ d = Len(rules[r].right)
  BY <1>3, <1>6
<1> QED BY <1>4, <1>5, <1>7

(* And so does the state behind a nonterminal that is awaited.              *)
LEMMA GotoReads ==
    ASSUME Loops, NEW A \in nonterminal_list, A # "START'", <<A, Len(stack), taken>> \in Awaited(stack),
           NEW n, n = gotoTable[Top(stack)][A]
    PROVE  n # Missing /\ n \in State /\ Reads(Append(stack, n), taken)
<1>1. /\ Readable /\ GInv /\ stage = "ready" /\ Top(stack) \in State
      /\ stack \in Seq(State) /\ Len(stack) \in Nat \ {0}
  BY LoopReads
<1>2. PICK r \in Rule, d \in Nat, h \in Nat, j \in Nat :
          Len(stack) = h + d /\ Awaits(stack, r, d, h, j, A, taken)
  <2>1. Ruled /\ Len(tokens) - 1 \in Nat
    BY <1>1 DEF Readable
  <2> QED BY <2>1, AwaitedBy
<1>3. /\ Begun(stack, Awaited(stack), r, d, h, j) /\ d < Len(rules[r].right)
      /\ <<r, d + 1, taken, j>> \in Remaining /\ A = rules[r].right[d + 1]
  BY <1>2 DEF Awaits
<1>4. <<r, d>> \in ItemsOf(Top(stack))
  BY <1>2, <1>3 DEF Begun, Top
<1>5. n # Missing /\ n \in State /\ <<r, d + 1>> \in ItemsOf(n)
  BY <1>1, <1>3, <1>4, ReadyGotos
<1> QED BY <1>1, <1>2, <1>3, <1>5, PushReads

(* While the parser runs, the grammar and the program stay, and with them   *)
(* what is left of the rules and what is awaited.                           *)
LEMMA ReadSame ==
    ASSUME UNCHANGED <<rules, states, terminals, tokens>>
    PROVE  /\ Remaining' = Remaining
           /\ \A st : Awaited(st)' = Awaited(st)
           /\ \A st, i : Reads(st, i)' <=> Reads(st, i)
<1>1. \A C, X, i, j : Shows(C, X, i, j)' <=> Shows(C, X, i, j)
  BY DEF Shows, RulesOf, associationArray, Terminal
<1>2. Ends' = Ends /\ AnyRest' = AnyRest /\ Rule' = Rule
  BY DEF Ends, AnyRest, Rule
<1>3. ASSUME NEW C PROVE RestsComplete(C)' <=> RestsComplete(C)
  <2> DEFINE In(r, d, i, k, j) ==
                 <<r, d, k, j>> \in C /\ d # 0 /\ i <= k /\ Shows(C, rules[r].right[d], i, k)
                 => <<r, d - 1, i, j>> \in C
  <2>1. \A r, d, i, k, j : In(r, d, i, k, j)' <=> In(r, d, i, k, j)
    <3> SUFFICES ASSUME NEW r, NEW d, NEW i, NEW k, NEW j
                 PROVE  In(r, d, i, k, j)' <=> In(r, d, i, k, j)
      OBVIOUS
    <3>1. PICK X : X = rules[r].right[d]
      OBVIOUS
    <3>2. Shows(C, X, i, k)' <=> Shows(C, X, i, k)
      BY <1>1
    <3>3. rules[r].right[d] = X /\ rules'[r].right[d] = X
      BY <3>1
    <3>4. Shows(C, rules[r].right[d], i, k) <=> Shows(C, X, i, k)
      BY <3>3
    <3>5. Shows(C, rules[r].right[d], i, k)' <=> Shows(C, X, i, k)'
      BY <3>3 DEF Shows
    <3> QED BY <3>2, <3>4, <3>5
  <2>2. RestsComplete(C) <=>
            Ends \subseteq C /\ \A r \in Rule : \A d, i, k, j \in Nat : In(r, d, i, k, j)
    BY DEF RestsComplete
  <2>3. RestsComplete(C)' <=>
            Ends' \subseteq C /\ \A r \in Rule' : \A d, i, k, j \in Nat : In(r, d, i, k, j)'
    BY DEF RestsComplete
  <2> HIDE DEF In
  <2> QED BY <1>2, <2>1, <2>2, <2>3
<1>4. Remaining' = Remaining
  BY <1>2, <1>3 DEF Remaining
<1>5. \A st, C, r, d, h, j : Begun(st, C, r, d, h, j)' <=> Begun(st, C, r, d, h, j)
  BY DEF Begun, ItemsOf
<1>6. ASSUME NEW st, NEW C PROVE WaitsComplete(st, C)' <=> WaitsComplete(st, C)
  <2>1. \A r, d, h, j : Begun(st, C, r, d, h, j)' <=> Begun(st, C, r, d, h, j)
    BY <1>5
  <2>2. rules' = rules /\ tokens' = tokens /\ Rule' = Rule /\ Remaining' = Remaining
    BY <1>2, <1>4
  <2> DEFINE In(r, d, h, j, k) ==
                 Begun(st, C, r, d, h, j) /\ d < Len(rules[r].right) /\ <<r, d + 1, k, j>> \in Remaining
                 => <<rules[r].right[d + 1], h + d, k>> \in C
             First == <<"START'", 1, Len(tokens) - 1>> \in C
  <2>3. \A r, d, h, j, k : In(r, d, h, j, k)' <=> In(r, d, h, j, k)
    BY <2>1, <2>2
  <2>4. First' <=> First
    BY <2>2
  <2>5. WaitsComplete(st, C) <=>
            First /\ \A r \in Rule : \A d, h, j, k \in Nat : In(r, d, h, j, k)
    BY DEF WaitsComplete
  <2>6. WaitsComplete(st, C)' <=>
            First' /\ \A r \in Rule' : \A d, h, j, k \in Nat : In(r, d, h, j, k)'
    BY DEF WaitsComplete
  <2> HIDE DEF In, First
  <2> QED BY <2>2, <2>3, <2>4, <2>5, <2>6
<1>7. \A st : Awaited(st)' = Awaited(st)
  BY <1>6 DEF Awaited
<1>8. ASSUME NEW st, NEW i PROVE Reads(st, i)' <=> Reads(st, i)
  <2>1. \A r, d, h, j : Begun(st, Awaited(st), r, d, h, j)' <=> Begun(st, Awaited(st), r, d, h, j)
    BY <1>7 DEF Begun, ItemsOf
  <2> QED BY <1>2, <1>4, <2>1 DEF Reads
<1> QED BY <1>4, <1>7, <1>8

(* The program can be derived, and the tables are of one mind.              *)
Promised == ConflictFree /\ Shows(Remaining, "PROGRAM", 0, Len(tokens) - 2)

LEMMA PromiseStays ==
    ASSUME UNCHANGED <<rules, states, terminals, tokens, follow>>, Promised'
    PROVE  Promised
<1>1. Remaining' = Remaining
  BY ReadSame
<1>2. ConflictFree' <=> ConflictFree
  BY DEF ConflictFree, Reduced, Moved, Open, ItemsOf, at_end_of_content, get_next_symbol
<1>3. Shows(Remaining, "PROGRAM", 0, Len(tokens) - 2)' =>
          Shows(Remaining, "PROGRAM", 0, Len(tokens) - 2)
  BY <1>1 DEF Shows, RulesOf, associationArray, Terminal
<1> QED BY <1>2, <1>3 DEF Promised

(* The parser is on its way: what stands on the states, and a nonterminal   *)
(* that is to come on them, is what the rest of the tokens is read with.    *)
Going ==
    IF action.type = "goto"
    THEN \E A \in nonterminal_list :
             /\ A # "START'" /\ <<A, Len(stack), taken>> \in Awaited(stack)
             /\ action.value = gotoTable[Top(stack)][A]
    ELSE Reads(stack, taken)

CInv ==
    Promised /\ phase # "start" => /\ ~failed /\ phase # "crashed"
                                   /\ phase = "loop" => Going

(* A program that can be derived can be read from the first state.          *)
LEMMA StartReads ==
    ASSUME AInv, tokens # <<>>, Promised
    PROVE  Reads(<<1>>, 0)
<1> DEFINE n == Len(tokens) - 2
           L == Len(rules)
<1>1. GInv /\ stage = "ready" /\ Ruled /\ Started /\ "$" \in Terminal
  BY Ready DEF AInv, FInv
<1>2. n \in Nat /\ Len(tokens) = n + 2
      /\ \A i \in 1..Len(tokens) : tokens[i].type = "$" <=> i > Len(tokens) - 2
  BY DEF AInv, TokensOK
<1>3. L \in Rule /\ rules[L].right = <<"PROGRAM", "$">> /\ Len(rules[L].right) = 2
      /\ rules[L].right[1] = "PROGRAM" /\ rules[L].right[2] = "$" /\ rules[L].left = "START'"
  BY <1>1, StartRuleIs DEF Started, Rule, StartRule
<1> HIDE DEF L
<1>4. RestsComplete(Remaining)
  BY <1>1, <1>2, RemainingComplete
<1>5. <<L, 2, n + 1, n + 1>> \in Remaining
  <2>1. n + 1 \in 0..Len(tokens)
    BY <1>2
  <2>2. <<L, 2, n + 1, n + 1>> \in Ends
    <3>1. L \in 1..Len(rules) /\ 2 = Len(rules[L].right)
      BY <1>3 DEF Rule
    <3> HIDE DEF n
    <3>2. \A k \in 0..Len(tokens) : <<L, Len(rules[L].right), k, k>> \in Ends
      BY <3>1 DEF Ends
    <3> QED BY <2>1, <3>1, <3>2
  <2> QED BY <2>2, <1>4 DEF RestsComplete
<1>6. Shows(Remaining, "$", n, n + 1)
  <2>1. n + 1 \in 1..Len(tokens) /\ n + 1 > Len(tokens) - 2
    BY <1>2
  <2>2. tokens[n + 1].type = "$"
    BY <2>1, <1>2
  <2>3. associationArray(tokens[n + 1].type) = "$"
    BY <2>2, <1>1 DEF associationArray
  <2> QED BY <2>1, <2>3 DEF Shows
<1>7. <<L, 1, n, n + 1>> \in Remaining
  <2>1. n \in Nat /\ n + 1 \in Nat /\ n <= n + 1 /\ 2 \in Nat /\ 2 # 0 /\ 2 - 1 = 1
    BY <1>2
  <2>2. <<L, 2 - 1, n, n + 1>> \in Remaining
    <3> HIDE DEF n
    <3> QED BY <2>1, <1>3, <1>4, <1>5, <1>6 DEF RestsComplete
  <2> QED BY <2>1, <2>2
<1>8. <<L, 0, 0, n + 1>> \in Remaining
  <2>1. n \in Nat /\ n + 1 \in Nat /\ 0 <= n /\ 1 \in Nat /\ 0 \in Nat /\ 1 # 0 /\ 1 - 1 = 0
    BY <1>2
  <2>2. Shows(Remaining, "PROGRAM", 0, n)
    BY DEF Promised
  <2>3. <<L, 1 - 1, 0, n + 1>> \in Remaining
    <3> HIDE DEF n
    <3> QED BY <2>1, <2>2, <1>3, <1>4, <1>7 DEF RestsComplete
  <2> QED BY <2>1, <2>3
<1>9. Begun(<<1>>, Awaited(<<1>>), L, 0, 1, n + 1)
  <2>1. <<"START'", 1, Len(tokens) - 1>> \in Awaited(<<1>>)
    BY <1>1, <1>2, AwaitedComplete DEF WaitsComplete
  <2>2. <<L, 0>> \in ItemsOf(1)
    <3>1. ItemsOf(1) = ClosureOf({<<Len(rules), 0>>}, Firsts)
      BY <1>1 DEF GInv, StatesOK
    <3> QED BY <3>1 DEF ClosureOf, L
  <2>3. Len(tokens) - 1 = n + 1
    BY <1>2
  <2> QED BY <2>1, <2>2, <2>3, <1>3 DEF Begun
<1>10. n + 1 \in Nat /\ 1 + 0 = Len(<<1>>)
  BY <1>2
<1> HIDE DEF n
<1> QED BY <1>3, <1>8, <1>9, <1>10 DEF Reads

-----------------------------------------------------------------------------
(* The steps of the parser while the program can be derived *)

(* What is said of the stack before a step and of the one behind it.        *)
LEMMA GoingOn ==
    ASSUME UNCHANGED generatorVars, UNCHANGED tokens,
           NEW st, NEW i, NEW a, st = stack', i = taken', a = action',
           IF a.type = "goto"
           THEN \E A \in nonterminal_list :
                    /\ A # "START'" /\ <<A, Len(st), i>> \in Awaited(st)
                    /\ a.value = gotoTable[Top(st)][A]
           ELSE Reads(st, i)
    PROVE  Going'
<1>1. UNCHANGED <<rules, states, terminals, tokens, gotoTable>>
  BY DEF generatorVars, tables
<1>2. Awaited(st)' = Awaited(st) /\ (Reads(st, i)' <=> Reads(st, i))
  BY <1>1, ReadSame
<1>3. \A C, r, d, h, j : Begun(stack, C, r, d, h, j)' <=> Begun(st, C, r, d, h, j)'
  BY DEF Begun, ItemsOf
<1>4. \A C : WaitsComplete(stack, C)' <=> WaitsComplete(st, C)'
  BY <1>3 DEF WaitsComplete
<1>5. Awaited(stack)' = Awaited(st)'
  BY <1>4 DEF Awaited
<1>6. Reads(stack, taken)' <=> Reads(st, i)'
  <2>1. \A r, d, h, j : Begun(stack, Awaited(stack), r, d, h, j)' <=> Begun(st, Awaited(st), r, d, h, j)'
    BY <1>5 DEF Begun, ItemsOf
  <2> QED BY <2>1 DEF Reads
<1>7. nonterminal_list' = nonterminal_list
  BY <1>1 DEF nonterminal_list, isNonterminal
<1>8. CASE a.type = "goto"
  <2>1. PICK A \in nonterminal_list :
            /\ A # "START'" /\ <<A, Len(st), i>> \in Awaited(st)
            /\ a.value = gotoTable[Top(st)][A]
    BY <1>8
  <2>2. <<A, Len(stack'), taken'>> \in Awaited(stack)'
    BY <2>1, <1>2, <1>5
  <2>3. action'.value = gotoTable'[Top(stack)'][A]
    BY <2>1, <1>1 DEF Top
  <2> QED BY <2>1, <2>2, <2>3, <1>7, <1>8 DEF Going
<1>9. CASE a.type # "goto"
  <2>1. Reads(stack, taken)'
    BY <1>2, <1>6, <1>9
  <2> QED BY <2>1, <1>9 DEF Going
<1> QED BY <1>8, <1>9

LEMMA InitGoes ==
    ASSUME AInv, Promised, init_parser_variables, UNCHANGED generatorVars
    PROVE  Going'
<1>1. /\ tokens # <<>> /\ stack' = <<1>> /\ UNCHANGED <<tokens, taken>>
      /\ phase = "start" /\ action' = get_next_action(1, queue_peek)
  BY DEF init_parser_variables
<1>2. taken = 0 /\ GInv /\ stage = "ready"
  BY <1>1 DEF AInv, FInv
<1>3. TablesConsistent /\ Ruled
  BY <1>2, Ready
<1>4. 1 \in State
  BY <1>3 DEF TablesConsistent, State
<1>5. action'.type # "goto"
  BY <1>1, <1>3, <1>4, AskedAction
<1>6. Reads(<<1>>, 0)
  BY <1>1, StartReads
<1>7. PICK st, i, a : st = <<1>> /\ i = 0 /\ a = action'
  OBVIOUS
<1>8. st = stack' /\ i = taken' /\ a.type # "goto" /\ Reads(st, i)
  BY <1>1, <1>2, <1>5, <1>6, <1>7
<1> QED BY <1>1, <1>7, <1>8, GoingOn

LEMMA ShiftGoes ==
    ASSUME Loops, FollowOK, ConflictFree, Going, handle_shift, UNCHANGED generatorVars
    PROVE  Going'
<1>1. /\ action.type = "shift" /\ stack' = Append(stack, action.value) /\ taken' = taken + 1
      /\ action' = get_next_action(action.value, tokens[taken + 2].type) /\ UNCHANGED tokens
  BY DEF handle_shift
<1>2. Reads(stack, taken)
  BY <1>1 DEF Going
<1>3. action.value \in State /\ Reads(Append(stack, action.value), taken + 1)
  BY <1>1, <1>2, CellReads
<1>4. action'.type # "goto"
  BY <1>1, <1>3, AskedAction, LoopsOn
<1>5. PICK st, i, a : st = Append(stack, action.value) /\ i = taken + 1 /\ a = action'
  OBVIOUS
<1>6. st = stack' /\ i = taken' /\ a.type # "goto" /\ Reads(st, i)
  BY <1>1, <1>3, <1>4, <1>5
<1> QED BY <1>1, <1>5, <1>6, GoingOn

LEMMA ReduceGoes ==
    ASSUME Loops, FollowOK, ConflictFree, Going, handle_reduce, UNCHANGED generatorVars
    PROVE  Going'
<1> DEFINE r == action.value
           left == rules[r].left
           n == Len(rules[r].right)
<1>1. /\ action.type = "reduce" /\ stack' = Pop(stack, n) /\ UNCHANGED <<tokens, taken>>
      /\ action' = [type |-> "goto", value |-> gotoTable[Top(stack')][left]]
  BY DEF handle_reduce
<1>2. Reads(stack, taken)
  BY <1>1 DEF Going
<1>3. /\ r \in Rule /\ left # "START'"
      /\ \E h \in Nat : h + n = Len(stack) /\ <<left, h, taken>> \in Awaited(stack)
  BY <1>1, <1>2, CellReads
<1>4. PICK h \in Nat : h + n = Len(stack) /\ <<left, h, taken>> \in Awaited(stack)
  BY <1>3
<1>5. Readable /\ stack \in Seq(State) /\ Ruled /\ Len(tokens) - 1 \in Nat
  BY LoopReads DEF Readable
<1>6. left \in nonterminal_list /\ n \in Nat
  BY <1>3, <1>5, ListedNonterminals, RuledRule DEF Rule
<1> HIDE DEF n
<1>7. PICK st : st = Pop(stack, n)
  OBVIOUS
<1>8. Len(stack) \in Nat /\ n <= Len(stack) /\ Len(stack) - n = h
  BY <1>4, <1>5, <1>6
<1>9. Len(st) = h /\ \A m \in 1..h : st[m] = stack[m]
  BY <1>5, <1>6, <1>7, <1>8, PopSequence
<1>10. <<left, h, taken>> \in Awaited(st)
  <2>1. h <= Len(stack) /\ h <= Len(st) /\ h <= h /\ Len(st) \in Nat
    BY <1>6, <1>8, <1>9
  <2> HIDE DEF left
  <2> QED BY <2>1, <1>4, <1>5, <1>8, <1>9, AwaitedBelow
<1>11. PICK a : a = action'
  OBVIOUS
<1>12. a.type = "goto" /\ a.value = gotoTable[Top(st)][left]
  BY <1>1, <1>7, <1>11
<1>13. PICK i : i = taken
  OBVIOUS
<1>14. <<left, Len(st), i>> \in Awaited(st)
  BY <1>9, <1>10, <1>13
<1>15. st = stack' /\ i = taken'
  BY <1>1, <1>7, <1>13
<1>16. \E A \in nonterminal_list : /\ A # "START'" /\ <<A, Len(st), i>> \in Awaited(st)
                                   /\ a.value = gotoTable[Top(st)][A]
  BY <1>3, <1>6, <1>12, <1>14
<1> QED BY <1>1, <1>11, <1>12, <1>15, <1>16, GoingOn

LEMMA GotoGoes ==
    ASSUME Loops, Going, handle_goto, UNCHANGED generatorVars
    PROVE  Going'
<1>1. /\ action.type = "goto" /\ stack' = Append(stack, action.value)
      /\ action' = get_next_action(action.value, queue_peek) /\ UNCHANGED <<tokens, taken>>
  BY DEF handle_goto
<1>2. action.value \in State /\ Reads(Append(stack, action.value), taken)
  BY <1>1, GotoReads DEF Going
<1>3. action'.type # "goto"
  BY <1>1, <1>2, AskedAction, LoopsOn
<1>4. PICK st, i, a : st = Append(stack, action.value) /\ i = taken /\ a = action'
  OBVIOUS
<1>5. st = stack' /\ i = taken' /\ a.type # "goto" /\ Reads(st, i)
  BY <1>1, <1>2, <1>3, <1>4
<1> QED BY <1>1, <1>4, <1>5, GoingOn

LEMMA NoErrorGoing ==
    ASSUME Loops, FollowOK, ConflictFree, Going
    PROVE  ~handle_error
<1> SUFFICES ASSUME handle_error PROVE FALSE
  OBVIOUS
<1>1. CASE action.type = "error"
  <2>1. Reads(stack, taken)
    BY <1>1 DEF Going
  <2> QED BY <1>1, <2>1, CellReads
<1>2. CASE action.type = "goto" /\ action.value = Missing
  BY <1>2, GotoReads DEF Going
<1> QED BY <1>1, <1>2 DEF handle_error

LEMMA CInvParser ==
    ASSUME AInv, FollowOK, CInv, ParserNext, UNCHANGED generatorVars
    PROVE  CInv'
<1> SUFFICES ASSUME Promised' PROVE (phase # "start" => /\ ~failed /\ phase # "crashed"
                                                        /\ phase = "loop" => Going)'
  BY DEF CInv
<1>1. UNCHANGED <<rules, states, terminals, tokens, follow>>
  BY DEF ParserNext, init_parser_variables, handle_shift, handle_reduce, handle_goto, handle_error,
        handle_accept, try_to_extract_main_root_from_stack, generatorVars, tables
<1>2. Promised /\ ConflictFree
  BY <1>1, PromiseStays DEF Promised
<1>3. CASE init_parser_variables
  <2>1. ~failed /\ failed' = failed /\ phase' = "loop"
    BY <1>3 DEF init_parser_variables, AInv, Outcome
  <2> QED BY <2>1, <1>2, <1>3, InitGoes
<1>4. ASSUME phase = "loop" PROVE Loops /\ Going /\ ~failed
  BY <1>2, <1>4 DEF AInv, Loops, CInv
<1>5. CASE handle_shift \/ handle_reduce \/ handle_goto
  <2>1. phase = "loop" /\ UNCHANGED <<phase, failed>>
    BY <1>5 DEF handle_shift, handle_reduce, handle_goto
  <2>2. Going'
    BY <2>1, <1>2, <1>4, <1>5, ShiftGoes, ReduceGoes, GotoGoes
  <2> QED BY <2>1, <2>2, <1>4
<1>6. CASE handle_error
  <2>1. phase = "loop"
    BY <1>6 DEF handle_error
  <2> QED BY <2>1, <1>2, <1>4, <1>6, NoErrorGoing
<1>7. CASE handle_accept \/ try_to_extract_main_root_from_stack
  <2>1. phase # "start" /\ UNCHANGED failed /\ phase' \in {"stopped", "done"}
    BY <1>7 DEF handle_accept, try_to_extract_main_root_from_stack
  <2>2. ~failed
    BY <2>1, <1>2 DEF CInv
  <2> QED BY <2>1, <2>2
<1> QED BY <1>3, <1>5, <1>6, <1>7 DEF ParserNext

LEMMA CInvNext ==
    ASSUME AInv, FollowOK, CInv, [Next]_vars
    PROVE  CInv'
<1>1. CASE MakeTables
  <2>1. TablesNext /\ UNCHANGED phase
    BY <1>1 DEF MakeTables, parserVars
  <2>2. stage # "ready"
    BY <2>1 DEF TablesNext, add_starting_rule, init_starting_state,
          create_a_new_state_for_single_transition,
          create_transition_states_for_possible_transitions, symbols_init, collect_symbols,
          follow_init, compute_follow, next_round_of_follow, init_tables,
          insert_state_transitions_into_table, begin_reduces, build_reduces, tables_done
  <2> QED BY <2>1, <2>2 DEF AInv, FInv, CInv
<1>2. CASE tokenize
  <2>1. tokens = <<>> /\ UNCHANGED phase
    BY <1>2 DEF tokenize
  <2> QED BY <2>1 DEF AInv, FInv, CInv
<1>3. CASE commit_parser
  BY <1>3, CInvParser DEF commit_parser
<1>4. CASE UNCHANGED vars
  <2>1. UNCHANGED generatorVars /\ UNCHANGED <<tokens, taken, stack, action, phase, failed>>
    BY <1>4 DEF vars, parserVars
  <2>2. UNCHANGED <<rules, states, terminals, tokens, follow>>
    BY <2>1 DEF generatorVars, tables
  <2> SUFFICES ASSUME Promised' PROVE (phase # "start" => /\ ~failed /\ phase # "crashed"
                                                          /\ phase = "loop" => Going)'
    BY DEF CInv
  <2>3. phase # "start" => /\ ~failed /\ phase # "crashed"
                           /\ phase = "loop" => Going
    BY <2>2, PromiseStays DEF CInv
  <2>4. Going => Going'
    <3>1. PICK st, i, a : st = stack /\ i = taken /\ a = action
      OBVIOUS
    <3>2. st = stack' /\ i = taken' /\ a = action'
      BY <3>1, <2>1
    <3>3. ASSUME Going
          PROVE  IF a.type = "goto"
                 THEN \E A \in nonterminal_list :
                          /\ A # "START'" /\ <<A, Len(st), i>> \in Awaited(st)
                          /\ a.value = gotoTable[Top(st)][A]
                 ELSE Reads(st, i)
      BY <3>1, <3>3 DEF Going
    <3> QED BY <2>1, <3>2, <3>3, GoingOn
  <2> QED BY <2>1, <2>3, <2>4
<1> QED BY <1>1, <1>2, <1>3, <1>4 DEF Next

(* With a grammar that has no conflicts, no program that can be derived is  *)
(* reported, and none crashes the parser; and a crash only comes on the     *)
(* first token (Parser.c:73): for every grammar and every program.          *)
THEOREM RefusesWhatIsWrong == Spec => []RefusedIsWrong
<1>1. Init => AInv /\ FollowOK /\ CInv
  <2>1. Init => FollowOK
    BY DEF Init, TablesInit, FollowOK
  <2>2. Init => CInv
    BY DEF Init, ParserInit, CInv
  <2> QED BY <2>1, <2>2, AInvInit
<1>2. AInv /\ FollowOK /\ CInv /\ [Next]_vars => (AInv /\ FollowOK /\ CInv)'
  BY AInvNext, FollowNext, CInvNext DEF AInv, FInv
<1>3. AInv /\ CInv => RefusedIsWrong
  <2> SUFFICES ASSUME AInv, CInv PROVE RefusedIsWrong
    OBVIOUS
  <2>1. CrashOnlyAtStart
    BY DEF AInv, FInv, CrashOnlyAtStart
  <2>2. ASSUME Refused, ConflictFree, Derivable PROVE FALSE
    <3>1. phase # "start" /\ (failed \/ phase = "crashed")
      BY <2>2 DEF Refused
    <3>2. tokens # <<>> /\ stage = "ready" /\ GInv
      BY <3>1 DEF AInv, FInv
    <3>3. Ruled /\ Len(tokens) \in Nat
      BY <3>2, Ready DEF AInv, TokensOK
    <3>4. Shows(Remaining, "PROGRAM", 0, Len(tokens) - 2)
      BY <2>2, <3>3, RestsRemain, ShowsMore DEF Derivable
    <3> QED BY <3>1, <3>4, <2>2 DEF CInv, Promised
  <2> QED BY <2>1, <2>2 DEF RefusedIsWrong
<1> QED BY <1>1, <1>2, <1>3, PTL DEF Spec

(* The least set that holds what is left of each rule.                      *)
LeastRests == RestsComplete(Rests) /\ \A C : RestsComplete(C) => Rests \subseteq C

(* What Derivable asks is just what the grammar derives: the rounds are     *)
(* enough to find every rest, and find no other.  So nothing is derivable   *)
(* or not for want of rounds, for every grammar and every program.          *)
THEOREM RoundsAreEnough == Spec => [](tokens # <<>> => LeastRests)
<1>1. AInv => (tokens # <<>> => LeastRests)
  <2> SUFFICES ASSUME AInv, tokens # <<>> PROVE LeastRests
    OBVIOUS
  <2>1. GInv /\ stage = "ready"
    BY DEF AInv, FInv
  <2>2. Ruled /\ Len(tokens) \in Nat
    BY <2>1, Ready DEF AInv, TokensOK
  <2> QED BY <2>2, RestsAreAll, OfEveryRest DEF LeastRests
<1> QED BY <1>1, AInvInit, AInvNext, PTL DEF Spec

================================================================================
