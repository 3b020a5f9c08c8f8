---------------------------- MODULE Containers_proofs ---------------------------
(***************************************************************************)
(* For every number of nodes, keys, values and sets and every hash          *)
(* function: the nodes of the containers have one owner each, a key can     *)
(* be found in the bucket it is looked for in, sizes are those of the       *)
(* chains, and what the operations do and return is what they would do to   *)
(* sets, a map and sequences.                                               *)
(*                                                                         *)
(* The proofs are about chains: IsChain says that a sequence of nodes is    *)
(* what following next from a pointer finds, and one lemma for each change  *)
(* the code makes to a chain says which sequence it has become.             *)
(***************************************************************************)
EXTENDS Containers, FiniteSetTheorems, SequenceTheorems, NaturalsInduction,
        WellFoundedInduction, TLAPS

(* Numbers, and loops. *)

LEMMA Smallest ==
    ASSUME NEW J, J \subseteq Nat, J # {}
    PROVE  \E j \in J : \A i \in J : j <= i
<1>1. PICK j \in J : \A u \in J : ~ (<<u, j>> \in OpToRel(<, Nat))
  BY NatLessThanWellFounded, WFMin
<1>2. ASSUME NEW i \in J PROVE j <= i
  <2>1. i \in Nat /\ j \in Nat /\ ~ (i < j)
    BY <1>1 DEF OpToRel
  <2> QED BY <2>1
<1> QED BY <1>2

LEMMA Counted ==
    ASSUME NEW n \in Nat, NEW I, 0 \in I, \A k \in 0..n - 1 : k \in I => k + 1 \in I
    PROVE  0..n \subseteq I
<1> DEFINE J == {k \in 0..n : k \notin I}
<1>1. SUFFICES ASSUME J # {} PROVE FALSE
  OBVIOUS
<1>2. PICK j \in J : \A i \in J : j <= i
  <2>1. J \subseteq Nat
    OBVIOUS
  <2> HIDE DEF J
  <2> QED BY <1>1, <2>1, Smallest
<1>3. j \in 0..n /\ j # 0 /\ j \notin I
  OBVIOUS
<1>4. j - 1 \in 0..n - 1 /\ j - 1 \notin J
  BY <1>2, <1>3
<1>5. j - 1 \in I /\ (j - 1) + 1 = j
  BY <1>3, <1>4
<1> QED BY <1>3, <1>4, <1>5

LEMMA Reached ==
    ASSUME NEW n \in Nat, NEW I, 0 \in I, \A k \in 1..n : k - 1 \in I => k \in I
    PROVE  n \in I
<1>1. ASSUME NEW k \in 0..n - 1, k \in I PROVE k + 1 \in I
  <2>1. k + 1 \in 1..n /\ (k + 1) - 1 = k
    OBVIOUS
  <2> QED BY <1>1, <2>1
<1>2. 0..n \subseteq I
  BY <1>1, Counted
<1> QED BY <1>2

(* A loop of n steps, each of which stays in a set.  Named, since facts     *)
(* about sets of functions are not found by the provers.                    *)
StepsOn(S, n, step) == step \in [1..n -> [S -> S]]

Runs(g, S, n, start, step) ==
    /\ g \in [0..n -> S] /\ g[0] = start
    /\ \A k \in 1..n : g[k] = step[k][g[k - 1]]

LEMMA Unrolled ==
    ASSUME NEW S, NEW n \in Nat, NEW start \in S, NEW step, StepsOn(S, n, step)
    PROVE  \E g : Runs(g, S, n, start, step)
<1> DEFINE I == {m \in 0..n : \E g : Runs(g, S, m, start, step)}
<1>1. 0 \in I
  <2> DEFINE g == [k \in 0..0 |-> start]
  <2>1. g \in [0..0 -> S] /\ g[0] = start /\ \A k \in 1..0 : g[k] = step[k][g[k - 1]]
    OBVIOUS
  <2> HIDE DEF g
  <2>2. Runs(g, S, 0, start, step)
    BY <2>1 DEF Runs
  <2> QED BY <2>2
<1>2. ASSUME NEW m \in 0..n - 1, m \in I PROVE m + 1 \in I
  <2>1. PICK g : Runs(g, S, m, start, step)
    BY <1>2
  <2> DEFINE h == [k \in 0..m + 1 |-> IF k = m + 1 THEN step[m + 1][g[m]] ELSE g[k]]
  <2>2. g \in [0..m -> S] /\ g[0] = start /\ \A k \in 1..m : g[k] = step[k][g[k - 1]]
    BY <2>1 DEF Runs
  <2>3. m + 1 \in 1..n /\ step[m + 1] \in [S -> S] /\ g[m] \in S
    BY <2>2 DEF StepsOn
  <2>4. step[m + 1][g[m]] \in S
    BY <2>3
  <2>5. h \in [0..m + 1 -> S] /\ h[0] = start
    BY <2>2, <2>4
  <2>6. ASSUME NEW k \in 1..m + 1 PROVE h[k] = step[k][h[k - 1]]
    <3>1. k - 1 \in 0..m /\ h[k - 1] = g[k - 1]
      OBVIOUS
    <3>2. CASE k = m + 1
      BY <3>1, <3>2
    <3>3. CASE k # m + 1
      BY <3>1, <3>3, <2>2
    <3> QED BY <3>2, <3>3
  <2> HIDE DEF h
  <2>7. Runs(h, S, m + 1, start, step)
    BY <2>5, <2>6 DEF Runs
  <2>8. m + 1 \in 0..n
    BY <1>2
  <2> QED BY <2>7, <2>8
<1>3. n \in I
  <2> HIDE DEF I
  <2>1. 0..n \subseteq I
    BY <1>1, <1>2, Counted
  <2> QED BY <2>1
<1> QED BY <1>3

-----------------------------------------------------------------------------
(* Chains *)

NodeType == [key : Key \cup {NULL}, value : Value \cup {NULL}, next : Pointer, used : BOOLEAN]
HeapType == [Node -> NodeType]

First(s) == IF s = <<>> THEN NULL ELSE s[1]

(* Following next from p finds the nodes s, none of them twice, and then NULL. *)
IsChain(h, p, s) ==
    /\ s \in Seq(Node) /\ p = First(s)
    /\ \A i \in 1..Len(s) : h[s[i]].next = IF i = Len(s) THEN NULL ELSE s[i + 1]
    /\ \A i, j \in 1..Len(s) : s[i] = s[j] => i = j

(* A chain has no more nodes than there are. *)
LEMMA ChainShort ==
    ASSUME NEW h, NEW p, NEW s, IsChain(h, p, s)
    PROVE  Len(s) <= Cardinality(Node) /\ Cardinality(Node) \in Nat
<1>1. Cardinality(Node) \in Nat
  BY MemoryIsFinite, FS_CardinalityType
<1>2. s \in Seq(Node) /\ \A i, j \in 1..Len(s) : s[i] = s[j] => i = j
  BY DEF IsChain
<1>3. s \in Injection(1..Len(s), Node)
  <2>1. s \in [1..Len(s) -> Node] /\ DOMAIN s = 1..Len(s)
    BY <1>2
  <2> QED BY <2>1, <1>2 DEF Injection, IsInjective
<1>4. Cardinality(1..Len(s)) <= Cardinality(Node)
  BY <1>3, MemoryIsFinite, FS_Injection
<1>5. Cardinality(1..Len(s)) = Len(s)
  BY <1>2, FS_Interval
<1> QED BY <1>1, <1>4, <1>5

(* What is behind the first node is a chain, too. *)
LEMMA ChainTail ==
    ASSUME NEW h, NEW p, NEW s, IsChain(h, p, s), s # <<>>
    PROVE  /\ p \in Node /\ p = s[1] /\ s = <<p>> \o Tail(s)
           /\ Len(Tail(s)) = Len(s) - 1
           /\ IsChain(h, h[p].next, Tail(s))
<1> DEFINE t == Tail(s)
<1>1. s \in Seq(Node) /\ p = s[1] /\ Len(s) \in Nat /\ Len(s) >= 1
  BY DEF IsChain, First
<1>2. /\ t \in Seq(Node) /\ Len(t) = Len(s) - 1 /\ s = <<p>> \o t /\ p \in Node
      /\ \A i \in 1..Len(s) - 1 : t[i] = s[i + 1]
  BY <1>1
<1> HIDE DEF t
<1>3. \A i \in 1..Len(s) : h[s[i]].next = IF i = Len(s) THEN NULL ELSE s[i + 1]
  BY DEF IsChain
<1>4. h[p].next = First(t)
  <2>1. 1 \in 1..Len(s)
    BY <1>1
  <2>2. h[p].next = IF 1 = Len(s) THEN NULL ELSE s[1 + 1]
    BY <2>1, <1>1, <1>3
  <2>3. CASE Len(s) = 1
    <3>1. t = <<>>
      BY <2>3, <1>2
    <3> QED BY <2>2, <2>3, <3>1, <1>1 DEF First
  <2>4. CASE Len(s) > 1
    <3>1. t # <<>> /\ 1 \in 1..Len(s) - 1 /\ 1 # Len(s)
      BY <1>1, <1>2, <2>4
    <3>2. t[1] = s[1 + 1]
      BY <3>1, <1>2
    <3>3. First(t) = s[1 + 1]
      BY <3>1, <3>2, Zenon DEF First
    <3>4. h[p].next = s[1 + 1]
      BY <3>1, <2>2, Zenon
    <3> QED BY <3>3, <3>4, Zenon
  <2>5. Len(s) = 1 \/ Len(s) > 1
    <3>1. Len(s) \in Nat /\ Len(s) >= 1
      BY <1>1, Zenon
    <3> QED BY <3>1
  <2> QED BY <2>3, <2>4, <2>5, Zenon
<1>5. ASSUME NEW i \in 1..Len(t)
      PROVE  h[t[i]].next = IF i = Len(t) THEN NULL ELSE t[i + 1]
  <2>1. i + 1 \in 1..Len(s) /\ i \in 1..Len(s) - 1 /\ i \in Nat
    BY <1>1, <1>2
  <2>2. h[s[i + 1]].next = IF i + 1 = Len(s) THEN NULL ELSE s[i + 1 + 1]
    BY <2>1, <1>3
  <2>3. CASE i + 1 = Len(s)
    <3>1. i = Len(t)
      BY <2>3, <1>1, <1>2
    <3> QED BY <2>1, <2>2, <2>3, <3>1, <1>2
  <2>4. CASE i + 1 # Len(s)
    <3>1. i + 1 \in 1..Len(s) - 1 /\ i # Len(t)
      BY <2>1, <2>4, <1>1, <1>2
    <3> QED BY <3>1, <2>1, <2>2, <2>4, <1>2
  <2> QED BY <2>3, <2>4
<1>6. ASSUME NEW i \in 1..Len(t), NEW j \in 1..Len(t), t[i] = t[j]
      PROVE  i = j
  <2>1. i + 1 \in 1..Len(s) /\ j + 1 \in 1..Len(s) /\ i \in 1..Len(s) - 1 /\ j \in 1..Len(s) - 1
    BY <1>1, <1>2
  <2>2. s[i + 1] = s[j + 1]
    BY <2>1, <1>2, <1>6
  <2>3. i + 1 = j + 1
    BY <2>1, <2>2 DEF IsChain
  <2> QED BY <2>3
<1>7. IsChain(h, h[p].next, t)
  BY <1>2, <1>4, <1>5, <1>6 DEF IsChain
<1> QED BY <1>1, <1>2, <1>7 DEF t

(* The function Chain is made of, one step at a time. *)
Follow(h) ==
    [f \in [Pointer -> Seq(Node)] |->
        [q \in Pointer |-> IF q = NULL THEN <<>> ELSE <<q>> \o f[h[q].next]]]

(* f[n][q] is what n steps from q find. *)
Finding(f, h, N) ==
    /\ f[0] = [q \in Pointer |-> <<>>]
    /\ \A n \in 1..N : f[n] = [q \in Pointer |-> IF q = NULL THEN <<>>
                                                 ELSE <<q>> \o f[n - 1][h[q].next]]

LEMMA ChainUnrolled ==
    ASSUME NEW h \in HeapType, NEW p \in Pointer
    PROVE  \E f : Chain(h, p) = f[Cardinality(Node) + 1][p] /\ Finding(f, h, Cardinality(Node) + 1)
<1> DEFINE N == Cardinality(Node) + 1
           S == [Pointer -> Seq(Node)]
           start == [q \in Pointer |-> <<>>]
           E == [n \in 1..N |-> Follow(h)]
<1>1. N \in Nat /\ start \in S
  <2>1. Cardinality(Node) \in Nat
    BY MemoryIsFinite, FS_CardinalityType
  <2>2. start \in S
    OBVIOUS
  <2> QED BY <2>1, <2>2
<1>2. StepsOn(S, N, E)
  <2>1. Follow(h) \in [S -> S]
    <3>1. ASSUME NEW f \in S
          PROVE  [q \in Pointer |-> IF q = NULL THEN <<>> ELSE <<q>> \o f[h[q].next]] \in S
      <4>1. ASSUME NEW q \in Pointer, q # NULL PROVE <<q>> \o f[h[q].next] \in Seq(Node)
        <5>1. q \in Node /\ h[q] \in NodeType
          BY <4>1 DEF Pointer, HeapType
        <5>2. h[q].next \in Pointer
          BY <5>1 DEF NodeType
        <5>3. f[h[q].next] \in Seq(Node) /\ <<q>> \in Seq(Node)
          BY <5>1, <5>2
        <5> QED BY <5>3
      <4> QED BY <4>1
    <3> QED BY <3>1 DEF Follow
  <2> HIDE DEF S
  <2> QED BY <2>1 DEF StepsOn
<1>3. \E f : Runs(f, S, N, start, E)
  <2> HIDE DEF N, S, start, E
  <2> QED BY <1>1, <1>2, Unrolled
<1> DEFINE P(f) == f = [n \in 0..N |-> IF n = 0 THEN [q \in Pointer |-> <<>>]
                              ELSE [q \in Pointer |-> IF q = NULL THEN <<>>
                                                      ELSE <<q>> \o f[n - 1][h[q].next]]]
<1>4. \E f : P(f)
  <2>1. PICK f : Runs(f, S, N, start, E)
    BY <1>3
  <2>2. f \in [0..N -> S] /\ f[0] = start /\ \A n \in 1..N : f[n] = E[n][f[n - 1]]
    BY <2>1 DEF Runs
  <2>3. ASSUME NEW n \in 1..N
        PROVE  f[n] = [q \in Pointer |-> IF q = NULL THEN <<>>
                                         ELSE <<q>> \o f[n - 1][h[q].next]]
    <3>1. f[n - 1] \in S
      <4>1. n - 1 \in 0..N
        BY <1>1
      <4> HIDE DEF S, N, E
      <4> QED BY <4>1, <2>2
    <3>2. f[n] = Follow(h)[f[n - 1]]
      BY <2>2
    <3> QED BY <3>1, <3>2 DEF Follow
  <2>4. f = [n \in 0..N |-> f[n]]
    <3> HIDE DEF S
    <3> QED BY <2>2
  <2>5. P(f)
    <3>1. ASSUME NEW n \in 0..N
          PROVE  f[n] = IF n = 0 THEN [q \in Pointer |-> <<>>]
                        ELSE [q \in Pointer |-> IF q = NULL THEN <<>>
                                                ELSE <<q>> \o f[n - 1][h[q].next]]
      <4>1. CASE n = 0
        BY <4>1, <2>2
      <4>2. CASE n # 0
        <5>1. n \in 1..N
          BY <4>2, <1>1
        <5> QED BY <5>1, <4>2, <2>3
      <4> QED BY <4>1, <4>2
    <3> QED BY <3>1, <2>4, Zenon
  <2> QED BY <2>5
<1> DEFINE g == CHOOSE f : P(f)
<1>5. P(g)
  BY <1>4, Zenon
<1>6. Chain(h, p) = g[N][p]
  BY Zenon DEF Chain
<1>7. g[0] = [q \in Pointer |-> <<>>]
  <2>1. 0 \in 0..N
    BY <1>1
  <2> QED BY <2>1, <1>5
<1>8. ASSUME NEW n \in 1..N
      PROVE  g[n] = [q \in Pointer |-> IF q = NULL THEN <<>>
                                       ELSE <<q>> \o g[n - 1][h[q].next]]
  <2>1. n \in 0..N /\ n # 0
    BY <1>1
  <2> HIDE DEF g
  <2> QED BY <2>1, <1>5
<1> HIDE DEF g
<1>9. Finding(g, h, N)
  BY <1>7, <1>8, Zenon DEF Finding
<1> QED BY <1>6, <1>9, Zenon

LEMMA ChainIs ==
    ASSUME NEW h \in HeapType, NEW p, NEW s, IsChain(h, p, s)
    PROVE  Chain(h, p) = s
<1> DEFINE N == Cardinality(Node) + 1
<1>0. N \in Nat /\ Len(s) <= N /\ Len(s) \in Nat
  <2>1. s \in Seq(Node)
    BY DEF IsChain
  <2> QED BY <2>1, ChainShort
<1>1. ASSUME NEW q, NEW u, IsChain(h, q, u) PROVE q \in Pointer
  <2>1. u \in Seq(Node) /\ q = First(u)
    BY <1>1 DEF IsChain
  <2>2. u # <<>> => u[1] \in Node
    BY <2>1
  <2> QED BY <2>1, <2>2 DEF First, Pointer
<1>2. PICK f : Chain(h, p) = f[N][p] /\ Finding(f, h, N)
  <2>1. p \in Pointer
    BY <1>1
  <2> QED BY <2>1, ChainUnrolled, Zenon
<1> DEFINE I == {n \in 0..N : \A q, u : IsChain(h, q, u) /\ Len(u) <= n => f[n][q] = u}
<1>3. 0 \in I
  <2>1. ASSUME NEW q, NEW u, IsChain(h, q, u), Len(u) <= 0 PROVE f[0][q] = u
    <3>1. u \in Seq(Node) /\ q \in Pointer
      BY <2>1, <1>1 DEF IsChain
    <3>2. u = <<>>
      BY <3>1, <2>1
    <3>3. f[0] = [r \in Pointer |-> <<>>]
      BY <1>2, Zenon DEF Finding
    <3> QED BY <3>1, <3>2, <3>3
  <2> QED BY <2>1, <1>0
<1>4. ASSUME NEW n \in 0..N - 1, n \in I PROVE n + 1 \in I
  <2>1. n + 1 \in 1..N /\ (n + 1) - 1 = n /\ n + 1 \in 0..N
    BY <1>0
  <2>2. ASSUME NEW q, NEW u, IsChain(h, q, u), Len(u) <= n + 1 PROVE f[n + 1][q] = u
    <3>1. u \in Seq(Node) /\ q \in Pointer /\ q = First(u)
      BY <2>2, <1>1 DEF IsChain
    <3>2. f[n + 1][q] = IF q = NULL THEN <<>> ELSE <<q>> \o f[n][h[q].next]
      <4>1. f[n + 1] = [r \in Pointer |-> IF r = NULL THEN <<>>
                                         ELSE <<r>> \o f[(n + 1) - 1][h[r].next]]
        BY <2>1, <1>2, Zenon DEF Finding
      <4>2. (n + 1) - 1 = n
        BY <2>1
      <4>3. f[n + 1] = [r \in Pointer |-> IF r = NULL THEN <<>>
                                         ELSE <<r>> \o f[n][h[r].next]]
        BY <4>1, <4>2, Zenon
      <4> QED BY <3>1, <4>3
    <3>3. CASE u = <<>>
      BY <3>1, <3>2, <3>3 DEF First
    <3>4. CASE u # <<>>
      <4>1. q \in Node /\ u = <<q>> \o Tail(u) /\ Len(Tail(u)) = Len(u) - 1
            /\ IsChain(h, h[q].next, Tail(u))
        BY <2>2, <3>4, ChainTail
      <4>2. Len(Tail(u)) <= n
        BY <4>1, <2>2, <3>1
      <4>3. f[n][h[q].next] = Tail(u)
        BY <4>1, <4>2, <1>4
      <4>4. q # NULL
        BY <4>1, NamesApart
      <4> QED BY <3>2, <4>1, <4>3, <4>4
    <3> QED BY <3>3, <3>4
  <2> QED BY <2>1, <2>2
<1>5. N \in I
  <2> HIDE DEF I, N
  <2>1. 0..N \subseteq I
    BY <1>0, <1>3, <1>4, Counted
  <2> QED BY <2>1, <1>0
<1> QED BY <1>0, <1>2, <1>5

(* What the code does to a chain.  Each lemma says which sequence of nodes  *)
(* it is afterwards.                                                        *)

LEMMA ChainKept ==
    ASSUME NEW h, NEW h2, NEW p, NEW s, IsChain(h, p, s),
           \A n \in ToSet(s) : h2[n].next = h[n].next
    PROVE  IsChain(h2, p, s)
<1>1. s \in Seq(Node) /\ p = First(s)
      /\ (\A i \in 1..Len(s) : h[s[i]].next = IF i = Len(s) THEN NULL ELSE s[i + 1])
      /\ (\A i, j \in 1..Len(s) : s[i] = s[j] => i = j)
  BY DEF IsChain
<1>2. ASSUME NEW i \in 1..Len(s) PROVE h2[s[i]].next = IF i = Len(s) THEN NULL ELSE s[i + 1]
  <2>1. s[i] \in ToSet(s)
    BY <1>1 DEF ToSet
  <2> QED BY <2>1, <1>1
<1> QED BY <1>1, <1>2 DEF IsChain

LEMMA ToSetOf ==
    ASSUME NEW s \in Seq(Node)
    PROVE  /\ ToSet(s) = {s[i] : i \in 1..Len(s)} /\ ToSet(s) \subseteq Node
           /\ (ToSet(s) = {} <=> s = <<>>)
<1>1. DOMAIN s = 1..Len(s) /\ Len(s) \in Nat
  OBVIOUS
<1>2. ToSet(s) = {s[i] : i \in 1..Len(s)}
  BY <1>1 DEF ToSet
<1>3. ToSet(s) \subseteq Node
  BY <1>2
<1>4. s # <<>> => s[1] \in ToSet(s)
  BY <1>2
<1>5. s = <<>> => ToSet(s) = {}
  BY <1>2
<1> QED BY <1>2, <1>3, <1>4, <1>5

(* A node in front. *)
LEMMA ChainFront ==
    ASSUME NEW h, NEW h2, NEW p, NEW s, IsChain(h, p, s),
           NEW n \in Node, n \notin ToSet(s), h2[n].next = p,
           \A q \in ToSet(s) : h2[q].next = h[q].next
    PROVE  IsChain(h2, n, <<n>> \o s) /\ ToSet(<<n>> \o s) = ToSet(s) \cup {n}
<1> DEFINE u == <<n>> \o s
<1>1. s \in Seq(Node) /\ p = First(s) /\ Len(s) \in Nat
  BY DEF IsChain
<1>2. IsChain(h2, p, s)
  BY ChainKept
<1>3. /\ u \in Seq(Node) /\ u # <<>> /\ Len(u) = Len(s) + 1 /\ u[1] = n
      /\ \A i \in 1..Len(s) : u[i + 1] = s[i]
      /\ \A i \in 2..Len(s) + 1 : u[i] = s[i - 1]
  BY <1>1
<1> HIDE DEF u
<1>4. ASSUME NEW i \in 1..Len(u) PROVE h2[u[i]].next = IF i = Len(u) THEN NULL ELSE u[i + 1]
  <2>1. CASE i = 1
    <3>1. h2[u[i]].next = First(s)
      BY <2>1, <1>3, <1>1
    <3>2. CASE s = <<>>
      <4>1. i = Len(u)
        BY <3>2, <2>1, <1>3
      <4> QED BY <3>1, <3>2, <4>1 DEF First
    <3>3. CASE s # <<>>
      <4>1. 1 \in 1..Len(s) /\ i # Len(u) /\ First(s) = s[1]
        BY <3>3, <2>1, <1>1, <1>3 DEF First
      <4>2. u[1 + 1] = s[1]
        BY <4>1, <1>3
      <4> QED BY <3>1, <4>1, <4>2, <2>1
    <3> QED BY <3>2, <3>3
  <2>2. CASE i # 1
    <3>1. i \in 2..Len(s) + 1 /\ i - 1 \in 1..Len(s)
      BY <2>2, <1>1, <1>3
    <3>2. h2[s[i - 1]].next = IF i - 1 = Len(s) THEN NULL ELSE s[(i - 1) + 1]
      BY <3>1, <1>2 DEF IsChain
    <3>3. u[i] = s[i - 1]
      BY <3>1, <1>3
    <3>4. CASE i - 1 = Len(s)
      BY <3>1, <3>2, <3>3, <3>4, <1>3
    <3>5. CASE i - 1 # Len(s)
      <4>1. i \in 1..Len(s) /\ i # Len(u) /\ (i - 1) + 1 = i
        BY <3>1, <3>5, <1>1, <1>3
      <4>2. u[i + 1] = s[i]
        BY <4>1, <1>3
      <4> QED BY <3>2, <3>3, <3>5, <4>1, <4>2
    <3> QED BY <3>4, <3>5
  <2> QED BY <2>1, <2>2
<1>5. ASSUME NEW i \in 1..Len(u), NEW j \in 1..Len(u), u[i] = u[j] PROVE i = j
  <2>1. \A k \in 1..Len(u) : k # 1 => u[k] = s[k - 1] /\ k - 1 \in 1..Len(s) /\ s[k - 1] # n
    <3> SUFFICES ASSUME NEW k \in 1..Len(u), k # 1
                 PROVE  u[k] = s[k - 1] /\ k - 1 \in 1..Len(s) /\ s[k - 1] # n
      OBVIOUS
    <3>1. k \in 2..Len(s) + 1 /\ k - 1 \in 1..Len(s)
      BY <1>1, <1>3
    <3>2. u[k] = s[k - 1]
      BY <3>1, <1>3
    <3>3. s[k - 1] \in ToSet(s)
      BY <3>1, <1>1 DEF ToSet
    <3> QED BY <3>1, <3>2, <3>3
  <2>2. CASE i = 1 \/ j = 1
    BY <2>1, <2>2, <1>5, <1>3
  <2>3. CASE i # 1 /\ j # 1
    <3>1. s[i - 1] = s[j - 1] /\ i - 1 \in 1..Len(s) /\ j - 1 \in 1..Len(s)
      BY <2>1, <2>3, <1>5
    <3>2. i - 1 = j - 1
      BY <3>1 DEF IsChain
    <3> QED BY <3>2, <1>3
  <2> QED BY <2>2, <2>3
<1>6. ToSet(u) = ToSet(s) \cup {n}
  <2>1. ToSet(u) = {u[i] : i \in 1..Len(u)} /\ ToSet(s) = {s[i] : i \in 1..Len(s)}
    BY <1>1, <1>3, ToSetOf
  <2>2. ASSUME NEW x \in ToSet(u) PROVE x \in ToSet(s) \cup {n}
    <3>1. PICK i \in 1..Len(u) : x = u[i]
      BY <2>1
    <3>2. CASE i = 1
      BY <3>1, <3>2, <1>3
    <3>3. CASE i # 1
      <4>1. i \in 2..Len(s) + 1 /\ i - 1 \in 1..Len(s)
        BY <3>3, <1>1, <1>3
      <4> QED BY <3>1, <4>1, <1>3, <2>1
    <3> QED BY <3>2, <3>3
  <2>3. ASSUME NEW x \in ToSet(s) PROVE x \in ToSet(u)
    <3>1. PICK i \in 1..Len(s) : x = s[i]
      BY <2>1
    <3>2. i + 1 \in 1..Len(u) /\ u[i + 1] = x
      BY <3>1, <1>1, <1>3
    <3> QED BY <3>2, <2>1
  <2>4. n \in ToSet(u)
    <3>1. 1 \in 1..Len(u)
      BY <1>1, <1>3
    <3> QED BY <3>1, <1>3, <2>1
  <2> QED BY <2>2, <2>3, <2>4
<1>7. n = First(u)
  BY <1>3 DEF First
<1>8. IsChain(h2, n, u)
  BY <1>3, <1>4, <1>5, <1>7 DEF IsChain
<1> QED BY <1>6, <1>8 DEF u

(* The first node gone. *)
LEMMA ChainRest ==
    ASSUME NEW h, NEW h2, NEW p, NEW s, IsChain(h, p, s), s # <<>>,
           \A q \in ToSet(s) \ {p} : h2[q].next = h[q].next
    PROVE  /\ p \in Node /\ p = s[1] /\ p \in ToSet(s)
           /\ IsChain(h2, h[p].next, Tail(s)) /\ ToSet(Tail(s)) = ToSet(s) \ {p}
<1> DEFINE t == Tail(s)
<1>1. p \in Node /\ p = s[1] /\ s = <<p>> \o t /\ Len(t) = Len(s) - 1 /\ IsChain(h, h[p].next, t)
  BY ChainTail
<1>2. s \in Seq(Node) /\ t \in Seq(Node) /\ Len(s) \in Nat /\ Len(s) >= 1
      /\ \A i \in 1..Len(s) - 1 : t[i] = s[i + 1]
  <2>1. s \in Seq(Node)
    BY DEF IsChain
  <2> QED BY <2>1
<1> HIDE DEF t
<1>3. ToSet(s) = {s[i] : i \in 1..Len(s)} /\ ToSet(t) = {t[i] : i \in 1..Len(t)}
  BY <1>2, ToSetOf
<1>4. p \in ToSet(s)
  <2>1. 1 \in 1..Len(s)
    BY <1>2
  <2> QED BY <2>1, <1>1, <1>3
<1>5. ASSUME NEW x \in ToSet(t) PROVE x \in ToSet(s) \ {p}
  <2>1. PICK i \in 1..Len(t) : x = t[i]
    BY <1>3
  <2>2. i + 1 \in 1..Len(s) /\ 1 \in 1..Len(s) /\ i + 1 # 1 /\ x = s[i + 1]
    BY <2>1, <1>1, <1>2
  <2>3. s[i + 1] # s[1]
    BY <2>2 DEF IsChain
  <2> QED BY <2>2, <2>3, <1>1, <1>3
<1>6. ASSUME NEW x \in ToSet(s) \ {p} PROVE x \in ToSet(t)
  <2>1. PICK i \in 1..Len(s) : x = s[i]
    BY <1>3
  <2>2. i # 1
    BY <2>1, <1>1
  <2>3. i - 1 \in 1..Len(t) /\ i - 1 \in 1..Len(s) - 1 /\ (i - 1) + 1 = i
    BY <2>1, <2>2, <1>1, <1>2
  <2>4. t[i - 1] = s[i]
    BY <2>3, <1>2
  <2> QED BY <2>1, <2>3, <2>4, <1>3
<1>7. ToSet(t) = ToSet(s) \ {p}
  BY <1>5, <1>6
<1>8. IsChain(h2, h[p].next, t)
  BY <1>1, <1>7, ChainKept
<1> QED BY <1>1, <1>4, <1>7, <1>8 DEF t

(* A node at the end. *)
LEMMA ChainEnd ==
    ASSUME NEW h, NEW h2, NEW p, NEW s, IsChain(h, p, s), s # <<>>,
           NEW n \in Node, n \notin ToSet(s),
           h2[n].next = NULL, h2[Last(s)].next = n,
           \A q \in ToSet(s) \ {Last(s)} : h2[q].next = h[q].next
    PROVE  /\ IsChain(h2, p, Append(s, n)) /\ ToSet(Append(s, n)) = ToSet(s) \cup {n}
           /\ Last(s) \in ToSet(s)
<1> DEFINE u == Append(s, n)
<1>1. s \in Seq(Node) /\ p = First(s) /\ Len(s) \in Nat /\ Len(s) >= 1 /\ Last(s) = s[Len(s)]
  BY DEF IsChain, Last
<1>2. /\ u \in Seq(Node) /\ u # <<>> /\ Len(u) = Len(s) + 1 /\ u[Len(s) + 1] = n
      /\ \A i \in 1..Len(s) : u[i] = s[i]
  BY <1>1
<1> HIDE DEF u
<1>3. ToSet(s) = {s[i] : i \in 1..Len(s)} /\ ToSet(u) = {u[i] : i \in 1..Len(u)}
  BY <1>1, <1>2, ToSetOf
<1>4. ASSUME NEW i \in 1..Len(u) PROVE h2[u[i]].next = IF i = Len(u) THEN NULL ELSE u[i + 1]
  <2>1. CASE i = Len(s) + 1
    BY <2>1, <1>2
  <2>2. CASE i = Len(s)
    <3>1. i \in 1..Len(s) /\ i # Len(u)
      BY <2>2, <1>1, <1>2
    <3> QED BY <3>1, <2>2, <1>1, <1>2
  <2>3. CASE i # Len(s) + 1 /\ i # Len(s)
    <3>1. i \in 1..Len(s) /\ i + 1 \in 1..Len(s) /\ i # Len(u) /\ Len(s) \in 1..Len(s)
      BY <2>3, <1>1, <1>2
    <3>2. s[i] # s[Len(s)]
      BY <3>1, <2>3 DEF IsChain
    <3>3. h2[s[i]].next = h[s[i]].next
      BY <3>1, <3>2, <1>1, <1>3
    <3>4. h[s[i]].next = s[i + 1]
      BY <3>1, <2>3 DEF IsChain
    <3> QED BY <3>1, <3>3, <3>4, <1>2
  <2> QED BY <2>1, <2>2, <2>3
<1>5. ASSUME NEW i \in 1..Len(u), NEW j \in 1..Len(u), u[i] = u[j] PROVE i = j
  <2>1. \A k \in 1..Len(u) : k # Len(s) + 1 => k \in 1..Len(s) /\ u[k] = s[k] /\ s[k] # n
    <3> SUFFICES ASSUME NEW k \in 1..Len(u), k # Len(s) + 1
                 PROVE  k \in 1..Len(s) /\ u[k] = s[k] /\ s[k] # n
      OBVIOUS
    <3>1. k \in 1..Len(s)
      BY <1>1, <1>2
    <3> QED BY <3>1, <1>2, <1>3
  <2>2. CASE i = Len(s) + 1 \/ j = Len(s) + 1
    BY <2>1, <2>2, <1>5, <1>2
  <2>3. CASE i # Len(s) + 1 /\ j # Len(s) + 1
    <3>1. i \in 1..Len(s) /\ j \in 1..Len(s) /\ s[i] = s[j]
      BY <2>1, <2>3, <1>5
    <3> QED BY <3>1 DEF IsChain
  <2> QED BY <2>2, <2>3
<1>6. ToSet(u) = ToSet(s) \cup {n}
  <2>1. ASSUME NEW x \in ToSet(u) PROVE x \in ToSet(s) \cup {n}
    <3>1. PICK i \in 1..Len(u) : x = u[i]
      BY <1>3
    <3>2. i = Len(s) + 1 \/ i \in 1..Len(s)
      BY <1>1, <1>2
    <3> QED BY <3>1, <3>2, <1>2, <1>3
  <2>2. ASSUME NEW x \in ToSet(s) PROVE x \in ToSet(u)
    <3>1. PICK i \in 1..Len(s) : x = s[i]
      BY <1>3
    <3>2. i \in 1..Len(u) /\ u[i] = x
      BY <3>1, <1>1, <1>2
    <3> QED BY <3>2, <1>3
  <2>3. n \in ToSet(u)
    <3>1. Len(s) + 1 \in 1..Len(u)
      BY <1>1, <1>2
    <3> QED BY <3>1, <1>2, <1>3
  <2> QED BY <2>1, <2>2, <2>3
<1>7. p = First(u)
  <2>1. 1 \in 1..Len(s) /\ s # <<>>
    BY <1>1
  <2> QED BY <2>1, <1>1, <1>2 DEF First
<1>8. IsChain(h2, p, u)
  BY <1>2, <1>4, <1>5, <1>7 DEF IsChain
<1>9. Last(s) \in ToSet(s)
  BY <1>1, <1>3
<1> QED BY <1>6, <1>8, <1>9 DEF u

(* A node taken out behind another one. *)
Without(s, i) == [j \in 1..Len(s) - 1 |-> IF j < i THEN s[j] ELSE s[j + 1]]

LEMMA ChainWithout ==
    ASSUME NEW h, NEW h2, NEW p, NEW s, IsChain(h, p, s), NEW i \in 2..Len(s),
           h2[s[i - 1]].next = h[s[i]].next,
           \A q \in ToSet(s) \ {s[i - 1], s[i]} : h2[q].next = h[q].next
    PROVE  /\ IsChain(h2, p, Without(s, i)) /\ ToSet(Without(s, i)) = ToSet(s) \ {s[i]}
           /\ s[i - 1] \in ToSet(s) /\ s[i] \in ToSet(s) /\ s[i - 1] # s[i]
<1> DEFINE u == Without(s, i)
<1>1. s \in Seq(Node) /\ p = First(s) /\ Len(s) \in Nat /\ i \in 1..Len(s) /\ i - 1 \in 1..Len(s)
      /\ i \in Nat /\ i >= 2 /\ Len(s) >= 2
  BY DEF IsChain
<1>2. /\ u \in Seq(Node) /\ Len(u) = Len(s) - 1
      /\ \A j \in 1..Len(s) - 1 : u[j] = IF j < i THEN s[j] ELSE s[j + 1]
  <2>1. \A j \in 1..Len(s) - 1 : (IF j < i THEN s[j] ELSE s[j + 1]) \in Node
    <3> SUFFICES ASSUME NEW j \in 1..Len(s) - 1 PROVE s[j] \in Node /\ s[j + 1] \in Node
      OBVIOUS
    <3>1. j \in 1..Len(s) /\ j + 1 \in 1..Len(s)
      BY <1>1
    <3> QED BY <3>1, <1>1
  <2>2. u \in [1..Len(s) - 1 -> Node]
    BY <2>1 DEF Without
  <2>3. Len(s) - 1 \in Nat
    BY <1>1
  <2>4. u \in Seq(Node) /\ Len(u) = Len(s) - 1
    <3> HIDE DEF u
    <3> QED BY <2>2, <2>3
  <2> QED BY <2>4 DEF Without
<1> HIDE DEF u
<1>3. ToSet(s) = {s[j] : j \in 1..Len(s)} /\ ToSet(u) = {u[j] : j \in 1..Len(u)}
  BY <1>1, <1>2, ToSetOf
<1>4. s[i - 1] \in ToSet(s) /\ s[i] \in ToSet(s)
  BY <1>1, <1>3
<1>5. s[i - 1] # s[i]
  <2>1. i - 1 # i
    BY <1>1
  <2> QED BY <2>1, <1>1 DEF IsChain
(* Which node of s the j-th of u is. *)
<1> DEFINE from(j) == IF j < i THEN j ELSE j + 1
<1>6. \A j \in 1..Len(u) : from(j) \in 1..Len(s) /\ from(j) # i /\ u[j] = s[from(j)]
  <2> SUFFICES ASSUME NEW j \in 1..Len(u)
               PROVE  from(j) \in 1..Len(s) /\ from(j) # i /\ u[j] = s[from(j)]
    OBVIOUS
  <2>1. j \in 1..Len(s) - 1 /\ j \in 1..Len(s) /\ j + 1 \in 1..Len(s)
    BY <1>1, <1>2
  <2>2. CASE j < i
    BY <2>1, <2>2, <1>1, <1>2
  <2>3. CASE ~ (j < i)
    BY <2>1, <2>3, <1>1, <1>2
  <2> QED BY <2>2, <2>3
<1>7. ASSUME NEW j \in 1..Len(u) PROVE h2[u[j]].next = IF j = Len(u) THEN NULL ELSE u[j + 1]
  <2>1. j \in 1..Len(s) - 1 /\ j \in 1..Len(s) /\ j + 1 \in 1..Len(s) /\ j \in Nat
    BY <1>1, <1>2
  <2>2. CASE j = i - 1
    <3>1. u[j] = s[i - 1]
      BY <2>1, <2>2, <1>1, <1>2
    <3>2. h2[u[j]].next = IF i = Len(s) THEN NULL ELSE s[i + 1]
      <4>1. h[s[i]].next = IF i = Len(s) THEN NULL ELSE s[i + 1]
        BY <1>1 DEF IsChain
      <4> QED BY <4>1, <3>1
    <3>3. CASE i = Len(s)
      <4>1. j = Len(u)
        BY <2>1, <2>2, <3>3, <1>2
      <4> QED BY <4>1, <3>2, <3>3
    <3>4. CASE i # Len(s)
      <4>1. j # Len(u) /\ i \in 1..Len(s) - 1 /\ j + 1 = i /\ ~ (i < i)
        BY <2>1, <2>2, <3>4, <1>1, <1>2
      <4>2. u[i] = s[i + 1]
        BY <4>1, <1>2
      <4> QED BY <4>1, <4>2, <3>2, <3>4
    <3> QED BY <3>3, <3>4
  <2>3. CASE j # i - 1
    <3> DEFINE k == from(j)
    <3>1. k \in 1..Len(s) /\ k # i /\ k # i - 1 /\ u[j] = s[k]
      BY <2>1, <2>3, <1>1, <1>6
    <3>2. s[k] # s[i] /\ s[k] # s[i - 1] /\ s[k] \in ToSet(s)
      <4> HIDE DEF k
      <4>1. s[k] # s[i]
        BY <3>1, <1>1 DEF IsChain
      <4>2. s[k] # s[i - 1]
        BY <3>1, <1>1 DEF IsChain
      <4> QED BY <4>1, <4>2, <3>1, <1>3
    <3>3. h2[u[j]].next = IF k = Len(s) THEN NULL ELSE s[k + 1]
      <4> HIDE DEF k
      <4>1. h[s[k]].next = IF k = Len(s) THEN NULL ELSE s[k + 1]
        BY <3>1 DEF IsChain
      <4>2. h2[s[k]].next = h[s[k]].next
        BY <3>2
      <4> QED BY <4>1, <4>2, <3>1
    <3>4. CASE k = Len(s)
      <4>1. j = Len(u)
        BY <3>4, <2>1, <1>1, <1>2
      <4> QED BY <4>1, <3>3, <3>4
    <3>5. CASE k # Len(s)
      <4>1. j # Len(u) /\ j + 1 \in 1..Len(u) /\ from(j + 1) = k + 1
        BY <3>5, <3>1, <2>1, <2>3, <1>1, <1>2
      <4>2. u[j + 1] = s[k + 1]
        <5> HIDE DEF k, from
        <5> QED BY <4>1, <1>6
      <4> QED BY <4>1, <4>2, <3>3, <3>5
    <3> QED BY <3>4, <3>5
  <2> QED BY <2>2, <2>3
<1>8. ASSUME NEW j \in 1..Len(u), NEW k \in 1..Len(u), u[j] = u[k] PROVE j = k
  <2>1. from(j) = from(k)
    <3> HIDE DEF from
    <3>1. from(j) \in 1..Len(s) /\ from(k) \in 1..Len(s) /\ s[from(j)] = s[from(k)]
      BY <1>6, <1>8
    <3> QED BY <3>1 DEF IsChain
  <2> QED BY <2>1, <1>1, <1>2
<1>9. p = First(u)
  <2>1. 1 \in 1..Len(s) - 1 /\ 1 < i /\ s # <<>> /\ u # <<>>
    BY <1>1, <1>2
  <2>2. u[1] = s[1]
    BY <2>1, <1>2
  <2> QED BY <2>1, <2>2, <1>1 DEF First
<1>10. ToSet(u) = ToSet(s) \ {s[i]}
  <2>1. ASSUME NEW x \in ToSet(u) PROVE x \in ToSet(s) \ {s[i]}
    <3>1. PICK j \in 1..Len(u) : x = u[j]
      BY <1>3
    <3>2. from(j) \in 1..Len(s) /\ from(j) # i /\ x = s[from(j)]
      BY <3>1, <1>6
    <3> HIDE DEF from
    <3>3. s[from(j)] # s[i]
      BY <3>2, <1>1 DEF IsChain
    <3> QED BY <3>2, <3>3, <1>3
  <2>2. ASSUME NEW x \in ToSet(s) \ {s[i]} PROVE x \in ToSet(u)
    <3>1. PICK j \in 1..Len(s) : x = s[j]
      BY <1>3
    <3>2. j # i
      BY <3>1
    <3>3. CASE j < i
      <4>1. j \in 1..Len(s) - 1 /\ j \in 1..Len(u) /\ u[j] = s[j]
        BY <3>1, <3>3, <1>1, <1>2
      <4> QED BY <4>1, <3>1, <1>3
    <3>4. CASE ~ (j < i)
      <4>1. j - 1 \in 1..Len(s) - 1 /\ j - 1 \in 1..Len(u) /\ ~ (j - 1 < i) /\ (j - 1) + 1 = j
        BY <3>1, <3>2, <3>4, <1>1, <1>2
      <4>2. u[j - 1] = s[j]
        BY <4>1, <1>2
      <4> QED BY <4>1, <4>2, <3>1, <1>3
    <3> QED BY <3>3, <3>4
  <2> QED BY <2>1, <2>2
<1>11. IsChain(h2, p, u)
  BY <1>2, <1>7, <1>8, <1>9 DEF IsChain
<1> QED BY <1>4, <1>5, <1>10, <1>11 DEF u

-----------------------------------------------------------------------------
(* The heap, and chains in it *)

Nodes(h, p) == ToSet(Chain(h, p))
GoodChain(h, p) == IsChain(h, p, Chain(h, p))

LEMMA ChainGood ==
    ASSUME NEW h \in HeapType, NEW p, NEW s, IsChain(h, p, s)
    PROVE  GoodChain(h, p) /\ Chain(h, p) = s /\ Nodes(h, p) = ToSet(s) /\ p \in Pointer
<1>1. Chain(h, p) = s
  BY ChainIs
<1>2. s \in Seq(Node) /\ p = First(s)
  BY DEF IsChain
<1>3. p \in Pointer
  <2>1. s # <<>> => s[1] \in Node
    BY <1>2
  <2> QED BY <2>1, <1>2 DEF First, Pointer
<1> QED BY <1>1, <1>3 DEF GoodChain, Nodes

LEMMA GoodChainKept ==
    ASSUME NEW h \in HeapType, NEW h2 \in HeapType, NEW p, GoodChain(h, p),
           \A n \in Nodes(h, p) : h2[n].next = h[n].next
    PROVE  GoodChain(h2, p) /\ Chain(h2, p) = Chain(h, p) /\ Nodes(h2, p) = Nodes(h, p)
<1>1. IsChain(h2, p, Chain(h, p))
  BY ChainKept DEF GoodChain, Nodes
<1> QED BY <1>1, ChainGood DEF Nodes

LEMMA NullChain ==
    ASSUME NEW h \in HeapType
    PROVE  GoodChain(h, NULL) /\ Chain(h, NULL) = <<>> /\ Nodes(h, NULL) = {}
<1>1. IsChain(h, NULL, <<>>)
  BY DEF IsChain, First
<1>2. ToSet(<<>>) = {}
  BY DEF ToSet
<1> QED BY <1>1, <1>2, ChainGood

(* A sequence without repetition counts its elements. *)
LEMMA SeqCounts ==
    ASSUME NEW s \in Seq(Node), \A i, j \in 1..Len(s) : s[i] = s[j] => i = j
    PROVE  Cardinality(ToSet(s)) = Len(s) /\ IsFiniteSet(ToSet(s))
<1>0. ToSet(s) = {s[i] : i \in 1..Len(s)}
  BY ToSetOf
<1> DEFINE I == 1..Len(s)
           T == ToSet(s)
<1>1. s \in [I -> T] /\ (\A x \in T : \E i \in I : s[i] = x)
  BY <1>0
<1>2. s \in Bijection(I, T)
  <2> HIDE DEF I, T
  <2>1. s \in Surjection(I, T)
    BY <1>1 DEF Surjection
  <2>2. s \in Injection(I, T)
    <3>1. DOMAIN s = I
      BY <1>1
    <3> QED BY <1>1, <3>1 DEF I, Injection, IsInjective
  <2> QED BY <2>1, <2>2 DEF Bijection
<1>3. ExistsBijection(I, T)
  BY <1>2 DEF ExistsBijection
<1>4. IsFiniteSet(I) /\ Cardinality(I) = Len(s)
  <2> DEFINE n == Len(s)
  <2>1. n \in Nat
    OBVIOUS
  <2> HIDE DEF n
  <2>2. IsFiniteSet(1..n) /\ Cardinality(1..n) = n
    BY <2>1, FS_Interval
  <2> QED BY <2>2 DEF n
<1> HIDE DEF I, T
<1> QED BY <1>3, <1>4, FS_Bijection DEF T

LEMMA ChainOf ==
    ASSUME NEW h, NEW p, GoodChain(h, p)
    PROVE  /\ Chain(h, p) \in Seq(Node) /\ Nodes(h, p) \subseteq Node
           /\ (p = NULL <=> Chain(h, p) = <<>>) /\ (p = NULL <=> Nodes(h, p) = {})
           /\ (p # NULL => p \in Nodes(h, p) /\ p = Chain(h, p)[1])
           /\ Cardinality(Nodes(h, p)) = Len(Chain(h, p)) /\ IsFiniteSet(Nodes(h, p))
<1> DEFINE s == Chain(h, p)
<1>1. /\ s \in Seq(Node) /\ p = First(s)
      /\ \A i, j \in 1..Len(s) : s[i] = s[j] => i = j
  BY DEF GoodChain, IsChain
<1>2. Nodes(h, p) = ToSet(s)
  BY DEF Nodes
<1> HIDE DEF s
<1>3. ToSet(s) = {s[i] : i \in 1..Len(s)} /\ ToSet(s) \subseteq Node /\ (ToSet(s) = {} <=> s = <<>>)
  BY <1>1, ToSetOf
<1>4. s # <<>> => p = s[1] /\ p \in ToSet(s) /\ p \in Node
  <2> SUFFICES ASSUME s # <<>> PROVE p = s[1] /\ p \in ToSet(s) /\ p \in Node
    OBVIOUS
  <2>1. 1 \in 1..Len(s) /\ p = s[1]
    BY <1>1 DEF First
  <2> QED BY <2>1, <1>3
<1>5. p = NULL <=> s = <<>>
  BY <1>1, <1>4, NamesApart DEF First
<1>6. Cardinality(ToSet(s)) = Len(s) /\ IsFiniteSet(ToSet(s))
  BY <1>1, SeqCounts
<1> QED BY <1>1, <1>2, <1>3, <1>4, <1>5, <1>6 DEF s

Put(h, n, r, h2) == h2 = [h EXCEPT ![n] = r]
Linked(h, n, p, h2) == h2 = [h EXCEPT ![n].next = p]
Stored(h, n, v, h2) == h2 = [h EXCEPT ![n].value = v]

LEMMA HeapPut ==
    ASSUME NEW h \in HeapType, NEW n \in Node, NEW r \in NodeType,
           NEW h2, Put(h, n, r, h2)
    PROVE  h2 \in HeapType /\ h2[n] = r /\ \A q \in Node \ {n} : h2[q] = h[q]
BY DEF HeapType, Put

LEMMA HeapNext ==
    ASSUME NEW h \in HeapType, NEW n \in Node, NEW p \in Pointer,
           NEW h2, Linked(h, n, p, h2)
    PROVE  /\ h2 \in HeapType
           /\ h2[n].next = p /\ h2[n].key = h[n].key /\ h2[n].value = h[n].value
           /\ h2[n].used = h[n].used
           /\ \A q \in Node \ {n} : h2[q] = h[q]
<1> DEFINE r == [h[n] EXCEPT !.next = p]
<1>1. h[n] \in NodeType
  BY DEF HeapType
<1>2. r \in NodeType /\ r.next = p /\ r.key = h[n].key /\ r.value = h[n].value /\ r.used = h[n].used
  BY <1>1 DEF NodeType
<1>3. h2 = [h EXCEPT ![n] = r]
  BY DEF Linked
<1> HIDE DEF r
<1>4. h2 \in HeapType /\ h2[n] = r /\ \A q \in Node \ {n} : h2[q] = h[q]
  BY <1>2, <1>3 DEF HeapType
<1> QED BY <1>2, <1>4

LEMMA HeapValue ==
    ASSUME NEW h \in HeapType, NEW n \in Node, NEW v \in Value,
           NEW h2, Stored(h, n, v, h2)
    PROVE  /\ h2 \in HeapType
           /\ h2[n].value = v /\ h2[n].key = h[n].key /\ h2[n].next = h[n].next
           /\ h2[n].used = h[n].used
           /\ \A q \in Node \ {n} : h2[q] = h[q]
<1> DEFINE r == [h[n] EXCEPT !.value = v]
<1>1. h[n] \in NodeType
  BY DEF HeapType
<1>2. r \in NodeType /\ r.value = v /\ r.key = h[n].key /\ r.next = h[n].next /\ r.used = h[n].used
  BY <1>1 DEF NodeType
<1>3. h2 = [h EXCEPT ![n] = r]
  BY DEF Stored
<1> HIDE DEF r
<1>4. h2 \in HeapType /\ h2[n] = r /\ \A q \in Node \ {n} : h2[q] = h[q]
  BY <1>2, <1>3 DEF HeapType
<1> QED BY <1>2, <1>4

LEMMA NodeTypes ==
    /\ Freed \in NodeType /\ Freed.used = FALSE
    /\ \A k \in Key \cup {NULL}, v \in Value \cup {NULL}, n \in Pointer :
           /\ NewNode(k, v, n) \in NodeType
           /\ NewNode(k, v, n).key = k /\ NewNode(k, v, n).value = v
           /\ NewNode(k, v, n).next = n /\ NewNode(k, v, n).used = TRUE
BY DEF NodeType, Freed, NewNode, Pointer

LEMMA HeapFields ==
    ASSUME NEW h \in HeapType, NEW n \in Node
    PROVE  /\ h[n] \in NodeType /\ h[n].next \in Pointer /\ h[n].key \in Key \cup {NULL}
           /\ h[n].value \in Value \cup {NULL} /\ h[n].used \in BOOLEAN
<1>1. h[n] \in NodeType
  BY DEF HeapType
<1> QED BY <1>1 DEF NodeType

-----------------------------------------------------------------------------
(* Hash tables *)

(* The nodes of S hang in the buckets their keys belong to, and nothing else. *)
Hashed(h, t, S) ==
    /\ t.capacity \in Nat \ {0} /\ t.buckets \in [0..(t.capacity - 1) -> Pointer]
    /\ S \subseteq Node /\ \A n \in S : h[n].key \in Key
    /\ \A b \in 0..(t.capacity - 1) :
           /\ GoodChain(h, t.buckets[b])
           /\ Nodes(h, t.buckets[b]) = {n \in S : bucket(t, h[n].key) = b}

LEMMA BucketOf ==
    ASSUME NEW t, t.capacity \in Nat \ {0}, NEW k \in Key
    PROVE  bucket(t, k) \in 0..(t.capacity - 1)
<1>1. hash(k) \in Nat
  BY NumbersAreNatural
<1> QED BY <1>1 DEF bucket

LEMMA HashedKept ==
    ASSUME NEW h \in HeapType, NEW h2 \in HeapType, NEW t, NEW S, Hashed(h, t, S),
           \A n \in S : h2[n].next = h[n].next /\ h2[n].key = h[n].key
    PROVE  /\ Hashed(h2, t, S)
           /\ \A b \in 0..(t.capacity - 1) : Chain(h2, t.buckets[b]) = Chain(h, t.buckets[b])
<1>1. ASSUME NEW b \in 0..(t.capacity - 1)
      PROVE  /\ GoodChain(h2, t.buckets[b])
             /\ Nodes(h2, t.buckets[b]) = {n \in S : bucket(t, h2[n].key) = b}
             /\ Chain(h2, t.buckets[b]) = Chain(h, t.buckets[b])
  <2>1. /\ GoodChain(h, t.buckets[b])
        /\ Nodes(h, t.buckets[b]) = {n \in S : bucket(t, h[n].key) = b}
    BY DEF Hashed
  <2>2. \A n \in Nodes(h, t.buckets[b]) : h2[n].next = h[n].next
    BY <2>1
  <2>3. GoodChain(h2, t.buckets[b]) /\ Chain(h2, t.buckets[b]) = Chain(h, t.buckets[b])
        /\ Nodes(h2, t.buckets[b]) = Nodes(h, t.buckets[b])
    BY <2>1, <2>2, GoodChainKept
  <2>4. {n \in S : bucket(t, h2[n].key) = b} = {n \in S : bucket(t, h[n].key) = b}
    OBVIOUS
  <2> QED BY <2>1, <2>3, <2>4
<1>2. \A n \in S : h2[n].key \in Key
  BY DEF Hashed
<1> QED BY <1>1, <1>2 DEF Hashed

LEMMA HashedEmpty ==
    ASSUME NEW h \in HeapType, NEW t, t.capacity \in Nat \ {0},
           t.buckets = [i \in 0..(t.capacity - 1) |-> NULL]
    PROVE  Hashed(h, t, {})
<1>1. t.buckets \in [0..(t.capacity - 1) -> Pointer]
  BY DEF Pointer
<1>2. \A b \in 0..(t.capacity - 1) : t.buckets[b] = NULL
  OBVIOUS
<1> QED BY <1>1, <1>2, NullChain DEF Hashed

(* A node goes to the front of the bucket of its key. *)
LEMMA HashedFront ==
    ASSUME NEW h \in HeapType, NEW h2 \in HeapType, NEW t, NEW t2, NEW S, Hashed(h, t, S),
           NEW n \in Node, n \notin S, h2[n].key \in Key, NEW b, b = bucket(t, h2[n].key),
           h2[n].next = t.buckets[b],
           \A q \in S : h2[q].next = h[q].next /\ h2[q].key = h[q].key,
           t2.capacity = t.capacity, t2.buckets = [t.buckets EXCEPT ![b] = n]
    PROVE  Hashed(h2, t2, S \cup {n})
<1>1. /\ t.capacity \in Nat \ {0} /\ t.buckets \in [0..(t.capacity - 1) -> Pointer]
      /\ S \subseteq Node /\ \A q \in S : h[q].key \in Key
  BY DEF Hashed
<1>2. b \in 0..(t.capacity - 1)
  BY <1>1, BucketOf
<1>3. /\ t2.buckets \in [0..(t.capacity - 1) -> Pointer] /\ t2.buckets[b] = n
      /\ \A c \in 0..(t.capacity - 1) : c # b => t2.buckets[c] = t.buckets[c]
  BY <1>1, <1>2 DEF Pointer
<1>4. \A k : bucket(t2, k) = bucket(t, k)
  BY DEF bucket
<1>5. Hashed(h2, t, S)
  BY HashedKept
<1>6. ASSUME NEW c \in 0..(t.capacity - 1)
      PROVE  /\ GoodChain(h2, t2.buckets[c])
             /\ Nodes(h2, t2.buckets[c]) = {q \in S \cup {n} : bucket(t2, h2[q].key) = c}
  <2>1. /\ GoodChain(h2, t.buckets[c])
        /\ Nodes(h2, t.buckets[c]) = {q \in S : bucket(t, h2[q].key) = c}
    BY <1>5 DEF Hashed
  <2>2. CASE c # b
    <3>1. t2.buckets[c] = t.buckets[c]
      BY <2>2, <1>3
    <3>2. {q \in S \cup {n} : bucket(t2, h2[q].key) = c} = {q \in S : bucket(t, h2[q].key) = c}
      BY <2>2, <1>4
    <3> QED BY <2>1, <3>1, <3>2
  <2>3. CASE c = b
    <3> DEFINE s == Chain(h2, t.buckets[b])
    <3>1. IsChain(h2, h2[n].next, s) /\ ToSet(s) = {q \in S : bucket(t, h2[q].key) = b}
      BY <2>1, <2>3 DEF GoodChain, Nodes
    <3> HIDE DEF s
    <3>2. n \notin ToSet(s)
      BY <3>1
    <3>3. IsChain(h2, n, <<n>> \o s) /\ ToSet(<<n>> \o s) = ToSet(s) \cup {n}
      BY <3>1, <3>2, ChainFront
    <3>4. GoodChain(h2, n) /\ Nodes(h2, n) = ToSet(s) \cup {n}
      BY <3>3, ChainGood
    <3>5. ToSet(s) \cup {n} = {q \in S \cup {n} : bucket(t2, h2[q].key) = b}
      BY <3>1, <1>4
    <3> QED BY <2>3, <3>4, <3>5, <1>3
  <2> QED BY <2>2, <2>3
<1>7. \A q \in S \cup {n} : h2[q].key \in Key
  BY <1>1
<1> QED BY <1>1, <1>3, <1>6, <1>7 DEF Hashed

(* The loops over a table meet each of its nodes once. *)
OnceEach(s) == \A i, j \in 1..Len(s) : s[i] = s[j] => i = j

LEMMA Joined ==
    ASSUME NEW s \in Seq(Node), NEW u \in Seq(Node), OnceEach(s), OnceEach(u),
           ToSet(s) \cap ToSet(u) = {}
    PROVE  s \o u \in Seq(Node) /\ OnceEach(s \o u) /\ ToSet(s \o u) = ToSet(s) \cup ToSet(u)
<1> DEFINE w == s \o u
<1>1. /\ w \in Seq(Node) /\ Len(w) = Len(s) + Len(u) /\ Len(s) \in Nat /\ Len(u) \in Nat
      /\ \A i \in 1..Len(s) : w[i] = s[i]
      /\ \A i \in Len(s) + 1..Len(s) + Len(u) : w[i] = u[i - Len(s)]
  OBVIOUS
<1> HIDE DEF w
<1>2. /\ ToSet(s) = {s[i] : i \in 1..Len(s)} /\ ToSet(u) = {u[i] : i \in 1..Len(u)}
      /\ ToSet(w) = {w[i] : i \in 1..Len(w)}
  BY <1>1, ToSetOf
<1>3. ASSUME NEW i \in 1..Len(w)
      PROVE  \/ i \in 1..Len(s) /\ w[i] = s[i] /\ w[i] \in ToSet(s)
             \/ i > Len(s) /\ i - Len(s) \in 1..Len(u) /\ w[i] = u[i - Len(s)] /\ w[i] \in ToSet(u)
  <2>1. CASE i <= Len(s)
    <3>1. i \in 1..Len(s)
      BY <2>1, <1>1
    <3> QED BY <3>1, <1>1, <1>2
  <2>2. CASE ~ (i <= Len(s))
    <3>1. i > Len(s) /\ i - Len(s) \in 1..Len(u) /\ i \in Len(s) + 1..Len(s) + Len(u)
      BY <2>2, <1>1
    <3>2. w[i] = u[i - Len(s)]
      BY <3>1, <1>1
    <3> QED BY <3>1, <3>2, <1>2
  <2> QED BY <2>1, <2>2
<1>4. ASSUME NEW i \in 1..Len(w), NEW j \in 1..Len(w), w[i] = w[j] PROVE i = j
  <2>1. CASE i \in 1..Len(s) /\ w[i] = s[i] /\ w[i] \in ToSet(s)
    <3>1. j \in 1..Len(s) /\ w[j] = s[j]
      BY <2>1, <1>3, <1>4
    <3> QED BY <2>1, <3>1, <1>4 DEF OnceEach
  <2>2. CASE i > Len(s) /\ i - Len(s) \in 1..Len(u) /\ w[i] = u[i - Len(s)] /\ w[i] \in ToSet(u)
    <3>1. j - Len(s) \in 1..Len(u) /\ w[j] = u[j - Len(s)]
      BY <2>2, <1>3, <1>4
    <3>2. i - Len(s) = j - Len(s)
      BY <2>2, <3>1, <1>4 DEF OnceEach
    <3> QED BY <3>2, <1>1
  <2> QED BY <2>1, <2>2, <1>3
<1>5. ASSUME NEW x \in ToSet(s) \cup ToSet(u) PROVE x \in ToSet(w)
  <2>1. CASE x \in ToSet(s)
    <3>1. PICK i \in 1..Len(s) : x = s[i]
      BY <2>1, <1>2
    <3>2. i \in 1..Len(w) /\ w[i] = x
      BY <3>1, <1>1
    <3> QED BY <3>2, <1>2
  <2>2. CASE x \in ToSet(u)
    <3>1. PICK i \in 1..Len(u) : x = u[i]
      BY <2>2, <1>2
    <3>2. i + Len(s) \in 1..Len(w) /\ i + Len(s) \in Len(s) + 1..Len(s) + Len(u)
          /\ (i + Len(s)) - Len(s) = i
      BY <3>1, <1>1
    <3>3. w[i + Len(s)] = x
      BY <3>1, <3>2, <1>1
    <3> QED BY <3>2, <3>3, <1>2
  <2> QED BY <2>1, <2>2
<1>6. ASSUME NEW x \in ToSet(w) PROVE x \in ToSet(s) \cup ToSet(u)
  <2>1. PICK i \in 1..Len(w) : x = w[i]
    BY <1>2
  <2> QED BY <2>1, <1>3
<1>7. ToSet(w) = ToSet(s) \cup ToSet(u)
  BY <1>5, <1>6
<1>8. OnceEach(w)
  BY <1>4 DEF OnceEach
<1> QED BY <1>1, <1>7, <1>8 DEF w

(* w[i] is what the loop has met after i buckets. *)
Meeting(w, h, t) ==
    /\ w[0] = <<>>
    /\ \A i \in 1..t.capacity : /\ w[i - 1] \in Seq(Node)
                                /\ w[i] = w[i - 1] \o Chain(h, t.buckets[i - 1])

LEMMA WalkUnrolled ==
    ASSUME NEW h, NEW t, NEW S, Hashed(h, t, S)
    PROVE  \E w : Walk(h, t) = w[t.capacity] /\ Meeting(w, h, t)
<1> DEFINE n == t.capacity
           L == Seq(Node)
           start == <<>>
           E == [i \in 1..n |-> [u \in L |-> u \o Chain(h, t.buckets[i - 1])]]
<1>1. n \in Nat /\ start \in L
  BY DEF Hashed
<1>2. StepsOn(L, n, E)
  <2>1. ASSUME NEW i \in 1..n, NEW u \in L PROVE u \o Chain(h, t.buckets[i - 1]) \in L
    <3>1. i - 1 \in 0..(t.capacity - 1)
      BY <1>1
    <3>2. GoodChain(h, t.buckets[i - 1])
      BY <3>1 DEF Hashed
    <3>3. Chain(h, t.buckets[i - 1]) \in Seq(Node)
      BY <3>2, ChainOf
    <3> QED BY <3>3
  <2>2. E \in [1..n -> [L -> L]]
    <3> HIDE DEF L, n
    <3> QED BY <2>1
  <2> QED BY <2>2 DEF StepsOn
<1>3. \E w : Runs(w, L, n, start, E)
  <2> HIDE DEF n, L, start, E
  <2> QED BY <1>1, <1>2, Unrolled
<1> DEFINE P(w) == w = [i \in 0..t.capacity |->
                           IF i = 0 THEN <<>> ELSE w[i - 1] \o Chain(h, t.buckets[i - 1])]
<1>4. ASSUME NEW w, Runs(w, L, n, start, E)
      PROVE  /\ w[0] = <<>>
             /\ \A i \in 1..n : w[i - 1] \in L /\ w[i] = w[i - 1] \o Chain(h, t.buckets[i - 1])
             /\ P(w)
  <2>1. w \in [0..n -> L] /\ w[0] = <<>> /\ \A i \in 1..n : w[i] = E[i][w[i - 1]]
    BY <1>4 DEF Runs
  <2>2. ASSUME NEW i \in 1..n PROVE w[i - 1] \in L /\ w[i] = w[i - 1] \o Chain(h, t.buckets[i - 1])
    <3>1. w[i - 1] \in L
      <4>1. i - 1 \in 0..n
        BY <1>1
      <4> HIDE DEF L, n, E
      <4> QED BY <4>1, <2>1
    <3>2. w[i] = E[i][w[i - 1]]
      BY <2>1
    <3> HIDE DEF L
    <3> QED BY <3>1, <3>2
  <2>3. ASSUME NEW i \in 0..n
        PROVE  w[i] = IF i = 0 THEN <<>> ELSE w[i - 1] \o Chain(h, t.buckets[i - 1])
    <3>1. CASE i = 0
      BY <3>1, <2>1
    <3>2. CASE i # 0
      <4>1. i \in 1..n
        BY <3>2, <1>1
      <4> QED BY <4>1, <3>2, <2>2
    <3> QED BY <3>1, <3>2
  <2>4. P(w)
    <3>1. w = [i \in 0..n |-> w[i]]
      <4> HIDE DEF L, n, E
      <4> QED BY <2>1
    <3> QED BY <3>1, <2>3, Zenon
  <2> QED BY <2>1, <2>2, <2>4
<1>5. \E w : P(w)
  BY <1>3, <1>4, Zenon
<1> DEFINE g == CHOOSE w : P(w)
<1>6. P(g)
  BY <1>5, Zenon
<1>7. Walk(h, t) = g[n]
  BY Zenon DEF Walk
<1>8. g[0] = <<>> /\ \A i \in 1..n : g[i] = g[i - 1] \o Chain(h, t.buckets[i - 1])
  <2>1. \A i \in 0..n : g[i] = IF i = 0 THEN <<>> ELSE g[i - 1] \o Chain(h, t.buckets[i - 1])
    <3> HIDE DEF g
    <3> QED BY <1>6
  <2>2. 0 \in 0..n /\ \A i \in 1..n : i \in 0..n /\ i # 0
    BY <1>1
  <2> HIDE DEF g, P
  <2> QED BY <2>1, <2>2
<1>9. \A i \in 1..n : g[i - 1] \in L
  <2> DEFINE I == {i \in 0..n : g[i] \in L}
  <2>1. 0 \in I
    <3>1. 0 \in 0..n /\ <<>> \in Seq(Node)
      BY <1>1
    <3> HIDE DEF g, n, P
    <3> QED BY <3>1, <1>8
  <2>2. ASSUME NEW i \in 0..n - 1, i \in I PROVE i + 1 \in I
    <3>1. i + 1 \in 1..n /\ (i + 1) - 1 = i /\ i + 1 \in 0..n
      BY <1>1
    <3>2. GoodChain(h, t.buckets[i])
      BY <3>1, <1>1 DEF Hashed
    <3>3. Chain(h, t.buckets[i]) \in L
      BY <3>2, ChainOf
    <3>4. g[i + 1] = g[i] \o Chain(h, t.buckets[i])
      <4> HIDE DEF g, P
      <4>1. g[i + 1] = g[(i + 1) - 1] \o Chain(h, t.buckets[(i + 1) - 1])
        BY <3>1, <1>8
      <4> QED BY <4>1, <3>1, Zenon
    <3>5. g[i] \in L
      BY <2>2
    <3> HIDE DEF g, P
    <3>6. g[i + 1] \in L
      BY <3>3, <3>4, <3>5
    <3> QED BY <3>1, <3>6
  <2>3. 0..n \subseteq I
    <3> HIDE DEF I, n
    <3> QED BY <1>1, <2>1, <2>2, Counted
  <2>4. \A i \in 1..n : i - 1 \in 0..n
    BY <1>1
  <2> HIDE DEF g, L
  <2> QED BY <2>3, <2>4
<1> HIDE DEF g
<1>10. Meeting(g, h, t)
  BY <1>8, <1>9, Zenon DEF Meeting
<1> QED BY <1>7, <1>10, Zenon

LEMMA WalkIs ==
    ASSUME NEW h, NEW t, NEW S, Hashed(h, t, S)
    PROVE  /\ Walk(h, t) \in Seq(Node) /\ OnceEach(Walk(h, t)) /\ ToSet(Walk(h, t)) = S
<1> DEFINE c == t.capacity
<1>1. /\ c \in Nat \ {0} /\ S \subseteq Node /\ \A n \in S : h[n].key \in Key
      /\ \A b \in 0..(c - 1) :
             /\ GoodChain(h, t.buckets[b])
             /\ Nodes(h, t.buckets[b]) = {n \in S : bucket(t, h[n].key) = b}
  BY DEF Hashed
<1>2. PICK w : Walk(h, t) = w[c] /\ Meeting(w, h, t)
  BY WalkUnrolled, Zenon
<1>3. \A n \in S : bucket(t, h[n].key) \in 0..(c - 1)
  BY <1>1, BucketOf
<1>a. w[0] = <<>> /\ \A i \in 1..c : w[i] = w[i - 1] \o Chain(h, t.buckets[i - 1])
  BY <1>2, Zenon DEF Meeting
<1> HIDE DEF c
<1> DEFINE Below(i) == {n \in S : bucket(t, h[n].key) < i}
           Good(u, i) == u \in Seq(Node) /\ OnceEach(u) /\ ToSet(u) = Below(i)
           I == {i \in 0..c : Good(w[i], i)}
<1>4. 0 \in I
  <2>1. Below(0) = {}
    BY <1>3, <1>1
  <2>2. Good(<<>>, 0)
    BY <2>1 DEF OnceEach, ToSet
  <2>3. 0 \in 0..c
    BY <1>1
  <2>4. Good(w[0], 0)
    BY <2>2, <1>a, Zenon
  <2> HIDE DEF Good
  <2> QED BY <2>3, <2>4
<1>5. ASSUME NEW i \in 0..c - 1, i \in I PROVE i + 1 \in I
  <2>1. i + 1 \in 1..c /\ (i + 1) - 1 = i /\ i + 1 \in 0..c /\ i \in 0..(c - 1)
    BY <1>1
  <2> DEFINE s == w[i]
             u == Chain(h, t.buckets[i])
  <2>2. s \in Seq(Node) /\ OnceEach(s) /\ ToSet(s) = Below(i)
    BY <1>5
  <2>3. u \in Seq(Node) /\ OnceEach(u) /\ ToSet(u) = {n \in S : bucket(t, h[n].key) = i}
    <3>1. GoodChain(h, t.buckets[i]) /\ Nodes(h, t.buckets[i]) = {n \in S : bucket(t, h[n].key) = i}
      BY <2>1, <1>1
    <3> QED BY <3>1 DEF GoodChain, IsChain, Nodes, OnceEach
  <2>4. w[i + 1] = s \o u
    <3>1. w[i + 1] = w[(i + 1) - 1] \o Chain(h, t.buckets[(i + 1) - 1])
      BY <2>1, <1>a
    <3> QED BY <3>1, <2>1, Zenon
  <2> HIDE DEF s, u
  <2>5. ToSet(s) \cap ToSet(u) = {}
    <3>1. ASSUME NEW n \in ToSet(s), n \in ToSet(u) PROVE FALSE
      <4>1. bucket(t, h[n].key) < i /\ bucket(t, h[n].key) = i /\ i \in Nat
        BY <3>1, <2>2, <2>3, <2>1
      <4> QED BY <4>1
    <3> QED BY <3>1
  <2>6. s \o u \in Seq(Node) /\ OnceEach(s \o u) /\ ToSet(s \o u) = ToSet(s) \cup ToSet(u)
    BY <2>2, <2>3, <2>5, Joined
  <2>7. ToSet(s) \cup ToSet(u) = Below(i + 1)
    <3>1. ASSUME NEW n \in S
          PROVE  bucket(t, h[n].key) < i + 1 <=> bucket(t, h[n].key) < i \/ bucket(t, h[n].key) = i
      <4>1. bucket(t, h[n].key) \in Nat /\ i \in Nat
        BY <1>3, <1>1, <2>1
      <4> QED BY <4>1
    <3> QED BY <3>1, <2>2, <2>3
  <2>8. Good(w[i + 1], i + 1)
    BY <2>4, <2>6, <2>7
  <2> HIDE DEF Good
  <2> QED BY <2>1, <2>8
<1>6. c \in I
  <2>1. c \in Nat /\ c \in 0..c
    BY <1>1
  <2> HIDE DEF I
  <2>2. 0..c \subseteq I
    BY <2>1, <1>4, <1>5, Counted
  <2> QED BY <2>1, <2>2
<1>7. Below(c) = S
  <2>1. ASSUME NEW n \in S PROVE bucket(t, h[n].key) < c
    <3>1. bucket(t, h[n].key) \in 0..(c - 1)
      BY <1>3
    <3> QED BY <3>1, <1>1
  <2> QED BY <2>1
<1> QED BY <1>2, <1>6, <1>7

(* A lookup finds the key if some node of the table has it. *)
LEMMA Holding ==
    ASSUME NEW h, NEW t, NEW S, Hashed(h, t, S), NEW k \in Key
    PROVE  LET s == Chain(h, t.buckets[bucket(t, k)])
           IN  /\ bucket(t, k) \in 0..(t.capacity - 1) /\ s \in Seq(Node)
               /\ Found(h, t, k) = {i \in 1..Len(s) : h[s[i]].key = k}
               /\ \A i \in Found(h, t, k) : s[i] \in S
               /\ \A n \in S : h[n].key = k => \E i \in Found(h, t, k) : s[i] = n
               /\ contains(h, t, k) <=> k \in {h[n].key : n \in S}
               /\ contains(h, t, k) => /\ Min(Found(h, t, k)) \in Found(h, t, k)
                                       /\ lookup(h, t, k) \in S /\ h[lookup(h, t, k)].key = k
<1> DEFINE b == bucket(t, k)
           s == Chain(h, t.buckets[b])
<1>1. b \in 0..(t.capacity - 1)
  BY BucketOf DEF Hashed
<1>2. GoodChain(h, t.buckets[b]) /\ Nodes(h, t.buckets[b]) = {n \in S : bucket(t, h[n].key) = b}
  BY <1>1 DEF Hashed
<1>3. s \in Seq(Node) /\ ToSet(s) = {n \in S : bucket(t, h[n].key) = b}
  BY <1>2, ChainOf DEF Nodes
<1>4. Found(h, t, k) = {i \in DOMAIN s : h[s[i]].key = k}
  BY DEF Found
<1>5. lookup(h, t, k) = s[Min(Found(h, t, k))]
  BY DEF lookup
<1> HIDE DEF s
<1>6. DOMAIN s = 1..Len(s) /\ Len(s) \in Nat /\ ToSet(s) = {s[i] : i \in 1..Len(s)}
  BY <1>3, ToSetOf
<1>7. Found(h, t, k) = {i \in 1..Len(s) : h[s[i]].key = k}
  BY <1>4, <1>6
<1>8. \A i \in Found(h, t, k) : s[i] \in S
  BY <1>3, <1>6, <1>7
<1>9. ASSUME NEW n \in S, h[n].key = k PROVE \E i \in Found(h, t, k) : s[i] = n
  <2>1. n \in ToSet(s)
    BY <1>3, <1>9
  <2>2. PICK i \in 1..Len(s) : s[i] = n
    BY <2>1, <1>6
  <2> QED BY <2>2, <1>7, <1>9
<1>10. contains(h, t, k) <=> k \in {h[n].key : n \in S}
  <2>1. contains(h, t, k) <=> \E i : i \in Found(h, t, k)
    BY DEF contains
  <2> QED BY <2>1, <1>7, <1>8, <1>9
<1>11. ASSUME contains(h, t, k) PROVE Min(Found(h, t, k)) \in Found(h, t, k)
  <2> DEFINE F == Found(h, t, k)
  <2>1. F \subseteq Nat /\ F # {}
    BY <1>6, <1>7, <1>11 DEF contains
  <2> HIDE DEF F
  <2>2. \E i \in F : \A j \in F : i <= j
    BY <2>1, Smallest
  <2>3. Min(F) \in F
    BY <2>2, Zenon DEF Min
  <2> QED BY <2>3 DEF F
<1>12. contains(h, t, k) => lookup(h, t, k) \in S /\ h[lookup(h, t, k)].key = k
  BY <1>5, <1>7, <1>8, <1>11
<1> QED BY <1>1, <1>3, <1>7, <1>8, <1>9, <1>10, <1>11, <1>12 DEF s

(* A hash table as C has it in memory. *)
TableType ==
    [buckets : UNION {[0..(c - 1) -> Pointer] : c \in Nat \ {0}},
     capacity : Nat \ {0}, size : Nat]

LEMMA TableMade ==
    ASSUME NEW c \in Nat \ {0}, NEW u \in [0..(c - 1) -> Pointer], NEW k \in Nat
    PROVE  [buckets |-> u, capacity |-> c, size |-> k] \in TableType
<1> DEFINE U == UNION {[0..(d - 1) -> Pointer] : d \in Nat \ {0}}
<1>1. u \in U
  OBVIOUS
<1> HIDE DEF U
<1>2. [buckets |-> u, capacity |-> c, size |-> k] \in [buckets : U, capacity : Nat \ {0}, size : Nat]
  BY <1>1
<1> QED BY <1>2, Zenon DEF TableType, U

LEMMA FrontTable ==
    ASSUME NEW t \in TableType, t.buckets \in [0..(t.capacity - 1) -> Pointer],
           NEW b \in 0..(t.capacity - 1), NEW n \in Pointer,
           NEW t2, t2 = [t EXCEPT !.buckets[b] = n]
    PROVE  /\ t2 \in TableType /\ t2.buckets \in [0..(t2.capacity - 1) -> Pointer]
           /\ t2.capacity = t.capacity /\ t2.size = t.size
           /\ t2.buckets = [t.buckets EXCEPT ![b] = n]
<1> DEFINE u == [t.buckets EXCEPT ![b] = n]
           c == t.capacity
<1>1. u \in [0..(c - 1) -> Pointer] /\ c \in Nat \ {0} /\ t.size \in Nat
  BY DEF TableType
<1>2. t2 = [t EXCEPT !.buckets = u]
  OBVIOUS
<1> HIDE DEF u
<1>3. t2 = [buckets |-> u, capacity |-> c, size |-> t.size]
  BY <1>2 DEF TableType
<1> HIDE DEF c
<1>4. t2 \in TableType
  <2>1. [buckets |-> u, capacity |-> c, size |-> t.size] \in TableType
    BY <1>1, TableMade, Zenon
  <2> QED BY <2>1, <1>3, Zenon
<1> QED BY <1>1, <1>3, <1>4 DEF u, c

(* Growth: the nodes are the same ones with the same contents, in buckets    *)
(* of a larger table.                                                        *)
Rehung(h, h2, S) ==
    /\ \A q \in Node \ S : h2[q] = h[q]
    /\ \A q \in S : h2[q].key = h[q].key /\ h2[q].value = h[q].value /\ h2[q].used = h[q].used

Memories(h, S, c) ==
    {m \in [heap : HeapType, table : TableType] :
        /\ m.table.capacity = c /\ m.table.buckets \in [0..(c - 1) -> Pointer]
        /\ Rehung(h, m.heap, S)}

LEMMA MemoryOf ==
    ASSUME NEW h, NEW S, NEW c, NEW m \in Memories(h, S, c)
    PROVE  /\ m.heap \in HeapType /\ m.table \in TableType
           /\ m.table.capacity = c /\ m.table.buckets \in [0..(c - 1) -> Pointer]
           /\ Rehung(h, m.heap, S)
BY DEF Memories

(* One node, on its way from h to the larger table. *)
MovesOne(m, m2, n, S) ==
    /\ m2.table.size = m.table.size
    /\ \A T \in SUBSET S : Hashed(m.heap, m.table, T) /\ n \notin T
           => Hashed(m2.heap, m2.table, T \cup {n})

LEMMA AtFront ==
    ASSUME NEW h \in HeapType, NEW S, S \subseteq Node, \A q \in S : h[q].key \in Key,
           NEW c \in Nat \ {0}, NEW m \in Memories(h, S, c), NEW n \in S, NEW b,
           b = bucket(m.table, m.heap[n].key)
    PROVE  LET m2 == at_front(m, n, b)
           IN  m2 \in Memories(h, S, c) /\ MovesOne(m, m2, n, S)
<1> DEFINE h1 == m.heap
           t1 == m.table
           h2 == [m.heap EXCEPT ![n].next = m.table.buckets[b]]
           t2 == [m.table EXCEPT !.buckets[b] = n]
           m2 == at_front(m, n, b)
<1>1. /\ h1 \in HeapType /\ t1 \in TableType /\ Rehung(h, h1, S)
      /\ t1.capacity = c /\ t1.buckets \in [0..(t1.capacity - 1) -> Pointer]
  BY MemoryOf
<1>2. n \in Node /\ h1[n].key = h[n].key /\ h1[n].key \in Key
  BY <1>1 DEF Rehung
<1>3. b \in 0..(t1.capacity - 1)
  BY <1>1, <1>2, BucketOf
<1>4. t1.buckets[b] \in Pointer
  BY <1>1, <1>3
<1>5. /\ h2 \in HeapType /\ h2[n].next = t1.buckets[b] /\ h2[n].key = h1[n].key
      /\ h2[n].value = h1[n].value /\ h2[n].used = h1[n].used
      /\ \A q \in Node \ {n} : h2[q] = h1[q]
  <2> HIDE DEF h1, t1
  <2> DEFINE p == t1.buckets[b]
  <2>1. Linked(h1, n, p, h2) /\ p \in Pointer
    BY <1>4 DEF h1, t1, Linked
  <2> HIDE DEF h2, p
  <2>2. /\ h2 \in HeapType /\ h2[n].next = p /\ h2[n].key = h1[n].key
        /\ h2[n].value = h1[n].value /\ h2[n].used = h1[n].used
        /\ \A q \in Node \ {n} : h2[q] = h1[q]
    <3>1. h1 \in HeapType /\ n \in Node
      BY <1>1, <1>2
    <3> QED BY <3>1, <2>1, HeapNext
  <2> QED BY <2>2 DEF p
<1>6. /\ t2 \in TableType /\ t2.buckets \in [0..(t2.capacity - 1) -> Pointer]
      /\ t2.capacity = t1.capacity /\ t2.size = t1.size
      /\ t2.buckets = [t1.buckets EXCEPT ![b] = n]
  <2> HIDE DEF t1
  <2>1. t2 = [t1 EXCEPT !.buckets[b] = n] /\ n \in Pointer
    BY <1>2 DEF t1, Pointer
  <2> HIDE DEF t2
  <2> QED BY <1>1, <1>3, <2>1, FrontTable
<1>7. m2 = [heap |-> h2, table |-> t2]
  BY DEF at_front
<1> HIDE DEF h1, t1, h2, t2, m2
<1>8. m2.heap = h2 /\ m2.table = t2 /\ m2 \in [heap : HeapType, table : TableType]
  BY <1>5, <1>6, <1>7
<1>9. Rehung(h, h2, S)
  BY <1>1, <1>2, <1>5 DEF Rehung
<1>10. m2 \in Memories(h, S, c)
  BY <1>1, <1>6, <1>8, <1>9 DEF Memories
<1>11. ASSUME NEW T \in SUBSET S, Hashed(h1, t1, T), n \notin T
       PROVE  Hashed(h2, t2, T \cup {n})
  <2>1. \A q \in T : h2[q].next = h1[q].next /\ h2[q].key = h1[q].key
    BY <1>5, <1>11
  <2>2. b = bucket(t1, h2[n].key) /\ h2[n].key \in Key
    BY <1>2, <1>5 DEF h1, t1
  <2> QED BY <1>1, <1>2, <1>5, <1>6, <1>11, <2>1, <2>2, HashedFront
<1> QED BY <1>6, <1>8, <1>10, <1>11 DEF m2, h1, t1, MovesOne

LEMMA ExpandUnrolled ==
    ASSUME NEW h \in HeapType, NEW t \in TableType, NEW S, Hashed(h, t, S)
    PROVE  \E g : LET nodes == Walk(h, t)
                  IN  /\ expand(h, t) = g[Len(nodes)]
                      /\ g[0] = [heap |-> h, table |-> larger(t)]
                      /\ \A i \in 0..Len(nodes) : g[i] \in Memories(h, S, 2 * t.capacity)
                      /\ \A i \in 1..Len(nodes) :
                            g[i] = at_front(g[i - 1], nodes[i],
                                       bucket(g[i - 1].table, g[i - 1].heap[nodes[i]].key))
<1> DEFINE nodes == Walk(h, t)
           n == Len(nodes)
           C == 2 * t.capacity
           L == Memories(h, S, C)
           start == [heap |-> h, table |-> larger(t)]
           step(m, i) == at_front(m, nodes[i], bucket(m.table, m.heap[nodes[i]].key))
           E == [i \in 1..n |-> [m \in L |-> step(m, i)]]
<1>0. /\ nodes \in Seq(Node) /\ n \in Nat /\ \A i \in 1..n : nodes[i] \in S
  <2>1. Walk(h, t) \in Seq(Node) /\ ToSet(Walk(h, t)) = S
    BY WalkIs
  <2> HIDE DEF nodes
  <2>2. nodes \in Seq(Node) /\ ToSet(nodes) = S
    BY <2>1 DEF nodes
  <2>3. ToSet(nodes) = {nodes[i] : i \in 1..Len(nodes)}
    BY <2>2, ToSetOf
  <2> QED BY <2>2, <2>3
<1>1. /\ C \in Nat \ {0} /\ S \subseteq Node /\ \A q \in S : h[q].key \in Key
  BY DEF Hashed
<1>2. start \in L
  <2> DEFINE B == [i \in 0..(C - 1) |-> NULL]
  <2>1. B \in [0..(C - 1) -> Pointer]
    BY DEF Pointer
  <2>2. B \in UNION {[0..(d - 1) -> Pointer] : d \in Nat \ {0}}
    <3> HIDE DEF B, C
    <3> QED BY <1>1, <2>1
  <2>3. larger(t) = [buckets |-> B, capacity |-> C, size |-> t.size]
    BY DEF larger, GROWTH_FACTOR
  <2> HIDE DEF B, C
  <2>4. t.size \in Nat
    BY DEF TableType
  <2>5. larger(t) \in TableType /\ larger(t).capacity = C /\ larger(t).buckets = B
    BY <1>1, <2>2, <2>3, <2>4 DEF TableType
  <2>6. start.heap = h /\ start.table = larger(t) /\ start \in [heap : HeapType, table : TableType]
    BY <2>5
  <2>7. Rehung(h, h, S)
    BY DEF Rehung
  <2> HIDE DEF start
  <2> QED BY <2>1, <2>5, <2>6, <2>7 DEF Memories
<1> HIDE DEF nodes, C
<1>3. ASSUME NEW i \in 1..n, NEW m \in L PROVE step(m, i) \in L
  <2>1. nodes[i] \in S
    BY <1>0
  <2> QED BY <2>1, <1>1, AtFront
<1>4. StepsOn(L, n, E)
  <2>1. E \in [1..n -> [L -> L]]
    <3> HIDE DEF L, n, step
    <3> QED BY <1>3
  <2> QED BY <2>1 DEF StepsOn
<1>5. \E g : Runs(g, L, n, start, E)
  <2> HIDE DEF n, L, start, E
  <2> QED BY <1>0, <1>2, <1>4, Unrolled
<1> DEFINE P(g) == g = [i \in 0..n |->
                           IF i = 0 THEN [heap |-> h, table |-> larger(t)]
                           ELSE at_front(g[i - 1], nodes[i],
                                    bucket(g[i - 1].table, g[i - 1].heap[nodes[i]].key))]
<1>6. ASSUME NEW g, Runs(g, L, n, start, E)
      PROVE  P(g)
  <2>1. g \in [0..n -> L] /\ g[0] = start /\ \A i \in 1..n : g[i] = E[i][g[i - 1]]
    BY <1>6 DEF Runs
  <2>2. ASSUME NEW i \in 1..n PROVE g[i] = step(g[i - 1], i)
    <3>1. g[i - 1] \in L
      <4>1. i - 1 \in 0..n
        BY <1>0
      <4> HIDE DEF L, n, E
      <4> QED BY <4>1, <2>1
    <3>2. g[i] = E[i][g[i - 1]]
      BY <2>1
    <3> HIDE DEF L, step
    <3> QED BY <3>1, <3>2
  <2>3. ASSUME NEW i \in 0..n PROVE g[i] = IF i = 0 THEN start ELSE step(g[i - 1], i)
    <3>1. CASE i = 0
      BY <3>1, <2>1
    <3>2. CASE i # 0
      <4>1. i \in 1..n
        BY <3>2, <1>0
      <4> HIDE DEF step, start
      <4> QED BY <4>1, <3>2, <2>2
    <3> QED BY <3>1, <3>2
  <2>4. g = [i \in 0..n |-> g[i]]
    <3> HIDE DEF L, n, E, start
    <3> QED BY <2>1
  <2> QED BY <2>4, <2>3, Zenon
<1>7. \E g : P(g)
  BY <1>5, <1>6, Zenon
<1> DEFINE f == CHOOSE g : P(g)
<1>8. P(f)
  BY <1>7, Zenon
<1>9. expand(h, t) = f[n]
  BY Zenon DEF expand, nodes
<1>10. f[0] = start /\ \A i \in 1..n : f[i] = step(f[i - 1], i)
  <2>1. \A i \in 0..n : f[i] = IF i = 0 THEN start ELSE step(f[i - 1], i)
    <3> HIDE DEF f
    <3> QED BY <1>8
  <2>2. 0 \in 0..n /\ \A i \in 1..n : i \in 0..n /\ i # 0
    BY <1>0
  <2> HIDE DEF f, P, step, start
  <2> QED BY <2>1, <2>2
<1>11. \A i \in 0..n : f[i] \in L
  <2> DEFINE I == {i \in 0..n : f[i] \in L}
  <2> HIDE DEF f, P, start, L
  <2>1. 0 \in I
    <3>1. 0 \in 0..n
      BY <1>0
    <3> QED BY <3>1, <1>2, <1>10
  <2>2. ASSUME NEW i \in 0..n - 1, i \in I PROVE i + 1 \in I
    <3>1. i + 1 \in 1..n /\ (i + 1) - 1 = i /\ i + 1 \in 0..n
      BY <1>0
    <3>2. f[i] \in L
      BY <2>2
    <3> HIDE DEF step
    <3>3. f[i + 1] = step(f[(i + 1) - 1], i + 1)
      BY <3>1, <1>10
    <3>4. f[i + 1] = step(f[i], i + 1)
      BY <3>1, <3>3, Zenon
    <3>5. f[i + 1] \in L
      BY <3>1, <3>2, <3>4, <1>3
    <3> QED BY <3>1, <3>5
  <2> HIDE DEF I
  <2>3. 0..n \subseteq I
    <3> HIDE DEF n
    <3> QED BY <1>0, <2>1, <2>2, Counted
  <2> QED BY <2>3 DEF I
<1> HIDE DEF f
<1> QED BY <1>9, <1>10, <1>11 DEF nodes, C

LEMMA ExpandIs ==
    ASSUME NEW h \in HeapType, NEW t \in TableType, NEW S, Hashed(h, t, S)
    PROVE  LET m == expand(h, t)
           IN  /\ m \in Memories(h, S, 2 * t.capacity)
               /\ m.table.size = t.size
               /\ Hashed(m.heap, m.table, S)
<1> DEFINE nodes == Walk(h, t)
           C == 2 * t.capacity
           L == Memories(h, S, C)
           n == Len(nodes)
           step(m, i) == at_front(m, nodes[i], bucket(m.table, m.heap[nodes[i]].key))
<1>1. PICK g : /\ expand(h, t) = g[n] /\ g[0] = [heap |-> h, table |-> larger(t)]
               /\ \A i \in 0..n : g[i] \in L
               /\ \A i \in 1..n : g[i] = step(g[i - 1], i)
  BY ExpandUnrolled
<1>2. nodes \in Seq(Node) /\ OnceEach(nodes) /\ ToSet(nodes) = S
  BY WalkIs
<1>3. larger(t) = [buckets |-> [i \in 0..(C - 1) |-> NULL], capacity |-> C, size |-> t.size]
  BY DEF larger, GROWTH_FACTOR
<1>4. C \in Nat \ {0} /\ S \subseteq Node /\ \A q \in S : h[q].key \in Key
  BY DEF Hashed
<1> HIDE DEF nodes, C
<1>5. n \in Nat /\ ToSet(nodes) = {nodes[i] : i \in 1..n}
  BY <1>2, ToSetOf
<1> DEFINE T(i) == {nodes[j] : j \in 1..i}
           Good(m, i) == m.table.size = t.size /\ Hashed(m.heap, m.table, T(i))
           I == {i \in 0..n : Good(g[i], i)}
<1>6. 0 \in I
  <2>1. Hashed(h, larger(t), {})
    <3>1. larger(t).capacity \in Nat \ {0}
          /\ larger(t).buckets = [i \in 0..(larger(t).capacity - 1) |-> NULL]
      BY <1>3, <1>4
    <3> QED BY <3>1, HashedEmpty
  <2>2. T(0) = {} /\ g[0].heap = h /\ g[0].table = larger(t) /\ larger(t).size = t.size
    BY <1>1, <1>3
  <2>3. Good(g[0], 0)
    <3> HIDE DEF T
    <3> QED BY <2>1, <2>2
  <2>4. 0 \in 0..n
    BY <1>5
  <2> HIDE DEF Good
  <2> QED BY <2>3, <2>4
<1>7. ASSUME NEW i \in 0..n - 1, i \in I PROVE i + 1 \in I
  <2>1. i + 1 \in 1..n /\ (i + 1) - 1 = i /\ i + 1 \in 0..n /\ i \in 0..n
    BY <1>5
  <2> DEFINE m == g[i]
             x == nodes[i + 1]
             b == bucket(m.table, m.heap[x].key)
             m2 == at_front(m, x, b)
  <2>2. x \in S
    BY <2>1, <1>2, <1>5
  <2>3. m \in L
    BY <2>1, <1>1
  <2>4. g[i + 1] = m2
    <3> HIDE DEF step
    <3>1. g[i + 1] = step(g[(i + 1) - 1], i + 1)
      BY <2>1, <1>1
    <3>2. g[i + 1] = step(g[i], i + 1)
      BY <2>1, <3>1, Zenon
    <3> QED BY <3>2, Zenon DEF step
  <2>5. T(i) \in SUBSET S /\ x \notin T(i) /\ T(i + 1) = T(i) \cup {x}
    <3>1. T(i) \in SUBSET S
      <4>1. \A j \in 1..i : j \in 1..n
        BY <2>1
      <4> QED BY <4>1, <1>2, <1>5
    <3>2. x \notin T(i)
      <4>1. \A j \in 1..i : j \in 1..n /\ j # i + 1
        BY <2>1
      <4> QED BY <4>1, <2>1, <1>2 DEF OnceEach
    <3>3. \A j : j \in 1..i + 1 <=> j \in 1..i \/ j = i + 1
      BY <2>1
    <3>4. T(i + 1) = T(i) \cup {x}
      BY <3>3
    <3> QED BY <3>1, <3>2, <3>4
  <2>6. Good(m, i)
    BY <1>7
  <2>a. b = bucket(m.table, m.heap[x].key)
    OBVIOUS
  <2> HIDE DEF T, x, m, b, L
  <2>7. MovesOne(m, m2, x, S)
    BY <1>4, <2>2, <2>3, <2>a, AtFront DEF L
  <2> HIDE DEF m2
  <2>8. Good(g[i + 1], i + 1)
    BY <2>4, <2>5, <2>6, <2>7 DEF MovesOne
  <2> HIDE DEF Good
  <2> QED BY <2>1, <2>8
<1>8. n \in I
  <2> HIDE DEF I, n
  <2>1. 0..n \subseteq I
    BY <1>5, <1>6, <1>7, Counted
  <2> QED BY <2>1, <1>5
<1>9. T(n) = S
  BY <1>2, <1>5
<1>10. g[n] \in L
  BY <1>1, <1>5
<1> HIDE DEF T
<1> QED BY <1>1, <1>8, <1>9, <1>10 DEF C

(* What the code keeps true of a hash table. *)
GoodTable(h, t, S) ==
    /\ t \in TableType /\ t.capacity >= 5
    /\ Hashed(h, t, S)
    /\ \A n, m \in S : h[n].key = h[m].key => n = m
    /\ t.size = Cardinality(S) /\ 10 * t.size <= 7 * t.capacity

KeysOf(h, S) == {h[n].key : n \in S}

LEMMA FiniteNodes ==
    ASSUME NEW S, S \subseteq Node
    PROVE  IsFiniteSet(S) /\ Cardinality(S) \in Nat
<1>1. IsFiniteSet(S)
  BY MemoryIsFinite, FS_Subset
<1> QED BY <1>1, FS_CardinalityType

(* A table with room for one more. *)
LEMMA Roomy ==
    ASSUME NEW h \in HeapType, NEW t, NEW S, GoodTable(h, t, S)
    PROVE  LET m == IF TooFull(t) THEN expand(h, t) ELSE [heap |-> h, table |-> t]
           IN  /\ m.heap \in HeapType /\ m.table \in TableType /\ Rehung(h, m.heap, S)
               /\ m.table.buckets \in [0..(m.table.capacity - 1) -> Pointer]
               /\ m.table.capacity \in Nat /\ m.table.capacity >= 5
               /\ Hashed(m.heap, m.table, S)
               /\ m.table.size = t.size /\ 10 * (t.size + 1) <= 7 * m.table.capacity
<1> DEFINE m == IF TooFull(t) THEN expand(h, t) ELSE [heap |-> h, table |-> t]
<1>1. /\ t \in TableType /\ t.capacity \in Nat /\ t.capacity >= 5 /\ Hashed(h, t, S)
      /\ t.size \in Nat /\ 10 * t.size <= 7 * t.capacity
      /\ t.buckets \in [0..(t.capacity - 1) -> Pointer]
  BY DEF GoodTable, Hashed, TableType
<1>2. CASE TooFull(t)
  <2>1. /\ m \in Memories(h, S, 2 * t.capacity) /\ m.table.size = t.size
        /\ Hashed(m.heap, m.table, S)
    BY <1>1, <1>2, ExpandIs
  <2> DEFINE C == 2 * t.capacity
  <2>2. C \in Nat /\ C >= 5 /\ 10 * (t.size + 1) <= 7 * C
    <3> DEFINE c == t.capacity
               k == t.size
    <3>1. c \in Nat /\ c >= 5 /\ k \in Nat /\ 10 * k <= 7 * c
      BY <1>1
    <3> HIDE DEF c, k
    <3>2. 2 * c \in Nat /\ 2 * c >= 5 /\ 10 * (k + 1) <= 7 * (2 * c)
      BY <3>1
    <3> QED BY <3>2 DEF c, k
  <2> HIDE DEF m, C
  <2>3. /\ m.heap \in HeapType /\ m.table \in TableType
        /\ m.table.capacity = C /\ m.table.buckets \in [0..(C - 1) -> Pointer]
        /\ Rehung(h, m.heap, S)
    BY <2>1, MemoryOf DEF C
  <2> QED BY <2>1, <2>2, <2>3 DEF m
<1>3. CASE ~ TooFull(t)
  <2>1. m.heap = h /\ m.table = t
    BY <1>3
  <2>2. 10 * (t.size + 1) <= 7 * t.capacity
    BY <1>1, <1>3 DEF TooFull
  <2>3. Rehung(h, h, S)
    BY DEF Rehung
  <2> HIDE DEF m
  <2> QED BY <1>1, <2>1, <2>2, <2>3 DEF m
<1> QED BY <1>2, <1>3

OneMore(t, b, n, t2) == t2 = [t EXCEPT !.buckets[b] = n, !.size = @ + 1]

LEMMA OneMoreInTable ==
    ASSUME NEW t \in TableType, t.buckets \in [0..(t.capacity - 1) -> Pointer],
           NEW b \in 0..(t.capacity - 1), NEW n \in Node, NEW t2, OneMore(t, b, n, t2)
    PROVE  /\ t2 \in TableType /\ t2.buckets = [t.buckets EXCEPT ![b] = n]
           /\ t2.capacity = t.capacity /\ t2.size = t.size + 1
<1> DEFINE u == [t.buckets EXCEPT ![b] = n]
<1>1. u \in [0..(t.capacity - 1) -> Pointer] /\ t.capacity \in Nat \ {0} /\ t.size \in Nat
  BY DEF Pointer, TableType
<1>2. t2 = [t EXCEPT !.buckets = u, !.size = @ + 1]
  BY DEF OneMore
<1> HIDE DEF u
<1>3. t2 = [buckets |-> u, capacity |-> t.capacity, size |-> t.size + 1]
  BY <1>2 DEF TableType
<1>4. t.size + 1 \in Nat
  BY <1>1
<1>5. t2 \in TableType
  BY <1>1, <1>3, <1>4, TableMade, Zenon
<1> QED BY <1>3, <1>5 DEF u

(* What adding a key leaves: h2 has the new node, the others have moved at  *)
(* most.                                                                    *)
AddedNode(h, h2, S, k, v, n) ==
    /\ h2 \in HeapType
    /\ h2[n].key = k /\ h2[n].value = v /\ h2[n].used = TRUE
    /\ \A q \in Node \ (S \cup {n}) : h2[q] = h[q]
    /\ \A q \in S : h2[q].key = h[q].key /\ h2[q].value = h[q].value /\ h2[q].used = h[q].used

Added(h, m, S, k, v, n) ==
    /\ AddedNode(h, m.heap, S, k, v, n)
    /\ GoodTable(m.heap, m.table, S \cup {n})
    /\ KeysOf(m.heap, S \cup {n}) = KeysOf(h, S) \cup {k}
    /\ m \in [heap : HeapType, table : TableType]

LEMMA AddNode ==
    ASSUME NEW h \in HeapType, NEW t, NEW S, GoodTable(h, t, S),
           NEW k \in Key, k \notin KeysOf(h, S), NEW v \in Value \cup {NULL},
           NEW n \in Node, n \notin S
    PROVE  Added(h, add_node(h, t, k, v, n), S, k, v, n)
<1> DEFINE m == IF TooFull(t) THEN expand(h, t) ELSE [heap |-> h, table |-> t]
           b == bucket(m.table, k)
           h2 == [m.heap EXCEPT ![n] = NewNode(k, v, m.table.buckets[b])]
           t2 == [m.table EXCEPT !.buckets[b] = n, !.size = @ + 1]
           a == add_node(h, t, k, v, n)
<1>1. /\ m.heap \in HeapType /\ m.table \in TableType /\ Rehung(h, m.heap, S)
      /\ m.table.buckets \in [0..(m.table.capacity - 1) -> Pointer]
      /\ m.table.capacity \in Nat /\ m.table.capacity >= 5
      /\ Hashed(m.heap, m.table, S)
      /\ m.table.size = t.size /\ 10 * (t.size + 1) <= 7 * m.table.capacity
  BY Roomy
<1>2. a = [heap |-> h2, table |-> t2]
  BY DEF add_node
<1> DEFINE h1 == m.heap
           t1 == m.table
<1>3. h2 = [h1 EXCEPT ![n] = NewNode(k, v, t1.buckets[b])]
      /\ t2 = [t1 EXCEPT !.buckets[b] = n, !.size = @ + 1] /\ b = bucket(t1, k)
  OBVIOUS
<1>4. a.heap = h2 /\ a.table = t2
  BY <1>2
<1>5. /\ h1 \in HeapType /\ t1 \in TableType /\ Rehung(h, h1, S)
      /\ t1.buckets \in [0..(t1.capacity - 1) -> Pointer]
      /\ t1.capacity \in Nat \ {0} /\ t1.capacity >= 5
      /\ Hashed(h1, t1, S)
      /\ t1.size = t.size /\ 10 * (t1.size + 1) <= 7 * t1.capacity
  BY <1>1
<1> HIDE DEF m, h1, t1, b, h2, t2, a
<1>6. b \in 0..(t1.capacity - 1)
  BY <1>3, <1>5, BucketOf
<1> DEFINE p == t1.buckets[b]
           r == NewNode(k, v, p)
<1>7. p \in Pointer
  BY <1>5, <1>6
<1> HIDE DEF p
<1>8. r \in NodeType /\ r.key = k /\ r.value = v /\ r.next = p /\ r.used = TRUE
  BY <1>7, NodeTypes
<1> HIDE DEF r
<1>9. h2 \in HeapType /\ h2[n] = r /\ \A q \in Node \ {n} : h2[q] = h1[q]
  <2>1. Put(h1, n, r, h2)
    BY <1>3 DEF Put, r, p
  <2> QED BY <2>1, <1>5, <1>8, HeapPut
<1>10. /\ t2 \in TableType /\ t2.buckets = [t1.buckets EXCEPT ![b] = n]
       /\ t2.capacity = t1.capacity /\ t2.size = t1.size + 1
  <2>1. OneMore(t1, b, n, t2)
    BY <1>3 DEF OneMore
  <2> QED BY <2>1, <1>5, <1>6, OneMoreInTable
<1>11. S \subseteq Node
  BY DEF GoodTable, Hashed
<1>12. AddedNode(h, h2, S, k, v, n)
  <2>1. \A q \in Node \ (S \cup {n}) : h2[q] = h[q]
    BY <1>5, <1>9 DEF Rehung
  <2>2. \A q \in S : h2[q].key = h[q].key /\ h2[q].value = h[q].value /\ h2[q].used = h[q].used
    BY <1>5, <1>9, <1>11 DEF Rehung
  <2> QED BY <2>1, <2>2, <1>8, <1>9 DEF AddedNode
<1>13. Hashed(h2, t2, S \cup {n})
  <2>1. h2[n].key = k /\ h2[n].next = t1.buckets[b]
    BY <1>8, <1>9 DEF p
  <2>2. \A q \in S : h2[q].next = h1[q].next /\ h2[q].key = h1[q].key
    BY <1>9, <1>11
  <2>3. b = bucket(t1, h2[n].key)
    BY <1>3, <2>1
  <2> QED BY <2>1, <2>2, <2>3, <1>5, <1>9, <1>10, HashedFront
<1>14. ASSUME NEW q1 \in S \cup {n}, NEW q2 \in S \cup {n}, h2[q1].key = h2[q2].key
       PROVE  q1 = q2
  <2>1. \A q \in S : h2[q].key = h[q].key /\ h[q].key # k
    BY <1>12 DEF AddedNode, KeysOf
  <2>2. h2[n].key = k
    BY <1>12 DEF AddedNode
  <2> QED BY <2>1, <2>2, <1>14 DEF GoodTable
<1>15. t2.size = Cardinality(S \cup {n})
  <2>1. t1.size = Cardinality(S)
    BY <1>5 DEF GoodTable
  <2>2. Cardinality(S \cup {n}) = Cardinality(S) + 1
    BY <1>11, FiniteNodes, FS_AddElement
  <2> QED BY <2>1, <2>2, <1>10
<1>16. GoodTable(h2, t2, S \cup {n})
  BY <1>5, <1>10, <1>13, <1>14, <1>15 DEF GoodTable
<1>17. KeysOf(h2, S \cup {n}) = KeysOf(h, S) \cup {k}
  <2>1. h2[n].key = k /\ \A q \in S : h2[q].key = h[q].key
    BY <1>12 DEF AddedNode
  <2> QED BY <2>1 DEF KeysOf
<1>18. a \in [heap : HeapType, table : TableType]
  BY <1>2, <1>9, <1>10
<1>19. Added(h, a, S, k, v, n)
  BY <1>4, <1>12, <1>16, <1>17, <1>18 DEF Added
<1> QED BY <1>19 DEF a

(* Union: the nodes at[k] come to those of S, one for each key of K.         *)
Joins(h, S, at, K) == S \cup {at[j] : j \in K}

Gained(h, m, S, at, K) ==
    /\ m \in [heap : HeapType, table : TableType]
    /\ GoodTable(m.heap, m.table, Joins(h, S, at, K))
    /\ KeysOf(m.heap, Joins(h, S, at, K)) = KeysOf(h, S) \cup K
    /\ \A q \in Node \ Joins(h, S, at, K) : m.heap[q] = h[q]
    /\ \A q \in S : /\ m.heap[q].key = h[q].key /\ m.heap[q].value = h[q].value
                    /\ m.heap[q].used = h[q].used
    /\ \A j \in K : m.heap[at[j]].used = TRUE

LEMMA KeyKnown ==
    ASSUME NEW h, NEW t, NEW S, GoodTable(h, t, S), NEW k \in Key
    PROVE  contains(h, t, k) <=> k \in KeysOf(h, S)
BY Holding DEF GoodTable, KeysOf

LEMMA GainOne ==
    ASSUME NEW h \in HeapType, NEW S, S \subseteq Node, \A q \in S : h[q].used,
           NEW lacking, lacking \cap KeysOf(h, S) = {},
           NEW at \in Injection(lacking, Unused(h)),
           NEW K, K \subseteq lacking, NEW m, Gained(h, m, S, at, K),
           NEW k \in Key, k \in KeysOf(h, S) \cup lacking
    PROVE  LET m2 == IF contains(m.heap, m.table, k) THEN m
                     ELSE add_node(m.heap, m.table, k, NULL, at[k])
           IN  Gained(h, m2, S, at, K \cup ({k} \ KeysOf(h, S)))
<1> DEFINE T == Joins(h, S, at, K)
<1>1. /\ m.heap \in HeapType /\ GoodTable(m.heap, m.table, T)
      /\ KeysOf(m.heap, T) = KeysOf(h, S) \cup K
      /\ \A q \in Node \ T : m.heap[q] = h[q]
      /\ \A q \in S : /\ m.heap[q].key = h[q].key /\ m.heap[q].value = h[q].value
                      /\ m.heap[q].used = h[q].used
      /\ \A j \in K : m.heap[at[j]].used = TRUE
  BY DEF Gained
<1>2. T = S \cup {at[j] : j \in K}
  BY DEF Joins
<1> HIDE DEF T
<1>3. contains(m.heap, m.table, k) <=> k \in KeysOf(h, S) \cup K
  BY <1>1, KeyKnown
<1>4. CASE contains(m.heap, m.table, k)
  <2>1. K \cup ({k} \ KeysOf(h, S)) = K
    BY <1>3, <1>4
  <2> QED BY <2>1, <1>4
<1>5. CASE ~ contains(m.heap, m.table, k)
  <2> DEFINE n == at[k]
             m2 == add_node(m.heap, m.table, k, NULL, n)
             K2 == K \cup {k}
  <2>1. k \notin KeysOf(h, S) /\ k \notin K /\ k \in lacking
    BY <1>3, <1>5
  <2>2. /\ at \in [lacking -> Unused(h)]
        /\ \A i, j \in lacking : at[i] = at[j] => i = j
    BY DEF Injection, IsInjective
  <2>3. n \in Node /\ ~ h[n].used
    BY <2>1, <2>2 DEF Unused
  <2>4. n \notin T
    <3>1. n \notin S
      BY <2>3
    <3>2. \A j \in K : at[j] # n
      BY <2>1, <2>2
    <3> QED BY <3>1, <3>2, <1>2
  <2>5. k \notin KeysOf(m.heap, T)
    BY <2>1, <1>1
  <2>6. NULL \in Value \cup {NULL}
    OBVIOUS
  <2> HIDE DEF n
  <2>8. Added(m.heap, m2, T, k, NULL, n)
    BY <2>3, <2>4, <2>5, <2>6, <1>1, AddNode
  <2> HIDE DEF m2
  <2>7. /\ AddedNode(m.heap, m2.heap, T, k, NULL, n)
        /\ GoodTable(m2.heap, m2.table, T \cup {n})
        /\ KeysOf(m2.heap, T \cup {n}) = KeysOf(m.heap, T) \cup {k}
        /\ m2 \in [heap : HeapType, table : TableType]
    BY <2>8 DEF Added
  <2>10. Joins(h, S, at, K2) = T \cup {n}
    BY <1>2 DEF Joins, n
  <2>11. KeysOf(m2.heap, T \cup {n}) = KeysOf(h, S) \cup K2
    BY <2>7, <1>1
  <2>12. \A q \in Node \ (T \cup {n}) : m2.heap[q] = h[q]
    BY <2>7, <1>1 DEF AddedNode
  <2>13. \A q \in S : /\ m2.heap[q].key = h[q].key /\ m2.heap[q].value = h[q].value
                      /\ m2.heap[q].used = h[q].used
    BY <2>7, <1>1, <1>2 DEF AddedNode
  <2>14. \A j \in K2 : m2.heap[at[j]].used = TRUE
    <3>1. \A j \in K : at[j] \in T
      BY <1>2
    <3>2. \A j \in K : m2.heap[at[j]].used = TRUE
      BY <3>1, <2>7, <1>1 DEF AddedNode
    <3>3. m2.heap[at[k]].used = TRUE
      BY <2>7 DEF AddedNode, n
    <3> QED BY <3>2, <3>3
  <2>15. Gained(h, m2, S, at, K2)
    BY <2>7, <2>10, <2>11, <2>12, <2>13, <2>14 DEF Gained
  <2>16. K \cup ({k} \ KeysOf(h, S)) = K2
    BY <2>1
  <2> QED BY <2>15, <2>16, <1>5 DEF m2, n
<1> QED BY <1>4, <1>5

LEMMA UnionIs ==
    ASSUME NEW h \in HeapType, NEW s, NEW S, GoodTable(h, s, S), \A q \in S : h[q].used,
           NEW t, NEW U, Hashed(h, t, U),
           NEW at \in Injection(Lacking(h, s, t), Unused(h))
    PROVE  /\ Lacking(h, s, t) = KeysOf(h, U) \ KeysOf(h, S)
           /\ Gained(h, united(h, s, t, at), S, at, Lacking(h, s, t))
<1> DEFINE nodes == Walk(h, t)
           n == Len(nodes)
           lacking == Lacking(h, s, t)
           step(m, i) == IF contains(m.heap, m.table, h[nodes[i]].key) THEN m
                         ELSE add_node(m.heap, m.table, h[nodes[i]].key, NULL,
                                       at[h[nodes[i]].key])
           L == {m \in [heap : HeapType, table : TableType] :
                     \E K \in SUBSET lacking : Gained(h, m, S, at, K)}
           start == [heap |-> h, table |-> s]
           E == [i \in 1..n |-> [m \in L |-> step(m, i)]]
<1>1. nodes \in Seq(Node) /\ ToSet(nodes) = U
  BY WalkIs
<1>2. lacking = {k \in KeysOf(h, U) : ~ contains(h, s, k)}
  BY <1>1 DEF Lacking, KeysOf
<1>3. U \subseteq Node /\ S \subseteq Node /\ KeysOf(h, U) \subseteq Key
  BY DEF Hashed, GoodTable, KeysOf
<1>4. lacking = KeysOf(h, U) \ KeysOf(h, S)
  BY <1>2, <1>3, KeyKnown
<1> HIDE DEF nodes, lacking
<1>5. n \in Nat /\ ToSet(nodes) = {nodes[i] : i \in 1..n}
  BY <1>1, ToSetOf
<1>6. ASSUME NEW i \in 1..n
      PROVE  h[nodes[i]].key \in Key /\ h[nodes[i]].key \in KeysOf(h, S) \cup lacking
  <2>1. nodes[i] \in U
    BY <1>1, <1>5
  <2>2. h[nodes[i]].key \in KeysOf(h, U)
    BY <2>1 DEF KeysOf
  <2> QED BY <2>2, <1>3, <1>4
<1>7. at \in Injection(lacking, Unused(h)) /\ lacking \cap KeysOf(h, S) = {}
  BY <1>4 DEF lacking
<1>8. ASSUME NEW i \in 1..n, NEW m, NEW K \in SUBSET lacking, Gained(h, m, S, at, K)
      PROVE  Gained(h, step(m, i), S, at, K \cup ({h[nodes[i]].key} \ KeysOf(h, S)))
             /\ K \cup ({h[nodes[i]].key} \ KeysOf(h, S)) \in SUBSET lacking
  <2> DEFINE k == h[nodes[i]].key
  <2>1. k \in Key /\ k \in KeysOf(h, S) \cup lacking
    BY <1>6
  <2> HIDE DEF k
  <2>2. Gained(h, IF contains(m.heap, m.table, k) THEN m
                  ELSE add_node(m.heap, m.table, k, NULL, at[k]),
               S, at, K \cup ({k} \ KeysOf(h, S)))
    BY <2>1, <1>3, <1>7, <1>8, GainOne
  <2>3. K \cup ({k} \ KeysOf(h, S)) \in SUBSET lacking
    BY <2>1
  <2> QED BY <2>2, <2>3 DEF k
<1>9. StepsOn(L, n, E)
  <2>1. ASSUME NEW i \in 1..n, NEW m \in L PROVE step(m, i) \in L
    <3>1. PICK K \in SUBSET lacking : Gained(h, m, S, at, K)
      OBVIOUS
    <3> HIDE DEF step
    <3>2. PICK K2 \in SUBSET lacking : Gained(h, step(m, i), S, at, K2)
      BY <3>1, <1>8
    <3>3. step(m, i) \in [heap : HeapType, table : TableType]
      BY <3>2 DEF Gained
    <3> QED BY <3>2, <3>3
  <2>2. E \in [1..n -> [L -> L]]
    <3> HIDE DEF L, n, step
    <3> QED BY <2>1
  <2> QED BY <2>2 DEF StepsOn
<1>10. start \in L /\ Gained(h, start, S, at, {})
  <2>1. start.heap = h /\ start.table = s /\ start \in [heap : HeapType, table : TableType]
    BY DEF GoodTable
  <2>2. Joins(h, S, at, {}) = S
    BY DEF Joins
  <2> HIDE DEF start
  <2>3. Gained(h, start, S, at, {})
    BY <2>1, <2>2 DEF Gained
  <2> QED BY <2>1, <2>3
<1>11. \E g : Runs(g, L, n, start, E)
  <2> HIDE DEF n, L, start, E
  <2> QED BY <1>5, <1>9, <1>10, Unrolled
<1> DEFINE P(g) == g = [i \in 0..n |->
                           IF i = 0 THEN [heap |-> h, table |-> s]
                           ELSE IF contains(g[i - 1].heap, g[i - 1].table, h[nodes[i]].key)
                                THEN g[i - 1]
                                ELSE add_node(g[i - 1].heap, g[i - 1].table,
                                         h[nodes[i]].key, NULL, at[h[nodes[i]].key])]
<1>12. ASSUME NEW g, Runs(g, L, n, start, E) PROVE P(g)
  <2>1. g \in [0..n -> L] /\ g[0] = start /\ \A i \in 1..n : g[i] = E[i][g[i - 1]]
    BY <1>12 DEF Runs
  <2>2. ASSUME NEW i \in 1..n PROVE g[i] = step(g[i - 1], i)
    <3>1. g[i - 1] \in L
      <4>1. i - 1 \in 0..n
        BY <1>5
      <4> HIDE DEF L, n, E
      <4> QED BY <4>1, <2>1
    <3>2. g[i] = E[i][g[i - 1]]
      BY <2>1
    <3> HIDE DEF L, step
    <3> QED BY <3>1, <3>2
  <2>3. ASSUME NEW i \in 0..n PROVE g[i] = IF i = 0 THEN start ELSE step(g[i - 1], i)
    <3>1. CASE i = 0
      BY <3>1, <2>1
    <3>2. CASE i # 0
      <4>1. i \in 1..n
        BY <3>2, <1>5
      <4> HIDE DEF step, start
      <4> QED BY <4>1, <3>2, <2>2
    <3> QED BY <3>1, <3>2
  <2>4. g = [i \in 0..n |-> g[i]]
    <3> HIDE DEF L, n, E, start
    <3> QED BY <2>1
  <2> QED BY <2>4, <2>3, Zenon
<1>13. \E g : P(g)
  BY <1>11, <1>12, Zenon
<1> DEFINE f == CHOOSE g : P(g)
<1>14. P(f)
  BY <1>13, Zenon
<1>15. united(h, s, t, at) = f[n]
  BY Zenon DEF united, nodes
<1>16. f[0] = start /\ \A i \in 1..n : f[i] = step(f[i - 1], i)
  <2>1. \A i \in 0..n : f[i] = IF i = 0 THEN start ELSE step(f[i - 1], i)
    <3> HIDE DEF f
    <3> QED BY <1>14
  <2>2. 0 \in 0..n /\ \A i \in 1..n : i \in 0..n /\ i # 0
    BY <1>5
  <2> HIDE DEF f, P, step, start
  <2> QED BY <2>1, <2>2
<1> HIDE DEF f, P, L, E, start
<1> DEFINE Met(i) == {h[nodes[j]].key : j \in 1..i} \ KeysOf(h, S)
           Good(i) == Met(i) \in SUBSET lacking /\ Gained(h, f[i], S, at, Met(i))
           I == {i \in 0..n : Good(i)}
<1>17. 0 \in I
  <2>1. Met(0) = {}
    OBVIOUS
  <2>2. Good(0)
    BY <2>1, <1>10, <1>16
  <2>3. 0 \in 0..n
    BY <1>5
  <2> HIDE DEF Good
  <2> QED BY <2>2, <2>3
<1>18. ASSUME NEW i \in 0..n - 1, i \in I PROVE i + 1 \in I
  <2>1. i + 1 \in 1..n /\ (i + 1) - 1 = i /\ i + 1 \in 0..n
    BY <1>5
  <2>2. f[i + 1] = step(f[i], i + 1)
    <3> HIDE DEF step
    <3>1. f[i + 1] = step(f[(i + 1) - 1], i + 1)
      BY <2>1, <1>16
    <3> QED BY <2>1, <3>1, Zenon
  <2>3. Met(i + 1) = Met(i) \cup ({h[nodes[i + 1]].key} \ KeysOf(h, S))
    <3>1. \A j : j \in 1..i + 1 <=> j \in 1..i \/ j = i + 1
      BY <2>1
    <3> QED BY <3>1
  <2>4. Good(i)
    BY <1>18
  <2> DEFINE K == Met(i)
             m == f[i]
  <2>a. K \in SUBSET lacking /\ Gained(h, m, S, at, K) /\ i + 1 \in 1..n
    BY <2>1, <2>4
  <2>b. Met(i + 1) = K \cup ({h[nodes[i + 1]].key} \ KeysOf(h, S)) /\ f[i + 1] = step(m, i + 1)
    BY <2>2, <2>3
  <2> HIDE DEF Met, step, K, m
  <2>c. Gained(h, step(m, i + 1), S, at, K \cup ({h[nodes[i + 1]].key} \ KeysOf(h, S)))
        /\ K \cup ({h[nodes[i + 1]].key} \ KeysOf(h, S)) \in SUBSET lacking
    BY <2>a, <1>8
  <2>5. Gained(h, f[i + 1], S, at, Met(i + 1)) /\ Met(i + 1) \in SUBSET lacking
    BY <2>b, <2>c
  <2>6. Good(i + 1)
    BY <2>5
  <2> HIDE DEF Good
  <2> QED BY <2>1, <2>6
<1>19. Good(n)
  <2> HIDE DEF n, Good
  <2>1. 0..n \subseteq I
    <3> HIDE DEF I
    <3> QED BY <1>5, <1>17, <1>18, Counted
  <2>2. n \in 0..n
    BY <1>5
  <2> QED BY <2>1, <2>2
<1>20. Met(n) = lacking
  BY <1>1, <1>4, <1>5 DEF KeysOf
<1> HIDE DEF Met
<1>21. Gained(h, united(h, s, t, at), S, at, lacking)
  BY <1>15, <1>19, <1>20
<1> QED BY <1>4, <1>21 DEF lacking


(* A node leaves its bucket. *)
LEMMA HashedLess ==
    ASSUME NEW h \in HeapType, NEW h2 \in HeapType, NEW t, NEW t2, NEW S, Hashed(h, t, S),
           NEW n \in S, NEW b, b = bucket(t, h[n].key),
           t2.capacity = t.capacity, t2.buckets \in [0..(t.capacity - 1) -> Pointer],
           \A c \in 0..(t.capacity - 1) : c # b => t2.buckets[c] = t.buckets[c],
           GoodChain(h2, t2.buckets[b]),
           Nodes(h2, t2.buckets[b]) = Nodes(h, t.buckets[b]) \ {n},
           \A q \in S \ Nodes(h, t.buckets[b]) : h2[q].next = h[q].next,
           \A q \in S \ {n} : h2[q].key = h[q].key
    PROVE  Hashed(h2, t2, S \ {n})
<1>1. /\ t.capacity \in Nat \ {0} /\ S \subseteq Node /\ \A q \in S : h[q].key \in Key
      /\ \A c \in 0..(t.capacity - 1) :
             /\ GoodChain(h, t.buckets[c])
             /\ Nodes(h, t.buckets[c]) = {q \in S : bucket(t, h[q].key) = c}
  BY DEF Hashed
<1>2. b \in 0..(t.capacity - 1)
  BY <1>1, BucketOf
<1>3. \A k : bucket(t2, k) = bucket(t, k)
  BY DEF bucket
<1>4. ASSUME NEW c \in 0..(t.capacity - 1)
      PROVE  /\ GoodChain(h2, t2.buckets[c])
             /\ Nodes(h2, t2.buckets[c]) = {q \in S \ {n} : bucket(t2, h2[q].key) = c}
  <2>1. CASE c = b
    <3>1. Nodes(h2, t2.buckets[b]) = {q \in S : bucket(t, h[q].key) = b} \ {n}
      BY <1>1, <1>2
    <3>2. {q \in S : bucket(t, h[q].key) = b} \ {n} = {q \in S \ {n} : bucket(t2, h2[q].key) = b}
      BY <1>3
    <3> QED BY <2>1, <3>1, <3>2
  <2>2. CASE c # b
    <3>1. GoodChain(h, t.buckets[c]) /\ t2.buckets[c] = t.buckets[c]
      BY <2>2, <1>1
    <3>2. \A q \in Nodes(h, t.buckets[c]) : h2[q].next = h[q].next
      BY <2>2, <1>1, <1>2
    <3>3. GoodChain(h2, t2.buckets[c]) /\ Nodes(h2, t2.buckets[c]) = Nodes(h, t.buckets[c])
      BY <3>1, <3>2, GoodChainKept
    <3>4. {q \in S : bucket(t, h[q].key) = c} = {q \in S \ {n} : bucket(t2, h2[q].key) = c}
      BY <2>2, <1>3
    <3> QED BY <3>3, <3>4, <1>1
  <2> QED BY <2>1, <2>2
<1> QED BY <1>1, <1>4 DEF Hashed

Smaller(t, t2) == t2 = [t EXCEPT !.size = @ - 1]

LEMMA SmallerTable ==
    ASSUME NEW t \in TableType, t.size # 0, NEW t2, Smaller(t, t2)
    PROVE  /\ t2 \in TableType /\ t2.buckets = t.buckets /\ t2.capacity = t.capacity
           /\ t2.size = t.size - 1
<1>1. t.size \in Nat /\ t.size - 1 \in Nat
  BY DEF TableType
<1>2. t2 = [buckets |-> t.buckets, capacity |-> t.capacity, size |-> t.size - 1]
  BY DEF Smaller, TableType
<1> QED BY <1>1, <1>2 DEF TableType

(* What taking a node out leaves. *)
Dropped(h, m, S, n) ==
    /\ m.heap \in HeapType /\ m.heap[n] = Freed
    /\ \A q \in Node \ S : m.heap[q] = h[q]
    /\ \A q \in S \ {n} : /\ m.heap[q].key = h[q].key /\ m.heap[q].value = h[q].value
                          /\ m.heap[q].used = h[q].used
    /\ GoodTable(m.heap, m.table, S \ {n})

(* The chain of a bucket without its node i, which is n. *)
UnlinkedChain(h, h2, p, p2, s, i) ==
    /\ h2 \in HeapType /\ h2[s[i]] = Freed
    /\ GoodChain(h2, p2) /\ Nodes(h2, p2) = ToSet(s) \ {s[i]}
    /\ \A q \in Node \ ToSet(s) : h2[q] = h[q]
    /\ \A q \in Node \ {s[i]} : /\ h2[q].key = h[q].key /\ h2[q].value = h[q].value
                                /\ h2[q].used = h[q].used

LEMMA UnlinkFirst ==
    ASSUME NEW h \in HeapType, NEW p, NEW s, IsChain(h, p, s), s # <<>>,
           NEW h2, Put(h, s[1], Freed, h2)
    PROVE  UnlinkedChain(h, h2, p, h[s[1]].next, s, 1)
<1>1. p \in Node /\ p = s[1]
  BY ChainTail
<1>2. h2 \in HeapType /\ h2[p] = Freed /\ \A q \in Node \ {p} : h2[q] = h[q]
  BY <1>1, NodeTypes, HeapPut
<1>3. s \in Seq(Node)
  BY DEF IsChain
<1>4. ToSet(s) \subseteq Node
  BY <1>3, ToSetOf
<1>5. /\ p \in ToSet(s) /\ IsChain(h2, h[p].next, Tail(s))
      /\ ToSet(Tail(s)) = ToSet(s) \ {p}
  BY <1>2, <1>4, ChainRest
<1>6. GoodChain(h2, h[p].next) /\ Nodes(h2, h[p].next) = ToSet(s) \ {p}
  BY <1>2, <1>5, ChainGood
<1> QED BY <1>1, <1>2, <1>4, <1>5, <1>6 DEF UnlinkedChain

LEMMA UnlinkLater ==
    ASSUME NEW h \in HeapType, NEW p, NEW s, IsChain(h, p, s), NEW i \in 2..Len(s),
           NEW h1, Linked(h, s[i - 1], h[s[i]].next, h1), NEW h2, Put(h1, s[i], Freed, h2)
    PROVE  UnlinkedChain(h, h2, p, p, s, i)
<1>1. /\ s \in Seq(Node) /\ Len(s) \in Nat /\ i - 1 \in 1..Len(s) /\ i \in 1..Len(s)
      /\ i - 1 # i
  BY DEF IsChain
<1> DEFINE x == s[i - 1]
           n == s[i]
<1>2. x \in Node /\ n \in Node
  BY <1>1
<1>3. x # n
  BY <1>1 DEF IsChain
<1>4. ToSet(s) \subseteq Node
  BY <1>1, ToSetOf
<1> HIDE DEF x, n
<1>5. h[n].next \in Pointer
  BY <1>2, HeapFields
<1>6. /\ h1 \in HeapType /\ h1[x].next = h[n].next /\ h1[x].key = h[x].key
      /\ h1[x].value = h[x].value /\ h1[x].used = h[x].used
      /\ \A q \in Node \ {x} : h1[q] = h[q]
  <2>1. Linked(h, x, h[n].next, h1)
    BY DEF x, n
  <2> QED BY <2>1, <1>2, <1>5, HeapNext
<1>7. h2 \in HeapType /\ h2[n] = Freed /\ \A q \in Node \ {n} : h2[q] = h1[q]
  <2>1. Put(h1, n, Freed, h2)
    BY DEF n
  <2> QED BY <2>1, <1>2, <1>6, NodeTypes, HeapPut
<1>8. h2[x].next = h[n].next /\ \A q \in Node \ {x, n} : h2[q] = h[q]
  BY <1>2, <1>3, <1>6, <1>7
<1>9. \A q \in ToSet(s) \ {x, n} : h2[q].next = h[q].next
  BY <1>4, <1>8
<1>10. /\ IsChain(h2, p, Without(s, i)) /\ ToSet(Without(s, i)) = ToSet(s) \ {n}
       /\ x \in ToSet(s) /\ n \in ToSet(s)
  BY <1>8, <1>9, ChainWithout DEF x, n
<1>11. GoodChain(h2, p) /\ Nodes(h2, p) = ToSet(s) \ {n}
  BY <1>7, <1>10, ChainGood
<1>12. \A q \in Node \ {n} : /\ h2[q].key = h[q].key /\ h2[q].value = h[q].value
                             /\ h2[q].used = h[q].used
  BY <1>6, <1>7
<1>13. \A q \in Node \ ToSet(s) : h2[q] = h[q]
  BY <1>8, <1>10
<1> QED BY <1>7, <1>11, <1>12, <1>13 DEF UnlinkedChain, n

Fronted(t, b, n, t2) == t2 = [t EXCEPT !.buckets[b] = n]

LEMMA FrontedTable ==
    ASSUME NEW t \in TableType, t.buckets \in [0..(t.capacity - 1) -> Pointer],
           NEW b \in 0..(t.capacity - 1), NEW n \in Pointer,
           NEW t2, Fronted(t, b, n, t2)
    PROVE  /\ t2 \in TableType /\ t2.buckets \in [0..(t2.capacity - 1) -> Pointer]
           /\ t2.capacity = t.capacity /\ t2.size = t.size
           /\ t2.buckets = [t.buckets EXCEPT ![b] = n]
BY FrontTable DEF Fronted

(* hashset_remove takes out the one node of the key. *)
LEMMA RemoveNode ==
    ASSUME NEW h \in HeapType, NEW t, NEW S, GoodTable(h, t, S),
           NEW k \in Key, contains(h, t, k)
    PROVE  /\ lookup(h, t, k) \in S /\ h[lookup(h, t, k)].key = k
           /\ Dropped(h, unlink(h, t, bucket(t, k), Chain(h, t.buckets[bucket(t, k)]),
                                Min(Found(h, t, k))),
                      S, lookup(h, t, k))
<1> DEFINE b == bucket(t, k)
           p == t.buckets[b]
           s == Chain(h, p)
           i == Min(Found(h, t, k))
           n == s[i]
           a == unlink(h, t, b, s, i)
           after == h[n].next
           s1 == [t EXCEPT !.size = @ - 1]
<1>1. /\ b \in 0..(t.capacity - 1) /\ s \in Seq(Node)
      /\ i \in 1..Len(s) /\ n \in S /\ h[n].key = k
  <2>1. Hashed(h, t, S)
    BY DEF GoodTable
  <2>2. /\ b \in 0..(t.capacity - 1) /\ s \in Seq(Node)
        /\ Found(h, t, k) = {j \in 1..Len(s) : h[s[j]].key = k}
        /\ \A j \in Found(h, t, k) : s[j] \in S
        /\ i \in Found(h, t, k)
    BY <2>1, Holding
  <2> HIDE DEF i, s, b
  <2> QED BY <2>2
<1>2. lookup(h, t, k) = n
  BY DEF lookup
<1>3. /\ i = 1 => a = [heap |-> free(h, n), table |-> [s1 EXCEPT !.buckets[b] = after]]
      /\ i # 1 => a = [heap |-> free([h EXCEPT ![s[i - 1]].next = after], n), table |-> s1]
  BY Zenon DEF unlink
<1>4. /\ t \in TableType /\ t.capacity >= 5 /\ Hashed(h, t, S) /\ t.size = Cardinality(S)
      /\ 10 * t.size <= 7 * t.capacity /\ \A x, y \in S : h[x].key = h[y].key => x = y
      /\ t.capacity \in Nat \ {0} /\ t.buckets \in [0..(t.capacity - 1) -> Pointer]
      /\ S \subseteq Node
  BY DEF GoodTable, Hashed
<1>5. b = bucket(t, h[n].key) /\ IsChain(h, p, s) /\ Nodes(h, p) = ToSet(s)
  <2>1. GoodChain(h, p)
    BY <1>1, <1>4 DEF Hashed
  <2>2. b = bucket(t, h[n].key)
    BY <1>1
  <2> QED BY <2>1, <2>2 DEF GoodChain, Nodes
<1>6. ToSet(s) = {q \in S : bucket(t, h[q].key) = b}
  BY <1>1, <1>4, <1>5 DEF Hashed
<1>7. Smaller(t, s1)
  BY DEF Smaller
<1> HIDE DEF b, p, s, i, n, a, after, s1
<1>8. IsFiniteSet(S) /\ Cardinality(S) \in Nat /\ Cardinality(S \ {n}) = Cardinality(S) - 1
      /\ t.size # 0
  <2>1. IsFiniteSet(S) /\ Cardinality(S) \in Nat
    BY <1>4, FiniteNodes
  <2>2. Cardinality(S \ {n}) = Cardinality(S) - 1
    BY <2>1, <1>1, FS_RemoveElement
  <2>3. Cardinality(S \ {n}) \in Nat
    BY <1>4, FiniteNodes
  <2> QED BY <2>1, <2>2, <2>3, <1>4
<1>9. /\ s1 \in TableType /\ s1.buckets = t.buckets /\ s1.capacity = t.capacity
      /\ s1.size = t.size - 1
  BY <1>4, <1>7, <1>8, SmallerTable
<1>10. \E p2 : /\ UnlinkedChain(h, a.heap, p, p2, s, i)
               /\ a.table \in TableType /\ a.table.capacity = t.capacity
               /\ a.table.size = t.size - 1
               /\ a.table.buckets \in [0..(t.capacity - 1) -> Pointer]
               /\ a.table.buckets[b] = p2
               /\ \A c \in 0..(t.capacity - 1) : c # b => a.table.buckets[c] = t.buckets[c]
  <2>1. CASE i = 1
    <3>1. after \in Pointer
      BY <1>1, <1>4, HeapFields DEF after
    <3>2. a.heap = free(h, n) /\ a.table = [s1 EXCEPT !.buckets[b] = after]
      BY <2>1, <1>3
    <3>3. Put(h, s[1], Freed, a.heap)
      BY <3>2, <2>1 DEF Put, free, n
    <3>4. s # <<>>
      BY <1>1
    <3>5. UnlinkedChain(h, a.heap, p, h[s[1]].next, s, 1)
      BY <3>3, <3>4, <1>5, UnlinkFirst
    <3>6. UnlinkedChain(h, a.heap, p, after, s, i)
      BY <3>5, <2>1 DEF after, n
    <3>7. /\ a.table \in TableType /\ a.table.capacity = s1.capacity
          /\ a.table.buckets \in [0..(a.table.capacity - 1) -> Pointer]
          /\ a.table.size = s1.size /\ a.table.buckets = [s1.buckets EXCEPT ![b] = after]
      <4>1. Fronted(s1, b, after, a.table)
        BY <3>2 DEF Fronted
      <4>2. s1.buckets \in [0..(s1.capacity - 1) -> Pointer] /\ b \in 0..(s1.capacity - 1)
        BY <1>1, <1>4, <1>9
      <4> QED BY <4>1, <4>2, <3>1, <1>9, FrontedTable
    <3>8. a.table.buckets[b] = after
          /\ \A c \in 0..(t.capacity - 1) : c # b => a.table.buckets[c] = t.buckets[c]
      BY <3>7, <1>1, <1>4, <1>9
    <3> QED BY <3>6, <3>7, <3>8, <1>9
  <2>2. CASE i # 1
    <3> DEFINE h1 == [h EXCEPT ![s[i - 1]].next = after]
    <3>1. a.heap = free(h1, n) /\ a.table = s1
      BY <2>2, <1>3
    <3>2. Linked(h, s[i - 1], h[s[i]].next, h1)
      BY DEF Linked, after, n
    <3> HIDE DEF h1
    <3>3. Put(h1, s[i], Freed, a.heap)
      BY <3>1 DEF Put, free, n
    <3>4. i \in 2..Len(s)
      BY <2>2, <1>1
    <3>5. UnlinkedChain(h, a.heap, p, p, s, i)
      BY <3>2, <3>3, <3>4, <1>5, UnlinkLater
    <3> QED BY <3>1, <3>5, <1>4, <1>9 DEF p
  <2> QED BY <2>1, <2>2
<1>11. PICK p2 : /\ UnlinkedChain(h, a.heap, p, p2, s, i)
                 /\ a.table \in TableType /\ a.table.capacity = t.capacity
                 /\ a.table.size = t.size - 1
                 /\ a.table.buckets \in [0..(t.capacity - 1) -> Pointer]
                 /\ a.table.buckets[b] = p2
                 /\ \A c \in 0..(t.capacity - 1) : c # b => a.table.buckets[c] = t.buckets[c]
  BY <1>10
<1>12. /\ a.heap \in HeapType /\ a.heap[n] = Freed
       /\ GoodChain(a.heap, p2) /\ Nodes(a.heap, p2) = ToSet(s) \ {n}
       /\ \A q \in Node \ ToSet(s) : a.heap[q] = h[q]
       /\ \A q \in Node \ {n} : /\ a.heap[q].key = h[q].key /\ a.heap[q].value = h[q].value
                                /\ a.heap[q].used = h[q].used
  BY <1>11 DEF UnlinkedChain, n
<1>13. Hashed(a.heap, a.table, S \ {n})
  <2>1. \A q \in S \ Nodes(h, t.buckets[b]) : a.heap[q].next = h[q].next
    BY <1>4, <1>5, <1>12 DEF p
  <2>2. \A q \in S \ {n} : a.heap[q].key = h[q].key
    BY <1>4, <1>12
  <2>3. GoodChain(a.heap, a.table.buckets[b])
        /\ Nodes(a.heap, a.table.buckets[b]) = Nodes(h, t.buckets[b]) \ {n}
    BY <1>11, <1>12, <1>5 DEF p
  <2>4. n \in S
    BY <1>1
  <2> DEFINE h2 == a.heap
             t2 == a.table
  <2>5. /\ h2 \in HeapType /\ t2.capacity = t.capacity
        /\ t2.buckets \in [0..(t.capacity - 1) -> Pointer]
        /\ \A c \in 0..(t.capacity - 1) : c # b => t2.buckets[c] = t.buckets[c]
    BY <1>11, <1>12
  <2>6. /\ GoodChain(h2, t2.buckets[b])
        /\ Nodes(h2, t2.buckets[b]) = Nodes(h, t.buckets[b]) \ {n}
        /\ \A q \in S \ Nodes(h, t.buckets[b]) : h2[q].next = h[q].next
        /\ \A q \in S \ {n} : h2[q].key = h[q].key
    BY <2>1, <2>2, <2>3
  <2>7. Hashed(h, t, S) /\ b = bucket(t, h[n].key)
    BY <1>4, <1>5
  <2> HIDE DEF h2, t2
  <2>8. Hashed(h2, t2, S \ {n})
    BY <2>4, <2>5, <2>6, <2>7, HashedLess
  <2> QED BY <2>8 DEF h2, t2
<1>14. GoodTable(a.heap, a.table, S \ {n})
  <2>1. \A x, y \in S \ {n} : a.heap[x].key = a.heap[y].key => x = y
    BY <1>4, <1>12
  <2>2. a.table.size = Cardinality(S \ {n}) /\ 10 * a.table.size <= 7 * a.table.capacity
    BY <1>4, <1>8, <1>11
  <2> QED BY <2>1, <2>2, <1>4, <1>11, <1>13 DEF GoodTable
<1>15. Dropped(h, a, S, n)
  <2>1. \A q \in Node \ S : a.heap[q] = h[q]
    BY <1>6, <1>12
  <2>2. \A q \in S \ {n} : /\ a.heap[q].key = h[q].key /\ a.heap[q].value = h[q].value
                           /\ a.heap[q].used = h[q].used
    BY <1>4, <1>12
  <2> QED BY <2>1, <2>2, <1>12, <1>14 DEF Dropped
<1>16. n \in S /\ h[n].key = k
  BY <1>1
<1> QED BY <1>2, <1>15, <1>16 DEF a, b, s, p, i

(* hashset_clear frees all nodes and empties the buckets, as many as there are. *)
Cleared(t, t2) == t2 = [t EXCEPT !.buckets = [i \in DOMAIN @ |-> NULL], !.size = 0]

LEMMA ClearedTable ==
    ASSUME NEW h, NEW t, NEW S, GoodTable(h, t, S), NEW h2 \in HeapType, NEW t2, Cleared(t, t2)
    PROVE  GoodTable(h2, t2, {})
<1> DEFINE c == t.capacity
           u == [i \in 0..(c - 1) |-> NULL]
<1>1. /\ t \in TableType /\ c \in Nat \ {0} /\ c >= 5
      /\ t.buckets \in [0..(c - 1) -> Pointer]
  BY DEF GoodTable, Hashed
<1>2. t2 = [buckets |-> u, capacity |-> c, size |-> 0]
  <2>1. DOMAIN t.buckets = 0..(c - 1)
    <3> HIDE DEF c
    <3> QED BY <1>1
  <2>2. t2 = [t EXCEPT !.buckets = u, !.size = 0]
    BY <2>1 DEF Cleared
  <2> HIDE DEF u
  <2> QED BY <2>2, <1>1 DEF TableType
<1>3. u \in [0..(c - 1) -> Pointer]
  BY DEF Pointer
<1>4. u \in UNION {[0..(d - 1) -> Pointer] : d \in Nat \ {0}}
  <2> HIDE DEF u
  <2> QED BY <1>1, <1>3
<1>5. t2.buckets = u /\ t2.capacity = c /\ t2.size = 0
  <2> HIDE DEF u
  <2> QED BY <1>2
<1>6. t2 \in TableType
  <2> HIDE DEF u, c
  <2> QED BY <1>1, <1>2, <1>4 DEF TableType
<1>7. Hashed(h2, t2, {})
  BY <1>1, <1>5, HashedEmpty
<1>8. t2.size = Cardinality({})
  BY <1>5, FS_EmptySet
<1> HIDE DEF u, c
<1> QED BY <1>1, <1>5, <1>6, <1>7, <1>8 DEF GoodTable

LEMMA FreedAll ==
    ASSUME NEW h \in HeapType, NEW S, S \subseteq Node
    PROVE  /\ free_all(h, S) \in HeapType
           /\ \A n \in S : free_all(h, S)[n] = Freed
           /\ \A n \in Node \ S : free_all(h, S)[n] = h[n]
<1>1. \A n \in Node : free_all(h, S)[n] = IF n \in S THEN Freed ELSE h[n]
  BY DEF free_all
<1>2. free_all(h, S) \in HeapType
  <2>1. \A n \in Node : (IF n \in S THEN Freed ELSE h[n]) \in NodeType
    BY NodeTypes DEF HeapType
  <2> QED BY <2>1 DEF free_all, HeapType
<1> QED BY <1>1, <1>2

(* A node whose key, next and used stay can get another value. *)
LEMMA TableKept ==
    ASSUME NEW h \in HeapType, NEW h2 \in HeapType, NEW t, NEW S, GoodTable(h, t, S),
           \A n \in S : h2[n].next = h[n].next /\ h2[n].key = h[n].key
    PROVE  /\ GoodTable(h2, t, S) /\ KeysOf(h2, S) = KeysOf(h, S)
           /\ \A k \in Key : /\ contains(h2, t, k) <=> contains(h, t, k)
                             /\ contains(h, t, k) => lookup(h2, t, k) = lookup(h, t, k)
<1>1. Hashed(h, t, S)
  BY DEF GoodTable
<1>2. /\ Hashed(h2, t, S)
      /\ \A b \in 0..(t.capacity - 1) : Chain(h2, t.buckets[b]) = Chain(h, t.buckets[b])
  BY <1>1, HashedKept
<1>3. KeysOf(h2, S) = KeysOf(h, S)
  BY DEF KeysOf
<1>4. GoodTable(h2, t, S)
  BY <1>2 DEF GoodTable
<1>5. ASSUME NEW k \in Key
      PROVE  /\ contains(h2, t, k) <=> contains(h, t, k)
             /\ contains(h, t, k) => lookup(h2, t, k) = lookup(h, t, k)
  <2>1. contains(h2, t, k) <=> contains(h, t, k)
    BY <1>3, <1>4, KeyKnown
  <2>2. /\ contains(h, t, k) => lookup(h, t, k) \in S /\ h[lookup(h, t, k)].key = k
        /\ contains(h2, t, k) => lookup(h2, t, k) \in S /\ h2[lookup(h2, t, k)].key = k
    BY <1>1, <1>2, Holding
  <2>3. \A n, m \in S : h[n].key = h[m].key => n = m
    BY DEF GoodTable
  <2>4. \A n \in S : h2[n].key = h[n].key
    OBVIOUS
  <2> QED BY <2>1, <2>2, <2>3, <2>4
<1> QED BY <1>3, <1>4, <1>5

(* What a lookup returns. *)
LEMMA GetIs ==
    ASSUME NEW h, NEW t, NEW S, GoodTable(h, t, S), NEW k \in Key
    PROVE  /\ k \notin KeysOf(h, S) => get(h, t, k) = NULL
           /\ \A n \in S : h[n].key = k => get(h, t, k) = h[n].value
<1>1. contains(h, t, k) <=> k \in KeysOf(h, S)
  BY KeyKnown
<1>2. contains(h, t, k) => lookup(h, t, k) \in S /\ h[lookup(h, t, k)].key = k
  BY Holding DEF GoodTable
<1>3. \A n, m \in S : h[n].key = h[m].key => n = m
  BY DEF GoodTable
<1>4. ASSUME NEW n \in S, h[n].key = k PROVE get(h, t, k) = h[n].value
  <2>1. contains(h, t, k)
    BY <1>1, <1>4 DEF KeysOf
  <2>2. lookup(h, t, k) = n
    BY <2>1, <1>2, <1>3, <1>4
  <2> QED BY <2>1, <2>2 DEF get
<1> QED BY <1>1, <1>4 DEF get

-----------------------------------------------------------------------------
(* Queue, stack and list: the values of a chain *)

ValuesOf(h, p) == [i \in 1..Len(Chain(h, p)) |-> h[Chain(h, p)[i]].value]

Slot == Value \cup {NULL}

LEMMA ValuesAre ==
    ASSUME NEW h \in HeapType, NEW p, NEW s, IsChain(h, p, s)
    PROVE  /\ ValuesOf(h, p) \in Seq(Slot) /\ Len(ValuesOf(h, p)) = Len(s)
           /\ \A i \in 1..Len(s) : ValuesOf(h, p)[i] = h[s[i]].value
<1> DEFINE u == [i \in 1..Len(s) |-> h[s[i]].value]
<1>1. Chain(h, p) = s
  BY ChainIs
<1>2. s \in Seq(Node) /\ Len(s) \in Nat
  BY DEF IsChain
<1>3. \A i \in 1..Len(s) : h[s[i]].value \in Slot
  BY <1>2, HeapFields DEF Slot
<1>4. u \in Seq(Slot) /\ Len(u) = Len(s) /\ \A i \in 1..Len(s) : u[i] = h[s[i]].value
  BY <1>2, <1>3
<1> HIDE DEF u
<1>5. ValuesOf(h, p) = u
  BY <1>1 DEF ValuesOf, u
<1> QED BY <1>4, <1>5

LEMMA ValuesKept ==
    ASSUME NEW h \in HeapType, NEW h2 \in HeapType, NEW p, GoodChain(h, p),
           \A n \in Nodes(h, p) : h2[n].next = h[n].next /\ h2[n].value = h[n].value
    PROVE  ValuesOf(h2, p) = ValuesOf(h, p)
<1> DEFINE s == Chain(h, p)
<1>1. Chain(h2, p) = s
  BY GoodChainKept
<1>2. s \in Seq(Node) /\ Nodes(h, p) = ToSet(s)
  BY ChainOf DEF Nodes
<1> HIDE DEF s
<1>3. \A i \in 1..Len(s) : s[i] \in Nodes(h, p)
  BY <1>2, ToSetOf
<1>4. \A i \in 1..Len(s) : h2[s[i]].value = h[s[i]].value
  BY <1>3
<1>5. ValuesOf(h, p) = [i \in 1..Len(s) |-> h[s[i]].value]
      /\ ValuesOf(h2, p) = [i \in 1..Len(s) |-> h2[s[i]].value]
  BY <1>1 DEF ValuesOf, s
<1> QED BY <1>4, <1>5

(* What is true of a chain after a node has come to its front. *)
ToFront(h, h2, p, n, v) ==
    /\ h2 \in HeapType /\ h2[n].used = TRUE /\ \A q \in Node \ {n} : h2[q] = h[q]
    /\ GoodChain(h2, n) /\ Nodes(h2, n) = Nodes(h, p) \cup {n}
    /\ ValuesOf(h2, n) = <<v>> \o ValuesOf(h, p)
    /\ p = NULL => Last(Chain(h2, n)) = n

LEMMA PushedFront ==
    ASSUME NEW h \in HeapType, NEW p, GoodChain(h, p), NEW n \in Node, n \notin Nodes(h, p),
           NEW v \in Value, NEW h2, Put(h, n, NewNode(NULL, v, p), h2)
    PROVE  ToFront(h, h2, p, n, v)
<1> DEFINE s == Chain(h, p)
           r == NewNode(NULL, v, p)
           u == <<n>> \o s
<1>1. /\ IsChain(h, p, s) /\ Nodes(h, p) = ToSet(s)
      /\ p = NULL <=> s = <<>>
  BY ChainOf DEF GoodChain, Nodes
<1> HIDE DEF s
<1>2. p \in Pointer
  BY <1>1, ChainGood
<1>3. r \in NodeType /\ r.value = v /\ r.next = p /\ r.used = TRUE
  BY <1>2, NodeTypes
<1> HIDE DEF r
<1>4. h2 \in HeapType /\ h2[n] = r /\ \A q \in Node \ {n} : h2[q] = h[q]
  BY <1>3, HeapPut DEF r
<1>5. s \in Seq(Node) /\ Len(s) \in Nat
  BY <1>1 DEF IsChain
<1>6. ToSet(s) \subseteq Node
  BY <1>5, ToSetOf
<1>7. \A q \in ToSet(s) : h2[q] = h[q]
  BY <1>1, <1>4, <1>6
<1>8. IsChain(h2, n, u) /\ ToSet(u) = ToSet(s) \cup {n}
  BY <1>1, <1>3, <1>4, <1>7, ChainFront
<1>9. Len(u) = Len(s) + 1 /\ u[1] = n /\ \A i \in 1..Len(s) : u[i + 1] = s[i]
  BY <1>5
<1> HIDE DEF u
<1>10. GoodChain(h2, n) /\ Nodes(h2, n) = ToSet(s) \cup {n} /\ Chain(h2, n) = u
  BY <1>4, <1>8, ChainGood
<1> DEFINE a == ValuesOf(h, p)
           b == ValuesOf(h2, n)
           c == <<v>> \o a
<1>11. /\ a \in Seq(Slot) /\ Len(a) = Len(s) /\ \A i \in 1..Len(s) : a[i] = h[s[i]].value
  BY <1>1, ValuesAre
<1>12. /\ b \in Seq(Slot) /\ Len(b) = Len(u) /\ \A i \in 1..Len(u) : b[i] = h2[u[i]].value
  BY <1>4, <1>8, ValuesAre
<1> HIDE DEF a, b
<1>13. v \in Slot
  BY DEF Slot
<1>14. c \in Seq(Slot) /\ Len(c) = Len(s) + 1 /\ c[1] = v /\ \A i \in 1..Len(s) : c[i + 1] = a[i]
  BY <1>11, <1>13
<1> HIDE DEF c
<1>15. ASSUME NEW i \in 1..Len(s) + 1 PROVE b[i] = c[i]
  <2>1. CASE i = 1
    BY <2>1, <1>3, <1>4, <1>5, <1>9, <1>12, <1>14
  <2>2. CASE i # 1
    <3> DEFINE j == i - 1
    <3>1. j \in 1..Len(s) /\ i = j + 1 /\ i \in 1..Len(u)
      BY <2>2, <1>5, <1>9
    <3> HIDE DEF j
    <3>2. u[i] = s[j] /\ c[i] = a[j] /\ b[i] = h2[u[i]].value
      BY <3>1, <1>9, <1>12, <1>14
    <3>3. s[j] \in ToSet(s)
      BY <3>1, <1>5, ToSetOf
    <3>4. h2[s[j]].value = h[s[j]].value
      BY <3>3, <1>7
    <3> QED BY <3>1, <3>2, <3>4, <1>11
  <2> QED BY <2>1, <2>2
<1>16. b = c
  BY <1>9, <1>12, <1>14, <1>15, SeqEqual
<1>17. p = NULL => Last(u) = n
  BY <1>1, <1>5, <1>9 DEF Last
<1> QED BY <1>1, <1>3, <1>4, <1>10, <1>16, <1>17 DEF ToFront, a, b, c

(* What is left when the first node has gone. *)
FromFront(h, h2, p) ==
    /\ h2 \in HeapType /\ h2[p] = Freed /\ \A q \in Node \ {p} : h2[q] = h[q]
    /\ p \in Nodes(h, p)
    /\ GoodChain(h2, h[p].next) /\ Nodes(h2, h[p].next) = Nodes(h, p) \ {p}
    /\ ValuesOf(h, p) # <<>>
    /\ Head(ValuesOf(h, p)) = h[p].value
    /\ Tail(ValuesOf(h, p)) = ValuesOf(h2, h[p].next)
    /\ h[p].next # NULL => Last(Chain(h2, h[p].next)) = Last(Chain(h, p))

LEMMA TookFirst ==
    ASSUME NEW h \in HeapType, NEW p, GoodChain(h, p), p # NULL,
           NEW h2, Put(h, p, Freed, h2)
    PROVE  FromFront(h, h2, p)
<1> DEFINE s == Chain(h, p)
           u == Tail(s)
           x == h[p].next
<1>1. /\ IsChain(h, p, s) /\ Nodes(h, p) = ToSet(s) /\ s # <<>>
  BY ChainOf DEF GoodChain, Nodes
<1> HIDE DEF s
<1>2. p \in Node /\ p = s[1]
  BY <1>1, ChainTail
<1>3. h2 \in HeapType /\ h2[p] = Freed /\ \A q \in Node \ {p} : h2[q] = h[q]
  BY <1>2, NodeTypes, HeapPut
<1>4. s \in Seq(Node) /\ Len(s) \in Nat /\ Len(s) >= 1
  BY <1>1 DEF IsChain
<1>5. ToSet(s) \subseteq Node
  BY <1>4, ToSetOf
<1>6. \A q \in ToSet(s) \ {p} : h2[q].next = h[q].next
  BY <1>3, <1>5
<1>7. p \in ToSet(s) /\ IsChain(h2, x, u) /\ ToSet(u) = ToSet(s) \ {p}
  BY <1>1, <1>6, ChainRest
<1>8. Len(u) = Len(s) - 1 /\ \A i \in 1..Len(u) : u[i] = s[i + 1]
  BY <1>4
<1> HIDE DEF u, x
<1>9. GoodChain(h2, x) /\ Nodes(h2, x) = ToSet(s) \ {p} /\ Chain(h2, x) = u
  BY <1>3, <1>7, ChainGood
<1> DEFINE a == ValuesOf(h, p)
           b == ValuesOf(h2, x)
           c == Tail(a)
<1>10. /\ a \in Seq(Slot) /\ Len(a) = Len(s) /\ \A i \in 1..Len(s) : a[i] = h[s[i]].value
  BY <1>1, ValuesAre
<1>11. /\ b \in Seq(Slot) /\ Len(b) = Len(u) /\ \A i \in 1..Len(u) : b[i] = h2[u[i]].value
  BY <1>3, <1>7, ValuesAre
<1> HIDE DEF a, b
<1>12. a # <<>> /\ Head(a) = h[p].value
  BY <1>2, <1>4, <1>10
<1>13. c \in Seq(Slot) /\ Len(c) = Len(a) - 1 /\ \A i \in 1..Len(a) - 1 : c[i] = a[i + 1]
  BY <1>4, <1>10
<1> HIDE DEF c
<1>14. ASSUME NEW i \in 1..Len(u) PROVE c[i] = b[i]
  <2>1. i \in 1..Len(a) - 1 /\ i + 1 \in 1..Len(s) /\ i + 1 # 1
    BY <1>4, <1>8, <1>10
  <2>2. c[i] = h[s[i + 1]].value /\ b[i] = h2[s[i + 1]].value
    BY <2>1, <1>8, <1>10, <1>11, <1>13
  <2>3. s[i + 1] # p /\ s[i + 1] \in Node
    BY <2>1, <1>1, <1>2, <1>4 DEF IsChain
  <2> QED BY <2>2, <2>3, <1>3
<1>15. c = b
  BY <1>4, <1>8, <1>10, <1>11, <1>13, <1>14, SeqEqual
<1>16. ASSUME x # NULL PROVE Last(u) = Last(s)
  <2>1. u # <<>> /\ u \in Seq(Node)
    BY <1>7, <1>16 DEF IsChain, First
  <2>2. Len(u) >= 1 /\ Len(u) \in Nat
    BY <2>1
  <2>3. u[Len(u)] = s[Len(u) + 1] /\ Len(u) + 1 = Len(s)
    BY <2>2, <1>4, <1>8
  <2> QED BY <2>3 DEF Last
<1> QED BY <1>1, <1>3, <1>7, <1>9, <1>12, <1>15, <1>16 DEF FromFront, s, x, a, b, c

(* What a node at the end makes of a chain. *)
ToEnd(h, h2, p, n, v) ==
    /\ h2 \in HeapType /\ h2[n].used = TRUE /\ \A q \in Node \ (Nodes(h, p) \cup {n}) : h2[q] = h[q]
    /\ \A q \in Nodes(h, p) : h2[q].used = h[q].used
    /\ GoodChain(h2, p) /\ Nodes(h2, p) = Nodes(h, p) \cup {n}
    /\ ValuesOf(h2, p) = Append(ValuesOf(h, p), v)
    /\ Last(Chain(h2, p)) = n

LEMMA AddedLast ==
    ASSUME NEW h \in HeapType, NEW p, GoodChain(h, p), p # NULL,
           NEW n \in Node, n \notin Nodes(h, p), NEW v \in Value,
           NEW h1, Put(h, n, NewNode(NULL, v, NULL), h1),
           NEW h2, Linked(h1, Last(Chain(h, p)), n, h2)
    PROVE  ToEnd(h, h2, p, n, v)
<1> DEFINE s == Chain(h, p)
           r == NewNode(NULL, v, NULL)
           u == Append(s, n)
           x == Last(s)
<1>1. /\ IsChain(h, p, s) /\ Nodes(h, p) = ToSet(s) /\ s # <<>>
  BY ChainOf DEF GoodChain, Nodes
<1>2. Linked(h1, x, n, h2)
  OBVIOUS
<1> HIDE DEF s
<1>3. s \in Seq(Node) /\ Len(s) \in Nat /\ Len(s) >= 1 /\ x = s[Len(s)]
  BY <1>1 DEF IsChain, Last
<1>4. x \in ToSet(s) /\ ToSet(s) \subseteq Node
  BY <1>3, ToSetOf
<1>5. r \in NodeType /\ r.value = v /\ r.next = NULL /\ r.used = TRUE
  BY NodeTypes DEF Pointer
<1> HIDE DEF r, x
<1>6. h1 \in HeapType /\ h1[n] = r /\ \A q \in Node \ {n} : h1[q] = h[q]
  BY <1>5, HeapPut DEF r
<1>7. x \in Node /\ n \in Pointer /\ x # n
  BY <1>1, <1>4 DEF Pointer
<1>8. /\ h2 \in HeapType
      /\ h2[x].next = n /\ h2[x].value = h1[x].value /\ h2[x].used = h1[x].used
      /\ \A q \in Node \ {x} : h2[q] = h1[q]
  BY <1>2, <1>6, <1>7, HeapNext
<1>9. h2[n] = r /\ \A q \in Node \ {x, n} : h2[q] = h[q]
  BY <1>6, <1>7, <1>8
<1>10. \A q \in ToSet(s) : h2[q].value = h[q].value /\ h2[q].used = h[q].used
  BY <1>1, <1>4, <1>6, <1>7, <1>8
<1>11. \A q \in ToSet(s) \ {x} : h2[q].next = h[q].next
  BY <1>1, <1>4, <1>9
<1>12. IsChain(h2, p, u) /\ ToSet(u) = ToSet(s) \cup {n}
  BY <1>1, <1>5, <1>8, <1>9, <1>11, ChainEnd DEF x
<1>13. Len(u) = Len(s) + 1 /\ u[Len(s) + 1] = n /\ \A i \in 1..Len(s) : u[i] = s[i]
  BY <1>3
<1> HIDE DEF u
<1>14. GoodChain(h2, p) /\ Nodes(h2, p) = ToSet(s) \cup {n} /\ Chain(h2, p) = u
  BY <1>8, <1>12, ChainGood
<1> DEFINE a == ValuesOf(h, p)
           b == ValuesOf(h2, p)
           c == Append(a, v)
<1>15. /\ a \in Seq(Slot) /\ Len(a) = Len(s) /\ \A i \in 1..Len(s) : a[i] = h[s[i]].value
  BY <1>1, ValuesAre
<1>16. /\ b \in Seq(Slot) /\ Len(b) = Len(u) /\ \A i \in 1..Len(u) : b[i] = h2[u[i]].value
  BY <1>8, <1>12, ValuesAre
<1> HIDE DEF a, b
<1>17. v \in Slot
  BY DEF Slot
<1>18. c \in Seq(Slot) /\ Len(c) = Len(s) + 1 /\ c[Len(s) + 1] = v /\ \A i \in 1..Len(s) : c[i] = a[i]
  BY <1>15, <1>17
<1> HIDE DEF c
<1>19. ASSUME NEW i \in 1..Len(s) + 1 PROVE b[i] = c[i]
  <2>1. CASE i = Len(s) + 1
    BY <2>1, <1>3, <1>5, <1>9, <1>13, <1>16, <1>18
  <2>2. CASE i # Len(s) + 1
    <3>1. i \in 1..Len(s) /\ i \in 1..Len(u)
      BY <2>2, <1>3, <1>13
    <3>2. s[i] \in ToSet(s)
      BY <3>1, <1>3, ToSetOf
    <3> QED BY <3>1, <3>2, <1>10, <1>13, <1>15, <1>16, <1>18
  <2> QED BY <2>1, <2>2
<1>20. b = c
  BY <1>13, <1>16, <1>18, <1>19, SeqEqual
<1>21. Last(u) = n
  BY <1>13 DEF Last
<1>22. \A q \in Node \ (ToSet(s) \cup {n}) : h2[q] = h[q]
  BY <1>4, <1>9
<1> QED BY <1>1, <1>5, <1>8, <1>9, <1>10, <1>14, <1>20, <1>21, <1>22 DEF ToEnd, a, b, c

-----------------------------------------------------------------------------
(* All containers together *)

Owner == Table \cup {"queue", "stack", "list"}

GoodQueue(h, q, S) ==
    /\ q \in [head : Pointer, tail : Pointer, size : Nat]
    /\ GoodChain(h, q.head) /\ Nodes(h, q.head) = S /\ q.size = Cardinality(S)
    /\ S # {} => q.tail = Last(Chain(h, q.head))

GoodList(h, c, S) ==
    /\ c \in [head : Pointer, size : Nat]
    /\ GoodChain(h, c.head) /\ Nodes(h, c.head) = S /\ c.size = Cardinality(S)

(* Each node that is used belongs to one container. *)
Divided(h, own) ==
    /\ own \in [Owner -> SUBSET Node]
    /\ \A c, d \in Owner : c # d => own[c] \cap own[d] = {}
    /\ \A n \in Node : h[n].used <=> \E c \in Owner : n \in own[c]

Good(h, tb, q, s, l, own) ==
    /\ h \in HeapType /\ tb \in [Table -> TableType]
    /\ \A t \in Table : GoodTable(h, tb[t], own[t])
    /\ GoodQueue(h, q, own["queue"])
    /\ GoodList(h, s, own["stack"])
    /\ GoodList(h, l, own["list"])
    /\ Divided(h, own)

Same(h, h2, S) == \A n \in S : h2[n] = h[n]

(* One container has given back S and has got T, from those nobody had. *)
Changed(h, h2, S, T) ==
    /\ h2 \in HeapType /\ T \subseteq Node
    /\ \A n \in T \ S : ~ h[n].used
    /\ \A n \in Node \ (S \cup T) : h2[n] = h[n]
    /\ \A n \in T : h2[n].used
    /\ \A n \in S \ T : ~ h2[n].used

Given(own, c, T) == [own EXCEPT ![c] = T]

Handed(h, h2, own, own2, c, T) ==
    /\ Divided(h2, own2) /\ own2[c] = T
    /\ \A d \in Owner \ {c} : own2[d] = own[d] /\ Same(h, h2, own[d])

LEMMA OneChanges ==
    ASSUME NEW h, NEW own, Divided(h, own), NEW c \in Owner, NEW h2, NEW T,
           Changed(h, h2, own[c], T)
    PROVE  Handed(h, h2, own, Given(own, c, T), c, T)
<1> DEFINE own2 == Given(own, c, T)
<1>1. /\ own \in [Owner -> SUBSET Node]
      /\ \A a, b \in Owner : a # b => own[a] \cap own[b] = {}
      /\ \A n \in Node : h[n].used <=> \E a \in Owner : n \in own[a]
  BY DEF Divided
<1>2. /\ T \subseteq Node
      /\ \A n \in T \ own[c] : ~ h[n].used
      /\ \A n \in Node \ (own[c] \cup T) : h2[n] = h[n]
      /\ \A n \in T : h2[n].used
      /\ \A n \in own[c] \ T : ~ h2[n].used
  BY DEF Changed
<1>3. /\ own2 \in [Owner -> SUBSET Node] /\ own2[c] = T
      /\ \A d \in Owner \ {c} : own2[d] = own[d]
  BY <1>1, <1>2 DEF Given
<1> HIDE DEF own2
<1>4. \A d \in Owner \ {c} : own[d] \cap T = {} /\ own[d] \cap own[c] = {} /\ own[d] \subseteq Node
  BY <1>1, <1>2
<1>5. \A d \in Owner \ {c} : Same(h, h2, own[d])
  BY <1>2, <1>4 DEF Same
<1>6. \A a, b \in Owner : a # b => own2[a] \cap own2[b] = {}
  BY <1>1, <1>3, <1>4
<1>7. ASSUME NEW n \in Node PROVE h2[n].used <=> \E a \in Owner : n \in own2[a]
  <2>1. CASE n \in T
    BY <2>1, <1>2, <1>3
  <2>2. CASE n \notin T /\ n \in own[c]
    <3>1. ~ h2[n].used
      BY <2>2, <1>2
    <3>2. \A a \in Owner : n \notin own2[a]
      BY <2>2, <1>3, <1>4
    <3> QED BY <3>1, <3>2
  <2>3. CASE n \notin T /\ n \notin own[c]
    <3>1. h2[n] = h[n]
      BY <2>3, <1>2
    <3>2. (\E a \in Owner : n \in own2[a]) <=> \E a \in Owner : n \in own[a]
      BY <2>3, <1>3
    <3> QED BY <3>1, <3>2, <1>1
  <2> QED BY <2>1, <2>2, <2>3
<1>8. Divided(h2, own2)
  BY <1>3, <1>6, <1>7 DEF Divided
<1> QED BY <1>3, <1>5, <1>8 DEF Handed, own2

(* What another container does leaves one as it is. *)
LEMMA QueueKept ==
    ASSUME NEW h \in HeapType, NEW h2 \in HeapType, NEW q, NEW S, GoodQueue(h, q, S), Same(h, h2, S)
    PROVE  GoodQueue(h2, q, S) /\ ValuesOf(h2, q.head) = ValuesOf(h, q.head)
<1>1. GoodChain(h, q.head) /\ Nodes(h, q.head) = S
  BY DEF GoodQueue
<1>2. GoodChain(h2, q.head) /\ Nodes(h2, q.head) = S /\ Chain(h2, q.head) = Chain(h, q.head)
  BY <1>1, GoodChainKept DEF Same
<1>3. ValuesOf(h2, q.head) = ValuesOf(h, q.head)
  BY <1>1, ValuesKept DEF Same
<1> QED BY <1>2, <1>3 DEF GoodQueue

LEMMA ListKept ==
    ASSUME NEW h \in HeapType, NEW h2 \in HeapType, NEW c, NEW S, GoodList(h, c, S), Same(h, h2, S)
    PROVE  GoodList(h2, c, S) /\ ValuesOf(h2, c.head) = ValuesOf(h, c.head)
<1>1. GoodChain(h, c.head) /\ Nodes(h, c.head) = S
  BY DEF GoodList
<1>2. GoodChain(h2, c.head) /\ Nodes(h2, c.head) = S
  BY <1>1, GoodChainKept DEF Same
<1>3. ValuesOf(h2, c.head) = ValuesOf(h, c.head)
  BY <1>1, ValuesKept DEF Same
<1> QED BY <1>2, <1>3 DEF GoodList

LEMMA TableSame ==
    ASSUME NEW h \in HeapType, NEW h2 \in HeapType, NEW t, NEW S, GoodTable(h, t, S), Same(h, h2, S)
    PROVE  /\ GoodTable(h2, t, S) /\ KeysOf(h2, S) = KeysOf(h, S)
           /\ \A k \in Key : get(h2, t, k) = get(h, t, k)
<1>1. \A n \in S : h2[n].next = h[n].next /\ h2[n].key = h[n].key /\ h2[n].value = h[n].value
  BY DEF Same
<1>2. GoodTable(h2, t, S) /\ KeysOf(h2, S) = KeysOf(h, S)
  BY <1>1, TableKept
<1>3. ASSUME NEW k \in Key PROVE get(h2, t, k) = get(h, t, k)
  <2>1. CASE k \in KeysOf(h, S)
    <3>1. PICK n \in S : h[n].key = k
      BY <2>1 DEF KeysOf
    <3>2. h2[n].key = k
      BY <3>1, <1>1
    <3>3. get(h, t, k) = h[n].value
      BY <3>1, GetIs
    <3>4. get(h2, t, k) = h2[n].value
      BY <3>2, <1>2, GetIs
    <3> QED BY <3>3, <3>4, <1>1
  <2>2. CASE k \notin KeysOf(h, S)
    BY <2>2, <1>2, GetIs
  <2> QED BY <2>1, <2>2
<1> QED BY <1>2, <1>3

TableAsBefore(h, h2, t, S) ==
    KeysOf(h2, S) = KeysOf(h, S) /\ \A k \in Key : get(h2, t, k) = get(h, t, k)

SeqAsBefore(h, h2, p) == ValuesOf(h2, p) = ValuesOf(h, p)

LEMMA Owners ==
    /\ Table \subseteq Owner /\ "queue" \in Owner /\ "stack" \in Owner /\ "list" \in Owner
    /\ "queue" \notin Table /\ "stack" \notin Table /\ "list" \notin Table
    /\ MapName \in Table /\ SetName \subseteq Table /\ MapName \notin SetName
BY NamesApart DEF Owner, Table

LEMMA OthersKept ==
    ASSUME NEW h, NEW tb, NEW q, NEW s, NEW l, NEW own, Good(h, tb, q, s, l, own),
           NEW h2 \in HeapType, NEW own2,
           NEW D, \A d \in D : own2[d] = own[d] /\ Same(h, h2, own[d])
    PROVE  /\ \A t \in Table : t \in D => /\ GoodTable(h2, tb[t], own2[t])
                                          /\ TableAsBefore(h, h2, tb[t], own[t])
           /\ "queue" \in D => GoodQueue(h2, q, own2["queue"]) /\ SeqAsBefore(h, h2, q.head)
           /\ "stack" \in D => GoodList(h2, s, own2["stack"]) /\ SeqAsBefore(h, h2, s.head)
           /\ "list" \in D => GoodList(h2, l, own2["list"]) /\ SeqAsBefore(h, h2, l.head)
<1>1. /\ h \in HeapType /\ \A t \in Table : GoodTable(h, tb[t], own[t])
      /\ GoodQueue(h, q, own["queue"]) /\ GoodList(h, s, own["stack"])
      /\ GoodList(h, l, own["list"])
  BY DEF Good
<1>2. ASSUME NEW t \in Table, t \in D
      PROVE  GoodTable(h2, tb[t], own2[t]) /\ TableAsBefore(h, h2, tb[t], own[t])
  <2> DEFINE x == tb[t]
             S == own[t]
  <2>1. GoodTable(h, x, S) /\ Same(h, h2, S) /\ own2[t] = S
    BY <1>1, <1>2
  <2> HIDE DEF x, S
  <2>2. GoodTable(h2, x, S) /\ TableAsBefore(h, h2, x, S)
    BY <2>1, <1>1, TableSame DEF TableAsBefore
  <2> QED BY <2>1, <2>2 DEF x, S
<1>3. ASSUME "queue" \in D
      PROVE  GoodQueue(h2, q, own2["queue"]) /\ SeqAsBefore(h, h2, q.head)
  BY <1>1, <1>3, QueueKept DEF SeqAsBefore
<1>4. ASSUME "stack" \in D
      PROVE  GoodList(h2, s, own2["stack"]) /\ SeqAsBefore(h, h2, s.head)
  BY <1>1, <1>4, ListKept DEF SeqAsBefore
<1>5. ASSUME "list" \in D
      PROVE  GoodList(h2, l, own2["list"]) /\ SeqAsBefore(h, h2, l.head)
  BY <1>1, <1>5, ListKept DEF SeqAsBefore
<1> QED BY <1>2, <1>3, <1>4, <1>5

SeqsAsBefore(h, h2, q, s, l) ==
    SeqAsBefore(h, h2, q.head) /\ SeqAsBefore(h, h2, s.head) /\ SeqAsBefore(h, h2, l.head)

TablesAsBefore(h, h2, tb, own) == \A t \in Table : TableAsBefore(h, h2, tb[t], own[t])

PutTable(tb, c, t) == [tb EXCEPT ![c] = t]

LEMMA TableChanges ==
    ASSUME NEW h, NEW tb, NEW q, NEW s, NEW l, NEW own, Good(h, tb, q, s, l, own),
           NEW c \in Table, NEW h2, NEW T, Changed(h, h2, own[c], T),
           NEW t, GoodTable(h2, t, T)
    PROVE  /\ Good(h2, PutTable(tb, c, t), q, s, l, Given(own, c, T))
           /\ PutTable(tb, c, t)[c] = t /\ Given(own, c, T)[c] = T
           /\ \A d \in Table \ {c} : /\ PutTable(tb, c, t)[d] = tb[d] /\ Given(own, c, T)[d] = own[d]
                                     /\ TableAsBefore(h, h2, tb[d], own[d])
           /\ SeqsAsBefore(h, h2, q, s, l)
<1> DEFINE own2 == Given(own, c, T)
           tb2 == PutTable(tb, c, t)
<1>1. h2 \in HeapType /\ Divided(h, own) /\ tb \in [Table -> TableType] /\ t \in TableType
      /\ c \in Owner /\ \A d \in Table : GoodTable(h, tb[d], own[d])
  BY Owners DEF Good, GoodTable, Changed
<1>2. /\ Divided(h2, own2) /\ own2[c] = T
      /\ \A d \in Owner \ {c} : own2[d] = own[d] /\ Same(h, h2, own[d])
  BY <1>1, OneChanges DEF Handed
<1> HIDE DEF own2
<1>3. /\ \A d \in Table : d \in Owner \ {c} => /\ GoodTable(h2, tb[d], own2[d])
                                               /\ TableAsBefore(h, h2, tb[d], own[d])
      /\ GoodQueue(h2, q, own2["queue"]) /\ SeqAsBefore(h, h2, q.head)
      /\ GoodList(h2, s, own2["stack"]) /\ SeqAsBefore(h, h2, s.head)
      /\ GoodList(h2, l, own2["list"]) /\ SeqAsBefore(h, h2, l.head)
  <2> DEFINE D == Owner \ {c}
  <2>1. "queue" \in D /\ "stack" \in D /\ "list" \in D
    BY Owners
  <2>2. \A d \in D : own2[d] = own[d] /\ Same(h, h2, own[d])
    BY <1>2
  <2> HIDE DEF D
  <2>3. /\ \A d \in Table : d \in D => /\ GoodTable(h2, tb[d], own2[d])
                                       /\ TableAsBefore(h, h2, tb[d], own[d])
        /\ GoodQueue(h2, q, own2["queue"]) /\ SeqAsBefore(h, h2, q.head)
        /\ GoodList(h2, s, own2["stack"]) /\ SeqAsBefore(h, h2, s.head)
        /\ GoodList(h2, l, own2["list"]) /\ SeqAsBefore(h, h2, l.head)
    BY <1>1, <2>1, <2>2, OthersKept
  <2> QED BY <2>3 DEF D
<1>4. /\ tb2 \in [Table -> TableType] /\ tb2[c] = t
      /\ \A d \in Table \ {c} : tb2[d] = tb[d]
  BY <1>1 DEF PutTable
<1> HIDE DEF tb2
<1>5. \A d \in Table : GoodTable(h2, tb2[d], own2[d])
  <2>1. GoodTable(h2, tb2[c], own2[c])
    BY <1>2, <1>4
  <2>2. ASSUME NEW d \in Table, d # c PROVE GoodTable(h2, tb2[d], own2[d])
    BY <2>2, <1>3, <1>4, Owners
  <2> QED BY <2>1, <2>2
<1>6. Good(h2, tb2, q, s, l, own2)
  BY <1>1, <1>2, <1>3, <1>4, <1>5 DEF Good
<1>7. SeqsAsBefore(h, h2, q, s, l)
  BY <1>3 DEF SeqsAsBefore
<1>8. \A d \in Table \ {c} : TableAsBefore(h, h2, tb[d], own[d])
  BY <1>3, Owners
<1>9. \A d \in Table \ {c} : own2[d] = own[d]
  BY <1>2, Owners
<1> QED BY <1>2, <1>4, <1>6, <1>7, <1>8, <1>9 DEF own2, tb2

LEMMA QueueChanges ==
    ASSUME NEW h, NEW tb, NEW q, NEW s, NEW l, NEW own, Good(h, tb, q, s, l, own),
           NEW h2, NEW T, Changed(h, h2, own["queue"], T), NEW q2, GoodQueue(h2, q2, T)
    PROVE  /\ Good(h2, tb, q2, s, l, Given(own, "queue", T))
           /\ \A d \in Table : Given(own, "queue", T)[d] = own[d]
           /\ TablesAsBefore(h, h2, tb, own)
           /\ SeqAsBefore(h, h2, s.head) /\ SeqAsBefore(h, h2, l.head)
<1> DEFINE own2 == Given(own, "queue", T)
           D == Owner \ {"queue"}
<1>1. h2 \in HeapType /\ Divided(h, own) /\ tb \in [Table -> TableType]
  BY DEF Good, Changed
<1>2. /\ Divided(h2, own2) /\ own2["queue"] = T
      /\ \A d \in D : own2[d] = own[d] /\ Same(h, h2, own[d])
  BY <1>1, Owners, OneChanges DEF Handed
<1>3. "stack" \in D /\ "list" \in D /\ Table \subseteq D
  BY Owners
<1> HIDE DEF own2, D
<1>4. /\ \A d \in Table : d \in D => /\ GoodTable(h2, tb[d], own2[d])
                                     /\ TableAsBefore(h, h2, tb[d], own[d])
      /\ GoodList(h2, s, own2["stack"]) /\ SeqAsBefore(h, h2, s.head)
      /\ GoodList(h2, l, own2["list"]) /\ SeqAsBefore(h, h2, l.head)
  BY <1>1, <1>2, <1>3, OthersKept
<1>5. TablesAsBefore(h, h2, tb, own) /\ \A d \in Table : GoodTable(h2, tb[d], own2[d])
  BY <1>3, <1>4 DEF TablesAsBefore
<1>6. Good(h2, tb, q2, s, l, own2)
  BY <1>1, <1>2, <1>4, <1>5 DEF Good
<1> QED BY <1>2, <1>3, <1>4, <1>5, <1>6 DEF own2

LEMMA StackChanges ==
    ASSUME NEW h, NEW tb, NEW q, NEW s, NEW l, NEW own, Good(h, tb, q, s, l, own),
           NEW h2, NEW T, Changed(h, h2, own["stack"], T), NEW s2, GoodList(h2, s2, T)
    PROVE  /\ Good(h2, tb, q, s2, l, Given(own, "stack", T))
           /\ \A d \in Table : Given(own, "stack", T)[d] = own[d]
           /\ TablesAsBefore(h, h2, tb, own)
           /\ SeqAsBefore(h, h2, q.head) /\ SeqAsBefore(h, h2, l.head)
<1> DEFINE own2 == Given(own, "stack", T)
           D == Owner \ {"stack"}
<1>1. h2 \in HeapType /\ Divided(h, own) /\ tb \in [Table -> TableType]
  BY DEF Good, Changed
<1>2. /\ Divided(h2, own2) /\ own2["stack"] = T
      /\ \A d \in D : own2[d] = own[d] /\ Same(h, h2, own[d])
  BY <1>1, Owners, OneChanges DEF Handed
<1>3. "queue" \in D /\ "list" \in D /\ Table \subseteq D
  BY Owners
<1> HIDE DEF own2, D
<1>4. /\ \A d \in Table : d \in D => /\ GoodTable(h2, tb[d], own2[d])
                                     /\ TableAsBefore(h, h2, tb[d], own[d])
      /\ GoodQueue(h2, q, own2["queue"]) /\ SeqAsBefore(h, h2, q.head)
      /\ GoodList(h2, l, own2["list"]) /\ SeqAsBefore(h, h2, l.head)
  BY <1>1, <1>2, <1>3, OthersKept
<1>5. TablesAsBefore(h, h2, tb, own) /\ \A d \in Table : GoodTable(h2, tb[d], own2[d])
  BY <1>3, <1>4 DEF TablesAsBefore
<1>6. Good(h2, tb, q, s2, l, own2)
  BY <1>1, <1>2, <1>4, <1>5 DEF Good
<1> QED BY <1>2, <1>3, <1>4, <1>5, <1>6 DEF own2

LEMMA ListChanges ==
    ASSUME NEW h, NEW tb, NEW q, NEW s, NEW l, NEW own, Good(h, tb, q, s, l, own),
           NEW h2, NEW T, Changed(h, h2, own["list"], T), NEW l2, GoodList(h2, l2, T)
    PROVE  /\ Good(h2, tb, q, s, l2, Given(own, "list", T))
           /\ \A d \in Table : Given(own, "list", T)[d] = own[d]
           /\ TablesAsBefore(h, h2, tb, own)
           /\ SeqAsBefore(h, h2, q.head) /\ SeqAsBefore(h, h2, s.head)
<1> DEFINE own2 == Given(own, "list", T)
           D == Owner \ {"list"}
<1>1. h2 \in HeapType /\ Divided(h, own) /\ tb \in [Table -> TableType]
  BY DEF Good, Changed
<1>2. /\ Divided(h2, own2) /\ own2["list"] = T
      /\ \A d \in D : own2[d] = own[d] /\ Same(h, h2, own[d])
  BY <1>1, Owners, OneChanges DEF Handed
<1>3. "queue" \in D /\ "stack" \in D /\ Table \subseteq D
  BY Owners
<1> HIDE DEF own2, D
<1>4. /\ \A d \in Table : d \in D => /\ GoodTable(h2, tb[d], own2[d])
                                     /\ TableAsBefore(h, h2, tb[d], own[d])
      /\ GoodQueue(h2, q, own2["queue"]) /\ SeqAsBefore(h, h2, q.head)
      /\ GoodList(h2, s, own2["stack"]) /\ SeqAsBefore(h, h2, s.head)
  BY <1>1, <1>2, <1>3, OthersKept
<1>5. TablesAsBefore(h, h2, tb, own) /\ \A d \in Table : GoodTable(h2, tb[d], own2[d])
  BY <1>3, <1>4 DEF TablesAsBefore
<1>6. Good(h2, tb, q, s, l2, own2)
  BY <1>1, <1>2, <1>4, <1>5 DEF Good
<1> QED BY <1>2, <1>3, <1>4, <1>5, <1>6 DEF own2

-----------------------------------------------------------------------------
(* What the containers stand for *)

SetsIn(h, tb) == [x \in SetName |-> {h[n].key : n \in ToSet(Walk(h, tb[x]))}]
MapIn(h, tb) == [k \in Key |-> get(h, tb[MapName], k)]

LEMMA NodesOfTable ==
    ASSUME NEW h, NEW tb, NEW q, NEW s, NEW l, NEW own, Good(h, tb, q, s, l, own), NEW x \in Table
    PROVE  ToSet(Walk(h, tb[x])) = own[x] /\ GoodTable(h, tb[x], own[x])
<1>1. GoodTable(h, tb[x], own[x])
  BY DEF Good
<1> QED BY <1>1, WalkIs DEF GoodTable

LEMMA SetsAre ==
    ASSUME NEW h, NEW tb, NEW q, NEW s, NEW l, NEW own, Good(h, tb, q, s, l, own)
    PROVE  SetsIn(h, tb) = [x \in SetName |-> KeysOf(h, own[x])]
<1>1. \A x \in SetName : {h[n].key : n \in ToSet(Walk(h, tb[x]))} = KeysOf(h, own[x])
  BY NodesOfTable, Owners DEF KeysOf
<1> QED BY <1>1 DEF SetsIn

(* What the state is after a set, the map or a sequence has changed. *)
SetNow(h, h2, tb, tb2, q, s, l, c, K) ==
    /\ \E own2 : Good(h2, tb2, q, s, l, own2)
    /\ SetsIn(h2, tb2) = [SetsIn(h, tb) EXCEPT ![c] = K]
    /\ MapIn(h2, tb2) = MapIn(h, tb)
    /\ SeqsAsBefore(h, h2, q, s, l)

LEMMA SetChanges ==
    ASSUME NEW h, NEW tb, NEW q, NEW s, NEW l, NEW own, Good(h, tb, q, s, l, own),
           NEW c \in SetName, NEW h2, NEW T, Changed(h, h2, own[c], T),
           NEW t, GoodTable(h2, t, T)
    PROVE  /\ SetNow(h, h2, tb, PutTable(tb, c, t), q, s, l, c, KeysOf(h2, T))
           /\ SetsIn(h, tb)[c] = KeysOf(h, own[c])
<1> DEFINE own2 == Given(own, c, T)
           tb2 == PutTable(tb, c, t)
<1>0. c \in Table
  BY Owners
<1>1. /\ Good(h2, tb2, q, s, l, own2)
      /\ tb2[c] = t /\ own2[c] = T
      /\ \A d \in Table \ {c} : /\ tb2[d] = tb[d] /\ own2[d] = own[d]
                                /\ TableAsBefore(h, h2, tb[d], own[d])
      /\ SeqsAsBefore(h, h2, q, s, l)
  BY <1>0, TableChanges
<1> HIDE DEF own2, tb2
<1>2. SetsIn(h, tb) = [x \in SetName |-> KeysOf(h, own[x])]
      /\ SetsIn(h2, tb2) = [x \in SetName |-> KeysOf(h2, own2[x])]
  BY <1>1, SetsAre
<1>3. \A x \in SetName : KeysOf(h2, own2[x]) = IF x = c THEN KeysOf(h2, T) ELSE KeysOf(h, own[x])
  BY <1>1, Owners DEF TableAsBefore
<1>4. SetsIn(h2, tb2) = [SetsIn(h, tb) EXCEPT ![c] = KeysOf(h2, T)]
  BY <1>2, <1>3
<1>5. MapIn(h2, tb2) = MapIn(h, tb)
  <2>1. MapName \in Table \ {c}
    BY Owners
  <2>2. \A k \in Key : get(h2, tb2[MapName], k) = get(h, tb[MapName], k)
    BY <2>1, <1>1 DEF TableAsBefore
  <2> QED BY <2>2 DEF MapIn
<1>6. SetsIn(h, tb)[c] = KeysOf(h, own[c])
  BY <1>2
<1>7. \E o : Good(h2, tb2, q, s, l, o)
  BY <1>1
<1> QED BY <1>1, <1>4, <1>5, <1>6, <1>7 DEF SetNow, tb2

MapNow(h, h2, tb, tb2, q, s, l) ==
    /\ \E own2 : Good(h2, tb2, q, s, l, own2)
    /\ SetsIn(h2, tb2) = SetsIn(h, tb)
    /\ SeqsAsBefore(h, h2, q, s, l)

LEMMA MapChanges ==
    ASSUME NEW h, NEW tb, NEW q, NEW s, NEW l, NEW own, Good(h, tb, q, s, l, own),
           NEW h2, NEW T, Changed(h, h2, own[MapName], T), NEW t, GoodTable(h2, t, T)
    PROVE  /\ MapNow(h, h2, tb, PutTable(tb, MapName, t), q, s, l)
           /\ PutTable(tb, MapName, t)[MapName] = t
<1> DEFINE own2 == Given(own, MapName, T)
           tb2 == PutTable(tb, MapName, t)
<1>1. /\ Good(h2, tb2, q, s, l, own2)
      /\ tb2[MapName] = t
      /\ \A d \in Table \ {MapName} : /\ tb2[d] = tb[d] /\ own2[d] = own[d]
                                      /\ TableAsBefore(h, h2, tb[d], own[d])
      /\ SeqsAsBefore(h, h2, q, s, l)
  BY Owners, TableChanges
<1> HIDE DEF own2, tb2
<1>2. SetsIn(h, tb) = [x \in SetName |-> KeysOf(h, own[x])]
      /\ SetsIn(h2, tb2) = [x \in SetName |-> KeysOf(h2, own2[x])]
  BY <1>1, SetsAre
<1>3. \A x \in SetName : KeysOf(h2, own2[x]) = KeysOf(h, own[x])
  BY <1>1, Owners DEF TableAsBefore
<1>4. SetsIn(h2, tb2) = SetsIn(h, tb)
  BY <1>2, <1>3
<1>5. \E o : Good(h2, tb2, q, s, l, o)
  BY <1>1
<1> QED BY <1>1, <1>4, <1>5 DEF MapNow, tb2

SeqNow(h, h2, tb, q2, s2, l2) ==
    /\ \E own2 : Good(h2, tb, q2, s2, l2, own2)
    /\ SetsIn(h2, tb) = SetsIn(h, tb) /\ MapIn(h2, tb) = MapIn(h, tb)

LEMMA TablesStay ==
    ASSUME NEW h, NEW tb, NEW q, NEW s, NEW l, NEW own, Good(h, tb, q, s, l, own),
           NEW h2, NEW q2, NEW s2, NEW l2, NEW own2, Good(h2, tb, q2, s2, l2, own2),
           \A d \in Table : own2[d] = own[d], TablesAsBefore(h, h2, tb, own)
    PROVE  SeqNow(h, h2, tb, q2, s2, l2)
<1>1. SetsIn(h, tb) = [x \in SetName |-> KeysOf(h, own[x])]
      /\ SetsIn(h2, tb) = [x \in SetName |-> KeysOf(h2, own2[x])]
  BY SetsAre
<1>2. \A x \in SetName : KeysOf(h2, own2[x]) = KeysOf(h, own[x])
  BY Owners DEF TablesAsBefore, TableAsBefore
<1>3. SetsIn(h2, tb) = SetsIn(h, tb)
  BY <1>1, <1>2
<1>4. \A k \in Key : get(h2, tb[MapName], k) = get(h, tb[MapName], k)
  BY Owners DEF TablesAsBefore, TableAsBefore
<1>5. MapIn(h2, tb) = MapIn(h, tb)
  BY <1>4 DEF MapIn
<1> QED BY <1>3, <1>5 DEF SeqNow

LEMMA QueueNow ==
    ASSUME NEW h, NEW tb, NEW q, NEW s, NEW l, NEW own, Good(h, tb, q, s, l, own),
           NEW h2, NEW T, Changed(h, h2, own["queue"], T), NEW q2, GoodQueue(h2, q2, T)
    PROVE  /\ SeqNow(h, h2, tb, q2, s, l)
           /\ SeqAsBefore(h, h2, s.head) /\ SeqAsBefore(h, h2, l.head)
<1> DEFINE own2 == Given(own, "queue", T)
<1>1. /\ Good(h2, tb, q2, s, l, own2) /\ \A d \in Table : own2[d] = own[d]
      /\ TablesAsBefore(h, h2, tb, own)
      /\ SeqAsBefore(h, h2, s.head) /\ SeqAsBefore(h, h2, l.head)
  BY QueueChanges
<1> HIDE DEF own2
<1> QED BY <1>1, TablesStay

LEMMA StackNow ==
    ASSUME NEW h, NEW tb, NEW q, NEW s, NEW l, NEW own, Good(h, tb, q, s, l, own),
           NEW h2, NEW T, Changed(h, h2, own["stack"], T), NEW s2, GoodList(h2, s2, T)
    PROVE  /\ SeqNow(h, h2, tb, q, s2, l)
           /\ SeqAsBefore(h, h2, q.head) /\ SeqAsBefore(h, h2, l.head)
<1> DEFINE own2 == Given(own, "stack", T)
<1>1. /\ Good(h2, tb, q, s2, l, own2) /\ \A d \in Table : own2[d] = own[d]
      /\ TablesAsBefore(h, h2, tb, own)
      /\ SeqAsBefore(h, h2, q.head) /\ SeqAsBefore(h, h2, l.head)
  BY StackChanges
<1> HIDE DEF own2
<1> QED BY <1>1, TablesStay

LEMMA ListNow ==
    ASSUME NEW h, NEW tb, NEW q, NEW s, NEW l, NEW own, Good(h, tb, q, s, l, own),
           NEW h2, NEW T, Changed(h, h2, own["list"], T), NEW l2, GoodList(h2, l2, T)
    PROVE  /\ SeqNow(h, h2, tb, q, s, l2)
           /\ SeqAsBefore(h, h2, q.head) /\ SeqAsBefore(h, h2, s.head)
<1> DEFINE own2 == Given(own, "list", T)
<1>1. /\ Good(h2, tb, q, s, l2, own2) /\ \A d \in Table : own2[d] = own[d]
      /\ TablesAsBefore(h, h2, tb, own)
      /\ SeqAsBefore(h, h2, q.head) /\ SeqAsBefore(h, h2, s.head)
  BY ListChanges
<1> HIDE DEF own2
<1> QED BY <1>1, TablesStay

-----------------------------------------------------------------------------
(* The steps *)

CInv ==
    /\ \E own : Good(heap, table, queue, stack, list, own)
    /\ answer \in BOOLEAN \cup Value \cup {NULL}

Sets == [s \in SetName |-> Elements(table[s])]
Map == [k \in Key |-> get(heap, table[MapName], k)]

LEMMA Meanings ==
    /\ Sets = SetsIn(heap, table) /\ Map = MapIn(heap, table)
    /\ Sets' = SetsIn(heap', table') /\ Map' = MapIn(heap', table')
    /\ \A p : Values(p) = ValuesOf(heap, p)
<1>1. Sets = SetsIn(heap, table) /\ Sets' = SetsIn(heap', table')
  BY DEF Sets, SetsIn, Elements
<1>2. Map = MapIn(heap, table) /\ Map' = MapIn(heap', table')
  BY DEF Map, MapIn
<1>3. \A p : Values(p) = ValuesOf(heap, p)
  BY DEF Values, ValuesOf
<1> QED BY <1>1, <1>2, <1>3

LEMMA Holders ==
    ASSUME NEW h, NEW tb, NEW q, NEW s, NEW l, NEW own, Good(h, tb, q, s, l, own),
           NEW c \in Owner
    PROVE  /\ h \in HeapType /\ own[c] \subseteq Node
           /\ \A n \in own[c] : h[n].used
           /\ \A n \in Unused(h) : n \in Node /\ n \notin own[c] /\ ~ h[n].used
BY DEF Good, Divided, Unused

(* The rest of the state means what it meant. *)
Unmoved == /\ Values(queue.head)' = Values(queue.head)
           /\ Values(stack.head)' = Values(stack.head)
           /\ Values(list.head)' = Values(list.head)

LEMMA SeqsUnmoved ==
    ASSUME UNCHANGED <<queue, stack, list>>, SeqsAsBefore(heap, heap', queue, stack, list)
    PROVE  Unmoved
BY DEF Unmoved, Values, ValuesOf, SeqsAsBefore, SeqAsBefore

LEMMA AfterSet ==
    ASSUME NEW s, NEW K, SetNow(heap, heap', table, table', queue, stack, list, s, K),
           UNCHANGED <<queue, stack, list>>, answer' \in BOOLEAN \cup Value \cup {NULL}
    PROVE  CInv' /\ Sets' = [Sets EXCEPT ![s] = K] /\ Map' = Map /\ Unmoved
<1>1. \E own : Good(heap', table', queue', stack', list', own)
  BY DEF SetNow
<1>2. CInv'
  BY <1>1 DEF CInv
<1>3. Sets' = [Sets EXCEPT ![s] = K] /\ Map' = Map
  BY Meanings DEF SetNow
<1>4. Unmoved
  BY SeqsUnmoved DEF SetNow
<1> QED BY <1>2, <1>3, <1>4

LEMMA NothingMoved ==
    ASSUME CInv, UNCHANGED <<heap, table, queue, stack, list>>,
           answer' \in BOOLEAN \cup Value \cup {NULL}
    PROVE  CInv' /\ Sets' = Sets /\ Map' = Map /\ Unmoved
<1>1. CInv'
  BY DEF CInv
<1>2. Sets' = Sets /\ Map' = Map
  BY Meanings
<1>3. Unmoved
  BY DEF Unmoved, Values
<1> QED BY <1>1, <1>2, <1>3

(* The table a step of a set works on. *)
LEMMA TableOf ==
    ASSUME NEW own, Good(heap, table, queue, stack, list, own), NEW s \in SetName
    PROVE  /\ s \in Table /\ s \in Owner /\ heap \in HeapType /\ GoodTable(heap, table[s], own[s])
           /\ Sets[s] = KeysOf(heap, own[s]) /\ Sets \in [SetName -> SUBSET Key]
           /\ \A k \in Key : contains(heap, table[s], k) <=> k \in Sets[s]
<1>1. s \in Table /\ s \in Owner
  BY Owners
<1>2. Sets = [x \in SetName |-> KeysOf(heap, own[x])]
  BY SetsAre, Meanings
<1>3. ASSUME NEW x \in SetName PROVE GoodTable(heap, table[x], own[x]) /\ KeysOf(heap, own[x]) \in SUBSET Key
  <2>1. GoodTable(heap, table[x], own[x])
    BY Owners, NodesOfTable
  <2> QED BY <2>1 DEF GoodTable, Hashed, KeysOf
<1>4. GoodTable(heap, table[s], own[s])
  BY <1>3
<1>5. \A k \in Key : contains(heap, table[s], k) <=> k \in KeysOf(heap, own[s])
  BY <1>4, KeyKnown
<1>6. heap \in HeapType
  BY DEF Good
<1>7. Sets \in [SetName -> SUBSET Key] /\ Sets[s] = KeysOf(heap, own[s])
  BY <1>2, <1>3
<1> QED BY <1>1, <1>4, <1>5, <1>6, <1>7

LEMMA InsertKeeps ==
    ASSUME CInv, NEW s \in SetName, NEW k \in Key, hashset_insert(s, k)
    PROVE  CInv' /\ Promised!Insert(s, k)
<1>1. PICK own : Good(heap, table, queue, stack, list, own)
  BY DEF CInv
<1> DEFINE t == table[s]
           S == own[s]
<1>2. /\ s \in Table /\ s \in Owner /\ heap \in HeapType /\ GoodTable(heap, t, S)
      /\ Sets[s] = KeysOf(heap, S) /\ Sets \in [SetName -> SUBSET Key]
      /\ contains(heap, t, k) <=> k \in Sets[s]
  BY <1>1, TableOf
<1>3. UNCHANGED <<queue, stack, list>>
  BY DEF hashset_insert
<1>4. /\ CInv' /\ Sets' = [Sets EXCEPT ![s] = @ \cup {k}] /\ Map' = Map /\ Unmoved
      /\ answer' = (k \notin Sets[s])
  <2>1. CASE contains(heap, t, k)
    <3>1. answer' = FALSE /\ UNCHANGED <<heap, table>>
      BY <2>1 DEF hashset_insert
    <3>2. CInv' /\ Sets' = Sets /\ Map' = Map /\ Unmoved
      BY <3>1, <1>3, NothingMoved
    <3>3. Sets = [Sets EXCEPT ![s] = @ \cup {k}]
      <4>1. Sets[s] \cup {k} = Sets[s]
        BY <2>1, <1>2
      <4> QED BY <4>1, <1>2
    <3> QED BY <3>1, <3>2, <3>3, <2>1, <1>2
  <2>2. CASE ~ contains(heap, t, k)
    <3>1. PICK n \in Unused(heap) :
              /\ heap' = add_node(heap, t, k, NULL, n).heap
              /\ table' = [table EXCEPT ![s] = add_node(heap, t, k, NULL, n).table]
              /\ answer' = TRUE
      BY <2>2 DEF hashset_insert
    <3> DEFINE m == add_node(heap, t, k, NULL, n)
               T == S \cup {n}
    <3>2. /\ S \subseteq Node /\ (\A q \in S : heap[q].used)
          /\ n \in Node /\ n \notin S /\ ~ heap[n].used
      BY <1>1, <1>2, <3>1, Holders
    <3>3. Added(heap, m, S, k, NULL, n)
      BY <1>2, <2>2, <3>2, AddNode
    <3>4. heap' = m.heap /\ table' = PutTable(table, s, m.table) /\ answer' = TRUE
      BY <3>1 DEF PutTable
    <3> HIDE DEF t, S, m
    <3>5. /\ GoodTable(heap', m.table, T) /\ KeysOf(heap', T) = KeysOf(heap, S) \cup {k}
          /\ AddedNode(heap, heap', S, k, NULL, n)
      BY <3>3, <3>4 DEF Added
    <3>6. Changed(heap, heap', S, T)
      BY <3>2, <3>5 DEF Changed, AddedNode
    <3> HIDE DEF T
    <3>7. SetNow(heap, heap', table, table', queue, stack, list, s, KeysOf(heap', T))
      BY <3>4, <3>5, <3>6, <1>1, SetChanges DEF S
    <3>8. CInv' /\ Sets' = [Sets EXCEPT ![s] = KeysOf(heap', T)] /\ Map' = Map /\ Unmoved
      BY <3>4, <3>7, <1>3, AfterSet
    <3>9. KeysOf(heap', T) = Sets[s] \cup {k}
      BY <3>5, <1>2 DEF S
    <3>10. Sets' = [Sets EXCEPT ![s] = @ \cup {k}]
      BY <3>8, <3>9, <1>2
    <3> QED BY <3>4, <3>8, <3>10, <2>2, <1>2 DEF t
  <2> QED BY <2>1, <2>2
<1> QED BY <1>4 DEF Promised!Insert, Promised!OnlySets, Sets, Map, Unmoved

LEMMA RemoveKeeps ==
    ASSUME CInv, NEW s \in SetName, NEW k \in Key, hashset_remove(s, k)
    PROVE  CInv' /\ Promised!Remove(s, k)
<1>1. PICK own : Good(heap, table, queue, stack, list, own)
  BY DEF CInv
<1> DEFINE t == table[s]
           S == own[s]
           b == bucket(t, k)
           n == lookup(heap, t, k)
           m == unlink(heap, t, b, Chain(heap, t.buckets[b]), Min(Found(heap, t, k)))
<1>2. /\ s \in Table /\ s \in Owner /\ heap \in HeapType /\ GoodTable(heap, t, S)
      /\ Sets[s] = KeysOf(heap, S) /\ Sets \in [SetName -> SUBSET Key]
      /\ contains(heap, t, k) <=> k \in Sets[s]
  BY <1>1, TableOf
<1>3. UNCHANGED <<queue, stack, list>>
  BY DEF hashset_remove
<1>4. contains(heap, t, k) <=> Found(heap, t, k) # {}
  BY DEF contains
<1>5. answer' = (Found(heap, t, k) # {})
  BY DEF hashset_remove
<1>6. answer' = (k \in Sets[s])
  BY <1>2, <1>4, <1>5
<1>7. CInv' /\ Sets' = [Sets EXCEPT ![s] = @ \ {k}] /\ Map' = Map /\ Unmoved
  <2>1. CASE ~ contains(heap, t, k)
    <3>1. UNCHANGED <<heap, table>>
      BY <2>1, <1>4 DEF hashset_remove
    <3>2. CInv' /\ Sets' = Sets /\ Map' = Map /\ Unmoved
      BY <3>1, <1>3, <1>6, NothingMoved
    <3>3. Sets = [Sets EXCEPT ![s] = @ \ {k}]
      <4>1. Sets[s] \ {k} = Sets[s]
        BY <2>1, <1>2
      <4> QED BY <4>1, <1>2
    <3> QED BY <3>2, <3>3
  <2>2. CASE contains(heap, t, k)
    <3>1. heap' = m.heap /\ table' = PutTable(table, s, m.table)
      <4>1. Found(heap, t, k) # {}
        BY <2>2, <1>4
      <4> QED BY <4>1, Zenon DEF hashset_remove, PutTable
    <3>2. n \in S /\ heap[n].key = k /\ Dropped(heap, m, S, n)
      BY <1>2, <2>2, RemoveNode
    <3>3. S \subseteq Node /\ \A q \in S : heap[q].used
      BY <1>1, <1>2, Holders
    <3> DEFINE T == S \ {n}
    <3>4. \A q, r \in S : heap[q].key = heap[r].key => q = r
      BY <1>2 DEF GoodTable
    <3> HIDE DEF t, S, b, n, m
    <3>5. /\ GoodTable(heap', m.table, T) /\ heap' \in HeapType /\ heap'[n] = Freed
          /\ \A q \in Node \ S : heap'[q] = heap[q]
          /\ \A q \in T : heap'[q].key = heap[q].key /\ heap'[q].used = heap[q].used
      BY <3>1, <3>2 DEF Dropped
    <3>6. Changed(heap, heap', S, T)
      <4>1. ~ heap'[n].used
        BY <3>5, NodeTypes
      <4>2. \A q \in S \ T : q = n
        OBVIOUS
      <4> QED BY <4>1, <4>2, <3>3, <3>5 DEF Changed
    <3>7. SetNow(heap, heap', table, table', queue, stack, list, s, KeysOf(heap', T))
      BY <3>1, <3>5, <3>6, <1>1, SetChanges DEF S
    <3>8. KeysOf(heap', T) = Sets[s] \ {k}
      <4>1. KeysOf(heap', T) = {heap[q].key : q \in T}
        BY <3>5 DEF KeysOf
      <4>2. {heap[q].key : q \in T} = KeysOf(heap, S) \ {k}
        BY <3>2, <3>4 DEF KeysOf
      <4> QED BY <4>1, <4>2, <1>2 DEF S
    <3>9. answer' \in BOOLEAN \cup Value \cup {NULL}
      BY <1>6
    <3> HIDE DEF T
    <3>10. CInv' /\ Sets' = [Sets EXCEPT ![s] = KeysOf(heap', T)] /\ Map' = Map /\ Unmoved
      BY <3>7, <3>9, <1>3, AfterSet
    <3> QED BY <3>8, <3>10, <1>2
  <2> QED BY <2>1, <2>2
<1> QED BY <1>6, <1>7 DEF Promised!Remove, Promised!OnlySets, Sets, Map, Unmoved

LEMMA UnionKeeps ==
    ASSUME CInv, NEW s \in SetName, NEW t \in SetName, hashset_union(s, t)
    PROVE  CInv' /\ Promised!Union(s, t)
<1>1. PICK own : Good(heap, table, queue, stack, list, own)
  BY DEF CInv
<1> DEFINE x == table[s]
           y == table[t]
           S == own[s]
           U == own[t]
           K == Lacking(heap, x, y)
<1>2. /\ s \in Owner /\ heap \in HeapType /\ GoodTable(heap, x, S) /\ Sets[s] = KeysOf(heap, S)
      /\ Sets \in [SetName -> SUBSET Key]
      /\ GoodTable(heap, y, U) /\ Sets[t] = KeysOf(heap, U)
  BY <1>1, TableOf
<1>3. UNCHANGED <<queue, stack, list>>
  BY DEF hashset_union
<1>4. PICK at \in Injection(K, Unused(heap)) :
          /\ heap' = united(heap, x, y, at).heap
          /\ table' = PutTable(table, s, united(heap, x, y, at).table)
          /\ answer' = (K # {})
  BY Zenon DEF hashset_union, PutTable
<1> DEFINE m == united(heap, x, y, at)
           T == Joins(heap, S, at, K)
<1>5. S \subseteq Node /\ \A q \in S : heap[q].used
  BY <1>1, <1>2, Holders
<1>6. Hashed(heap, y, U)
  BY <1>2 DEF GoodTable
<1>7. K = KeysOf(heap, U) \ KeysOf(heap, S) /\ Gained(heap, m, S, at, K)
  BY <1>2, <1>4, <1>5, <1>6, UnionIs
<1>8. heap' = m.heap /\ table' = PutTable(table, s, m.table)
  BY <1>4
<1> HIDE DEF x, y, S, U, K, m
<1>9. /\ m \in [heap : HeapType, table : TableType]
      /\ GoodTable(heap', m.table, T)
      /\ KeysOf(heap', T) = KeysOf(heap, S) \cup K
      /\ \A q \in Node \ T : heap'[q] = heap[q]
      /\ \A q \in S : heap'[q].used = heap[q].used
      /\ \A j \in K : heap'[at[j]].used = TRUE
  BY <1>7, <1>8 DEF Gained
<1>10. T = S \cup {at[j] : j \in K} /\ \A j \in K : at[j] \in Node /\ ~ heap[at[j]].used
  <2>1. at \in [K -> Unused(heap)]
    BY DEF Injection
  <2> QED BY <2>1 DEF Joins, Unused
<1> HIDE DEF T
<1>11. Changed(heap, heap', S, T)
  <2>1. heap' \in HeapType
    BY <1>8, <1>9
  <2> QED BY <2>1, <1>5, <1>9, <1>10 DEF Changed
<1>12. SetNow(heap, heap', table, table', queue, stack, list, s, KeysOf(heap', T))
  BY <1>1, <1>8, <1>9, <1>11, SetChanges DEF S
<1>13. answer' \in BOOLEAN \cup Value \cup {NULL}
  BY <1>4
<1>14. CInv' /\ Sets' = [Sets EXCEPT ![s] = KeysOf(heap', T)] /\ Map' = Map /\ Unmoved
  BY <1>3, <1>12, <1>13, AfterSet
<1>15. K = Sets[t] \ Sets[s] /\ KeysOf(heap', T) = Sets[s] \cup Sets[t]
  BY <1>2, <1>7, <1>9
<1>16. Sets' = [Sets EXCEPT ![s] = @ \cup Sets[t]]
  BY <1>14, <1>15, <1>2
<1>17. answer' = ~ (Sets[t] \subseteq Sets[s])
  BY <1>4, <1>15
<1> QED BY <1>14, <1>16, <1>17 DEF Promised!Union, Promised!OnlySets, Sets, Map, Unmoved

LEMMA ClearKeeps ==
    ASSUME CInv, NEW s \in SetName, hashset_clear(s)
    PROVE  CInv' /\ Promised!Clear(s)
<1>1. PICK own : Good(heap, table, queue, stack, list, own)
  BY DEF CInv
<1> DEFINE t == table[s]
           S == own[s]
           t2 == [t EXCEPT !.buckets = [i \in DOMAIN @ |-> NULL], !.size = 0]
<1>2. /\ s \in Table /\ s \in Owner /\ heap \in HeapType /\ GoodTable(heap, t, S)
      /\ Sets[s] = KeysOf(heap, S) /\ Sets \in [SetName -> SUBSET Key]
  BY <1>1, TableOf
<1>3. UNCHANGED <<queue, stack, list>> /\ answer' = NULL
  BY DEF hashset_clear
<1>4. ToSet(Walk(heap, t)) = S
  BY <1>1, <1>2, NodesOfTable
<1>5. heap' = free_all(heap, S)
  BY <1>4 DEF hashset_clear
<1>6. table \in [Table -> TableType]
  BY <1>1 DEF Good
<1>7. table' = PutTable(table, s, t2)
  <2>1. table' = [table EXCEPT ![s].buckets = [i \in DOMAIN @ |-> NULL], ![s].size = 0]
    BY DEF hashset_clear
  <2> QED BY <2>1, <1>2, <1>6 DEF PutTable
<1>8. Cleared(t, t2)
  BY DEF Cleared
<1> HIDE DEF t, S, t2
<1>9. S \subseteq Node /\ \A q \in S : heap[q].used
  BY <1>1, <1>2, Holders DEF S
<1>10. /\ heap' \in HeapType /\ (\A n \in S : heap'[n] = Freed)
       /\ \A n \in Node \ S : heap'[n] = heap[n]
  BY <1>2, <1>5, <1>9, FreedAll
<1>11. GoodTable(heap', t2, {})
  BY <1>2, <1>8, <1>10, ClearedTable
<1>12. Changed(heap, heap', S, {})
  BY <1>10, NodeTypes DEF Changed
<1>13. SetNow(heap, heap', table, table', queue, stack, list, s, KeysOf(heap', {}))
  BY <1>1, <1>7, <1>11, <1>12, SetChanges DEF S
<1>14. CInv' /\ Sets' = [Sets EXCEPT ![s] = KeysOf(heap', {})] /\ Map' = Map /\ Unmoved
  BY <1>3, <1>13, AfterSet
<1>15. KeysOf(heap', {}) = {}
  BY DEF KeysOf
<1>16. Sets' = [Sets EXCEPT ![s] = {}]
  BY <1>14, <1>15
<1> QED BY <1>3, <1>14, <1>16 DEF Promised!Clear, Promised!OnlySets, Sets, Map, Unmoved

(* A value under a key, in a new node or in the one the key has. *)
LEMMA GetAfter ==
    ASSUME NEW h, NEW t, NEW S, GoodTable(h, t, S), NEW h2, NEW t2, NEW T, GoodTable(h2, t2, T),
           NEW k \in Key, NEW v, NEW n, T = S \cup {n},
           h2[n].key = k, h2[n].value = v,
           \A q \in S \ {n} : h2[q].key = h[q].key /\ h2[q].value = h[q].value,
           \A q \in S : q = n => h[q].key = k
    PROVE  \A j \in Key : get(h2, t2, j) = IF j = k THEN v ELSE get(h, t, j)
<1> SUFFICES ASSUME NEW j \in Key
             PROVE  get(h2, t2, j) = IF j = k THEN v ELSE get(h, t, j)
  OBVIOUS
<1>1. CASE j = k
  BY <1>1, GetIs
<1>2. CASE j # k /\ j \in KeysOf(h, S)
  <2>1. PICK q \in S : h[q].key = j
    BY <1>2 DEF KeysOf
  <2>2. q # n /\ q \in T /\ h2[q].key = j /\ h2[q].value = h[q].value
    BY <2>1, <1>2
  <2>3. get(h2, t2, j) = h2[q].value
    BY <2>2, GetIs
  <2>4. get(h, t, j) = h[q].value
    BY <2>1, GetIs
  <2> QED BY <2>2, <2>3, <2>4, <1>2
<1>3. CASE j # k /\ j \notin KeysOf(h, S)
  <2>1. j \notin KeysOf(h2, T)
    BY <1>3 DEF KeysOf
  <2>2. get(h2, t2, j) = NULL
    BY <2>1, GetIs
  <2>3. get(h, t, j) = NULL
    BY <1>3, GetIs
  <2> QED BY <2>2, <2>3, <1>3
<1> QED BY <1>1, <1>2, <1>3

LEMMA AfterMap ==
    ASSUME MapNow(heap, heap', table, table', queue, stack, list),
           UNCHANGED <<queue, stack, list>>, answer' = NULL
    PROVE  CInv' /\ Sets' = Sets /\ Unmoved
<1>1. \E own : Good(heap', table', queue', stack', list', own)
  BY DEF MapNow
<1>2. CInv'
  BY <1>1 DEF CInv
<1>3. Sets' = Sets
  BY Meanings DEF MapNow
<1>4. Unmoved
  BY SeqsUnmoved DEF MapNow
<1> QED BY <1>2, <1>3, <1>4

LEMMA PutKeeps ==
    ASSUME CInv, NEW k \in Key, NEW v \in Value, hashmap_insert(k, v)
    PROVE  CInv' /\ Promised!Put(k, v)
<1>1. PICK own : Good(heap, table, queue, stack, list, own)
  BY DEF CInv
<1> DEFINE t == table[MapName]
           S == own[MapName]
<1>2. MapName \in Table /\ MapName \in Owner
  BY Owners
<1>3. heap \in HeapType /\ GoodTable(heap, t, S)
  BY <1>1, <1>2, NodesOfTable, Holders
<1>4. S \subseteq Node /\ (\A q \in S : heap[q].used)
      /\ \A n \in Unused(heap) : n \in Node /\ n \notin S /\ ~ heap[n].used
  BY <1>1, <1>2, Holders
<1>5. UNCHANGED <<queue, stack, list>> /\ answer' = NULL
  BY DEF hashmap_insert
<1>6. contains(heap, t, k) <=> k \in KeysOf(heap, S)
  BY <1>3, KeyKnown
<1> DEFINE After(t2, T, n) ==
               /\ heap' \in HeapType /\ table' = PutTable(table, MapName, t2)
               /\ GoodTable(heap', t2, T) /\ Changed(heap, heap', S, T) /\ T = S \cup {n}
               /\ heap'[n].key = k /\ heap'[n].value = v
               /\ \A q \in S \ {n} : heap'[q].key = heap[q].key /\ heap'[q].value = heap[q].value
               /\ \A q \in S : q = n => heap[q].key = k
<1>7. \E t2, T, n : After(t2, T, n)
  <2>1. CASE contains(heap, t, k)
    <3> DEFINE n == lookup(heap, t, k)
    <3>1. heap' = [heap EXCEPT ![n].value = v] /\ table' = table
      BY <2>1 DEF hashmap_insert
    <3>2. n \in S /\ heap[n].key = k
      BY <2>1, <1>3, RemoveNode
    <3>3. Stored(heap, n, v, heap')
      BY <3>1 DEF Stored
    <3> HIDE DEF n
    <3>4. /\ heap' \in HeapType
          /\ heap'[n].value = v /\ heap'[n].key = heap[n].key /\ heap'[n].next = heap[n].next
          /\ heap'[n].used = heap[n].used
          /\ \A q \in Node \ {n} : heap'[q] = heap[q]
      BY <3>2, <3>3, <1>3, <1>4, HeapValue
    <3>5. \A q \in S : /\ heap'[q].next = heap[q].next /\ heap'[q].key = heap[q].key
                       /\ heap'[q].used = heap[q].used
      BY <3>4, <1>4
    <3>6. GoodTable(heap', t, S)
      <4> HIDE DEF t, S
      <4> QED BY <3>4, <3>5, <1>3, TableKept
    <3>7. Changed(heap, heap', S, S)
      BY <3>2, <3>4, <3>5, <1>4 DEF Changed
    <3>8. table' = PutTable(table, MapName, t)
      <4>1. table \in [Table -> TableType]
        BY <1>1 DEF Good
      <4> QED BY <4>1, <1>2, <3>1 DEF PutTable
    <3> HIDE DEF t, S
    <3>9. After(t, S, n)
      BY <3>2, <3>4, <3>6, <3>7, <3>8, <1>4
    <3> HIDE DEF After
    <3> QED BY <3>9
  <2>2. CASE ~ contains(heap, t, k)
    <3>1. PICK n \in Unused(heap) :
              /\ heap' = add_node(heap, t, k, v, n).heap
              /\ table' = PutTable(table, MapName, add_node(heap, t, k, v, n).table)
      BY <2>2, Zenon DEF hashmap_insert, PutTable
    <3> DEFINE m == add_node(heap, t, k, v, n)
               T == S \cup {n}
    <3>2. n \in Node /\ n \notin S /\ ~ heap[n].used
      BY <3>1, <1>4
    <3>3. Added(heap, m, S, k, v, n)
      BY <1>3, <1>6, <2>2, <3>2, AddNode
    <3>4. heap' = m.heap /\ table' = PutTable(table, MapName, m.table)
      BY <3>1
    <3> HIDE DEF t, S, m
    <3>5. GoodTable(heap', m.table, T) /\ AddedNode(heap, heap', S, k, v, n)
      BY <3>3, <3>4 DEF Added
    <3>6. Changed(heap, heap', S, T)
      BY <3>2, <3>5, <1>4 DEF Changed, AddedNode
    <3>7. After(m.table, T, n)
      BY <3>2, <3>4, <3>5, <3>6 DEF AddedNode
    <3> HIDE DEF After
    <3> QED BY <3>7
  <2> QED BY <2>1, <2>2
<1>8. PICK t2, T, n : After(t2, T, n)
  BY <1>7
<1> HIDE DEF t, S
<1>9. \A j \in Key : get(heap', t2, j) = IF j = k THEN v ELSE get(heap, t, j)
  BY <1>3, <1>8, GetAfter
<1>10. MapNow(heap, heap', table, PutTable(table, MapName, t2), queue, stack, list)
       /\ PutTable(table, MapName, t2)[MapName] = t2
  BY <1>1, <1>8, MapChanges DEF S
<1>11. table' = PutTable(table, MapName, t2) /\ table'[MapName] = t2
  BY <1>8, <1>10
<1>12. CInv' /\ Sets' = Sets /\ Unmoved
  BY <1>5, <1>10, <1>11, AfterMap
<1>13. Map' = [Map EXCEPT ![k] = v]
  <2>1. Map = [j \in Key |-> get(heap, t, j)]
    BY DEF Map, t
  <2>2. Map' = [j \in Key |-> get(heap', t2, j)]
    BY <1>11 DEF Map
  <2> QED BY <2>1, <2>2, <1>9
<1> QED BY <1>5, <1>12, <1>13 DEF Promised!Put, Sets, Map, Unmoved

LEMMA AfterSeq ==
    ASSUME SeqNow(heap, heap', table, queue', stack', list'), UNCHANGED table,
           answer' \in BOOLEAN \cup Value \cup {NULL}
    PROVE  CInv' /\ Sets' = Sets /\ Map' = Map
<1>1. \E own : Good(heap', table', queue', stack', list', own)
  BY DEF SeqNow
<1>2. CInv'
  BY <1>1 DEF CInv
<1> QED BY <1>2, Meanings DEF SeqNow

LEMMA SeqsStay ==
    /\ queue' = queue /\ SeqAsBefore(heap, heap', queue.head)
           => Values(queue.head)' = Values(queue.head)
    /\ stack' = stack /\ SeqAsBefore(heap, heap', stack.head)
           => Values(stack.head)' = Values(stack.head)
    /\ list' = list /\ SeqAsBefore(heap, heap', list.head)
           => Values(list.head)' = Values(list.head)
BY DEF Values, ValuesOf, SeqAsBefore

(* Sizes, and what a chain without nodes or with one more counts. *)
LEMMA Counts ==
    ASSUME NEW S, S \subseteq Node
    PROVE  /\ Cardinality(S) \in Nat /\ (Cardinality(S) = 0 <=> S = {})
           /\ \A n \in Node \ S : Cardinality(S \cup {n}) = Cardinality(S) + 1
           /\ \A n \in S : Cardinality(S \ {n}) = Cardinality(S) - 1
                           /\ Cardinality(S \ {n}) \in Nat
<1>1. IsFiniteSet(S) /\ Cardinality(S) \in Nat
  BY FiniteNodes
<1>2. Cardinality(S) = 0 <=> S = {}
  BY <1>1, FS_EmptySet
<1>3. \A n \in Node \ S : Cardinality(S \cup {n}) = Cardinality(S) + 1
  BY <1>1, FS_AddElement
<1>4. \A n \in S : Cardinality(S \ {n}) = Cardinality(S) - 1
  BY <1>1, FS_RemoveElement
<1>5. \A n \in S : Cardinality(S \ {n}) \in Nat
  BY FiniteNodes
<1> QED BY <1>1, <1>2, <1>3, <1>4, <1>5

LEMMA ListOf ==
    ASSUME NEW h \in HeapType, NEW c, NEW S, GoodList(h, c, S)
    PROVE  /\ c.head \in Pointer /\ c.size \in Nat /\ GoodChain(h, c.head)
           /\ Nodes(h, c.head) = S /\ S \subseteq Node /\ c.size = Cardinality(S)
           /\ (c.size = 0 <=> c.head = NULL) /\ (c.head = NULL <=> S = {})
           /\ (c.head = NULL <=> ValuesOf(h, c.head) = <<>>)
           /\ (c.head # NULL => h[c.head].value \in Value \cup {NULL} /\ h[c.head].next \in Pointer)
<1>1. /\ c.head \in Pointer /\ c.size \in Nat /\ GoodChain(h, c.head)
      /\ Nodes(h, c.head) = S /\ c.size = Cardinality(S)
  BY DEF GoodList
<1>2. /\ S \subseteq Node /\ (c.head = NULL <=> S = {})
      /\ (c.head = NULL <=> Chain(h, c.head) = <<>>) /\ Chain(h, c.head) \in Seq(Node)
  BY <1>1, ChainOf
<1>3. c.size = 0 <=> S = {}
  BY <1>1, <1>2, Counts
<1>4. c.head = NULL <=> ValuesOf(h, c.head) = <<>>
  <2> DEFINE s == Chain(h, c.head)
             u == ValuesOf(h, c.head)
  <2>1. u \in Seq(Slot) /\ Len(u) = Len(s) /\ s \in Seq(Node)
    BY <1>1, <1>2, ValuesAre DEF GoodChain
  <2>2. c.head = NULL <=> s = <<>>
    BY <1>2
  <2> HIDE DEF u, s
  <2>3. s = <<>> <=> u = <<>>
    BY <2>1
  <2> QED BY <2>2, <2>3 DEF u
<1>5. c.head # NULL => c.head \in Node
  BY <1>1 DEF Pointer
<1>6. c.head # NULL => h[c.head].value \in Value \cup {NULL} /\ h[c.head].next \in Pointer
  BY <1>5, HeapFields
<1> QED BY <1>1, <1>2, <1>3, <1>4, <1>6

(* A list after a push, and after its first node was taken. *)
ListPushed(h, h2, c, c2, S, T, v) ==
    /\ Changed(h, h2, S, T) /\ GoodList(h2, c2, T)
    /\ ValuesOf(h2, c2.head) = <<v>> \o ValuesOf(h, c.head)

LEMMA PushOnList ==
    ASSUME NEW h \in HeapType, NEW c, NEW S, GoodList(h, c, S),
           NEW n \in Node, n \notin S, ~ h[n].used, \A q \in S : h[q].used, NEW v \in Value,
           NEW h2, Put(h, n, NewNode(NULL, v, c.head), h2),
           NEW c2, c2 = [head |-> n, size |-> c.size + 1]
    PROVE  ListPushed(h, h2, c, c2, S, S \cup {n}, v)
<1> DEFINE p == c.head
           T == S \cup {n}
<1>1. /\ p \in Pointer /\ c.size \in Nat /\ GoodChain(h, p) /\ Nodes(h, p) = S
      /\ S \subseteq Node /\ c.size = Cardinality(S)
  BY ListOf
<1>2. Put(h, n, NewNode(NULL, v, p), h2)
  OBVIOUS
<1> HIDE DEF p
<1>3. ToFront(h, h2, p, n, v)
  BY <1>1, <1>2, PushedFront
<1>4. /\ h2 \in HeapType /\ h2[n].used = TRUE /\ \A q \in Node \ {n} : h2[q] = h[q]
      /\ GoodChain(h2, n) /\ Nodes(h2, n) = T
      /\ ValuesOf(h2, n) = <<v>> \o ValuesOf(h, p)
  BY <1>1, <1>3 DEF ToFront
<1>5. Cardinality(T) = c.size + 1
  BY <1>1, Counts
<1> HIDE DEF T
<1>6. GoodList(h2, c2, T) /\ c2.head = n
  BY <1>1, <1>4, <1>5 DEF GoodList, Pointer
<1>7. Changed(h, h2, S, T)
  BY <1>1, <1>4 DEF Changed, T
<1> QED BY <1>4, <1>6, <1>7 DEF ListPushed, p, T

ListPopped(h, h2, c, c2, S, T) ==
    /\ Changed(h, h2, S, T) /\ GoodList(h2, c2, T)
    /\ ValuesOf(h, c.head) # <<>>
    /\ Head(ValuesOf(h, c.head)) = h[c.head].value
    /\ Tail(ValuesOf(h, c.head)) = ValuesOf(h2, c2.head)

LEMMA PopOfList ==
    ASSUME NEW h \in HeapType, NEW c, NEW S, GoodList(h, c, S), c.head # NULL,
           \A q \in S : h[q].used,
           NEW h2, Put(h, c.head, Freed, h2),
           NEW c2, c2 = [head |-> h[c.head].next, size |-> c.size - 1]
    PROVE  ListPopped(h, h2, c, c2, S, S \ {c.head})
<1> DEFINE p == c.head
           x == h[p].next
           T == S \ {p}
<1>1. /\ p \in Pointer /\ c.size \in Nat /\ GoodChain(h, p) /\ Nodes(h, p) = S
      /\ S \subseteq Node /\ c.size = Cardinality(S) /\ x \in Pointer /\ p # NULL
  BY ListOf
<1>2. Put(h, p, Freed, h2) /\ c2 = [head |-> x, size |-> c.size - 1]
  OBVIOUS
<1> HIDE DEF p
<1>3. FromFront(h, h2, p)
  BY <1>1, <1>2, TookFirst
<1>4. /\ h2 \in HeapType /\ h2[p] = Freed /\ \A q \in Node \ {p} : h2[q] = h[q]
      /\ p \in S /\ GoodChain(h2, x) /\ Nodes(h2, x) = T
      /\ ValuesOf(h, p) # <<>> /\ Head(ValuesOf(h, p)) = h[p].value
      /\ Tail(ValuesOf(h, p)) = ValuesOf(h2, x)
  BY <1>1, <1>3 DEF FromFront
<1>5. Cardinality(T) = c.size - 1 /\ c.size - 1 \in Nat
  BY <1>1, <1>4, Counts
<1> HIDE DEF T, x
<1>6. GoodList(h2, c2, T) /\ c2.head = x
  BY <1>1, <1>2, <1>4, <1>5 DEF GoodList
<1>7. Changed(h, h2, S, T)
  <2>1. ~ h2[p].used
    BY <1>4, NodeTypes
  <2>2. S \ T = {p} /\ T \subseteq S /\ \A q \in T : q # p
    BY <1>4 DEF T
  <2>3. \A q \in T : h2[q] = h[q]
    BY <2>2, <1>1, <1>4
  <2> QED BY <2>1, <2>2, <2>3, <1>1, <1>4 DEF Changed
<1> QED BY <1>4, <1>6, <1>7 DEF ListPopped, p, T

LEMMA StackPushKeeps ==
    ASSUME CInv, NEW v \in Value, stack_push(v)
    PROVE  CInv' /\ Promised!Push(v)
<1>1. PICK own : Good(heap, table, queue, stack, list, own)
  BY DEF CInv
<1> DEFINE S == own["stack"]
<1>2. PICK n \in Unused(heap) :
          /\ heap' = [heap EXCEPT ![n] = NewNode(NULL, v, stack.head)]
          /\ answer' = NULL /\ stack' = [head |-> n, size |-> stack.size + 1]
          /\ UNCHANGED <<table, queue, list>>
  BY DEF stack_push, Pushed
<1>3. GoodList(heap, stack, S) /\ heap \in HeapType /\ (\A q \in S : heap[q].used)
      /\ n \in Node /\ n \notin S /\ ~ heap[n].used
  BY <1>1, <1>2, Owners, Holders DEF Good
<1>4. Put(heap, n, NewNode(NULL, v, stack.head), heap')
  BY <1>2 DEF Put
<1> DEFINE T == S \cup {n}
<1> HIDE DEF S
<1>5. ListPushed(heap, heap', stack, stack', S, T, v)
  BY <1>2, <1>3, <1>4, PushOnList
<1> HIDE DEF T
<1>6. /\ SeqNow(heap, heap', table, queue, stack', list)
      /\ SeqAsBefore(heap, heap', queue.head) /\ SeqAsBefore(heap, heap', list.head)
  BY <1>1, <1>5, StackNow DEF ListPushed, S
<1>7. CInv' /\ Sets' = Sets /\ Map' = Map
  BY <1>2, <1>6, AfterSeq
<1>8. /\ Values(queue.head)' = Values(queue.head) /\ Values(list.head)' = Values(list.head)
      /\ Values(stack.head)' = <<v>> \o Values(stack.head)
  <2>1. ValuesOf(heap', stack'.head) = <<v>> \o ValuesOf(heap, stack.head)
    BY <1>5 DEF ListPushed
  <2>2. Values(stack.head)' = ValuesOf(heap', stack'.head)
        /\ Values(stack.head) = ValuesOf(heap, stack.head)
    BY DEF Values, ValuesOf
  <2>3. Values(stack.head)' = <<v>> \o Values(stack.head)
    BY <2>1, <2>2, Zenon
  <2>4. Values(queue.head)' = Values(queue.head) /\ Values(list.head)' = Values(list.head)
    BY <1>2, <1>6, SeqsStay
  <2> QED BY <2>3, <2>4
<1> QED BY <1>2, <1>7, <1>8 DEF Promised!Push, Sets, Map

LEMMA StackPopKeeps ==
    ASSUME CInv, stack_pop
    PROVE  CInv' /\ Promised!Pop
<1>1. PICK own : Good(heap, table, queue, stack, list, own)
  BY DEF CInv
<1> DEFINE S == own["stack"]
<1>2. UNCHANGED <<table, queue, list>>
  BY DEF stack_pop
<1>3. GoodList(heap, stack, S) /\ heap \in HeapType /\ (\A q \in S : heap[q].used)
  BY <1>1, Owners, Holders DEF Good
<1>4. /\ (stack.size = 0 <=> stack.head = NULL)
      /\ (stack.head = NULL <=> Values(stack.head) = <<>>)
      /\ (stack.head # NULL => heap[stack.head].value \in Value \cup {NULL})
  BY <1>3, ListOf, Meanings
<1>5. CASE stack.size = 0
  <2>1. answer' = NULL /\ UNCHANGED <<heap, stack>>
    BY <1>5 DEF stack_pop
  <2>2. CInv' /\ Sets' = Sets /\ Map' = Map /\ Unmoved
    BY <2>1, <1>2, NothingMoved
  <2>3. Values(stack.head) = <<>>
    BY <1>4, <1>5
  <2> QED BY <2>1, <2>2, <2>3
          DEF Promised!Pop, Promised!First, Promised!Rest, Sets, Map, Unmoved
<1>6. CASE stack.size # 0
  <2>1. /\ answer' = heap[stack.head].value /\ Put(heap, stack.head, Freed, heap')
        /\ stack' = [head |-> heap[stack.head].next, size |-> stack.size - 1]
    BY <1>6 DEF stack_pop, free, Put
  <2> DEFINE T == S \ {stack.head}
  <2> HIDE DEF S
  <2>2. ListPopped(heap, heap', stack, stack', S, T)
    BY <2>1, <1>3, <1>4, <1>6, PopOfList
  <2> HIDE DEF T
  <2>3. /\ SeqNow(heap, heap', table, queue, stack', list)
        /\ SeqAsBefore(heap, heap', queue.head) /\ SeqAsBefore(heap, heap', list.head)
    BY <1>1, <2>2, StackNow DEF ListPopped, S
  <2>4. CInv' /\ Sets' = Sets /\ Map' = Map
    BY <2>1, <2>3, <1>2, <1>4, <1>6, AfterSeq
  <2>5. /\ Values(queue.head)' = Values(queue.head) /\ Values(list.head)' = Values(list.head)
        /\ Values(stack.head) # <<>> /\ Values(stack.head)' = Tail(Values(stack.head))
        /\ answer' = Head(Values(stack.head))
    <3>1. /\ ValuesOf(heap, stack.head) # <<>>
          /\ Head(ValuesOf(heap, stack.head)) = heap[stack.head].value
          /\ Tail(ValuesOf(heap, stack.head)) = ValuesOf(heap', stack'.head)
      BY <2>2 DEF ListPopped
    <3> QED BY <3>1, <2>1, <2>3, <1>2 DEF Values, ValuesOf, SeqAsBefore
  <2> QED BY <1>2, <2>4, <2>5 DEF Promised!Pop, Promised!First, Promised!Rest, Sets, Map
<1> QED BY <1>5, <1>6

LEMMA ListPushKeeps ==
    ASSUME CInv, NEW v \in Value, linkedlist_push(v)
    PROVE  CInv' /\ Promised!ListPush(v)
<1>1. PICK own : Good(heap, table, queue, stack, list, own)
  BY DEF CInv
<1> DEFINE S == own["list"]
<1>2. PICK n \in Unused(heap) :
          /\ heap' = [heap EXCEPT ![n] = NewNode(NULL, v, list.head)]
          /\ answer' = NULL /\ list' = [head |-> n, size |-> list.size + 1]
          /\ UNCHANGED <<table, queue, stack>>
  BY DEF linkedlist_push, Pushed
<1>3. GoodList(heap, list, S) /\ heap \in HeapType /\ (\A q \in S : heap[q].used)
      /\ n \in Node /\ n \notin S /\ ~ heap[n].used
  BY <1>1, <1>2, Owners, Holders DEF Good
<1>4. Put(heap, n, NewNode(NULL, v, list.head), heap')
  BY <1>2 DEF Put
<1> DEFINE T == S \cup {n}
<1> HIDE DEF S
<1>5. ListPushed(heap, heap', list, list', S, T, v)
  BY <1>2, <1>3, <1>4, PushOnList
<1> HIDE DEF T
<1>6. /\ SeqNow(heap, heap', table, queue, stack, list')
      /\ SeqAsBefore(heap, heap', queue.head) /\ SeqAsBefore(heap, heap', stack.head)
  BY <1>1, <1>5, ListNow DEF ListPushed, S
<1>7. CInv' /\ Sets' = Sets /\ Map' = Map
  BY <1>2, <1>6, AfterSeq
<1>8. /\ Values(queue.head)' = Values(queue.head) /\ Values(stack.head)' = Values(stack.head)
      /\ Values(list.head)' = <<v>> \o Values(list.head)
  <2>1. ValuesOf(heap', list'.head) = <<v>> \o ValuesOf(heap, list.head)
    BY <1>5 DEF ListPushed
  <2>2. Values(list.head)' = ValuesOf(heap', list'.head)
        /\ Values(list.head) = ValuesOf(heap, list.head)
    BY DEF Values, ValuesOf
  <2>3. Values(list.head)' = <<v>> \o Values(list.head)
    BY <2>1, <2>2, Zenon
  <2>4. Values(queue.head)' = Values(queue.head) /\ Values(stack.head)' = Values(stack.head)
    BY <1>2, <1>6, SeqsStay
  <2> QED BY <2>3, <2>4
<1> QED BY <1>2, <1>7, <1>8 DEF Promised!ListPush, Sets, Map

LEMMA ListPopKeeps ==
    ASSUME CInv, linkedlist_pop
    PROVE  CInv' /\ Promised!ListPop
<1>1. PICK own : Good(heap, table, queue, stack, list, own)
  BY DEF CInv
<1> DEFINE S == own["list"]
<1>2. UNCHANGED <<table, queue, stack>>
  BY DEF linkedlist_pop
<1>3. GoodList(heap, list, S) /\ heap \in HeapType /\ (\A q \in S : heap[q].used)
  BY <1>1, Owners, Holders DEF Good
<1>4. /\ (list.head = NULL <=> Values(list.head) = <<>>)
      /\ (list.head # NULL => heap[list.head].value \in Value \cup {NULL})
  BY <1>3, ListOf, Meanings
<1>5. CASE list.head = NULL
  <2>1. answer' = NULL /\ UNCHANGED <<heap, list>>
    BY <1>5 DEF linkedlist_pop
  <2>2. CInv' /\ Sets' = Sets /\ Map' = Map /\ Unmoved
    BY <2>1, <1>2, NothingMoved
  <2>3. Values(list.head) = <<>>
    BY <1>4, <1>5
  <2> QED BY <2>1, <2>2, <2>3
          DEF Promised!ListPop, Promised!First, Promised!Rest, Sets, Map, Unmoved
<1>6. CASE list.head # NULL
  <2>1. /\ answer' = heap[list.head].value /\ Put(heap, list.head, Freed, heap')
        /\ list' = [head |-> heap[list.head].next, size |-> list.size - 1]
    BY <1>6 DEF linkedlist_pop, free, Put
  <2> DEFINE T == S \ {list.head}
  <2> HIDE DEF S
  <2>2. ListPopped(heap, heap', list, list', S, T)
    BY <2>1, <1>3, <1>6, PopOfList
  <2> HIDE DEF T
  <2>3. /\ SeqNow(heap, heap', table, queue, stack, list')
        /\ SeqAsBefore(heap, heap', queue.head) /\ SeqAsBefore(heap, heap', stack.head)
    BY <1>1, <2>2, ListNow DEF ListPopped, S
  <2>4. CInv' /\ Sets' = Sets /\ Map' = Map
    BY <2>1, <2>3, <1>2, <1>4, <1>6, AfterSeq
  <2>5. /\ Values(queue.head)' = Values(queue.head) /\ Values(stack.head)' = Values(stack.head)
        /\ Values(list.head) # <<>> /\ Values(list.head)' = Tail(Values(list.head))
        /\ answer' = Head(Values(list.head))
    <3>1. /\ ValuesOf(heap, list.head) # <<>>
          /\ Head(ValuesOf(heap, list.head)) = heap[list.head].value
          /\ Tail(ValuesOf(heap, list.head)) = ValuesOf(heap', list'.head)
      BY <2>2 DEF ListPopped
    <3> QED BY <3>1, <2>1, <2>3, <1>2 DEF Values, ValuesOf, SeqAsBefore
  <2> QED BY <1>2, <2>4, <2>5 DEF Promised!ListPop, Promised!First, Promised!Rest, Sets, Map
<1> QED BY <1>5, <1>6

(* A chain with one more value at its end. *)
Grown(h, h2, p, p2, S, n, v) ==
    /\ Changed(h, h2, S, S \cup {n})
    /\ GoodChain(h2, p2) /\ Nodes(h2, p2) = S \cup {n}
    /\ ValuesOf(h2, p2) = Append(ValuesOf(h, p), v)
    /\ Last(Chain(h2, p2)) = n

LEMMA GrownEmpty ==
    ASSUME NEW h \in HeapType, NEW n \in Node, ~ h[n].used, NEW v \in Value,
           NEW h2, Put(h, n, NewNode(NULL, v, NULL), h2)
    PROVE  Grown(h, h2, NULL, n, {}, n, v)
<1>1. GoodChain(h, NULL) /\ Chain(h, NULL) = <<>> /\ Nodes(h, NULL) = {}
  BY NullChain
<1>2. ToFront(h, h2, NULL, n, v)
  BY <1>1, PushedFront
<1>3. ValuesOf(h, NULL) = <<>>
  BY <1>1 DEF ValuesOf
<1>4. <<v>> \o ValuesOf(h, NULL) = Append(ValuesOf(h, NULL), v)
  BY <1>3
<1>5. /\ h2 \in HeapType /\ h2[n].used = TRUE /\ \A q \in Node \ {n} : h2[q] = h[q]
      /\ GoodChain(h2, n) /\ Nodes(h2, n) = {} \cup {n}
      /\ Last(Chain(h2, n)) = n
      /\ ValuesOf(h2, n) = <<v>> \o ValuesOf(h, NULL)
  BY <1>1, <1>2 DEF ToFront
<1>6. Changed(h, h2, {}, {} \cup {n})
  BY <1>5 DEF Changed
<1>7. ValuesOf(h2, n) = Append(ValuesOf(h, NULL), v)
  BY <1>4, <1>5, Zenon
<1> QED BY <1>5, <1>6, <1>7 DEF Grown

LEMMA GrownAtEnd ==
    ASSUME NEW h \in HeapType, NEW p, GoodChain(h, p), p # NULL, NEW S, Nodes(h, p) = S,
           \A q \in S : h[q].used, NEW n \in Node, ~ h[n].used, NEW v \in Value,
           NEW h1, Put(h, n, NewNode(NULL, v, NULL), h1),
           NEW h2, Linked(h1, Last(Chain(h, p)), n, h2)
    PROVE  Grown(h, h2, p, p, S, n, v)
<1>1. S \subseteq Node /\ n \notin S
  BY ChainOf
<1>2. ToEnd(h, h2, p, n, v)
  BY <1>1, AddedLast
<1>3. /\ h2 \in HeapType /\ h2[n].used = TRUE /\ \A q \in Node \ (S \cup {n}) : h2[q] = h[q]
      /\ \A q \in S : h2[q].used = h[q].used
      /\ GoodChain(h2, p) /\ Nodes(h2, p) = S \cup {n}
      /\ ValuesOf(h2, p) = Append(ValuesOf(h, p), v)
      /\ Last(Chain(h2, p)) = n
  BY <1>2 DEF ToEnd
<1>4. Changed(h, h2, S, S \cup {n})
  BY <1>1, <1>3 DEF Changed
<1> QED BY <1>3, <1>4 DEF Grown

LEMMA ListAddKeeps ==
    ASSUME CInv, NEW v \in Value, linkedlist_add(v)
    PROVE  CInv' /\ Promised!ListAdd(v)
<1>1. PICK own : Good(heap, table, queue, stack, list, own)
  BY DEF CInv
<1> DEFINE S == own["list"]
           p == list.head
<1>2. PICK n \in Unused(heap) :
          /\ heap' = IF p = NULL THEN [heap EXCEPT ![n] = NewNode(NULL, v, NULL)]
                     ELSE [[heap EXCEPT ![n] = NewNode(NULL, v, NULL)]
                              EXCEPT ![Last(Chain(heap, p))].next = n]
          /\ list' = [head |-> IF p = NULL THEN n ELSE p, size |-> list.size + 1]
  BY Zenon DEF linkedlist_add
<1>3. UNCHANGED <<table, queue, stack>> /\ answer' = NULL
  BY DEF linkedlist_add
<1>4. GoodList(heap, list, S) /\ heap \in HeapType /\ (\A q \in S : heap[q].used)
      /\ n \in Node /\ n \notin S /\ ~ heap[n].used
  BY <1>1, <1>2, Owners, Holders DEF Good
<1>5. /\ p \in Pointer /\ GoodChain(heap, p) /\ Nodes(heap, p) = S /\ S \subseteq Node
      /\ list.size \in Nat /\ list.size = Cardinality(S) /\ (p = NULL <=> S = {})
  BY <1>4, ListOf
<1> DEFINE T == S \cup {n}
           made == [heap EXCEPT ![n] = NewNode(NULL, v, NULL)]
           p2 == IF p = NULL THEN n ELSE p
<1>6. /\ Put(heap, n, NewNode(NULL, v, NULL), made)
      /\ p = NULL => heap' = made
      /\ p # NULL => Linked(made, Last(Chain(heap, p)), n, heap')
  BY <1>2 DEF Put, Linked
<1>7. list' = [head |-> p2, size |-> list.size + 1] /\ list'.head = p2
  BY <1>2
<1> HIDE DEF S, p, made
<1>8. Grown(heap, heap', p, p2, S, n, v)
  <2>1. CASE p = NULL
    <3>1. p2 = n /\ S = {} /\ Put(heap, n, NewNode(NULL, v, NULL), heap')
      BY <2>1, <1>5, <1>6
    <3>2. Grown(heap, heap', NULL, n, {}, n, v)
      BY <3>1, <1>4, GrownEmpty
    <3> QED BY <2>1, <3>1, <3>2, Zenon
  <2>2. CASE p # NULL
    <3>1. p2 = p
      BY <2>2
    <3>2. Put(heap, n, NewNode(NULL, v, NULL), made)
          /\ Linked(made, Last(Chain(heap, p)), n, heap')
      BY <2>2, <1>6
    <3> HIDE DEF p2
    <3>3. Grown(heap, heap', p, p, S, n, v)
      BY <3>2, <2>2, <1>4, <1>5, GrownAtEnd
    <3> QED BY <3>1, <3>3, Zenon
  <2> QED BY <2>1, <2>2
<1>9. Cardinality(T) = list.size + 1
  BY <1>4, <1>5, Counts
<1>10. p2 \in Pointer
  BY <1>4, <1>5 DEF Pointer
<1> HIDE DEF T, p2
<1>11. GoodList(heap', list', T)
  <2>1. GoodChain(heap', p2) /\ Nodes(heap', p2) = T
    BY <1>8 DEF Grown, T
  <2> QED BY <2>1, <1>5, <1>7, <1>9, <1>10 DEF GoodList
<1>12. Changed(heap, heap', S, T)
  BY <1>8 DEF Grown, T
<1>13. /\ SeqNow(heap, heap', table, queue, stack, list')
       /\ SeqAsBefore(heap, heap', queue.head) /\ SeqAsBefore(heap, heap', stack.head)
  BY <1>1, <1>11, <1>12, ListNow DEF S
<1>14. CInv' /\ Sets' = Sets /\ Map' = Map
  BY <1>3, <1>13, AfterSeq
<1>15. Values(queue.head)' = Values(queue.head) /\ Values(stack.head)' = Values(stack.head)
  BY <1>3, <1>13, SeqsStay
<1>16. Values(list.head)' = Append(Values(list.head), v)
  <2>1. ValuesOf(heap', p2) = Append(ValuesOf(heap, p), v)
    BY <1>8 DEF Grown
  <2>2. Values(list.head)' = ValuesOf(heap', list'.head)
        /\ Values(list.head) = ValuesOf(heap, list.head)
    BY DEF Values, ValuesOf
  <2> QED BY <2>1, <2>2, <1>7, Zenon DEF p
<1> QED BY <1>3, <1>14, <1>15, <1>16 DEF Promised!ListAdd, Sets, Map

LEMMA QueueOf ==
    ASSUME NEW h \in HeapType, NEW q, NEW S, GoodQueue(h, q, S)
    PROVE  /\ q \in [head : Pointer, tail : Pointer, size : Nat]
           /\ GoodList(h, [head |-> q.head, size |-> q.size], S)
           /\ (S # {} => q.tail = Last(Chain(h, q.head)) /\ q.tail \in S)
<1>1. /\ q \in [head : Pointer, tail : Pointer, size : Nat]
      /\ GoodChain(h, q.head) /\ Nodes(h, q.head) = S /\ q.size = Cardinality(S)
      /\ S # {} => q.tail = Last(Chain(h, q.head))
  BY DEF GoodQueue
<1>2. GoodList(h, [head |-> q.head, size |-> q.size], S)
  BY <1>1 DEF GoodList
<1>3. ASSUME S # {} PROVE Last(Chain(h, q.head)) \in S
  <2> DEFINE s == Chain(h, q.head)
  <2>1. s \in Seq(Node) /\ s # <<>> /\ S = ToSet(s)
    BY <1>1, <1>3, ChainOf DEF Nodes
  <2> HIDE DEF s
  <2>2. ToSet(s) = {s[i] : i \in 1..Len(s)}
    BY <2>1, ToSetOf
  <2>3. Len(s) \in 1..Len(s)
    BY <2>1
  <2> QED BY <2>1, <2>2, <2>3 DEF Last, s
<1> QED BY <1>1, <1>2, <1>3

LEMMA EnqueueKeeps ==
    ASSUME CInv, NEW v \in Value, queue_enqueue(v)
    PROVE  CInv' /\ Promised!Enqueue(v)
<1>1. PICK own : Good(heap, table, queue, stack, list, own)
  BY DEF CInv
<1> DEFINE S == own["queue"]
           p == queue.head
           empty == queue.tail = NULL \/ queue.size = 0
<1>2. PICK n \in Unused(heap) :
          /\ empty => /\ heap' = [heap EXCEPT ![n] = NewNode(NULL, v, NULL)]
                      /\ queue' = [head |-> n, tail |-> n, size |-> queue.size + 1]
          /\ ~ empty => /\ heap' = [[heap EXCEPT ![n] = NewNode(NULL, v, NULL)]
                                       EXCEPT ![queue.tail].next = n]
                        /\ queue' = [queue EXCEPT !.tail = n, !.size = @ + 1]
  BY Zenon DEF queue_enqueue
<1>3. UNCHANGED <<table, stack, list>> /\ answer' = NULL
  BY DEF queue_enqueue
<1>4. GoodQueue(heap, queue, S) /\ heap \in HeapType /\ (\A q \in S : heap[q].used)
      /\ n \in Node /\ n \notin S /\ ~ heap[n].used
  BY <1>1, <1>2, Owners, Holders DEF Good
<1>5. /\ queue \in [head : Pointer, tail : Pointer, size : Nat]
      /\ GoodChain(heap, p) /\ Nodes(heap, p) = S /\ S \subseteq Node
      /\ queue.size = Cardinality(S) /\ (p = NULL <=> S = {}) /\ (queue.size = 0 <=> S = {})
      /\ S # {} => queue.tail = Last(Chain(heap, p)) /\ queue.tail \in S
  <2> DEFINE c == [head |-> queue.head, size |-> queue.size]
  <2>1. c.head = p /\ c.size = queue.size
    OBVIOUS
  <2>2. GoodList(heap, c, S)
    BY <1>4, QueueOf
  <2> HIDE DEF c, S
  <2>3. /\ GoodChain(heap, c.head) /\ Nodes(heap, c.head) = S /\ S \subseteq Node
        /\ c.size = Cardinality(S) /\ (c.head = NULL <=> S = {}) /\ (c.size = 0 <=> c.head = NULL)
    BY <2>2, <1>4, ListOf
  <2>4. /\ queue \in [head : Pointer, tail : Pointer, size : Nat]
        /\ S # {} => queue.tail = Last(Chain(heap, p)) /\ queue.tail \in S
    BY <1>4, QueueOf
  <2> QED BY <2>1, <2>3, <2>4
<1>6. empty <=> p = NULL
  BY <1>5, NamesApart
<1> DEFINE T == S \cup {n}
           made == [heap EXCEPT ![n] = NewNode(NULL, v, NULL)]
           p2 == IF p = NULL THEN n ELSE p
<1>7. /\ Put(heap, n, NewNode(NULL, v, NULL), made)
      /\ p = NULL => heap' = made
      /\ p # NULL => Linked(made, Last(Chain(heap, p)), n, heap')
  <2>1. p # NULL => queue.tail = Last(Chain(heap, p))
    BY <1>5
  <2> QED BY <2>1, <1>2, <1>6 DEF Put, Linked
<1>8. queue' = [head |-> p2, tail |-> n, size |-> queue.size + 1]
  BY <1>2, <1>5, <1>6
<1> HIDE DEF S, p, made, empty
<1>9. Grown(heap, heap', p, p2, S, n, v)
  <2>1. CASE p = NULL
    <3>1. p2 = n /\ S = {} /\ Put(heap, n, NewNode(NULL, v, NULL), heap')
      BY <2>1, <1>5, <1>7
    <3>2. Grown(heap, heap', NULL, n, {}, n, v)
      BY <3>1, <1>4, GrownEmpty
    <3> QED BY <2>1, <3>1, <3>2, Zenon
  <2>2. CASE p # NULL
    <3>1. p2 = p
      BY <2>2
    <3>2. Put(heap, n, NewNode(NULL, v, NULL), made)
          /\ Linked(made, Last(Chain(heap, p)), n, heap')
      BY <2>2, <1>7
    <3> HIDE DEF p2
    <3>3. Grown(heap, heap', p, p, S, n, v)
      BY <3>2, <2>2, <1>4, <1>5, GrownAtEnd
    <3> QED BY <3>1, <3>3, Zenon
  <2> QED BY <2>1, <2>2
<1>10. Cardinality(T) = queue.size + 1
  BY <1>4, <1>5, Counts
<1>11. p2 \in Pointer /\ n \in Pointer /\ queue.size + 1 \in Nat
  BY <1>4, <1>5 DEF Pointer, p
<1> HIDE DEF T, p2
<1>12. GoodQueue(heap', queue', T)
  <2>1. GoodChain(heap', p2) /\ Nodes(heap', p2) = T /\ Last(Chain(heap', p2)) = n
    BY <1>9 DEF Grown, T
  <2> QED BY <2>1, <1>8, <1>10, <1>11 DEF GoodQueue
<1>13. Changed(heap, heap', S, T)
  BY <1>9 DEF Grown, T
<1>14. /\ SeqNow(heap, heap', table, queue', stack, list)
       /\ SeqAsBefore(heap, heap', stack.head) /\ SeqAsBefore(heap, heap', list.head)
  BY <1>1, <1>12, <1>13, QueueNow DEF S
<1>15. CInv' /\ Sets' = Sets /\ Map' = Map
  BY <1>3, <1>14, AfterSeq
<1>16. Values(stack.head)' = Values(stack.head) /\ Values(list.head)' = Values(list.head)
  BY <1>3, <1>14, SeqsStay
<1>17. Values(queue.head)' = Append(Values(queue.head), v)
  <2>1. ValuesOf(heap', p2) = Append(ValuesOf(heap, p), v)
    BY <1>9 DEF Grown
  <2>2. Values(queue.head)' = ValuesOf(heap', queue'.head)
        /\ Values(queue.head) = ValuesOf(heap, queue.head)
    BY DEF Values, ValuesOf
  <2>3. queue'.head = p2
    BY <1>8
  <2> QED BY <2>1, <2>2, <2>3, Zenon DEF p
<1> QED BY <1>3, <1>15, <1>16, <1>17 DEF Promised!Enqueue, Sets, Map

LEMMA DequeueKeeps ==
    ASSUME CInv, queue_dequeue
    PROVE  CInv' /\ Promised!Dequeue
<1>1. PICK own : Good(heap, table, queue, stack, list, own)
  BY DEF CInv
<1> DEFINE S == own["queue"]
           c == [head |-> queue.head, size |-> queue.size]
<1>2. UNCHANGED <<table, stack, list>>
  BY DEF queue_dequeue
<1>3. GoodQueue(heap, queue, S) /\ heap \in HeapType /\ (\A q \in S : heap[q].used)
  BY <1>1, Owners, Holders DEF Good
<1>4. c.head = queue.head /\ c.size = queue.size
  OBVIOUS
<1>5. /\ GoodList(heap, c, S) /\ queue \in [head : Pointer, tail : Pointer, size : Nat]
      /\ S # {} => queue.tail = Last(Chain(heap, queue.head))
  BY <1>3, QueueOf
<1> HIDE DEF c
<1>6. /\ (queue.size = 0 <=> queue.head = NULL)
      /\ (queue.head = NULL <=> Values(queue.head) = <<>>)
      /\ (queue.head # NULL => heap[queue.head].value \in Value \cup {NULL})
  BY <1>3, <1>4, <1>5, ListOf, Meanings
<1>7. CASE queue.head = NULL
  <2>1. answer' = NULL /\ UNCHANGED <<heap, queue>>
    BY <1>7 DEF queue_dequeue
  <2>2. CInv' /\ Sets' = Sets /\ Map' = Map /\ Unmoved
    BY <2>1, <1>2, NothingMoved
  <2>3. Values(queue.head) = <<>>
    BY <1>6, <1>7
  <2> QED BY <2>1, <2>2, <2>3
          DEF Promised!Dequeue, Promised!First, Promised!Rest, Sets, Map, Unmoved
<1>8. CASE queue.head # NULL
  <2>1. /\ answer' = heap[queue.head].value /\ Put(heap, queue.head, Freed, heap')
        /\ queue' = [queue EXCEPT !.head = heap[queue.head].next, !.size = @ - 1]
    BY <1>6, <1>8 DEF queue_dequeue, free, Put
  <2> DEFINE T == S \ {queue.head}
             x == heap[queue.head].next
             c2 == [head |-> x, size |-> c.size - 1]
  <2> HIDE DEF S
  <2>2. ListPopped(heap, heap', c, c2, S, T)
    BY <2>1, <1>3, <1>4, <1>5, <1>8, PopOfList
  <2>3. c2.head = x /\ c2.size = queue.size - 1
    BY <1>4
  <2>4. queue' = [head |-> x, tail |-> queue.tail, size |-> queue.size - 1]
    BY <2>1, <1>5
  <2>5. GoodList(heap', c2, T) /\ Changed(heap, heap', S, T)
    BY <2>2 DEF ListPopped
  <2>6. /\ x \in Pointer /\ queue.size - 1 \in Nat /\ GoodChain(heap', x)
        /\ Nodes(heap', x) = T /\ queue.size - 1 = Cardinality(T) /\ (x = NULL <=> T = {})
    <3>1. heap' \in HeapType
      BY <2>5 DEF Changed
    <3> HIDE DEF c2, x, T
    <3> QED BY <3>1, <2>3, <2>5, ListOf
  <2>7. T # {} => Last(Chain(heap', x)) = Last(Chain(heap, queue.head)) /\ S # {}
    <3>1. GoodChain(heap, queue.head)
      BY <1>3 DEF GoodQueue
    <3>2. FromFront(heap, heap', queue.head)
      BY <3>1, <2>1, <1>3, <1>8, TookFirst
    <3>3. x # NULL => Last(Chain(heap', x)) = Last(Chain(heap, queue.head))
      BY <3>2 DEF FromFront
    <3>4. T # {} => S # {}
      OBVIOUS
    <3> HIDE DEF T, x
    <3> QED BY <3>3, <3>4, <2>6
  <2>8. T # {} => queue.tail = Last(Chain(heap', x))
    <3> HIDE DEF T, x
    <3> QED BY <2>7, <1>5
  <2> HIDE DEF T, x, c2
  <2>9. GoodQueue(heap', queue', T)
    BY <2>4, <2>6, <2>8, <1>5 DEF GoodQueue
  <2>10. /\ SeqNow(heap, heap', table, queue', stack, list)
         /\ SeqAsBefore(heap, heap', stack.head) /\ SeqAsBefore(heap, heap', list.head)
    BY <1>1, <2>5, <2>9, QueueNow DEF S
  <2>11. CInv' /\ Sets' = Sets /\ Map' = Map
    BY <2>1, <2>10, <1>2, <1>6, <1>8, AfterSeq
  <2>12. Values(stack.head)' = Values(stack.head) /\ Values(list.head)' = Values(list.head)
    BY <2>10, <1>2, SeqsStay
  <2>13. /\ Values(queue.head) # <<>> /\ Values(queue.head)' = Tail(Values(queue.head))
         /\ answer' = Head(Values(queue.head))
    <3>1. /\ ValuesOf(heap, queue.head) # <<>>
          /\ Head(ValuesOf(heap, queue.head)) = heap[queue.head].value
          /\ Tail(ValuesOf(heap, queue.head)) = ValuesOf(heap', queue'.head)
      BY <2>2, <2>3, <2>4, <1>4 DEF ListPopped
    <3> QED BY <3>1, <2>1 DEF Values, ValuesOf
  <2> QED BY <1>2, <2>11, <2>12, <2>13
          DEF Promised!Dequeue, Promised!First, Promised!Rest, Sets, Map
<1> QED BY <1>7, <1>8

-----------------------------------------------------------------------------
(* The invariant *)

LEMMA Started ==
    ASSUME Init
    PROVE  CInv /\ Promised!Init
<1> DEFINE c == IF Capacity < MINIMUM_CAPACITY THEN MINIMUM_CAPACITY ELSE Capacity
           B == [i \in 0..(c - 1) |-> NULL]
           own == [o \in Owner |-> {}]
<1>1. /\ heap = [n \in Node |-> Freed] /\ table = [t \in Table |-> create]
      /\ queue = [head |-> NULL, tail |-> NULL, size |-> 0]
      /\ stack = [head |-> NULL, size |-> 0] /\ list = [head |-> NULL, size |-> 0]
      /\ answer = NULL
  BY DEF Init, EmptyQueue, EmptyChain
<1>2. c \in Nat \ {0} /\ c >= 5
  BY NumbersAreNatural DEF MINIMUM_CAPACITY
<1>3. create = [buckets |-> B, capacity |-> c, size |-> 0]
  BY DEF create
<1> HIDE DEF c
<1>4. heap \in HeapType /\ \A n \in Node : heap[n] = Freed
  BY <1>1, NodeTypes DEF HeapType
<1>5. create.capacity = c /\ create.size = 0 /\ create.buckets = B
  <2> HIDE DEF B
  <2> QED BY <1>3
<1>6. GoodTable(heap, create, {})
  <2>1. B \in [0..(c - 1) -> Pointer]
    BY DEF Pointer
  <2> HIDE DEF B
  <2>2. B \in UNION {[0..(d - 1) -> Pointer] : d \in Nat \ {0}}
    BY <2>1, <1>2
  <2>3. create \in TableType
    BY <2>2, <1>2, <1>3 DEF TableType
  <2>4. create.buckets = [i \in 0..(create.capacity - 1) |-> NULL]
    BY <1>5 DEF B
  <2>5. Hashed(heap, create, {})
    BY <2>4, <1>2, <1>4, <1>5, HashedEmpty
  <2>6. create.size = Cardinality({})
    BY <1>5, FS_EmptySet
  <2> QED BY <2>3, <2>5, <2>6, <1>2, <1>5 DEF GoodTable
<1> HIDE DEF B
<1>7. own \in [Owner -> SUBSET Node] /\ \A o \in Owner : own[o] = {}
  OBVIOUS
<1> HIDE DEF own
<1>8. GoodChain(heap, NULL) /\ Chain(heap, NULL) = <<>> /\ Nodes(heap, NULL) = {}
  BY <1>4, NullChain
<1>9. Cardinality({}) = 0
  BY FS_EmptySet
<1>10. GoodQueue(heap, queue, {})
  <2>1. queue.head = NULL /\ queue.size = 0
        /\ queue \in [head : Pointer, tail : Pointer, size : Nat]
    BY <1>1 DEF Pointer
  <2> QED BY <2>1, <1>8, <1>9 DEF GoodQueue
<1>11. GoodList(heap, stack, {}) /\ GoodList(heap, list, {})
  <2>1. stack.head = NULL /\ stack.size = 0 /\ list = stack
        /\ stack \in [head : Pointer, size : Nat]
    BY <1>1 DEF Pointer
  <2> QED BY <2>1, <1>8, <1>9 DEF GoodList
<1>12. \A t \in Table : table[t] = create /\ GoodTable(heap, table[t], own[t])
  BY <1>1, <1>6, <1>7, Owners
<1>13. table \in [Table -> TableType]
  BY <1>1, <1>6 DEF GoodTable
<1>14. Divided(heap, own)
  BY <1>4, <1>7, NodeTypes DEF Divided
<1>15. Good(heap, table, queue, stack, list, own)
  BY <1>4, <1>7, <1>10, <1>11, <1>12, <1>13, <1>14, Owners DEF Good
<1>16. CInv
  BY <1>1, <1>15 DEF CInv
<1>17. Sets = [s \in SetName |-> {}]
  <2>1. Sets = [x \in SetName |-> KeysOf(heap, own[x])]
    BY <1>15, SetsAre, Meanings
  <2>2. \A x \in SetName : KeysOf(heap, own[x]) = {}
    BY <1>7, Owners DEF KeysOf
  <2> QED BY <2>1, <2>2
<1>18. Map = [k \in Key |-> NULL]
  <2>1. GoodTable(heap, table[MapName], {})
    BY <1>6, <1>12, Owners
  <2>2. \A k \in Key : get(heap, table[MapName], k) = NULL
    BY <2>1, GetIs DEF KeysOf
  <2> QED BY <2>2 DEF Map
<1>19. Values(queue.head) = <<>> /\ Values(stack.head) = <<>> /\ Values(list.head) = <<>>
  <2>1. queue.head = NULL /\ stack.head = NULL /\ list.head = NULL
    BY <1>1
  <2>2. Values(NULL) = <<>>
    BY <1>8 DEF Values
  <2> QED BY <2>1, <2>2
<1> QED BY <1>1, <1>16, <1>17, <1>18, <1>19 DEF Promised!Init, Sets, Map

LEMMA Stepped ==
    ASSUME CInv, [Next]_vars
    PROVE  CInv' /\ [Promised!Next]_Promised!vars
<1> SUFFICES CInv' /\ (Promised!Next \/ UNCHANGED Promised!vars)
  OBVIOUS
<1>1. CASE UNCHANGED vars
  <2>1. UNCHANGED <<heap, table, queue, stack, list, answer>>
    BY <1>1 DEF vars
  <2>2. answer' \in BOOLEAN \cup Value \cup {NULL}
    BY <2>1 DEF CInv
  <2>3. CInv' /\ Sets' = Sets /\ Map' = Map /\ Unmoved
    BY <2>1, <2>2, NothingMoved
  <2> QED BY <2>1, <2>3 DEF Promised!vars, Sets, Map, Unmoved
<1>2. CASE OnSets
  <2>1. CASE \E s \in SetName, k \in Key : hashset_insert(s, k)
    <3>1. PICK s \in SetName, k \in Key : hashset_insert(s, k)
      BY <2>1
    <3>2. CInv' /\ Promised!Insert(s, k)
      BY <3>1, InsertKeeps
    <3> QED BY <3>2 DEF Promised!Next
  <2>2. CASE \E s \in SetName, k \in Key : hashset_remove(s, k)
    <3>1. PICK s \in SetName, k \in Key : hashset_remove(s, k)
      BY <2>2
    <3>2. CInv' /\ Promised!Remove(s, k)
      BY <3>1, RemoveKeeps
    <3> QED BY <3>2 DEF Promised!Next
  <2>3. CASE \E s, t \in SetName : s # t /\ hashset_union(s, t)
    <3>1. PICK s \in SetName, t \in SetName : s # t /\ hashset_union(s, t)
      BY <2>3
    <3>2. CInv' /\ Promised!Union(s, t)
      BY <3>1, UnionKeeps
    <3> QED BY <3>1, <3>2 DEF Promised!Next
  <2>4. CASE \E s \in SetName : hashset_clear(s)
    <3>1. PICK s \in SetName : hashset_clear(s)
      BY <2>4
    <3>2. CInv' /\ Promised!Clear(s)
      BY <3>1, ClearKeeps
    <3> QED BY <3>2 DEF Promised!Next
  <2> QED BY <1>2, <2>1, <2>2, <2>3, <2>4, Zenon DEF OnSets
<1>3. CASE OnMap
  <2>1. PICK k \in Key, v \in Value : hashmap_insert(k, v)
    BY <1>3 DEF OnMap
  <2>2. CInv' /\ Promised!Put(k, v)
    BY <2>1, PutKeeps
  <2> QED BY <2>2 DEF Promised!Next
<1>4. CASE OnQueue
  <2>1. CASE queue_dequeue
    BY <2>1, DequeueKeeps DEF Promised!Next
  <2>2. CASE \E v \in Value : queue_enqueue(v)
    BY <2>2, EnqueueKeeps DEF Promised!Next
  <2> QED BY <1>4, <2>1, <2>2 DEF OnQueue
<1>5. CASE OnStack
  <2>1. CASE stack_pop
    BY <2>1, StackPopKeeps DEF Promised!Next
  <2>2. CASE \E v \in Value : stack_push(v)
    BY <2>2, StackPushKeeps DEF Promised!Next
  <2> QED BY <1>5, <2>1, <2>2 DEF OnStack
<1>6. CASE OnList
  <2>1. CASE linkedlist_pop
    BY <2>1, ListPopKeeps DEF Promised!Next
  <2>2. CASE \E v \in Value : linkedlist_push(v)
    BY <2>2, ListPushKeeps DEF Promised!Next
  <2>3. CASE \E v \in Value : linkedlist_add(v)
    BY <2>3, ListAddKeeps DEF Promised!Next
  <2> QED BY <1>6, <2>1, <2>2, <2>3 DEF OnList
<1> QED BY <1>1, <1>2, <1>3, <1>4, <1>5, <1>6 DEF Next

LEMMA Always == Spec => []CInv
<1>1. CInv /\ [Next]_vars => CInv'
  BY Stepped
<1> QED BY <1>1, Started, PTL DEF Spec

(* Every structure has its type, and its size field is the number of its    *)
(* nodes, however many nodes, keys and buckets there are and whatever the   *)
(* hash function: TypeOK, of HashSet.c, HashMap.c, Queue.c, Stack.c and     *)
(* LinkedList.c.                                                            *)
THEOREM ContainersTypeOK == Spec => []TypeOK
<1>1. ASSUME CInv PROVE TypeOK
  <2>1. PICK own : Good(heap, table, queue, stack, list, own)
    BY <1>1 DEF CInv
  <2>2. heap \in [Node -> [key : Key \cup {NULL}, value : Value \cup {NULL},
                           next : Pointer, used : BOOLEAN]]
    BY <2>1 DEF Good, HeapType, NodeType
  <2>3. ASSUME NEW t \in Table
        PROVE  /\ table[t].buckets \in [0..(table[t].capacity - 1) -> Pointer]
               /\ table[t].size = Len(Walk(heap, table[t]))
    <3> DEFINE x == table[t]
               S == own[t]
               s == Walk(heap, x)
    <3>1. GoodTable(heap, x, S)
      BY <2>1, NodesOfTable
    <3>2. Hashed(heap, x, S) /\ x.size = Cardinality(S)
          /\ x.buckets \in [0..(x.capacity - 1) -> Pointer]
      BY <3>1 DEF GoodTable, Hashed
    <3>3. s \in Seq(Node) /\ OnceEach(s) /\ ToSet(s) = S
      BY <3>2, WalkIs
    <3> HIDE DEF s, x, S
    <3>4. Cardinality(ToSet(s)) = Len(s)
      BY <3>3, SeqCounts DEF OnceEach
    <3> QED BY <3>2, <3>3, <3>4 DEF s, x
  <2>4. /\ queue.head \in Pointer /\ queue.tail \in Pointer
        /\ queue.size = Len(Chain(heap, queue.head))
    <3>1. GoodQueue(heap, queue, own["queue"])
      BY <2>1 DEF Good
    <3>2. Cardinality(Nodes(heap, queue.head)) = Len(Chain(heap, queue.head))
      BY <3>1, ChainOf DEF GoodQueue
    <3> QED BY <3>1, <3>2 DEF GoodQueue
  <2>5. stack.size = Len(Chain(heap, stack.head)) /\ list.size = Len(Chain(heap, list.head))
    <3>1. GoodList(heap, stack, own["stack"]) /\ GoodList(heap, list, own["list"])
      BY <2>1 DEF Good
    <3>2. /\ Cardinality(Nodes(heap, stack.head)) = Len(Chain(heap, stack.head))
          /\ Cardinality(Nodes(heap, list.head)) = Len(Chain(heap, list.head))
      BY <3>1, ChainOf DEF GoodList
    <3> QED BY <3>1, <3>2 DEF GoodList
  <2>6. answer \in BOOLEAN \cup Value \cup {NULL}
    BY <1>1 DEF CInv
  <2> QED BY <2>2, <2>3, <2>4, <2>5, <2>6 DEF TypeOK
<1> QED BY <1>1, Always, PTL

(* No node dangles, is shared or leaks: each node that malloc has given and *)
(* free has not taken back is in one container, once, and no other node is  *)
(* in any; and the queue's tail is its last node while it has one.          *)
THEOREM NodesHaveOneOwner == Spec => []OneOwner
<1>1. ASSUME CInv PROVE OneOwner
  <2>1. PICK own : Good(heap, table, queue, stack, list, own)
    BY <1>1 DEF CInv
  <2>2. \A t \in Table : ToSet(Walk(heap, table[t])) = own[t]
    BY <2>1, NodesOfTable
  <2>3. /\ ToSet(Chain(heap, queue.head)) = own["queue"]
        /\ ToSet(Chain(heap, stack.head)) = own["stack"]
        /\ ToSet(Chain(heap, list.head)) = own["list"]
    BY <2>1 DEF Good, GoodQueue, GoodList, Nodes
  <2> DEFINE chained(c) == ToSet(Chain(heap, CASE c = "queue" -> queue.head
                                               [] c = "stack" -> stack.head
                                               [] c = "list" -> list.head))
             A(n) == {t \in Table : n \in ToSet(Walk(heap, table[t]))}
             B(n) == {c \in {"queue", "stack", "list"} : n \in chained(c)}
  <2>4. \A c \in {"queue", "stack", "list"} : chained(c) = own[c]
    BY <2>3
  <2>5. \A n \in Node : A(n) = {t \in Table : n \in own[t]}
                        /\ B(n) = {c \in {"queue", "stack", "list"} : n \in own[c]}
    BY <2>2, <2>4
  <2>6. /\ \A c, d \in Owner : c # d => own[c] \cap own[d] = {}
        /\ \A n \in Node : heap[n].used <=> \E c \in Owner : n \in own[c]
        /\ \A n \in Node : heap[n].used \in BOOLEAN
    BY <2>1, HeapFields DEF Good, Divided
  <2>7. Cardinality({}) = 0 /\ \A x : Cardinality({x}) = 1
    BY FS_EmptySet, FS_Singleton
  <2> HIDE DEF A, B
  <2>8. ASSUME NEW n \in Node
        PROVE  Cardinality(A(n)) + Cardinality(B(n)) = IF heap[n].used THEN 1 ELSE 0
    <3>1. CASE ~ heap[n].used
      <4>1. A(n) = {} /\ B(n) = {}
        BY <3>1, <2>5, <2>6, Owners
      <4>2. Cardinality(A(n)) = 0 /\ Cardinality(B(n)) = 0
        BY <4>1, <2>7, Zenon
      <4> QED BY <4>2, <3>1
    <3>2. CASE heap[n].used
      <4>1. PICK c \in Owner : n \in own[c]
        BY <3>2, <2>6
      <4>2. \A d \in Owner : n \in own[d] => d = c
        BY <4>1, <2>6
      <4>3. CASE c \in Table
        <5>1. A(n) = {c} /\ B(n) = {}
          BY <4>1, <4>2, <4>3, <2>5, Owners
        <5>2. Cardinality(A(n)) = 1 /\ Cardinality(B(n)) = 0
          BY <5>1, <2>7, Zenon
        <5> QED BY <5>2, <3>2
      <4>4. CASE c \in {"queue", "stack", "list"}
        <5>1. c \notin Table
          BY <4>4, Owners
        <5>2. A(n) = {} /\ B(n) = {c}
          BY <5>1, <4>1, <4>2, <4>4, <2>5, Owners
        <5>3. Cardinality(A(n)) = 0 /\ Cardinality(B(n)) = 1
          BY <5>2, <2>7, Zenon
        <5> QED BY <5>3, <3>2
      <4> QED BY <4>3, <4>4 DEF Owner
    <3> QED BY <3>1, <3>2
  <2>9. ASSUME NEW t \in Table PROVE IsInjective(Walk(heap, table[t]))
    <3> DEFINE s == Walk(heap, table[t])
    <3>1. s \in Seq(Node) /\ OnceEach(s)
      <4>1. Hashed(heap, table[t], own[t])
        BY <2>1 DEF Good, GoodTable
      <4> QED BY <4>1, WalkIs
    <3> HIDE DEF s
    <3>2. IsInjective(s)
      BY <3>1 DEF IsInjective, OnceEach
    <3> QED BY <3>2 DEF s
  <2>10. queue.size > 0 => /\ Chain(heap, queue.head) # <<>>
                           /\ queue.tail = Last(Chain(heap, queue.head))
    <3> DEFINE S == own["queue"]
    <3>1. GoodQueue(heap, queue, S)
      BY <2>1 DEF Good
    <3>2. /\ GoodChain(heap, queue.head) /\ Nodes(heap, queue.head) = S
          /\ queue.size = Cardinality(S)
          /\ S # {} => queue.tail = Last(Chain(heap, queue.head))
      BY <3>1 DEF GoodQueue
    <3>3. S = {} <=> Chain(heap, queue.head) = <<>>
      BY <3>2, ChainOf
    <3> HIDE DEF S
    <3> QED BY <3>2, <3>3, <2>7
  <2>11. /\ \A n \in Node : Cardinality(A(n)) + Cardinality(B(n)) = IF heap[n].used THEN 1 ELSE 0
         /\ \A t \in Table : IsInjective(Walk(heap, table[t]))
    BY <2>8, <2>9
  <2> QED BY <2>10, <2>11, Zenon DEF OneOwner, A, B
<1> QED BY <1>1, Always, PTL

(* A lookup in one bucket finds what is anywhere in the table, and nothing  *)
(* twice; the load stays within the factor: FindableInItsBucket, of         *)
(* hashset_expand, hashset_remove and the others.                           *)
THEOREM KeysAreFindable == Spec => []FindableInItsBucket
<1>1. ASSUME CInv PROVE FindableInItsBucket
  <2>1. PICK own : Good(heap, table, queue, stack, list, own)
    BY <1>1 DEF CInv
  <2>2. ASSUME NEW t \in Table
        PROVE  /\ \A k \in Key :
                      Cardinality(Found(heap, table[t], k)) =
                      Cardinality({n \in ToSet(Walk(heap, table[t])) : heap[n].key = k})
               /\ 10 * table[t].size <= 7 * table[t].capacity
    <3> DEFINE x == table[t]
               S == own[t]
    <3>1. GoodTable(heap, x, S) /\ ToSet(Walk(heap, x)) = S
      BY <2>1, NodesOfTable
    <3> HIDE DEF x, S
    <3>2. Hashed(heap, x, S) /\ 10 * x.size <= 7 * x.capacity
          /\ \A n, m \in S : heap[n].key = heap[m].key => n = m
      BY <3>1 DEF GoodTable
    <3>3. ASSUME NEW k \in Key
          PROVE  Cardinality(Found(heap, x, k)) = Cardinality({n \in S : heap[n].key = k})
      <4> DEFINE F == Found(heap, x, k)
                 N == {n \in S : heap[n].key = k}
                 b == bucket(x, k)
                 s == Chain(heap, x.buckets[b])
      <4>1. /\ b \in 0..(x.capacity - 1) /\ s \in Seq(Node)
            /\ F = {i \in 1..Len(s) : heap[s[i]].key = k}
            /\ \A i \in F : s[i] \in S
            /\ \A n \in S : heap[n].key = k => \E i \in F : s[i] = n
        BY <3>2, Holding
      <4>2. \A i, j \in 1..Len(s) : s[i] = s[j] => i = j
        <5>1. GoodChain(heap, x.buckets[b])
          BY <4>1, <3>2 DEF Hashed
        <5> QED BY <5>1 DEF GoodChain, IsChain
      <4> HIDE DEF F, s, b
      <4>3. CASE N = {}
        <5>1. F = {}
          BY <4>1, <4>3
        <5> QED BY <5>1, <4>3 DEF F
      <4>4. CASE N # {}
        <5>1. PICK n \in S : heap[n].key = k
          BY <4>4
        <5>2. N = {n}
          BY <5>1, <3>2
        <5>3. PICK i \in F : s[i] = n
          BY <5>1, <4>1
        <5>4. \A j \in F : s[j] = n
          BY <5>1, <4>1, <3>2
        <5>5. F = {i}
          BY <5>3, <5>4, <4>1, <4>2
        <5> QED BY <5>2, <5>5, FS_Singleton DEF F
      <4> QED BY <4>3, <4>4
    <3> QED BY <3>1, <3>2, <3>3 DEF x
  <2> QED BY <2>2 DEF FindableInItsBucket
<1> QED BY <1>1, Always, PTL

(* Whatever is done with them, the containers change and answer as sets, a  *)
(* map and sequences do: each operation of the five files is one step of    *)
(* Collections.                                                             *)
THEOREM ContainersImplementCollections == Spec => KeepsItsPromise
<1>1. Init => Promised!Init
  BY Started
<1>2. CInv /\ [Next]_vars => [Promised!Next]_Promised!vars
  BY Stepped
<1> QED BY <1>1, <1>2, Always, PTL DEF Spec, KeepsItsPromise, Promised!Spec
=============================================================================
