-------------------------- MODULE Registers_proofs --------------------------
(***************************************************************************)
(* Theorems about Registers, for any number of temporaries, variables and   *)
(* places, wherever the temporaries of other functions have their slots.    *)
(*                                                                         *)
(* Holds says of a table and a memory, in the middle of an instruction too, *)
(* that the values S are where the table says; there is one lemma for each  *)
(* thing the code of an instruction does.  S is any set of values, so that  *)
(* the lemmas say of each value alone what an instruction does to it        *)
(* (LossesAreKnown), and of all of them together what harmless steps keep   *)
(* (Invariance).                                                            *)
(***************************************************************************)
EXTENDS Registers, SequenceTheorems, TLAPS

Location == Register \cup {"AX"} \cup Place
Value    == Temp \cup Variable \cup Instant \cup {Junk}
Own      == Temp \cup Variable

IsTable(av) ==
  /\ av \in [Register -> Temp \cup Foreign \cup {None}]
  /\ \A r, s \in Register : av[r] = av[s] => r = s \/ av[r] = None

Holds(av, m, S) ==
  /\ IsTable(av)
  /\ m \in [Location -> Value]
  /\ \A v \in S : m[Access(av, v)] = v

(* Saving register r does not touch the slots of S. *)
Clear(av, S, r) == av[r] \in Foreign => \A v \in S : SlotOf[av[r]] # SlotOf[v]

Distinct(ops) == \A j, k \in 1 .. Len(ops) : ops[j] = ops[k] => j = k \/ ops[j] \notin Temp

Waits(ops) == {ops[k] : k \in 1 .. Len(ops)} \cap Temp

-----------------------------------------------------------------------------
(* Where values are. *)

(* First picks an element. *)
LEMMA FirstIn ==
  ASSUME NEW S \in SUBSET Register, S # {}
  PROVE  First(S) \in S
BY DEF First, Register

(* A temporary is in the one register appointed to it, or in its slot; a    *)
(* variable is always in its place.                                         *)
LEMMA AccessIs ==
  ASSUME NEW av, IsTable(av), NEW v \in Own
  PROVE  /\ \A r \in Register : av[r] = v => Access(av, v) = r
         /\ (\A r \in Register : av[r] # v) => Access(av, v) = SlotOf[v]
         /\ Access(av, v) \in Register \cup Place
         /\ SlotOf[v] \in Place
         /\ v \in Variable => Access(av, v) = SlotOf[v]
<1>1. v \notin Instant /\ v # None /\ SlotOf[v] \in Place
  BY PlacesAssumption DEF Own
<1>2. HeldBy(av, v) \in SUBSET Register
  BY DEF HeldBy
<1>3. ASSUME NEW r \in Register, av[r] = v
      PROVE  Access(av, v) = r
  <2>1. HeldBy(av, v) = {r}
    BY <1>1, <1>3 DEF HeldBy, IsTable
  <2>2. First({r}) = r
    BY <1>2, <2>1, FirstIn
  <2> QED
    BY <1>1, <2>1, <2>2 DEF Access
<1>4. ASSUME \A r \in Register : av[r] # v
      PROVE  Access(av, v) = SlotOf[v]
  BY <1>1, <1>4 DEF Access, HeldBy
<1>5. ASSUME v \in Variable
      PROVE  \A r \in Register : av[r] # v
  BY <1>5, PlacesAssumption DEF IsTable
<1> QED
  BY <1>1, <1>3, <1>4, <1>5

(* A literal is itself. *)
LEMMA AccessLiteral ==
  ASSUME NEW av, NEW c \in Instant
  PROVE  Access(av, c) = c
BY DEF Access

(* Two values are never in the same location. *)
LEMMA AccessDiffers ==
  ASSUME NEW av, IsTable(av), NEW v \in Own, NEW u \in Own, Access(av, v) = Access(av, u)
  PROVE  v = u
<1>1. Place \cap Register = {}
  BY PlacesAssumption
<1>2. CASE \E r \in Register : av[r] = v
  <2>1. PICK r \in Register : av[r] = v
    BY <1>2
  <2>2. Access(av, v) = r
    BY <2>1, AccessIs
  <2>3. Access(av, u) \notin Place
    BY <1>1, <2>2
  <2>4. PICK q \in Register : av[q] = u
    BY <2>3, AccessIs
  <2>5. Access(av, u) = q
    BY <2>4, AccessIs
  <2> QED
    BY <2>1, <2>2, <2>4, <2>5
<1>3. CASE \A r \in Register : av[r] # v
  <2>1. Access(av, v) = SlotOf[v] /\ SlotOf[v] \in Place
    BY <1>3, AccessIs
  <2>2. Access(av, u) \notin Register
    BY <1>1, <2>1
  <2>3. Access(av, u) = SlotOf[u]
    BY <2>2, AccessIs
  <2> QED
    BY <2>1, <2>3, PlacesAssumption DEF Own
<1> QED
  BY <1>2, <1>3

(* An operand is read as itself. *)
LEMMA ReadOperand ==
  ASSUME NEW av, NEW m, NEW S \in SUBSET Own, Holds(av, m, S), NEW v \in S \cup Instant
  PROVE  Read(m, Access(av, v)) = v
<1>1. CASE v \in S
  <2>1. Access(av, v) \in Register \cup Place
    BY <1>1, AccessIs DEF Holds
  <2>2. Access(av, v) \notin Instant
    BY <2>1, PlacesAssumption
  <2> QED
    BY <1>1, <2>2 DEF Read, Holds
<1>2. CASE v \in Instant
  BY <1>2, AccessLiteral DEF Read
<1> QED
  BY <1>1, <1>2

-----------------------------------------------------------------------------
(* What code does to it. *)

(* Saving a register does no harm where it is clear, and changes no         *)
(* register.                                                                *)
LEMMA ReleaseHolds ==
  ASSUME NEW av, NEW m, NEW S \in SUBSET Own, Holds(av, m, S),
         NEW r \in Register, Clear(av, S, r)
  PROVE  LET c == release_register([av |-> av, m |-> m], r)
         IN /\ c = [av |-> av, m |-> c.m]
            /\ Holds(av, c.m, S)
            /\ \A y \in Register \cup {"AX"} : c.m[y] = m[y]
<1>1. IsTable(av) /\ m \in [Location -> Value]
  BY DEF Holds
<1>2. CASE av[r] = None
  BY <1>2 DEF release_register
<1>3. CASE av[r] # None
  <2> DEFINE p == SlotOf[av[r]]
             n == [m EXCEPT ![p] = m[r]]
  <2>1. release_register([av |-> av, m |-> m], r) = [av |-> av, m |-> n]
    BY <1>3, PlacesAssumption DEF release_register, Move, Read, Register
  <2>2. av[r] \in Temp \cup Foreign /\ p \in Place
    BY <1>1, <1>3, PlacesAssumption DEF IsTable
  <2>3. n \in [Location -> Value] /\ \A y \in Location : y # p => n[y] = m[y]
    BY <1>1, <2>2 DEF Location
  <2>4. p \notin Register \cup {"AX"}
    BY <2>2, PlacesAssumption
  <2>5. \A v \in S : Access(av, v) # p
    <3> SUFFICES ASSUME NEW v \in S, Access(av, v) = p
                 PROVE  FALSE
      OBVIOUS
    <3>1. Access(av, v) \notin Register
      BY <2>4
    <3>2. \A q \in Register : av[q] # v
      BY <1>1, <3>1, AccessIs
    <3>3. SlotOf[v] = p /\ av[r] # v
      BY <1>1, <3>2, AccessIs
    <3>4. CASE av[r] \in Foreign
      BY <3>3, <3>4 DEF Clear
    <3>5. CASE av[r] \in Temp
      BY <3>3, <3>5, PlacesAssumption DEF Own
    <3> QED
      BY <2>2, <3>4, <3>5
  <2>6. \A v \in S : Access(av, v) \in Location
    BY <1>1, AccessIs DEF Location
  <2>7. Holds(av, n, S)
    BY <1>1, <2>3, <2>5, <2>6 DEF Holds
  <2>8. \A y \in Register \cup {"AX"} : n[y] = m[y]
    BY <2>3, <2>4 DEF Location
  <2> HIDE DEF n
  <2> QED
    BY <2>1, <2>7, <2>8
<1> QED
  BY <1>2, <1>3

(* Appointing a register that holds nothing of S to a new temporary moves   *)
(* nobody else.                                                             *)
LEMMA AppointHolds ==
  ASSUME NEW av, NEW m, NEW S \in SUBSET Own, Holds(av, m, S),
         NEW r \in Register, av[r] \notin S,
         NEW t \in Temp \ S, \A q \in Register : av[q] # t,
         NEW new \in [Register -> Temp \cup Foreign \cup {None}],
         \A q \in Register : new[q] = IF q = r THEN t ELSE av[q]
  PROVE  /\ Holds(new, m, S)
         /\ Access(new, t) = r
         /\ \A u \in S : Access(new, u) = Access(av, u)
<1>1. IsTable(av) /\ t \in Own
  BY DEF Holds, Own
<1>2. IsTable(new)
  BY <1>1, PlacesAssumption DEF IsTable
<1>3. Access(new, t) = r
  BY <1>1, <1>2, AccessIs
<1>4. ASSUME NEW u \in S
      PROVE  Access(new, u) = Access(av, u)
  <2>1. CASE \E q \in Register : av[q] = u
    BY <1>1, <1>2, <2>1, AccessIs
  <2>2. CASE \A q \in Register : av[q] # u
    BY <1>1, <1>2, <2>2, AccessIs
  <2> QED
    BY <2>1, <2>2
<1>5. Holds(new, m, S)
  BY <1>2, <1>4 DEF Holds
<1> QED
  BY <1>3, <1>4, <1>5

(* Writing a result where its temporary is, and on the way registers X that *)
(* hold nothing of S, leaves S as it is.                                    *)
LEMMA StoreHolds ==
  ASSUME NEW av, NEW m, NEW S \in SUBSET Own, Holds(av, m, S), NEW t \in Temp \ S,
         NEW X, \A u \in S : Access(av, u) \notin X,
         NEW n \in [Location -> Value],
         \A y \in Location \ X : y # Access(av, t) => n[y] = m[y]
  PROVE  Holds(av, n, S)
<1>1. IsTable(av) /\ t \in Own
  BY DEF Holds, Own
<1>2. ASSUME NEW u \in S
      PROVE  Access(av, u) \in Location \ X /\ Access(av, u) # Access(av, t)
  BY <1>1, AccessIs, AccessDiffers DEF Location
<1> QED
  BY <1>1, <1>2 DEF Holds

(* What holds of some values holds of fewer. *)
LEMMA FewerHolds ==
  ASSUME NEW av, NEW m, NEW S, Holds(av, m, S), NEW R \in SUBSET S
  PROVE  Holds(av, m, R)
BY DEF Holds

(* A register saved is in its temporary's slot, and no slot of S is         *)
(* overwritten.                                                             *)
LEMMA ReleaseSaves ==
  ASSUME NEW av, NEW m, NEW S \in SUBSET Own, Holds(av, m, S),
         NEW r \in Register, Clear(av, S, r), NEW u \in S
  PROVE  LET n == release_register([av |-> av, m |-> m], r).m
         IN av[r] = u \/ m[SlotOf[u]] = u => n[SlotOf[u]] = u
<1>1. IsTable(av) /\ m \in [Location -> Value] /\ u \in Own
  BY DEF Holds
<1>2. CASE av[r] = None
  <2>1. u # None
    BY <1>1, PlacesAssumption DEF Own
  <2> QED
    BY <1>2, <2>1 DEF release_register
<1>3. CASE av[r] # None
  <2>1. release_register([av |-> av, m |-> m], r).m = [m EXCEPT ![SlotOf[av[r]]] = m[r]]
    BY <1>3, PlacesAssumption DEF release_register, Move, Read, Register
  <2>2. SlotOf[u] \in Location
    BY <1>1, AccessIs DEF Location
  <2>3. CASE av[r] = u
    <3>1. m[r] = u
      BY <1>1, <2>3, AccessIs DEF Holds
    <3> QED
      BY <1>1, <2>1, <2>2, <2>3, <3>1
  <2>4. CASE av[r] # u
    <3>1. SlotOf[av[r]] # SlotOf[u]
      <4>1. CASE av[r] \in Foreign
        BY <4>1 DEF Clear
      <4>2. CASE av[r] \in Temp
        BY <1>1, <2>4, <4>2, PlacesAssumption DEF Own
      <4> QED
        BY <1>1, <1>3, <4>1, <4>2 DEF IsTable
    <3> QED
      BY <1>1, <2>1, <2>2, <2>4, <3>1
  <2> QED
    BY <2>3, <2>4
<1> QED
  BY <1>2, <1>3

(* try_to_appoint_register takes a free register or none. *)
LEMMA TryHolds ==
  ASSUME NEW av, NEW m, NEW S \in SUBSET Own, Holds(av, m, S),
         NEW t \in Temp \ S, \A q \in Register : av[q] # t
  PROVE  LET c == try_to_appoint_register([av |-> av, m |-> m], t)
         IN /\ c = [av |-> c.av, m |-> m]
            /\ Holds(c.av, m, S)
            /\ \A u \in S : Access(c.av, u) = Access(av, u)
            /\ \A q \in Register : c.av[q] \in {av[q], t}
<1> DEFINE free == {r \in Register : av[r] \in {None, t}}
<1>1. CASE free = {}
  BY <1>1 DEF try_to_appoint_register
<1>2. CASE free # {}
  <2> DEFINE r == First(free)
             a == [av EXCEPT ![r] = t]
  <2>1. r \in Register /\ av[r] = None
    BY <1>2, FirstIn
  <2>2. try_to_appoint_register([av |-> av, m |-> m], t) = [av |-> a, m |-> m]
    BY <1>2 DEF try_to_appoint_register
  <2>3. None \notin S
    BY PlacesAssumption DEF Own
  <2> HIDE DEF r
  <2>4. /\ a \in [Register -> Temp \cup Foreign \cup {None}]
        /\ \A q \in Register : a[q] = IF q = r THEN t ELSE av[q]
    BY DEF Holds, IsTable
  <2> HIDE DEF a
  <2>5. Holds(a, m, S) /\ \A u \in S : Access(a, u) = Access(av, u)
    BY <2>1, <2>3, <2>4, AppointHolds
  <2> QED
    BY <2>2, <2>4, <2>5
<1> QED
  BY <1>1, <1>2

(* appoint_register saves what the register holds, and takes it.            *)
LEMMA AppointRegisterHolds ==
  ASSUME NEW av, NEW m, NEW S \in SUBSET Own, Holds(av, m, S),
         NEW r \in Register, Clear(av, S, r), NEW R \in SUBSET S, av[r] \notin R,
         NEW t \in Temp \ S, \A q \in Register : av[q] # t
  PROVE  LET c == appoint_register([av |-> av, m |-> m], r, t)
         IN /\ c = [av |-> c.av, m |-> c.m]
            /\ Holds(c.av, c.m, R)
            /\ Holds(av, c.m, S)
            /\ Access(c.av, t) = r
            /\ \A u \in R : Access(c.av, u) = Access(av, u)
            /\ \A q \in Register : c.av[q] \in {av[q], t}
<1> DEFINE d == release_register([av |-> av, m |-> m], r)
<1>1. d = [av |-> av, m |-> d.m] /\ Holds(av, d.m, S)
  BY ReleaseHolds
<1> DEFINE n == d.m
           a == [av EXCEPT ![r] = t]
<1>2. appoint_register([av |-> av, m |-> m], r, t) = [av |-> a, m |-> n]
  BY <1>1 DEF appoint_register
<1>3. Holds(av, n, S) /\ Holds(av, n, R)
  BY <1>1, FewerHolds
<1> HIDE DEF d, n
<1>4. R \in SUBSET Own /\ t \in Temp \ R
  OBVIOUS
<1>5. /\ a \in [Register -> Temp \cup Foreign \cup {None}]
      /\ \A q \in Register : a[q] = IF q = r THEN t ELSE av[q]
  BY <1>3 DEF Holds, IsTable
<1> HIDE DEF a
<1>6. Holds(a, n, R) /\ Access(a, t) = r /\ \A u \in R : Access(a, u) = Access(av, u)
  BY <1>3, <1>4, <1>5, AppointHolds
<1> QED
  BY <1>2, <1>3, <1>5, <1>6

(* Nothing that is waited for is dropped when the rest is forgotten.        *)
LEMMA SettledHolds ==
  ASSUME NEW av, NEW m, NEW ops \in Seq(Operand),
         NEW S \in SUBSET (Waits(ops) \cup Variable), Holds(av, m, S)
  PROVE  /\ Holds(av, Settled(m, ops), S)
         /\ Settled(m, ops) \in [Location -> Temp \cup Variable \cup {Junk}]
<1> DEFINE n == Settled(m, ops)
<1>1. IsTable(av) /\ m \in [Location -> Value]
  BY DEF Holds
<1>2. n \in [Location -> Temp \cup Variable \cup {Junk}]
  BY <1>1 DEF Settled
<1>3. ASSUME NEW v \in S
      PROVE  n[Access(av, v)] = v
  <2>1. v \in Own
    BY DEF Waits, Own
  <2>2. Access(av, v) \in Location /\ m[Access(av, v)] = v
    BY <1>1, <2>1, AccessIs DEF Location, Holds
  <2>3. CASE v \in Waits(ops)
    <3>1. v \in Temp /\ \E k \in 1 .. Len(ops) : ops[k] = v
      BY <2>3 DEF Waits
    <3> QED
      BY <1>1, <2>2, <3>1 DEF Settled
  <2>4. CASE v \in Variable
    <3>1. Access(av, v) = SlotOf[v]
      BY <1>1, <2>1, <2>4, AccessIs
    <3> QED
      BY <1>1, <2>2, <2>4, <3>1 DEF Settled
  <2> QED
    BY <2>3, <2>4
<1>4. n \in [Location -> Value]
  BY <1>2 DEF Value
<1> HIDE DEF n
<1>5. Holds(av, n, S)
  BY <1>1, <1>3, <1>4 DEF Holds
<1> QED
  BY <1>2, <1>5 DEF n

-----------------------------------------------------------------------------
(* The values in hand before and after an instruction. *)

(* K is a set of values some of whose fate is followed; all are in their    *)
(* places before the step.                                                  *)
Kept(K) == K \in SUBSET (Awaited \cup Variable) /\ \A v \in K : Held(v)

(* What TypeOK and Held say, in the words of the lemmas above. *)
LEMMA KeptHolds ==
  ASSUME TypeOK, NEW K, Kept(K)
  PROVE  /\ Holds(available, mem, K) /\ K \in SUBSET Own
         /\ pending \in Seq(Operand) /\ Distinct(pending)
         /\ Awaited = Waits(pending) /\ Awaited \in SUBSET Temp
<1>1. Awaited = Waits(pending) /\ Awaited \in SUBSET Temp
  BY DEF Awaited, Waits
<1>2. K \in SUBSET Own
  BY <1>1 DEF Kept, Own
<1>3. pending \in Seq(Operand) /\ Distinct(pending)
  BY DEF TypeOK, Distinct, Waiting
<1>4. IsTable(available) /\ mem \in [Location -> Value]
  <2>1. mem \in [Location -> Value]
    BY DEF TypeOK, Location, Value
  <2> QED
    BY <2>1 DEF TypeOK, IsTable
<1>5. ASSUME NEW v \in K
      PROVE  mem[Access(available, v)] = v
  <2>1. Held(v) /\ v \in Own
    BY <1>2 DEF Kept
  <2>2. Access(available, v) \in Register \cup Place
    BY <1>4, <2>1, AccessIs
  <2>3. Access(available, v) \notin Instant
    BY <2>2, PlacesAssumption
  <2> QED
    BY <2>1, <2>3 DEF Held, Read
<1> QED
  BY <1>1, <1>2, <1>3, <1>4, <1>5 DEF Holds

(* After a step that leaves table av and memory m, what they hold is held.  *)
LEMMA LeavesKeeps ==
  ASSUME NEW av, NEW m, NEW ops \in Seq(Operand), Distinct(ops),
         NEW K \in SUBSET (Waits(ops) \cup Variable), Holds(av, m, K),
         available' = av, Leaves(m, ops), aborted' \in BOOLEAN
  PROVE  TypeOK' /\ Awaited' = Waits(ops) /\ \A v \in K : Held(v)'
<1> DEFINE n == Settled(m, ops)
<1>1. pending' = ops /\ mem' = n
  BY DEF Leaves
<1>2. Holds(av, n, K) /\ n \in [Location -> Temp \cup Variable \cup {Junk}]
  BY SettledHolds
<1> HIDE DEF n
<1>3. Awaited' = Waits(ops)
  BY <1>1 DEF Awaited, Waits
<1>4. TypeOK'
  <2>1. IsTable(av)
    BY <1>2 DEF Holds
  <2>2. /\ available' \in [Register -> Temp \cup Foreign \cup {None}]
        /\ \A r, s \in Register : available'[r] = available'[s] => r = s \/ available'[r] = None
    BY <2>1 DEF IsTable
  <2>3. mem' \in [Register \cup {"AX"} \cup Place -> Temp \cup Variable \cup {Junk}]
    BY <1>1, <1>2 DEF Location
  <2>4. /\ pending' \in Seq(Operand)
        /\ \A j, k \in 1 .. Waiting' : pending'[j] = pending'[k] => j = k \/ pending'[j] \notin Temp
    BY <1>1 DEF Distinct, Waiting
  <2> QED
    BY <2>2, <2>3, <2>4 DEF TypeOK
<1>5. ASSUME NEW v \in K
      PROVE  Held(v)'
  <2>1. v \in Own /\ IsTable(av) /\ n[Access(av, v)] = v
    BY <1>2 DEF Holds, Waits, Own
  <2>2. Access(av, v) \notin Instant
    BY <2>1, AccessIs, PlacesAssumption
  <2> QED
    BY <1>1, <2>1, <2>2 DEF Held, Read
<1> QED
  BY <1>3, <1>4, <1>5

(* What waits when an instruction took its n operands and its result waits. *)
LEMMA Popped ==
  ASSUME pending \in Seq(Operand), Distinct(pending), NEW n \in 0 .. Waiting,
         NEW t \in Temp \ Awaited
  PROVE  LET ops == Append(Without(n), t)
         IN /\ ops \in Seq(Operand) /\ Distinct(ops)
            /\ Waits(ops) = ({pending[k] : k \in 1 .. Waiting - n} \cap Temp) \cup {t}
<1> DEFINE w == Without(n)
           ops == Append(w, t)
<1>1. Waiting \in Nat /\ Waiting - n \in Nat /\ Waiting - n <= Waiting
  BY DEF Waiting
<1>2. /\ w \in Seq(Operand) /\ Len(w) = Waiting - n
      /\ \A k \in 1 .. Waiting - n : w[k] = pending[k]
  BY <1>1 DEF Without, Waiting
<1> HIDE DEF w
<1>3. /\ ops \in Seq(Operand) /\ Len(ops) = Waiting - n + 1
      /\ \A k \in 1 .. Waiting - n : ops[k] = pending[k]
      /\ ops[Waiting - n + 1] = t
  BY <1>1, <1>2 DEF Operand
<1>4. \A k \in 1 .. Waiting - n : k \in 1 .. Len(pending) /\ pending[k] # t
  BY <1>1 DEF Awaited, Waiting
<1> HIDE DEF ops
<1>5. Distinct(ops)
  <2> SUFFICES ASSUME NEW j \in 1 .. Len(ops), NEW k \in 1 .. Len(ops), ops[j] = ops[k]
               PROVE  j = k \/ ops[j] \notin Temp
    BY DEF Distinct
  <2>1. CASE j \in 1 .. Waiting - n /\ k \in 1 .. Waiting - n
    BY <1>3, <1>4, <2>1 DEF Distinct
  <2>2. CASE j = Waiting - n + 1 \/ k = Waiting - n + 1
    BY <1>1, <1>3, <1>4, <2>2
  <2> QED
    BY <1>1, <1>3, <2>1, <2>2
<1>6. Waits(ops) = ({pending[k] : k \in 1 .. Waiting - n} \cap Temp) \cup {t}
  <2>1. 1 .. Len(ops) = (1 .. Waiting - n) \cup {Waiting - n + 1}
    BY <1>1, <1>3
  <2> QED
    BY <1>3, <2>1 DEF Waits
<1> QED
  BY <1>3, <1>5, <1>6 DEF ops, w

(* i is an instruction on the two operands on top, its result new.  It uses *)
(* up its operands; of K, the Rest is left.                                 *)
IsInstr(i) ==
  /\ Waiting >= 2
  /\ i.left = pending[Waiting - 1] /\ i.right = pending[Waiting]
  /\ i.to \in Fresh

Rest(K, i)      == K \ ({i.left, i.right} \cap Temp)
ReadsBoth(K, i) == {i.left, i.right} \subseteq K \cup Instant

(* The operand whose register its result takes, if any. *)
Taken(i) == IF Appointed(i.left) THEN {i.left} ELSE IF Appointed(i.right) THEN {i.right} ELSE {}

(* Its operands are awaited temporaries, variables or literals, and         *)
(* different if they are temporaries.                                       *)
LEMMA Operands ==
  ASSUME TypeOK, NEW i, IsInstr(i)
  PROVE  /\ i.left \in Awaited \cup Variable \cup Instant
         /\ i.right \in Awaited \cup Variable \cup Instant
         /\ i.left = i.right => i.left \notin Temp
         /\ i.to \in Temp /\ i.to \notin Awaited
         /\ \A r \in Register : available[r] # i.to
         /\ Append(Without(2), i.to) \in Seq(Operand)
         /\ Distinct(Append(Without(2), i.to))
         /\ Waits(Append(Without(2), i.to)) = (Awaited \ {i.left, i.right}) \cup {i.to}
<1>1. /\ pending \in Seq(Operand) /\ Distinct(pending) /\ Waiting \in Nat /\ Waiting >= 2
      /\ Waiting = Len(pending)
  BY DEF IsInstr, Waiting, TypeOK, Distinct
<1>2. i.left \in Operand /\ i.right \in Operand
  <2>1. Waiting - 1 \in 1 .. Len(pending) /\ Waiting \in 1 .. Len(pending)
    BY <1>1
  <2> QED
    BY <1>1, <2>1 DEF IsInstr
<1>3. i.to \in Temp /\ i.to \notin Awaited /\ \A r \in Register : available[r] # i.to
  BY DEF IsInstr, Fresh, HeldBy
<1>4. i.left \in Temp => i.left \in Awaited
  BY <1>1 DEF IsInstr, Awaited
<1>5. i.right \in Temp => i.right \in Awaited
  BY <1>1 DEF IsInstr, Awaited
<1>6. i.left = i.right => i.left \notin Temp
  BY <1>1 DEF IsInstr, Distinct
<1>7. 2 \in 0 .. Waiting
  BY <1>1
<1>8. /\ Append(Without(2), i.to) \in Seq(Operand) /\ Distinct(Append(Without(2), i.to))
      /\ Waits(Append(Without(2), i.to))
           = ({pending[k] : k \in 1 .. Waiting - 2} \cap Temp) \cup {i.to}
  BY <1>1, <1>3, <1>7, Popped
<1>9. {pending[k] : k \in 1 .. Waiting - 2} \cap Temp = Awaited \ {i.left, i.right}
  <2>1. \A k \in 1 .. Waiting - 2 : pending[k] \in Temp =>
          pending[k] \in Awaited /\ pending[k] # i.left /\ pending[k] # i.right
    BY <1>1 DEF IsInstr, Distinct, Awaited
  <2>2. ASSUME NEW v \in Awaited, v # i.left, v # i.right
        PROVE  v \in {pending[k] : k \in 1 .. Waiting - 2} \cap Temp
    <3>1. PICK k \in 1 .. Len(pending) : pending[k] = v
      BY DEF Awaited
    <3>2. k # Waiting /\ k # Waiting - 1
      BY <2>2, <3>1 DEF IsInstr
    <3>3. k \in 1 .. Waiting - 2
      BY <1>1, <3>2
    <3> QED
      BY <3>1, <3>3 DEF Awaited
  <2> QED
    BY <2>1, <2>2
<1> QED
  BY <1>2, <1>3, <1>4, <1>5, <1>6, <1>8, <1>9 DEF Operand

(* An instruction whose code keeps the rest, and stores its result if its   *)
(* operands are right.                                                      *)
LEMMA InstrKeeps ==
  ASSUME TypeOK, NEW K, Kept(K), NEW t, NEW i, IsInstr(i), i.to = t,
         NEW c, Holds(c.av, c.m, Rest(K, i)),
         ReadsBoth(K, i) => c.m[Access(c.av, t)] = t,
         Becomes(c, Append(Without(2), t)), aborted' \in BOOLEAN
  PROVE  /\ TypeOK'
         /\ Awaited' = (Awaited \ {i.left, i.right}) \cup {t}
         /\ \A v \in K : v \in Awaited' \cup Variable => Held(v)'
         /\ ReadsBoth(K, i) => Held(t)'
<1> DEFINE ops == Append(Without(2), t)
           S   == Rest(K, i) \cup {u \in {t} : ReadsBoth(K, i)}
<1>1. /\ ops \in Seq(Operand) /\ Distinct(ops) /\ t \notin Awaited
      /\ Waits(ops) = (Awaited \ {i.left, i.right}) \cup {t}
  BY Operands
<1>2. available' = c.av /\ Leaves(c.m, ops)
  BY DEF Becomes
<1>3. Awaited \in SUBSET Temp /\ K \in SUBSET (Awaited \cup Variable)
  BY DEF Awaited, Kept
<1>4. S \in SUBSET (Waits(ops) \cup Variable)
  BY <1>1, <1>3 DEF Rest
<1>5. Holds(c.av, c.m, S)
  BY DEF Holds
<1> HIDE DEF ops, S
<1>6. TypeOK' /\ Awaited' = Waits(ops) /\ \A v \in S : Held(v)'
  BY <1>1, <1>2, <1>4, <1>5, LeavesKeeps
<1>7. \A v \in K : v \in Awaited' \cup Variable => v \in S
  BY <1>1, <1>3, <1>6, PlacesAssumption DEF S, Rest
<1> QED
  BY <1>1, <1>6, <1>7 DEF S

(* Finding a register for the result moves nothing: it takes the place of   *)
(* one operand, which can still be read there.                              *)
ResultAppointed(K, i, c) ==
  /\ c = [av |-> c.av, m |-> c.m]
  /\ Holds(c.av, c.m, K \ Taken(i))
  /\ Holds(available, c.m, K)
  /\ \A u \in K \ Taken(i) : Access(c.av, u) = Access(available, u)
  /\ Taken(i) \subseteq Temp \cap {i.left, i.right}
  /\ \A u \in Taken(i) : Access(available, u) \in Register
  /\ \A u \in Taken(i) : Access(c.av, i.to) = Access(available, u)
  /\ \A q \in Register : c.av[q] \in {available[q], i.to}

(* AppointResult does so. *)
LEMMA AppointResultHolds ==
  ASSUME TypeOK, NEW K, Kept(K), NEW i, IsInstr(i)
  PROVE  ResultAppointed(K, i, AppointResult(i))
<1> DEFINE c == AppointResult(i)
           R == K \ Taken(i)
<1>1. Holds(available, mem, K) /\ IsTable(available) /\ R \in SUBSET K
      /\ K \in SUBSET Own /\ Now = [av |-> available, m |-> mem]
  BY KeptHolds DEF Holds, Now
<1>2. /\ i.to \in Temp \ K
      /\ \A r \in Register : available[r] # i.to
      /\ i.left \in Temp \cup Variable \cup Instant
      /\ i.right \in Temp \cup Variable \cup Instant
  BY Operands, PlacesAssumption DEF Kept, Awaited
<1>3. Holds(available, mem, R)
  BY <1>1, FewerHolds
<1>4. CASE Appointed(i.left) \/ Appointed(i.right)
  <2> DEFINE v == IF Appointed(i.left) THEN i.left ELSE i.right
             r == First(HeldBy(available, v))
  <2>1. r \in Register /\ available[r] = v
    <3>1. HeldBy(available, v) \in SUBSET Register /\ HeldBy(available, v) # {}
      BY <1>4 DEF Appointed, HeldBy
    <3>2. r \in HeldBy(available, v)
      BY <3>1, FirstIn
    <3> QED
      BY <3>2 DEF HeldBy
  <2>2. c = appoint_register([av |-> available, m |-> mem], r, i.to)
    BY <1>1, <1>4 DEF AppointResult
  <2>3. v \in {i.left, i.right} /\ Taken(i) = {v} /\ available[r] \notin R
    BY <1>4, <2>1 DEF Taken
  <2>4. v \in Temp
    BY <1>1, <1>2, <2>1, <2>3, PlacesAssumption DEF IsTable
  <2>5. Access(available, v) = r
    BY <1>1, <2>1, <2>4, AccessIs DEF Own
  <2>6. Clear(available, K, r)
    BY <2>1, <2>4, PlacesAssumption DEF Clear
  <2> HIDE DEF r, v, R, c
  <2>7. /\ c = [av |-> c.av, m |-> c.m] /\ Holds(c.av, c.m, R) /\ Holds(available, c.m, K)
        /\ Access(c.av, i.to) = r /\ \A u \in R : Access(c.av, u) = Access(available, u)
        /\ \A q \in Register : c.av[q] \in {available[q], i.to}
    BY <1>1, <1>2, <2>1, <2>2, <2>3, <2>6, AppointRegisterHolds
  <2> QED
    BY <2>1, <2>3, <2>4, <2>5, <2>7 DEF c, R, ResultAppointed
<1>5. CASE ~ Appointed(i.left) /\ ~ Appointed(i.right)
  <2>1. c = try_to_appoint_register([av |-> available, m |-> mem], i.to) /\ Taken(i) = {}
    BY <1>1, <1>5 DEF AppointResult, Taken
  <2>2. R \in SUBSET Own /\ i.to \in Temp \ R
    BY <1>1, <1>2
  <2> HIDE DEF c, R
  <2>3. /\ c = [av |-> c.av, m |-> mem] /\ Holds(c.av, mem, R)
        /\ \A u \in R : Access(c.av, u) = Access(available, u)
        /\ \A q \in Register : c.av[q] \in {available[q], i.to}
    BY <1>2, <1>3, <2>1, <2>2, TryHolds
  <2> QED
    BY <1>1, <2>1, <2>3 DEF c, R, ResultAppointed
<1> QED
  BY <1>4, <1>5

(* The operands of an instruction are still where they were when the        *)
(* register of its result is found, and when registers are saved after it.  *)
LEMMA StillReadable ==
  ASSUME TypeOK, NEW K, Kept(K), NEW i, IsInstr(i), NEW m,
         Holds(AppointResult(i).av, m, K \ Taken(i)),
         \A y \in Register : m[y] = AppointResult(i).m[y],
         NEW v \in (K \cap {i.left, i.right}) \cup Instant
  PROVE  Read(m, Access(available, v)) = v
<1> DEFINE a == AppointResult(i)
           R == K \ Taken(i)
<1>1. /\ Holds(a.av, m, R) /\ R \in SUBSET Own
      /\ Holds(available, a.m, K)
      /\ \A u \in R : Access(a.av, u) = Access(available, u)
      /\ \A u \in Taken(i) : Access(available, u) \in Register
  <2>1. R \in SUBSET Own
    BY KeptHolds
  <2>2. Holds(a.av, m, R)
    OBVIOUS
  <2>3. Holds(available, a.m, K)
    BY AppointResultHolds DEF ResultAppointed
  <2>4. \A u \in R : Access(a.av, u) = Access(available, u)
    BY AppointResultHolds DEF ResultAppointed
  <2>5. \A u \in Taken(i) : Access(available, u) \in Register
    BY AppointResultHolds DEF ResultAppointed
  <2> HIDE DEF a, R
  <2> QED
    BY <2>1, <2>2, <2>3, <2>4, <2>5
<1>2. \A y \in Register : m[y] = a.m[y]
  OBVIOUS
<1>3. (v \in K /\ v \in Taken(i)) \/ v \in R \/ v \in Instant
  OBVIOUS
<1> HIDE DEF a, R
<1>4. CASE v \in K /\ v \in Taken(i)
  <2>1. a.m[Access(available, v)] = v
    BY <1>1, <1>4 DEF Holds
  <2> QED
    BY <1>1, <1>2, <1>4, <2>1, PlacesAssumption DEF Read
<1>5. CASE v \in R
  BY <1>1, <1>5, ReadOperand
<1>6. CASE v \in Instant
  BY <1>6, AccessLiteral DEF Read
<1> QED
  BY <1>3, <1>4, <1>5, <1>6

-----------------------------------------------------------------------------
(* The three kinds of operations. *)

(* AddSubOrAnd: nothing held is overwritten, and the result is where the    *)
(* table says.                                                              *)
LEMMA AddSubOrAndHolds ==
  ASSUME TypeOK, NEW K, Kept(K), NEW i, IsInstr(i), i.op \in {"ADD", "SUB", "AND", "OR"}
  PROVE  LET c == AddSubOrAnd(i)
         IN /\ Holds(c.av, c.m, Rest(K, i))
            /\ ReadsBoth(K, i) => c.m[Access(c.av, i.to)] = i.to
<1> DEFINE a       == AppointResult(i)
           to      == Access(a.av, i.to)
           inRight == ~ Appointed(i.left) /\ Appointed(i.right)
           work    == IF inRight \/ to \in Place THEN "AX" ELSE to
           m       == a.m
           good    == ReadsBoth(K, i)
<1>1. /\ a = [av |-> a.av, m |-> a.m]
      /\ Holds(a.av, a.m, Rest(K, i)) /\ IsTable(a.av)
      /\ Holds(available, a.m, K) /\ IsTable(available)
      /\ Appointed(i.left) => to = Left(i)
      /\ inRight => to = Right(i)
  <2>1. /\ Holds(a.av, a.m, K \ Taken(i)) /\ Holds(available, a.m, K)
        /\ Taken(i) \subseteq Temp \cap {i.left, i.right}
    BY AppointResultHolds DEF ResultAppointed
  <2>2. Rest(K, i) \in SUBSET (K \ Taken(i))
    BY <2>1 DEF Rest
  <2>3. Holds(a.av, a.m, Rest(K, i))
    BY <2>1, <2>2, FewerHolds
  <2> QED
    BY <2>1, <2>3, AppointResultHolds DEF ResultAppointed, Holds, Taken, Left, Right
<1>2. /\ i.to \in Own /\ i.to \in Temp \ Rest(K, i) /\ i.to \in Value
      /\ i.left \in Own \cup Instant /\ i.right \in Own \cup Instant
      /\ i.left = i.right => i.left \notin Temp
      /\ Rest(K, i) \in SUBSET Own /\ K \in SUBSET Own
  BY Operands, KeptHolds, PlacesAssumption DEF Rest, Value, Kept, Awaited, Own
<1>3. good => Read(m, Left(i)) = i.left /\ Read(m, Right(i)) = i.right
  BY <1>1, <1>2, ReadOperand DEF Left, Right, ReadsBoth
<1>4. to \in Register \cup Place
  BY <1>1, <1>2, AccessIs
<1>5. m \in [Location -> Value]
  BY <1>1 DEF Holds
<1> HIDE DEF a, m, good
<1>6. "AX" \in Location /\ to \in Location /\ \A u \in Rest(K, i) : Access(a.av, u) # "AX"
  BY <1>1, <1>2, <1>4, AccessIs, PlacesAssumption DEF Location, Register
<1> DEFINE L == Left(i)
           R == Right(i)
<1>7. /\ L \in Location \cup Instant /\ R \in Location \cup Instant /\ R # "AX"
      /\ to \in Register /\ ~ inRight => to # R
  <2>1. ASSUME NEW v \in Own \cup Instant
        PROVE  /\ Access(available, v) \in Register \cup Place \cup Instant
               /\ Access(available, v) \in Register => Appointed(v)
               /\ Appointed(v) => v \in Temp
    <3>1. CASE v \in Own
      BY <1>1, <3>1, AccessIs, PlacesAssumption DEF Appointed, HeldBy, Own, IsTable
    <3>2. CASE v \in Instant
      BY <1>1, <3>2, AccessLiteral, PlacesAssumption DEF Appointed, HeldBy, IsTable
    <3> QED
      BY <3>1, <3>2
  <2>2. L \in Location \cup Instant /\ R \in Location \cup Instant /\ R # "AX"
    BY <1>2, <2>1, PlacesAssumption DEF Left, Right, Location, Register
  <2>3. ASSUME to \in Register, ~ inRight, to = R
        PROVE  FALSE
    <3>1. R = Access(available, i.right) /\ Appointed(i.right) /\ i.right \in Temp
      BY <1>2, <2>1, <2>3 DEF Right
    <3>2. Appointed(i.left) /\ i.left \in Temp /\ to = Access(available, i.left)
      BY <1>1, <1>2, <2>1, <2>3, <3>1 DEF Left
    <3> QED
      BY <1>1, <1>2, <2>3, <3>1, <3>2, AccessDiffers DEF Own
  <2> QED
    BY <2>2, <2>3
<1> HIDE DEF to, L, R
<1>8. ASSUME NEW n \in [Location -> Value], good => n[to] = i.to,
             \A y \in Location : y # "AX" /\ y # to => n[y] = m[y]
      PROVE  Holds(a.av, n, Rest(K, i)) /\ (good => n[Access(a.av, i.to)] = i.to)
  <2> DEFINE X == {"AX"}
  <2>1. \A u \in Rest(K, i) : Access(a.av, u) \notin X
    BY <1>6
  <2>2. \A y \in Location \ X : y # Access(a.av, i.to) => n[y] = m[y]
    BY <1>8 DEF to
  <2>3. Holds(a.av, m, Rest(K, i))
    BY <1>1 DEF m
  <2> HIDE DEF X
  <2>4. Holds(a.av, n, Rest(K, i))
    BY <1>2, <2>1, <2>2, <2>3, StoreHolds
  <2> QED
    BY <1>8, <2>4 DEF to
<1>9. CASE inRight /\ ~ LeftRightMatters(i.op)
  <2> DEFINE n == [m EXCEPT ![R] = Result(i, Read(m, R), Read(m, L))]
  <2>1. to = R /\ AddSubOrAnd(i) = [a EXCEPT !.m = n]
    BY <1>1, <1>9 DEF AddSubOrAnd, Operate, to, a, m, L, R
  <2>2. good => Result(i, Read(m, R), Read(m, L)) = i.to
    BY <1>3, <1>9 DEF Result, LeftRightMatters, L, R
  <2>3. Result(i, Read(m, R), Read(m, L)) \in Value
    BY <1>2 DEF Result, Value
  <2>4. /\ n \in [Location -> Value]
        /\ good => n[to] = i.to
        /\ \A y \in Location : y # to => n[y] = m[y]
    BY <1>5, <1>6, <2>1, <2>2, <2>3
  <2> HIDE DEF n
  <2>5. Holds(a.av, n, Rest(K, i)) /\ (good => n[Access(a.av, i.to)] = i.to)
    BY <1>8, <2>4
  <2> QED
    BY <1>1, <2>1, <2>5 DEF good
<1>10. CASE ~ (inRight /\ ~ LeftRightMatters(i.op))
  <2> DEFINE l == Move(m, work, L)
             k == Operate(l, i, work, R)
             n == Move(k, to, work)
  <2>1. AddSubOrAnd(i) = [a EXCEPT !.m = n]
    BY <1>10 DEF AddSubOrAnd, to, a, m, L, R
  <2> HIDE DEF inRight
  <2>2. /\ work \in Location /\ work # R /\ work \notin Instant
        /\ work = "AX" \/ work = to
    BY <1>4, <1>6, <1>7, PlacesAssumption DEF Register
  <2> HIDE DEF work
  <2>3. /\ l \in [Location -> Value]
        /\ \A y \in Location : y # work => l[y] = m[y]
        /\ good => Read(l, work) = i.left /\ Read(l, R) = i.right
    <3>1. Read(m, L) \in Value
      BY <1>5, <1>7 DEF Read, Value
    <3>2. l \in [Location -> Value] /\ \A y \in Location : y # work => l[y] = m[y]
      BY <1>5, <2>2, <3>1 DEF Move
    <3>3. good => Read(l, work) = i.left
      BY <1>3, <1>5, <2>2 DEF Move, Read, L
    <3>4. Read(l, R) = Read(m, R)
      BY <1>5, <1>7, <2>2, <3>2 DEF Read
    <3> QED
      BY <1>3, <3>2, <3>3, <3>4 DEF R
  <2> HIDE DEF l
  <2>4. /\ k \in [Location -> Value]
        /\ good => Read(k, work) = i.to
        /\ \A y \in Location : y # work => k[y] = l[y]
    <3>1. Result(i, Read(l, work), Read(l, R)) \in Value
      BY <1>2 DEF Result, Value
    <3>2. good => Result(i, Read(l, work), Read(l, R)) = i.to
      BY <2>3 DEF Result
    <3> QED
      BY <2>2, <2>3, <3>1, <3>2 DEF Operate, Read
  <2> HIDE DEF k
  <2>5. /\ n \in [Location -> Value]
        /\ good => n[to] = i.to
        /\ \A y \in Location : y # to => n[y] = k[y]
    <3>1. Read(k, work) \in Value
      BY <2>2, <2>4 DEF Read
    <3> QED
      BY <1>6, <2>4, <3>1 DEF Move
  <2> HIDE DEF n
  <2>6. \A y \in Location : y # "AX" /\ y # to => n[y] = m[y]
    BY <2>2, <2>3, <2>4, <2>5
  <2>7. Holds(a.av, n, Rest(K, i)) /\ (good => n[Access(a.av, i.to)] = i.to)
    BY <1>8, <2>5, <2>6
  <2> QED
    BY <1>1, <2>1, <2>7 DEF good
<1> QED
  BY <1>9, <1>10

(* Condition: only the result is written. *)
LEMMA ConditionHolds ==
  ASSUME TypeOK, NEW K, Kept(K), NEW i, IsInstr(i)
  PROVE  LET c == Condition(i)
         IN /\ Holds(c.av, c.m, Rest(K, i))
            /\ ReadsBoth(K, i) => c.m[Access(c.av, i.to)] = i.to
<1> DEFINE a  == AppointResult(i)
           to == Access(a.av, i.to)
           w  == Result(i, Read(a.m, Left(i)), Read(a.m, Right(i)))
           n  == [a.m EXCEPT ![to] = w]
           X  == {}
<1>1. /\ a = [av |-> a.av, m |-> a.m] /\ Holds(a.av, a.m, K \ Taken(i)) /\ Holds(available, a.m, K)
      /\ Taken(i) \subseteq Temp \cap {i.left, i.right}
  BY AppointResultHolds DEF ResultAppointed
<1>2. Rest(K, i) \in SUBSET (K \ Taken(i)) /\ Rest(K, i) \in SUBSET Own /\ K \in SUBSET Own
  BY <1>1, KeptHolds DEF Rest
<1>3. ReadsBoth(K, i) => w = i.to
  <2>1. ReadsBoth(K, i) => Read(a.m, Left(i)) = i.left /\ Read(a.m, Right(i)) = i.right
    <3> HIDE DEF a
    <3> QED
      BY <1>1, <1>2, ReadOperand DEF Left, Right, ReadsBoth
  <2> HIDE DEF a
  <2> QED
    BY <2>1 DEF Result
<1>4. Condition(i) = [a EXCEPT !.m = n]
  BY <1>1 DEF Condition
<1>5. i.to \in Temp \ Rest(K, i) /\ i.to \in Own /\ i.to \in Value /\ w \in Value
  BY Operands, PlacesAssumption DEF Rest, Kept, Value, Own, Result
<1> HIDE DEF a, w
<1>6. Holds(a.av, a.m, Rest(K, i)) /\ a.m \in [Location -> Value] /\ to \in Location
  <2>1. Holds(a.av, a.m, Rest(K, i))
    BY <1>1, <1>2, FewerHolds
  <2>2. IsTable(a.av) /\ a.m \in [Location -> Value]
    BY <2>1 DEF Holds
  <2> QED
    BY <1>5, <2>1, <2>2, AccessIs DEF Location
<1>7. /\ n \in [Location -> Value] /\ n[to] = w
      /\ \A y \in Location \ X : y # Access(a.av, i.to) => n[y] = a.m[y]
      /\ \A u \in Rest(K, i) : Access(a.av, u) \notin X
  BY <1>5, <1>6
<1> HIDE DEF n, X
<1>8. Holds(a.av, n, Rest(K, i))
  BY <1>2, <1>5, <1>6, <1>7, StoreHolds
<1> QED
  BY <1>1, <1>3, <1>4, <1>7, <1>8

(* ThroughAX: where the registers it spoils are clear and hold nothing of   *)
(* K, except its left operand, the rest of K is kept; and the result is     *)
(* where the table says if the operands were held.                          *)
LEMMA ThroughAXHolds ==
  ASSUME TypeOK, NEW K, Kept(K), NEW i, IsInstr(i), NEW out \in {"AX", "DX"},
         \A r \in Spoilt : Clear(available, K, r),
         \A u \in K : u # i.left => Access(available, u) \notin Spoilt
  PROVE  LET c == ThroughAX(i, out)
         IN /\ Holds(c.av, c.m, Rest(K, i))
            /\ ReadsBoth(K, i) => c.m[Access(c.av, i.to)] = i.to
<1> DEFINE a  == AppointResult(i)
           av == a.av
           J  == K \ Taken(i)
           c  == release_register(a, "DX")
           d  == IF i.right \in Instant THEN release_register(c, "CX") ELSE c
           to == Access(c.av, i.to)
           X  == Spoilt \cup {"AX"}
           good == ReadsBoth(K, i)
<1>1. /\ a = [av |-> av, m |-> a.m] /\ Holds(av, a.m, J)
      /\ Taken(i) \subseteq Temp \cap {i.left, i.right}
      /\ \A u \in J : Access(av, u) = Access(available, u)
      /\ \A q \in Register : av[q] \in {available[q], i.to}
  <2>1. ResultAppointed(K, i, a)
    BY AppointResultHolds
  <2> HIDE DEF a
  <2> QED
    BY ONLY <2>1 DEF ResultAppointed
<1>2. Rest(K, i) \in SUBSET J /\ J \in SUBSET Own /\ Rest(K, i) \in SUBSET Own /\ K \in SUBSET Own
  BY <1>1, KeptHolds DEF Rest
<1>3. /\ "DX" \in Register /\ "CX" \in Register
      /\ Spoilt = {"DX"} \cup IF i.right \in Instant THEN {"CX"} ELSE {}
  BY DEF Register, Spoilt, IsInstr
<1>4. /\ i.to \in Own /\ i.to \in Temp \ Rest(K, i) /\ i.to \in Value /\ i.to \notin Foreign
      /\ i.left \in Own \cup Instant /\ i.right \in Own \cup Instant
      /\ i.left \in Value /\ i.right \in Value
      /\ i.left = i.right => i.left \notin Temp
  BY Operands, PlacesAssumption DEF Rest, Value, Kept, Awaited, Own
<1>5. \A r \in Spoilt : Clear(av, J, r)
  <2> SUFFICES ASSUME NEW r \in Spoilt, av[r] \in Foreign, NEW v \in J
               PROVE  SlotOf[av[r]] # SlotOf[v]
    BY DEF Clear
  <2>1. r \in Register /\ Clear(available, K, r) /\ v \in K
    BY <1>3
  <2> HIDE DEF a, av, J
  <2>2. av[r] = available[r]
    BY <1>1, <1>4, <2>1
  <2> QED
    BY <2>1, <2>2 DEF Clear
<1>6. /\ d = [av |-> av, m |-> d.m] /\ Holds(av, d.m, J) /\ c.av = av
      /\ \A y \in Register : d.m[y] = a.m[y]
  <2>1. /\ c = [av |-> av, m |-> c.m] /\ Holds(av, c.m, J)
        /\ \A y \in Register : c.m[y] = a.m[y]
    <3>1. c = release_register([av |-> av, m |-> a.m], "DX")
      BY <1>1
    <3> HIDE DEF c, a, av, J
    <3> QED
      BY <1>1, <1>2, <1>3, <1>5, <3>1, ReleaseHolds
  <2>2. ASSUME i.right \in Instant
        PROVE  /\ d = [av |-> av, m |-> d.m] /\ Holds(av, d.m, J)
               /\ \A y \in Register : d.m[y] = c.m[y]
    <3>1. d = release_register([av |-> av, m |-> c.m], "CX")
      BY <2>1, <2>2
    <3>2. "CX" \in Spoilt
      BY <1>3, <2>2
    <3> HIDE DEF d, c, a, av, J
    <3> QED
      BY <1>2, <1>3, <1>5, <2>1, <3>1, <3>2, ReleaseHolds
  <2> HIDE DEF c, a, av, J
  <2> QED
    BY <2>1, <2>2
<1>7. good => Read(d.m, Left(i)) = i.left /\ Read(d.m, Right(i)) = i.right
  <2> HIDE DEF d
  <2>1. PICK w : w = d.m
    OBVIOUS
  <2>2. /\ Holds(AppointResult(i).av, w, K \ Taken(i))
        /\ \A y \in Register : w[y] = AppointResult(i).m[y]
    BY <1>6, <2>1
  <2>3. \A v \in (K \cap {i.left, i.right}) \cup Instant : Read(w, Access(available, v)) = v
    BY <2>2, StillReadable
  <2> QED
    BY <2>1, <2>3 DEF Left, Right, ReadsBoth
<1> DEFINE m      == d.m
           loaded == Move(m, "AX", Left(i))
           ready  == Spoil(IF i.right \in Instant THEN Move(loaded, "CX", i.right) ELSE loaded, {"DX"})
           src    == IF i.right \in Instant THEN "CX" ELSE Right(i)
           result == Result(i, ready["AX"], Read(ready, src))
           done   == [Spoil(ready, {"AX", "DX"}) EXCEPT ![out] = result]
           n      == Move(done, to, out)
<1>8. ThroughAX(i, out) = [d EXCEPT !.m = n]
  BY DEF ThroughAX
<1>9. good /\ i.right \notin Instant => Right(i) # "DX"
  <2>1. CASE good /\ i.right \notin Instant
    <3>1. i.right \in K
      BY <2>1 DEF ReadsBoth
    <3>2. CASE i.right # i.left
      BY <1>3, <3>1, <3>2 DEF Right
    <3>3. CASE i.right = i.left
      <4>1. i.right \in Variable
        BY <1>4, <2>1, <3>3 DEF Own
      <4>2. IsTable(available) /\ i.right \in Own
        BY <4>1, KeptHolds DEF Holds, Own
      <4> QED
        BY <1>3, <4>1, <4>2, AccessIs, PlacesAssumption DEF Right
    <3> QED
      BY <3>2, <3>3
  <2> QED
    BY <2>1
<1> HIDE DEF d, c, a, av, good
<1>10. to \in Location /\ to = Access(av, i.to) /\ m \in [Location -> Value]
  BY <1>4, <1>6, AccessIs DEF Holds, Location
<1>11. /\ {"AX", "CX", "DX"} \subseteq Location /\ {"AX", "CX", "DX"} \cap Instant = {}
       /\ Junk \in Value
  BY PlacesAssumption DEF Location, Register, Value
<1>12. /\ Left(i) \in Location \cup Instant
       /\ i.right \notin Instant => Right(i) \in Location /\ Right(i) \notin Instant /\ Right(i) # "AX"
       /\ \A u \in K : Access(available, u) # "AX"
  <2>1. IsTable(available)
    BY KeptHolds DEF Holds
  <2>2. ASSUME NEW v \in Own
        PROVE  /\ Access(available, v) \in Location
               /\ Access(available, v) \notin Instant /\ Access(available, v) # "AX"
    <3>1. Access(available, v) \in Register \cup Place
      BY <2>1, AccessIs
    <3> QED
      BY <3>1, PlacesAssumption DEF Location, Register
  <2> QED
    BY <1>2, <1>4, <2>2, AccessLiteral DEF Left, Right
<1> DEFINE L == Left(i)
           R == Right(i)
<1> HIDE DEF L, R, m, to, X
<1>13. X = {"AX", "DX"} \cup IF i.right \in Instant THEN {"CX"} ELSE {}
  BY <1>3 DEF X
<1>14. /\ ready \in [Location -> Value]
       /\ good => ready["AX"] = i.left /\ Read(ready, src) = i.right
       /\ \A y \in Location \ X : ready[y] = m[y]
  <2>1. /\ loaded \in [Location -> Value]
        /\ good => loaded["AX"] = i.left
        /\ \A y \in Location : y # "AX" => loaded[y] = m[y]
    <3>1. Read(m, L) \in Value
      BY <1>10, <1>12 DEF Read, Value, L
    <3>2. loaded = [m EXCEPT !["AX"] = Read(m, L)]
      BY DEF Move, L
    <3>3. good => Read(m, L) = i.left
      BY <1>7 DEF L, m
    <3> HIDE DEF loaded
    <3> QED
      BY <1>10, <1>11, <3>1, <3>2, <3>3
  <2> HIDE DEF loaded
  <2>2. CASE i.right \in Instant
    <3> DEFINE w == Move(loaded, "CX", i.right)
    <3>1. /\ w \in [Location -> Value] /\ w["CX"] = i.right
          /\ good => w["AX"] = i.left
          /\ \A y \in Location : y # "AX" /\ y # "CX" => w[y] = m[y]
      BY <1>4, <1>11, <2>1, <2>2 DEF Move, Read
    <3> HIDE DEF w
    <3>2. ready = Spoil(w, {"DX"}) /\ src = "CX"
      BY <2>2 DEF w
    <3> HIDE DEF src, ready
    <3> QED
      BY <1>11, <1>13, <2>2, <3>1, <3>2 DEF Spoil, Read
  <2>3. CASE i.right \notin Instant
    <3>1. ready = Spoil(loaded, {"DX"}) /\ src = R
      BY <2>3 DEF R
    <3>2. R \in Location /\ R \notin Instant /\ R # "AX"
      BY <1>12, <2>3 DEF R
    <3>3. good => R # "DX" /\ m[R] = i.right
      BY <1>7, <1>9, <2>3, <3>2 DEF R, Read, m
    <3> HIDE DEF src, ready
    <3>4. /\ ready \in [Location -> Value]
          /\ \A y \in Location : y # "DX" => ready[y] = loaded[y]
      BY <1>11, <2>1, <3>1 DEF Spoil
    <3>5. ready["AX"] = loaded["AX"]
      BY <1>11, <3>4
    <3>6. good => Read(ready, src) = i.right
      BY <2>1, <3>1, <3>2, <3>3, <3>4 DEF Read
    <3>7. \A y \in Location \ X : ready[y] = m[y]
      BY <1>13, <2>1, <3>4
    <3> QED
      BY <2>1, <3>4, <3>5, <3>6, <3>7
  <2> QED
    BY <2>2, <2>3
<1> HIDE DEF ready, src
<1>15. result \in Value /\ (good => result = i.to)
  BY <1>4, <1>11, <1>14 DEF Result
<1> HIDE DEF result
<1>16. /\ done \in [Location -> Value] /\ Read(done, out) = result
       /\ \A y \in Location \ X : done[y] = m[y]
  <2>1. /\ Spoil(ready, {"AX", "DX"}) \in [Location -> Value]
        /\ \A y \in Location \ X : Spoil(ready, {"AX", "DX"})[y] = m[y]
    BY <1>11, <1>13, <1>14 DEF Spoil
  <2>2. out \in X /\ out \in Location /\ out \notin Instant
    BY <1>11, <1>13
  <2> QED
    BY <1>15, <2>1, <2>2 DEF Read
<1> HIDE DEF done
<1>17. /\ n \in [Location -> Value] /\ n[to] = result
       /\ \A y \in Location \ X : y # to => n[y] = m[y]
  BY <1>10, <1>15, <1>16 DEF Move
<1> HIDE DEF n
<1>18. \A u \in Rest(K, i) : Access(av, u) \notin X
  <2> SUFFICES ASSUME NEW u \in Rest(K, i)
               PROVE  Access(av, u) \notin X
    OBVIOUS
  <2>1. Access(av, u) = Access(available, u) /\ u \in K
    BY <1>1, <1>2
  <2>2. Access(available, u) # "AX"
    BY <1>12, <2>1
  <2>3. CASE u # i.left
    BY <2>1, <2>2, <2>3 DEF X
  <2>4. CASE u = i.left
    <3>1. u \in Variable /\ u \in Own
      BY <1>2, <2>4 DEF Rest, Own
    <3>2. IsTable(available)
      BY KeptHolds DEF Holds
    <3>3. Access(available, u) \in Place
      BY <3>1, <3>2, AccessIs
    <3> QED
      BY <1>13, <2>1, <3>3, PlacesAssumption DEF Register
  <2> QED
    BY <2>3, <2>4
<1>19. Holds(av, n, Rest(K, i))
  <2>1. Holds(av, m, Rest(K, i))
    BY <1>2, <1>6, FewerHolds DEF m
  <2>2. \A y \in Location \ X : y # Access(av, i.to) => n[y] = m[y]
    BY <1>10, <1>17
  <2>3. n \in [Location -> Value] /\ i.to \in Temp \ Rest(K, i) /\ Rest(K, i) \in SUBSET Own
    BY <1>2, <1>4, <1>17
  <2> HIDE DEF J
  <2> QED
    BY <1>18, <2>1, <2>2, <2>3, StoreHolds
<1>20. good => n[Access(av, i.to)] = i.to
  BY <1>10, <1>15, <1>17
<1>21. ThroughAX(i, out).av = av /\ ThroughAX(i, out).m = n
  BY <1>6, <1>8
<1> QED
  BY <1>19, <1>20, <1>21 DEF good

-----------------------------------------------------------------------------
(* Steps.  What each does to a set K of values that are in their places.    *)

(* An operand that waits without any code changes nothing. *)
LEMMA PushOperandKeeps ==
  ASSUME TypeOK, NEW K, Kept(K), NEW v \in Variable \cup Instant, PushOperand(v)
  PROVE  TypeOK' /\ Awaited' = Awaited /\ \A u \in K : Held(u)'
<1>1. pending' = Append(pending, v) /\ UNCHANGED <<available, mem, aborted>>
  BY DEF PushOperand
<1>2. v \in Operand /\ v \notin Temp /\ pending \in Seq(Operand) /\ Distinct(pending)
  BY PlacesAssumption, KeptHolds DEF Operand
<1>3. /\ pending' \in Seq(Operand) /\ Len(pending') = Len(pending) + 1
      /\ \A k \in 1 .. Len(pending) : pending'[k] = pending[k]
      /\ pending'[Len(pending) + 1] = v
  BY <1>1, <1>2 DEF Operand
<1>4. Len(pending) \in Nat /\ 1 .. Len(pending') = (1 .. Len(pending)) \cup {Len(pending) + 1}
  BY <1>2, <1>3
<1>5. \A j, k \in 1 .. Waiting' : pending'[j] = pending'[k] => j = k \/ pending'[j] \notin Temp
  BY <1>2, <1>3, <1>4 DEF Distinct, Waiting
<1>6. TypeOK'
  BY <1>1, <1>3, <1>5 DEF TypeOK
<1>7. Awaited' = Awaited
  BY <1>2, <1>3, <1>4 DEF Awaited
<1>8. \A u \in K : Held(u)'
  BY <1>1 DEF Held, Kept
<1> QED
  BY <1>6, <1>7, <1>8

(* Nothing waits at the end of a statement. *)
LEMMA NothingWaits ==
  /\ <<>> \in Seq(Operand) /\ Distinct(<<>>) /\ Waits(<<>>) = {}
  /\ TypeOK /\ Waiting = 0 => Awaited = {}
BY DEF Distinct, Waits, Awaited, Waiting

(* An assignment gives its variable the value of its source, and touches no *)
(* other variable.                                                          *)
LEMMA AssignToKeeps ==
  ASSUME TypeOK, NEW K, Kept(K), NEW x \in Variable, AssignTo(x)
  PROVE  /\ TypeOK' /\ Awaited' = {}
         /\ \A y \in K \cap Variable : y # x => Held(y)'
         /\ Held(pending[1]) => Held(x)'
<1> DEFINE v    == pending[1]
           c    == Assign(x, v)
           good == Held(v)
           S    == ((K \cap Variable) \ {x}) \cup {y \in {x} : good}
<1>1. /\ Holds(available, mem, K) /\ IsTable(available) /\ mem \in [Location -> Value]
      /\ Generates(c, <<>>)
  BY KeptHolds DEF AssignTo, Holds
<1>2. good => Read(mem, Access(available, v)) = v
  BY DEF Held
<1>3. PICK w : w = IF Read(mem, Access(available, v)) = v THEN x ELSE Junk
  OBVIOUS
<1>4. /\ c.av = [r \in Register |-> IF available[r] = v THEN None ELSE available[r]]
      /\ c.m = [mem EXCEPT ![SlotOf[x]] = w]
  BY <1>3 DEF Assign
<1>5. good => w = x
  BY <1>2, <1>3
<1>6. SlotOf[x] \in Location /\ w \in Value
  BY <1>3, PlacesAssumption DEF Location, Value
<1> HIDE DEF c, v, good
<1>7. IsTable(c.av)
  BY <1>1, <1>4 DEF IsTable
<1>8. c.m \in [Location -> Value]
  BY <1>1, <1>4, <1>6
<1>9. ASSUME NEW y \in S
      PROVE  c.m[Access(c.av, y)] = y
  <2>1. y \in Variable /\ y \in Own
    BY DEF Own
  <2>2. Access(c.av, y) = SlotOf[y] /\ Access(available, y) = SlotOf[y] /\ SlotOf[y] \in Location
    BY <1>1, <1>7, <2>1, AccessIs DEF Location
  <2>3. CASE y = x
    BY <1>1, <1>4, <1>5, <1>6, <2>2, <2>3
  <2>4. CASE y # x
    <3>1. mem[SlotOf[y]] = y
      BY <1>1, <2>2, <2>4 DEF Holds
    <3>2. SlotOf[y] # SlotOf[x]
      BY <2>1, <2>4, PlacesAssumption
    <3> QED
      BY <1>1, <1>4, <2>2, <3>1, <3>2
  <2> QED
    BY <2>3, <2>4
<1>10. Holds(c.av, c.m, S)
  BY <1>7, <1>8, <1>9 DEF Holds
<1>11. available' = c.av /\ Leaves(c.m, <<>>) /\ aborted' \in BOOLEAN
  BY <1>1 DEF Generates, Becomes, TypeOK
<1>12. S \in SUBSET (Waits(<<>>) \cup Variable)
  OBVIOUS
<1> HIDE DEF S
<1>13. TypeOK' /\ Awaited' = {} /\ \A y \in S : Held(y)'
  BY <1>10, <1>11, <1>12, NothingWaits, LeavesKeeps
<1> QED
  BY <1>13 DEF S, good, v

(* An instruction that uses its operand and leaves the table as it is       *)
(* touches no variable.                                                     *)
LEMMA UseKeeps ==
  ASSUME TypeOK, NEW K, Kept(K), Use
  PROVE  TypeOK' /\ Awaited' = {} /\ \A y \in K \cap Variable : Held(y)'
<1> DEFINE S == K \cap Variable
<1>1. available' = available /\ Leaves(mem, <<>>) /\ aborted' \in BOOLEAN
  BY DEF Use, Generates, Becomes, Now, TypeOK
<1>2. Holds(available, mem, S) /\ S \in SUBSET (Waits(<<>>) \cup Variable)
  BY KeptHolds, FewerHolds
<1> HIDE DEF S
<1>3. TypeOK' /\ Awaited' = {} /\ \A y \in S : Held(y)'
  BY <1>1, <1>2, NothingWaits, LeavesKeeps
<1> QED
  BY <1>3 DEF S

(* Whatever other code leaves in the table, values in their slots are held. *)
LEMMA LeftBehindHolds ==
  ASSUME NEW ops, NEW av \in LeftBehind(ops), NEW m \in [Location -> Value],
         NEW S \in SUBSET (Waits(ops) \cup Variable), \A v \in S : m[SlotOf[v]] = v
  PROVE  Holds(av, m, S)
<1>1. IsTable(av)
  BY PlacesAssumption DEF LeftBehind, IsTable
<1>2. ASSUME NEW v \in S
      PROVE  Access(av, v) = SlotOf[v]
  <2>1. CASE v \in Variable
    BY <1>1, <2>1, AccessIs DEF Own
  <2>2. CASE v \in Waits(ops)
    <3>1. v \in Own /\ \A r \in Register : av[r] # v
      BY <2>2, PlacesAssumption DEF LeftBehind, Waits, Own
    <3> QED
      BY <1>1, <3>1, AccessIs
  <2> QED
    BY <2>1, <2>2
<1> QED
  BY <1>1, <1>2 DEF Holds

(* Variables are in their slots whatever other code leaves in the table. *)
LEMMA OtherCodeKeeps ==
  ASSUME TypeOK, NEW K, Kept(K), OtherCode
  PROVE  TypeOK' /\ Awaited' = {} /\ \A y \in K \cap Variable : Held(y)'
<1> DEFINE S == K \cap Variable
<1>1. PICK av \in LeftBehind(<<>>) : available' = av
  BY DEF OtherCode
<1>2. Leaves(mem, <<>>) /\ aborted' \in BOOLEAN
  BY DEF OtherCode, TypeOK
<1>3. IsTable(available) /\ mem \in [Location -> Value] /\ \A v \in K : mem[Access(available, v)] = v
  BY KeptHolds DEF Holds
<1>4. \A v \in S : mem[SlotOf[v]] = v
  BY <1>3, AccessIs DEF Own
<1>5. Holds(av, mem, S) /\ S \in SUBSET (Waits(<<>>) \cup Variable)
  BY <1>3, <1>4, LeftBehindHolds
<1> HIDE DEF S
<1>6. TypeOK' /\ Awaited' = {} /\ \A y \in S : Held(y)'
  BY <1>1, <1>2, <1>5, NothingWaits, LeavesKeeps
<1> QED
  BY <1>6 DEF S

(* release_all_registers brings every value held to its slot. *)
LEMMA ReleaseAllSaves ==
  ASSUME NEW av, NEW m, NEW S \in SUBSET Own, Holds(av, m, S),
         \A r \in Register : Clear(av, S, r)
  PROVE  LET c == release_all_registers([av |-> av, m |-> m])
         IN /\ c.m \in [Location -> Value]
            /\ \A u \in S : c.m[SlotOf[u]] = u
<1> DEFINE c0 == [av |-> av, m |-> m]
           c1 == release_register(c0, "BX")
           c2 == release_register(c1, "CX")
           c3 == release_register(c2, "DX")
           m1 == c1.m
           m2 == c2.m
           m3 == c3.m
<1>1. "BX" \in Register /\ "CX" \in Register /\ "DX" \in Register /\ release_all_registers(c0).m = m3
  BY DEF Register, release_all_registers
<1>2. /\ c1 = [av |-> av, m |-> m1] /\ Holds(av, m1, S)
      /\ \A u \in S : av["BX"] = u \/ m[SlotOf[u]] = u => m1[SlotOf[u]] = u
  <2> HIDE DEF m1
  <2>1. c1 = [av |-> av, m |-> m1] /\ Holds(av, m1, S)
    BY <1>1, ReleaseHolds DEF m1
  <2>2. \A u \in S : av["BX"] = u \/ m[SlotOf[u]] = u => m1[SlotOf[u]] = u
    BY <1>1, ReleaseSaves DEF m1
  <2> QED
    BY <2>1, <2>2
<1> HIDE DEF c1, m1
<1>3. /\ c2 = [av |-> av, m |-> m2] /\ Holds(av, m2, S)
      /\ \A u \in S : av["CX"] = u \/ m1[SlotOf[u]] = u => m2[SlotOf[u]] = u
  <2>1. c2 = release_register([av |-> av, m |-> m1], "CX")
    BY <1>2
  <2> HIDE DEF c2
  <2>2. c2 = [av |-> av, m |-> m2] /\ Holds(av, m2, S)
    BY <1>1, <1>2, <2>1, ReleaseHolds
  <2>3. \A u \in S : av["CX"] = u \/ m1[SlotOf[u]] = u => m2[SlotOf[u]] = u
    BY <1>1, <1>2, <2>1, ReleaseSaves
  <2> QED
    BY <2>2, <2>3
<1> HIDE DEF c2, m2
<1>4. /\ Holds(av, m3, S)
      /\ \A u \in S : av["DX"] = u \/ m2[SlotOf[u]] = u => m3[SlotOf[u]] = u
  <2>1. c3 = release_register([av |-> av, m |-> m2], "DX")
    BY <1>3
  <2> HIDE DEF c3
  <2>2. c3 = [av |-> av, m |-> m3] /\ Holds(av, m3, S)
    BY <1>1, <1>3, <2>1, ReleaseHolds
  <2>3. \A u \in S : av["DX"] = u \/ m2[SlotOf[u]] = u => m3[SlotOf[u]] = u
    BY <1>1, <1>3, <2>1, ReleaseSaves
  <2> QED
    BY <2>2, <2>3
<1> HIDE DEF c3, m3
<1>5. ASSUME NEW u \in S
      PROVE  m3[SlotOf[u]] = u
  <2>1. CASE \E r \in Register : av[r] = u
    BY <1>2, <1>3, <1>4, <2>1 DEF Register
  <2>2. CASE \A r \in Register : av[r] # u
    <3>1. m[SlotOf[u]] = u
      BY <2>2, AccessIs DEF Holds
    <3> QED
      BY <1>2, <1>3, <1>4, <3>1
  <2> QED
    BY <2>1, <2>2
<1> QED
  BY <1>1, <1>4, <1>5 DEF Holds

(* A call keeps what its saves leave clear, and its result is stored in a   *)
(* slot of its own.                                                         *)
LEMMA CallInstrKeeps ==
  ASSUME TypeOK, NEW K, Kept(K), NEW n \in Nat, NEW t \in Fresh, CallInstr(n, t),
         \A r \in Register : Clear(available, K, r)
  PROVE  /\ TypeOK' /\ Awaited' \subseteq Awaited \cup {t} /\ t \in Awaited'
         /\ \A v \in K : v \in Awaited' \cup Variable => Held(v)'
         /\ Held(t)'
<1> DEFINE c   == release_all_registers(Now)
           ops == Append(Without(n), t)
           m   == c.m
           w   == [Spoil(m, Register \cup {"AX"}) EXCEPT ![SlotOf[t]] = t]
           S   == (K \cap (Waits(ops) \cup Variable)) \cup {t}
<1>1. n <= Waiting /\ Leaves(w, ops) /\ aborted' \in BOOLEAN
  BY DEF CallInstr, TypeOK
<1>2. PICK av \in LeftBehind(ops) : available' = av
  BY DEF CallInstr
<1>3. /\ Holds(available, mem, K) /\ K \in SUBSET Own /\ pending \in Seq(Operand)
      /\ Distinct(pending) /\ Awaited \in SUBSET Temp
  BY KeptHolds
<1>4. t \in Temp \ Awaited /\ t \in Temp \ K /\ t \in Own /\ n \in 0 .. Waiting
  BY <1>1, <1>3, PlacesAssumption DEF Fresh, Kept, Own, Waiting
<1>5. m \in [Location -> Value] /\ \A u \in K : m[SlotOf[u]] = u
  BY <1>3, ReleaseAllSaves DEF Now
<1>6. /\ ops \in Seq(Operand) /\ Distinct(ops) /\ t \in Waits(ops)
      /\ Waits(ops) \subseteq Awaited \cup {t}
  <2>1. \A k \in 1 .. Waiting - n : k \in 1 .. Len(pending)
    BY <1>4 DEF Waiting
  <2>2. /\ ops \in Seq(Operand) /\ Distinct(ops)
        /\ Waits(ops) = ({pending[k] : k \in 1 .. Waiting - n} \cap Temp) \cup {t}
    BY <1>3, <1>4, Popped
  <2> QED
    BY <2>1, <2>2 DEF Awaited
<1> HIDE DEF m, ops
<1>7. /\ w \in [Location -> Value] /\ w[SlotOf[t]] = t
      /\ \A y \in Place : y # SlotOf[t] => w[y] = m[y]
  <2>1. SlotOf[t] \in Location /\ t \in Value /\ Junk \in Value
    BY <1>4, PlacesAssumption DEF Location, Value
  <2> QED
    BY <1>5, <2>1, PlacesAssumption DEF Spoil, Location
<1> HIDE DEF w
<1>8. ASSUME NEW v \in S
      PROVE  w[SlotOf[v]] = v
  <2>1. CASE v = t
    BY <1>7, <2>1
  <2>2. CASE v # t
    <3>1. v \in K /\ v \in Own
      BY <1>3, <2>2
    <3>2. SlotOf[v] # SlotOf[t] /\ SlotOf[v] \in Place
      BY <1>4, <2>2, <3>1, PlacesAssumption DEF Own
    <3> QED
      BY <1>5, <1>7, <3>1, <3>2
  <2> QED
    BY <2>1, <2>2
<1>9. S \in SUBSET (Waits(ops) \cup Variable)
  BY <1>6
<1> HIDE DEF S
<1>10. Holds(av, w, S)
  BY <1>7, <1>8, <1>9, LeftBehindHolds
<1>11. TypeOK' /\ Awaited' = Waits(ops) /\ \A v \in S : Held(v)'
  BY <1>1, <1>2, <1>6, <1>9, <1>10, LeavesKeeps
<1> QED
  BY <1>6, <1>11 DEF S

(* The instruction of an operation is one on the top operands. *)
LEMMA TakesIsInstr ==
  ASSUME Waiting >= 2, NEW op, NEW t \in Fresh
  PROVE  /\ IsInstr(Takes(op, t)) /\ Takes(op, t).to = t /\ Takes(op, t).op = op
         /\ Takes(op, t).left = pending[Waiting - 1] /\ Takes(op, t).right = pending[Waiting]
BY DEF IsInstr, Takes

(* What an instruction does to K when its code keeps the Rest. *)
InstrDoes(K, t) ==
  /\ TypeOK' /\ Waiting >= 2
  /\ Awaited' = (Awaited \ {pending[Waiting - 1], pending[Waiting]}) \cup {t}
  /\ \A v \in K : v \in Awaited' \cup Variable => Held(v)'
  /\ {pending[Waiting - 1], pending[Waiting]} \subseteq K \cup Instant => Held(t)'

(* ADD, SUB, AND, OR and comparisons keep what is held. *)
LEMMA OperationKeeps ==
  ASSUME TypeOK, NEW K, Kept(K), NEW t \in Fresh, Operation(t)
  PROVE  InstrDoes(K, t)
<1>1. CASE Compare(t)
  <2>1. PICK i : i = Takes("CMP", t)
    OBVIOUS
  <2>2. PICK c : c = Condition(i)
    OBVIOUS
  <2>3. Waiting >= 2 /\ Becomes(c, Append(Without(2), t)) /\ aborted' \in BOOLEAN
    BY <1>1, <2>1, <2>2 DEF Compare, Generates, TypeOK
  <2>4. /\ IsInstr(i) /\ i.to = t
        /\ i.left = pending[Waiting - 1] /\ i.right = pending[Waiting]
    BY <2>1, <2>3, TakesIsInstr
  <2>5. /\ Holds(c.av, c.m, Rest(K, i))
        /\ ReadsBoth(K, i) => c.m[Access(c.av, t)] = t
    BY <2>2, <2>4, ConditionHolds
  <2>6. /\ TypeOK'
        /\ Awaited' = (Awaited \ {i.left, i.right}) \cup {t}
        /\ \A v \in K : v \in Awaited' \cup Variable => Held(v)'
        /\ ReadsBoth(K, i) => Held(t)'
    BY <2>3, <2>4, <2>5, InstrKeeps
  <2> QED
    BY <2>3, <2>4, <2>6 DEF InstrDoes, ReadsBoth
<1>2. ASSUME NEW op \in {"ADD", "SUB", "AND", "OR"}, Additive(op, t)
      PROVE  InstrDoes(K, t)
  <2>1. PICK i : i = Takes(op, t)
    OBVIOUS
  <2>2. PICK c : c = AddSubOrAnd(i)
    OBVIOUS
  <2>3. Waiting >= 2 /\ Becomes(c, Append(Without(2), t)) /\ aborted' \in BOOLEAN
    BY <1>2, <2>1, <2>2 DEF Additive, Generates, TypeOK
  <2>4. /\ IsInstr(i) /\ i.to = t /\ i.op = op
        /\ i.left = pending[Waiting - 1] /\ i.right = pending[Waiting]
    BY <2>1, <2>3, TakesIsInstr
  <2>5. /\ Holds(c.av, c.m, Rest(K, i))
        /\ ReadsBoth(K, i) => c.m[Access(c.av, t)] = t
    BY <2>2, <2>4, AddSubOrAndHolds
  <2>6. /\ TypeOK'
        /\ Awaited' = (Awaited \ {i.left, i.right}) \cup {t}
        /\ \A v \in K : v \in Awaited' \cup Variable => Held(v)'
        /\ ReadsBoth(K, i) => Held(t)'
    BY <2>3, <2>4, <2>5, InstrKeeps
  <2> QED
    BY <2>3, <2>4, <2>6 DEF InstrDoes, ReadsBoth
<1> QED
  BY <1>1, <1>2 DEF Operation

(* A product keeps what its saves leave clear and its registers do not      *)
(* hold, its left operand excepted.                                         *)
LEMMA ProductsKeep ==
  ASSUME TypeOK, NEW K, Kept(K), NEW t \in Fresh, Products(t),
         \A r \in Spoilt : Clear(available, K, r),
         \A u \in K : u # pending[Waiting - 1] => Access(available, u) \notin Spoilt
  PROVE  InstrDoes(K, t)
<1>1. ASSUME NEW op, NEW out \in {"AX", "DX"}, Waiting >= 2, aborted' \in BOOLEAN,
             Becomes(ThroughAX(Takes(op, t), out), Append(Without(2), t))
      PROVE  InstrDoes(K, t)
  <2>1. PICK i : i = Takes(op, t)
    OBVIOUS
  <2>2. PICK c : c = ThroughAX(i, out)
    OBVIOUS
  <2>3. Becomes(c, Append(Without(2), t))
    BY <1>1, <2>1, <2>2
  <2>4. /\ IsInstr(i) /\ i.to = t
        /\ i.left = pending[Waiting - 1] /\ i.right = pending[Waiting]
    BY <1>1, <2>1, TakesIsInstr
  <2>5. /\ Holds(c.av, c.m, Rest(K, i))
        /\ ReadsBoth(K, i) => c.m[Access(c.av, t)] = t
    BY <2>2, <2>4, ThroughAXHolds
  <2>6. /\ TypeOK'
        /\ Awaited' = (Awaited \ {i.left, i.right}) \cup {t}
        /\ \A v \in K : v \in Awaited' \cup Variable => Held(v)'
        /\ ReadsBoth(K, i) => Held(t)'
    BY <1>1, <2>3, <2>4, <2>5, InstrKeeps
  <2> QED
    BY <1>1, <2>4, <2>6 DEF InstrDoes, ReadsBoth
<1>2. CASE Modulo(t)
  <2>1. /\ Waiting >= 2 /\ aborted' \in BOOLEAN
        /\ Becomes(ThroughAX(Takes("MOD", t), "DX"), Append(Without(2), t))
    BY <1>2 DEF Modulo, Mod
  <2> QED
    BY <1>1, <2>1
<1>3. ASSUME NEW op \in {"MUL", "DIV"}, Product(op, t)
      PROVE  InstrDoes(K, t)
  <2>1. /\ Waiting >= 2 /\ aborted' \in BOOLEAN
        /\ Becomes(ThroughAX(Takes(op, t), "AX"), Append(Without(2), t))
    BY <1>3 DEF Product, MulDiv, Generates, TypeOK
  <2> QED
    BY <1>1, <2>1
<1> QED
  BY <1>2, <1>3 DEF Products

(* A call keeps what its saves leave clear. *)
LEMMA CallsKeep ==
  ASSUME TypeOK, NEW K, Kept(K), NEW t \in Fresh, Calls(t),
         \A r \in Register : Clear(available, K, r)
  PROVE  /\ TypeOK' /\ Awaited' \subseteq Awaited \cup {t} /\ t \in Awaited'
         /\ \A v \in K : v \in Awaited' \cup Variable => Held(v)'
         /\ Held(t)'
<1>1. PICK n \in 0 .. MaxArgs : CallInstr(n, t)
  BY DEF Calls
<1>2. n \in Nat
  BY PlacesAssumption
<1> QED
  BY <1>1, <1>2, CallInstrKeeps

(* The other steps lose nothing, but an assignment stores what it reads.    *)
LEMMA OtherKeeps ==
  ASSUME TypeOK, NEW K, Kept(K), Other
  PROVE  /\ TypeOK' /\ Awaited' \subseteq Awaited
         /\ \A v \in K : v \in Awaited' \cup Variable =>
              Held(v)' \/ (v \in Variable /\ AssignTo(v) /\ ~ Held(pending[1]))
<1>1. CASE \E v \in Variable \cup Instant : PushOperand(v)
  BY <1>1, PushOperandKeeps
<1>2. CASE Use \/ OtherCode
  <2>1. TypeOK' /\ Awaited' = {} /\ \A y \in K \cap Variable : Held(y)'
    BY <1>2, UseKeeps, OtherCodeKeeps
  <2> QED
    BY <2>1
<1>3. ASSUME NEW x \in Variable, AssignTo(x)
      PROVE  /\ TypeOK' /\ Awaited' \subseteq Awaited
             /\ \A v \in K : v \in Awaited' \cup Variable =>
                  Held(v)' \/ (v \in Variable /\ AssignTo(v) /\ ~ Held(pending[1]))
  <2>1. /\ TypeOK' /\ Awaited' = {}
        /\ \A y \in K \cap Variable : y # x => Held(y)'
        /\ Held(pending[1]) => Held(x)'
    BY <1>3, AssignToKeeps
  <2> QED
    BY <1>3, <2>1
<1> QED
  BY <1>1, <1>2, <1>3 DEF Other

-----------------------------------------------------------------------------
(* Every step keeps the types. *)
LEMMA TypeKept ==
  ASSUME TypeOK, [Next]_vars
  PROVE  TypeOK'
<1>1. Kept({})
  BY DEF Kept
<1>2. CASE UNCHANGED vars
  BY <1>2 DEF vars, TypeOK, Waiting
<1>3. CASE Other
  BY <1>1, <1>3, OtherKeeps
<1>4. ASSUME NEW t \in Fresh, Operation(t)
      PROVE  TypeOK'
  <2>1. InstrDoes({}, t)
    BY <1>1, <1>4, OperationKeeps
  <2> QED
    BY <2>1 DEF InstrDoes
<1>5. ASSUME NEW t \in Fresh, Products(t)
      PROVE  TypeOK'
  <2>1. \A r \in Spoilt : Clear(available, {}, r)
    BY DEF Clear
  <2>2. InstrDoes({}, t)
    BY <1>1, <1>5, <2>1, ProductsKeep
  <2> QED
    BY <2>2 DEF InstrDoes
<1>6. ASSUME NEW t \in Fresh, Calls(t)
      PROVE  TypeOK'
  <2>1. \A r \in Register : Clear(available, {}, r)
    BY DEF Clear
  <2> QED
    BY <1>1, <1>6, <2>1, CallsKeep
<1> QED
  BY <1>2, <1>3, <1>4, <1>5, <1>6 DEF Next

(* The table is empty at first, and variables are in their places. *)
LEMMA InitTyped ==
  ASSUME Init
  PROVE  TypeOK /\ Awaited = {} /\ \A x \in Variable : Held(x)
<1>1. pending = <<>> /\ Waiting = 0 /\ Awaited = {} /\ pending \in Seq(Operand)
  BY DEF Init, Waiting, Awaited
<1>2. /\ available \in [Register -> Temp \cup Foreign \cup {None}]
      /\ \A r \in Register : available[r] = None
  BY DEF Init
<1>3. IsTable(available)
  BY <1>2 DEF IsTable
<1>4. ASSUME NEW x \in Variable
      PROVE  Held(x)
  <2>1. SlotOf[x] \in Place /\ Access(available, x) = SlotOf[x]
    BY <1>3, AccessIs DEF Own
  <2>2. \A v \in Variable : SlotOf[v] = SlotOf[x] => v = x
    BY PlacesAssumption
  <2>3. (CHOOSE v \in Variable : SlotOf[v] = SlotOf[x]) = x
    BY <2>2
  <2>4. mem[SlotOf[x]] = x
    BY <2>1, <2>3 DEF Init
  <2>5. SlotOf[x] \notin Instant
    BY <2>1, PlacesAssumption
  <2> QED
    BY <2>1, <2>4, <2>5 DEF Held, Read
<1>5. mem \in [Register \cup {"AX"} \cup Place -> Temp \cup Variable \cup {Junk}]
  BY DEF Init
<1>6. aborted \in BOOLEAN
  BY DEF Init
<1> QED
  BY <1>1, <1>2, <1>4, <1>5, <1>6 DEF TypeOK

(* The table and the memory have their types in every state, and no         *)
(* temporary is appointed to two registers: get_access_name has no choice.  *)
THEOREM TypeCorrect == Spec => []TypeOK
<1>1. Init => TypeOK
  BY InitTyped
<1>2. TypeOK /\ [Next]_vars => TypeOK'
  BY TypeKept
<1> QED
  BY <1>1, <1>2, PTL DEF Spec

-----------------------------------------------------------------------------
(* What a value alone says of the registers a step saves. *)
LEMMA NotExposed ==
  ASSUME NEW v, NEW S, ~ Exposed(v, S)
  PROVE  \A r \in S : Clear(available, {v}, r)
BY DEF Exposed, Clear

(* A step loses only what LossIsKnown says: for each value, the lemmas of   *)
(* the step with this value alone as K; for a result, with its operands.    *)
LEMMA StepLosesKnown ==
  ASSUME TypeOK, Next
  PROVE  LossIsKnown
<1>1. Awaited \in SUBSET Temp /\ Awaited' \in SUBSET Temp
  BY DEF Awaited
<1>2. \A v \in Awaited \cup Variable : v \notin Instant
  BY <1>1, PlacesAssumption
<1>3. ASSUME NEW v \in Awaited \cup Variable, Held(v)
      PROVE  Kept({v})
  BY <1>3 DEF Kept
<1>4. CASE \E t \in Fresh : Products(t)
  <2>1. PICK t \in Fresh : Products(t)
    BY <1>4
  <2> DEFINE l == pending[Waiting - 1]
             r == pending[Waiting]
  <2>2. Waiting >= 2 /\ IsProduct /\ \A u \in Awaited' \ Awaited : u = t
    <3>1. Kept({}) /\ \A q \in Spoilt : Clear(available, {}, q)
      BY DEF Kept, Clear
    <3>2. InstrDoes({}, t)
      BY <2>1, <3>1, ProductsKeep
    <3> QED
      BY <2>1, <3>2 DEF InstrDoes, IsProduct
  <2>3. ASSUME NEW v \in Awaited \cup Variable, Safe(v),
               v # l => Access(available, v) \notin Spoilt
        PROVE  InstrDoes({v}, t)
    <3>1. Kept({v}) /\ \A q \in Spoilt : Clear(available, {v}, q)
      BY <1>2, <1>3, <2>3, <2>2, NotExposed DEF Safe, Overwrites
    <3>2. \A u \in {v} : u # pending[Waiting - 1] => Access(available, u) \notin Spoilt
      BY <2>3
    <3> QED
      BY <2>1, <3>1, <3>2, ProductsKeep
  <2>4. ASSUME NEW v \in Awaited \cap Awaited', Survives(v)
        PROVE  Held(v)'
    <3>1. InstrDoes({v}, t)
      BY <2>3, <2>4, <2>2 DEF Survives, Spoils
    <3> QED
      BY <3>1 DEF InstrDoes
  <2>5. ASSUME NEW x \in Variable, Safe(x)
        PROVE  Held(x)'
    <3>1. IsTable(available) /\ x \in Own
      BY DEF TypeOK, IsTable, Own
    <3>2. Access(available, x) \in Place
      BY <3>1, AccessIs
    <3>3. Access(available, x) \notin Spoilt
      BY <3>2, PlacesAssumption DEF Spoilt, Register
    <3>4. InstrDoes({x}, t)
      BY <2>3, <2>5, <3>3
    <3> QED
      BY <3>4 DEF InstrDoes
  <2>6. ASSUME Safe(l), Survives(r)
        PROVE  Held(t)'
    <3>1. /\ l \in Awaited \cup Variable \cup Instant
          /\ r \in Awaited \cup Variable \cup Instant
      <4>1. IsInstr(Takes("MOD", t)) /\ Takes("MOD", t).left = l /\ Takes("MOD", t).right = r
        BY <2>2, TakesIsInstr
      <4> QED
        BY <4>1, Operands
    <3>2. PICK K : K = {l, r} \ Instant
      OBVIOUS
    <3>3. K \in SUBSET (Awaited \cup Variable) /\ {l, r} \subseteq K \cup Instant
      BY <3>1, <3>2
    <3>4. ASSUME NEW u \in K
          PROVE  /\ Held(u) /\ ~ Exposed(u, Spoilt)
                 /\ u # l => Access(available, u) \notin Spoilt
      <4>1. u \notin Instant /\ u \in {l, r}
        BY <3>2
      <4> QED
        BY <2>2, <2>6, <4>1 DEF Safe, Survives, Overwrites, Spoils
    <3>5. Kept(K)
      BY <3>3, <3>4 DEF Kept
    <3>6. \A q \in Spoilt : Clear(available, K, q)
      BY <3>4 DEF Exposed, Clear
    <3>7. \A u \in K : u # pending[Waiting - 1] => Access(available, u) \notin Spoilt
      BY <3>4
    <3>8. InstrDoes(K, t)
      BY <2>1, <3>5, <3>6, <3>7, ProductsKeep
    <3> QED
      BY <3>3, <3>8 DEF InstrDoes
  <2> QED
    BY <2>4, <2>5, <2>2, <2>6 DEF LossIsKnown
<1>5. CASE \E t \in Fresh : Calls(t)
  <2>1. PICK t \in Fresh : Calls(t)
    BY <1>5
  <2>2. /\ Held(t)' /\ Awaited' \subseteq Awaited \cup {t}
        /\ IsCall
    <3>1. Kept({}) /\ \A q \in Register : Clear(available, {}, q)
      BY DEF Kept, Clear
    <3> QED
      BY <2>1, <3>1, CallsKeep DEF IsCall
  <2>3. ASSUME NEW v \in Awaited \cup Variable, Safe(v)
        PROVE  v \in Awaited' \cup Variable => Held(v)'
    <3>1. Kept({v}) /\ \A q \in Register : Clear(available, {v}, q)
      BY <1>2, <1>3, <2>3, <2>2, NotExposed DEF Safe, Overwrites
    <3> QED
      BY <2>1, <3>1, CallsKeep
  <2> QED
    BY <2>3, <2>2 DEF LossIsKnown, Survives
<1>6. CASE Other \/ \E t \in Fresh : Operation(t)
  <2>1. \A v : Survives(v) => Safe(v)
    BY DEF Survives
  <2>2. \A v : Safe(v) => Held(v)
    BY DEF Safe
  <2>3. CASE Other
    <3>1. Awaited' \subseteq Awaited
      <4>1. Kept({})
        BY DEF Kept
      <4> QED
        BY <2>3, <4>1, OtherKeeps
    <3>2. ASSUME NEW v \in Awaited \cup Variable, Held(v)
          PROVE  v \in Awaited' \cup Variable =>
                   Held(v)' \/ (v \in Variable /\ AssignTo(v) /\ ~ Held(pending[1]))
      BY <1>3, <2>3, <3>2, OtherKeeps
    <3>3. ASSUME NEW v \in Awaited \cap Awaited', Survives(v)
          PROVE  Held(v)'
      BY <1>1, <2>1, <2>2, <3>2, <3>3, PlacesAssumption
    <3>4. ASSUME NEW x \in Variable, Safe(x)
          PROVE  Held(x)' \/ (AssignTo(x) /\ ~ Held(pending[1]))
      BY <2>2, <3>2, <3>4
    <3> QED
      BY <3>1, <3>3, <3>4 DEF LossIsKnown
  <2>4. CASE \E t \in Fresh : Operation(t)
    <3>1. PICK t \in Fresh : Operation(t)
      BY <2>4
    <3>2. ASSUME NEW v \in Awaited \cup Variable, Held(v)
          PROVE  v \in Awaited' \cup Variable => Held(v)'
      <4>1. InstrDoes({v}, t)
        BY <1>3, <3>1, <3>2, OperationKeeps
      <4> QED
        BY <4>1 DEF InstrDoes
    <3>3. Waiting >= 2 /\ \A u \in Awaited' \ Awaited : u = t
      <4>1. InstrDoes({}, t)
        BY <3>1, OperationKeeps DEF Kept
      <4> QED
        BY <4>1 DEF InstrDoes
    <3> DEFINE l == pending[Waiting - 1]
               r == pending[Waiting]
    <3>4. ASSUME Held(l), Held(r)
          PROVE  Held(t)'
      <4>1. /\ l \in Awaited \cup Variable \cup Instant
            /\ r \in Awaited \cup Variable \cup Instant
        <5>1. IsInstr(Takes("CMP", t)) /\ Takes("CMP", t).left = l /\ Takes("CMP", t).right = r
          BY <3>3, TakesIsInstr
        <5> QED
          BY <5>1, Operands
      <4>2. PICK K : K = {l, r} \ Instant
        OBVIOUS
      <4>3. Kept(K) /\ {l, r} \subseteq K \cup Instant
        BY <3>4, <4>1, <4>2 DEF Kept
      <4>4. InstrDoes(K, t)
        BY <3>1, <4>3, OperationKeeps
      <4> QED
        BY <4>3, <4>4 DEF InstrDoes
    <3> QED
      BY <2>1, <2>2, <3>2, <3>3, <3>4 DEF LossIsKnown
  <2> QED
    BY <1>6, <2>3, <2>4
<1> QED
  BY <1>4, <1>5, <1>6 DEF Next

(* Whatever products and calls come, wherever the temporaries of other      *)
(* functions have their slots, and whatever other code leaves in the table: *)
(* a value is only lost in the ways OnlyKnownLosses names.                  *)
THEOREM LossesAreKnown == Spec => OnlyKnownLosses
<1>1. TypeOK /\ [Next]_vars => [LossIsKnown]_vars
  BY StepLosesKnown
<1> QED
  BY <1>1, TypeCorrect, PTL DEF Spec, OnlyKnownLosses

-----------------------------------------------------------------------------
(* Harmless steps.  The inductive invariant: an awaited value is only right *)
(* after an operation if the variables it reads are.                        *)
IInv == TypeOK /\ AwaitedKept /\ VariablesKept

(* In the words of the lemmas above. *)
LEMMA InvariantIs ==
  ASSUME TypeOK
  PROVE  AwaitedKept /\ VariablesKept <=> \A v \in Awaited \cup Variable : Held(v)
<1>1. IsTable(available) /\ Awaited \in SUBSET Temp
  BY DEF TypeOK, IsTable, Awaited
<1>2. \A v \in Awaited \cup Variable : Held(v) <=> mem[Access(available, v)] = v
  <2> SUFFICES ASSUME NEW v \in Awaited \cup Variable
               PROVE  Access(available, v) \notin Instant
    BY DEF Held, Read
  <2>1. v \in Own
    BY <1>1 DEF Own
  <2>2. Access(available, v) \in Register \cup Place
    BY <1>1, <2>1, AccessIs
  <2> QED
    BY <2>2, PlacesAssumption
<1>3. \A x \in Variable : Access(available, x) = SlotOf[x]
  BY <1>1, AccessIs DEF Own
<1> QED
  BY <1>2, <1>3 DEF AwaitedKept, VariablesKept

(* Harmless steps keep all that is awaited and all variables. *)
LEMMA HarmlessKeeps ==
  ASSUME IInv, HarmlessNext
  PROVE  TypeOK' /\ \A v \in (Awaited \cup Variable)' : Held(v)'
<1>1. PICK K : K = Awaited \cup Variable
  OBVIOUS
<1>2. TypeOK /\ Kept(K)
  BY <1>1, InvariantIs DEF IInv, Kept
<1>3. CASE Other
  <2>1. /\ TypeOK' /\ Awaited' \subseteq Awaited
        /\ \A v \in K : v \in Awaited' \cup Variable =>
              Held(v)' \/ (v \in Variable /\ AssignTo(v) /\ ~ Held(pending[1]))
    BY <1>2, <1>3, OtherKeeps
  <2>2. ASSUME NEW x \in Variable, AssignTo(x)
        PROVE  Held(pending[1])
    <3>1. pending \in Seq(Operand) /\ Len(pending) = 1
      BY <1>2, <2>2 DEF TypeOK, AssignTo, Waiting
    <3>2. pending[1] \in Operand /\ 1 \in 1 .. Len(pending)
      <4>1. PICK p : p = pending
        OBVIOUS
      <4>2. p \in Seq(Operand) /\ 1 \in 1 .. Len(p)
        BY <3>1, <4>1
      <4>3. \A O : \A q \in Seq(O) : \A k \in 1 .. Len(q) : q[k] \in O
        OBVIOUS
      <4>4. p[1] \in Operand
        BY ONLY <4>2, <4>3
      <4> QED
        BY ONLY <4>1, <4>2, <4>4
    <3>3. CASE pending[1] \in Instant
      BY <3>3, AccessLiteral DEF Held, Read
    <3>4. CASE pending[1] \notin Instant
      <4>1. pending[1] \in K
        BY <1>1, <3>2, <3>4 DEF Operand, Awaited
      <4> QED
        BY <1>2, <4>1 DEF Kept
    <3> QED
      BY <3>3, <3>4
  <2>3. ASSUME NEW v \in Awaited' \cup Variable
        PROVE  Held(v)'
    BY <1>1, <2>1, <2>2
  <2> QED
    BY <2>1, <2>3
<1>4. ASSUME NEW t \in Fresh, InstrDoes(K, t)
      PROVE  TypeOK' /\ \A v \in (Awaited \cup Variable)' : Held(v)'
  <2>1. /\ pending[Waiting - 1] \in K \cup Instant
        /\ pending[Waiting] \in K \cup Instant
    <3>1. /\ IsInstr(Takes("CMP", t)) /\ Takes("CMP", t).left = pending[Waiting - 1]
          /\ Takes("CMP", t).right = pending[Waiting]
      BY <1>4, TakesIsInstr DEF InstrDoes
    <3> QED
      BY <1>1, <1>2, <3>1, Operands
  <2>2. Held(t)'
    BY <1>4, <2>1 DEF InstrDoes
  <2> QED
    BY <1>1, <1>4, <2>2 DEF InstrDoes
<1>5. ASSUME NEW t \in Fresh, Operation(t)
      PROVE  InstrDoes(K, t)
  BY <1>2, <1>5, OperationKeeps
<1>6. ASSUME NEW t \in Fresh, HarmlessProduct, Products(t)
      PROVE  InstrDoes(K, t)
  <2>1. \A r \in Spoilt : Clear(available, K, r)
    BY <1>1, <1>6 DEF HarmlessProduct, Exposed, Clear
  <2>2. ASSUME NEW u \in K, u # pending[Waiting - 1]
        PROVE  Access(available, u) \notin Spoilt
    <3>1. CASE u \in Variable
      <4>1. IsTable(available) /\ u \in Own
        BY <1>2, <3>1 DEF TypeOK, IsTable, Own
      <4>2. Access(available, u) \in Place
        BY <3>1, <4>1, AccessIs
      <4> QED
        BY <4>2, PlacesAssumption DEF Spoilt, Register
    <3>2. CASE u \in Awaited
      <4>1. PICK k \in 1 .. Len(pending) : pending[k] = u
        BY <3>2 DEF Awaited
      <4>2. Len(pending) \in Nat /\ Waiting = Len(pending) /\ Waiting >= 2 /\ k # Waiting - 1
        BY <1>2, <1>6, <2>2, <4>1 DEF TypeOK, Waiting, HarmlessProduct
      <4>3. CASE k \in 1 .. Waiting - 2
        BY <1>6, <4>1, <4>3 DEF HarmlessProduct
      <4>4. CASE k = Waiting
        <5>1. Access(available, u) # "DX" /\ u \in Temp
          BY <1>6, <3>2, <4>1, <4>4 DEF HarmlessProduct, Awaited
        <5>2. u \notin Instant
          BY <5>1, PlacesAssumption
        <5> QED
          BY <4>1, <4>4, <5>1, <5>2 DEF Spoilt
      <4> QED
        BY <4>2, <4>3, <4>4
    <3> QED
      BY <1>1, <3>1, <3>2
  <2> QED
    BY <1>2, <1>6, <2>1, <2>2, ProductsKeep
<1>7. ASSUME NEW t \in Fresh, HarmlessCall, Calls(t)
      PROVE  TypeOK' /\ \A v \in (Awaited \cup Variable)' : Held(v)'
  <2>1. \A r \in Register : Clear(available, K, r)
    BY <1>1, <1>7 DEF HarmlessCall, Exposed, Clear
  <2>2. /\ TypeOK' /\ Awaited' \subseteq Awaited \cup {t}
        /\ \A v \in K : v \in Awaited' \cup Variable => Held(v)'
        /\ Held(t)'
    BY <1>2, <1>7, <2>1, CallsKeep
  <2> QED
    BY <1>1, <2>2
<1> QED
  BY <1>3, <1>4, <1>5, <1>6, <1>7 DEF HarmlessNext

(* Types, awaited values and variables are kept by every sequence of        *)
(* harmless steps, of any instance.                                         *)
THEOREM Invariance == HarmlessSpec => []IInv
<1>1. Init => IInv
  BY InitTyped, InvariantIs DEF IInv
<1>2. ASSUME IInv, [HarmlessNext]_vars
      PROVE  IInv'
  <2>1. CASE UNCHANGED vars
    BY <1>2, <2>1 DEF vars, IInv, TypeOK, AwaitedKept, VariablesKept, Waiting, Awaited
  <2>2. CASE HarmlessNext
    <3>1. TypeOK' /\ \A v \in (Awaited \cup Variable)' : Held(v)'
      BY <1>2, <2>2, HarmlessKeeps
    <3>2. (TypeOK => (AwaitedKept /\ VariablesKept <=> \A v \in Awaited \cup Variable : Held(v)))'
      BY InvariantIs, PTL
    <3> QED
      BY <3>1, <3>2 DEF IInv
  <2> QED
    BY <1>2, <2>1, <2>2
<1> QED
  BY <1>1, <1>2, PTL DEF HarmlessSpec

(* As long as no product spoils a register that is needed and no leftover   *)
(* of another function is saved over a slot that is needed, every awaited   *)
(* value is where get_access_name says, however many wait and registers run *)
(* out.                                                                     *)
THEOREM AwaitedStaysKept == HarmlessSpec => []AwaitedKept
BY Invariance, PTL DEF IInv

=============================================================================
