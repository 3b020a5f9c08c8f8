-------------------------- MODULE CallFrames_proofs --------------------------
(***************************************************************************)
(* Proofs about CallFrames.  When every parameter is a word, for every      *)
(* program of functions, every frame and every order of calls:  each        *)
(* variable of each active call keeps its value until it is assigned again, *)
(* a body always runs right above its own frame, and RET always finds the   *)
(* address CALL pushed.                                                     *)
(*                                                                         *)
(* None of these is inductive: what a return leaves is the caller's frame   *)
(* only if the words above it are still the ones the call pushed, and those *)
(* are intact only if no frame reaches into another.  IInv says where every *)
(* frame starts and ends, what the words between two frames hold, and,      *)
(* while a call is under way, how much of it has been built.                *)
(***************************************************************************)
EXTENDS CallFrames, SequenceTheorems, WellFoundedInduction, TLAPS

-----------------------------------------------------------------------------
(* What the proofs compare: addresses that climb from frame to frame, the   *)
(* bytes of one slot in its frame, and words counted from either end.       *)
LEMMA Climbs ==
  ASSUME NEW x \in Int, NEW y \in Int, NEW z \in Int, NEW w \in Int,
         x + 4 <= y, y <= z, z <= w
  PROVE  x + 4 <= w /\ x <= w
OBVIOUS

LEMMA WithinFrame ==
  ASSUME NEW base \in Int, NEW x \in Int, NEW R \in Nat, NEW size \in {1, 2},
         -R <= x, x + size <= 0
  PROVE  base + x \in Int /\ base - R <= base + x /\ base + x + size <= base
OBVIOUS

LEMMA Shifted ==
  ASSUME NEW base \in Int, NEW x \in Int, NEW y \in Int, NEW size \in {1, 2}, x + size <= y
  PROVE  base + x + size <= base + y
OBVIOUS

LEMMA FromTheOtherEnd ==
  ASSUME NEW n \in Nat, NEW i \in 1 .. n, NEW x \in Int
  PROVE  /\ n + 1 - i \in 1 .. n /\ n + 1 - (n + 1 - i) = i
         /\ x - 2 * (n + 1 - i) = x - 2 * n - 2 + 2 * i
OBVIOUS

LEMMA AtLeastTwo == ASSUME NEW n \in Nat, n >= 2 PROVE 1 \in 1 .. n /\ n # 1
OBVIOUS

LEMMA AboveOne == ASSUME NEW n \in Nat, n >= 1, 1 # n PROVE n >= 2
OBVIOUS

-----------------------------------------------------------------------------
(* The frame of a function, slot by slot.                                   *)

Slot == [size : Size, offset : Int]
FrameType == [slots : Seq(Slot), pos : Nat, params : {0}, open : {TRUE}]

(* The first k variables have their slots: each has its size, lies below    *)
(* those before it and within pos bytes below BP; as long as all of them    *)
(* are words there is no gap.                                               *)
GoodFrame(f, sizes, k) ==
  /\ f \in FrameType
  /\ Len(f.slots) = k
  /\ \A i \in 1 .. k : f.slots[i].size = sizes[i]
  /\ \A i, j \in 1 .. k : i < j => f.slots[j].offset + sizes[j] <= f.slots[i].offset
  /\ \A i \in 1 .. k : -f.pos <= f.slots[i].offset /\ f.slots[i].offset + sizes[i] <= 0
  /\ \A n \in 1 .. k : (\A i \in 1 .. n : sizes[i] = 2) => f.slots[n].offset = -2 * n
  /\ (\A i \in 1 .. k : sizes[i] = 2) => f.pos = 2 * k

(* The rounding never goes back into the bytes in use, and leaves an even   *)
(* position alone when a word comes next.                                   *)
LEMMA AlignedUp ==
  ASSUME NEW pos \in Nat, NEW size \in Size
  PROVE  /\ Aligned(pos, size) \in Nat
         /\ Aligned(pos, size) >= pos
         /\ \A k \in Nat : size = 2 /\ pos = 2 * k => Aligned(pos, size) = 2 * k
<1>1. CASE size = 1
  <2>1. Aligned(pos, size) = ((pos + 1 - 1) \div 1) * 1
    BY <1>1 DEF Aligned, AlignOf
  <2> QED BY <2>1, <1>1
<1>2. CASE size = 2
  <2>1. Aligned(pos, size) = ((pos + 2 - 1) \div 2) * 2
    BY <1>2 DEF Aligned, AlignOf
  <2> QED BY <2>1, <1>2
<1> QED BY <1>1, <1>2 DEF Size

(* What one more slot changes in a frame. *)
LEMMA WithSlotIs ==
  ASSUME NEW f \in FrameType, NEW size \in Size
  PROVE  LET A == Aligned(f.pos, size)
             g == WithSlot(f, size)
         IN /\ g \in FrameType
            /\ g.slots = Append(f.slots, [size |-> size, offset |-> -(A + size)])
            /\ g.pos = A + size
            /\ f.slots \in Seq(Slot) /\ f.pos \in Nat
            /\ [size |-> size, offset |-> -(A + size)] \in Slot
<1> DEFINE A == Aligned(f.pos, size)
           s == [size |-> size, offset |-> -(A + size)]
           g == WithSlot(f, size)
<1>1. f.slots \in Seq(Slot) /\ f.pos \in Nat
  BY DEF FrameType
<1>2. A \in Nat /\ size \in Nat
  <2>1. A \in Nat
    BY <1>1, AlignedUp
  <2>2. size \in Nat
    BY DEF Size
  <2> QED BY <2>1, <2>2
<1>3. g = [f EXCEPT !.slots = Append(f.slots, s), !.pos = A + size]
  BY DEF WithSlot
<1> HIDE DEF A, g
<1>4. s \in Slot
  BY <1>2 DEF Slot
<1>5. Append(f.slots, s) \in Seq(Slot) /\ A + size \in Nat
  BY <1>1, <1>2, <1>4
<1> HIDE DEF s
<1>6. g = [slots |-> Append(f.slots, s), pos |-> A + size, params |-> f.params, open |-> f.open]
  BY <1>3 DEF FrameType
<1>7. g \in FrameType /\ g.slots = Append(f.slots, s) /\ g.pos = A + size
  BY <1>5, <1>6 DEF FrameType
<1> QED BY <1>1, <1>4, <1>7 DEF A, g, s

(* One more slot keeps a frame good.                                        *)
LEMMA WithSlotGood ==
  ASSUME NEW sizes \in Seq(Size), NEW k \in Nat, k < Len(sizes),
         NEW f, GoodFrame(f, sizes, k)
  PROVE  GoodFrame(WithSlot(f, sizes[k + 1]), sizes, k + 1)
<1> DEFINE size == sizes[k + 1]
           A    == Aligned(f.pos, size)
           s    == [size |-> size, offset |-> -(A + size)]
           g    == WithSlot(f, size)
<1>1. size \in Size /\ f \in FrameType
  BY DEF GoodFrame
<1>2. /\ g \in FrameType /\ g.slots = Append(f.slots, s) /\ g.pos = A + size
      /\ f.slots \in Seq(Slot) /\ f.pos \in Nat /\ s \in Slot
  BY <1>1, WithSlotIs
<1>3. /\ A \in Nat /\ A >= f.pos
      /\ \A n \in Nat : size = 2 /\ f.pos = 2 * n => A = 2 * n
  BY <1>1, <1>2, AlignedUp
<1>4. s.size = size /\ s.offset = -(A + size)
  OBVIOUS
<1>5. \A i \in 1 .. k + 1 : sizes[i] \in {1, 2}
  BY DEF Size
<1> HIDE DEF A, s, g
<1>6. /\ Len(g.slots) = k + 1
      /\ g.slots[k + 1] = s
      /\ \A i \in 1 .. k : g.slots[i] = f.slots[i] /\ f.slots[i].offset \in Int
  <2>1. Len(f.slots) = k /\ \A i \in 1 .. k : f.slots[i] \in Slot
    BY <1>2 DEF GoodFrame
  <2> QED BY <2>1, <1>2 DEF Slot
<1>7. \A i \in 1 .. k + 1 : g.slots[i].size = sizes[i]
  <2>1. \A i \in 1 .. k : g.slots[i].size = sizes[i]
    BY <1>6 DEF GoodFrame
  <2>2. g.slots[k + 1].size = sizes[k + 1]
    BY <1>4, <1>6
  <2> QED BY <2>1, <2>2
<1>8. ASSUME NEW i \in 1 .. k + 1, NEW j \in 1 .. k + 1, i < j
      PROVE  g.slots[j].offset + sizes[j] <= g.slots[i].offset
  <2>1. i \in 1 .. k
    BY <1>8
  <2>2. CASE j \in 1 .. k
    BY <2>1, <2>2, <1>8, <1>6 DEF GoodFrame
  <2>3. CASE j = k + 1
    <3>1. -f.pos <= f.slots[i].offset /\ f.slots[i].offset \in Int
      BY <2>1, <1>6 DEF GoodFrame
    <3>2. g.slots[i] = f.slots[i] /\ g.slots[j] = s /\ sizes[j] = size
      BY <2>1, <2>3, <1>6
    <3>3. size \in Int
      BY <1>5
    <3> HIDE DEF size
    <3>4. s.offset + size = -A
      BY <3>3, <1>3, <1>4
    <3>5. -A <= -f.pos /\ -A \in Int /\ -f.pos \in Int
      BY <1>2, <1>3
    <3>6. g.slots[j].offset + sizes[j] = -A
      BY <3>2, <3>4
    <3> QED BY <3>1, <3>2, <3>5, <3>6
  <2> QED BY <2>2, <2>3
<1>9. ASSUME NEW i \in 1 .. k + 1
      PROVE  -g.pos <= g.slots[i].offset /\ g.slots[i].offset + sizes[i] <= 0
  <2>1. CASE i \in 1 .. k
    <3>1. /\ -f.pos <= f.slots[i].offset /\ f.slots[i].offset + sizes[i] <= 0
          /\ g.slots[i] = f.slots[i] /\ f.slots[i].offset \in Int
      BY <2>1, <1>6 DEF GoodFrame
    <3>2. size \in Int /\ size > 0
      BY <1>5
    <3> HIDE DEF size
    <3>3. -g.pos <= -f.pos /\ g.pos \in Int
      BY <3>2, <1>2, <1>3
    <3> QED BY <3>1, <3>3, <1>2
  <2>2. CASE i = k + 1
    <3>1. g.slots[i] = s /\ sizes[i] = size /\ size \in Int
      BY <2>2, <1>5, <1>6
    <3> HIDE DEF size
    <3> QED BY <3>1, <1>2, <1>3, <1>4
  <2> QED BY <2>1, <2>2
<1>10. ASSUME NEW n \in 1 .. k + 1, \A i \in 1 .. n : sizes[i] = 2
       PROVE  g.slots[n].offset = -2 * n /\ (n = k + 1 => g.pos = 2 * (k + 1))
  <2>1. CASE n \in 1 .. k
    <3>1. g.slots[n] = f.slots[n]
      BY <2>1, <1>6
    <3>2. f.slots[n].offset = -2 * n
      BY <2>1, <1>10 DEF GoodFrame
    <3> QED BY <3>1, <3>2, <2>1
  <2>2. CASE n = k + 1
    <3>1. f.pos = 2 * k /\ size = 2
      BY <2>2, <1>10 DEF GoodFrame
    <3>2. A = 2 * k
      BY <3>1, <1>3
    <3>3. g.slots[n] = s
      BY <2>2, <1>6
    <3> HIDE DEF size
    <3> QED BY <3>1, <3>2, <3>3, <2>2, <1>2, <1>4
  <2> QED BY <2>1, <2>2
<1>11. GoodFrame(g, sizes, k + 1)
  BY <1>2, <1>6, <1>7, <1>8, <1>9, <1>10 DEF GoodFrame
<1> QED BY <1>11 DEF g

LEMMA Smallest ==
  ASSUME NEW J, J \subseteq Nat, J # {}
  PROVE  \E j \in J : \A i \in J : j <= i
<1>1. PICK j \in J : \A u \in J : ~ (<<u, j>> \in OpToRel(<, Nat))
  BY NatLessThanWellFounded, WFMin
<1>2. ASSUME NEW i \in J PROVE j <= i
  <2>1. i \in Nat /\ j \in Nat /\ ~ (i < j)
    BY <1>1 DEF OpToRel
  <2> QED BY <2>1
<1> QED BY <1>2

(* The frames Laid goes through: the recursion defines them, and each is    *)
(* good.  The least length for which that fails would be one more than a    *)
(* length for which it does not.                                            *)
FramesOf(sizes) ==
  CHOOSE frame : frame = [k \in 0 .. Len(sizes) |->
                            IF k = 0 THEN EmptyFrame ELSE WithSlot(frame[k - 1], sizes[k])]

Steps(g, sizes, n) ==
  /\ g = [k \in 0 .. n |-> IF k = 0 THEN EmptyFrame ELSE WithSlot(g[k - 1], sizes[k])]
  /\ \A k \in 0 .. n : GoodFrame(g[k], sizes, k)

LEMMA StepsExist ==
  ASSUME NEW sizes \in Seq(Size)
  PROVE  \E g : Steps(g, sizes, Len(sizes))
<1> DEFINE Bad == {n \in 0 .. Len(sizes) : ~ \E g : Steps(g, sizes, n)}
<1>0. Len(sizes) \in Nat /\ Bad \subseteq Nat
  OBVIOUS
<1>1. SUFFICES ASSUME Bad # {} PROVE FALSE
  <2>1. Len(sizes) \notin Bad => \E g : Steps(g, sizes, Len(sizes))
    BY <1>0
  <2> QED BY <2>1
<1>2. PICK n \in Bad : \A i \in Bad : n <= i
  <2> HIDE DEF Bad
  <2> QED BY <1>0, <1>1, Smallest
<1>3. n \in 0 .. Len(sizes) /\ ~ \E g : Steps(g, sizes, n)
  OBVIOUS
<1>4. CASE n = 0
  <2> DEFINE g == [k \in 0 .. 0 |-> EmptyFrame]
  <2>1. g = [k \in 0 .. 0 |-> IF k = 0 THEN EmptyFrame ELSE WithSlot(g[k - 1], sizes[k])]
    OBVIOUS
  <2>2. GoodFrame(EmptyFrame, sizes, 0)
    BY DEF GoodFrame, EmptyFrame, FrameType, Slot
  <2>3. \A k \in 0 .. 0 : GoodFrame(g[k], sizes, k)
    BY <2>2
  <2> HIDE DEF g
  <2>4. Steps(g, sizes, 0)
    BY <2>1, <2>3 DEF Steps
  <2> QED BY <2>4, <1>3, <1>4
<1>5. CASE n > 0
  <2>1. n - 1 \in 0 .. Len(sizes) /\ n - 1 \notin Bad
    BY <1>2, <1>5
  <2>2. PICK g : Steps(g, sizes, n - 1)
    BY <2>1
  <2> DEFINE h == [k \in 0 .. n |-> IF k = n THEN WithSlot(g[n - 1], sizes[n]) ELSE g[k]]
  <2>3. \A k \in 0 .. n - 1 : h[k] = g[k] /\ GoodFrame(g[k], sizes, k)
    BY <2>2 DEF Steps
  <2>4. h[n] = WithSlot(g[n - 1], sizes[n])
    BY <1>2
  <2>5. GoodFrame(h[n], sizes, n)
    <3> HIDE DEF h, Bad
    <3>1. n - 1 \in Nat /\ n - 1 < Len(sizes) /\ (n - 1) + 1 = n /\ n - 1 \in 0 .. n - 1
      BY <2>1, <1>0, <1>3, <1>5
    <3>2. GoodFrame(g[n - 1], sizes, n - 1)
      BY <3>1, <2>3
    <3>3. GoodFrame(WithSlot(g[n - 1], sizes[(n - 1) + 1]), sizes, (n - 1) + 1)
      BY <3>1, <3>2, WithSlotGood
    <3> QED BY <3>1, <3>3, <2>4
  <2>6. ASSUME NEW k \in 0 .. n
        PROVE  h[k] = IF k = 0 THEN EmptyFrame ELSE WithSlot(h[k - 1], sizes[k])
    <3>1. CASE k = n
      BY <3>1, <2>3, <2>4, <1>2, <1>5
    <3>2. CASE k \in 0 .. n - 1
      <4>1. g[k] = IF k = 0 THEN EmptyFrame ELSE WithSlot(g[k - 1], sizes[k])
        BY <2>2, <3>2 DEF Steps
      <4>2. k # 0 => k - 1 \in 0 .. n - 1
        BY <3>2
      <4> QED BY <4>1, <4>2, <2>3, <3>2
    <3> QED BY <3>1, <3>2, <1>2
  <2>7. h = [k \in 0 .. n |-> IF k = 0 THEN EmptyFrame ELSE WithSlot(h[k - 1], sizes[k])]
    <3> DEFINE h2 == [k \in 0 .. n |-> IF k = 0 THEN EmptyFrame ELSE WithSlot(h[k - 1], sizes[k])]
    <3>1. \A k \in 0 .. n : h[k] = h2[k]
      BY <2>6
    <3> QED BY <3>1
  <2> HIDE DEF h
  <2>8. ASSUME NEW k \in 0 .. n PROVE GoodFrame(h[k], sizes, k)
    <3>1. k = n \/ k \in 0 .. n - 1
      BY <1>3
    <3> QED BY <3>1, <2>3, <2>5
  <2> QED BY <2>7, <2>8, <1>2 DEF Steps
<1> QED BY <1>2, <1>4, <1>5

(* The frame of a list of variables is good.                                *)
LEMMA LaidGood ==
  ASSUME NEW sizes \in Seq(Size)
  PROVE  GoodFrame(Laid(sizes), sizes, Len(sizes))
<1> DEFINE F == FramesOf(sizes)
<1>1. PICK g : Steps(g, sizes, Len(sizes))
  BY StepsExist
<1>2. F = [k \in 0 .. Len(sizes) |-> IF k = 0 THEN EmptyFrame ELSE WithSlot(F[k - 1], sizes[k])]
  <2>1. g = [k \in 0 .. Len(sizes) |-> IF k = 0 THEN EmptyFrame ELSE WithSlot(g[k - 1], sizes[k])]
    BY <1>1 DEF Steps
  <2> QED BY <2>1, Zenon DEF FramesOf
<1>3. Laid(sizes) = F[Len(sizes)]
  BY Zenon DEF Laid, FramesOf
<1> HIDE DEF F
<1> DEFINE Bad == {k \in 0 .. Len(sizes) : ~ GoodFrame(F[k], sizes, k)}
<1>4. Bad = {}
  <2> SUFFICES ASSUME Bad # {} PROVE FALSE
    OBVIOUS
  <2>1. PICK k \in Bad : \A i \in Bad : k <= i
    <3>1. Bad \subseteq Nat
      OBVIOUS
    <3> HIDE DEF Bad
    <3> QED BY <3>1, Smallest
  <2>2. CASE k = 0
    BY <2>1, <2>2, <1>1, <1>2 DEF Steps
  <2>3. CASE k > 0
    <3>1. k - 1 \in 0 .. Len(sizes) /\ k - 1 \notin Bad /\ (k - 1) + 1 = k
      BY <2>1, <2>3
    <3>2. F[k] = WithSlot(F[k - 1], sizes[k])
      <4>1. k \in 0 .. Len(sizes) /\ k # 0
        BY <2>3
      <4> HIDE DEF Bad
      <4> QED BY <4>1, <1>2
    <3>3. GoodFrame(F[k - 1], sizes, k - 1) /\ k - 1 \in Nat /\ k - 1 < Len(sizes)
      BY <3>1, <2>1
    <3> QED BY <3>1, <3>2, <3>3, <2>1, WithSlotGood
  <2> QED BY <2>1, <2>2, <2>3
<1> QED BY <1>3, <1>4

-----------------------------------------------------------------------------
(* Every parameter is a word: the functions the theorems are about.         *)
WordParameters == \A f \in Fun : \A i \in DOMAIN Params[f] : Params[f][i] = 2

Functions == Fun \cup {Main}

(* Two lists, one after the other. *)
LEMMA Joined ==
  ASSUME NEW S, NEW p \in Seq(S), NEW q \in Seq(S)
  PROVE  /\ p \o q \in Seq(S) /\ Len(p \o q) = Len(p) + Len(q)
         /\ Len(p) \in Nat /\ Len(q) \in Nat /\ Len(p \o q) \in Nat
         /\ DOMAIN p = 1 .. Len(p)
         /\ \A i \in 1 .. Len(p) : (p \o q)[i] = p[i]
         /\ \A i \in 1 .. Len(q) : (p \o q)[Len(p) + i] = q[i]
OBVIOUS

(* What the proofs use of a function's frame. *)
LEMMA FrameFacts ==
  ASSUME NEW f \in Functions
  PROVE  /\ Reserved(f) \in Nat
         /\ Unreserved(f) = Reserved(f)
         /\ Slots(f) \in Seq(Slot)
         /\ DOMAIN Slots(f) = 1 .. Len(Params[f]) + Len(Locals[f])
         /\ Len(Params[f]) \in Nat
         /\ \A j \in DOMAIN Slots(f) :
              /\ Slots(f)[j].offset \in Int /\ Slots(f)[j].size \in {1, 2}
              /\ -Reserved(f) <= Slots(f)[j].offset
              /\ Slots(f)[j].offset + Slots(f)[j].size <= 0
         /\ \A i, j \in DOMAIN Slots(f) : i < j =>
              Slots(f)[j].offset + Slots(f)[j].size <= Slots(f)[i].offset
<1> DEFINE sizes == Params[f] \o Locals[f]
           L     == Laid(sizes)
<1>1. Params[f] \in Seq(Size) /\ Locals[f] \in Seq(Size)
  BY FunAssumption DEF Functions
<1>2. /\ sizes \in Seq(Size) /\ Len(sizes) = Len(Params[f]) + Len(Locals[f])
      /\ Len(Params[f]) \in Nat /\ Len(sizes) \in Nat
  <2>1. sizes \in Seq(Size) /\ Len(sizes) = Len(Params[f]) + Len(Locals[f])
    BY <1>1, Joined
  <2>2. Len(Params[f]) \in Nat /\ Len(sizes) \in Nat
    BY <1>1, Joined
  <2> QED BY <2>1, <2>2
<1>3. GoodFrame(L, sizes, Len(sizes))
  BY <1>2, LaidGood
<1>4. FrameOf[f] = L
  BY DEF FrameOf, Functions
<1> HIDE DEF L, sizes
<1>5. L \in FrameType
  BY <1>3 DEF GoodFrame
<1>6. L.pos \in Nat /\ L.slots \in Seq(Slot) /\ Len(L.slots) = Len(sizes)
  BY <1>3, <1>5 DEF FrameType, GoodFrame
<1>7. Reserved(f) = 2 * L.pos /\ Unreserved(f) = 2 * L.pos /\ Slots(f) = L.slots
  BY <1>4 DEF Reserved, Unreserved, Slots
<1>8. DOMAIN L.slots = 1 .. Len(sizes)
  BY <1>6
<1>9. ASSUME NEW j \in 1 .. Len(sizes)
      PROVE  /\ L.slots[j].offset \in Int /\ L.slots[j].size \in {1, 2}
             /\ L.slots[j].size = sizes[j]
             /\ -(2 * L.pos) <= L.slots[j].offset
             /\ L.slots[j].offset + L.slots[j].size <= 0
  <2>1. L.slots[j] \in Slot
    BY <1>6
  <2>2. L.slots[j].offset \in Int /\ L.slots[j].size \in {1, 2}
    BY <2>1 DEF Slot, Size
  <2>3. /\ L.slots[j].size = sizes[j]
        /\ -L.pos <= L.slots[j].offset /\ L.slots[j].offset + sizes[j] <= 0
    BY <1>3 DEF GoodFrame
  <2> QED BY <2>2, <2>3, <1>6
<1>10. \A i, j \in 1 .. Len(sizes) : i < j =>
         L.slots[j].offset + L.slots[j].size <= L.slots[i].offset
  BY <1>3, <1>9 DEF GoodFrame
<1>11. Reserved(f) \in Nat /\ Unreserved(f) = Reserved(f) /\ Reserved(f) = 2 * L.pos
  BY <1>6, <1>7
<1>12. Slots(f) \in Seq(Slot) /\ DOMAIN Slots(f) = 1 .. Len(sizes)
  BY <1>6, <1>7, <1>8
<1>13. \A j \in DOMAIN Slots(f) :
         /\ Slots(f)[j].offset \in Int /\ Slots(f)[j].size \in {1, 2}
         /\ -Reserved(f) <= Slots(f)[j].offset
         /\ Slots(f)[j].offset + Slots(f)[j].size <= 0
  BY <1>7, <1>9, <1>11, <1>12
<1>14. \A i, j \in DOMAIN Slots(f) : i < j =>
         Slots(f)[j].offset + Slots(f)[j].size <= Slots(f)[i].offset
  BY <1>7, <1>10, <1>12
<1>15. Len(Params[f]) \in Nat /\ Len(sizes) = Len(Params[f]) + Len(Locals[f])
  BY <1>2
<1> QED BY <1>11, <1>12, <1>13, <1>14, <1>15

(* Word parameters fill their part of the frame from BP downwards without a *)
(* gap, and are popped exactly.                                             *)
LEMMA ParameterFacts ==
  ASSUME WordParameters, NEW f \in Fun
  PROVE  /\ Popped(f) = 2 * Len(Params[f])
         /\ DOMAIN Params[f] = 1 .. Len(Params[f])
         /\ \A j \in 1 .. Len(Params[f]) :
              /\ j \in DOMAIN Slots(f)
              /\ Slots(f)[j].offset = -2 * j /\ Slots(f)[j].size = 2
<1> DEFINE n     == Len(Params[f])
           sizes == Params[f] \o Locals[f]
           L     == Laid(sizes)
           P     == Laid(Params[f])
<1>1. Params[f] \in Seq(Size) /\ Locals[f] \in Seq(Size) /\ f \in Functions
  BY FunAssumption DEF Functions
<1>2. /\ sizes \in Seq(Size) /\ Len(sizes) = n + Len(Locals[f])
      /\ n \in Nat /\ Len(Locals[f]) \in Nat
      /\ \A i \in 1 .. n : sizes[i] = Params[f][i]
      /\ DOMAIN Params[f] = 1 .. n
  <2>1. sizes \in Seq(Size) /\ Len(sizes) = n + Len(Locals[f])
    BY <1>1, Joined
  <2>2. n \in Nat /\ Len(Locals[f]) \in Nat
    BY <1>1, Joined
  <2>3. \A i \in 1 .. n : sizes[i] = Params[f][i]
    BY <1>1, Joined
  <2>4. DOMAIN Params[f] = 1 .. n
    BY <1>1, Joined
  <2> QED BY <2>1, <2>2, <2>3, <2>4
<1>3. \A i \in 1 .. n : Params[f][i] = 2 /\ sizes[i] = 2
  BY <1>2 DEF WordParameters
<1>4. GoodFrame(L, sizes, Len(sizes)) /\ GoodFrame(P, Params[f], n)
  BY <1>1, <1>2, LaidGood
<1>5. FrameOf[f] = L /\ ParamSpace[f] = P.pos
  BY DEF FrameOf, ParamSpace
<1> HIDE DEF n, sizes, L, P
<1>6. P.pos = 2 * n
  BY <1>3, <1>4 DEF GoodFrame
<1>7. ASSUME NEW j \in 1 .. n
      PROVE  L.slots[j].offset = -2 * j /\ L.slots[j].size = 2 /\ j \in 1 .. Len(sizes)
  <2>1. j \in 1 .. Len(sizes) /\ \A i \in 1 .. j : sizes[i] = 2
    BY <1>2, <1>3
  <2>2. L.slots[j].offset = -2 * j /\ L.slots[j].size = sizes[j]
    BY <2>1, <1>4 DEF GoodFrame
  <2> QED BY <2>1, <2>2, <1>3
<1>8. Slots(f) = L.slots /\ Popped(f) = P.pos
  BY <1>5 DEF Slots, Popped
<1>9. DOMAIN Slots(f) = 1 .. Len(sizes)
  BY <1>1, <1>2, FrameFacts DEF n
<1> QED BY <1>2, <1>6, <1>7, <1>8, <1>9 DEF n

-----------------------------------------------------------------------------
(* Memory: what stores, pushes and releases leave alone, and what they put. *)

(* Bytes that did not change hold what they held. *)
LEMMA HoldsSame ==
  ASSUME NEW m, NEW n, NEW a \in Int, NEW v, NEW size \in {1, 2}, Holds(m, a, v, size),
         \A b \in a .. a + size - 1 : n[b] = m[b]
  PROVE  Holds(n, a, v, size)
<1> SUFFICES ASSUME NEW i \in 0 .. size - 1 PROVE n[a + i] = Byte(v, i)
  BY DEF Holds
<1>1. a + i \in a .. a + size - 1
  OBVIOUS
<1> QED BY <1>1 DEF Holds

(* A store puts the value there. *)
LEMMA StoredHolds ==
  ASSUME NEW m, NEW a \in Int, NEW v, NEW size \in {1, 2},
         a .. a + size - 1 \subseteq DOMAIN m
  PROVE  Holds(Stored(m, a, v, size), a, v, size)
<1> SUFFICES ASSUME NEW i \in 0 .. size - 1
             PROVE  Stored(m, a, v, size)[a + i] = Byte(v, i)
  BY DEF Holds
<1>1. a + i \in a .. a + size - 1 /\ a + i - a = i
  OBVIOUS
<1>2. a + i \in DOMAIN m
  BY <1>1
<1> QED BY <1>1, <1>2 DEF Stored

LEMMA StoredElsewhere ==
  ASSUME NEW m, NEW a \in Int, NEW v, NEW size \in {1, 2}
  PROVE  /\ DOMAIN Stored(m, a, v, size) = DOMAIN m
         /\ \A b \in DOMAIN m : b \notin a .. a + size - 1 => Stored(m, a, v, size)[b] = m[b]
BY DEF Stored

(* A word that was stored is what a read of it gives. *)
LEMMA WordRead ==
  ASSUME NEW m, NEW a \in Int, NEW v, Holds(m, a, v, 2)
  PROVE  WordAt(m, a) = v
<1>1. m[a + 0] = Byte(v, 0) /\ a + 0 = a
  BY DEF Holds
<1>2. m[a].value = v
  BY <1>1 DEF Byte
<1> QED BY <1>2 DEF WordAt

(* Each pushed word is at its place below SP, and nothing else changed. *)
LEMMA PushedHolds ==
  ASSUME NEW m, NEW sp \in Int, NEW words, Len(words) \in Nat,
         sp - 2 * Len(words) .. sp - 1 \subseteq DOMAIN m
  PROVE  /\ DOMAIN Pushed(m, sp, words) = DOMAIN m
         /\ \A k \in 1 .. Len(words) : Holds(Pushed(m, sp, words), sp - 2 * k, words[k], 2)
         /\ \A b \in DOMAIN m :
              b \notin sp - 2 * Len(words) .. sp - 1 => Pushed(m, sp, words)[b] = m[b]
<1> DEFINE n == Len(words)
           p == Pushed(m, sp, words)
<1>1. /\ DOMAIN p = DOMAIN m
      /\ \A b \in DOMAIN m : b \notin sp - 2 * n .. sp - 1 => p[b] = m[b]
      /\ \A b \in sp - 2 * n .. sp - 1 :
           p[b] = Byte(words[(sp - b + 1) \div 2], (sp - b) % 2)
  BY DEF Pushed
<1> HIDE DEF p
<1>2. ASSUME NEW k \in 1 .. n PROVE Holds(p, sp - 2 * k, words[k], 2)
  <2>1. /\ sp - 2 * k \in sp - 2 * n .. sp - 1
        /\ sp - 2 * k + 1 \in sp - 2 * n .. sp - 1
    OBVIOUS
  <2>2. /\ (2 * k + 1) \div 2 = k /\ (2 * k - 1 + 1) \div 2 = k
        /\ (2 * k) % 2 = 0 /\ (2 * k - 1) % 2 = 1
    OBVIOUS
  <2>3. sp - (sp - 2 * k) = 2 * k /\ sp - (sp - 2 * k + 1) = 2 * k - 1
    OBVIOUS
  <2>4. p[sp - 2 * k] = Byte(words[k], 0)
    BY <2>1, <2>2, <2>3, <1>1
  <2>5. p[sp - 2 * k + 1] = Byte(words[k], 1)
    BY <2>1, <2>2, <2>3, <1>1
  <2>6. SUFFICES ASSUME NEW i \in 0 .. 1 PROVE p[sp - 2 * k + i] = Byte(words[k], i)
    BY DEF Holds
  <2>7. CASE i = 0
    BY <2>4, <2>7
  <2>8. CASE i = 1
    BY <2>5, <2>8
  <2> QED BY <2>7, <2>8
<1> QED BY <1>1, <1>2 DEF p

-----------------------------------------------------------------------------
(* The stack: one frame below the other, each with the words that lead back *)
(* to its caller above BP.                                                  *)

Variables == UNION {[D -> Val] : D \in SUBSET Nat}

Calls == {c \in [fun : Functions, args : Seq(Val), dest : Nat, base : Int,
                 holds : Variables] :
            /\ Len(c.args) = Len(Params[c.fun])
            /\ DOMAIN c.holds \subseteq DOMAIN Slots(c.fun)}

(* A frame uses the addresses from its floor to below its roof: the space   *)
(* FUNC_START reserves, the saved BP, the return address, the arguments.    *)
Floor(c) == c.base - Reserved(c.fun)
Roof(c)  == c.base + 4 + 2 * Len(Params[c.fun])

VarsHold(m, c) ==
  \A j \in DOMAIN c.holds :
    Holds(m, c.base + Slots(c.fun)[j].offset, c.holds[j], Slots(c.fun)[j].size)

(* The words between the frame of c and that of its caller d.               *)
Link(m, c, d) ==
  /\ Holds(m, c.base, SavedBP(d.base), 2)
  /\ Holds(m, c.base + 2, ReturnAddress, 2)

(* The arguments of c, as words above address a. *)
ArgsAt(m, a, c) == \A i \in 1 .. Len(c.args) : Holds(m, a + 2 * i, c.args[i], 2)

(* The calls from the first-th one on have their frames.                    *)
StackOK(m, s, first) ==
  \A k \in first .. Len(s) :
    /\ 0 <= Floor(s[k]) /\ s[k].base <= Top
    /\ VarsHold(m, s[k])
    /\ \A j \in first .. k - 1 : Roof(s[j]) <= Floor(s[k])
    /\ k < Len(s) => Roof(s[k]) = Floor(s[k + 1]) /\ Link(m, s[k], s[k + 1])

LEMMA CallFacts ==
  ASSUME NEW c \in Calls
  PROVE  /\ c.fun \in Functions /\ c.args \in Seq(Val) /\ c.dest \in Nat /\ c.base \in Int
         /\ Len(c.args) = Len(Params[c.fun]) /\ Len(c.args) \in Nat
         /\ DOMAIN c.holds \subseteq DOMAIN Slots(c.fun)
         /\ \A j \in DOMAIN c.holds : c.holds[j] \in Val
         /\ Reserved(c.fun) \in Nat /\ Floor(c) \in Int /\ Roof(c) \in Int
         /\ Floor(c) <= c.base /\ c.base + 4 <= Roof(c)
<1>1. /\ c.fun \in Functions /\ c.args \in Seq(Val) /\ c.dest \in Nat /\ c.base \in Int
      /\ c.holds \in Variables
      /\ Len(c.args) = Len(Params[c.fun])
      /\ DOMAIN c.holds \subseteq DOMAIN Slots(c.fun)
  BY DEF Calls
<1>2. \A j \in DOMAIN c.holds : c.holds[j] \in Val
  BY <1>1 DEF Variables
<1>3. Reserved(c.fun) \in Nat /\ Len(c.args) \in Nat
  BY <1>1, FrameFacts
<1>4. Floor(c) \in Int /\ Floor(c) <= c.base
  BY <1>1, <1>3 DEF Floor
<1>5. Roof(c) \in Int /\ c.base + 4 <= Roof(c)
  BY <1>1, <1>3 DEF Roof
<1> QED BY <1>1, <1>2, <1>3, <1>4, <1>5

(* A call is made with no variable set, and keeps its function, arguments   *)
(* and destination from then on.                                            *)
LEMMA CallMade ==
  ASSUME NEW f \in Functions, NEW args \in Seq(Val), Len(args) = Len(Params[f]),
         NEW dest \in Nat, NEW base \in Int
  PROVE  /\ Call(f, args, dest, base) \in Calls
         /\ Call(f, args, dest, base).fun = f /\ Call(f, args, dest, base).args = args
         /\ Call(f, args, dest, base).dest = dest /\ Call(f, args, dest, base).base = base
         /\ Call(f, args, dest, base).holds = Unset
<1> DEFINE c == Call(f, args, dest, base)
<1>1. Unset \in [{} -> Val] /\ {} \in SUBSET Nat
  BY DEF Unset
<1>2. Unset \in Variables /\ DOMAIN Unset = {}
  <2>1. Unset \in Variables
    BY <1>1 DEF Variables
  <2> QED BY <2>1 DEF Unset
<1>3. /\ c.fun = f /\ c.args = args /\ c.dest = dest /\ c.base = base /\ c.holds = Unset
      /\ c \in [fun : Functions, args : Seq(Val), dest : Nat, base : Int, holds : Variables]
  BY <1>2 DEF Call
<1> HIDE DEF c
<1>4. c \in Calls
  BY <1>2, <1>3 DEF Calls
<1> QED BY <1>3, <1>4 DEF c

(* d is call c but for variable j, which holds v.                           *)
Updated(c, d, j, v) ==
  /\ d \in Calls
  /\ d.fun = c.fun /\ d.args = c.args /\ d.dest = c.dest /\ d.base = c.base
  /\ DOMAIN d.holds = DOMAIN c.holds \cup {j}
  /\ d.holds[j] = v
  /\ \A i \in DOMAIN c.holds : i # j => d.holds[i] = c.holds[i]

(* An assignment updates a call. *)
LEMMA CallKnows ==
  ASSUME NEW c \in Calls, NEW j \in DOMAIN Slots(c.fun), NEW v \in Val
  PROVE  Updated(c, Knows(c, j, v), j, v)
<1> DEFINE d == Knows(c, j, v)
           h == [i \in DOMAIN c.holds \cup {j} |-> IF i = j THEN v ELSE c.holds[i]]
<1>1. c \in [fun : Functions, args : Seq(Val), dest : Nat, base : Int, holds : Variables]
  BY DEF Calls
<1>2. c.fun \in Functions /\ DOMAIN c.holds \subseteq DOMAIN Slots(c.fun)
      /\ Len(c.args) = Len(Params[c.fun]) /\ \A i \in DOMAIN c.holds : c.holds[i] \in Val
  BY CallFacts
<1>3. DOMAIN Slots(c.fun) \subseteq Nat
  <2>1. Slots(c.fun) \in Seq(Slot)
    BY <1>2, FrameFacts
  <2> QED BY <2>1
<1>4. /\ DOMAIN h = DOMAIN c.holds \cup {j} /\ h[j] = v
      /\ \A i \in DOMAIN c.holds : i # j => h[i] = c.holds[i]
  OBVIOUS
<1>5. h \in Variables
  <2>1. DOMAIN c.holds \cup {j} \in SUBSET Nat
    BY <1>2, <1>3
  <2>2. h \in [DOMAIN c.holds \cup {j} -> Val]
    BY <1>2
  <2> HIDE DEF h
  <2> QED BY <2>1, <2>2 DEF Variables
<1>6. d = [c EXCEPT !.holds = h]
  BY DEF Knows
<1> HIDE DEF h, d
<1>7. /\ d \in [fun : Functions, args : Seq(Val), dest : Nat, base : Int, holds : Variables]
      /\ d.fun = c.fun /\ d.args = c.args /\ d.dest = c.dest /\ d.base = c.base
      /\ d.holds = h
  BY <1>1, <1>5, <1>6
<1>8. d \in Calls
  BY <1>2, <1>4, <1>7 DEF Calls
<1>9. Updated(c, d, j, v)
  BY <1>4, <1>7, <1>8 DEF Updated
<1> QED BY <1>9 DEF d

(* FUNC_START gives a call its frame. *)
LEMMA CallBased ==
  ASSUME NEW c \in Calls, NEW b \in Int
  PROVE  LET d == [c EXCEPT !.base = b]
         IN /\ d \in Calls
            /\ d.fun = c.fun /\ d.args = c.args /\ d.dest = c.dest /\ d.holds = c.holds
            /\ d.base = b
<1> DEFINE d == [c EXCEPT !.base = b]
<1>1. c \in [fun : Functions, args : Seq(Val), dest : Nat, base : Int, holds : Variables]
  BY DEF Calls
<1>2. /\ d \in [fun : Functions, args : Seq(Val), dest : Nat, base : Int, holds : Variables]
      /\ d.fun = c.fun /\ d.args = c.args /\ d.dest = c.dest /\ d.holds = c.holds /\ d.base = b
  BY <1>1
<1> HIDE DEF d
<1>3. d \in Calls
  BY <1>2 DEF Calls
<1> QED BY <1>2, <1>3 DEF d

(* PARAMETER gives a call its arguments. *)
LEMMA CallArguments ==
  ASSUME NEW c \in Calls, DOMAIN c.args \subseteq DOMAIN Slots(c.fun)
  PROVE  LET d == [c EXCEPT !.holds = c.args]
         IN /\ d \in Calls
            /\ d.fun = c.fun /\ d.args = c.args /\ d.dest = c.dest /\ d.base = c.base
            /\ d.holds = c.args
<1> DEFINE d == [c EXCEPT !.holds = c.args]
<1>1. c \in [fun : Functions, args : Seq(Val), dest : Nat, base : Int, holds : Variables]
  BY DEF Calls
<1>2. c.args \in Variables
  <2>1. c.args \in [1 .. Len(c.args) -> Val] /\ 1 .. Len(c.args) \in SUBSET Nat
    BY <1>1
  <2> QED BY <2>1 DEF Variables
<1>3. /\ d \in [fun : Functions, args : Seq(Val), dest : Nat, base : Int, holds : Variables]
      /\ d.fun = c.fun /\ d.args = c.args /\ d.dest = c.dest /\ d.base = c.base
      /\ d.holds = c.args
  BY <1>1, <1>2
<1> HIDE DEF d
<1>4. d \in Calls
  BY <1>3 DEF Calls
<1> QED BY <1>3, <1>4 DEF d

(* Variables of a call keep their values when the bytes between its floor   *)
(* and BP stay as they are.                                                 *)
LEMMA VarsSame ==
  ASSUME NEW m, NEW n, NEW c \in Calls, VarsHold(m, c),
         \A b \in Floor(c) .. c.base - 1 : n[b] = m[b]
  PROVE  VarsHold(n, c)
<1> SUFFICES ASSUME NEW j \in DOMAIN c.holds
             PROVE  Holds(n, c.base + Slots(c.fun)[j].offset, c.holds[j], Slots(c.fun)[j].size)
  BY DEF VarsHold
<1> DEFINE off  == Slots(c.fun)[j].offset
           size == Slots(c.fun)[j].size
<1>1. /\ c.fun \in Functions /\ c.base \in Int /\ Reserved(c.fun) \in Nat
      /\ j \in DOMAIN Slots(c.fun)
  BY CallFacts
<1>2. off \in Int /\ size \in {1, 2} /\ -Reserved(c.fun) <= off /\ off + size <= 0
  BY <1>1, FrameFacts
<1>3. Holds(m, c.base + off, c.holds[j], size)
  BY DEF VarsHold
<1> HIDE DEF off, size
<1>4. ASSUME NEW b \in c.base + off .. c.base + off + size - 1
      PROVE  n[b] = m[b]
  <2>1. b \in Floor(c) .. c.base - 1
    BY <1>1, <1>2 DEF Floor
  <2> QED BY <2>1
<1>5. c.base + off \in Int
  BY <1>1, <1>2
<1>6. Holds(n, c.base + off, c.holds[j], size)
  BY <1>2, <1>3, <1>4, <1>5, HoldsSame
<1> QED BY <1>6 DEF off, size

(* The words above BP stay when their bytes do. *)
LEMMA LinkSame ==
  ASSUME NEW m, NEW n, NEW c \in Calls, NEW d, Link(m, c, d),
         \A b \in c.base .. c.base + 3 : n[b] = m[b]
  PROVE  Link(n, c, d)
<1>1. c.base \in Int /\ c.base + 2 \in Int
  BY CallFacts
<1>2. /\ \A b \in c.base .. c.base + 2 - 1 : n[b] = m[b]
      /\ \A b \in c.base + 2 .. c.base + 2 + 2 - 1 : n[b] = m[b]
  BY <1>1
<1>3. Holds(n, c.base, SavedBP(d.base), 2)
  BY <1>1, <1>2, HoldsSame DEF Link
<1>4. Holds(n, c.base + 2, ReturnAddress, 2)
  BY <1>1, <1>2, HoldsSame DEF Link
<1> QED BY <1>3, <1>4 DEF Link

(* Nothing on the stack is touched by a change below the last frame.        *)
LEMMA BelowUnharmed ==
  ASSUME NEW m, NEW n, NEW s \in Seq(Calls), NEW first \in Nat, first >= 1,
         first <= Len(s), StackOK(m, s, first),
         \A b \in Floor(s[first]) .. Top - 1 : n[b] = m[b]
  PROVE  StackOK(n, s, first)
<1> SUFFICES ASSUME NEW k \in first .. Len(s)
             PROVE  /\ VarsHold(n, s[k])
                    /\ k < Len(s) => Link(n, s[k], s[k + 1])
  BY DEF StackOK
<1>1. s[k] \in Calls /\ s[first] \in Calls
  OBVIOUS
<1>2. /\ Floor(s[k]) \in Int /\ s[k].base \in Int /\ Floor(s[first]) \in Int
      /\ Floor(s[first]) <= s[first].base /\ s[first].base + 4 <= Roof(s[first])
      /\ Roof(s[first]) \in Int /\ s[first].base \in Int
      /\ s[k].base + 4 <= Roof(s[k]) /\ Roof(s[k]) \in Int /\ Floor(s[k]) <= s[k].base
  BY <1>1, CallFacts
<1>3. Floor(s[first]) <= Floor(s[k])
  <2>1. CASE k = first
    BY <2>1, <1>2
  <2>2. CASE k # first
    <3>1. first \in first .. k - 1
      BY <2>2
    <3>2. Roof(s[first]) <= Floor(s[k])
      BY <3>1 DEF StackOK
    <3> QED BY <3>2, <1>2
  <2> QED BY <2>1, <2>2
<1>4. VarsHold(m, s[k]) /\ s[k].base <= Top
  BY DEF StackOK
<1>5. Top \in Nat
  BY FunAssumption
<1>6. \A b \in Floor(s[k]) .. s[k].base - 1 : n[b] = m[b]
  <2>1. \A b \in Floor(s[k]) .. s[k].base - 1 : b \in Floor(s[first]) .. Top - 1
    BY <1>2, <1>3, <1>4, <1>5
  <2> QED BY <2>1
<1>7. VarsHold(n, s[k])
  BY <1>1, <1>4, <1>6, VarsSame
<1>8. ASSUME k < Len(s) PROVE Link(n, s[k], s[k + 1])
  <2>1. k + 1 \in first .. Len(s) /\ s[k + 1] \in Calls
    BY <1>8
  <2>2. Roof(s[k]) = Floor(s[k + 1]) /\ Link(m, s[k], s[k + 1])
    BY <1>8 DEF StackOK
  <2>3. s[k + 1].base <= Top /\ Floor(s[k + 1]) <= s[k + 1].base /\ s[k + 1].base \in Int
    BY <2>1, CallFacts DEF StackOK
  <2>4. s[k].base + 4 <= Top
    <3>1. Floor(s[k + 1]) \in Int /\ Floor(s[k + 1]) <= Top
      <4>1. Floor(s[k + 1]) \in Int
        BY <2>1, CallFacts
      <4> QED BY <4>1, <2>3, <1>5
    <3>2. Roof(s[k]) = Floor(s[k + 1]) /\ s[k].base \in Int /\ s[k].base + 4 <= Roof(s[k])
      BY <2>2, <1>2
    <3> QED BY <3>1, <3>2, <1>5
  <2>5. \A b \in s[k].base .. s[k].base + 3 : b \in Floor(s[first]) .. Top - 1
    <3>1. Floor(s[first]) <= s[k].base /\ s[k].base \in Int /\ Floor(s[first]) \in Int
      BY <1>2, <1>3
    <3> QED BY <3>1, <2>4, <1>5
  <2>6. \A b \in s[k].base .. s[k].base + 3 : n[b] = m[b]
    BY <2>5
  <2> QED BY <2>2, <2>6, <1>1, LinkSame
<1> QED BY <1>7, <1>8

(* Sequences of calls: one more, one less, another one on top.              *)
LEMMA OnTop ==
  ASSUME NEW S, NEW s \in Seq(S), NEW c \in S
  PROVE  /\ <<c>> \o s \in Seq(S) /\ Len(<<c>> \o s) = Len(s) + 1
         /\ (<<c>> \o s)[1] = c
         /\ \A k \in 2 .. Len(s) + 1 : (<<c>> \o s)[k] = s[k - 1]
OBVIOUS

LEMMA TopTaken ==
  ASSUME NEW S, NEW s \in Seq(S), Len(s) >= 1
  PROVE  /\ Tail(s) \in Seq(S) /\ Len(Tail(s)) = Len(s) - 1
         /\ \A k \in 1 .. Len(s) - 1 : Tail(s)[k] = s[k + 1]
OBVIOUS

LEMMA TopReplaced ==
  ASSUME NEW S, NEW s \in Seq(S), Len(s) >= 1, NEW c \in S
  PROVE  /\ <<c>> \o Tail(s) \in Seq(S) /\ Len(<<c>> \o Tail(s)) = Len(s)
         /\ (<<c>> \o Tail(s))[1] = c
         /\ \A k \in 2 .. Len(s) : (<<c>> \o Tail(s))[k] = s[k]
<1>1. /\ Tail(s) \in Seq(S) /\ Len(Tail(s)) = Len(s) - 1
      /\ \A k \in 1 .. Len(s) - 1 : Tail(s)[k] = s[k + 1]
  BY TopTaken
<1>2. /\ <<c>> \o Tail(s) \in Seq(S) /\ Len(<<c>> \o Tail(s)) = Len(Tail(s)) + 1
      /\ (<<c>> \o Tail(s))[1] = c
      /\ \A k \in 2 .. Len(Tail(s)) + 1 : (<<c>> \o Tail(s))[k] = Tail(s)[k - 1]
  BY <1>1, OnTop
<1>3. \A k \in 2 .. Len(s) : (<<c>> \o Tail(s))[k] = s[k]
  BY <1>1, <1>2
<1> QED BY <1>1, <1>2, <1>3

(* A call without a frame comes on top of the frames there are, and the     *)
(* frame on top is left out of account.                                     *)
LEMMA PushedOnTop ==
  ASSUME NEW m, NEW s \in Seq(Calls), NEW c \in Calls, StackOK(m, s, 1)
  PROVE  StackOK(m, <<c>> \o s, 2)
<1> DEFINE t == <<c>> \o s
<1>1. Len(t) = Len(s) + 1 /\ Len(s) \in Nat /\ \A k \in 2 .. Len(s) + 1 : t[k] = s[k - 1]
  BY OnTop
<1> HIDE DEF t
<1>2. SUFFICES ASSUME NEW k \in 2 .. Len(t)
               PROVE  /\ 0 <= Floor(t[k]) /\ t[k].base <= Top
                      /\ VarsHold(m, t[k])
                      /\ \A j \in 2 .. k - 1 : Roof(t[j]) <= Floor(t[k])
                      /\ k < Len(t) => Roof(t[k]) = Floor(t[k + 1]) /\ Link(m, t[k], t[k + 1])
  BY DEF StackOK, t
<1>3. k - 1 \in 1 .. Len(s) /\ t[k] = s[k - 1]
  BY <1>1
<1>4. 0 <= Floor(t[k]) /\ t[k].base <= Top /\ VarsHold(m, t[k])
  BY <1>3 DEF StackOK
<1>5. ASSUME NEW j \in 2 .. k - 1 PROVE Roof(t[j]) <= Floor(t[k])
  <2>1. j - 1 \in 1 .. (k - 1) - 1 /\ t[j] = s[j - 1]
    BY <1>1
  <2> QED BY <2>1, <1>3 DEF StackOK
<1>6. ASSUME k < Len(t) PROVE Roof(t[k]) = Floor(t[k + 1]) /\ Link(m, t[k], t[k + 1])
  <2>1. k - 1 < Len(s) /\ t[k + 1] = s[(k - 1) + 1]
    BY <1>1, <1>6
  <2> QED BY <2>1, <1>3 DEF StackOK
<1> QED BY <1>4, <1>5, <1>6

LEMMA TopLeftOut ==
  ASSUME NEW m, NEW s \in Seq(Calls), StackOK(m, s, 1)
  PROVE  StackOK(m, s, 2)
BY DEF StackOK

LEMMA Returned ==
  ASSUME NEW m, NEW s \in Seq(Calls), Len(s) >= 1, StackOK(m, s, 2)
  PROVE  StackOK(m, Tail(s), 1)
<1> DEFINE t == Tail(s)
<1>1. Len(t) = Len(s) - 1 /\ Len(s) \in Nat /\ \A k \in 1 .. Len(s) - 1 : t[k] = s[k + 1]
  BY TopTaken
<1> HIDE DEF t
<1>2. SUFFICES ASSUME NEW k \in 1 .. Len(t)
               PROVE  /\ 0 <= Floor(t[k]) /\ t[k].base <= Top
                      /\ VarsHold(m, t[k])
                      /\ \A j \in 1 .. k - 1 : Roof(t[j]) <= Floor(t[k])
                      /\ k < Len(t) => Roof(t[k]) = Floor(t[k + 1]) /\ Link(m, t[k], t[k + 1])
  BY DEF StackOK, t
<1>3. k + 1 \in 2 .. Len(s) /\ t[k] = s[k + 1]
  BY <1>1
<1>4. 0 <= Floor(t[k]) /\ t[k].base <= Top /\ VarsHold(m, t[k])
  BY <1>3 DEF StackOK
<1>5. ASSUME NEW j \in 1 .. k - 1 PROVE Roof(t[j]) <= Floor(t[k])
  <2>1. j + 1 \in 2 .. (k + 1) - 1 /\ t[j] = s[j + 1]
    BY <1>1
  <2> QED BY <2>1, <1>3 DEF StackOK
<1>6. ASSUME k < Len(t) PROVE Roof(t[k]) = Floor(t[k + 1]) /\ Link(m, t[k], t[k + 1])
  <2>1. k + 1 < Len(s) /\ t[k + 1] = s[(k + 1) + 1]
    BY <1>1, <1>6
  <2> QED BY <2>1, <1>3 DEF StackOK
<1> QED BY <1>4, <1>5, <1>6

(* A frame right below the last one, with the words that lead back to it.   *)
LEMMA FrameAdded ==
  ASSUME NEW m, NEW s \in Seq(Calls), Len(s) >= 2, StackOK(m, s, 2), NEW c \in Calls,
         0 <= Floor(c), VarsHold(m, c), Roof(c) = Floor(s[2]), Link(m, c, s[2])
  PROVE  StackOK(m, <<c>> \o Tail(s), 1)
<1> DEFINE t == <<c>> \o Tail(s)
<1>1. /\ t \in Seq(Calls) /\ Len(t) = Len(s) /\ Len(s) \in Nat /\ t[1] = c
      /\ \A k \in 2 .. Len(s) : t[k] = s[k]
  BY TopReplaced
<1> HIDE DEF t
<1>2. SUFFICES ASSUME NEW k \in 1 .. Len(t)
               PROVE  /\ 0 <= Floor(t[k]) /\ t[k].base <= Top
                      /\ VarsHold(m, t[k])
                      /\ \A j \in 1 .. k - 1 : Roof(t[j]) <= Floor(t[k])
                      /\ k < Len(t) => Roof(t[k]) = Floor(t[k + 1]) /\ Link(m, t[k], t[k + 1])
  BY DEF StackOK, t
<1>3. /\ 2 \in 2 .. Len(s) /\ s[2] \in Calls /\ s[2].base <= Top
  BY <1>1 DEF StackOK
<1>4. /\ c.base \in Int /\ c.base + 4 <= Roof(c) /\ Floor(s[2]) <= s[2].base
      /\ s[2].base \in Int /\ Floor(s[2]) \in Int /\ Roof(c) \in Int
      /\ Floor(s[2]) <= s[2].base /\ s[2].base + 4 <= Roof(s[2]) /\ Roof(s[2]) \in Int
  BY <1>3, CallFacts
<1>5. CASE k = 1
  <2>1. c.base <= Top
    <3>1. Roof(c) <= s[2].base /\ Top \in Int
      BY <1>4, FunAssumption
    <3> QED BY <3>1, <1>3, <1>4, Climbs
  <2>2. t[k] = c /\ t[k + 1] = s[2]
    BY <1>1, <1>3, <1>5
  <2>3. \A j \in 1 .. k - 1 : FALSE
    BY <1>5
  <2> QED BY <2>1, <2>2, <2>3
<1>6. CASE k \in 2 .. Len(s)
  <2>1. /\ t[k] = s[k] /\ 0 <= Floor(s[k]) /\ s[k].base <= Top /\ VarsHold(m, s[k])
        /\ \A j \in 2 .. k - 1 : Roof(s[j]) <= Floor(s[k])
        /\ k < Len(s) => Roof(s[k]) = Floor(s[k + 1]) /\ Link(m, s[k], s[k + 1])
    BY <1>1, <1>6 DEF StackOK
  <2>2. k < Len(t) => t[k + 1] = s[k + 1]
    BY <1>1, <1>6
  <2>3. ASSUME NEW j \in 1 .. k - 1 PROVE Roof(t[j]) <= Floor(t[k])
    <3>1. CASE j = 1
      <4>1. CASE k = 2
        BY <3>1, <4>1, <2>1, <1>1, <1>4
      <4>2. CASE k > 2
        <5>1. 2 \in 2 .. k - 1
          BY <4>2, <1>6
        <5>2. Roof(s[2]) <= Floor(s[k])
          BY <5>1, <2>1
        <5>3. s[k] \in Calls /\ Floor(s[k]) \in Int
          <6>1. s[k] \in Calls
            BY <1>6
          <6> QED BY <6>1, CallFacts
        <5>4. t[j] = c
          BY <3>1, <1>1
        <5> QED BY <5>2, <5>3, <5>4, <2>1, <1>4
      <4> QED BY <4>1, <4>2, <1>6
    <3>2. CASE j \in 2 .. k - 1
      <4>1. t[j] = s[j]
        BY <3>2, <1>1, <1>6
      <4> QED BY <4>1, <3>2, <2>1
    <3> QED BY <3>1, <3>2
  <2> QED BY <2>1, <2>2, <2>3, <1>1
<1> QED BY <1>5, <1>6, <1>1

(* The innermost call may know other values, as long as its frame holds     *)
(* them and nothing from BP upwards changed.                                *)
LEMMA TopChanged ==
  ASSUME NEW m, NEW n, NEW s \in Seq(Calls), Len(s) >= 1, StackOK(m, s, 1),
         NEW d \in Calls, d.fun = s[1].fun, d.base = s[1].base, VarsHold(n, d),
         \A b \in d.base .. Top - 1 : n[b] = m[b]
  PROVE  StackOK(n, <<d>> \o Tail(s), 1)
<1>1. /\ s[1] \in Calls /\ 0 <= Floor(s[1]) /\ s[1].base <= Top
      /\ 1 < Len(s) => Roof(s[1]) = Floor(s[1 + 1]) /\ Link(m, s[1], s[1 + 1])
  <2>1. 1 \in 1 .. Len(s)
    OBVIOUS
  <2> QED BY <2>1 DEF StackOK
<1>2. Floor(d) = Floor(s[1]) /\ Roof(d) = Roof(s[1])
  BY DEF Floor, Roof
<1>3. d.base \in Int /\ d.base + 4 <= Roof(d) /\ Roof(d) \in Int
  BY CallFacts
<1>4. Top \in Nat
  BY FunAssumption
<1>5. CASE Len(s) = 1
  <2> DEFINE t == <<d>> \o Tail(s)
  <2>1. Len(t) = 1 /\ t[1] = d
    BY <1>5, TopReplaced
  <2> HIDE DEF t
  <2>2. StackOK(n, t, 1)
    BY <2>1, <1>1, <1>2 DEF StackOK
  <2> QED BY <2>2 DEF t
<1>6. CASE Len(s) > 1
  <2>1. StackOK(m, s, 2) /\ Len(s) >= 2
    BY <1>6, TopLeftOut
  <2>2. Roof(d) = Floor(s[2]) /\ Link(m, s[1], s[2])
    BY <1>1, <1>2, <1>6
  <2>3. s[2] \in Calls /\ s[2].base <= Top
    <3>1. 2 \in 2 .. Len(s)
      BY <1>6
    <3> QED BY <3>1, <2>1 DEF StackOK
  <2>4. Floor(s[2]) <= s[2].base /\ s[2].base \in Int
    BY <2>3, CallFacts
  <2>5. Link(m, d, s[2])
    BY <2>2 DEF Link
  <2>6. \A b \in d.base .. d.base + 3 : n[b] = m[b]
    <3>1. d.base + 4 <= Top
      BY <2>2, <2>3, <2>4, <1>3, <1>4
    <3>2. \A b \in d.base .. d.base + 3 : b \in d.base .. Top - 1
      BY <3>1, <1>3, <1>4
    <3> QED BY <3>2
  <2>7. Link(n, d, s[2])
    BY <2>5, <2>6, LinkSame
  <2>8. \A b \in Floor(s[2]) .. Top - 1 : n[b] = m[b]
    <3>1. \A b \in Floor(s[2]) .. Top - 1 : b \in d.base .. Top - 1
      BY <2>2, <1>3, <1>4
    <3> QED BY <3>1
  <2>9. StackOK(n, s, 2)
    <3>1. 2 \in Nat /\ 2 >= 1 /\ 2 <= Len(s)
      BY <2>1
    <3> QED BY <3>1, <2>1, <2>8, BelowUnharmed
  <2>10. 0 <= Floor(d)
    BY <1>1, <1>2
  <2> QED BY <2>1, <2>2, <2>7, <2>9, <2>10, FrameAdded
<1> QED BY <1>5, <1>6

(* With memory n call d still has what call c had with m, and above its     *)
(* frame nothing has changed.                                               *)
KeptAround(m, c, n, d) ==
  /\ d \in Calls /\ d.fun = c.fun /\ d.base = c.base
  /\ VarsHold(n, d)
  /\ DOMAIN n = 0 .. Top - 1
  /\ \A b \in d.base .. Top - 1 : n[b] = m[b]

(* A store to a variable of a call changes that variable alone, and nothing *)
(* outside the call's frame.                                                *)
LEMMA FrameStored ==
  ASSUME NEW m, DOMAIN m = 0 .. Top - 1,
         NEW c \in Calls, 0 <= Floor(c), c.base <= Top, VarsHold(m, c),
         NEW j \in DOMAIN Slots(c.fun), NEW v \in Val,
         NEW d, d = Knows(c, j, v),
         NEW n, n = Stored(m, c.base + Slots(c.fun)[j].offset, v, Slots(c.fun)[j].size)
  PROVE  KeptAround(m, c, n, d)
<1> DEFINE S    == Slots(c.fun)
           a    == c.base + S[j].offset
           size == S[j].size
<1>1. Top \in Nat
  BY FunAssumption
<1>2. /\ c.fun \in Functions /\ c.base \in Int /\ Reserved(c.fun) \in Nat
      /\ DOMAIN c.holds \subseteq DOMAIN S
  BY CallFacts
<1>3. \A i \in DOMAIN S :
        /\ S[i].offset \in Int /\ S[i].size \in {1, 2}
        /\ -Reserved(c.fun) <= S[i].offset /\ S[i].offset + S[i].size <= 0
  BY <1>2, FrameFacts
<1>4. j \in DOMAIN S /\ DOMAIN S \subseteq Nat
  <2>1. S \in Seq(Slot)
    BY <1>2, FrameFacts
  <2>2. DOMAIN S \subseteq Nat
    BY <2>1
  <2> QED BY <2>2
<1>5. \A i, k \in DOMAIN S : i < k => S[k].offset + S[k].size <= S[i].offset
  BY <1>2, FrameFacts
<1> HIDE DEF S
<1>6. /\ a \in Int /\ size \in {1, 2} /\ c.base - Reserved(c.fun) <= a
      /\ a + size <= c.base
  <2>1. /\ S[j].offset \in Int /\ S[j].size \in {1, 2}
        /\ -Reserved(c.fun) <= S[j].offset /\ S[j].offset + S[j].size <= 0
    BY <1>3, <1>4
  <2>2. c.base \in Int /\ Reserved(c.fun) \in Nat
    BY <1>2
  <2> QED BY <2>1, <2>2, WithinFrame
<1>7. Holds(n, a, v, size)
  <2>1. n = Stored(m, a, v, size)
    BY DEF S
  <2> HIDE DEF a, size
  <2>2. 0 <= a /\ a + size <= Top
    BY <1>1, <1>2, <1>6 DEF Floor
  <2>3. a .. a + size - 1 \subseteq 0 .. Top - 1
    BY <2>2, <1>1, <1>6
  <2> QED BY <2>1, <2>3, <1>6, StoredHolds
<1>8. /\ DOMAIN n = 0 .. Top - 1
      /\ \A b \in 0 .. Top - 1 : b \notin a .. a + size - 1 => n[b] = m[b]
  <2>1. n = Stored(m, a, v, size)
    BY DEF S
  <2> HIDE DEF a, size
  <2> QED BY Zenon, <2>1 DEF Stored
<1>9. /\ d \in Calls /\ d.fun = c.fun /\ d.base = c.base
      /\ DOMAIN d.holds = DOMAIN c.holds \cup {j} /\ d.holds[j] = v
      /\ \A i \in DOMAIN c.holds : i # j => d.holds[i] = c.holds[i]
  <2>1. Updated(c, d, j, v)
    BY CallKnows
  <2> QED BY <2>1 DEF Updated
<1>10. VarsHold(n, d)
  <2> SUFFICES ASSUME NEW i \in DOMAIN d.holds
               PROVE  Holds(n, c.base + S[i].offset, d.holds[i], S[i].size)
    BY <1>9 DEF VarsHold, S
  <2>1. CASE i = j
    BY <2>1, <1>7, <1>9
  <2>2. CASE i # j
    <3>1. i \in DOMAIN c.holds /\ d.holds[i] = c.holds[i] /\ i \in DOMAIN S
      BY <2>2, <1>2, <1>9
    <3>2. Holds(m, c.base + S[i].offset, c.holds[i], S[i].size)
      BY <3>1, <1>1 DEF VarsHold, S
    <3> DEFINE e == c.base + S[i].offset
               w == S[i].size
    <3>3. /\ e \in Int /\ w \in {1, 2} /\ c.base - Reserved(c.fun) <= e /\ e + w <= c.base
      BY <3>1, <1>2, <1>3
    <3>4. i < j \/ j < i
      BY <2>2, <3>1, <1>4
    <3>5. e + w <= a \/ a + size <= e
      <4>1. CASE i < j
        <5>1. S[j].offset + size <= S[i].offset
          BY <4>1, <3>1, <1>5, <1>4
        <5>2. S[i].offset \in Int /\ S[j].offset \in Int /\ size \in {1, 2} /\ c.base \in Int
          BY <3>1, <1>2, <1>3, <1>4
        <5> QED BY <5>1, <5>2, Shifted
      <4>2. CASE j < i
        <5>1. S[i].offset + w <= S[j].offset
          BY <4>2, <3>1, <1>5, <1>4
        <5>2. S[i].offset \in Int /\ S[j].offset \in Int /\ w \in {1, 2} /\ c.base \in Int
          BY <3>1, <1>2, <1>3, <1>4
        <5> QED BY <5>1, <5>2, Shifted
      <4> QED BY <4>1, <4>2, <3>4
    <3> HIDE DEF e, w, a, size
    <3>6. ASSUME NEW b \in e .. e + w - 1 PROVE n[b] = m[b]
      <4>1. b \in 0 .. Top - 1
        BY <3>3, <1>1, <1>2, FunAssumption DEF Floor
      <4>2. b \notin a .. a + size - 1
        BY <3>3, <3>5, <1>6
      <4> QED BY <4>1, <4>2, <1>8
    <3>7. Holds(m, e, c.holds[i], w)
      BY <3>2 DEF e, w
    <3>8. Holds(n, e, c.holds[i], w)
      <4>1. \A b \in e .. e + w - 1 : n[b] = m[b]
        BY <3>6
      <4>2. e \in Int /\ w \in {1, 2}
        BY <3>3
      <4> DEFINE x == c.holds[i]
      <4>3. Holds(m, e, x, w)
        BY <3>7
      <4> HIDE DEF x
      <4>4. Holds(n, e, x, w)
        <5> SUFFICES ASSUME NEW u \in 0 .. w - 1 PROVE n[e + u] = Byte(x, u)
          BY DEF Holds
        <5>1. e + u \in e .. e + w - 1
          BY <4>2
        <5>2. m[e + u] = Byte(x, u)
          BY <4>3 DEF Holds
        <5> QED BY <5>1, <5>2, <4>1
      <4> QED BY <4>4 DEF x
    <3> QED BY <3>1, <3>8 DEF e, w
  <2> QED BY <2>1, <2>2
<1>11. \A b \in c.base .. Top - 1 : n[b] = m[b]
  <2> SUFFICES ASSUME NEW b \in c.base .. Top - 1 PROVE n[b] = m[b]
    OBVIOUS
  <2> HIDE DEF a, size
  <2>1. b \in 0 .. Top - 1
    BY <1>1, <1>2 DEF Floor
  <2>2. b \notin a .. a + size - 1
    BY <1>1, <1>2, <1>6
  <2> QED BY <2>1, <2>2, <1>8
<1> QED BY <1>8, <1>9, <1>10, <1>11 DEF KeptAround

(* The innermost call's store, in the stack.                                *)
LEMMA VariableStored ==
  ASSUME NEW m, DOMAIN m = 0 .. Top - 1,
         NEW s \in Seq(Calls), Len(s) >= 1, StackOK(m, s, 1),
         NEW j \in DOMAIN Slots(s[1].fun), NEW v \in Val,
         NEW n, n = Stored(m, s[1].base + Slots(s[1].fun)[j].offset, v, Slots(s[1].fun)[j].size)
  PROVE  /\ StackOK(n, <<Knows(s[1], j, v)>> \o Tail(s), 1)
         /\ DOMAIN n = 0 .. Top - 1
<1> DEFINE d == Knows(s[1], j, v)
<1>1. s[1] \in Calls /\ 0 <= Floor(s[1]) /\ s[1].base <= Top /\ VarsHold(m, s[1])
  <2>1. 1 \in 1 .. Len(s)
    OBVIOUS
  <2> QED BY <2>1 DEF StackOK
<1>2. KeptAround(m, s[1], n, d)
  BY <1>1, FrameStored
<1> HIDE DEF d
<1>3. /\ d \in Calls /\ d.fun = s[1].fun /\ d.base = s[1].base /\ VarsHold(n, d)
      /\ DOMAIN n = 0 .. Top - 1 /\ \A b \in d.base .. Top - 1 : n[b] = m[b]
  BY <1>2 DEF KeptAround
<1>4. StackOK(n, <<d>> \o Tail(s), 1)
  BY <1>3, TopChanged
<1> QED BY <1>3, <1>4 DEF d

-----------------------------------------------------------------------------
(* The inductive invariant.                                                 *)

(* The main program is the outermost call and no other, and a result goes   *)
(* to a word of the caller's frame.                                         *)
Chain(s) ==
  \A k \in 1 .. Len(s) :
    /\ s[k].fun = Main <=> k = Len(s)
    /\ k < Len(s) => /\ s[k].dest \in DOMAIN Slots(s[k + 1].fun)
                     /\ Slots(s[k + 1].fun)[s[k].dest].size = 2

(* The call is made: the return address is on top, the arguments above it.  *)
Started ==
  /\ Len(active) >= 2 /\ StackOK(mem, active, 2)
  /\ BP = active[2].base
  /\ SP = Floor(active[2]) - 2 * Len(Params[active[1].fun]) - 2
  /\ 2 + Reserved(active[1].fun) <= SP
  /\ Holds(mem, SP, ReturnAddress, 2)
  /\ ArgsAt(mem, SP, active[1])
  /\ active[1].holds = Unset

(* The callee has its frame, and the arguments are where the caller left    *)
(* them.                                                                    *)
Entered ==
  /\ Len(active) >= 2 /\ StackOK(mem, active, 1)
  /\ BP = active[1].base /\ SP = Floor(active[1])
  /\ ArgsAt(mem, BP + 2, active[1])
  /\ active[1].holds = Unset

(* A body runs in its own frame.                                            *)
Running ==
  /\ StackOK(mem, active, 1)
  /\ BP = active[1].base /\ SP = Floor(active[1])

(* The callee's frame is gone, and the caller's is in place again.          *)
Answered ==
  /\ Len(active) >= 2 /\ StackOK(mem, active, 2)
  /\ BP = active[2].base /\ SP = Floor(active[2])
  /\ BX \in Val

IInv ==
  /\ DOMAIN mem = 0 .. Top - 1
  /\ active \in Seq(Calls) /\ Len(active) >= 1
  /\ Chain(active)
  /\ \/ at = "start"      /\ Started
     \/ at = "parameters" /\ Entered
     \/ at = "body"       /\ Running
     \/ at = "result"     /\ Answered

LEMMA ChainReplaced ==
  ASSUME NEW s \in Seq(Calls), Len(s) >= 1, Chain(s), NEW d \in Calls,
         d.fun = s[1].fun, d.dest = s[1].dest
  PROVE  Chain(<<d>> \o Tail(s))
<1> DEFINE t == <<d>> \o Tail(s)
<1>1. Len(t) = Len(s) /\ Len(s) \in Nat /\ t[1] = d /\ \A k \in 2 .. Len(s) : t[k] = s[k]
  BY TopReplaced
<1> HIDE DEF t
<1>2. \A k \in 1 .. Len(s) : t[k].fun = s[k].fun /\ t[k].dest = s[k].dest
  <2> SUFFICES ASSUME NEW k \in 1 .. Len(s) PROVE t[k].fun = s[k].fun /\ t[k].dest = s[k].dest
    OBVIOUS
  <2>1. CASE k = 1
    BY <2>1, <1>1
  <2>2. CASE k \in 2 .. Len(s)
    BY <2>2, <1>1
  <2> QED BY <2>1, <2>2
<1>3. Chain(t)
  <2> SUFFICES ASSUME NEW k \in 1 .. Len(s)
               PROVE  /\ t[k].fun = Main <=> k = Len(s)
                      /\ k < Len(s) => /\ t[k].dest \in DOMAIN Slots(t[k + 1].fun)
                                       /\ Slots(t[k + 1].fun)[t[k].dest].size = 2
    BY <1>1 DEF Chain
  <2>1. k < Len(s) => k + 1 \in 1 .. Len(s)
    BY <1>1
  <2> QED BY <2>1, <1>2 DEF Chain
<1> QED BY <1>3 DEF t

LEMMA ChainPushed ==
  ASSUME NEW s \in Seq(Calls), Len(s) >= 1, Chain(s), NEW c \in Calls, c.fun # Main,
         c.dest \in DOMAIN Slots(s[1].fun), Slots(s[1].fun)[c.dest].size = 2
  PROVE  Chain(<<c>> \o s)
<1> DEFINE t == <<c>> \o s
<1>1. /\ Len(t) = Len(s) + 1 /\ Len(s) \in Nat /\ t[1] = c
      /\ \A k \in 2 .. Len(s) + 1 : t[k] = s[k - 1]
  BY OnTop
<1> HIDE DEF t
<1>2. Chain(t)
  <2> SUFFICES ASSUME NEW k \in 1 .. Len(t)
               PROVE  /\ t[k].fun = Main <=> k = Len(t)
                      /\ k < Len(t) => /\ t[k].dest \in DOMAIN Slots(t[k + 1].fun)
                                       /\ Slots(t[k + 1].fun)[t[k].dest].size = 2
    BY DEF Chain
  <2>1. CASE k = 1
    <3>1. t[k] = c /\ t[k + 1] = s[1] /\ k # Len(t)
      BY <2>1, <1>1
    <3> QED BY <3>1
  <2>2. CASE k \in 2 .. Len(t)
    <3>1. /\ k - 1 \in 1 .. Len(s) /\ t[k] = s[k - 1]
          /\ (k = Len(t) <=> k - 1 = Len(s)) /\ (k < Len(t) <=> k - 1 < Len(s))
      BY <2>2, <1>1
    <3>2. ASSUME k < Len(t) PROVE t[k + 1] = s[(k - 1) + 1]
      <4>1. k + 1 \in 2 .. Len(s) + 1 /\ (k + 1) - 1 = (k - 1) + 1
        BY <2>2, <3>2, <1>1
      <4>2. t[k + 1] = s[(k + 1) - 1]
        BY <4>1, <1>1
      <4> QED BY <4>1, <4>2
    <3> QED BY <3>1, <3>2 DEF Chain
  <2> QED BY <2>1, <2>2, <1>1
<1> QED BY <1>2 DEF t

LEMMA ChainReturned ==
  ASSUME NEW s \in Seq(Calls), Len(s) >= 2, Chain(s)
  PROVE  Chain(Tail(s))
<1> DEFINE t == Tail(s)
<1>1. Len(t) = Len(s) - 1 /\ Len(s) \in Nat /\ \A k \in 1 .. Len(s) - 1 : t[k] = s[k + 1]
  BY TopTaken
<1> HIDE DEF t
<1>2. Chain(t)
  <2> SUFFICES ASSUME NEW k \in 1 .. Len(t)
               PROVE  /\ t[k].fun = Main <=> k = Len(t)
                      /\ k < Len(t) => /\ t[k].dest \in DOMAIN Slots(t[k + 1].fun)
                                       /\ Slots(t[k + 1].fun)[t[k].dest].size = 2
    BY DEF Chain
  <2>1. /\ k + 1 \in 1 .. Len(s) /\ t[k] = s[k + 1]
        /\ (k = Len(t) <=> k + 1 = Len(s)) /\ (k < Len(t) <=> k + 1 < Len(s))
    BY <1>1
  <2>2. k < Len(t) => t[k + 1] = s[(k + 1) + 1]
    BY <1>1
  <2> QED BY <2>1, <2>2 DEF Chain
<1> QED BY <1>2 DEF t

(* The main program starts in its frame. *)
LEMMA IInvInit == Init => IInv
<1> SUFFICES ASSUME Init PROVE IInv
  OBVIOUS
<1> DEFINE c == Call(Main, <<>>, 0, Top)
<1>1. /\ mem = [a \in 0 .. Top - 1 |-> JunkByte] /\ BP = Top /\ SP = Top - Reserved(Main)
      /\ active = <<c>> /\ at = "body"
  BY DEF Init
<1>2. Top \in Nat /\ Main \in Functions /\ Params[Main] = <<>> /\ Reserved(Main) <= Top
  BY FunAssumption, StackAssumption DEF Functions
<1>3. <<>> \in Seq(Val) /\ Len(<<>>) = Len(Params[Main])
  BY <1>2
<1>4. c \in Calls /\ c.fun = Main /\ c.base = Top /\ c.holds = Unset
  <2>1. Top \in Int /\ 0 \in Nat
    BY <1>2
  <2> DEFINE none == <<>>
  <2>2. none \in Seq(Val) /\ Len(none) = Len(Params[Main])
    BY <1>3
  <2> HIDE DEF none
  <2>3. Main \in Functions
    BY <1>2
  <2>4. /\ Call(Main, none, 0, Top) \in Calls
        /\ Call(Main, none, 0, Top).fun = Main
        /\ Call(Main, none, 0, Top).base = Top
        /\ Call(Main, none, 0, Top).holds = Unset
    BY <2>1, <2>2, <2>3, CallMade
  <2> QED BY <2>4 DEF none
<1> HIDE DEF c
<1>5. active \in Seq(Calls) /\ Len(active) = 1 /\ active[1] = c
  BY <1>1, <1>4
<1>6. Reserved(Main) \in Nat /\ Floor(c) = Top - Reserved(Main)
  BY <1>2, <1>4, FrameFacts DEF Floor
<1>7. VarsHold(mem, c)
  BY <1>4 DEF VarsHold, Unset
<1>8. StackOK(mem, active, 1)
  <2> SUFFICES ASSUME NEW k \in 1 .. Len(active)
               PROVE  /\ 0 <= Floor(active[k]) /\ active[k].base <= Top
                      /\ VarsHold(mem, active[k])
                      /\ \A j \in 1 .. k - 1 : Roof(active[j]) <= Floor(active[k])
                      /\ k < Len(active) => /\ Roof(active[k]) = Floor(active[k + 1])
                                            /\ Link(mem, active[k], active[k + 1])
    BY DEF StackOK
  <2>1. k = 1 /\ active[k] = c /\ ~ (k < Len(active)) /\ \A j \in 1 .. k - 1 : FALSE
    BY <1>5
  <2> QED BY <2>1, <1>2, <1>4, <1>6, <1>7
<1>9. Chain(active)
  <2>1. \A k \in 1 .. Len(active) : k = 1
    BY <1>5
  <2> QED BY <2>1, <1>4, <1>5 DEF Chain
<1>10. DOMAIN mem = 0 .. Top - 1
  BY <1>1
<1>11. Running
  BY <1>1, <1>4, <1>5, <1>6, <1>8 DEF Running
<1> QED BY <1>1, <1>5, <1>9, <1>10, <1>11 DEF IInv

-----------------------------------------------------------------------------
(* One lemma per action.                                                    *)

(* What the invariant says in a body. *)
LEMMA InBody ==
  ASSUME IInv, at = "body"
  PROVE  /\ DOMAIN mem = 0 .. Top - 1 /\ active \in Seq(Calls) /\ Len(active) >= 1
         /\ Len(active) \in Nat /\ Chain(active) /\ Running
         /\ Head(active) = active[1] /\ active[1] \in Calls /\ Me = active[1].fun
BY DEF IInv, Me

LEMMA StoreStep ==
  ASSUME IInv, NEW j \in DOMAIN Slots(Me), NEW v \in Val, Store(j, v)
  PROVE  IInv'
<1> DEFINE c == active[1]
           d == Knows(c, j, v)
<1>1. /\ at = "body" /\ at' = "body" /\ BP' = BP /\ SP' = SP
      /\ mem' = Stored(mem, BP + Slots(Me)[j].offset, v, Slots(Me)[j].size)
      /\ active' = <<Knows(Head(active), j, v)>> \o Tail(active)
  BY DEF Store
<1>2. /\ DOMAIN mem = 0 .. Top - 1 /\ active \in Seq(Calls) /\ Len(active) >= 1
      /\ Len(active) \in Nat /\ Chain(active) /\ Running
      /\ Head(active) = active[1] /\ active[1] \in Calls /\ Me = active[1].fun
  BY <1>1, InBody
<1>3. /\ mem' = Stored(mem, c.base + Slots(c.fun)[j].offset, v, Slots(c.fun)[j].size)
      /\ active' = <<d>> \o Tail(active) /\ j \in DOMAIN Slots(c.fun)
  BY <1>1, <1>2 DEF Running
<1>4. StackOK(mem', active', 1) /\ DOMAIN mem' = 0 .. Top - 1
  BY <1>2, <1>3, VariableStored DEF Running
<1>5. d \in Calls /\ d.fun = c.fun /\ d.base = c.base /\ d.dest = c.dest
  <2>1. c \in Calls /\ j \in DOMAIN Slots(c.fun)
    BY <1>2, <1>3
  <2> HIDE DEF c
  <2>2. Updated(c, d, j, v)
    BY <2>1, CallKnows
  <2> HIDE DEF d
  <2> QED BY <2>2 DEF Updated
<1> HIDE DEF d
<1>6. active' \in Seq(Calls) /\ Len(active') = Len(active) /\ active'[1] = d
  BY <1>2, <1>3, <1>5, TopReplaced
<1>7. Chain(active')
  BY <1>2, <1>3, <1>5, ChainReplaced
<1>8. Running'
  BY <1>1, <1>2, <1>4, <1>5, <1>6 DEF Running, Floor
<1> QED BY <1>1, <1>2, <1>4, <1>6, <1>7, <1>8 DEF IInv

(* What is fetched for an argument is what the program means: the variable  *)
(* still has its value.                                                     *)
LEMMA OperandFetched ==
  ASSUME IInv, at = "body", NEW size, NEW o \in Operands(size)
  PROVE  Fetched(o) = Meant(o) /\ Meant(o) \in Val
<1>1. /\ active \in Seq(Calls) /\ Len(active) >= 1 /\ Running /\ Head(active) = active[1]
      /\ active[1] \in Calls /\ Me = active[1].fun
  BY InBody
<1>2. CASE o \in [lit : Val]
  <2>1. "lit" \in DOMAIN o /\ o.lit \in Val
    BY <1>2
  <2> QED BY <2>1 DEF Fetched, Meant
<1>3. CASE o \in [slot : {j \in DOMAIN Head(active).holds : Slots(Me)[j].size = size}]
  <2> DEFINE j == o.slot
             c == active[1]
  <2>1. "lit" \notin DOMAIN o /\ j \in DOMAIN c.holds
    BY <1>1, <1>3
  <2>2. VarsHold(mem, c) /\ c.holds[j] \in Val /\ j \in DOMAIN Slots(c.fun) /\ BP = c.base
        /\ c.fun \in Functions /\ c.base \in Int
    <3>1. 1 \in 1 .. Len(active)
      BY <1>1
    <3>2. VarsHold(mem, c) /\ BP = c.base
      BY <3>1, <1>1 DEF Running, StackOK
    <3> QED BY <3>2, <2>1, <1>1, CallFacts
  <2>3. Slots(c.fun)[j].offset \in Int /\ Slots(c.fun)[j].size \in {1, 2}
    BY <2>2, FrameFacts
  <2>4. Holds(mem, c.base + Slots(c.fun)[j].offset, c.holds[j], Slots(c.fun)[j].size)
    BY <2>1, <2>2 DEF VarsHold
  <2> DEFINE a == c.base + Slots(c.fun)[j].offset
             w == Slots(c.fun)[j].size
  <2>5. a \in Int /\ w \in {1, 2}
    BY <2>2, <2>3
  <2>6. mem[a].value = c.holds[j]
    <3> HIDE DEF a, w
    <3>1. 0 \in 0 .. w - 1 /\ a + 0 = a
      BY <2>5
    <3>2. mem[a] = Byte(c.holds[j], 0)
      BY <3>1, <2>4 DEF Holds, a, w
    <3> QED BY <3>2 DEF Byte
  <2>7. Fetched(o) = mem[a].value /\ Meant(o) = c.holds[j]
    BY <2>1, <2>2, <1>1 DEF Fetched, Meant
  <2> QED BY <2>2, <2>6, <2>7
<1> QED BY <1>2, <1>3 DEF Operands

(* A call leaves its arguments and the return address below the frames.     *)
LEMMA CallInstrStep ==
  ASSUME IInv, NEW f \in Fun, NEW dest \in Results, NEW ops,
         DOMAIN ops = DOMAIN Params[f],
         \A i \in DOMAIN ops : ops[i] \in Operands(Params[f][i]),
         CallInstr(f, ops, dest)
  PROVE  IInv'
<1> DEFINE n     == Len(Params[f])
           args  == [i \in DOMAIN ops |-> Meant(ops[i])]
           words == Reverse(args) \o <<ReturnAddress>>
           c     == Call(f, args, dest, 0)
           b     == active[1]
<1>1. at = "body" /\ HasRoom(f) /\ at' = "start" /\ BP' = BP /\ BX' = BX
      /\ active' = <<c>> \o active
  BY DEF CallInstr
<1>2. /\ DOMAIN mem = 0 .. Top - 1 /\ active \in Seq(Calls) /\ Len(active) >= 1
      /\ Len(active) \in Nat /\ Chain(active) /\ Running
      /\ Head(active) = active[1] /\ active[1] \in Calls /\ Me = active[1].fun
  BY <1>1, InBody
<1>3. /\ f \in Functions /\ f # Main /\ n \in Nat /\ Reserved(f) \in Nat
      /\ DOMAIN Params[f] = 1 .. n
  <2>1. f \in Functions /\ f # Main /\ Params[f] \in Seq(Size)
    BY FunAssumption DEF Functions
  <2>2. n \in Nat /\ DOMAIN Params[f] = 1 .. n
    BY <2>1
  <2>3. Reserved(f) \in Nat
    BY <2>1, FrameFacts
  <2> QED BY <2>1, <2>2, <2>3
<1>4. [i \in DOMAIN ops |-> Fetched(ops[i])] = args
  BY <1>1, OperandFetched
<1>5. args \in Seq(Val) /\ Len(args) = n
  <2>1. \A i \in 1 .. n : Meant(ops[i]) \in Val
    BY <1>1, <1>3, OperandFetched
  <2>2. args = [i \in 1 .. n |-> Meant(ops[i])]
    BY <1>3
  <2> QED BY <2>1, <2>2, <1>3
<1> HIDE DEF args
<1>6. /\ Len(words) = n + 1 /\ words[n + 1] = ReturnAddress
      /\ \A k \in 1 .. n : words[k] = args[n + 1 - k]
  <2> DEFINE r == Reverse(args)
  <2>1. r = [k \in 1 .. n |-> args[n + 1 - k]]
    <3>1. \A k \in 1 .. n : (n - k) + 1 = n + 1 - k
      BY <1>3
    <3> QED BY <3>1, <1>5 DEF Reverse
  <2>2. \A k \in 1 .. n : args[n + 1 - k] \in Val
    BY <1>3, <1>5
  <2>3. r \in Seq(Val) /\ Len(r) = n /\ \A k \in 1 .. n : r[k] = args[n + 1 - k]
    BY <2>1, <2>2, <1>3
  <2> HIDE DEF r
  <2>4. r \in Seq(Val \cup {ReturnAddress})
    BY <2>3
  <2> DEFINE x == ReturnAddress
             S == Val \cup {x}
  <2>5. x \in S /\ r \in Seq(S)
    BY <2>4
  <2> HIDE DEF x, S
  <2>6. <<x>> \in Seq(S) /\ Len(<<x>>) = 1 /\ <<x>>[1] = x
    BY <2>5
  <2>7. /\ Len(r \o <<x>>) = n + 1 /\ (r \o <<x>>)[n + 1] = x
        /\ \A k \in 1 .. n : (r \o <<x>>)[k] = r[k]
    BY <2>3, <2>5, <2>6, Joined
  <2> QED BY <2>3, <2>7 DEF r, x
<1>7. mem' = Pushed(mem, SP, words) /\ SP' = SP - 2 * Len(words)
  BY <1>4 DEF CallInstr
<1> HIDE DEF words
<1>8. SP = Floor(b) /\ BP = b.base /\ SP \in Int /\ b.base <= Top /\ 0 <= SP /\ Top \in Nat
      /\ Floor(b) <= b.base /\ b.base \in Int
  <2>1. 1 \in 1 .. Len(active)
    BY <1>2
  <2>2. 0 <= Floor(b) /\ b.base <= Top
    BY <2>1, <1>2 DEF Running, StackOK
  <2> QED BY <2>2, <1>2, CallFacts, FunAssumption DEF Running
<1>9. 2 * n + 4 + Reserved(f) <= SP
  BY <1>1 DEF HasRoom
<1>10. SP' = SP - 2 * n - 2 /\ SP' \in Int
  BY <1>3, <1>6, <1>7, <1>8
<1>11. /\ DOMAIN mem' = 0 .. Top - 1
       /\ \A k \in 1 .. n + 1 : Holds(mem', SP - 2 * k, words[k], 2)
       /\ \A a \in SP .. Top - 1 : mem'[a] = mem[a]
  <2>1. Len(words) \in Nat /\ SP \in Int
    BY <1>3, <1>6, <1>8
  <2>2. SP - 2 * Len(words) .. SP - 1 \subseteq DOMAIN mem
    <3>1. SP - 2 * Len(words) .. SP - 1 \subseteq 0 .. Top - 1
      <4>1. Len(words) = n + 1 /\ n \in Nat /\ Reserved(f) \in Nat
        BY <1>3, <1>6
      <4>2. SP - 2 * Len(words) >= 0
        BY <4>1, <1>8, <1>9
      <4>3. SP <= Top
        BY <1>8
      <4> QED BY <4>2, <4>3, <1>8
    <3> QED BY <3>1, <1>2
  <2>3. /\ DOMAIN Pushed(mem, SP, words) = DOMAIN mem
        /\ \A k \in 1 .. Len(words) : Holds(Pushed(mem, SP, words), SP - 2 * k, words[k], 2)
        /\ \A a \in DOMAIN mem :
             a \notin SP - 2 * Len(words) .. SP - 1 => Pushed(mem, SP, words)[a] = mem[a]
    BY <2>1, <2>2, PushedHolds
  <2>4. \A a \in SP .. Top - 1 : a \in DOMAIN mem /\ a \notin SP - 2 * Len(words) .. SP - 1
    BY <2>1, <1>2, <1>8
  <2> QED BY <2>3, <2>4, <1>2, <1>6, <1>7
<1>12. StackOK(mem', active, 1)
  <2>1. \A a \in Floor(active[1]) .. Top - 1 : mem'[a] = mem[a]
    BY <1>8, <1>11
  <2>2. 1 \in Nat /\ 1 >= 1 /\ 1 <= Len(active) /\ StackOK(mem, active, 1)
    BY <1>2 DEF Running
  <2> QED BY <2>1, <2>2, <1>2, BelowUnharmed
<1>13. /\ dest \in DOMAIN Slots(b.fun) /\ Slots(b.fun)[dest].size = 2 /\ dest \in Nat
  <2>1. dest \in DOMAIN Slots(b.fun) /\ Slots(b.fun)[dest].size = 2
    BY <1>2 DEF Results
  <2>2. Slots(b.fun) \in Seq(Slot)
    BY <1>2, CallFacts, FrameFacts
  <2>3. DOMAIN Slots(b.fun) \subseteq Nat
    BY <2>2
  <2> QED BY <2>1, <2>3
<1>14. c \in Calls /\ c.fun = f /\ c.args = args /\ c.dest = dest /\ c.holds = Unset
  <2>1. 0 \in Int /\ Len(args) = Len(Params[f])
    BY <1>5
  <2> QED BY <2>1, <1>3, <1>5, <1>13, CallMade
<1> HIDE DEF c
<1>15. /\ active' \in Seq(Calls) /\ Len(active') = Len(active) + 1 /\ active'[1] = c
       /\ active'[2] = b
  <2>1. /\ active' \in Seq(Calls) /\ Len(active') = Len(active) + 1 /\ active'[1] = c
        /\ \A k \in 2 .. Len(active) + 1 : active'[k] = active[k - 1]
    BY <1>1, <1>2, <1>14, OnTop
  <2>2. 2 \in 2 .. Len(active) + 1 /\ 2 - 1 = 1
    BY <1>2
  <2> QED BY <2>1, <2>2
<1>16. StackOK(mem', active', 2)
  BY <1>1, <1>2, <1>12, <1>14, PushedOnTop
<1>17. Chain(active')
  BY <1>1, <1>2, <1>3, <1>13, <1>14, ChainPushed
<1>18. Holds(mem', SP', ReturnAddress, 2)
  <2>1. n + 1 \in 1 .. n + 1 /\ SP - 2 * (n + 1) = SP'
    BY <1>3, <1>8, <1>10
  <2> QED BY <2>1, <1>6, <1>11
<1>19. ArgsAt(mem', SP', c)
  <2> SUFFICES ASSUME NEW i \in 1 .. n PROVE Holds(mem', SP' + 2 * i, args[i], 2)
    BY <1>5, <1>14 DEF ArgsAt
  <2>1. n + 1 - i \in 1 .. n /\ n + 1 - (n + 1 - i) = i /\ SP - 2 * (n + 1 - i) = SP' + 2 * i
    <3>1. /\ n + 1 - i \in 1 .. n /\ n + 1 - (n + 1 - i) = i
          /\ SP - 2 * (n + 1 - i) = SP - 2 * n - 2 + 2 * i
      BY <1>3, <1>8, FromTheOtherEnd
    <3> QED BY <3>1, <1>10
  <2>2. words[n + 1 - i] = args[i]
    BY <2>1, <1>6
  <2>3. n + 1 - i \in 1 .. n + 1
    BY <2>1, <1>3
  <2> QED BY <2>1, <2>2, <2>3, <1>11
<1>20. Started'
  <2>1. 2 + Reserved(f) <= SP'
    BY <1>3, <1>8, <1>9, <1>10
  <2>2. SP' = Floor(b) - 2 * Len(Params[f]) - 2 /\ BP' = b.base /\ Len(active') >= 2
    BY <1>1, <1>2, <1>8, <1>10, <1>15
  <2> QED BY <2>1, <2>2, <1>14, <1>15, <1>16, <1>18, <1>19 DEF Started
<1> QED BY <1>1, <1>11, <1>15, <1>17, <1>20 DEF IInv

(* The callee builds its frame right below what the caller pushed.          *)
LEMMA FuncStartStep ==
  ASSUME IInv, FuncStart
  PROVE  IInv'
<1> DEFINE c == active[1]
           b == active[2]
           d == [c EXCEPT !.base = SP - 2]
           R == Reserved(c.fun)
           n == Len(Params[c.fun])
<1>1. /\ at = "start" /\ at' = "parameters"
      /\ mem' = Stored(mem, SP - 2, SavedBP(BP), 2)
      /\ BP' = SP - 2 /\ SP' = SP - 2 - Reserved(Me)
      /\ active' = <<[Head(active) EXCEPT !.base = SP - 2]>> \o Tail(active)
  BY DEF FuncStart
<1>2. /\ DOMAIN mem = 0 .. Top - 1 /\ active \in Seq(Calls) /\ Len(active) \in Nat
      /\ Chain(active) /\ Started /\ Len(active) >= 2
  BY <1>1 DEF IInv, Started
<1>3. /\ Head(active) = c /\ c \in Calls /\ b \in Calls /\ Me = c.fun
  BY <1>2 DEF Me
<1>4. /\ BP = b.base /\ SP = Floor(b) - 2 * n - 2 /\ 2 + R <= SP
      /\ Holds(mem, SP, ReturnAddress, 2) /\ ArgsAt(mem, SP, c) /\ c.holds = Unset
      /\ StackOK(mem, active, 2)
  BY <1>2 DEF Started
<1>5. /\ R \in Nat /\ n \in Nat /\ Floor(b) \in Int /\ Floor(b) <= b.base /\ b.base \in Int
      /\ Len(c.args) = n
  BY <1>3, CallFacts
<1>6. b.base <= Top /\ Top \in Nat
  <2>1. 2 \in 2 .. Len(active)
    BY <1>2
  <2> QED BY <2>1, <1>4, FunAssumption DEF StackOK
<1>7. SP \in Int
  BY <1>4, <1>5
<1>8. d \in Calls /\ d.fun = c.fun /\ d.args = c.args /\ d.dest = c.dest /\ d.holds = c.holds
      /\ d.base = SP - 2
  <2>1. SP - 2 \in Int
    BY <1>7
  <2> HIDE DEF c
  <2> QED BY <2>1, <1>3, CallBased
<1>9. active' = <<d>> \o Tail(active)
  BY <1>1, <1>3
<1> HIDE DEF d, b, c, R, n
<1>10. /\ DOMAIN mem' = 0 .. Top - 1
       /\ Holds(mem', SP - 2, SavedBP(BP), 2)
       /\ \A a \in SP .. Top - 1 : mem'[a] = mem[a]
  <2>1. SP - 2 .. SP - 2 + 2 - 1 \subseteq DOMAIN mem
    <3>1. SP - 2 .. SP - 2 + 2 - 1 \subseteq 0 .. Top - 1
      <4>1. SP >= 2 /\ SP <= b.base
        BY <1>4, <1>5, <1>7
      <4>2. SP <= Top
        BY <4>1, <1>5, <1>6, <1>7
      <4> QED BY <4>1, <4>2, <1>6, <1>7
    <3> QED BY <3>1, <1>2
  <2>2. Holds(Stored(mem, SP - 2, SavedBP(BP), 2), SP - 2, SavedBP(BP), 2)
    <3>1. SP - 2 \in Int /\ 2 \in {1, 2}
      BY <1>7
    <3> QED BY <2>1, <3>1, StoredHolds
  <2>3. \A a \in SP .. Top - 1 : a \in DOMAIN mem /\ a \notin SP - 2 .. SP - 2 + 2 - 1
    BY <1>2, <1>4, <1>5, <1>7
  <2>4. /\ DOMAIN Stored(mem, SP - 2, SavedBP(BP), 2) = DOMAIN mem
        /\ \A a \in DOMAIN mem : a \notin SP - 2 .. SP - 2 + 2 - 1
                                   => Stored(mem, SP - 2, SavedBP(BP), 2)[a] = mem[a]
    BY DEF Stored
  <2> QED BY <2>2, <2>3, <2>4, <1>1, <1>2
<1>11. StackOK(mem', active, 2)
  <2>1. \A a \in Floor(active[2]) .. Top - 1 : mem'[a] = mem[a]
    <3>1. \A a \in Floor(active[2]) .. Top - 1 : a \in SP .. Top - 1
      BY <1>4, <1>5, <1>6, <1>7 DEF b
    <3> QED BY <3>1, <1>10
  <2>2. 2 \in Nat /\ 2 >= 1 /\ 2 <= Len(active)
    BY <1>2
  <2> QED BY <2>1, <2>2, <1>2, <1>4, BelowUnharmed
<1>12. \A v : \A a \in Int : SP <= a /\ a + 2 <= Top /\ Holds(mem, a, v, 2) => Holds(mem', a, v, 2)
  <2> SUFFICES ASSUME NEW a \in Int, NEW v, SP <= a, a + 2 <= Top, Holds(mem, a, v, 2)
               PROVE  Holds(mem', a, v, 2)
    OBVIOUS
  <2>1. \A x \in a .. a + 2 - 1 : x \in SP .. Top - 1
    BY <1>6, <1>7
  <2>2. \A x \in a .. a + 2 - 1 : mem'[x] = mem[x]
    BY <2>1, <1>10
  <2>3. 2 \in {1, 2}
    OBVIOUS
  <2> QED BY <2>2, <2>3, HoldsSame
<1>13. Roof(d) = Floor(b) /\ Floor(d) = SP - 2 - R /\ 0 <= Floor(d)
  <2>1. Roof(d) = SP - 2 + 4 + 2 * n /\ Floor(d) = SP - 2 - R
    BY <1>8 DEF Roof, Floor, n, R
  <2>2. SP - 2 + 4 + 2 * n = Floor(b)
    BY <1>4, <1>5, <1>7
  <2>3. 0 <= SP - 2 - R
    BY <1>4, <1>5, <1>7
  <2> QED BY <2>1, <2>2, <2>3
<1>14. Link(mem', d, b)
  <2>1. Holds(mem', SP, ReturnAddress, 2)
    <3>1. SP + 2 <= Top
      BY <1>4, <1>5, <1>6, <1>7
    <3> QED BY <3>1, <1>4, <1>7, <1>12
  <2>2. SP - 2 + 2 = SP
    BY <1>7
  <2> QED BY <2>1, <2>2, <1>4, <1>8, <1>10 DEF Link
<1>15. VarsHold(mem', d)
  BY <1>4, <1>8 DEF VarsHold, Unset
<1>16. StackOK(mem', active', 1)
  <2>1. Roof(d) = Floor(active[2]) /\ Link(mem', d, active[2])
    BY <1>13, <1>14 DEF b
  <2> QED BY <2>1, <1>2, <1>8, <1>9, <1>11, <1>13, <1>15, FrameAdded
<1>17. active' \in Seq(Calls) /\ Len(active') = Len(active) /\ active'[1] = d
  BY <1>2, <1>8, <1>9, TopReplaced
<1>18. Chain(active')
  BY <1>2, <1>8, <1>9, ChainReplaced DEF c
<1>19. ArgsAt(mem', BP' + 2, d)
  <2> SUFFICES ASSUME NEW i \in 1 .. n PROVE Holds(mem', BP' + 2 + 2 * i, c.args[i], 2)
    BY <1>5, <1>8 DEF ArgsAt
  <2>1. BP' + 2 + 2 * i = SP + 2 * i /\ SP + 2 * i \in Int
    BY <1>1, <1>5, <1>7
  <2>2. Holds(mem, SP + 2 * i, c.args[i], 2)
    BY <1>4, <1>5 DEF ArgsAt
  <2>3. SP <= SP + 2 * i /\ SP + 2 * i + 2 <= Top
    BY <1>4, <1>5, <1>6, <1>7
  <2> QED BY <2>1, <2>2, <2>3, <1>12
<1>20. Entered'
  <2>1. SP' = Floor(d) /\ BP' = d.base
    BY <1>1, <1>3, <1>8, <1>13 DEF R
  <2> QED BY <2>1, <1>2, <1>4, <1>8, <1>16, <1>17, <1>19 DEF Entered
<1> QED BY <1>1, <1>2, <1>10, <1>17, <1>18, <1>20 DEF IInv

(* The parameters move into the frame, each into its slot.                  *)
LEMMA CopyParametersStep ==
  ASSUME WordParameters, IInv, CopyParameters
  PROVE  IInv'
<1> DEFINE c == active[1]
           d == [c EXCEPT !.holds = c.args]
           n == Len(Params[c.fun])
<1>1. /\ at = "parameters" /\ at' = "body" /\ BP' = BP /\ SP' = SP
      /\ active' = <<[Head(active) EXCEPT !.holds = Head(active).args]>> \o Tail(active)
  BY DEF CopyParameters
<1>2. /\ DOMAIN mem = 0 .. Top - 1 /\ active \in Seq(Calls) /\ Len(active) \in Nat
      /\ Chain(active) /\ Entered /\ Len(active) >= 2
  BY <1>1 DEF IInv, Entered
<1>3. Head(active) = c /\ c \in Calls /\ Me = c.fun
  BY <1>2 DEF Me
<1>4. /\ BP = c.base /\ SP = Floor(c) /\ ArgsAt(mem, BP + 2, c) /\ StackOK(mem, active, 1)
      /\ 0 <= Floor(c) /\ c.base <= Top
  <2>1. 1 \in 1 .. Len(active)
    BY <1>2
  <2> QED BY <2>1, <1>2 DEF Entered, StackOK
<1>5. /\ c.fun \in Functions /\ n \in Nat /\ Len(c.args) = n /\ DOMAIN c.args = 1 .. n
      /\ BP \in Int /\ Floor(c) \in Int /\ Reserved(c.fun) \in Nat
      /\ Floor(c) = BP - Reserved(c.fun) /\ Top \in Nat
  <2>1. /\ c.fun \in Functions /\ Len(c.args) = n /\ n \in Nat /\ c.args \in Seq(Val)
        /\ BP \in Int /\ Floor(c) \in Int /\ Reserved(c.fun) \in Nat
    BY <1>3, <1>4, CallFacts
  <2>2. DOMAIN c.args = 1 .. n
    BY <2>1
  <2> QED BY <2>1, <2>2, <1>4, FunAssumption DEF Floor
<1>6. c.fun \in Fun
  <2>1. 1 \in 1 .. Len(active) /\ Len(active) # 1
    <3>1. Len(active) \in Nat /\ Len(active) >= 2
      BY <1>2
    <3> QED BY <3>1, AtLeastTwo
  <2>2. c.fun # Main
    BY <2>1, <1>2 DEF Chain
  <2> QED BY <2>2, <1>5 DEF Functions
<1>7. /\ DOMAIN Params[c.fun] = 1 .. n
      /\ \A j \in 1 .. n : /\ j \in DOMAIN Slots(c.fun)
                           /\ Slots(c.fun)[j].offset = -2 * j /\ Slots(c.fun)[j].size = 2
  BY <1>6, ParameterFacts
<1>8. \A j \in 1 .. n : 2 * j <= Reserved(c.fun)
  <2> SUFFICES ASSUME NEW j \in 1 .. n PROVE 2 * j <= Reserved(c.fun)
    OBVIOUS
  <2>1. -Reserved(c.fun) <= Slots(c.fun)[j].offset
    BY <1>5, <1>7, FrameFacts
  <2> QED BY <2>1, <1>5, <1>7
<1>9. d \in Calls /\ d.fun = c.fun /\ d.args = c.args /\ d.dest = c.dest /\ d.base = c.base
      /\ d.holds = c.args
  <2>1. DOMAIN c.args \subseteq DOMAIN Slots(c.fun)
    BY <1>5, <1>7
  <2> HIDE DEF c
  <2> QED BY <2>1, <1>3, CallArguments
<1>10. active' = <<d>> \o Tail(active)
  BY <1>1, <1>3
<1> HIDE DEF d, c, n
<1> DEFINE moved(b) == {j \in DOMAIN Params[Me] : b \in ParameterBytes(j)}
           from(b)  == LET s == Slots(Me)[CHOOSE j \in moved(b) : TRUE]
                       IN mem[ParameterSource(s) + b - (BP + s.offset)]
<1>11. mem' = [b \in DOMAIN mem |-> IF moved(b) = {} THEN mem[b] ELSE from(b)]
  BY DEF CopyParameters
<1>12. \A j \in 1 .. n : ParameterBytes(j) = BP - 2 * j .. BP - 2 * j + 1
  <2> SUFFICES ASSUME NEW j \in 1 .. n
               PROVE  ParameterBytes(j) = BP - 2 * j .. BP - 2 * j + 1
    OBVIOUS
  <2>1. ParameterBytes(j) = BP + -2 * j .. BP + -2 * j + 2 - 1
    BY <1>3, <1>7 DEF ParameterBytes
  <2>2. BP + -2 * j = BP - 2 * j /\ BP + -2 * j + 2 - 1 = BP - 2 * j + 1
    BY <1>5
  <2> QED BY <2>1, <2>2
<1>13. ASSUME NEW j \in 1 .. n, NEW i \in {0, 1}
       PROVE  mem'[BP - 2 * j + i] = Byte(c.args[j], i)
  <2> DEFINE b == BP - 2 * j + i
  <2>1. b \in Int /\ b \in DOMAIN mem
    <3>1. 0 <= b /\ b < Top /\ b \in Int
      BY <1>4, <1>5, <1>8
    <3> QED BY <3>1, <1>2, <1>5
  <2>2. moved(b) = {j}
    <3>1. DOMAIN Params[Me] = 1 .. n
      BY <1>3, <1>7
    <3>2. b \in BP - 2 * j .. BP - 2 * j + 1
      BY <1>5
    <3>3. ASSUME NEW k \in 1 .. n, b \in BP - 2 * k .. BP - 2 * k + 1 PROVE k = j
      BY <3>3, <1>5
    <3> HIDE DEF b
    <3> QED BY <3>1, <3>2, <3>3, <1>12
  <2>3. (CHOOSE k \in moved(b) : TRUE) = j
    BY <2>2
  <2>4. from(b) = mem[ParameterSource(Slots(c.fun)[j]) + b - (BP + Slots(c.fun)[j].offset)]
    BY <2>3, <1>3
  <2>5. ParameterSource(Slots(c.fun)[j]) + b - (BP + Slots(c.fun)[j].offset) = BP + 2 + 2 * j + i
    <3>1. ParameterSource(Slots(c.fun)[j]) = BP - (-2 * j) + 2
      BY <1>7 DEF ParameterSource
    <3>2. BP + Slots(c.fun)[j].offset = BP + (-2 * j)
      BY <1>7
    <3>3. BP - (-2 * j) + 2 + b - (BP + (-2 * j)) = BP + 2 + 2 * j + i
      BY <1>5
    <3> QED BY <3>1, <3>2, <3>3
  <2>6. mem'[b] = from(b)
    <3> HIDE DEF b, from
    <3>1. moved(b) # {}
      BY <2>2
    <3> HIDE DEF moved
    <3> QED BY <3>1, <2>1, <1>11
  <2>7. mem[BP + 2 + 2 * j + i] = Byte(c.args[j], i)
    <3>1. Holds(mem, BP + 2 + 2 * j, c.args[j], 2)
      BY <1>4, <1>5 DEF ArgsAt
    <3>2. i \in 0 .. 2 - 1
      OBVIOUS
    <3> QED BY <3>1, <3>2 DEF Holds
  <2> HIDE DEF from
  <2> QED BY <2>4, <2>5, <2>6, <2>7
<1>14. VarsHold(mem', d)
  <2> SUFFICES ASSUME NEW j \in 1 .. n
               PROVE  Holds(mem', BP + Slots(c.fun)[j].offset, c.args[j], Slots(c.fun)[j].size)
    BY <1>4, <1>5, <1>9 DEF VarsHold
  <2>1. BP + Slots(c.fun)[j].offset = BP - 2 * j /\ Slots(c.fun)[j].size = 2
    BY <1>5, <1>7
  <2>2. Holds(mem', BP - 2 * j, c.args[j], 2)
    <3> SUFFICES ASSUME NEW i \in 0 .. 2 - 1 PROVE mem'[BP - 2 * j + i] = Byte(c.args[j], i)
      BY DEF Holds
    <3>1. i \in {0, 1}
      OBVIOUS
    <3> QED BY <3>1, <1>13
  <2> QED BY <2>1, <2>2
<1>15. ASSUME NEW a \in d.base .. Top - 1 PROVE mem'[a] = mem[a]
  <2>1. a \in BP .. Top - 1
    BY <1>4, <1>9
  <2>2. a \in 0 .. Top - 1
    BY <2>1, <1>4, <1>5
  <2>3. \A j \in 1 .. n : a \notin BP - 2 * j .. BP - 2 * j + 1
    BY <2>1, <1>5
  <2>4. moved(a) = {}
    BY <2>3, <1>3, <1>7, <1>12
  <2> HIDE DEF moved, from
  <2> QED BY <2>2, <2>4, <1>2, <1>11
<1>16. DOMAIN mem' = 0 .. Top - 1
  <2> HIDE DEF moved, from
  <2> QED BY <1>2, <1>11
<1>17. StackOK(mem', active', 1)
  <2>1. d.fun = active[1].fun /\ d.base = active[1].base
    BY <1>9 DEF c
  <2>2. \A a \in d.base .. Top - 1 : mem'[a] = mem[a]
    BY <1>15
  <2>3. Len(active) >= 1
    BY <1>2
  <2>4. StackOK(mem', <<d>> \o Tail(active), 1)
    BY <2>1, <2>2, <2>3, <1>2, <1>4, <1>9, <1>14, TopChanged
  <2> QED BY <2>4, <1>10
<1>18. active' \in Seq(Calls) /\ Len(active') = Len(active) /\ active'[1] = d
  BY <1>2, <1>9, <1>10, TopReplaced
<1>19. Chain(active')
  BY <1>2, <1>9, <1>10, ChainReplaced DEF c
<1>20. Running'
  BY <1>1, <1>4, <1>9, <1>17, <1>18 DEF Running, Floor
<1> QED BY <1>1, <1>2, <1>16, <1>18, <1>19, <1>20 DEF IInv

(* RET finds the way back: what is left is the caller's frame, and SP below *)
(* it.                                                                      *)
LEMMA FuncEndStep ==
  ASSUME WordParameters, IInv, NEW v \in Val, FuncEnd(v)
  PROVE  IInv'
<1> DEFINE c == active[1]
           b == active[2]
           n == Len(Params[c.fun])
           frameEnd == SP + Unreserved(Me)
           saved    == WordAt(mem, frameEnd)
<1>1. at = "body" /\ Me # Main /\ active' = active
  BY DEF FuncEnd
<1>2. /\ DOMAIN mem = 0 .. Top - 1 /\ active \in Seq(Calls) /\ Len(active) >= 1
      /\ Len(active) \in Nat /\ Chain(active) /\ Running
      /\ Me = c.fun /\ c \in Calls
  BY <1>1, InBody
<1>3. Len(active) >= 2
  <2>1. 1 \in 1 .. Len(active) /\ c.fun # Main
    BY <1>1, <1>2
  <2>2. 1 # Len(active)
    BY <2>1, <1>2 DEF Chain
  <2>3. Len(active) \in Nat /\ Len(active) >= 1
    BY <1>2
  <2> QED BY <2>2, <2>3, AboveOne
<1>4. b \in Calls
  BY <1>2, <1>3
<1>5. /\ c.fun \in Functions /\ n \in Nat /\ c.base \in Int /\ Reserved(c.fun) \in Nat
      /\ b.base \in Int /\ Floor(b) \in Int /\ Floor(b) <= b.base
      /\ Floor(c) = c.base - Reserved(c.fun)
  BY <1>2, <1>4, CallFacts DEF Floor
<1>6. /\ BP = c.base /\ SP = Floor(c) /\ StackOK(mem, active, 1)
  BY <1>2 DEF Running
<1>7. /\ Roof(c) = Floor(b) /\ Link(mem, c, b)
  <2>1. 1 \in 1 .. Len(active) /\ 1 < Len(active)
    BY <1>2, <1>3
  <2> QED BY <2>1, <1>6 DEF StackOK
<1>8. 0 <= Floor(b) /\ b.base <= Top /\ Top \in Nat
  <2>1. 2 \in 1 .. Len(active)
    BY <1>2, <1>3
  <2> QED BY <2>1, <1>6, FunAssumption DEF StackOK
<1> HIDE DEF b, c, n
<1>9. frameEnd = c.base
  <2>1. Unreserved(Me) = Reserved(c.fun)
    BY <1>2, <1>5, FrameFacts
  <2> QED BY <2>1, <1>5, <1>6
<1> HIDE DEF frameEnd
<1>10. saved = SavedBP(b.base) /\ WordAt(mem, frameEnd + 2) = ReturnAddress
  <2>1. c.base + 2 \in Int
    BY <1>5
  <2> QED BY <2>1, <1>5, <1>7, <1>9, WordRead DEF Link
<1>11. saved \in {SavedBP(k) : k \in 0 .. Top} /\ saved[2] = b.base
  <2>1. b.base \in 0 .. Top
    BY <1>5, <1>8
  <2>2. SavedBP(b.base)[2] = b.base
    BY DEF SavedBP
  <2> HIDE DEF saved
  <2> QED BY <2>1, <2>2, <1>10
<1>12. /\ BP' = saved[2] /\ SP' = frameEnd + 4 + Popped(Me) /\ mem' = Released(mem, SP')
       /\ BX' = v /\ at' = "result"
  BY <1>10, <1>11 DEF FuncEnd, frameEnd
<1>13. c.fun \in Fun
  BY <1>1, <1>2, <1>5 DEF Functions
<1>14. SP' = Floor(b)
  <2>1. Popped(Me) = 2 * n
    BY <1>2, <1>13, ParameterFacts DEF n
  <2>2. Roof(c) = c.base + 4 + 2 * n
    BY DEF Roof, n
  <2> QED BY <2>1, <2>2, <1>7, <1>9, <1>12
<1>15. DOMAIN mem' = 0 .. Top - 1 /\ \A a \in Floor(b) .. Top - 1 : mem'[a] = mem[a]
  <2>1. DOMAIN mem' = 0 .. Top - 1
    BY <1>2, <1>12 DEF Released
  <2>2. ASSUME NEW a \in Floor(b) .. Top - 1 PROVE mem'[a] = mem[a]
    <3>1. a \in DOMAIN mem /\ ~ (a < SP')
      BY <1>2, <1>5, <1>8, <1>14
    <3> QED BY <3>1, <1>12 DEF Released
  <2> QED BY <2>1, <2>2
<1>16. StackOK(mem', active, 2)
  <2>1. StackOK(mem, active, 2)
    BY <1>2, <1>6, TopLeftOut
  <2>2. 2 \in Nat /\ 2 >= 1 /\ 2 <= Len(active)
    BY <1>2, <1>3
  <2> QED BY <2>1, <2>2, <1>2, <1>15, BelowUnharmed DEF b
<1>17. Answered'
  BY <1>1, <1>3, <1>11, <1>12, <1>14, <1>16 DEF Answered, b
<1> QED BY <1>1, <1>2, <1>12, <1>15, <1>17 DEF IInv

(* The caller stores the result, in its own frame. *)
LEMMA TakeResultStep ==
  ASSUME IInv, TakeResult
  PROVE  IInv'
<1> DEFINE b == active[2]
           j == Head(active).dest
           s == Tail(active)
           d == Knows(b, j, BX)
<1>1. /\ at = "result" /\ at' = "body" /\ BP' = BP /\ SP' = SP
      /\ mem' = Stored(mem, BP + Slots(b.fun)[j].offset, BX, 2)
      /\ active' = <<d>> \o Tail(s)
  BY DEF TakeResult
<1>2. /\ DOMAIN mem = 0 .. Top - 1 /\ active \in Seq(Calls) /\ Len(active) \in Nat
      /\ Chain(active) /\ Answered /\ Len(active) >= 2
  BY <1>1 DEF IInv, Answered
<1>3. BP = b.base /\ SP = Floor(b) /\ BX \in Val /\ StackOK(mem, active, 2)
  BY <1>2 DEF Answered
<1>4. /\ s \in Seq(Calls) /\ Len(s) = Len(active) - 1 /\ s[1] = b /\ b \in Calls
      /\ Head(active) = active[1]
  <2>1. 1 \in 1 .. Len(active) - 1 /\ 1 + 1 = 2 /\ Len(active) >= 1
    BY <1>2
  <2>2. /\ s \in Seq(Calls) /\ Len(s) = Len(active) - 1
        /\ \A k \in 1 .. Len(active) - 1 : s[k] = active[k + 1]
    BY <2>1, <1>2, TopTaken
  <2>3. s[1] = active[1 + 1]
    BY <2>1, <2>2
  <2> QED BY <2>1, <2>2, <2>3, <1>2
<1>5. j \in DOMAIN Slots(b.fun) /\ Slots(b.fun)[j].size = 2
  <2>1. 1 \in 1 .. Len(active) /\ 1 < Len(active) /\ 1 + 1 = 2
    BY <1>2
  <2> QED BY <2>1, <1>2, <1>4 DEF Chain
<1>6. StackOK(mem, s, 1) /\ Chain(s) /\ Len(s) >= 1
  BY <1>2, <1>3, <1>4, Returned, ChainReturned
<1> HIDE DEF s, j
<1>7. StackOK(mem', <<Knows(s[1], j, BX)>> \o Tail(s), 1) /\ DOMAIN mem' = 0 .. Top - 1
  <2> HIDE DEF b
  <2>1. mem' = Stored(mem, s[1].base + Slots(s[1].fun)[j].offset, BX, Slots(s[1].fun)[j].size)
    BY <1>1, <1>3, <1>4, <1>5
  <2>2. DOMAIN mem = 0 .. Top - 1 /\ BX \in Val
    BY <1>2, <1>3
  <2>3. s \in Seq(Calls) /\ Len(s) >= 1 /\ Chain(s) /\ StackOK(mem, s, 1)
    BY <1>4, <1>6
  <2>4. j \in DOMAIN Slots(s[1].fun)
    BY <1>4, <1>5
  <2> QED BY <2>1, <2>2, <2>3, <2>4, VariableStored
<1>8. d \in Calls /\ d.fun = b.fun /\ d.base = b.base /\ d.dest = b.dest
  <2> HIDE DEF b
  <2>1. Updated(b, d, j, BX)
    BY <1>3, <1>4, <1>5, CallKnows
  <2> HIDE DEF d
  <2> QED BY <2>1 DEF Updated
<1> HIDE DEF d
<1>9. active' \in Seq(Calls) /\ Len(active') = Len(s) /\ active'[1] = d
  BY <1>1, <1>4, <1>6, <1>8, TopReplaced
<1>10. Chain(active')
  BY <1>1, <1>4, <1>6, <1>8, ChainReplaced
<1>11. StackOK(mem', active', 1)
  BY <1>1, <1>4, <1>7 DEF d
<1>12. Running'
  BY <1>1, <1>3, <1>8, <1>9, <1>11 DEF Running, Floor
<1> QED BY <1>1, <1>6, <1>7, <1>9, <1>10, <1>12 DEF IInv

(* Every step keeps the frames apart and the way back in place.             *)
LEMMA IInvNext == WordParameters /\ IInv /\ [Next]_vars => IInv'
<1> SUFFICES ASSUME WordParameters, IInv, [Next]_vars PROVE IInv'
  OBVIOUS
<1>1. ASSUME NEW j \in DOMAIN Slots(Me), NEW v \in Val, Store(j, v) PROVE IInv'
  BY <1>1, StoreStep
<1>2. ASSUME NEW f \in Fun, NEW dest \in Results,
             NEW ops \in [DOMAIN Params[f] -> UNION {Operands(size) : size \in Size}],
             \A i \in DOMAIN ops : ops[i] \in Operands(Params[f][i]),
             CallInstr(f, ops, dest)
      PROVE  IInv'
  <2>1. DOMAIN ops = DOMAIN Params[f]
    OBVIOUS
  <2> QED BY <2>1, <1>2, CallInstrStep
<1>3. CASE FuncStart
  BY <1>3, FuncStartStep
<1>4. CASE CopyParameters
  BY <1>4, CopyParametersStep
<1>5. ASSUME NEW v \in Val, FuncEnd(v) PROVE IInv'
  BY <1>5, FuncEndStep
<1>6. CASE TakeResult
  BY <1>6, TakeResultStep
<1>7. CASE UNCHANGED vars
  BY <1>7 DEF vars, IInv, Started, Entered, Running, Answered
<1> QED BY <1>1, <1>2, <1>3, <1>4, <1>5, <1>6, <1>7 DEF Next

-----------------------------------------------------------------------------
(* In every reachable state of a program whose parameters are words.        *)
THEOREM Invariance == ASSUME WordParameters PROVE Spec => []IInv
BY IInvInit, IInvNext, PTL DEF Spec

(* Every variable of every active call has the value the program gave it    *)
(* last, whatever was called in between.                                    *)
THEOREM VariablesKept == ASSUME WordParameters PROVE Spec => []VariablesHold
<1>1. IInv => VariablesHold
  <2> SUFFICES ASSUME IInv, NEW k \in Alive, NEW j \in DOMAIN active[k].holds
               PROVE  Holds(mem, active[k].base + Slots(active[k].fun)[j].offset,
                            active[k].holds[j], Slots(active[k].fun)[j].size)
    BY DEF VariablesHold
  <2>1. k \in 1 .. Len(active) /\ (k > 1 \/ at # "result") /\ Len(active) \in Nat
    BY DEF Alive, IInv
  <2>2. CASE k > 1
    <3>1. \E i \in {1, 2} : StackOK(mem, active, i)
      BY DEF IInv, Started, Entered, Running, Answered
    <3>2. VarsHold(mem, active[k])
      BY <2>1, <2>2, <3>1 DEF StackOK
    <3> QED BY <3>2 DEF VarsHold
  <2>3. CASE k = 1 /\ at = "start"
    BY <2>3 DEF IInv, Started, Unset
  <2>4. CASE k = 1 /\ at # "start"
    <3>1. StackOK(mem, active, 1)
      BY <2>1, <2>4 DEF IInv, Entered, Running
    <3>2. VarsHold(mem, active[k])
      BY <2>1, <3>1 DEF StackOK
    <3> QED BY <3>2 DEF VarsHold
  <2> QED BY <2>1, <2>2, <2>3, <2>4
<1> QED BY <1>1, Invariance, PTL

(* Returning undoes a call: a body runs with BP at its own frame and SP     *)
(* right below it.                                                          *)
THEOREM StackStaysBalanced == ASSUME WordParameters PROVE Spec => []StackBalanced
<1>1. IInv => StackBalanced
  BY DEF IInv, Running, StackBalanced, Floor, Me
<1> QED BY <1>1, Invariance, PTL

(* RET always finds the address CALL pushed, and POP BP the caller's frame. *)
THEOREM ControlStaysKept == ASSUME WordParameters PROVE Spec => []ControlKept
<1>1. IInv => ControlKept
  BY DEF IInv, ControlKept
<1> QED BY <1>1, Invariance, PTL

=============================================================================
