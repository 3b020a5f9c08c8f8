----------------------------- MODULE Containers ------------------------------
(***************************************************************************)
(* The containers of the compiler as they lie in memory: chains of nodes   *)
(* that malloc gives and free takes back, hash tables with buckets that    *)
(* are moved to a larger array when they fill up, a queue whose tail is    *)
(* not looked after when its last node goes.  All of them share one heap:  *)
(* the node one container frees may be the next one another one gets.      *)
(***************************************************************************)
EXTENDS Naturals, Sequences, FiniteSets, SequencesExt, Functions

CONSTANTS Key, Value, SetName, NULL,
          MapName,    \* the hash map
          Node,       \* the memory: bounds how many nodes there are at a time
          Capacity,   \* what hashset_create and createHashMap are asked for
          Uses,       \* the containers that are used together
          hash(_)     \* the hash function of the keys

Table == SetName \cup {MapName}

ASSUME NamesApart ==
    /\ MapName \notin SetName /\ NULL \notin Node \cup Value
    /\ Table \cap {"queue", "stack", "list"} = {}
    /\ Uses \subseteq SUBSET (Table \cup {"queue", "stack", "list"})

ASSUME MemoryIsFinite == IsFiniteSet(Node)

(* unsigned numbers *)
ASSUME NumbersAreNatural == Capacity \in Nat /\ \A k \in Key : hash(k) \in Nat

MINIMUM_CAPACITY == 5    \* MINIMUM_HASHSET_CAPACITY, MINIMUM_HASHMAP_CAPACITY
GROWTH_FACTOR == 2

VARIABLES heap,     \* the nodes: what is in them, Freed if nobody has them
          table,    \* the hash tables: buckets and size
          queue,    \* head, tail and size
          stack,    \* head and size
          list,     \* head and size
          answer,   \* what the last operation returned
          inUse     \* the containers of this part of the compiler

vars == <<heap, table, queue, stack, list, answer, inUse>>

Pointer == Node \cup {NULL}

Freed == [key |-> NULL, value |-> NULL, next |-> NULL, used |-> FALSE]
NewNode(k, v, n) == [key |-> k, value |-> v, next |-> n, used |-> TRUE]

(* malloc gives a node nobody has. *)
Unused(h) == {n \in Node : ~ h[n].used}
free(h, n) == [h EXCEPT ![n] = Freed]
free_all(h, S) == [n \in Node |-> IF n \in S THEN Freed ELSE h[n]]

(* The nodes from p on, as following next finds them.  A chain that should *)
(* not be a circle may be one: at most so many nodes are followed that some *)
(* node must have been met twice.                                           *)
Chain(h, p) ==
    LET follow[n \in 0..(Cardinality(Node) + 1)] ==
            IF n = 0 THEN [q \in Pointer |-> <<>>]
            ELSE [q \in Pointer |-> IF q = NULL THEN <<>>
                                    ELSE <<q>> \o follow[n - 1][h[q].next]]
    IN  follow[Cardinality(Node) + 1][p]

-----------------------------------------------------------------------------
(* Hash tables. *)

create ==
    LET c == IF Capacity < MINIMUM_CAPACITY THEN MINIMUM_CAPACITY ELSE Capacity
    IN  [buckets |-> [i \in 0..(c - 1) |-> NULL], capacity |-> c, size |-> 0]

bucket(t, k) == hash(k) % t.capacity

(* The nodes of a table in the order in which the loops over it meet them. *)
Walk(h, t) ==
    LET walk[i \in 0..t.capacity] ==
            IF i = 0 THEN <<>> ELSE walk[i - 1] \o Chain(h, t.buckets[i - 1])
    IN  walk[t.capacity]

(* Where k is in its bucket: a lookup takes the first node that holds it.  *)
Found(h, t, k) ==
    LET nodes == Chain(h, t.buckets[bucket(t, k)])
    IN  {i \in DOMAIN nodes : h[nodes[i]].key = k}

contains(h, t, k) == Found(h, t, k) # {}
lookup(h, t, k) == Chain(h, t.buckets[bucket(t, k)])[Min(Found(h, t, k))]
get(h, t, k) == IF contains(h, t, k) THEN h[lookup(h, t, k)].value ELSE NULL

(* Node n goes to the front of bucket b. *)
at_front(m, n, b) ==
    [heap |-> [m.heap EXCEPT ![n].next = m.table.buckets[b]],
     table |-> [m.table EXCEPT !.buckets[b] = n]]

larger(t) ==
    LET c == GROWTH_FACTOR * t.capacity
    IN  [buckets |-> [i \in 0..(c - 1) |-> NULL], capacity |-> c, size |-> t.size]

(* Node after node moves to its bucket in an array of twice the size. *)
expand_keeps_the_indices(h, t) ==
    LET nodes == Walk(h, t)
        moved[i \in 0..Len(nodes)] ==
            IF i = 0 THEN [heap |-> h, table |-> larger(t)]
            ELSE LET m == moved[i - 1]
                 IN  at_front(m, nodes[i], bucket(t, m.heap[nodes[i]].key))
    IN  moved[Len(nodes)]

expand(h, t) ==
    LET nodes == Walk(h, t)
        moved[i \in 0..Len(nodes)] ==
            IF i = 0 THEN [heap |-> h, table |-> larger(t)]
            ELSE LET m == moved[i - 1]
                 IN  at_front(m, nodes[i], bucket(m.table, m.heap[nodes[i]].key))
    IN  moved[Len(nodes)]

(* The load factor of 0.7 is kept in integers. *)
TooFull(t) == 10 * (t.size + 1) > 7 * t.capacity

(* A key that is not there goes to the front of its bucket, into node n;   *)
(* the table grows first, and the bucket is the one in the grown table.    *)
add_node_in_the_old_bucket(h, t, k, v, n) ==
    LET m == IF TooFull(t) THEN expand(h, t) ELSE [heap |-> h, table |-> t]
        b == bucket(t, k)
    IN  [heap |-> [m.heap EXCEPT ![n] = NewNode(k, v, m.table.buckets[b])],
         table |-> [m.table EXCEPT !.buckets[b] = n, !.size = @ + 1]]
add_node(h, t, k, v, n) ==
    LET m == IF TooFull(t) THEN expand(h, t) ELSE [heap |-> h, table |-> t]
        b == bucket(m.table, k)
    IN  [heap |-> [m.heap EXCEPT ![n] = NewNode(k, v, m.table.buckets[b])],
         table |-> [m.table EXCEPT !.buckets[b] = n, !.size = @ + 1]]

hashset_insert(s, k) ==
    /\ IF contains(heap, table[s], k)
       THEN answer' = FALSE /\ UNCHANGED <<heap, table>>
       ELSE \E n \in Unused(heap) :
                LET m == add_node(heap, table[s], k, NULL, n)
                IN  /\ heap' = m.heap
                    /\ table' = [table EXCEPT ![s] = m.table]
                    /\ answer' = TRUE
    /\ UNCHANGED <<queue, stack, list>>

(* Node i of bucket b, whose nodes are given, leaves its chain. *)
unlink_from_head(h, t, b, nodes, i) ==
    [heap |-> free(h, nodes[i]),
     table |-> [t EXCEPT !.size = @ - 1, !.buckets[b] = h[nodes[i]].next]]
unlink(h, t, b, nodes, i) ==
    LET after == h[nodes[i]].next
        smaller == [t EXCEPT !.size = @ - 1]
    IN  IF i = 1
        THEN [heap |-> free(h, nodes[i]),
              table |-> [smaller EXCEPT !.buckets[b] = after]]
        ELSE [heap |-> free([h EXCEPT ![nodes[i - 1]].next = after], nodes[i]),
              table |-> smaller]

hashset_remove(s, k) ==
    /\ LET b == bucket(table[s], k)
           nodes == Chain(heap, table[s].buckets[b])
           places == Found(heap, table[s], k)
       IN  /\ answer' = (places # {})
           /\ IF places = {} THEN UNCHANGED <<heap, table>>
              ELSE LET m == unlink(heap, table[s], b, nodes, Min(places))
                   IN  /\ heap' = m.heap
                       /\ table' = [table EXCEPT ![s] = m.table]
    /\ UNCHANGED <<queue, stack, list>>

(* The keys of t that s lacks, and what is made of s when the nodes of t    *)
(* are met one by one; at[k] is the node malloc gives for k.                *)
Lacking(h, s, t) ==
    {k \in {h[n].key : n \in ToSet(Walk(h, t))} : ~ contains(h, s, k)}

united(h, s, t, at) ==
    LET nodes == Walk(h, t)
        grown[i \in 0..Len(nodes)] ==
            IF i = 0 THEN [heap |-> h, table |-> s]
            ELSE LET m == grown[i - 1]
                     k == h[nodes[i]].key
                 IN  IF contains(m.heap, m.table, k) THEN m
                     ELSE add_node(m.heap, m.table, k, NULL, at[k])
    IN  grown[Len(nodes)]

hashset_union(s, t) ==
    /\ LET lacking == Lacking(heap, table[s], table[t])
       IN  \E at \in Injection(lacking, Unused(heap)) :
               LET m == united(heap, table[s], table[t], at)
               IN  /\ heap' = m.heap
                   /\ table' = [table EXCEPT ![s] = m.table]
                   /\ answer' = (lacking # {})
    /\ UNCHANGED <<queue, stack, list>>

(* The array of buckets stays as large as it has become. *)
hashset_clear_keeps_size(s) ==
    /\ heap' = free_all(heap, ToSet(Walk(heap, table[s])))
    /\ table' = [table EXCEPT ![s].buckets = [i \in DOMAIN @ |-> NULL]]
    /\ answer' = NULL
    /\ UNCHANGED <<queue, stack, list>>
hashset_clear(s) ==
    /\ heap' = free_all(heap, ToSet(Walk(heap, table[s])))
    /\ table' = [table EXCEPT ![s].buckets = [i \in DOMAIN @ |-> NULL],
                              ![s].size = 0]
    /\ answer' = NULL
    /\ UNCHANGED <<queue, stack, list>>

hashmap_insert(k, v) ==
    /\ LET t == table[MapName]
       IN  IF contains(heap, t, k)
           THEN /\ heap' = [heap EXCEPT ![lookup(heap, t, k)].value = v]
                /\ UNCHANGED table
           ELSE \E n \in Unused(heap) :
                    LET m == add_node(heap, t, k, v, n)
                    IN  /\ heap' = m.heap
                        /\ table' = [table EXCEPT ![MapName] = m.table]
    /\ answer' = NULL
    /\ UNCHANGED <<queue, stack, list>>

-----------------------------------------------------------------------------
(* Queue.c.  When the last node is dequeued tail keeps pointing at it. *)

EmptyQueue == [head |-> NULL, tail |-> NULL, size |-> 0]

queue_enqueue(v) ==
    /\ \E n \in Unused(heap) :
           LET made == [heap EXCEPT ![n] = NewNode(NULL, v, NULL)]
           IN  IF queue.tail = NULL \/ queue.size = 0
               THEN /\ heap' = made
                    /\ queue' = [head |-> n, tail |-> n, size |-> queue.size + 1]
               ELSE /\ heap' = [made EXCEPT ![queue.tail].next = n]
                    /\ queue' = [queue EXCEPT !.tail = n, !.size = @ + 1]
    /\ answer' = NULL
    /\ UNCHANGED <<table, stack, list>>

queue_dequeue ==
    /\ IF queue.head = NULL \/ queue.size = 0
       THEN answer' = NULL /\ UNCHANGED <<heap, queue>>
       ELSE /\ answer' = heap[queue.head].value
            /\ heap' = free(heap, queue.head)
            /\ queue' = [queue EXCEPT !.head = heap[queue.head].next, !.size = @ - 1]
    /\ UNCHANGED <<table, stack, list>>

-----------------------------------------------------------------------------
(* Stack.c and LinkedList.c: chains that are known by their first node. *)

EmptyChain == [head |-> NULL, size |-> 0]

Pushed(c, v, n) ==
    /\ heap' = [heap EXCEPT ![n] = NewNode(NULL, v, c.head)]
    /\ answer' = NULL

stack_push(v) ==
    /\ \E n \in Unused(heap) :
           /\ Pushed(stack, v, n)
           /\ stack' = [head |-> n, size |-> stack.size + 1]
    /\ UNCHANGED <<table, queue, list>>

stack_pop ==
    /\ IF stack.size = 0
       THEN answer' = NULL /\ UNCHANGED <<heap, stack>>
       ELSE /\ answer' = heap[stack.head].value
            /\ heap' = free(heap, stack.head)
            /\ stack' = [head |-> heap[stack.head].next, size |-> stack.size - 1]
    /\ UNCHANGED <<table, queue, list>>

linkedlist_push(v) ==
    /\ \E n \in Unused(heap) :
           /\ Pushed(list, v, n)
           /\ list' = [head |-> n, size |-> list.size + 1]
    /\ UNCHANGED <<table, queue, stack>>

(* At the end, which is looked for from the head. *)
linkedlist_add(v) ==
    /\ \E n \in Unused(heap) :
           LET made == [heap EXCEPT ![n] = NewNode(NULL, v, NULL)]
           IN  /\ heap' = IF list.head = NULL THEN made
                          ELSE [made EXCEPT ![Last(Chain(heap, list.head))].next = n]
               /\ list' = [head |-> IF list.head = NULL THEN n ELSE list.head,
                           size |-> list.size + 1]
    /\ answer' = NULL
    /\ UNCHANGED <<table, queue, stack>>

linkedlist_pop ==
    /\ IF list.head = NULL
       THEN answer' = NULL /\ UNCHANGED <<heap, list>>
       ELSE /\ answer' = heap[list.head].value
            /\ heap' = free(heap, list.head)
            /\ list' = [head |-> heap[list.head].next, size |-> list.size - 1]
    /\ UNCHANGED <<table, queue, stack>>

-----------------------------------------------------------------------------
Init ==
    /\ heap = [n \in Node |-> Freed]
    /\ table = [t \in Table |-> create]
    /\ queue = EmptyQueue /\ stack = EmptyChain /\ list = EmptyChain
    /\ answer = NULL
    /\ inUse \in Uses

OnSets ==
    \/ \E s \in SetName \cap inUse, k \in Key :
           hashset_insert(s, k) \/ hashset_remove(s, k)
    \/ \E s, t \in SetName \cap inUse : s # t /\ hashset_union(s, t)
    \/ \E s \in SetName \cap inUse : hashset_clear(s)

OnMap ==
    /\ MapName \in inUse
    /\ \E k \in Key, v \in Value : hashmap_insert(k, v)

OnQueue ==
    /\ "queue" \in inUse
    /\ queue_dequeue \/ \E v \in Value : queue_enqueue(v)

OnStack ==
    /\ "stack" \in inUse
    /\ stack_pop \/ \E v \in Value : stack_push(v)

OnList ==
    /\ "list" \in inUse
    /\ linkedlist_pop \/ \E v \in Value : linkedlist_push(v) \/ linkedlist_add(v)

Next ==
    /\ OnSets \/ OnMap \/ OnQueue \/ OnStack \/ OnList
    /\ UNCHANGED inUse

Spec == Init /\ [][Next]_vars

-----------------------------------------------------------------------------
(* Every structure has its type, and its size field is the number of its   *)
(* nodes.                                                                  *)
TypeOK ==
    /\ heap \in [Node -> [key : Key \cup {NULL}, value : Value \cup {NULL},
                          next : Pointer, used : BOOLEAN]]
    /\ \A t \in Table :
           /\ table[t].buckets \in [0..(table[t].capacity - 1) -> Pointer]
           /\ table[t].size = Len(Walk(heap, table[t]))
    /\ queue.head \in Pointer /\ queue.tail \in Pointer
    /\ queue.size = Len(Chain(heap, queue.head))
    /\ stack.size = Len(Chain(heap, stack.head))
    /\ list.size = Len(Chain(heap, list.head))
    /\ answer \in BOOLEAN \cup Value \cup {NULL}

(* Nobody reaches memory that was freed, no node belongs to two containers *)
(* or twice to one, and every node that malloc gave and free did not take  *)
(* back can still be reached: nothing dangles, is shared or leaks, whoever *)
(* gets the nodes others have freed.  The queue goes on behind its last    *)
(* node, whatever its tail was while it was empty.                         *)
OneOwner ==
    LET owners(n) ==
            Cardinality({t \in Table : n \in ToSet(Walk(heap, table[t]))}) +
            Cardinality({c \in {"queue", "stack", "list"} :
                n \in ToSet(Chain(heap, CASE c = "queue" -> queue.head
                                          [] c = "stack" -> stack.head
                                          [] c = "list" -> list.head))})
    IN  /\ \A n \in Node : owners(n) = IF heap[n].used THEN 1 ELSE 0
        /\ \A t \in Table : IsInjective(Walk(heap, table[t]))
        /\ queue.size > 0 =>
               LET nodes == Chain(heap, queue.head)
               IN  nodes # <<>> /\ queue.tail = Last(nodes)

(* A lookup in the one bucket it looks at finds exactly what is anywhere   *)
(* in the table, whatever expand and remove have done to the chains, and   *)
(* the load stays within the factor of 0.7.                                *)
FindableInItsBucket ==
    \A t \in Table :
        /\ \A k \in Key :
               Cardinality(Found(heap, table[t], k)) =
               Cardinality({n \in ToSet(Walk(heap, table[t])) : heap[n].key = k})
        /\ 10 * table[t].size <= 7 * table[t].capacity

-----------------------------------------------------------------------------
(* The values the containers stand for. *)

Values(p) == [i \in 1..Len(Chain(heap, p)) |-> heap[Chain(heap, p)[i]].value]
Elements(t) == {heap[n].key : n \in ToSet(Walk(heap, t))}

Promised == INSTANCE Collections WITH
    sets <- [s \in SetName |-> Elements(table[s])],
    map <- [k \in Key |-> get(heap, table[MapName], k)],
    queue <- Values(queue.head),
    stack <- Values(stack.head),
    list <- Values(list.head)

(* Used through their operations, the containers are sets, a map and       *)
(* sequences, and every operation returns what it would for those.         *)
KeepsItsPromise == Promised!Spec
=============================================================================
