----------------------------- MODULE Collections -----------------------------
(***************************************************************************)
(* What the compiler relies on when it uses HashSet.c, HashMap.c, Queue.c, *)
(* Stack.c and LinkedList.c: sets, a partial function and sequences, and   *)
(* what the operations that change them return.  The other modules of this *)
(* project use these values directly; Containers is the code with its      *)
(* nodes and buckets, and is shown to implement this specification.        *)
(***************************************************************************)
EXTENDS Sequences

CONSTANTS Key,      \* what is put into sets and looked up in maps
          Value,    \* what is stored under a key or put into a sequence
          SetName,  \* the sets: live_in, live_out, seen, used_at_all, ...
          NULL      \* no value

VARIABLES sets,     \* the elements of each set
          map,      \* the value of each key, NULL where there is none
          queue,    \* first in, first out (tokens, worklist)
          stack,    \* last in, first out (states and nodes of the parser)
          list,     \* used from both ends (scopes, strings)
          answer    \* what the last operation returned

vars == <<sets, map, queue, stack, list, answer>>

Init ==
    /\ sets = [s \in SetName |-> {}]
    /\ map = [k \in Key |-> NULL]
    /\ queue = <<>> /\ stack = <<>> /\ list = <<>>
    /\ answer = NULL

-----------------------------------------------------------------------------
(* Sets and the map. *)

OnlySets == UNCHANGED <<map, queue, stack, list>>

Insert(s, k) ==
    /\ answer' = (k \notin sets[s])
    /\ sets' = [sets EXCEPT ![s] = @ \cup {k}]
    /\ OnlySets

Remove(s, k) ==
    /\ answer' = (k \in sets[s])
    /\ sets' = [sets EXCEPT ![s] = @ \ {k}]
    /\ OnlySets

Union(s, t) ==
    /\ answer' = ~ (sets[t] \subseteq sets[s])
    /\ sets' = [sets EXCEPT ![s] = @ \cup sets[t]]
    /\ OnlySets

Clear(s) ==
    /\ answer' = NULL
    /\ sets' = [sets EXCEPT ![s] = {}]
    /\ OnlySets

Put(k, v) ==
    /\ answer' = NULL
    /\ map' = [map EXCEPT ![k] = v]
    /\ UNCHANGED <<sets, queue, stack, list>>

-----------------------------------------------------------------------------
(* Sequences.  Taking from an empty one changes nothing and gives NULL. *)

First(seq) == IF seq = <<>> THEN NULL ELSE Head(seq)
Rest(seq) == IF seq = <<>> THEN <<>> ELSE Tail(seq)

Enqueue(v) ==
    /\ queue' = Append(queue, v)
    /\ answer' = NULL
    /\ UNCHANGED <<sets, map, stack, list>>

Dequeue ==
    /\ answer' = First(queue)
    /\ queue' = Rest(queue)
    /\ UNCHANGED <<sets, map, stack, list>>

Push(v) ==
    /\ stack' = <<v>> \o stack
    /\ answer' = NULL
    /\ UNCHANGED <<sets, map, queue, list>>

Pop ==
    /\ answer' = First(stack)
    /\ stack' = Rest(stack)
    /\ UNCHANGED <<sets, map, queue, list>>

ListPush(v) ==
    /\ list' = <<v>> \o list
    /\ answer' = NULL
    /\ UNCHANGED <<sets, map, queue, stack>>

ListAdd(v) ==
    /\ list' = Append(list, v)
    /\ answer' = NULL
    /\ UNCHANGED <<sets, map, queue, stack>>

ListPop ==
    /\ answer' = First(list)
    /\ list' = Rest(list)
    /\ UNCHANGED <<sets, map, queue, stack>>

Next ==
    \/ \E s \in SetName, k \in Key : Insert(s, k) \/ Remove(s, k)
    \/ \E s, t \in SetName : s # t /\ Union(s, t)
    \/ \E s \in SetName : Clear(s)
    \/ \E k \in Key, v \in Value : Put(k, v)
    \/ \E v \in Value : Enqueue(v) \/ Push(v) \/ ListPush(v) \/ ListAdd(v)
    \/ Dequeue \/ Pop \/ ListPop

Spec == Init /\ [][Next]_vars
=============================================================================
