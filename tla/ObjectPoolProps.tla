-------------------------- MODULE ObjectPoolProps --------------------------
(***************************************************************************)
(* What the pool with its counted references promises.                     *)
(***************************************************************************)
EXTENDS ObjectPool
LOCAL INSTANCE TLC

\* The variables of the interpreter are interchangeable.
HandleSymmetry == Permutations(Handles)

\* The types of the variables, a part of the first invariant below.
TypeOK ==
  /\ target \in [Slots -> Pointers]
  /\ refCount \in [Items -> Nat]
  /\ forwarder \in [Items -> Pointers]
  /\ size \in 0..MaxItems /\ available \in Pointers
  /\ \A k \in DOMAIN todo :
       /\ todo[k].op \in {"drop", "forwarders", "remove", "free"}
       /\ todo[k].item \in Items
       /\ \A n \in DOMAIN todo[k].lst : todo[k].lst[n] \in Items

\* The items that wait to be used again.
Available == Closure({available} \ {NULL}, Forwarded)
InUse == (1..size) \ Available

\* At every moment, also in the middle of a removal, the count of an item is
\* the number of slots and forwarders that point to it, and of the pointers
\* that have been dropped without their count. So no count reaches 0 while
\* there is a pointer to the item, and none stays above it without one.
CountsExact ==
  TypeOK /\ \A i \in Items :
    refCount[i] = Cardinality({s \in Slots : target[s] = i})
                  + Cardinality({j \in InUse : forwarder[j] = i})
                  + Cardinality({k \in DOMAIN todo :
                                   todo[k].op = "drop" /\ todo[k].item = i})

\* When no removal is going on, an item is either available, which it is once,
\* with nothing in it, or the interpreter can still reach it; nothing is lost.
NothingLost ==
  Idle =>
    /\ InUse = Reachable({target[h] : h \in Handles})
    /\ \A i \in Available : /\ refCount[i] = 0
                            /\ target[First(i)] = NULL /\ target[Rest(i)] = NULL

-----------------------------------------------------------------------------
(* The abstract heap: chains of forwarders are not seen *)

values == [h \in Handles |-> End(target[h])]
FirstOf(i) == End(target[First(i)])
RestOf(i) == End(target[Rest(i)])
Seen ==
  LET parts == [i \in Items |-> {FirstOf(i), RestOf(i)} \ {NULL}]
  IN  Closure({values[h] : h \in Handles} \ {NULL}, parts)
seen == {[item |-> i, first |-> FirstOf(i), rest |-> RestOf(i)] : i \in Seen}

Heap == INSTANCE ItemHeap WITH value <- values, lists <- seen

\* No removal, no reuse of an item and no shortening of a chain ever changes
\* what the interpreter sees, and an operation changes it as it should.
ImplementsHeap == Heap!Spec
=============================================================================
