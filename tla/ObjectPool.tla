----------------------------- MODULE ObjectPool -----------------------------
(***************************************************************************)
(* ObjectPool, AxiomItemBase and AxiomItem of makecpu/axiom_lang.h: items  *)
(* in a pool, counted references to them, and the forwarders by which the  *)
(* evaluator (makecpu/axiom_eval.h) replaces a list by its value.          *)
(*                                                                         *)
(* The items are lists, with a first and a rest; an atom is an item in     *)
(* which both are NULL. A removal, which calls itself for what an item     *)
(* refers to, is a stack of tasks; the other operations wait until it is   *)
(* done.                                                                   *)
(***************************************************************************)
EXTENDS Integers, Sequences, FiniteSets

CONSTANTS
  Handles,     \* the variables of type AxiomItem of the interpreter
  MaxItems     \* bound on the size of the pool

ASSUME MaxItemsAssumption == MaxItems \in Nat

Items == 1..MaxItems
NULL == 0
Pointers == Items \cup {NULL}

\* Wherever a pointer with a counted reference is: variables and fields.
Fields == Items \X {"first", "rest"}
Slots == Handles \cup Fields
ASSUME HandlesAssumption == IsFiniteSet(Handles) /\ Handles \cap Fields = {}

First(i) == <<i, "first">>
Rest(i) == <<i, "rest">>

VARIABLES
  target,      \* the pointer in each slot
  refCount,
  forwarder,   \* of an item in use; the next one of an item that is available
  size,        \* how many items the pool has
  available,   \* the first item that can be used again
  todo         \* what is left of a removal

vars == <<target, refCount, forwarder, size, available, todo>>

Init ==
  /\ target = [s \in Slots |-> NULL]
  /\ refCount = [i \in Items |-> 0]
  /\ forwarder = [i \in Items |-> NULL]
  /\ size = 0 /\ available = NULL /\ todo = <<>>

Idle == todo = <<>>

-----------------------------------------------------------------------------
(* What can be reached *)

\* The items that can be reached from those of S in at most n steps.
Within(S, next) ==
  LET within[n \in 0..MaxItems] ==
        IF n = 0 THEN S
        ELSE LET w == within[n - 1] IN w \cup UNION {next[i] : i \in w}
  IN  within

Closure(S, next) == Within(S, next)[MaxItems]

Forwarded == [i \in Items |-> {forwarder[i]} \ {NULL}]
Referred ==
  [i \in Items |-> {target[First(i)], target[Rest(i)], forwarder[i]} \ {NULL}]
Reachable(S) == Closure(S \ {NULL}, Referred)

\* The item at the end of a chain of forwarders.
End(x) ==
  IF x = NULL THEN NULL
  ELSE CHOOSE e \in Closure({x}, Forwarded) : forwarder[e] = NULL

-----------------------------------------------------------------------------
(* References *)

addRef(count, x) ==
  IF x = NULL THEN count
  ELSE IF count[x] = 0 THEN count ELSE [count EXCEPT ![x] = @ + 1]

Task(op, i, lst) == [op |-> op, item |-> i, lst |-> lst]
removeTarget(x) == IF x = NULL THEN <<>> ELSE <<Task("drop", x, <<>>)>>

doSet(s, x) ==
  /\ target[s] # x
  /\ refCount' = addRef(refCount, x)
  /\ target' = [target EXCEPT ![s] = x]
  /\ todo' = removeTarget(target[s])
  /\ UNCHANGED <<forwarder, size, available>>

-----------------------------------------------------------------------------
(* Operations of the interpreter *)

\* An operator -> leaves the end of the chain in the variable or field it is
\* applied to: isNil applies it to the field first. The operations below are
\* given for lists whose -> has been evaluated.
Evaluated(h) == target[h] # NULL /\ forwarder[target[h]] = NULL

getTarget_uncounted(s) ==
  /\ Idle /\ target[s] # NULL /\ forwarder[target[s]] # NULL
  /\ target' = [target EXCEPT ![s] = End(@)]
  /\ UNCHANGED <<refCount, forwarder, size, available, todo>>
getTarget(s) ==
  /\ Idle /\ target[s] # NULL /\ forwarder[target[s]] # NULL
  /\ doSet(s, End(target[s]))

Dereference ==
  \/ \E h \in Handles : getTarget(h)
  \/ \E h \in Handles : Evaluated(h) /\ getTarget(First(target[h]))

\* AxiomState::cons, whose result is assigned to h. An item that is available
\* is used before the pool grows.
Fresh == IF available # NULL THEN available ELSE size + 1
cons(h, first, rest) ==
  LET i == Fresh
      fresh == [refCount EXCEPT ![i] = 1]
  IN  /\ Idle /\ i \in Items
      /\ size' = IF available # NULL THEN size ELSE i
      /\ available' = IF available # NULL THEN forwarder[available] ELSE NULL
      /\ forwarder' = [forwarder EXCEPT ![i] = NULL]
      /\ target' = [target EXCEPT ![First(i)] = target[first], ![Rest(i)] = target[rest],
                                  ![h] = i]
      /\ refCount' = addRef(addRef(fresh, target[first]), target[rest])
      /\ todo' = removeTarget(target[h])

\* An atom or the nil list.
makeAtom(h) ==
  LET i == Fresh
  IN  /\ Idle /\ i \in Items
      /\ size' = IF available # NULL THEN size ELSE i
      /\ available' = IF available # NULL THEN forwarder[available] ELSE NULL
      /\ forwarder' = [forwarder EXCEPT ![i] = NULL]
      /\ target' = [target EXCEPT ![h] = i]
      /\ refCount' = [refCount EXCEPT ![i] = 1]
      /\ todo' = removeTarget(target[h])

Allocate ==
  \E h \in Handles :
    \/ makeAtom(h)
    \/ \E f, r \in Handles : target[f] # NULL /\ target[r] # NULL /\ cons(h, f, r)

\* A variable is assigned another one, or a field of the list in another one.
Assign ==
  /\ Idle
  /\ \E h, g \in Handles :
       \/ doSet(h, target[g])
       \/ Evaluated(g) /\ \E s \in {First(target[g]), Rest(target[g])} : doSet(h, target[s])

Clear == Idle /\ \E h \in Handles : doSet(h, NULL)

\* The rest of a list is replaced by a list that does not contain it: the
\* evaluator and the parser build lists from their beginning this way.
setRest ==
  /\ Idle
  /\ \E g, h \in Handles :
       /\ Evaluated(g) /\ target[h] # NULL
       /\ target[g] \notin Reachable({target[h]})
       /\ doSet(Rest(target[g]), target[h])

\* evaluate: a list is replaced by its value, which does not contain it; an
\* evaluation for which that were not so would not end.
setForwarder ==
  /\ Idle
  /\ \E g, h \in Handles :
       /\ Evaluated(g) /\ Evaluated(h)
       /\ target[g] \notin Reachable({target[h]})
       /\ refCount' = addRef(refCount, target[h])
       /\ forwarder' = [forwarder EXCEPT ![target[g]] = target[h]]
  /\ UNCHANGED <<target, size, available, todo>>

-----------------------------------------------------------------------------
(* Removal *)

Current(op) == todo # <<>> /\ Head(todo).op = op
Item == Head(todo).item
Instead(tasks) == todo' = tasks \o Tail(todo)

removeRef(i) == refCount' = [refCount EXCEPT ![i] = @ - 1]

\* A slot's pointer has been dropped.
Drop ==
  /\ Current("drop")
  /\ IF refCount[Item] = 0 THEN UNCHANGED refCount ELSE removeRef(Item)
  /\ Instead(IF refCount[Item] # 1 THEN <<>>
             ELSE <<Task("forwarders", Item, <<>>), Task("remove", Item, <<>>)>>)
  /\ UNCHANGED <<target, forwarder, size, available>>

\* The forwarder of an item that goes holds a reference as well: the items of
\* the chain are collected as far as this was the last one.
Removes(lst) == [k \in DOMAIN lst |-> Task("remove", lst[k], <<>>)]
EndOfForwarders ==
  /\ Current("forwarders") /\ forwarder[Item] = NULL
  /\ Instead(Removes(Head(todo).lst))
  /\ UNCHANGED <<target, refCount, forwarder, size, available>>
LastReference_any(i) == refCount[i] # 0
LastReference(i) == refCount[i] = 1
NextForwarder ==
  /\ Current("forwarders") /\ forwarder[Item] # NULL
  /\ LET next == forwarder[Item]
         lst == Head(todo).lst
     IN  /\ IF refCount[next] = 0 THEN UNCHANGED refCount ELSE removeRef(next)
         /\ forwarder' = [forwarder EXCEPT ![Item] = NULL]
         /\ Instead(IF LastReference(next) THEN <<Task("forwarders", next, Append(lst, next))>>
                    ELSE Removes(lst))
  /\ UNCHANGED <<target, size, available>>

\* clear of the item: first and rest go, and what they refer to with them,
Remove ==
  /\ Current("remove")
  /\ target' = [target EXCEPT ![First(Item)] = NULL, ![Rest(Item)] = NULL]
  /\ Instead(removeTarget(target[First(Item)]) \o removeTarget(target[Rest(Item)])
               \o <<Task("free", Item, <<>>)>>)
  /\ UNCHANGED <<refCount, forwarder, size, available>>

\* and only then the item is in front of those that are available.
Chained_last(i) == [forwarder EXCEPT ![i] = NULL]
Chained(i) == [forwarder EXCEPT ![i] = available]
Free ==
  /\ Current("free")
  /\ refCount' = [refCount EXCEPT ![Item] = 0]
  /\ forwarder' = Chained(Item)
  /\ available' = Item
  /\ Instead(<<>>)
  /\ UNCHANGED <<target, size>>

Removal == Drop \/ EndOfForwarders \/ NextForwarder \/ Remove \/ Free

Next == Dereference \/ Allocate \/ Assign \/ Clear \/ setRest \/ setForwarder \/ Removal

Spec == Init /\ [][Next]_vars
=============================================================================
