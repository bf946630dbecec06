------------------------------ MODULE ItemHeap ------------------------------
(***************************************************************************)
(* What the script interpreter needs of its items: lists that are shared   *)
(* and never change, except that the rest of one is set and that one is    *)
(* replaced, for all who refer to it, by its value.  There is no freeing:  *)
(* what nothing refers to may be used for another list at any time.        *)
(***************************************************************************)
EXTENDS Integers, FiniteSets

CONSTANTS Handles, Items, NULL

VARIABLES
  value,    \* the list or atom in each variable
  lists     \* what is known of each item that can be reached

List(i, first, rest) == [item |-> i, first |-> first, rest |-> rest]
Parts(i) == UNION {{l.first, l.rest} : l \in {k \in lists : k.item = i}}

\* The items of ls that can be reached from the variables.
Reached(v, ls) ==
  LET within[n \in 0..Cardinality(Items)] ==
        IF n = 0 THEN {v[h] : h \in Handles} \ {NULL}
        ELSE LET w == within[n - 1]
             IN  w \cup ((UNION {{l.first, l.rest} : l \in {k \in ls : k.item \in w}}) \ {NULL})
  IN  within[Cardinality(Items)]

Become(v, ls) ==
  /\ value' = v
  /\ LET reached == Reached(v, ls)
     IN  lists' = {l \in ls : l.item \in reached}

Init == value = [h \in Handles |-> NULL] /\ lists = {}

Set(h, x) == Become([value EXCEPT ![h] = x], lists)

\* A new list, in h.
Make(h, first, rest) ==
  \E i \in Items :
    /\ Become([value EXCEPT ![h] = i], lists \cup {List(i, first, rest)})
    /\ i \notin {l.item : l \in lists}

setRest(i, x) ==
  Become(value, {IF l.item = i THEN List(i, l.first, x) ELSE l : l \in lists})

\* Every occurrence of i becomes one of x.
Replace(i, x) ==
  LET new(y) == IF y = i THEN x ELSE y
  IN  Become([h \in Handles |-> new(value[h])],
             {List(l.item, new(l.first), new(l.rest)) : l \in lists})

Next ==
  \E h, g \in Handles :
    \/ Set(h, value[g])
    \/ Set(h, NULL)
    \/ \E x \in Parts(value[g]) : Set(h, x)
    \/ Make(h, NULL, NULL)
    \/ \E f \in Handles : value[f] # NULL /\ value[g] # NULL /\ Make(h, value[f], value[g])
    \/ value[g] # NULL /\ value[h] # NULL /\ setRest(value[g], value[h])
    \/ value[g] # NULL /\ value[h] # NULL /\ Replace(value[g], value[h])

Spec == Init /\ [][Next]_<<value, lists>>
=============================================================================
