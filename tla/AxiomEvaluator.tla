--------------------------- MODULE AxiomEvaluator ---------------------------
(***************************************************************************)
(* AxiomEvaluator of makecpu/axiom_eval.h. An item that is a list and not  *)
(* quoted is a call of a function, whose arguments are evaluated and put   *)
(* into a copy of its body, or of the keyword list. The list is replaced   *)
(* by its value (setForwarder), so that it is evaluated once, wherever it  *)
(* is referred to.                                                         *)
(*                                                                         *)
(* The operators return the lists as the evaluation leaves them, and the   *)
(* value or an error. An evaluation that goes on forever is cut off at     *)
(* MaxDepth.                                                               *)
(***************************************************************************)
EXTENDS AxiomItems

CONSTANT MaxDepth
ASSUME MaxDepthAssumption == MaxDepth \in Nat

Failed(what) == [error |-> what]
Result(lists, val) == [lists |-> lists, val |-> Target(lists, val)]

-----------------------------------------------------------------------------
(* substArgs *)

\* What is not a function of an argument is shared by the copy, and a list that
\* occurs twice is copied once: tab is the copy of each list copied so far.
RECURSIVE doSubstArgs(_, _, _, _), substItems(_, _, _, _, _)
doSubstArgs(lists, tab, src, args) ==
  LET x == Target(lists, src)
      r == substItems(lists, tab, lists[x.list].items, args, <<>>)
      copy == List(Len(r.lists) + 1)
  IN  IF ~IsArgFun(lists, x) THEN [lists |-> lists, tab |-> tab, val |-> x]
      ELSE IF Is(x, "arg")
      THEN [lists |-> lists, tab |-> tab,
            val |-> IF x.arg >= Len(args) THEN Failed("no such argument") ELSE args[x.arg + 1]]
      ELSE IF x.list \in DOMAIN tab THEN [lists |-> lists, tab |-> tab, val |-> tab[x.list]]
      ELSE IF Is(r.val, "error") THEN r
      ELSE [lists |-> Append(r.lists, NewList(r.val.items, lists[x.list].quoted, FALSE)),
            tab |-> [l \in DOMAIN r.tab \cup {x.list} |-> IF l = x.list THEN copy ELSE r.tab[l]],
            val |-> copy]
substItems(lists, tab, items, args, done) ==
  LET r == doSubstArgs(lists, tab, items[1], args)
  IN  IF items = <<>> THEN [lists |-> lists, tab |-> tab, val |-> [items |-> done]]
      ELSE IF Is(r.val, "error") THEN r
      ELSE substItems(r.lists, r.tab, Tail(items), args, Append(done, r.val))

substArgs(lists, body, args) == doSubstArgs(lists, [l \in {} |-> nil], body, args)

-----------------------------------------------------------------------------
(* evaluate *)

Forward(lists, x, dest) == [lists EXCEPT ![x.list].forwarder = dest]

RECURSIVE evaluate(_, _, _, _, _), evaluateAll(_, _, _, _, _, _), apply(_, _, _, _, _, _, _)

\* The items after the first, in their order, up to the first that fails.
evaluateAll(lists, funs, scopes, items, done, depth) ==
  LET r == evaluate(lists, funs, scopes, items[1], depth)
  IN  IF items = <<>> THEN [lists |-> lists, val |-> [items |-> done]]
      ELSE IF Is(r.val, "error") THEN r
      ELSE evaluateAll(r.lists, funs, scopes, Tail(items), Append(done, r.val), depth)

\* A body without arguments is not copied: it is replaced by its value. A body
\* that is the list it is called from is replaced by itself.
apply(lists, funs, scopes, x, funDef, args, depth) ==
  LET r == IF args = <<>> THEN [lists |-> lists, val |-> funs[funDef].body]
           ELSE substArgs(lists, funs[funDef].body, args)
      dest == Target(r.lists, r.val)
  IN  IF Len(args) # funs[funDef].numArgs THEN Result(lists, Failed("wrong number of arguments"))
      ELSE IF dest = NoItem \/ Is(dest, "error")
      THEN Result(lists, Failed("unable to evaluate function"))
      ELSE IF dest = x \/ depth = 0 THEN Result(lists, Failed("diverges"))
      ELSE evaluate(Forward(r.lists, x, dest), funs, scopes, dest, depth - 1)

evaluate(lists, funs, scopes, item, depth) ==
  LET x == Target(lists, item)
      all == lists[x.list].items
      head == evaluate(lists, funs, scopes, all[1], depth)
      first == head.val
      funDef == IF Is(first, "fun") THEN first
                ELSE IF Is(first, "ref") \/ Is(first, "forward") THEN getTarget(scopes, first)
                ELSE NoItem
      rest == evaluateAll(head.lists, funs, scopes, Tail(all), <<>>, depth)
      value == NewList(rest.val.items, TRUE, FALSE)
  IN  IF ~Is(x, "list") THEN Result(lists, x)
      ELSE IF lists[x.list].quoted THEN Result(lists, x)
      ELSE IF Is(first, "error") THEN head
      ELSE IF funDef = NoItem /\ ~IsKeyword(first, "list")
      THEN Result(head.lists, Failed("unable to evaluate input"))
      ELSE IF Is(rest.val, "error") THEN rest
      ELSE IF funDef # NoItem
      THEN apply(rest.lists, funs, scopes, x, funDef.fun, rest.val.items, depth)
      ELSE IF rest.val.items = <<>> THEN Result(Forward(rest.lists, x, nil), nil)
      ELSE LET l == List(Len(rest.lists) + 1)
           IN  Result(Forward(Append(rest.lists, value), x, l), l)
=============================================================================
