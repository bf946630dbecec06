----------------------------- MODULE AxiomItems -----------------------------
(***************************************************************************)
(* The items of makecpu/axiom_lang.h a script is made of, and the scopes   *)
(* that give names a meaning.                                              *)
(*                                                                         *)
(* An atom is a value. Lists, functions and scopes have an identity, their *)
(* index in lists, funs and scopes: a list is replaced by its value for    *)
(* all who refer to it (AxiomItem::setForwarder), a function gets its body *)
(* after it may have been referred to, a scope its symbols one by one. The *)
(* cells of a list are one here: no cell but the first is ever evaluated.  *)
(* When items are freed is the subject of ObjectPool.                      *)
(***************************************************************************)
EXTENDS Integers, Sequences, FiniteSets

\* Identifiers of the language, see AxiomState::createNil and createKeywords.
Keywords == {"void", "plus", "minus", "lambda", "self", "funself", "list", "asgn", "module",
             "namespace", "fun", "return", "public", "axiom", "using", "include", "debug",
             "loadcpu"}

Ident(n) == [ident |-> n]
Number(n) == [int |-> n]
Bit(n) == [bit |-> n]
Str(s) == [str |-> s]
FunArg(f, n) == [arg |-> n, owner |-> f]
FunDef(f) == [fun |-> f]
FunRef(m, n) == [ref |-> n, targetModule |-> m]
FunRefInternal(m, n) == [forward |-> n, targetModulePtr |-> m]
Scope(s) == [scope |-> s]
List(l) == [list |-> l]
CpuArch == [cpu |-> "x86"]
NoItem == [none |-> "NULL"]

Is(x, kind) == kind \in DOMAIN x
IsKeyword(x, n) == x = Ident(n)
IsName(x) == Is(x, "ident") /\ x.ident \notin Keywords

k_void == Ident("void")
k_self == Ident("self")
k_funself == Ident("funself")
k_system == Ident("system")

\* AxiomItemList, the nil list first.
NewList(items, quoted, argFun) ==
  [items |-> items, quoted |-> quoted, argFun |-> argFun, forwarder |-> NoItem]
nilList == 1
nil == List(nilList)
Lists0 == <<NewList(<<>>, TRUE, FALSE)>>

\* The end of a chain of forwarders (AxiomItem::getTarget).
Target(lists, x) ==
  LET follow[n \in 0..Len(lists)] ==
        IF n = 0 THEN x
        ELSE LET y == follow[n - 1]
             IN  IF ~Is(y, "list") THEN y
                 ELSE IF lists[y.list].forwarder = NoItem THEN y ELSE lists[y.list].forwarder
  IN  follow[Len(lists)]

IsNil(lists, x) == Is(x, "list") /\ lists[x.list].items = <<>>
IsArgFun(lists, x) == Is(x, "arg") \/ (Is(x, "list") /\ lists[x.list].argFun)
ItemsOf(lists, x) == [i \in DOMAIN lists[x.list].items |-> Target(lists, lists[x.list].items[i])]

-----------------------------------------------------------------------------
(* AxiomItemFunDef and AxiomItemScope *)

NewFun(args) == [numArgs |-> Len(args), body |-> NoItem]

NoScope == 0
NewScope(parentT) ==
  [parent |-> parentT, other_item |-> NoScope, scopeType |-> "general",
   symbols |-> [n \in {} |-> NoItem]]
rootScope == 1
globalScope == 2
Scopes0 == <<NewScope(NoScope), NewScope(rootScope)>>

\* Symbols by name.
With(symbols, n, x) == [m \in DOMAIN symbols \cup {n} |-> IF m = n THEN x ELSE symbols[m]]
add(scopes, s, n, x) == [scopes EXCEPT ![s].symbols = With(@, n, x)]

\* The scope itself, the namespaces it continues, then the scopes around it,
\* but not the namespaces those continue if they are out of reach of parents.
search(scopes, s0, n, searchParentScope) ==
  LET continued[s \in 0..Len(scopes)] ==
        IF s = NoScope THEN NoItem
        ELSE IF n \in DOMAIN scopes[s].symbols THEN scopes[s].symbols[n]
        ELSE continued[scopes[s].other_item]
      enclosing[s \in 0..Len(scopes)] ==
        IF s = NoScope THEN NoItem
        ELSE IF continued[s] # NoItem THEN continued[s]
        ELSE enclosing[scopes[s].parent]
  IN  IF searchParentScope THEN enclosing[s0] ELSE continued[s0]

\* What a namespace and those it continues define, the latest definition of each
\* name; symbols that stand for self are left behind, not what they hide.
receiveSymbolsFromScope(lists, scopes, dst, src) ==
  LET own(s) == LET y == scopes[s].symbols
                IN  [n \in {m \in DOMAIN y : Target(lists, y[m]) # k_self} |-> y[n]]
      merged(f, g) == [n \in DOMAIN f \cup DOMAIN g |-> IF n \in DOMAIN g THEN g[n] ELSE f[n]]
      all[s \in 0..Len(scopes)] ==
        IF s = NoScope THEN [n \in {} |-> NoItem] ELSE merged(all[scopes[s].other_item], own(s))
  IN  [scopes EXCEPT ![dst].symbols = merged(@, all[src])]

\* FunRef::getTarget and FunRefInternal::getTarget. The caches are left out: the
\* symbols of a module do not change any more when one of its functions is called.
getTarget(scopes, x) ==
  IF Is(x, "ref") THEN search(scopes, x.targetModule, x.ref, FALSE)
  ELSE LET y == search(scopes, x.targetModulePtr, x.forward, FALSE)
       IN  IF Is(y, "fun") THEN y ELSE NoItem
=============================================================================
