---------------------------- MODULE AxiomParser -----------------------------
(***************************************************************************)
(* AxiomParser of makecpu/axiom_parser.h: a text becomes items, and while  *)
(* it is read names are given a meaning in scopes, functions get their     *)
(* arguments and modules their symbols.                                    *)
(*                                                                         *)
(* The calls of doParseInternal (with parseList and getQuotedList, which   *)
(* are called by nothing else) are a stack of frames, the innermost first; *)
(* ret is the item the last one returned. A text ends with a newline. All  *)
(* calls return at once when an error has been reported; of the messages   *)
(* the first is kept, as what it is about and the line it names.           *)
(*                                                                         *)
(* inSystem is FALSE: nothing calls the functions that would set it.       *)
(***************************************************************************)
EXTENDS AxiomScanner, AxiomItems

CONSTANT Files   \* the text of each file that can be included

VARIABLES
  input,   \* the texts being read, the file included last first, with the position
  stack,
  ret,
  error,
  lists, funs, scopes

control == <<input, stack, ret, error>>
heap == <<lists, funs, scopes>>

NoError == [what |-> "", line |-> 0]
Text == input[1].text
b == input[1].b
Frame == Head(stack)
LineOf(f) == f.lineNum + f.numLines

Passed_over(f, p) == [f EXCEPT !.numLines = Newlines(Text, p, skipWhitespace(Text, p))]
\* A frame that has passed the whitespace from p on.
Passed(f, p) == [f EXCEPT !.numLines = @ + Newlines(Text, p, skipWhitespace(Text, p))]

\* doParseInternal, called by the frame f. The frame of a text is at "text".
NewFrame(at, lineNum, mod, fcn, scope) ==
  [at |-> at, lineNum |-> lineNum, numLines |-> 0, forceQuote |-> FALSE, gotApostrophe |-> FALSE,
   firstItemUserQuoted |-> FALSE, curModule |-> mod, curFunction |-> fcn, curScope |-> scope,
   scope |-> NoScope, items |-> <<>>, quotedCountdown |-> 0, allowScopeSrc |-> FALSE,
   functionDef |-> 0]
NoFunction == 0
Call(f, scope, quote) ==
  [NewFrame("start", LineOf(f), f.curModule, f.curFunction, scope) EXCEPT !.forceQuote = quote]

Goto(p) == input' = [input EXCEPT ![1].b = p]
Become(f) == stack' = <<f>> \o Tail(stack)
Push(g, f) == stack' = <<g, f>> \o Tail(stack)

Fail(what, f, p) ==
  /\ error' = [what |-> what, line |-> LineOf(f)]
  /\ stack' = <<>> /\ ret' = NoItem /\ Goto(p)

\* The end of doParseInternal: x has been read up to p.
Return(f, x, p) ==
  LET g == Passed(f, p)
      caller == stack[2]
  IN  IF x = k_funself THEN Fail("recursion", g, skipWhitespace(Text, p))
      ELSE /\ stack' = <<[caller EXCEPT !.numLines = @ + g.numLines,
                                        !.firstItemUserQuoted = g.gotApostrophe]>>
                       \o SubSeq(stack, 3, Len(stack))
           /\ ret' = x /\ Goto(skipWhitespace(Text, p)) /\ UNCHANGED error

-----------------------------------------------------------------------------
(* Names *)

Error(what) == [error |-> what]

checkAtom(x, curFunction) ==
  CASE x = NoItem -> Error("unknown identifier")
    [] Is(x, "arg") /\ curFunction = NoFunction -> Error("function argument not allowed here")
    [] Is(x, "arg") /\ curFunction # NoFunction ->
         IF x.owner # curFunction THEN Error("argument of an outer function") ELSE x
    [] OTHER -> x

\* getAtom, when the atom is no number. nil, zero and one are no identifiers.
getAtom(n, quoted, f) ==
  CASE n = "nil" -> nil
    [] n = "zero" -> Bit(0)
    [] n = "one" -> Bit(1)
    [] n = "-" -> Ident("minus")
    [] n = "+" -> Ident("plus")
    [] n \notin {"nil", "zero", "one", "-", "+"} ->
         IF quoted \/ n \in Keywords THEN Ident(n)
         ELSE checkAtom(Target(lists, search(scopes, f.curScope, n, TRUE)), f.curFunction)

\* The path through scopes, whose first is s0, that a list of names describes:
\* the item, or an error, and the last name. What follows a path that ends with
\* something other than a name is ignored.
getScopeRef(path, s0, allowScopeSrc) ==
  LET ref(what) == [item |-> Error(what), name |-> NoItem]
      follow[k \in 2..(Len(path) + 1), s \in 0..Len(scopes)] ==
        LET name == path[k - 1]
            tmp == Target(lists, search(scopes, s, path[k].ident, FALSE))
        IN  IF k > Len(path) \/ ~Is(path[k], "ident")
            THEN IF allowScopeSrc THEN [item |-> Scope(s), name |-> name]
                 ELSE ref("invalid scope reference")
            ELSE IF tmp = NoItem THEN ref("can't find symbol")
            ELSE IF Is(tmp, "scope") THEN follow[k + 1, tmp.scope]
            ELSE IF tmp = k_self THEN ref("scope reference contains self")
            ELSE IF k < Len(path) THEN ref("invalid scope reference: too many items")
            ELSE [item |-> tmp, name |-> path[k]]
  IN  follow[2, s0]

-----------------------------------------------------------------------------
(* The beginning of an item *)

parseAtom(f, p) ==
  LET q == atomEnd(Text, p)
      a == WithoutPlus(SubSeq(Text, p, q - 1))
      x == IF IsNumber(a)
           THEN IF integer(a) = -1 THEN Error("invalid number") ELSE Number(integer(a))
           ELSE getAtom(Joined(Text, p, q), f.forceQuote, f)
      r == stringEnd(Text, q + 1)
  IN  IF At(Text, q) = "\""   \* the symbols before the string, if any, are lost
      THEN IF r # 0 /\ At(Text, r) = "\""
           THEN Return(f, Str(stringText(Text, q + 1, r)), r + 1)
           ELSE Fail("invalid string", f, q)
      ELSE IF Is(x, "error") THEN Fail(x.error, f, q) ELSE Return(f, x, q)

OpenList(f0, p) ==
  LET q == skipWhitespace(Text, p)
      f == [Passed(f0, p) EXCEPT !.at = "first"]
  IN  \/ q = End(Text) /\ Fail("parenthesis mismatch", f, q)
      \/ At(Text, q) = ")" /\ Return(f, nil, q + 1)
      \/ /\ q # End(Text) /\ At(Text, q) # ")"
         /\ Push(Call(f, f.curScope, f.forceQuote), f)
         /\ Goto(q) /\ UNCHANGED <<ret, error>>

doParseInternal ==
  /\ stack # <<>> /\ Frame.at = "start"
  /\ LET p == skipWhitespace(Text, b)
         quoted == At(Text, p) = "'"
         q == IF quoted THEN p + 1 ELSE p
         f == [Passed(Frame, b) EXCEPT !.forceQuote = @ \/ quoted, !.gotApostrophe = quoted]
     IN  \/ q = End(Text) /\ Return(f, k_void, q)
         \/ /\ quoted /\ At(Text, q) \in Blank \cup {"/", "#"}
            /\ Fail("apostrophe quotes nothing", f, q)
         \/ At(Text, q) = "(" /\ OpenList(f, q + 1)
         \/ At(Text, q) = ")" /\ Fail("unexpected )", f, q)
         \/ /\ q # End(Text) /\ At(Text, q) \notin {"(", ")"}
            /\ ~(quoted /\ At(Text, q) \in Blank \cup {"/", "#"})
            /\ parseAtom(f, q)
  /\ UNCHANGED heap

\* An item has been returned to the innermost frame, which is at one of these.
Returned(at) == stack # <<>> /\ ret # NoItem /\ Frame.at \in at /\ b # End(Text)

Mismatch ==
  /\ stack # <<>> /\ ret # NoItem /\ Frame.at # "text" /\ b = End(Text)
  /\ Fail("parenthesis mismatch", Frame, b)
  /\ UNCHANGED heap

-----------------------------------------------------------------------------
(* Lists *)

Alloc_by_last(items, quoted) ==
  lists' = Append(lists, NewList(items, quoted, items # <<>> /\ IsArgFun(lists, items[Len(items)])))
Alloc(items, quoted) ==
  lists' = Append(lists, NewList(items, quoted, \E i \in DOMAIN items : IsArgFun(lists, items[i])))
NextList == List(Len(lists) + 1)

\* The scope of what the list defines is a new one, or the scope around it; the
\* items up to the countdown are quoted, all of them for using and loadcpu.
InScopeAround == {"asgn", "axiom", "using", "include"}
QuoteAll == {"using", "loadcpu"}
quoted_items == [asgn |-> 2, lambda |-> 2, namespace |-> 2, module |-> 4, fun |-> 2, public |-> 2,
                 using |-> 1, loadcpu |-> 1]

BeginItems(f, x) ==
  LET keyword == IF Is(x, "ident") THEN x.ident ELSE ""
  IN  /\ scopes' = Append(scopes, NewScope(f.curScope))
      /\ Become([f EXCEPT
                   !.at = "items",
                   !.scope = IF keyword \in InScopeAround THEN f.curScope ELSE Len(scopes) + 1,
                   !.quotedCountdown =
                      IF keyword \in DOMAIN quoted_items THEN quoted_items[keyword] ELSE 0,
                   !.allowScopeSrc = f.curScope = globalScope \/ keyword = "asgn"])
      /\ ret' = x
      /\ UNCHANGED <<input, error, lists, funs>>

\* The first item that is not void decides what kind of list this is.
FirstItem ==
  /\ Returned({"first"})
  /\ LET f == Frame
         x == IF Is(ret, "ident") THEN getAtom(ret.ident, FALSE, f) ELSE ret
         callable == \/ \E kind \in {"list", "fun", "ref", "forward"} : Is(x, kind)
                     \/ Is(x, "ident") /\ ~IsName(x)
         forwardOutside == Is(x, "forward") /\ f.curFunction = NoFunction
     IN  IF ret = k_void
         THEN /\ IF At(Text, b) = ")" THEN Return(f, nil, b + 1)
                 ELSE Push(Call(f, f.curScope, f.forceQuote), f) /\ UNCHANGED <<input, ret, error>>
              /\ UNCHANGED heap
         ELSE IF f.forceQuote
         THEN Become([f EXCEPT !.at = "quoted"]) /\ UNCHANGED <<input, ret, error, heap>>
         ELSE IF f.firstItemUserQuoted THEN Fail("first item quoted", f, b) /\ UNCHANGED heap
         ELSE IF Is(x, "error") THEN Fail(x.error, f, b) /\ UNCHANGED heap
         ELSE IF forwardOutside THEN Fail("forward outside a function", f, b) /\ UNCHANGED heap
         ELSE IF Is(x, "scope")
         THEN Become([f EXCEPT !.at = "reference"]) /\ ret' = x /\ UNCHANGED <<input, error, heap>>
         ELSE IF ~callable THEN Fail("bad first item", f, b) /\ UNCHANGED heap
         ELSE BeginItems(f, x)

\* getQuotedList, for a list that is quoted or a path through scopes.
QuotedItem ==
  /\ Returned({"quoted", "reference"})
  /\ LET f == [Frame EXCEPT !.items = IF ret = k_void THEN @ ELSE Append(@, ret)]
         r == getScopeRef(f.items, f.items[1].scope, f.curScope = globalScope).item
     IN  IF At(Text, b) # ")"
         THEN Push(Call(f, f.curScope, TRUE), f) /\ UNCHANGED <<input, ret, error, heap>>
         ELSE IF f.at = "quoted"
         THEN Alloc(f.items, TRUE) /\ Return(f, NextList, b + 1) /\ UNCHANGED <<funs, scopes>>
         ELSE /\ IF Is(r, "error") THEN Fail(r.error, f, b + 1) ELSE Return(f, r, b + 1)
              /\ UNCHANGED heap

-----------------------------------------------------------------------------
(* What begins with a keyword: when the items are there that say what it is *)

Head1(f) == IF Is(f.items[1], "ident") THEN f.items[1].ident ELSE ""
Items(x) == ItemsOf(lists, x)
IsUser(x) == IsName(x) /\ x # k_system

\* Scopes while symbols are added to them, up to the first error.
Adding(ss) == [scopes |-> ss, error |-> ""]
Added(acc, s, n, x) == [acc EXCEPT !.scopes = add(@, s, n, x)]
Broken(acc, what) == [acc EXCEPT !.error = what]
\* Step for each of the names, in their order.
AddAll(acc0, names, Step(_, _)) ==
  LET after[k \in 0..Len(names)] ==
        IF k = 0 THEN acc0
        ELSE LET acc == after[k - 1] IN IF acc.error # "" THEN acc ELSE Step(acc, k)
  IN  after[Len(names)]

\* The arguments of a function or lambda. f.items[2] lists them, behind the name
\* of the function unless it has none.
DefineFunction(f, names, ss) ==
  LET id == Len(funs) + 1
      argument(acc, k) ==
        IF IsUser(names[k]) THEN Added(acc, f.scope, names[k].ident, FunArg(id, k - 1))
        ELSE Broken(acc, "bad argument")
      r == AddAll(Adding(ss), names, argument)
  IN  /\ funs' = Append(funs, NewFun(names))
      /\ scopes' = r.scopes
      /\ UNCHANGED lists
      /\ IF r.error # "" THEN Fail(r.error, f, b)
         ELSE /\ Become([f EXCEPT !.at = "next", !.functionDef = id, !.curFunction = id])
              /\ ret' = NoItem /\ UNCHANGED <<input, error>>

OwnName_itself(id) == FunDef(id)
OwnName(id) == k_funself

\* The name of a function stands for funself while its body is read, unless it is
\* a forward definition of the module.
FunHeader(f) ==
  LET args == f.items[2]
      name == Items(args)[1]
      prevDefn == Target(lists, search(scopes, f.curScope, name.ident, TRUE))
      allowRecursion == f.curModule # NoScope /\ Is(prevDefn, "forward")
  IN  IF ~Is(args, "list") \/ IsNil(lists, args) THEN Fail("bad fun", f, b) /\ UNCHANGED heap
      ELSE IF ~Is(name, "ident") THEN Fail("bad fun", f, b) /\ UNCHANGED heap
      ELSE DefineFunction(f, Tail(Items(args)),
                          IF allowRecursion THEN scopes
                          ELSE add(scopes, f.scope, name.ident, OwnName(Len(funs) + 1)))

LambdaHeader(f) ==
  IF Is(f.items[2], "list") THEN DefineFunction(f, Items(f.items[2]), scopes)
  ELSE Fail("bad lambda", f, b) /\ UNCHANGED heap

\* A namespace goes on where the one of the same name in this scope ended.
NamespaceHeader(f) ==
  LET name == f.items[2]
      ss == add([scopes EXCEPT ![f.scope].scopeType = "namespace"], f.scope, name.ident, k_self)
      prev == Target(lists, search(ss, f.curScope, name.ident, FALSE))
  IN  /\ UNCHANGED <<lists, funs>>
      /\ IF ~IsUser(name) THEN Fail("bad namespace", f, b) /\ UNCHANGED scopes
         ELSE IF ~Is(prev, "scope")
         THEN Become([f EXCEPT !.at = "next"]) /\ ret' = NoItem /\ scopes' = ss
              /\ UNCHANGED <<input, error>>
         ELSE IF ss[prev.scope].scopeType # "namespace"
         THEN Fail("bad namespace", f, b) /\ scopes' = ss
         ELSE /\ scopes' = [ss EXCEPT ![f.scope].other_item = prev.scope]
              /\ Become([f EXCEPT !.at = "next"]) /\ ret' = NoItem /\ UNCHANGED <<input, error>>

\* An entry of a module's using-list: a name, or a path to a name.
Imported(f, entry) ==
  LET path == Items(entry)
      first == getAtom(path[1].ident, FALSE, f)
      none == [item |-> NoItem, name |-> NoItem]
  IN  IF Is(entry, "ident")
      THEN [item |-> Target(lists, search(scopes, f.curScope, entry.ident, TRUE)), name |-> entry]
      ELSE IF ~Is(entry, "list") \/ IsNil(lists, entry) THEN none
      ELSE IF ~Is(path[1], "ident") THEN none
      ELSE IF Is(first, "error") THEN [item |-> first, name |-> NoItem]
      ELSE IF Is(first, "scope") THEN getScopeRef(path, first.scope, TRUE) ELSE none

\* From here on only the root scope, what is used, the forward definitions and
\* the module's own symbols can be seen.
ModuleHeader(f) ==
  LET name == f.items[2]
      wellFormed == Is(f.items[3], "list") /\ Is(f.items[4], "list") /\
                    (Is(name, "list") \/ IsUser(name))
      using == Items(f.items[4])
      forwards == Items(f.items[3])
      s0 == [scopes EXCEPT ![f.scope].scopeType = "module", ![f.scope].parent = rootScope]
      s1 == IF Is(name, "list") THEN s0 ELSE add(s0, f.scope, name.ident, k_self)
      import(acc, k) ==
        LET r == Imported(f, using[k])
        IN  IF Is(r.item, "error") THEN Broken(acc, r.item.error)
            ELSE IF r.item = NoItem THEN Broken(acc, "unable to import symbol")
            ELSE IF r.item = k_self \/ IsArgFun(lists, r.item) THEN Broken(acc, "bad import")
            ELSE Added(acc, f.scope, r.name.ident, r.item)
      declare(acc, k) ==
        IF Is(forwards[k], "ident")
        THEN Added(acc, f.scope, forwards[k].ident, FunRefInternal(f.scope, forwards[k].ident))
        ELSE Broken(acc, "bad forward reference list")
      r1 == AddAll(Adding(s1), using, import)
      r2 == IF r1.error # "" THEN r1 ELSE AddAll(r1, forwards, declare)
  IN  /\ UNCHANGED <<lists, funs>>
      /\ IF ~wellFormed THEN Fail("bad module", f, b) /\ UNCHANGED scopes
         ELSE /\ scopes' = r2.scopes
              /\ IF r2.error # "" THEN Fail(r2.error, f, b)
                 ELSE /\ Become([f EXCEPT !.at = "next", !.curModule = f.scope,
                                          !.curFunction = NoFunction])
                      /\ ret' = NoItem /\ UNCHANGED <<input, error>>

\* An item of a list that is not quoted.
TakeItem ==
  /\ Returned({"items"})
  /\ LET f == [Frame EXCEPT
                 !.items = Append(@, ret),
                 !.quotedCountdown = IF @ = 0 THEN 0
                                     ELSE IF Head1([items |-> Append(Frame.items, ret)]) \in QuoteAll
                                     THEN @ ELSE @ - 1]
         n == Len(f.items)
     IN  IF ret = k_void
         THEN Become([Frame EXCEPT !.at = "next"]) /\ ret' = NoItem /\ UNCHANGED <<input, error, heap>>
         ELSE IF Is(ret, "scope") /\ ~f.allowScopeSrc
         THEN Fail("misplaced scope", f, b) /\ UNCHANGED heap
         ELSE CASE n = 2 /\ Head1(f) = "fun" -> FunHeader(f)
                [] n = 2 /\ Head1(f) = "lambda" -> LambdaHeader(f)
                [] n = 2 /\ Head1(f) = "namespace" -> NamespaceHeader(f)
                [] n = 4 /\ Head1(f) = "module" -> ModuleHeader(f)
                [] OTHER -> /\ Become([f EXCEPT !.at = "next"])
                            /\ ret' = NoItem /\ UNCHANGED <<input, error, heap>>

NextItem ==
  /\ stack # <<>> /\ Frame.at = "next" /\ At(Text, b) # ")"
  /\ Push(Call(Frame, Frame.scope, Frame.quotedCountdown # 0), [Frame EXCEPT !.at = "items"])
  /\ UNCHANGED <<input, ret, error, heap>>

-----------------------------------------------------------------------------
(* What begins with a keyword: when it is closed *)

\* The frame is that of the list, whose closing parenthesis is at b.
Wrong(f, what) == Fail(what, f, b + 1)
Void(f) == Return(f, k_void, b + 1)
Define(f, s, n, x) == scopes' = add(scopes, s, n, x) /\ UNCHANGED <<lists, funs>> /\ Void(f)

FinishAsgn(f) ==
  IF Len(f.items) # 3 THEN Wrong(f, "bad asgn") /\ UNCHANGED heap
  ELSE IF ~IsUser(f.items[2]) \/ f.items[3] = k_self THEN Wrong(f, "bad asgn") /\ UNCHANGED heap
  ELSE Define(f, f.scope, f.items[2].ident, f.items[3])

\* Inside a list the name of a function is known to what follows it there.
FinishFun(f) ==
  LET dest == Items(f.items[2])[1]
  IN  IF Len(f.items) # 3 THEN Wrong(f, "bad fun") /\ UNCHANGED heap
      ELSE /\ funs' = [funs EXCEPT ![f.functionDef].body = f.items[3]]
           /\ UNCHANGED lists
           /\ IF ~IsUser(dest) THEN Wrong(f, "bad fun") /\ UNCHANGED scopes
              ELSE scopes' = add(scopes, scopes[f.scope].parent, dest.ident, FunDef(f.functionDef))
                   /\ Void(f)

FinishLambda(f) ==
  IF Len(f.items) # 3 THEN Wrong(f, "bad lambda") /\ UNCHANGED heap
  ELSE /\ funs' = [funs EXCEPT ![f.functionDef].body = f.items[3]]
       /\ Return(f, FunDef(f.functionDef), b + 1) /\ UNCHANGED <<lists, scopes>>

FinishNamespace(f) ==
  IF Len(f.items) # 2 THEN Wrong(f, "bad namespace") /\ UNCHANGED heap
  ELSE Define(f, f.curScope, f.items[2].ident, Scope(f.scope))

IsFunction(symbols, x) ==
  Is(x, "ident") /\ x.ident \in DOMAIN symbols /\ Is(Target(lists, symbols[x.ident]), "fun")
Unfinished_undeclared(symbols, forwards) == \E i \in DOMAIN forwards : ~Is(forwards[i], "ident")
Unfinished(symbols, forwards) == \E i \in DOMAIN forwards : ~IsFunction(symbols, forwards[i])

\* The scope of the module stays as it is, behind references to its functions;
\* one that is only declared fails the module.
FinishModule(f) ==
  LET name == f.items[2]
      own == scopes[f.scope].symbols
      functions == {n \in DOMAIN own : Is(Target(lists, own[n]), "fun")}
      modScope == Len(scopes) + 1
      self == IF Is(name, "list") THEN {} ELSE {name.ident}
      public == [NewScope(rootScope) EXCEPT
                   !.scopeType = "module",
                   !.symbols = [n \in functions \cup self |->
                                  IF n \in functions THEN FunRef(f.scope, n) ELSE k_self]]
      ss == Append(scopes, public)
      export(acc, k) == Added(acc, f.curScope, Items(name)[k].ident,
                              public.symbols[Items(name)[k].ident])
  IN  IF Len(f.items) # 4 THEN Wrong(f, "bad module") /\ UNCHANGED heap
      ELSE IF Unfinished(own, Items(f.items[3]))
      THEN Wrong(f, "forward reference symbol not defined as a function") /\ UNCHANGED heap
      ELSE IF ~Is(name, "list")
      THEN /\ scopes' = add(ss, f.curScope, name.ident, Scope(modScope))
           /\ Void(f) /\ UNCHANGED <<lists, funs>>
      ELSE IF \E i \in DOMAIN Items(name) : ~IsFunction(own, Items(name)[i]) \/ ~IsName(Items(name)[i])
      THEN Wrong(f, "module's public symbol is undefined") /\ UNCHANGED heap
      ELSE /\ scopes' = AddAll(Adding(ss), Items(name), export).scopes
           /\ Void(f) /\ UNCHANGED <<lists, funs>>

\* What comes before a name that is not declared is public already.
FinishPublic(f) ==
  LET names == Items(f.items[2])
      publish(acc, k) ==
        LET x == search(scopes, f.scope, names[k].ident, FALSE)
        IN  IF ~Is(names[k], "ident") THEN Broken(acc, "bad public")
            ELSE IF x = NoItem THEN Broken(acc, "public symbol not declared")
            ELSE Added(acc, f.curScope, names[k].ident, x)
      r == AddAll(Adding(scopes), names, publish)
  IN  IF Len(f.items) # 2 THEN Wrong(f, "bad public") /\ UNCHANGED heap
      ELSE IF ~Is(f.items[2], "list") THEN Wrong(f, "bad public") /\ UNCHANGED heap
      ELSE /\ scopes' = r.scopes /\ UNCHANGED <<lists, funs>>
           /\ IF r.error # "" THEN Wrong(f, r.error) ELSE Void(f)

FinishAxiom(f) ==
  /\ IF Len(f.items) = 1 THEN Void(f) ELSE Wrong(f, "axiom block has output")
  /\ UNCHANGED heap

FinishReturn(f) ==
  /\ IF Len(f.items) = 2 THEN Return(f, f.items[2], b + 1) ELSE Wrong(f, "bad return")
  /\ UNCHANGED heap

\* One name of a scope, or all of a namespace.
FinishUsing(f) ==
  LET path == Tail(f.items)
      first == getAtom(path[1].ident, FALSE, f)
      r == getScopeRef(path, first.scope, TRUE)
  IN  /\ UNCHANGED <<lists, funs>>
      /\ IF path = <<>> THEN Wrong(f, "bad using") /\ UNCHANGED scopes
         ELSE IF ~Is(path[1], "ident") THEN Wrong(f, "bad using") /\ UNCHANGED scopes
         ELSE IF Is(first, "error") THEN Wrong(f, first.error) /\ UNCHANGED scopes
         ELSE IF ~Is(first, "scope") THEN Wrong(f, "using wants a scope") /\ UNCHANGED scopes
         ELSE IF Is(r.item, "error") THEN Wrong(f, r.item.error) /\ UNCHANGED scopes
         ELSE IF ~Is(r.item, "scope")
         THEN scopes' = add(scopes, f.curScope, r.name.ident, r.item) /\ Void(f)
         ELSE IF scopes[r.item.scope].scopeType # "namespace"
         THEN Wrong(f, "using a scope that is no namespace") /\ UNCHANGED scopes
         ELSE scopes' = receiveSymbolsFromScope(lists, scopes, f.curScope, r.item.scope) /\ Void(f)

FinishDebug(f) ==
  /\ IF Len(f.items) # 2 THEN Wrong(f, "bad debug")
     ELSE IF Is(f.items[2], "str") THEN Void(f) ELSE Wrong(f, "bad debug")
  /\ UNCHANGED heap

\* What is loaded from the list is the subject of axiom_cpu_arch.h: it is taken
\* or it is refused.
FinishLoadcpu(f) ==
  /\ IF Len(f.items) # 2 THEN Wrong(f, "bad loadcpu")
     ELSE IF ~Is(f.items[2], "list") THEN Wrong(f, "bad loadcpu")
     ELSE Return(f, CpuArch, b + 1) \/ Wrong(f, "error parsing loadcpu declaration list")
  /\ UNCHANGED heap

\* parseIncludeFile and parse: the file is read where the program is, in the
\* global scope, as part of no module or function.
FinishInclude(f) ==
  LET fname == f.items[2].str
      base == NewFrame("text", 1, NoScope, NoFunction, globalScope)
      text == Files[fname]
      info == getInfo(text)
      reading(p) == input' = <<[text |-> text, b |-> p]>> \o [input EXCEPT ![1].b = b + 1]
      refused(what, line) == error' = [what |-> what, line |-> line] /\ stack' = <<>> /\ ret' = NoItem
  IN  /\ UNCHANGED heap
      /\ IF Len(f.items) # 2 THEN Wrong(f, "bad include")
         ELSE IF ~Is(f.items[2], "str") THEN Wrong(f, "bad include")
         ELSE IF fname \notin DOMAIN Files THEN Wrong(f, "unable to open include file")
         ELSE IF hasOpenComment(text) THEN reading(1) /\ refused("unmatched comment", 1)
         ELSE IF info.lparen # info.rparen
         THEN reading(End(text)) /\ refused("unbalanced", 1 + info.numLines)
         ELSE /\ reading(1)
              /\ stack' = <<Call(base, globalScope, FALSE), base, [f EXCEPT !.at = "include"]>>
                          \o Tail(stack)
              /\ UNCHANGED <<ret, error>>

\* A file holds one item, or nothing.
IncludeDone ==
  /\ Len(stack) > 1 /\ ret # NoItem /\ Frame.at = "text"
  /\ IF b # End(Text) THEN Fail("too many items", Frame, b)
     ELSE input' = Tail(input) /\ stack' = Tail(stack) /\ ret' = NoItem /\ UNCHANGED error
  /\ UNCHANGED heap

FinishIncluding ==
  /\ stack # <<>> /\ Frame.at = "include"
  /\ Return(Frame, k_void, b)
  /\ UNCHANGED heap

FinishList ==
  /\ stack # <<>> /\ Frame.at = "next" /\ At(Text, b) = ")"
  /\ CASE Head1(Frame) = "asgn" -> FinishAsgn(Frame)
       [] Head1(Frame) = "fun" -> FinishFun(Frame)
       [] Head1(Frame) = "lambda" -> FinishLambda(Frame)
       [] Head1(Frame) = "namespace" -> FinishNamespace(Frame)
       [] Head1(Frame) = "module" -> FinishModule(Frame)
       [] Head1(Frame) = "public" -> FinishPublic(Frame)
       [] Head1(Frame) = "axiom" -> FinishAxiom(Frame)
       [] Head1(Frame) = "return" -> FinishReturn(Frame)
       [] Head1(Frame) = "using" -> FinishUsing(Frame)
       [] Head1(Frame) = "debug" -> FinishDebug(Frame)
       [] Head1(Frame) = "loadcpu" -> FinishLoadcpu(Frame)
       [] Head1(Frame) = "include" -> FinishInclude(Frame)
       [] OTHER -> /\ Alloc(Frame.items, FALSE) /\ Return(Frame, NextList, b + 1)
                   /\ UNCHANGED <<funs, scopes>>

Parse ==
  \/ doParseInternal \/ FirstItem \/ QuotedItem \/ TakeItem \/ NextItem \/ FinishList
  \/ IncludeDone \/ FinishIncluding \/ Mismatch
=============================================================================
