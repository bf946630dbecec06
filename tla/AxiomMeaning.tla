---------------------------- MODULE AxiomMeaning ----------------------------
(***************************************************************************)
(* What a script means, without the scopes, forwarders, copies of bodies   *)
(* and references of the program: every name has the meaning it has where  *)
(* it is written, a function keeps the meanings of the names around it,    *)
(* and its arguments are evaluated before it is.                           *)
(*                                                                         *)
(* A script is read to trees. An environment is a sequence of frames, the  *)
(* innermost first; a frame gives names a meaning, which is a tree with    *)
(* the environment it belongs to, a value, the frame of a namespace or     *)
(* module, or a function that is defined later in a module.                *)
(***************************************************************************)
EXTENDS AxiomScanner, SequencesExt

CONSTANT Fuel

-----------------------------------------------------------------------------
(* Reading: a text without comments and strings *)

NextSymbol(t, p) == FirstFrom(t, p, LAMBDA j : t[j] \notin Blank)
TreeOf(symbols) ==
  LET digits == IF symbols[1] \in {"-", "+"} THEN Tail(symbols) ELSE symbols
      hex == Len(digits) > 2 /\ digits[2] = "x"
      places == IF hex THEN SubSeq(digits, 3, Len(digits)) ELSE digits
      n == FoldLeft(LAMBDA sum, c : sum * (IF hex THEN 16 ELSE 10) + DigitValue(c), 0, places)
      fits == n < 2 ^ Bits /\ (symbols[1] # "-" \/ n < 2 ^ (Bits - 1))
  IN  IF digits = <<>> \/ ~IsDigit(At(digits, 1)) THEN [word |-> FoldLeft(LAMBDA w, c : w \o c, "", symbols)]
      ELSE IF fits THEN [number |-> IF symbols[1] = "-" THEN (2 ^ Bits - n) % (2 ^ Bits) ELSE n]
      ELSE [tooLarge |-> symbols]

\* The tree at p with the position behind it, 0 if it is not complete.
RECURSIVE Read(_, _), ReadAll(_, _, _)
Read(t, p) ==
  IF At(t, p) = "(" THEN ReadAll(t, p + 1, <<>>)
  ELSE IF At(t, p) \in {"", ")"} THEN [tree |-> [word |-> ""], end |-> 0]
  ELSE IF t[p] = "'"
  THEN LET r == Read(t, p + 1) IN [r EXCEPT !.tree = [quoted |-> r.tree]]
  ELSE LET q == FirstFrom(t, p, LAMBDA j : t[j] \in Blank \cup {"(", ")"})
       IN  [tree |-> TreeOf(SubSeq(t, p, q - 1)), end |-> q]
ReadAll(t, p, done) ==
  LET q == NextSymbol(t, p)
      r == Read(t, q)
  IN  IF At(t, q) = ")" THEN [tree |-> [trees |-> done], end |-> q + 1]
      ELSE IF r.end = 0 THEN r ELSE ReadAll(t, r.end, Append(done, r.tree))

RECURSIVE Script(_, _)
Script(t, p) ==
  LET r == Read(t, NextSymbol(t, p)) IN IF r.end = 0 THEN <<>> ELSE <<r.tree>> \o Script(t, r.end)

-----------------------------------------------------------------------------
(* Meanings *)

Wrong == [wrong |-> TRUE]
Has(x, kind) == kind \in DOMAIN x
IsWord(t, w) == t = [word |-> w]
Starts(t, words) == Has(t, "trees") /\ t.trees # <<>> /\ \E w \in words : IsWord(t.trees[1], w)

Special == {"void", "plus", "minus", "lambda", "self", "funself", "list", "asgn", "module",
            "namespace", "fun", "return", "public", "axiom", "using", "include", "debug",
            "loadcpu"}
Definitions == {"asgn", "fun", "namespace", "module", "public", "axiom", "using"}

Empty == [n \in {} |-> Wrong]
Set(env, n, m) == [env EXCEPT ![1] = [k \in DOMAIN @ \cup {n} |-> IF k = n THEN m ELSE @[k]]]
SetAll(env, frame) ==
  [env EXCEPT ![1] =
    [k \in DOMAIN @ \cup DOMAIN frame |-> IF k \in DOMAIN frame THEN frame[k] ELSE @[k]]]
Lookup(env, n) ==
  LET at == {i \in DOMAIN env : n \in DOMAIN env[i]}
  IN  IF at = {} THEN Wrong ELSE env[CHOOSE i \in at : \A j \in at : i <= j][n]
Inner(env) == <<Empty>> \o env

\* The names that follow the name of a space.
Follow(m, names) ==
  FoldLeft(LAMBDA s, t : IF Has(s, "space") /\ Has(t, "word") THEN Lookup(<<s.space>>, t.word) ELSE Wrong,
           m, names)
Named(t, env) ==
  CASE Has(t, "word") -> Lookup(env, t.word)
    [] Has(t, "trees") -> IF t.trees # <<>> /\ Has(t.trees[1], "word")
                          THEN Follow(Lookup(env, t.trees[1].word), Tail(t.trees)) ELSE Wrong
    [] OTHER -> Wrong
IsPath(t, env) ==
  /\ Has(t, "trees") /\ t.trees # <<>>
  /\ IF Has(t.trees[1], "word") THEN Has(Lookup(env, t.trees[1].word), "space") ELSE FALSE
LastName(t) == IF Has(t, "word") THEN t.word ELSE Last(t.trees).word

Function(params, body, env) == [params |-> [i \in DOMAIN params |-> params[i].word],
                                body |-> body, env |-> env]

\* A list is read with a frame of its own: what is defined in it can be seen by
\* what follows. The items that are no definitions, each with its environment.
RECURSIVE Define(_, _), Body(_, _, _), ModuleFrame(_, _)
Body(trees, env, items) ==
  IF trees = <<>> THEN [env |-> env, items |-> items]
  ELSE IF Starts(trees[1], Definitions) THEN Body(Tail(trees), Define(trees[1], env), items)
  ELSE Body(Tail(trees), env, Append(items, [tree |-> trees[1], env |-> env]))

IsFunction(m) == Has(m, "params") \/ (Has(m, "tree") /\ Starts(m.tree, {"lambda"}))

ModuleFrame(t, env) ==
  LET own == IF Has(t[2], "word") THEN Set(<<Empty>>, t[2].word, [self |-> TRUE]) ELSE <<Empty>>
      used == FoldLeft(LAMBDA e, u : Set(e, LastName(u), Named(u, env)), own, t[4].trees)
      declared == FoldLeft(LAMBDA e, u : Set(e, u.word, [later |-> u.word, module |-> t, env |-> env]),
                           used, t[3].trees)
  IN  Body(SubSeq(t, 5, Len(t)), declared, <<>>).env[1]

Define(tree, env) ==
  LET t == tree.trees
      word == t[1].word
      functions == LET f == ModuleFrame(t, env) IN [n \in {k \in DOMAIN f : IsFunction(f[k])} |-> f[n]]
      old == Lookup(<<env[1]>>, t[2].word)
      before == IF Has(old, "space") THEN old.space ELSE Empty
      inner(k, frame) == Body(SubSeq(t, k, Len(t)), <<frame>> \o env, <<>>).env[1]
      name == t[2].trees[1].word
      later == Has(Lookup(env, name), "later")
      used == Follow(Lookup(env, t[2].word), SubSeq(t, 3, Len(t)))
  IN  CASE word = "asgn" -> Set(env, t[2].word,
             IF Has(t[3], "word") /\ t[3].word \notin Special /\ Lookup(env, t[3].word) # Wrong
             THEN Lookup(env, t[3].word)
             ELSE IF IsPath(t[3], env) THEN Named(t[3], env) ELSE [tree |-> t[3], env |-> env])
        [] word = "fun" ->
             Set(env, name,
                 Function(Tail(t[2].trees), SubSeq(t, 3, Len(t)),
                          IF later THEN env ELSE Set(Inner(env), name, [self |-> TRUE])))
        [] word = "namespace" ->
             Set(env, t[2].word, [space |-> inner(3, Set(<<before>>, t[2].word, [self |-> TRUE])[1])])
        [] word = "module" /\ Has(t[2], "word") -> Set(env, t[2].word, [space |-> functions])
        [] word = "module" /\ Has(t[2], "trees") ->
             FoldLeft(LAMBDA e, u : Set(e, u.word, functions[u.word]), env, t[2].trees)
        [] word = "public" ->
             LET f == inner(3, Empty) IN FoldLeft(LAMBDA e, u : Set(e, u.word, f[u.word]), env, t[2].trees)
        [] word = "axiom" -> Body(Tail(t), env, <<>>).env
        [] word = "using" ->
             IF Has(used, "space")
             THEN SetAll(env, [n \in {k \in DOMAIN used.space : ~Has(used.space[k], "self")} |->
                                used.space[n]])
             ELSE Set(env, Last(t).word, used)

-----------------------------------------------------------------------------
(* Values *)

RECURSIVE Quoted(_), Value(_, _, _), Force(_, _), Values(_, _, _), Apply(_, _, _), List(_, _)
Quoted(t) ==
  CASE Has(t, "trees") -> [seq |-> [i \in DOMAIN t.trees |-> Quoted(t.trees[i])]]
    [] Has(t, "quoted") -> Quoted(t.quoted)
    [] Has(t, "number") -> t
    [] Has(t, "word") -> CASE t.word = "nil" -> [seq |-> <<>>]
                           [] t.word = "zero" -> [bit |-> 0]
                           [] t.word = "one" -> [bit |-> 1]
                           [] t.word = "+" -> [atom |-> "plus"]
                           [] t.word = "-" -> [atom |-> "minus"]
                           [] OTHER -> [atom |-> t.word]
    [] OTHER -> t

Force(m, fuel) ==
  CASE Has(m, "tree") -> Value(m.tree, m.env, fuel)
    [] Has(m, "later") -> Force(Lookup(<<ModuleFrame(m.module, m.env)>>, m.later), fuel)
    [] Has(m, "value") -> m.value
    [] Has(m, "params") -> m
    [] OTHER -> Wrong

Values(items, done, fuel) ==
  LET v == Force(items[1], fuel)
  IN  IF items = <<>> THEN [seq |-> done]
      ELSE IF v = Wrong THEN Wrong ELSE Values(Tail(items), Append(done, v), fuel)

Single(items, fuel) == IF Len(items) = 1 THEN Force(items[1], fuel - 1) ELSE Wrong
Arguments(params, values) ==
  [n \in ToSet(params) |-> [value |-> values[Max({i \in DOMAIN params : params[i] = n})]]]
Apply(head, args, fuel) ==
  CASE head = [atom |-> "list"] -> args
    [] Has(head, "params") ->
         IF args = Wrong THEN Wrong
         ELSE IF Len(head.params) # Len(args.seq) THEN Wrong
         ELSE Single(Body(head.body, <<Arguments(head.params, args.seq)>> \o head.env, <<>>).items, fuel)
    [] OTHER -> Wrong

List(items, fuel) ==
  IF fuel = 0 \/ items = <<>> THEN Wrong
  ELSE Apply(Force(items[1], fuel), Values(Tail(items), <<>>, fuel), fuel)

Value(t, env, fuel) ==
  CASE Has(t, "number") \/ Has(t, "tooLarge") -> t
    [] Has(t, "quoted") -> Quoted(t.quoted)
    [] Has(t, "word") ->
         IF t.word \in Special \cup {"nil", "zero", "one", "+", "-"} THEN Quoted(t)
         ELSE Force(Lookup(env, t.word), fuel)
    [] Has(t, "trees") ->
         IF t.trees = <<>> THEN [seq |-> <<>>]
         ELSE IF IsPath(t, env) THEN Force(Named(t, env), fuel)
         ELSE IF Starts(t, {"return"}) THEN Force(Last(Body(t.trees, Inner(env), <<>>).items), fuel)
         ELSE IF Starts(t, {"lambda"})
         THEN Function(t.trees[2].trees, SubSeq(t.trees, 3, Len(t.trees)), env)
         ELSE List(Body(t.trees, Inner(env), <<>>).items, fuel)

\* The values of the items of a script.
Meanings(t) ==
  LET value(item) == Force(item, Fuel)
      values(items) == [i \in DOMAIN items |-> value(items[i])]
  IN  values(Body(Script(t, 1), <<Empty>>, <<>>).items)
=============================================================================
