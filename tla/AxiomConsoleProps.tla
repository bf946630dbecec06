------------------------- MODULE AxiomConsoleProps --------------------------
(***************************************************************************)
(* What the script language of makecpu promises.                           *)
(***************************************************************************)
EXTENDS AxiomConsole, Functions

\* For the sessions that are made of well-formed items, the values they should
\* have (AxiomMeaning).
CONSTANTS Scripts, MeaningsOf
ASSUME MeaningsAssumption == Scripts \subseteq Sessions /\ DOMAIN MeaningsOf = Scripts

Settled == phase # "parse"

-----------------------------------------------------------------------------
(* What items refer to *)

\* The items an item is made of.
RECURSIVE Within(_)
Within(item) ==
  LET x == Target(lists, item)
  IN  {x} \cup (IF Is(x, "list") THEN UNION {Within(y) : y \in Range(ItemsOf(lists, x))} ELSE {})

\* The items that evaluating one may lead to.
Behind(x) ==
  CASE Is(x, "list") -> Range(ItemsOf(lists, x))
    [] Is(x, "fun") -> {funs[x.fun].body}
    [] Is(x, "ref") \/ Is(x, "forward") -> {getTarget(scopes, x)}
    [] Is(x, "scope") -> Range(scopes[x.scope].symbols)
    [] OTHER -> {}
RECURSIVE Reached(_, _)
Reached(new, all) ==
  IF new \subseteq all THEN all
  ELSE Reached(UNION {{Target(lists, y) : y \in Behind(x)} : x \in new \ all}, all \cup new)

\* The functions that a function calls or names, and those they call.
Calls(f) == {g \in DOMAIN funs : \E x \in Within(funs[f].body) :
               x = FunDef(g) \/ (Is(x, "ref") /\ getTarget(scopes, x) = FunDef(g))}
RECURSIVE Called(_, _)
Called(new, all) ==
  IF new \subseteq all THEN all ELSE Called(UNION {Calls(f) : f \in new \ all}, all \cup new)

OwnArguments(f) == \A x \in Within(funs[f].body) : Is(x, "arg") => x.owner = f

-----------------------------------------------------------------------------
(* Properties *)

\* An answer is what the item means.
RECURSIVE Agrees(_, _)
Agrees(item, m) ==
  LET x == Target(lists, item)
  IN  CASE Is(m, "tooLarge") -> TRUE
        [] Is(m, "wrong") -> Is(x, "error")
        [] Is(m, "atom") -> x = Ident(m.atom)
        [] Is(m, "number") -> x = Number(m.number)
        [] Is(m, "bit") -> x = Bit(m.bit)
        [] Is(m, "seq") ->
             /\ Is(x, "list") /\ lists[x.list].quoted
             /\ Len(lists[x.list].items) = Len(m.seq)
             /\ \A i \in DOMAIN m.seq : Agrees(lists[x.list].items[i], m.seq[i])
        [] Is(m, "params") ->
             LET f == IF Is(x, "fun") THEN x
                      ELSE IF Is(x, "ref") \/ Is(x, "forward") THEN getTarget(scopes, x) ELSE NoItem
             IN  f # NoItem /\ funs[f.fun].numArgs = Len(m.params)

AtEnd == phase = "exit" \/ (phase = "read" /\ typed = Len(session))
\* The answers up to the first thing that was refused are as m says, and they are
\* all of m if each of its values can be written.
AnswersAgree(m) ==
  LET refused == {i \in DOMAIN answers : answers[i] = Failed("parser")}
      before == {i \in DOMAIN answers : \A j \in refused : i < j}
      clear == \A i \in DOMAIN m : DOMAIN m[i] \cap {"wrong", "tooLarge"} = {}
  IN  /\ \A i \in before : IF i \in DOMAIN m THEN Agrees(answers[i], m[i]) ELSE FALSE
      /\ clear => refused = {} /\ Len(answers) = Len(m)

\* At the end of a session, the answers that were given before anything was refused
\* are what the items of the script mean by themselves, however lists are shared,
\* replaced by their values, copied with other arguments and found through scopes;
\* and a script whose items all have a meaning was not refused (axiom_parser.h,
\* axiom_eval.h). It is asked of scripts in which no function has got hold of the
\* arguments of another.
Meaning ==
  AtEnd /\ session \in Scripts /\ (\A f \in DOMAIN funs : OwnArguments(f)) =>
    LET m == MeaningsOf[session] IN AnswersAgree(m)

\* No function can be reached from its own body other than through a forward
\* declaration of a module (axiom_parser.h:341: "recursion is only allowed inside
\* a module with a forward definition").
NoRecursion == Settled => \A f \in DOMAIN funs : f \notin Called(Calls(f), {})

\* Once a module has been read, or has failed, a function it declared and did not
\* define cannot be reached (axiom_parser.h: checks at the end of a module).
ForwardsDefined ==
  Settled =>
    NoItem \notin Reached({Scope(globalScope)} \cup Range(answers) , {})

\* The line that the program keeps while it reads, and reports, is the line where
\* it is, whatever comments, lists and included files it went through.
LineNumbers ==
  LET line == (IF Len(input) > 1 THEN 1 ELSE lineNum) + Newlines(Text, 1, b)
  IN  /\ stack # <<>> => LineOf(Frame) = line
      /\ error # NoError => error.line = line

\* The scans that decide whether a command is complete see the comments and the
\* parentheses that the parser sees, in a text without strings, # and //.
CommentState(t) ==
  LET after[n \in 0..Len(t)] ==
        IF n = 0 THEN "out"
        ELSE CASE after[n - 1] = "out" -> IF t[n] = "/" THEN "slash" ELSE "out"
               [] after[n - 1] = "slash" ->
                    IF t[n] = "*" THEN "in" ELSE IF t[n] = "/" THEN "slash" ELSE "out"
               [] after[n - 1] = "in" -> IF t[n] = "*" THEN "star" ELSE "in"
               [] after[n - 1] = "star" ->
                    IF t[n] = "/" THEN "out" ELSE IF t[n] = "*" THEN "star" ELSE "in"
  IN  after[Len(t)]
ScansAgree ==
  (/\ phase \in {"item", "parse"} /\ Len(input) = 1
   /\ Range(cmd) \cap {"\"", "#"} = {}
   /\ \A i \in DOMAIN cmd : ~(cmd[i] = "/" /\ At(cmd, i + 1) = "/"))
  => CommentState(cmd) = "out" /\ error.what # "parenthesis mismatch"

=============================================================================
