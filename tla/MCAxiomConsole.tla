--------------------------- MODULE MCAxiomConsole ---------------------------
(***************************************************************************)
(* The sessions and files the console is checked with.                     *)
(***************************************************************************)
EXTENDS AxiomConsoleProps

Language == INSTANCE AxiomMeaning WITH Fuel <- MaxDepth

\* All that is typed in a session.
Whole(s) ==
  LET from[i \in 1..(Len(s) + 1)] == IF i > Len(s) THEN <<>> ELSE s[i] \o <<"\n">> \o from[i + 1]
  IN  from[1]

\* A blank behind every word but those in front of a parenthesis.
Spaced(s) ==
  LET word(i) == At(s, i) \notin {"", "(", ")", "'"}
      from[i \in 1..(Len(s) + 1)] ==
        IF i > Len(s) THEN <<>>
        ELSE (IF word(i) /\ At(s, i + 1) \notin {"(", ")"} THEN <<s[i], " ">> ELSE <<s[i]>>) \o from[i + 1]
  IN  from[1]
AllSpaced(lines) == [i \in DOMAIN lines |-> Spaced(lines[i])]

\* What test.cpp:68-76 types by itself.
firstCmd == Whole(AllSpaced(
  <<<<"(", "asgn", "inner", "(", "lambda", "(", "x", ")", "(", "list", "'", "inner", "x", ")",
      ")", ")">>,
    <<"(", "asgn", "outer", "(", "lambda", "(", "y", ")", "(", "list", "y", "'", "outer", ")",
      ")", ")">>,
    <<"(", "asgn", "both", "(", "lambda", "(", "a", "b", ")", "(", "list", "(", "asgn", "q", "(",
      "inner", "a", ")", ")", "q", "q", "(", "outer", "b", ")", "q", "q", ")", ")", ")">>,
    <<"(", "module", "bar", "(", "a", "b", ")", "(", ")", "(", "fun", "(", "get-cool", ")", "'",
      "cool", ")", "(", "asgn", "a", "(", "lambda", "(", "v", ")", "(", "list", "v", "(", "b",
      ")", ")", ")", ")", "(", "asgn", "b", "(", "lambda", "(", ")", "(", "get-cool", ")", ")",
      ")", ")">>,
    <<"(", "module", "foo2", "(", "a", ")", "(", ")", "(", "asgn", "a", "(", "lambda", "(", "x",
      ")", "(", "list", "'", "here", "x", ")", ")", ")", ")">>,
    <<"(", "(", "bar", "a", ")", "'", "very", ")">>,
    <<"(", "both", "1", "2", ")">>,
    <<"(", "(", "foo2", "a", ")", "'", "there", ")">>>>))

\* Functions, arguments, namespaces, modules; the last has no blank put in.
ScriptLines == {
  <<<<"(", "(", "lambda", "(", "a", "b", ")", "(", "list", "a", "b", ")", ")", "'", "alpha", "'",
      "beta", ")">>>>,
  <<<<"(", "fun", "(", "f", "x", ")", "(", "list", "x", "x", ")", ")", "(", "f", "(", "f", "1",
      ")", ")">>,
    <<"(", "fun", "(", "g", "x", ")", "(", "f", "x", ")", ")", "(", "fun", "(", "f", "x", ")",
      "'", "new", ")", "(", "list", "(", "f", "1", ")", "(", "g", "1", ")", ")">>>>,
  <<<<"(", "list", "(", "asgn", "q", "(", "list", "'", "a", "'", "b", "'", "c", ")", ")", "q",
      "q", "q", ")", "(", "asgn", "q", "7", ")", "q">>>>,
  <<<<"(", "namespace", "n", "(", "fun", "(", "a", "x", ")", "(", "list", "x", "1", ")", ")",
      "(", "asgn", "c", "(", "list", "2", ")", ")", ")">>,
    <<"(", "list", "(", "n", "c", ")", "(", "(", "n", "a", ")", "3", ")", ")", "(", "namespace",
      "n", "(", "fun", "(", "d", ")", "(", "a", "c", ")", ")", ")", "(", "asgn", "k", "(", "n",
      "d", ")", ")">>,
    <<"(", "k", ")", "(", "using", "n", "d", ")", "(", "d", ")", "(", "using", "n", ")", "(",
      "a", "c", ")", "(", "asgn", "m", "n", ")", "(", "(", "m", "a", ")", "4", ")">>>>,
  <<<<"(", "module", "m", "(", "g", ")", "(", ")", "(", "fun", "(", "f", "x", ")", "(", "g", "(",
      "list", "x", ")", ")", ")", "(", "fun", "(", "g", "x", ")", "(", "list", "x", "1", ")",
      ")", ")">>,
    <<"(", "(", "m", "f", ")", "2", ")", "(", "using", "m", "f", ")", "(", "asgn", "f2", "f",
      ")", "(", "f2", "3", ")">>>>,
  <<<<"(", "module", "m", "(", "g", ")", "(", ")", "(", "fun", "(", "g", "x", ")", "(", "g", "x",
      ")", ")", ")", "(", "(", "m", "g", ")", "1", ")", "5">>>>,
  <<<<"(", "fun", "(", "h", "x", ")", "(", "list", "x", ")", ")", "(", "namespace", "n", "(",
      "fun", "(", "k", ")", "'", "deep", ")", ")">>,
    <<"(", "module", "(", "f", "e", ")", "(", "e", ")", "(", "h", "(", "n", "k", ")", ")", "(",
      "fun", "(", "f", "x", ")", "(", "list", "(", "h", "x", ")", "(", "e", ")", ")", ")", "(",
      "fun", "(", "e", ")", "(", "k", ")", ")", ")">>,
    <<"(", "fun", "(", "h", ")", "0", ")", "(", "f", "1", ")", "(", "list", "f", "(", "e", ")",
      "e", ")">>>>,
  <<<<"(", "public", "(", "p", "r", ")", "(", "asgn", "q", "(", "list", "1", ")", ")", "(",
      "fun", "(", "p", ")", "q", ")", "(", "asgn", "r", "(", "p", ")", ")", ")">>,
    <<"(", "list", "(", "p", ")", "r", ")">>>>,
  <<<<"(", "axiom", "(", "asgn", "k", "1", ")", "(", "fun", "(", "h", "x", ")", "(", "list", "x",
      "k", ")", ")", "(", "axiom", "(", "asgn", "j", "(", "h", "k", ")", ")", ")", ")", "j", "(",
      "h", "2", ")">>>>,
  <<<<"(", "fun", "(", "f", "x", ")", "(", "asgn", "y", "(", "list", "x", "1", ")", ")", "(",
      "return", "(", "list", "y", "y", "x", ")", ")", ")", "(", "f", "2", ")", "(", "f", "3",
      ")">>>>,
  <<<<"(", "list", "plus", "minus", "+", "-", "zero", "one", "nil", "list", "'", "list", ")",
      "(", "list", ")", "'", "(", "a", "(", "b", "1", ")", "nil", "'", "+", ")", "(", "nil", ")",
      "'", "nil", "(", ")">>>>,
  <<<<"(", "(", "lambda", "(", "x", ")", "x", ")", "1", "2", ")", "(", "fun", "(", "f", ")", "'",
      "c", ")", "(", "list", "(", "f", ")", "(", "f", ")", ")", "(", "f", "1", ")", "(", "(",
      "f", ")", ")", "(", "list", "(", "f", ")", "(", "(", "f", ")", ")", "(", "list", ")", ")">>>>,
  <<<<"(", "(", "lambda", "(", "x", ")", "(", "(", "lambda", "(", "x", ")", "(", "list", "x",
      "x", ")", ")", "(", "list", "x", "1", ")", ")", ")", "2", ")">>>>,
  <<<<"(", "fun", "(", "id", "x", ")", "x", ")", "(", "fun", "(", "twice", "f", "x", ")", "(",
      "(", "id", "f", ")", "(", "(", "id", "f", ")", "x", ")", ")", ")", "(", "fun", "(", "p",
      "x", ")", "(", "list", "x", "x", ")", ")", "(", "twice", "p", "1", ")", "(", "twice", "p",
      "(", "twice", "p", "2", ")", ")">>>>,
  <<<<"(", "fun", "(", "make", "x", ")", "(", "lambda", "(", "y", ")", "(", "list", "y", "y",
      ")", ")", ")", "(", "(", "make", "1", ")", "2", ")", "(", "list", "(", "make", "1", ")",
      ")", "(", "fun", "(", "ap", "f", ")", "(", "(", "list", "f", ")", ")", ")">>>>,
  <<<<"(", "fun", "(", "f", "x", ")", "(", "asgn", "y", "(", "list", "x", ")", ")", "(", "fun",
      "(", "g", "z", ")", "y", ")", "(", "list", "(", "g", "1", ")", "(", "g", "2", ")", ")",
      ")", "(", "f", "5", ")", "(", "f", "6", ")">>>>,
  <<<<"(", "fun", "(", "f", "x", ")", "'", "old", ")", "(", "fun", "(", "f", "x", ")", "(", "f",
      "x", ")", ")", "(", "f", "1", ")">>>>,
  <<<<"(", "asgn", "x", "1", ")", "(", "fun", "(", "f", "x", ")", "(", "list", "x", ")", ")",
      "(", "f", "2", ")", "x", "(", "list", "x", "zz", ")", "(", "f", "3", ")">>>>,
  <<<<"(", "asgn", "a", "1", ")">>,
    <<"(", "fun", "(", "g", ")", "(", "list", "a", ")", ")", "(", "asgn", "a", "2", ")">>,
    <<"(", "g", ")", "(", "g", ")", "a">>>>,
  <<<<"(", "fun", "(", "k", "x", "y", ")", "(", "list", "y", ")", ")", "(", "fun", "(", "s", ")",
      "(", "list", "1", ")", ")", "(", "list", "(", "k", "(", "s", ")", "(", "s", ")", ")", "(",
      "k", "1", "(", "k", "2", "3", ")", ")", ")">>>>,
  <<<<"(", "module", "m", "(", ")", "(", ")", "(", "asgn", "c", "(", "list", "1", ")", ")", "(",
      "fun", "(", "f", ")", "(", "asgn", "d", "(", "list", "c", "c", ")", ")", "(", "list", "d",
      "d", ")", ")", ")", "(", "list", "(", "(", "m", "f", ")", ")", "(", "(", "m", "f", ")",
      ")", ")">>>>,
  <<<<"(", "module", "o", "(", "a", "b", ")", "(", ")", "(", "fun", "(", "a", "x", ")", "(", "b",
      "x", ")", ")", "(", "fun", "(", "b", "x", ")", "(", "list", "'", "b", "x", ")", ")", "(",
      "module", "(", "i", ")", "(", ")", "(", "a", ")", "(", "fun", "(", "i", ")", "(", "a", "1",
      ")", ")", ")", "(", "fun", "(", "j", ")", "(", "i", ")", ")", ")", "(", "(", "o", "j", ")",
      ")">>>>,
  <<<<"(", "fun", "(", "f", ")", "(", "g", ")", ")", "(", "fun", "(", "g", ")", "1", ")", "(",
      "f", ")">>>>,
  <<<<"(", "namespace", "w", "(", "asgn", "x", "1", ")", "(", "namespace", "v", "(", "asgn", "y",
      "(", "list", "x", ")", ")", ")", ")", "(", "w", "v", "y", ")", "(", "list", "(", "w", "x",
      ")", "(", "w", "v", "y", ")", ")">>,
    <<"(", "namespace", "w", "(", "asgn", "x", "2", ")", "(", "namespace", "v", "(", "asgn", "z",
      "(", "list", "x", "y", ")", ")", ")", ")", "(", "w", "v", "z", ")", "(", "using", "w", "v",
      ")", "(", "v", "y", ")">>>>,
  <<<<"(", "fun", "(", "f", "x", "x", ")", "(", "list", "x", ")", ")", "(", "f", "1", "2", ")">>>>,
  <<<<"(", "fun", "(", "f", "f", ")", "(", "list", "f", ")", ")", "(", "f", "1", ")", "(",
      "list", "f", ")">>>>,
  <<<<"(", "fun", "(", "id", "x", ")", "x", ")", "(", "asgn", "e", "(", "lambda", "(", "x", ")",
      "(", "(", "id", "x", ")", "x", ")", ")", ")", "(", "e", "id", ")", "(", "e", "e", ")", "1">>>>,
  <<<<"(", "list", "'", "a", "(", "module", "m", "(", ")", "(", ")", "(", "fun", "(", "f", ")",
      "'", "in", ")", ")", "(", "namespace", "n", "(", "asgn", "b", "(", "m", "f", ")", ")", ")",
      "(", "(", "n", "b", ")", ")", "(", "n", "b", ")", ")", "(", "m", "f", ")">>>>,
  <<<<"(", "fun", "(", "w", ")", "(", "list", "(", "asgn", "q", "(", "list", "1", ")", ")", "q",
      "(", "asgn", "q", "(", "list", "q", "2", ")", ")", "q", ")", ")", "(", "w", ")">>>>,
  <<<<"(", "fun", "(", "x", "y", ")", "(", "list", "y", ")", ")", "(", "list", "(", "asgn", "z",
      "(", "x", "1", ")", ")", "'", "z", "z", ")", "(", "return", "(", "x", "2", ")", ")", "(",
      "return", "3", ")">>>>,
  <<<<"(", "list", "(", "list", "1", ")", "(", "(", "lambda", "(", "q", ")", "(", "list", "q",
      "(", "asgn", "q", "3", ")", "q", ")", ")", "2", ")", ")">>>>}

numbers == <<
  <<"1", "2", " ", "(", "list", " ", "-", "3", " ", "0", "x", "1", "f", " ", "+", "5", ")", " ",
    "0", "x", "f", "f", " ", "-", "1", "2", "7", " ", "1", "2", "7", " ", "2", "5", "5", " ",
    "0", " ", "-", "0">>,
  <<"2", "5", "6", " ", "3", "0", "0", " ", "0", "x", "1", "0", "0", " ", "-", "1", "2", "9",
    " ", "-", "2", "0", "0", " ", "-", "1", "2", "8">>>>

MCScripts == {AllSpaced(s) : s \in ScriptLines } \cup {<<firstCmd>>, numbers}

\* Items that are refused, one after the other.
Mistakes == {
  <<<<"(", "'", "a", "b", ")">>,
    <<"(", "list", "nil", ")", ")">>,
    <<"(", "list", "zz", ")">>,
    <<"(", "(", "return", "'", "zz", ")", "1", ")">>,
    <<"(", "(", "return", "'", "list", ")", "1", ")">>,
    <<"(", "fun", "(", "list", "x", ")", "1", ")">>,
    <<"(", "1", "2", ")">>,
    <<"(", "asgn", "a", ")">>,
    <<"(", "asgn", "1", "2", ")">>,
    <<"(", "asgn", "system", "1", ")">>,
    <<"(", "fun", "f", "x", ")">>,
    <<"(", "fun", "(", ")", "1", ")">>,
    <<"(", "fun", "(", "(", "f", ")", ")", "1", ")">>,
    <<"(", "fun", "(", "f", "1", ")", "1", ")">>,
    <<"(", "fun", "(", "f", "x", ")", ")">>,
    <<"(", "fun", "(", "1", "x", ")", "1", ")">>,
    <<"(", "lambda", "x", "1", ")">>,
    <<"(", "lambda", "(", "1", ")", "1", ")">>,
    <<"(", "lambda", "(", "x", ")", ")">>,
    <<"funself">>,
    <<"(", "fun", "(", "g", "x", ")", "(", "g", "x", ")", ")">>>>,
  <<<<"(", "list", "(", "lambda", "(", "x", "w", ")", "(", "list", "(", "(", "lambda", "(", "y",
      ")", "x", ")", "x", ")", ")", ")", ")">>,
    <<"(", "fun", "(", "f", "x", ")", "(", "fun", "(", "g", "y", ")", "(", "list", "x", ")", ")",
      "(", "g", "x", ")", ")">>,
    <<"(", "fun", "(", "f", "x", ")", "(", "f", "x", ")", ")">>,
    <<"(", "fun", "(", "f", "x", ")", "(", "module", "m", "(", ")", "(", "x", ")", ")", "x", ")">>,
    <<"(", "fun", "(", "f", "x", ")", "(", "module", "m", "(", ")", "(", ")", "(", "fun", "(",
      "g", ")", "x", ")", ")", "x", ")">>,
    <<"(", "fun", "(", "f", "x", ")", "(", "asgn", "y", "x", ")", "(", "lambda", "(", "z", ")",
      "y", ")", ")">>,
    <<"(", "fun", "(", "f", "x", ")", "(", "namespace", "n", "(", "asgn", "y", "x", ")", ")",
      "(", "lambda", "(", "z", ")", "(", "n", "y", ")", ")", ")">>,
    <<"(", "fun", "(", "f", "x", ")", "(", "list", "void", "x", ")", "(", "x", ")", ")">>,
    <<"(", "void", ")">>,
    <<"(", "void", "list", "void", "1", ")">>,
    <<"(", "namespace", "n", "(", "asgn", "x", "1", ")", "(", "axiom", "1", ")", ")">>,
    <<"(", "list", "(", "asgn", "k", "1", ")", "void", "k", ")">>,
    <<"k">>>>,
  <<<<"(", "namespace", "1", ")">>,
    <<"(", "namespace", "n", "1", ")">>,
    <<"(", "namespace", "system", ")">>,
    <<"(", "module", "m", "(", ")", "(", ")", "(", "fun", "(", "f", ")", "1", ")", ")", "(",
      "namespace", "m", ")">>,
    <<"(", "namespace", "n", "(", "asgn", "a", "1", ")", ")", "n", "(", "n", ")", "(", "n", "a",
      ")">>,
    <<"(", "n", "a", "1", ")">>,
    <<"(", "n", "zz", ")">>,
    <<"(", "n", "n", ")">>,
    <<"(", "n", "a", "a", ")">>,
    <<"(", "namespace", "p", "(", "asgn", "q", "n", ")", "(", "n", ")", ")">>,
    <<"(", "list", "n", ")">>,
    <<"(", "list", "(", "list", "n", ")", ")">>,
    <<"(", "list", "(", "n", ")", ")">>,
    <<"(", "namespace", "p", "(", "asgn", "q", "n", ")", ")", "(", "p", "q", "a", ")">>,
    <<"(", "using", "p", "q", ")">>,
    <<"(", "list", "(", "q", "a", ")", "a", ")">>>>,
  <<<<"(", "module", "1", "(", ")", "(", ")", ")">>,
    <<"(", "module", "m", "a", "(", ")", ")">>,
    <<"(", "module", "m", "(", ")", "a", ")">>,
    <<"(", "module", "system", "(", ")", "(", ")", ")">>,
    <<"(", "module", "m", "(", "g", ")", "(", ")", ")">>,
    <<"(", "module", "m", "(", "g", ")", "(", ")", "(", "fun", "(", "f", ")", "(", "g", ")", ")",
      ")">>,
    <<"(", "module", "m", "(", "g", ")", "(", ")", "(", "fun", "(", "f", ")", "(", "g", ")", ")",
      "(", "asgn", "g", "1", ")", ")", "(", "(", "m", "f", ")", ")">>,
    <<"(", "module", "m", "(", "1", ")", "(", ")", ")">>,
    <<"(", "module", "(", "a", ")", "(", ")", "(", ")", ")">>,
    <<"(", "module", "m", "(", ")", "(", "zz", ")", ")">>,
    <<"(", "module", "m", "(", ")", "(", "(", "zz", "a", ")", ")", ")">>,
    <<"(", "module", "m", "(", ")", "(", "(", "1", "a", ")", ")", ")">>,
    <<"(", "module", "m", "(", ")", "(", ")", "1", ")">>,
    <<"(", "module", "m", "(", "g", ")", "(", ")", "(", "asgn", "b", "(", "g", ")", ")", "(",
      "fun", "(", "g", ")", "(", "list", "b", ")", ")", ")">>,
    <<"(", "module", "m", "(", ")", "(", ")", "(", "fun", "(", "f", ")", "1", ")", "(", "m", ")",
      ")">>,
    <<"(", "module", "m", "(", ")", "(", "(", ")", ")", ")">>,
    <<"(", "namespace", "n", "(", "asgn", "a", "1", ")", "(", "module", "o", "(", ")", "(", "n",
      ")", "1", ")", ")">>,
    <<"(", "module", "m", "(", "g", ")", "(", ")", "(", "fun", "(", "f", ")", "(", "g", ")", ")",
      "(", "include", "zz", ")", ")">>,
    <<"(", "asgn", "a", "1", ")", "(", "module", "p", "(", ")", "(", "a", ")", "(", "fun", "(",
      "f", ")", "(", "list", "a", "zz", ")", ")", ")">>,
    <<"(", "module", "p", "(", "g", ")", "(", "a", ")", "(", "fun", "(", "f", ")", "(", "list",
      "(", "g", ")", "a", ")", ")", "(", "fun", "(", "g", ")", "'", "g", ")", ")", "(", "(", "p",
      "f", ")", ")">>,
    <<"(", "module", "(", "f", ")", "(", ")", "(", "(", "p", "f", ")", ")", ")", "(", "module",
      "(", "h", ")", "(", ")", "(", "(", "p", "f", ")", ")", "(", "fun", "(", "h", ")", "(", "f",
      ")", ")", ")", "(", "h", ")">>>>,
  <<<<"(", "public", "a", ")">>,
    <<"(", "public", "(", "a", "zz", ")", "(", "asgn", "a", "1", ")", ")">>,
    <<"(", "list", "a", ")">>,
    <<"(", "public", "(", "1", ")", ")">>,
    <<"(", "public", "(", "a", ")", "(", "asgn", "a", "2", ")", "1", ")">>,
    <<"(", "axiom", "(", "asgn", "b", "1", ")", "1", ")">>,
    <<"(", "list", "b", ")">>,
    <<"(", "return", ")">>,
    <<"(", "return", "1", "2", ")">>,
    <<"(", "using", ")">>,
    <<"(", "using", "zz", ")">>,
    <<"(", "using", "nil", ")">>,
    <<"(", "using", "1", ")">>,
    <<"(", "using", "b", ")">>,
    <<"(", "module", "m", "(", ")", "(", ")", "(", "fun", "(", "f", ")", "(", "list", "b", ")",
      ")", ")", "(", "using", "m", ")">>,
    <<"(", "module", "m", "(", ")", "(", "b", ")", "(", "fun", "(", "f", ")", "(", "list", "b",
      ")", ")", ")", "(", "using", "m", ")">>,
    <<"(", "using", "m", "zz", ")">>,
    <<"(", "using", "m", "f", ")", "(", "f", ")">>,
    <<"(", "fun", "(", "f", ")", "1", ")", "(", "f", ")", "(", "list", "f", "self", ")">>>>,
  <<<<"(", "debug", "1", ")">>,
    <<"(", "debug", ")">>,
    <<"(", "loadcpu", "a", ")">>,
    <<"(", "loadcpu", ")">>,
    <<"(", "loadcpu", "(", "a", "(", "b", ")", ")", "c", ")">>,
    <<"(", "loadcpu", "(", "a", "(", "b", ")", ")", ")">>,
    <<"(", "include", "1", ")">>,
    <<"(", "include", ")">>,
    <<"(", "zero", "1", ")">>>>}

\* Strings, comments, included files and commands of the console.
RawTexts == {
  <<<<"(", "include", " ", "\"", "lib", "\"", ")", "(", "id", " ", "3", ")">>,
    <<"(", "namespace", " ", "n", " ", "(", "include", " ", "\"", "lib", "\"", ")", ")", "(",
      "id", " ", "4", ")">>,
    <<"(", "include", " ", "\"", "zz", "\"", ")">>,
    <<"(", "include", " ", "\"", "two", "\"", ")">>,
    <<"(", "include", " ", "\"", "open", "\"", ")">>,
    <<"(", "include", " ", "\"", "bad", "\"", ")">>,
    <<"(", "include", " ", "\"", "late", "\"", ")">>,
    <<"(", "include", " ", "\"", "note", "\"", ")">>,
    <<"(", "debug", " ", "\"", "on", "\"", ")", " ", "1">>>>,
  <<<<"\"", "a", "(", "\"", " ", "1">>,
    <<"(", "list", " ", "\"", "(", "\"", " ", "a", ")">>,
    <<"(", "list", " ", "\"", "a", ")", "\"", " ", "1", ")">>,
    <<"\"", "a", ")", "\"", " ", "(">>,
    <<"(", "list", " ", "\"", "a", ")", "\"">>,
    <<"\"", "/", "*", "\"", " ", "1", " ", "/", "*", "/">>,
    <<"\"", "a", "\\", "n", "\\", "\"", "\"", " ", "2">>,
    <<"\"", "a">>,
    <<"\"", "a", "\\">>,
    <<"x", "\"", "b", "\"", " ", "1">>,
    <<"(", "\"", "a", "\"", ")">>,
    <<"(", "include", " ", "\"", "lib", "\"", " ", "\"", "lib", "\"", ")">>>>,
  <<<<"(", "list", " ", "#", " ", ")">>,
    <<"1", " ", "/", "*", " ", "(", " ">>>>,
  <<<<"*", " ", "*", "/", " ", "zz", ")">>,
    <<"(", "list", " ", "1">>,
    <<"/", "names">>>>,
  <<<<"#", " ", "one">>,
    <<"/", "*", " ", "two">>,
    <<"*", "/">>,
    <<"(", "list">>,
    <<"zz", ")", " ", "1">>,
    <<"'", " ", "a">>,
    <<"'", "/", "a">>>>,
  <<<<"(", "asgn", " ", "a", " ", "1", ")", " ", "'", "#", "b">>,
    <<"-">>,
    <<"9", "z">>,
    <<"0", "xz">>,
    <<"+", "1", " ", "-", "1">>,
    <<"/", "*", " ", "(">>,
    <<"/", "exit">>,
    <<"1">>>>,
  <<<<"(", "list">>,
    <<" ", "1", " ", "(", "list">>,
    <<" ", " ", "2", ")", " ", "#", " ", "x">>,
    <<" ", " ", "\"", "a", "\"">>,
    <<" ", " ", "9", "z", ")">>,
    <<")">>,
    <<"2">>>>}

\* All short texts, and the line that is typed after each.
TextsOf(symbols, n) == UNION {[1..k -> symbols] : k \in 1..n}
ShortTexts ==
  {<<t, <<"*", "/", ")">>>> : t \in TextsOf({"(", ")", "/", "*", "#", "\n", "\"", "'", "nil"}, 3)
                               \cup TextsOf({"(", ")", "/", "*"}, 5)}

MCSessions == MCScripts \cup {AllSpaced(s) : s \in Mistakes} \cup RawTexts \cup ShortTexts

MCMeaningsOf == [s \in MCScripts |-> Language!Meanings(Whole(s))]

MCFiles ==
  [lib |-> <<"(", "axiom", "\n", "(", "fun", "(", "id", " ", "z", ")", "\n", "z", ")", ")", "\n">>,
   two |-> <<"1", " ", "2", "\n">>,
   open |-> <<"(", "list", "\n">>,
   bad |-> <<"\n", "(", "list", " ", "zz", ")", "\n">>,
   late |-> <<"/", "*", "\n">>,
   note |-> <<"#", "\n">>]
=============================================================================
