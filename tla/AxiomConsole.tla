---------------------------- MODULE AxiomConsole ----------------------------
(***************************************************************************)
(* The console of makecpu/test.cpp: lines are collected until they make up *)
(* a command, whose items are parsed and evaluated one after the other.    *)
(* Scopes and lists stay from one command to the next.                     *)
(***************************************************************************)
EXTENDS AxiomParser, AxiomEvaluator

CONSTANT Sessions   \* sequences of lines, the first of which may be several

VARIABLES
  session,
  typed,     \* so many of its lines have been typed
  phase,
  cmd,
  lineNum,   \* of the first line of the command
  lineTmp,   \* of the next item
  answers    \* to the items that are not void, and the errors

console == <<session, typed, phase, cmd, lineNum, lineTmp, answers>>
vars == <<control, heap, console>>

Init ==
  /\ session \in Sessions
  /\ typed = 0 /\ phase = "read" /\ cmd = <<>> /\ lineNum = 1 /\ lineTmp = 1 /\ answers = <<>>
  /\ input = <<[text |-> <<>>, b |-> 1]>> /\ stack = <<>> /\ ret = NoItem /\ error = NoError
  /\ lists = Lists0 /\ funs = <<>> /\ scopes = Scopes0

IsCommand(ln) == At(ln, 1) = "/" /\ At(ln, 2) # "*"

\* A command for the console makes it forget the lines before. A command that is
\* only blank is forgotten too, and its lines are not counted.
ReadLine ==
  /\ phase = "read" /\ typed < Len(session)
  /\ LET ln == session[typed + 1]
         text == cmd \o ln \o <<"\n">>
         info == getInfo(text)
         more == hasOpenComment(text) \/ info.lparen > info.rparen
         begin == ~IsCommand(ln) /\ ~more /\ info.ok
     IN  /\ phase' = IF begin THEN "item" ELSE IF ln = <<"/", "exit">> THEN "exit" ELSE "read"
         /\ cmd' = IF begin \/ (~IsCommand(ln) /\ more) THEN text ELSE <<>>
         /\ IF begin THEN input' = <<[text |-> text, b |-> 1]>> /\ lineTmp' = lineNum
            ELSE UNCHANGED <<input, lineTmp>>
  /\ typed' = typed + 1
  /\ UNCHANGED <<stack, ret, error, heap, session, lineNum, answers>>

parseInteractive ==
  /\ phase = "item"
  /\ LET base == NewFrame("text", lineTmp, NoScope, NoFunction, globalScope)
         rest == SubSeq(Text, b, Len(Text))
         info == getInfo(rest)
     IN  IF hasOpenComment(rest) THEN Fail("unmatched comment", base, b)
         ELSE IF info.lparen # info.rparen
         THEN Fail("unbalanced", [base EXCEPT !.numLines = info.numLines], End(Text))
         ELSE stack' = <<Call(base, globalScope, FALSE), base>> /\ UNCHANGED <<input, ret, error>>
  /\ phase' = "parse"
  /\ UNCHANGED <<heap, session, typed, cmd, lineNum, lineTmp, answers>>

ParseStep == phase = "parse" /\ Parse /\ UNCHANGED console

\* An item has been read. The last one of a command makes its lines count. An
\* evaluation that has no end takes the program with it.
Evaluate ==
  /\ phase = "parse" /\ Len(stack) = 1 /\ ret # NoItem
  /\ LET r == evaluate(lists, funs, scopes, ret, MaxDepth)
         more == b # End(Text)
     IN  /\ IF ret = k_void THEN UNCHANGED <<lists, answers>>
            ELSE lists' = r.lists /\ answers' = Append(answers, r.val)
         /\ phase' = IF ret # k_void /\ r.val = Failed("diverges") THEN "exit"
                     ELSE IF more THEN "item" ELSE "read"
         /\ cmd' = IF more THEN cmd ELSE <<>>
         /\ lineNum' = IF more THEN lineNum ELSE lineNum + getInfo(cmd).numLines
  /\ lineTmp' = LineOf(Frame)
  /\ stack' = <<>> /\ ret' = NoItem
  /\ UNCHANGED <<input, error, funs, scopes, session, typed>>

\* The rest of the command is dropped, and its lines are not counted.
GiveUp ==
  /\ phase = "parse" /\ error # NoError
  /\ phase' = "read" /\ cmd' = <<>> /\ error' = NoError
  /\ answers' = Append(answers, Failed("parser"))
  /\ UNCHANGED <<input, stack, ret, heap, session, typed, lineNum, lineTmp>>

\* Nothing more is typed, or the program has ended.
Over == (phase = "exit" \/ (phase = "read" /\ typed = Len(session))) /\ UNCHANGED vars

Next == ReadLine \/ parseInteractive \/ ParseStep \/ Evaluate \/ GiveUp \/ Over
Spec == Init /\ [][Next]_vars
=============================================================================
