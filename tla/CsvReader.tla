----------------------------- MODULE CsvReader -----------------------------
(***************************************************************************)
(* class CsvReader of util/main/crudasm9.cpp.  A line is fetched when get, *)
(* at_eof or next first needs it; until then csv_begin stands before it.   *)
(* The caller may make these calls in any order.                           *)
(***************************************************************************)
EXTENDS Naturals, SequencesExt

CONSTANTS
  Characters, \* what a file is made of
  Texts,      \* the files considered
  Columns,    \* the arguments of get
  Quote, Comma, Newline, Blank    \* characters that mean something

\* Line feed and carriage return are one character here, as are the others
\* that isspace accepts.
ASSUME TextsAssumption == \A t \in Texts : t \in Seq(Characters)
ASSUME CharactersAssumption == Cardinality({Quote, Comma, Newline, Blank}) = 4
ASSUME ColumnsAssumption == Columns \subseteq Nat

VARIABLES
  text,       \* the file
  csv_begin,  \* index of the next character; Len(text) + 1 is csv_end
  ready, past_end, items,
  answer      \* what the last call returned

reader == <<csv_begin, ready, past_end, items>>
vars == <<text, csv_begin, ready, past_end, items, answer>>

Item(i) == [item |-> i]
NoItem == Item(<<>>)
Eof(b) == [eof |-> b]
NoAnswer == [left |-> TRUE]

Init ==
  /\ text \in Texts
  /\ csv_begin = 1
  /\ ready = FALSE /\ past_end = FALSE
  /\ items = <<>>
  /\ answer = NoItem

-----------------------------------------------------------------------------
(* fetch_line *)

\* The first character from k on that is not white space.
SkipSpace(k) ==
  CHOOSE i \in k..(Len(text) + 1) :
    /\ \A j \in k..(i - 1) : text[j] \in {Newline, Blank}
    /\ i <= Len(text) => text[i] \notin {Newline, Blank}

\* A quote discards what the item had before it.
OpenQuote_keep(l) == [l EXCEPT !.quoted = TRUE]
OpenQuote(l) == [l EXCEPT !.quoted = TRUE, !.token = <<>>]

\* One character of a line, in or out of quotes; a line break ends the line
\* only outside of them, and is left where it is.
Lex(l, c) ==
  IF l.ended \/ (c = Newline /\ ~l.quoted) THEN [l EXCEPT !.ended = TRUE]
  ELSE LET taken == [l EXCEPT !.length = @ + 1]
       IN  CASE c = Quote /\ l.quoted  -> [taken EXCEPT !.quoted = FALSE]
             [] c = Quote /\ ~l.quoted -> OpenQuote(taken)
             [] c = Comma /\ ~l.quoted -> [taken EXCEPT !.token = <<>>,
                                             !.items = Append(@, l.token)]
             [] OTHER -> [taken EXCEPT !.token = Append(@, c)]

LineStart == [items |-> <<>>, token |-> <<>>, length |-> 0,
              quoted |-> FALSE, ended |-> FALSE]
Line(k) == FoldLeft(Lex, LineStart, SubSeq(text, k, Len(text)))

\* The reader after fetch_line; an item that is still empty at the end of its
\* line is not counted.
fetch_line ==
  LET k == SkipSpace(csv_begin)
      l == Line(k)
  IN  IF past_end
      THEN [at |-> csv_begin, items |-> <<>>, ready |-> ready, past_end |-> TRUE]
      ELSE IF k > Len(text)
      THEN [at |-> k, items |-> <<>>, ready |-> ready, past_end |-> TRUE]
      ELSE [at |-> k + l.length, ready |-> TRUE, past_end |-> FALSE,
            items |-> IF l.token = <<>> THEN l.items
                      ELSE Append(l.items, l.token)]

Reader == [at |-> csv_begin, items |-> items, ready |-> ready,
           past_end |-> past_end]

\* The reader once the current line has been fetched.
Current == IF ready THEN Reader ELSE fetch_line

Become(r) ==
  /\ csv_begin' = r.at
  /\ items' = r.items
  /\ ready' = r.ready
  /\ past_end' = r.past_end

-----------------------------------------------------------------------------
(* The calls *)

get(n) ==
  /\ Become(Current)
  /\ answer' = IF past_end' \/ n >= Len(items') THEN NoItem ELSE Item(items'[n + 1])
  /\ UNCHANGED text

at_eof_lazy ==
  /\ answer' = Eof(past_end)
  /\ UNCHANGED <<text, reader>>
at_eof ==
  /\ Become(IF past_end THEN Reader ELSE Current)
  /\ answer' = Eof(past_end')
  /\ UNCHANGED text

next_unread ==
  /\ items' = <<>> /\ ready' = FALSE
  /\ answer' = NoAnswer
  /\ UNCHANGED <<text, csv_begin, past_end>>
\* What had been answered was about a row that is left now.
next ==
  /\ IF past_end THEN ready' = FALSE /\ UNCHANGED <<csv_begin, items, past_end>>
     ELSE Become([Current EXCEPT !.items = <<>>, !.ready = FALSE])
  /\ answer' = NoAnswer
  /\ UNCHANGED text

Next == (\E n \in Columns : get(n)) \/ at_eof \/ next

Spec == Init /\ [][Next]_vars
=============================================================================
