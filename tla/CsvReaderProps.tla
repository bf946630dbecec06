-------------------------- MODULE CsvReaderProps ---------------------------
(***************************************************************************)
(* The rows of a file, defined on the whole text at once, and the proof    *)
(* obligation of the reader: it is a cursor over these rows.               *)
(***************************************************************************)
EXTENDS CsvReader

-----------------------------------------------------------------------------
(* Reference: the rows from an unquoted position on.  Quotes alternate      *)
(* between opening and closing; outside of them line breaks separate rows   *)
(* and commas separate items.                                               *)

QuotesBefore(t, k, i) == Cardinality({j \in k..(i - 1) : t[j] = Quote})
Quoted(t, k, i) == QuotesBefore(t, k, i) % 2 = 1

\* The stretches between separators, as pairs of positions, in order.
Sorted(S) == [n \in 1..Cardinality(S) |->
                CHOOSE i \in S : Cardinality({j \in S : j < i}) = n - 1]
Stretches(first, last, seps) ==
  LET starts == Sorted({first} \cup {i + 1 : i \in seps})
      ends   == Sorted({last} \cup {i - 1 : i \in seps})
  IN  [n \in 1..Len(starts) |-> <<starts[n], ends[n]>>]

\* An item is what follows its last opening quote, without quotes.
ItemText(t, k, a, b) ==
  LET opening == {i \in a..b : t[i] = Quote /\ ~Quoted(t, k, i)}
      from == IF opening = {} THEN a ELSE Max(opening)
  IN  SelectSeq(SubSeq(t, from, b), LAMBDA c : c # Quote)

\* The items of a row without the white space before it; an empty item at its
\* end is not one.
RowItems(t, k, a, b) ==
  LET commas == {i \in a..b : t[i] = Comma /\ ~Quoted(t, k, i)}
      parts  == Stretches(a, b, commas)
      all    == [n \in 1..Len(parts) |-> ItemText(t, k, parts[n][1], parts[n][2])]
  IN  IF all[Len(all)] = <<>> THEN Front(all) ELSE all

RowsFrom(t, k) ==
  LET breaks == {i \in k..Len(t) : t[i] = Newline /\ ~Quoted(t, k, i)}
      Written(a, b) == {i \in a..b : t[i] \notin {Blank, Newline}}
      lines == SelectSeq(Stretches(k, Len(t), breaks),
                         LAMBDA s : Written(s[1], s[2]) # {})
  IN  [n \in 1..Len(lines) |->
         RowItems(t, k, Min(Written(lines[n][1], lines[n][2])), lines[n][2])]

Rows == [t \in Texts |-> [k \in 1..(Len(t) + 1) |-> RowsFrom(t, k)]]

\* The rows the caller has not been told to leave: the one that has been
\* fetched, and those behind csv_begin.
RowsLeft == IF ready THEN <<items>> \o Rows[text][csv_begin]
            ELSE IF past_end THEN <<>> ELSE Rows[text][csv_begin]

Cursor == INSTANCE RowCursor WITH rows <- RowsLeft, Text <- Item

\* Whatever calls are made, in whatever order: each answer is about the row
\* the caller stands at, each next goes on by one row, and fetching a line
\* early, late, or while asking for the end of the file makes no difference.
ImplementsRowCursor == Cursor!Spec
=============================================================================
