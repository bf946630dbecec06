---------------------------- MODULE AxiomScanner ----------------------------
(***************************************************************************)
(* How makecpu/axiom_parser.h reads characters: the scans a text has to    *)
(* pass before it is parsed (hasOpenComment, getInfo), the whitespace      *)
(* between items, and the atoms.                                           *)
(*                                                                         *)
(* A text is a sequence of symbols: a character that means something to    *)
(* one of the scans, a digit, or a word, which stands for a run of other   *)
(* characters.  Position b is its next symbol, position Len(t) + 1 its     *)
(* end.  An integer has Bits bits where the program has 64.                *)
(***************************************************************************)
EXTENDS Integers, Sequences, FiniteSets

CONSTANT Bits
ASSUME BitsAssumption == Bits \in 4..16

Blank == {" ", "\n"}
End(t) == Len(t) + 1
At(t, b) == IF b \in DOMAIN t THEN t[b] ELSE ""

\* The first position from b on that satisfies P, or the end.
FirstFrom(t, b, P(_)) ==
  LET found == {j \in b..Len(t) : P(j)}
  IN  IF found = {} THEN End(t) ELSE CHOOSE j \in found : \A k \in found : j <= k

\* The symbols b to e - 1, joined.
Joined(t, b, e) ==
  LET from[j \in b..e] == IF j = e THEN "" ELSE t[j] \o from[j + 1] IN from[b]

Newlines(t, b, e) == Cardinality({j \in b..(e - 1) : t[j] = "\n"})

-----------------------------------------------------------------------------
(* Comments and whitespace *)

hasOpenComment_overlapping(t) ==
  LET slash(j) == t[j] = "/"
      closed(j) == t[j] = "*" /\ At(t, j + 1) = "/"
      open[b \in 1..(End(t) + 2)] ==
        LET s == FirstFrom(t, b, slash)
            e == FirstFrom(t, s + 1, closed)
        IN  IF s >= End(t) THEN FALSE
            ELSE IF At(t, s + 1) # "*" THEN open[s + 2]
            ELSE e = End(t) \/ open[e + 2]
  IN  open[1]
\* After a slash the scan goes on two symbols further, comment or not.
hasOpenComment(t) ==
  LET slash(j) == t[j] = "/"
      closed(j) == t[j] = "*" /\ At(t, j + 1) = "/"
      open[b \in 1..(End(t) + 2)] ==
        LET s == FirstFrom(t, b, slash)
            e == FirstFrom(t, s + 2, closed)
        IN  IF s >= End(t) THEN FALSE
            ELSE IF At(t, s + 1) # "*" THEN open[s + 2]
            ELSE e = End(t) \/ open[e + 2]
  IN  open[1]

\* Where the comment that begins at b is closed, and where its line ends.
CommentEnd(t, b) == FirstFrom(t, b + 3, LAMBDA j : t[j - 1] = "*" /\ t[j] = "/")
LineEnd(t, b) == FirstFrom(t, b, LAMBDA j : t[j] = "\n")
BeginsComment(t, b) == At(t, b) = "/" /\ At(t, b + 1) = "*"

\* Returns where it stops. A comment that is not closed takes the rest of the
\* text. The number of lines it adds is Newlines from b to there.
skipWhitespace(t, b0) ==
  LET e == End(t)
      after(j) == IF j = e THEN e ELSE j + 1
      skip[b \in 1..e] ==
        CASE At(t, b) \in Blank -> skip[b + 1]
          [] At(t, b) = "#" -> skip[after(LineEnd(t, b))]
          [] BeginsComment(t, b) -> skip[after(CommentEnd(t, b))]
          [] OTHER -> b
  IN  skip[b0]

\* Strings are not looked for: a parenthesis in one counts, and so does a #.
getInfo(t) ==
  LET e == End(t)
      looked[b \in 1..e] ==
        LET s == skipWhitespace(t, b)
            q == FirstFrom(t, s + 1, LAMBDA j : t[j] \in Blank \cup {"#", "/"})
        IN  IF s = e THEN {} ELSE (s..(q - 1)) \cup looked[q]
      all == looked[1]
  IN  [ok |-> all # {}, lparen |-> Cardinality({j \in all : t[j] = "("}),
       rparen |-> Cardinality({j \in all : t[j] = ")"}), numLines |-> Newlines(t, 1, e)]

-----------------------------------------------------------------------------
(* Atoms *)

\* Where the atom that begins at b ends.
atomEnd(t, b) ==
  FirstFrom(t, b, LAMBDA j : t[j] \in Blank \cup {"(", ")", "#", "\""} \/ BeginsComment(t, j))

\* Where the string ends that begins behind the quote at b - 1; 0 if a backslash
\* is the last symbol of the line.
stringEnd(t, b) ==
  LET scan[j \in b..End(t)] ==
        CASE At(t, j) \in {"", "\"", "\n"} -> j
          [] At(t, j) = "\\" -> IF At(t, j + 1) \in {"", "\n"} THEN 0 ELSE scan[j + 2]
          [] OTHER -> scan[j + 1]
  IN  scan[b]

escaped == [n |-> "\n", r |-> "\r", t |-> "\t"]
stringText(t, b, e) ==
  LET from[j \in b..e] ==
        IF j = e THEN ""
        ELSE IF t[j] # "\\" THEN t[j] \o from[j + 1]
        ELSE (IF t[j + 1] \in DOMAIN escaped THEN escaped[t[j + 1]] ELSE t[j + 1]) \o from[j + 2]
  IN  from[b]

-----------------------------------------------------------------------------
(* Integers *)

HexDigits == <<"0", "1", "2", "3", "4", "5", "6", "7", "8", "9", "a", "b", "c", "d", "e", "f">>
IsHexDigit(c) == \E i \in 1..16 : HexDigits[i] = c
IsDigit(c) == \E i \in 1..10 : HexDigits[i] = c
DigitValue(c) == (CHOOSE i \in 1..16 : HexDigits[i] = c) - 1

\* An atom is a sequence of symbols; a plus before a digit is dropped.
WithoutPlus(a) == IF At(a, 1) = "+" /\ IsDigit(At(a, 2)) THEN Tail(a) ELSE a
IsNumber(a) == IsDigit(At(a, 1)) \/ (At(a, 1) = "-" /\ IsDigit(At(a, 2)))

\* The value of the digits, or -1: a symbol is no digit, or the value has become
\* smaller by a digit, which the program takes for the overflow.
accumulate(digits, base) ==
  LET upTo[k \in 0..Len(digits)] ==
        IF k = 0 THEN 0
        ELSE LET prev == upTo[k - 1]
                 ok == IF base = 16 THEN IsHexDigit(digits[k]) ELSE IsDigit(digits[k])
                 value == (prev * base + DigitValue(digits[k])) % (2 ^ Bits)
             IN  IF prev = -1 \/ ~ok THEN -1 ELSE IF value < prev THEN -1 ELSE value
  IN  IF digits = <<>> THEN -1 ELSE upTo[Len(digits)]

negated(value) ==
  LET n == (2 ^ Bits - value) % (2 ^ Bits)
  IN  IF value = -1 \/ (n = value /\ n # 0) THEN -1 ELSE n

\* The integer an atom stands for, or -1 if it is invalid. A minus is dropped
\* before 0x only; what precedes an x may be any digit.
integer(a) ==
  LET hexNeg == At(a, 1) = "-" /\ At(a, 2) = "0" /\ At(a, 3) \in {"x", "X"}
      s == IF hexNeg THEN Tail(a) ELSE a
  IN  IF At(s, 2) \in {"x", "X"}
      THEN LET value == accumulate(SubSeq(s, 3, Len(s)), 16)
           IN  IF hexNeg THEN negated(value) ELSE value
      ELSE IF s[1] = "-" THEN negated(accumulate(Tail(s), 10)) ELSE accumulate(s, 10)
=============================================================================
