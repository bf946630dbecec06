---------------------------- MODULE MCDatLoader ----------------------------
(***************************************************************************)
(* Files of up to MaxRows rows after the first one.                        *)
(***************************************************************************)
EXTENDS DatLoaderProps

CONSTANT MaxRows

Plain(k) == [kind |-> k]
At(k, o) == [kind |-> k, at |-> o]

\* Offsets below the image, in it, at its end and beyond.
SomeRows ==
  {Plain("other"), Plain("end")}
    \cup {[kind |-> "bits", bits |-> b] : b \in {0, 32}}
    \cup {At("entrypoint", o) : o \in {-1, 0, 2, Size}}
    \cup {At("export", o) : o \in {1, 2, Size}}
    \cup {At("start_offset", 1), At("origin", 16)}
    \cup {[kind |-> "import", at |-> 2, symbol |-> s] : s \in Symbols \cup {""}}
    \cup {[kind |-> "bound", symbol |-> s] : s \in Symbols}
    \cup {[kind |-> "mem_attrs", x |-> TRUE, at |-> o, size |-> n] :
            o \in {-1, 0, 1}, n \in {-1, 1, Size}}
    \cup {[kind |-> "mem_attrs", x |-> FALSE, at |-> o, size |-> Size] : o \in {-2, 0}}

UpTo(S, n) == UNION {[1..k -> S] : k \in 0..n}
Full == {<<Plain("header")>> \o m \o e :
           m \in UpTo(SomeRows, MaxRows),
           e \in {<<>>, <<[kind |-> "bits", bits |-> 32], Plain("end")>>}}
MCFiles == Full \cup UpTo({Plain("header"), Plain("end"), Plain("note")}, 2)
=============================================================================
