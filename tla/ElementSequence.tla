-------------------------- MODULE ElementSequence --------------------------
(***************************************************************************)
(* What growable_array promises: it is a sequence, and an iterator is a    *)
(* position in it, whatever happens to the sequence in the meantime.       *)
(***************************************************************************)
EXTENDS Integers, Sequences

CONSTANTS
  Values,     \* the elements
  Iters,      \* the caller's iterators
  MaxLength,  \* bound on the length and the positions
  NoAnswer    \* what a call answers that returns no element

VARIABLES
  seq,
  position,   \* of each iterator, counted from 0
  answer      \* the element the last call returned

vars == <<seq, position, answer>>

Init == seq = <<>> /\ position = [i \in Iters |-> 0] /\ answer = NoAnswer

\* The new element has a given value, or any.
push_back(v) ==
  /\ Len(seq) < MaxLength
  /\ seq' = Append(seq, v) /\ answer' = v
  /\ UNCHANGED position

truncate(n) ==
  /\ seq' = IF n < Len(seq) THEN SubSeq(seq, 1, n) ELSE seq
  /\ answer' = NoAnswer
  /\ UNCHANGED position

MoveTo(i, n) ==
  /\ position' = [position EXCEPT ![i] = n] /\ answer' = NoAnswer
  /\ UNCHANGED seq

\* The element at position n, read or assigned.
Read(n) ==
  /\ n < Len(seq)
  /\ answer' = seq[n + 1]
  /\ UNCHANGED <<seq, position>>

Write(n, v) ==
  /\ n < Len(seq)
  /\ seq' = [seq EXCEPT ![n + 1] = v] /\ answer' = v
  /\ UNCHANGED position

Next ==
  \/ \E v \in Values : push_back(v)
  \/ \E n \in 0..MaxLength : truncate(n)
  \/ \E i \in Iters, n \in 0..MaxLength : MoveTo(i, n)
  \/ \E n \in 0..(MaxLength - 1) : Read(n)
  \/ \E i \in Iters, v \in Values : Write(position[i], v)

Spec == Init /\ [][Next]_vars
=============================================================================
