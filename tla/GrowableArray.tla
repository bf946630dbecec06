--------------------------- MODULE GrowableArray ---------------------------
(***************************************************************************)
(* growable_array and growable_array_iter of makecpu/growable_array.h, for *)
(* one array and the iterators of its caller.  An iterator caches a        *)
(* pointer into the level its index lies in, until it leaves the level.    *)
(*                                                                         *)
(* A pointer is a pair of a level and an offset in it. The caller keeps to *)
(* what the code takes for granted: no iterator goes below 0, and none is  *)
(* dereferenced at or behind the end.                                      *)
(***************************************************************************)
EXTENDS AppendArray

CONSTANTS
  Values,     \* the elements
  Fresh,      \* what the elements of a new level are
  Iters,      \* the caller's iterators
  NULL,
  NoAnswer,   \* what a call answers that returns no element
  MaxLevels,  \* bound on the number of levels
  MaxLength   \* bound on the length and on the indices of iterators

ASSUME ValuesAssumption ==
  Fresh \in Values /\ NULL \notin Nat \X Nat

\* The array can grow to MaxLength, and up to there each level begins where
\* the one before it ends.
ASSUME LengthAssumption ==
  /\ MaxLevels \in 1..(Bits - 1) /\ MaxLength \in Nat
  /\ MaxLength <= getStartOffset(MaxLevels)
  /\ \A l \in 0..(MaxLevels - 1) :
       /\ LevelSize(l) \in Nat \ {0}
       /\ getStartOffset(l + 1) = getStartOffset(l) + LevelSize(l)

VARIABLES
  values,          \* the elements of all levels that are allocated
  alloc_size, num_levels,
  content_length,
  end_iter,
  iters,           \* the caller's iterators
  answer           \* the element the last call returned

container == <<values, alloc_size, num_levels>>
vars == <<container, content_length, end_iter, iters, answer>>

\* The elements of the levels before n.
Cells(n) == UNION {{l} \X (0..(LevelSize(l) - 1)) : l \in 0..(n - 1)}

\* The results of append_array::seek.
Levels == [n \in 0..(MaxLength - 1) |->
             CHOOSE l \in 0..(MaxLevels - 1) : Holds(l, n)]
seek(n) == Levels[n]

-----------------------------------------------------------------------------
(* growable_array_iter *)

Iterator(n) ==
  [index |-> n, current |-> NULL, begin_index |-> 0, end_index |-> 0]

\* operator++ and operator+=, operator-- and operator-=.
Forward_late(it, n) ==
  [it EXCEPT !.index = @ + n,
             !.current = IF it.current = NULL \/ it.index + n > it.end_index
                         THEN NULL ELSE <<@[1], @[2] + n>>]
Forward(it, n) ==
  [it EXCEPT !.index = @ + n,
             !.current = IF it.current = NULL \/ it.index + n >= it.end_index
                         THEN NULL ELSE <<@[1], @[2] + n>>]
Backward_zero(it, n) ==
  [it EXCEPT !.index = @ - n,
             !.current = IF it.current = NULL THEN NULL ELSE <<@[1], @[2] - n>>]
Backward(it, n) ==
  [it EXCEPT !.index = @ - n,
             !.current = IF it.current = NULL \/ it.index - n < it.begin_index
                         THEN NULL ELSE <<@[1], @[2] - n>>]

\* operator* looks for the element when it has no pointer to it.
Deref(it) ==
  IF it.current # NULL THEN it
  ELSE LET l == seek(it.index)
       IN  [it EXCEPT !.current = <<l, it.index - getStartOffset(l)>>,
                      !.begin_index = getStartOffset(l),
                      !.end_index = getStartOffset(l + 1)]

-----------------------------------------------------------------------------
(* growable_array *)

Init ==
  /\ num_levels = 1 /\ alloc_size = LevelSize(0)
  /\ values = [c \in Cells(1) |-> Fresh]
  /\ content_length = 0
  /\ end_iter = Iterator(0)
  /\ iters = [i \in Iters |-> Iterator(0)]
  /\ answer = NoAnswer

NeedsLevel == content_length = alloc_size

grow ==
  /\ num_levels' = num_levels + 1
  /\ alloc_size' = alloc_size + LevelSize(num_levels)

Grown_fresh ==
  IF NeedsLevel THEN [c \in Cells(num_levels + 1) |-> Fresh] ELSE values
\* The elements there are once grow has been called, if it has to be.
Grown ==
  IF NeedsLevel
  THEN [c \in Cells(num_levels + 1) |->
          IF c \in Cells(num_levels) THEN values[c] ELSE Fresh]
  ELSE values

\* Both forms of push_back; the one without a value leaves what is there.
PushAt(it, v) ==
  /\ content_length < MaxLength
  /\ IF NeedsLevel THEN grow ELSE UNCHANGED <<num_levels, alloc_size>>
  /\ values' = [Grown EXCEPT ![it.current] = v]
  /\ answer' = v
  /\ end_iter' = Forward(it, 1)
  /\ content_length' = content_length + 1
  /\ UNCHANGED iters

push_back(v) == PushAt(Deref(end_iter), v)
push_back_default == PushAt(Deref(end_iter), Grown[Deref(end_iter).current])

pop_back ==
  /\ IF content_length # 0
     THEN /\ content_length' = content_length - 1
          /\ end_iter' = Backward(end_iter, 1)
     ELSE UNCHANGED <<content_length, end_iter>>
  /\ answer' = NoAnswer
  /\ UNCHANGED <<container, iters>>

truncate(n) ==
  /\ IF content_length > n
     THEN /\ end_iter' = Backward(end_iter, content_length - n)
          /\ content_length' = n
     ELSE UNCHANGED <<content_length, end_iter>>
  /\ answer' = NoAnswer
  /\ UNCHANGED <<container, iters>>

clear ==
  /\ content_length' = 0 /\ end_iter' = Iterator(0)
  /\ answer' = NoAnswer
  /\ UNCHANGED <<container, iters>>

\* back() goes back from the end with a copy of its iterator.
back ==
  /\ content_length # 0
  /\ answer' = values[Deref(Backward(end_iter, 1)).current]
  /\ UNCHANGED <<container, content_length, end_iter, iters>>

front ==
  /\ content_length # 0
  /\ answer' = values[Deref(Iterator(0)).current]
  /\ UNCHANGED <<container, content_length, end_iter, iters>>

-----------------------------------------------------------------------------
(* The caller's iterators *)

Put(i, it) ==
  /\ iters' = [iters EXCEPT ![i] = it]
  /\ UNCHANGED <<content_length, end_iter>>

Begin(i) == Put(i, Iterator(0)) /\ answer' = NoAnswer /\ UNCHANGED container
End(i) == Put(i, end_iter) /\ answer' = NoAnswer /\ UNCHANGED container

GoForward(i, n) ==
  /\ iters[i].index + n <= MaxLength
  /\ Put(i, Forward(iters[i], n)) /\ answer' = NoAnswer /\ UNCHANGED container

GoBackward(i, n) ==
  /\ n <= iters[i].index
  /\ Put(i, Backward(iters[i], n)) /\ answer' = NoAnswer /\ UNCHANGED container

Read(i) ==
  /\ iters[i].index < content_length
  /\ Put(i, Deref(iters[i]))
  /\ answer' = values[Deref(iters[i]).current]
  /\ UNCHANGED container

Write(i, v) ==
  /\ iters[i].index < content_length
  /\ Put(i, Deref(iters[i]))
  /\ values' = [values EXCEPT ![Deref(iters[i]).current] = v]
  /\ answer' = v
  /\ UNCHANGED <<alloc_size, num_levels>>

ArrayCalls ==
  \/ \E v \in Values : push_back(v)
  \/ push_back_default \/ pop_back \/ clear \/ back \/ front
  \/ \E n \in 0..MaxLength : truncate(n)

IteratorCalls ==
  \E i \in Iters :
    \/ Begin(i) \/ End(i) \/ Read(i)
    \/ \E n \in 1..MaxLength : GoForward(i, n) \/ GoBackward(i, n)
    \/ \E v \in Values : Write(i, v)

Next == ArrayCalls \/ IteratorCalls

Spec == Init /\ [][Next]_vars
=============================================================================
