------------------------- MODULE GrowableArrayProps -------------------------
(***************************************************************************)
(* What growable_array promises, and append_array::seek, which it stands   *)
(* on: the search is checked for every index of the machine word, and the  *)
(* array, in which a search is one step, once a search has ended.          *)
(***************************************************************************)
EXTENDS GrowableArray, Seek, Sequences

Iterators ==
  [index : 0..MaxLength, current : (Nat \X Nat) \cup {NULL},
   begin_index : Nat, end_index : Nat]

\* The types of the variables.
TypeOK ==
  /\ num_levels \in 1..MaxLevels /\ alloc_size \in Nat
  /\ values \in [Cells(num_levels) -> Values]
  /\ content_length \in 0..MaxLength
  /\ end_iter \in Iterators
  /\ iters \in [Iters -> Iterators]
  /\ answer \in Values \cup {NoAnswer}

\* A pointer an iterator caches is that of its own index, and the bounds it
\* caches are those of the level, whatever way the iterator has come: so the
\* next move drops the pointer exactly if it leaves the level.
RightPointer(it, levels) ==
  it.current # NULL =>
    \E l \in 0..(levels - 1) :
      /\ Holds(l, it.index)
      /\ it.current = <<l, it.index - getStartOffset(l)>>
      /\ it.begin_index = getStartOffset(l)
      /\ it.end_index = getStartOffset(l + 1)

PointersRight ==
  /\ end_iter.index = content_length
  /\ RightPointer(end_iter, num_levels)
  /\ \A i \in Iters : RightPointer(iters[i], num_levels)

\* The allocated levels are exactly those of the indices below alloc_size, so
\* an element of the array always has its place.
Allocated ==
  /\ content_length <= alloc_size
  /\ alloc_size = getStartOffset(num_levels)
  /\ \A n \in 0..(alloc_size - 1) : \E l \in 0..(num_levels - 1) : Holds(l, n)

\* The elements in the order of their indices.
Addresses == [n \in 0..(MaxLength - 1) |-> <<seek(n), n - getStartOffset(seek(n))>>]
Elements == [n \in 1..content_length |-> values[Addresses[n - 1]]]

Abstract == INSTANCE ElementSequence WITH
  seq <- Elements, position <- [i \in Iters |-> iters[i].index]

\* The array is a sequence and the iterators are positions in it: growing,
\* shrinking and growing again, and moving in and out of levels never change
\* which element a position means.
ImplementsSequence == Abstract!Spec

-----------------------------------------------------------------------------
(* Both together: once the search for one index has ended the array is      *)
(* used, and for the others nothing more happens.  The steps of a search are *)
(* those of one call, so it goes on.                                         *)

SearchInit == Init /\ SeekInit
Search == SeekStep /\ UNCHANGED vars
Use == pc # "search" /\ index = 0 /\ Next /\ UNCHANGED seek_vars
Leave == Returned /\ UNCHANGED vars

SearchThenUse ==
  /\ SearchInit
  /\ [][Search \/ Use \/ Leave]_<<vars, seek_vars>>
  /\ WF_<<vars, seek_vars>>(Search)
=============================================================================
