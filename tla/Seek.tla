-------------------------------- MODULE Seek --------------------------------
(***************************************************************************)
(* append_array::seek of makecpu/growable_array.h: the binary search for   *)
(* the level of an index.                                                  *)
(***************************************************************************)
EXTENDS AppendArray

VARIABLES
  index,        \* the argument
  min, max,
  contig_size, start_index,    \* the results beside the pointer
  pc            \* "search", "found" (in level mid) or "NULL"

seek_vars == <<index, min, max, contig_size, start_index, pc>>

SeekInit ==
  /\ index \in Word
  /\ min = 0 /\ max = Bits - 1
  /\ contig_size = 0 /\ start_index = 0
  /\ pc = "search"

mid == min + ((max - min) \div 2)
y == getStartOffset(mid)
y2 == getStartOffset(mid + 1)

\* while(min <= max)
Repeat == pc' = IF min' <= max' THEN "search" ELSE "NULL"

GoUp_stay ==
  /\ pc = "search" /\ index >= y2
  /\ min' = mid /\ UNCHANGED max
  /\ Repeat
  /\ UNCHANGED <<index, contig_size, start_index>>
GoUp ==
  /\ pc = "search" /\ index >= y2
  /\ min' = mid + 1 /\ UNCHANGED max
  /\ Repeat
  /\ UNCHANGED <<index, contig_size, start_index>>

GoDown_at_start ==
  /\ pc = "search" /\ index < y2 /\ index <= y
  /\ max' = Minus1(mid) /\ UNCHANGED min
  /\ Repeat
  /\ UNCHANGED <<index, contig_size, start_index>>
GoDown ==
  /\ pc = "search" /\ index < y2 /\ index < y
  /\ max' = Minus1(mid) /\ UNCHANGED min
  /\ Repeat
  /\ UNCHANGED <<index, contig_size, start_index>>

Found_whole_level ==
  /\ pc = "search" /\ index < y2 /\ index >= y
  /\ contig_size' = y2 - y
  /\ start_index' = y
  /\ pc' = "found"
  /\ UNCHANGED <<index, min, max>>
Found ==
  /\ pc = "search" /\ index < y2 /\ index >= y
  /\ contig_size' = y2 - index
  /\ start_index' = y
  /\ pc' = "found"
  /\ UNCHANGED <<index, min, max>>

Returned == pc # "search" /\ UNCHANGED seek_vars

SeekStep == GoUp \/ GoDown \/ Found
SeekNext == SeekStep \/ Returned

SeekSpec == SeekInit /\ [][SeekNext]_seek_vars

-----------------------------------------------------------------------------
(* Properties *)

\* The types of the variables; in particular max never wraps around below 0.
SeekTypes ==
  /\ index \in Word
  /\ min \in 0..Bits /\ max \in 0..(Bits - 1)
  /\ contig_size \in Nat /\ start_index \in Nat
  /\ pc \in {"search", "found", "NULL"}

\* The search ends in the level that holds the index, with what an iterator
\* needs to know of it, and without one only if no level holds the index.
FindsTheLevel ==
  /\ pc = "found" => /\ Holds(mid, index)
                     /\ start_index = getStartOffset(mid)
                     /\ index + contig_size = getStartOffset(mid + 1)
  /\ pc = "NULL" => \A l \in 0..(Bits - 1) : ~Holds(l, index)

\* What is outside of min..max has been ruled out.
Narrowing ==
  pc # "found" =>
    /\ min <= max + 1
    /\ getStartOffset(min) <= index
    /\ max = Bits - 1 \/ index < getStartOffset(max + 1)
    /\ (pc = "search") = (min <= max)

\* The search returns.
Terminates == <>(pc # "search")
=============================================================================
