------------------------------ MODULE Listing ------------------------------
(***************************************************************************)
(* What a disassembly promises: it goes through the bytes of an image from *)
(* the first to the last, once, and says of each byte which entry of the   *)
(* listing accounts for it.  An entry begins where the one before it ends  *)
(* and accounts for at least one byte; entries are never withdrawn.        *)
(***************************************************************************)
EXTENDS Integers, Sequences

CONSTANT Size    \* bytes in the image

VARIABLES
  extents,    \* the extents [from, size] of the entries written so far
  finished    \* the listing is complete

\* The byte after the last one accounted for.
EndOf(s) == IF s = <<>> THEN 0 ELSE s[Len(s)].from + s[Len(s)].size

Init == extents = <<>> /\ finished = FALSE

Write ==
  /\ ~finished /\ EndOf(extents) < Size
  /\ Len(extents') = Len(extents) + 1
  /\ LET new == extents'[Len(extents')] IN
       /\ new.from = EndOf(extents) /\ new.size \in Nat \ {0}
       /\ extents' = Append(extents, new)
  /\ UNCHANGED finished

Finish ==
  /\ ~finished /\ EndOf(extents) >= Size
  /\ finished' = TRUE
  /\ UNCHANGED extents

Next == Write \/ Finish

Spec == Init /\ [][Next]_<<extents, finished>>
=============================================================================
