---------------------------- MODULE AppendArray ----------------------------
(***************************************************************************)
(* The layout of append_array of makecpu/growable_array.h: levels of       *)
(* doubling size, the elements of one level adjacent, and an index that    *)
(* runs through all levels.                                                *)
(***************************************************************************)
EXTENDS Integers

CONSTANTS
  InitSize,   \* init_size; level 0 has 2 << InitSize elements
  Bits        \* the width of size_t, and the number of levels there can be

Word == 0..(2 ^ Bits - 1)

shl(x, y) == (x * 2 ^ y) % 2 ^ Bits
Minus1(x) == IF x = 0 THEN 2 ^ Bits - 1 ELSE x - 1

\* The index of the first element of a level.
getStartOffset(level) ==
  IF level = 0 THEN 0 ELSE shl(Minus1(shl(1, level)), 1 + InitSize)

\* The number of elements grow allocates for a level.
LevelSize(level) == shl(2, InitSize + level)

ASSUME BitsAssumption == Bits \in Nat \ {0} /\ InitSize \in Nat

\* Start offsets do not decrease; they stay where they are from the level on
\* whose end is no longer a number of the machine.
ASSUME StartsAssumption ==
  /\ \A l \in 0..Bits : getStartOffset(l) \in Nat
  /\ \A k, l \in 0..Bits : k <= l => getStartOffset(k) <= getStartOffset(l)

\* The level an index belongs to.
Holds(level, n) ==
  getStartOffset(level) <= n /\ n < getStartOffset(level + 1)
=============================================================================
