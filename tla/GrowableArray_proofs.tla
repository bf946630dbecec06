------------------------ MODULE GrowableArray_proofs ------------------------
(***************************************************************************)
(* growable_array implements a sequence, for all elements, iterators and   *)
(* sizes: its pointers are those of the indices they are cached for, and   *)
(* its elements stay where they are.  And the binary search of             *)
(* append_array finds the level of every index, for every size of the      *)
(* first level and every width of the machine's words.                     *)
(***************************************************************************)
EXTENDS GrowableArrayProps, Seek, SequenceTheorems, TLAPS

Inv == TypeOK /\ PointersRight /\ Allocated

-----------------------------------------------------------------------------
(* The layout *)

\* Start offsets as numbers.
LEMMA Starts ==
  /\ \A l \in 0..MaxLevels : getStartOffset(l) \in Nat
  /\ \A k, l \in 0..MaxLevels : k <= l => getStartOffset(k) <= getStartOffset(l)
  /\ MaxLevels \in Nat \ {0} /\ MaxLength \in Nat
<1>1. MaxLevels \in Nat \ {0} /\ MaxLength \in Nat /\ MaxLevels \in 0..Bits
  BY LengthAssumption, BitsAssumption
<1>2. \A l \in 0..MaxLevels : l \in 0..Bits BY <1>1, BitsAssumption
<1> QED BY <1>1, <1>2, StartsAssumption

\* An index has one level.
LEMMA OneLevel ==
  ASSUME NEW n \in Nat, NEW k \in 0..(MaxLevels - 1), NEW l \in 0..(MaxLevels - 1),
         Holds(k, n), Holds(l, n)
  PROVE  k = l
<1>1. /\ k \in 0..MaxLevels /\ l \in 0..MaxLevels
      /\ k + 1 \in 0..MaxLevels /\ l + 1 \in 0..MaxLevels
  BY Starts
<1>2. /\ getStartOffset(k) \in Nat /\ getStartOffset(l) \in Nat
      /\ getStartOffset(k + 1) \in Nat /\ getStartOffset(l + 1) \in Nat
  BY <1>1, Starts
<1>3. /\ getStartOffset(k) <= n /\ n < getStartOffset(k + 1)
      /\ getStartOffset(l) <= n /\ n < getStartOffset(l + 1)
  BY DEF Holds
<1>4. k + 1 <= l => getStartOffset(k + 1) <= getStartOffset(l)
  BY <1>1, Starts
<1>5. l + 1 <= k => getStartOffset(l + 1) <= getStartOffset(k)
  BY <1>1, Starts
<1>6. ~(k + 1 <= l) /\ ~(l + 1 <= k) BY <1>2, <1>3, <1>4, <1>5
<1> QED BY <1>6

\* seek finds the level that holds an index.
LEMMA SeekFinds ==
  ASSUME NEW n \in 0..(MaxLength - 1), NEW l \in 0..(MaxLevels - 1), Holds(l, n)
  PROVE  seek(n) = l
<1>1. seek(n) = CHOOSE k \in 0..(MaxLevels - 1) : Holds(k, n)
  BY DEF seek, Levels
<1>2. seek(n) \in 0..(MaxLevels - 1) /\ Holds(seek(n), n) BY <1>1
<1> QED BY <1>2, OneLevel

\* The place of an index in its level is a cell.
LEMMA CellOf ==
  ASSUME NEW levels \in 1..MaxLevels, NEW l \in 0..(levels - 1), NEW n \in Nat,
         Holds(l, n)
  PROVE  /\ n - getStartOffset(l) \in Nat
         /\ <<l, n - getStartOffset(l)>> \in Cells(levels)
<1>1. l \in 0..(MaxLevels - 1) /\ l \in 0..MaxLevels BY Starts
<1>2. getStartOffset(l) \in Nat BY <1>1, Starts
<1>3. /\ LevelSize(l) \in Nat
      /\ getStartOffset(l + 1) = getStartOffset(l) + LevelSize(l)
  BY <1>1, LengthAssumption
<1>4. getStartOffset(l) <= n /\ n < getStartOffset(l) + LevelSize(l)
  BY <1>3 DEF Holds
<1>5. n - getStartOffset(l) \in 0..(LevelSize(l) - 1) BY <1>2, <1>3, <1>4
<1> QED BY <1>5 DEF Cells

-----------------------------------------------------------------------------
(* Iterators *)

\* A new iterator has no pointer.
LEMMA IteratorRight ==
  ASSUME NEW n \in 0..MaxLength, NEW levels
  PROVE  /\ Iterator(n) \in Iterators /\ Iterator(n).index = n
         /\ RightPointer(Iterator(n), levels)
BY DEF Iterator, Iterators, RightPointer

\* The fields of an iterator that has been moved on.
LEMMA ForwardFields ==
  ASSUME NEW it \in Iterators, NEW n \in Nat
  PROVE  /\ Forward(it, n).index = it.index + n
         /\ Forward(it, n).begin_index = it.begin_index
         /\ Forward(it, n).end_index = it.end_index
         /\ Forward(it, n).current =
              IF it.current = NULL \/ it.index + n >= it.end_index THEN NULL
              ELSE <<it.current[1], it.current[2] + n>>
         /\ Forward(it, n) = [index |-> Forward(it, n).index,
                              current |-> Forward(it, n).current,
                              begin_index |-> Forward(it, n).begin_index,
                              end_index |-> Forward(it, n).end_index]
<1> DEFINE cur == IF it.current = NULL \/ it.index + n >= it.end_index THEN NULL
                  ELSE <<it.current[1], it.current[2] + n>>
<1>1. Forward(it, n) = [it EXCEPT !.index = it.index + n, !.current = cur]
  BY DEF Forward
<1> HIDE DEF cur
<1>2. it = [index |-> it.index, current |-> it.current,
            begin_index |-> it.begin_index, end_index |-> it.end_index]
  BY DEF Iterators
<1>3. Forward(it, n) = [index |-> it.index + n, current |-> cur,
                    begin_index |-> it.begin_index, end_index |-> it.end_index]
  BY <1>1, <1>2
<1> QED BY <1>3 DEF cur

\* The fields of an iterator that has been moved back.
LEMMA BackwardFields ==
  ASSUME NEW it \in Iterators, NEW n \in Nat
  PROVE  /\ Backward(it, n).index = it.index - n
         /\ Backward(it, n).begin_index = it.begin_index
         /\ Backward(it, n).end_index = it.end_index
         /\ Backward(it, n).current =
              IF it.current = NULL \/ it.index - n < it.begin_index THEN NULL
              ELSE <<it.current[1], it.current[2] - n>>
         /\ Backward(it, n) = [index |-> Backward(it, n).index,
                               current |-> Backward(it, n).current,
                               begin_index |-> Backward(it, n).begin_index,
                               end_index |-> Backward(it, n).end_index]
<1> DEFINE cur == IF it.current = NULL \/ it.index - n < it.begin_index THEN NULL
                  ELSE <<it.current[1], it.current[2] - n>>
<1>1. Backward(it, n) = [it EXCEPT !.index = it.index - n, !.current = cur]
  BY DEF Backward
<1> HIDE DEF cur
<1>2. it = [index |-> it.index, current |-> it.current,
            begin_index |-> it.begin_index, end_index |-> it.end_index]
  BY DEF Iterators
<1>3. Backward(it, n) = [index |-> it.index - n, current |-> cur,
                    begin_index |-> it.begin_index, end_index |-> it.end_index]
  BY <1>1, <1>2
<1> QED BY <1>3 DEF cur

\* An iterator that stays in its level keeps the right pointer, one that
\* leaves it at its end drops it.
LEMMA ForwardRight ==
  ASSUME NEW it \in Iterators, NEW n \in Nat, NEW levels \in 1..MaxLevels,
         RightPointer(it, levels), it.index + n <= MaxLength
  PROVE  /\ Forward(it, n) \in Iterators /\ Forward(it, n).index = it.index + n
         /\ RightPointer(Forward(it, n), levels)
<1> DEFINE f == Forward(it, n)
<1>1. /\ f.index = it.index + n /\ f.begin_index = it.begin_index
      /\ f.end_index = it.end_index
      /\ f.current = IF it.current = NULL \/ it.index + n >= it.end_index THEN NULL
                     ELSE <<it.current[1], it.current[2] + n>>
      /\ f = [index |-> f.index, current |-> f.current,
              begin_index |-> f.begin_index, end_index |-> f.end_index]
  BY ForwardFields
<1>2. /\ it.index \in 0..MaxLength /\ it.begin_index \in Nat /\ it.end_index \in Nat
  BY DEF Iterators
<1> HIDE DEF f
<1>3. CASE f.current = NULL
  <2>1. f \in Iterators BY <1>1, <1>2, <1>3, Starts DEF Iterators
  <2> QED BY <1>1, <1>3, <2>1 DEF RightPointer, f
<1>4. CASE f.current # NULL
  <2>1. /\ it.current # NULL /\ it.index + n < it.end_index
        /\ f.current = <<it.current[1], it.current[2] + n>>
    BY <1>1, <1>2, <1>4
  <2>2. PICK l \in 0..(levels - 1) :
          /\ Holds(l, it.index)
          /\ it.current = <<l, it.index - getStartOffset(l)>>
          /\ it.begin_index = getStartOffset(l)
          /\ it.end_index = getStartOffset(l + 1)
    BY <2>1 DEF RightPointer
  <2>3. l \in 0..MaxLevels /\ l + 1 \in 0..MaxLevels BY Starts
  <2>4. getStartOffset(l) \in Nat /\ getStartOffset(l + 1) \in Nat
    BY <2>3, Starts
  <2>5. it.current[1] = l /\ it.current[2] = it.index - getStartOffset(l)
    BY <2>2
  <2>6. Holds(l, f.index) BY <1>1, <1>2, <2>1, <2>2, <2>4 DEF Holds
  <2>7. it.index - getStartOffset(l) + n = f.index - getStartOffset(l)
    BY <1>1, <1>2, <2>4
  <2>8. f.current = <<l, f.index - getStartOffset(l)>>
    BY <2>1, <2>5, <2>7
  <2>9. RightPointer(f, levels)
    BY <1>1, <2>2, <2>6, <2>8 DEF RightPointer
  <2>10. l \in Nat /\ f.index - getStartOffset(l) \in Nat /\ f.index \in 0..MaxLength
    BY <1>1, <1>2, <2>4, <2>6, Starts DEF Holds
  <2>11. f \in Iterators BY <1>1, <1>2, <2>8, <2>10 DEF Iterators
  <2> QED BY <1>1, <2>9, <2>11 DEF f
<1> QED BY <1>3, <1>4

\* The same backwards: the pointer goes at the beginning of the level.
LEMMA BackwardRight ==
  ASSUME NEW it \in Iterators, NEW n \in Nat, NEW levels \in 1..MaxLevels,
         RightPointer(it, levels), n <= it.index
  PROVE  /\ Backward(it, n) \in Iterators /\ Backward(it, n).index = it.index - n
         /\ RightPointer(Backward(it, n), levels)
<1> DEFINE b == Backward(it, n)
<1>1. /\ b.index = it.index - n /\ b.begin_index = it.begin_index
      /\ b.end_index = it.end_index
      /\ b.current = IF it.current = NULL \/ it.index - n < it.begin_index THEN NULL
                     ELSE <<it.current[1], it.current[2] - n>>
      /\ b = [index |-> b.index, current |-> b.current,
              begin_index |-> b.begin_index, end_index |-> b.end_index]
  BY BackwardFields
<1>2. /\ it.index \in 0..MaxLength /\ it.begin_index \in Nat /\ it.end_index \in Nat
  BY DEF Iterators
<1> HIDE DEF b
<1>3. CASE b.current = NULL
  <2>1. b \in Iterators BY <1>1, <1>2, <1>3, Starts DEF Iterators
  <2> QED BY <1>1, <1>3, <2>1 DEF RightPointer, b
<1>4. CASE b.current # NULL
  <2>1. /\ it.current # NULL /\ it.index - n >= it.begin_index
        /\ b.current = <<it.current[1], it.current[2] - n>>
    BY <1>1, <1>2, <1>4
  <2>2. PICK l \in 0..(levels - 1) :
          /\ Holds(l, it.index)
          /\ it.current = <<l, it.index - getStartOffset(l)>>
          /\ it.begin_index = getStartOffset(l)
          /\ it.end_index = getStartOffset(l + 1)
    BY <2>1 DEF RightPointer
  <2>3. l \in 0..MaxLevels /\ l + 1 \in 0..MaxLevels BY Starts
  <2>4. getStartOffset(l) \in Nat /\ getStartOffset(l + 1) \in Nat
    BY <2>3, Starts
  <2>5. it.current[1] = l /\ it.current[2] = it.index - getStartOffset(l)
    BY <2>2
  <2>6. Holds(l, b.index) BY <1>1, <1>2, <2>1, <2>2, <2>4 DEF Holds
  <2>7. it.index - getStartOffset(l) - n = b.index - getStartOffset(l)
    BY <1>1, <1>2, <2>4
  <2>8. b.current = <<l, b.index - getStartOffset(l)>>
    BY <2>1, <2>5, <2>7
  <2>9. RightPointer(b, levels)
    BY <1>1, <2>2, <2>6, <2>8 DEF RightPointer
  <2>10. l \in Nat /\ b.index - getStartOffset(l) \in Nat /\ b.index \in 0..MaxLength
    BY <1>1, <1>2, <2>4, <2>6, Starts DEF Holds
  <2>11. b \in Iterators BY <1>1, <1>2, <2>8, <2>10 DEF Iterators
  <2> QED BY <1>1, <2>9, <2>11 DEF b
<1> QED BY <1>3, <1>4

\* A pointer that is right stays so when levels are added.
LEMMA MoreLevels ==
  ASSUME NEW it, NEW levels \in Nat, NEW more \in Nat, levels <= more,
         RightPointer(it, levels)
  PROVE  RightPointer(it, more)
<1>1. \A l \in 0..(levels - 1) : l \in 0..(more - 1) OBVIOUS
<1> QED BY <1>1 DEF RightPointer

\* operator* leaves the iterator with the pointer to the element of its index.
LEMMA DerefRight ==
  ASSUME NEW it \in Iterators, NEW levels \in 1..MaxLevels,
         RightPointer(it, levels), it.index < MaxLength,
         NEW k \in 0..(levels - 1), Holds(k, it.index)
  PROVE  /\ Deref(it) \in Iterators /\ Deref(it).index = it.index
         /\ RightPointer(Deref(it), levels)
         /\ Deref(it).current = Addresses[it.index]
         /\ Addresses[it.index] \in Cells(levels)
<1> DEFINE n == it.index
<1>1. n \in Nat /\ n \in 0..(MaxLength - 1) /\ k \in 0..(MaxLevels - 1)
  BY Starts DEF Iterators
<1>2. seek(n) = k BY <1>1, SeekFinds
<1>3. Addresses[n] = <<k, n - getStartOffset(k)>> BY <1>1, <1>2 DEF Addresses
<1>4. n - getStartOffset(k) \in Nat /\ <<k, n - getStartOffset(k)>> \in Cells(levels)
  BY <1>1, CellOf
<1>5. CASE it.current # NULL
  <2>1. PICK l \in 0..(levels - 1) :
          /\ Holds(l, n)
          /\ it.current = <<l, n - getStartOffset(l)>>
    BY <1>5 DEF RightPointer
  <2>2. l = k
    <3>1. l \in 0..(MaxLevels - 1) BY Starts
    <3> QED BY <1>1, <2>1, <3>1, OneLevel
  <2>3. Deref(it) = it BY <1>5 DEF Deref
  <2> QED BY <1>3, <1>4, <2>1, <2>2, <2>3
<1>6. CASE it.current = NULL
  <2> DEFINE a == <<k, n - getStartOffset(k)>>
  <2> DEFINE d == [index |-> n, current |-> a, begin_index |-> getStartOffset(k),
                   end_index |-> getStartOffset(k + 1)]
  <2>1. Deref(it) = [it EXCEPT !.current = a, !.begin_index = getStartOffset(k),
                               !.end_index = getStartOffset(k + 1)]
    BY <1>2, <1>6 DEF Deref
  <2>2. a \in Nat \X Nat /\ a # NULL
    BY <1>1, <1>4, ValuesAssumption
  <2> HIDE DEF a
  <2>3. it = [index |-> n, current |-> it.current, begin_index |-> it.begin_index,
              end_index |-> it.end_index]
    BY DEF Iterators
  <2>4. Deref(it) = d BY <2>1, <2>3
  <2>5. getStartOffset(k) \in Nat /\ getStartOffset(k + 1) \in Nat
    <3>1. k \in 0..MaxLevels /\ k + 1 \in 0..MaxLevels BY Starts
    <3> QED BY <3>1, Starts
  <2>6. d \in Iterators BY <2>2, <2>5 DEF Iterators
  <2>7. RightPointer(d, levels) BY DEF RightPointer, a
  <2> QED BY <1>3, <1>4, <2>4, <2>6, <2>7 DEF a
<1> QED BY <1>5, <1>6

\* Different indices have different places.
LEMMA AddressesDiffer ==
  ASSUME NEW m \in 0..(MaxLength - 1), NEW n \in 0..(MaxLength - 1),
         NEW k \in 0..(MaxLevels - 1), Holds(k, m),
         NEW l \in 0..(MaxLevels - 1), Holds(l, n),
         Addresses[m] = Addresses[n]
  PROVE  m = n
<1>1. Addresses[m] = <<k, m - getStartOffset(k)>>
  BY SeekFinds DEF Addresses
<1>2. Addresses[n] = <<l, n - getStartOffset(l)>>
  BY SeekFinds DEF Addresses
<1>3. Addresses[m][1] = k /\ Addresses[m][2] = m - getStartOffset(k)
  BY <1>1
<1>4. Addresses[n][1] = l /\ Addresses[n][2] = n - getStartOffset(l)
  BY <1>2
<1>5. k = l /\ m - getStartOffset(k) = n - getStartOffset(l)
  BY <1>3, <1>4, Zenon
<1>6. getStartOffset(k) \in Nat
  <2>1. k \in 0..MaxLevels BY Starts
  <2> QED BY <2>1, Starts
<1> QED BY <1>5, <1>6

-----------------------------------------------------------------------------
(* The invariant *)

\* The array begins with one level and without pointers.
LEMMA InvInit == Init => Inv
<1> SUFFICES ASSUME Init PROVE Inv OBVIOUS
<1>1. LevelSize(0) \in Nat \ {0} /\ getStartOffset(1) = getStartOffset(0) + LevelSize(0)
  <2>1. 0 \in 0..(MaxLevels - 1) BY Starts
  <2> QED BY <2>1, LengthAssumption
<1>2. getStartOffset(0) = 0 BY DEF getStartOffset
<1>3. Iterator(0) \in Iterators /\ RightPointer(Iterator(0), num_levels)
      /\ Iterator(0).index = 0
  <2>1. 0 \in 0..MaxLength BY Starts
  <2> QED BY <2>1, IteratorRight
<1>4. TypeOK
  <2>1. num_levels \in 1..MaxLevels /\ alloc_size \in Nat
    BY <1>1, Starts DEF Init
  <2>2. values \in [Cells(num_levels) -> Values]
    BY ValuesAssumption DEF Init
  <2>3. content_length \in 0..MaxLength BY Starts DEF Init
  <2>4. end_iter \in Iterators /\ iters \in [Iters -> Iterators]
    BY <1>3 DEF Init
  <2> QED BY <2>1, <2>2, <2>3, <2>4 DEF Init, TypeOK
<1>5. PointersRight
  BY <1>3 DEF Init, PointersRight
<1>6. Allocated
  <2>1. alloc_size = getStartOffset(1) /\ alloc_size = LevelSize(0) /\ num_levels = 1
        /\ content_length = 0
    BY <1>1, <1>2 DEF Init
  <2>2. \A n \in 0..(alloc_size - 1) : Holds(0, n)
    BY <1>1, <1>2, <2>1 DEF Holds
  <2> QED BY <1>1, <2>1, <2>2 DEF Allocated
<1> QED BY <1>4, <1>5, <1>6 DEF Inv

\* An element of the array has its level.
LEMMA HasLevel ==
  ASSUME Inv, NEW n \in 0..(content_length - 1)
  PROVE  /\ n \in 0..(MaxLength - 1)
         /\ \E l \in 0..(num_levels - 1) : Holds(l, n)
<1>1. /\ content_length \in 0..MaxLength /\ alloc_size \in Nat
      /\ content_length <= alloc_size
  BY DEF Inv, TypeOK, Allocated
<1>2. n \in 0..(alloc_size - 1) /\ n \in 0..(MaxLength - 1) BY <1>1, Starts
<1> QED BY <1>2 DEF Inv, Allocated

\* What does not change the container leaves the invariant to the iterators.
LEMMA InvSameContainer ==
  ASSUME Inv, UNCHANGED <<alloc_size, num_levels>>,
         values' \in [Cells(num_levels) -> Values],
         content_length' \in 0..content_length,
         end_iter' \in Iterators, end_iter'.index = content_length',
         RightPointer(end_iter', num_levels),
         iters' \in [Iters -> Iterators],
         \A i \in Iters : RightPointer(iters'[i], num_levels),
         answer' \in Values \cup {NoAnswer}
  PROVE  Inv'
<1>1. content_length \in 0..MaxLength /\ alloc_size \in Nat /\ content_length <= alloc_size
  BY DEF Inv, TypeOK, Allocated
<1>2. content_length' \in 0..MaxLength /\ content_length' <= alloc_size
  BY <1>1, Starts
<1>3. TypeOK' BY <1>2 DEF Inv, TypeOK
<1>4. PointersRight' BY DEF PointersRight
<1>5. Allocated' BY <1>2 DEF Inv, Allocated
<1> QED BY <1>3, <1>4, <1>5 DEF Inv

\* The number of levels and the size after a push_back.
LevelsAfter == IF NeedsLevel THEN num_levels + 1 ELSE num_levels
SizeAfter == IF NeedsLevel THEN alloc_size + LevelSize(num_levels) ELSE alloc_size

\* A level is added when the next element needs one: it begins with the index
\* of that element, and what was there before stays.
LEMMA GrownRight ==
  ASSUME Inv, content_length < MaxLength
  PROVE  /\ LevelsAfter \in 1..MaxLevels /\ num_levels <= LevelsAfter
         /\ SizeAfter \in Nat /\ SizeAfter = getStartOffset(LevelsAfter)
         /\ content_length + 1 <= SizeAfter
         /\ \A n \in 0..(SizeAfter - 1) : \E l \in 0..(LevelsAfter - 1) : Holds(l, n)
         /\ Grown \in [Cells(LevelsAfter) -> Values]
         /\ \A c \in Cells(num_levels) : c \in Cells(LevelsAfter) /\ Grown[c] = values[c]
<1>1. /\ content_length \in 0..MaxLength /\ alloc_size \in Nat
      /\ content_length <= alloc_size /\ num_levels \in 1..MaxLevels
      /\ alloc_size = getStartOffset(num_levels)
      /\ values \in [Cells(num_levels) -> Values]
  BY DEF Inv, TypeOK, Allocated
<1>2. \A n \in 0..(alloc_size - 1) : \E l \in 0..(num_levels - 1) : Holds(l, n)
  BY DEF Inv, Allocated
<1>3. CASE ~NeedsLevel
  <2>1. LevelsAfter = num_levels /\ SizeAfter = alloc_size /\ Grown = values
    BY <1>3 DEF LevelsAfter, SizeAfter, Grown
  <2>2. content_length + 1 <= alloc_size BY <1>1, <1>3 DEF NeedsLevel
  <2> QED BY <1>1, <1>2, <2>1, <2>2
<1>4. CASE NeedsLevel
  <2>1. /\ LevelsAfter = num_levels + 1
        /\ SizeAfter = alloc_size + LevelSize(num_levels)
        /\ Grown = [c \in Cells(num_levels + 1) |->
                     IF c \in Cells(num_levels) THEN values[c] ELSE Fresh]
    BY <1>4 DEF LevelsAfter, SizeAfter, Grown
  <2>2. num_levels # MaxLevels
    <3> SUFFICES ASSUME num_levels = MaxLevels PROVE FALSE OBVIOUS
    <3>1. content_length = getStartOffset(MaxLevels) BY <1>1, <1>4 DEF NeedsLevel
    <3>2. MaxLength <= getStartOffset(MaxLevels) BY LengthAssumption
    <3>3. getStartOffset(MaxLevels) \in Nat BY Starts
    <3> QED BY <1>1, <3>1, <3>2, <3>3, Starts
  <2>3. num_levels \in 0..(MaxLevels - 1) /\ num_levels + 1 \in 1..MaxLevels
    BY <1>1, <2>2, Starts
  <2>4. /\ LevelSize(num_levels) \in Nat \ {0}
        /\ getStartOffset(num_levels + 1) = alloc_size + LevelSize(num_levels)
    BY <1>1, <2>3, LengthAssumption
  <2>5. SizeAfter \in Nat /\ content_length + 1 <= SizeAfter
    BY <1>1, <2>1, <2>4
  <2>6. ASSUME NEW n \in 0..(SizeAfter - 1)
        PROVE  \E l \in 0..(LevelsAfter - 1) : Holds(l, n)
    <3>1. CASE n < alloc_size
      <4>1. PICK l \in 0..(num_levels - 1) : Holds(l, n) BY <1>1, <1>2, <3>1
      <4>2. l \in 0..(LevelsAfter - 1) BY <1>1, <2>1
      <4> QED BY <4>1, <4>2
    <3>2. CASE ~(n < alloc_size)
      <4>1. Holds(num_levels, n)
        BY <1>1, <2>1, <2>4, <3>2 DEF Holds
      <4>2. num_levels \in 0..(LevelsAfter - 1) BY <1>1, <2>1
      <4> QED BY <4>1, <4>2
    <3> QED BY <3>1, <3>2
  <2>7. ASSUME NEW c \in Cells(num_levels) PROVE c \in Cells(num_levels + 1)
    <3>1. PICK l \in 0..(num_levels - 1) : c \in {l} \X (0..(LevelSize(l) - 1))
      BY DEF Cells
    <3>2. l \in 0..((num_levels + 1) - 1) BY <1>1
    <3> DEFINE row == {l} \X (0..(LevelSize(l) - 1))
    <3>3. row \in {{k} \X (0..(LevelSize(k) - 1)) : k \in 0..((num_levels + 1) - 1)}
      BY <3>2
    <3>4. c \in row BY <3>1
    <3> HIDE DEF row
    <3> QED BY <3>3, <3>4 DEF Cells
  <2>8. Grown \in [Cells(num_levels + 1) -> Values]
    BY <1>1, <2>1, ValuesAssumption
  <2>9. \A c \in Cells(num_levels) : c \in Cells(LevelsAfter) /\ Grown[c] = values[c]
    BY <2>1, <2>7
  <2>10. LevelsAfter \in 1..MaxLevels /\ num_levels <= LevelsAfter
    BY <1>1, <2>1, <2>3
  <2>11. SizeAfter = getStartOffset(LevelsAfter) BY <2>1, <2>4
  <2>12. Grown \in [Cells(LevelsAfter) -> Values] BY <2>1, <2>8
  <2> QED BY <2>5, <2>6, <2>9, <2>10, <2>11, <2>12
<1> QED BY <1>3, <1>4

\* push_back puts the element where its index belongs.
LEMMA PushPlace ==
  ASSUME Inv, content_length < MaxLength
  PROVE  /\ Deref(end_iter) \in Iterators
         /\ Deref(end_iter).index = content_length
         /\ RightPointer(Deref(end_iter), LevelsAfter)
         /\ Deref(end_iter).current = Addresses[content_length]
         /\ Addresses[content_length] \in Cells(LevelsAfter)
         /\ \E k \in 0..(LevelsAfter - 1) : Holds(k, content_length)
<1>1. /\ LevelsAfter \in 1..MaxLevels /\ num_levels <= LevelsAfter
      /\ SizeAfter \in Nat /\ content_length + 1 <= SizeAfter
      /\ \A n \in 0..(SizeAfter - 1) : \E l \in 0..(LevelsAfter - 1) : Holds(l, n)
  BY GrownRight
<1>2. /\ content_length \in 0..MaxLength /\ num_levels \in 1..MaxLevels
      /\ end_iter \in Iterators /\ end_iter.index = content_length
      /\ RightPointer(end_iter, num_levels)
  BY DEF Inv, TypeOK, PointersRight
<1>3. RightPointer(end_iter, LevelsAfter)
  <2>1. num_levels \in Nat /\ LevelsAfter \in Nat BY <1>1, <1>2
  <2> QED BY <1>1, <1>2, <2>1, MoreLevels
<1>4. content_length \in 0..(SizeAfter - 1) BY <1>1, <1>2
<1>5. PICK k \in 0..(LevelsAfter - 1) : Holds(k, content_length) BY <1>1, <1>4
<1> QED BY <1>1, <1>2, <1>3, <1>5, DerefRight

\* push_back keeps the invariant.
LEMMA InvPush ==
  ASSUME Inv, NEW v \in Values, PushAt(Deref(end_iter), v)
  PROVE  /\ Inv'
         /\ values' = [Grown EXCEPT ![Addresses[content_length]] = v]
<1>1. content_length < MaxLength BY DEF PushAt
<1>2. /\ num_levels' = LevelsAfter /\ alloc_size' = SizeAfter
      /\ end_iter' = Forward(Deref(end_iter), 1)
      /\ content_length' = content_length + 1
      /\ iters' = iters /\ answer' = v
      /\ values' = [Grown EXCEPT ![Deref(end_iter).current] = v]
  BY DEF PushAt, grow, LevelsAfter, SizeAfter
<1>3. /\ LevelsAfter \in 1..MaxLevels /\ num_levels <= LevelsAfter
      /\ SizeAfter \in Nat /\ SizeAfter = getStartOffset(LevelsAfter)
      /\ content_length + 1 <= SizeAfter
      /\ \A n \in 0..(SizeAfter - 1) : \E l \in 0..(LevelsAfter - 1) : Holds(l, n)
      /\ Grown \in [Cells(LevelsAfter) -> Values]
  BY <1>1, GrownRight
<1>4. /\ Deref(end_iter) \in Iterators
      /\ Deref(end_iter).index = content_length
      /\ RightPointer(Deref(end_iter), LevelsAfter)
      /\ Deref(end_iter).current = Addresses[content_length]
      /\ Addresses[content_length] \in Cells(LevelsAfter)
  BY <1>1, PushPlace
<1>5. content_length \in 0..MaxLength /\ num_levels \in 1..MaxLevels
  BY DEF Inv, TypeOK
<1>6. /\ end_iter' \in Iterators /\ end_iter'.index = content_length + 1
      /\ RightPointer(end_iter', LevelsAfter)
  <2>1. Deref(end_iter).index + 1 <= MaxLength BY <1>1, <1>4, <1>5, Starts
  <2> QED BY <1>2, <1>3, <1>4, <2>1, ForwardRight
<1>7. TypeOK'
  <2>1. values' \in [Cells(LevelsAfter) -> Values] BY <1>2, <1>3, <1>4
  <2>2. content_length' \in 0..MaxLength BY <1>1, <1>2, <1>5, Starts
  <2>3. iters' \in [Iters -> Iterators] BY <1>2 DEF Inv, TypeOK
  <2> QED BY <1>2, <1>3, <1>6, <2>1, <2>2, <2>3 DEF TypeOK
<1>8. PointersRight'
  <2>1. ASSUME NEW i \in Iters PROVE RightPointer(iters[i], LevelsAfter)
    <3>1. RightPointer(iters[i], num_levels) BY DEF Inv, PointersRight
    <3>2. num_levels \in Nat /\ LevelsAfter \in Nat BY <1>3, <1>5
    <3> QED BY <1>3, <3>1, <3>2, MoreLevels
  <2> QED BY <1>2, <1>6, <2>1 DEF PointersRight
<1>9. Allocated' BY <1>2, <1>3 DEF Allocated
<1>10. values' = [Grown EXCEPT ![Addresses[content_length]] = v] BY <1>2, <1>4
<1> QED BY <1>7, <1>8, <1>9, <1>10 DEF Inv

\* The end goes back by the number of elements that are taken away.
LEMMA InvShrink ==
  ASSUME Inv, NEW n \in 0..content_length,
         content_length' = content_length - n,
         end_iter' = Backward(end_iter, n) \/ (n = content_length /\ end_iter' = Iterator(0)),
         answer' = NoAnswer, UNCHANGED <<container, iters>>
  PROVE  Inv'
<1>1. /\ content_length \in 0..MaxLength /\ num_levels \in 1..MaxLevels
      /\ end_iter \in Iterators /\ end_iter.index = content_length
      /\ RightPointer(end_iter, num_levels)
      /\ values \in [Cells(num_levels) -> Values]
      /\ iters \in [Iters -> Iterators]
      /\ \A i \in Iters : RightPointer(iters[i], num_levels)
  BY DEF Inv, TypeOK, PointersRight
<1>2. n \in Nat /\ content_length' \in 0..content_length BY <1>1
<1>3. /\ end_iter' \in Iterators /\ end_iter'.index = content_length'
      /\ RightPointer(end_iter', num_levels)
  <2>1. CASE end_iter' = Backward(end_iter, n)
    BY <1>1, <1>2, <2>1, BackwardRight
  <2>2. CASE n = content_length /\ end_iter' = Iterator(0)
    <3>1. content_length' = 0 /\ 0 \in 0..MaxLength BY <1>1, <2>2, Starts
    <3> QED BY <2>2, <3>1, IteratorRight
  <2> QED BY <2>1, <2>2
<1>4. UNCHANGED <<alloc_size, num_levels>> /\ values' = values /\ iters' = iters
  BY DEF container
<1> QED BY <1>1, <1>2, <1>3, <1>4, InvSameContainer

\* A call that only answers.
LEMMA InvAnswer ==
  ASSUME Inv, answer' \in Values \cup {NoAnswer}, UNCHANGED <<container, content_length, end_iter, iters>>
  PROVE  Inv'
<1>1. /\ content_length \in 0..MaxLength
      /\ values \in [Cells(num_levels) -> Values]
      /\ end_iter \in Iterators /\ end_iter.index = content_length
      /\ RightPointer(end_iter, num_levels)
      /\ iters \in [Iters -> Iterators]
      /\ \A i \in Iters : RightPointer(iters[i], num_levels)
  BY DEF Inv, TypeOK, PointersRight
<1>2. content_length' \in 0..content_length BY <1>1
<1>3. UNCHANGED <<alloc_size, num_levels>> /\ values' = values BY DEF container
<1> QED BY <1>1, <1>2, <1>3, InvSameContainer

\* An iterator of the caller that is replaced by a right one, and perhaps an
\* element that is assigned through it.
LEMMA InvPut ==
  ASSUME Inv, NEW i \in Iters, NEW it \in Iterators, RightPointer(it, num_levels),
         Put(i, it), values' \in [Cells(num_levels) -> Values],
         UNCHANGED <<alloc_size, num_levels>>, answer' \in Values \cup {NoAnswer}
  PROVE  Inv'
<1>1. /\ content_length \in 0..MaxLength
      /\ end_iter \in Iterators /\ end_iter.index = content_length
      /\ RightPointer(end_iter, num_levels)
      /\ iters \in [Iters -> Iterators]
      /\ \A j \in Iters : RightPointer(iters[j], num_levels)
  BY DEF Inv, TypeOK, PointersRight
<1>2. /\ iters' = [iters EXCEPT ![i] = it]
      /\ content_length' = content_length /\ end_iter' = end_iter
  BY DEF Put
<1>3. iters' \in [Iters -> Iterators] BY <1>1, <1>2
<1>4. \A j \in Iters : RightPointer(iters'[j], num_levels)
  <2> SUFFICES ASSUME NEW j \in Iters PROVE RightPointer(iters'[j], num_levels)
    OBVIOUS
  <2>1. iters'[j] = IF j = i THEN it ELSE iters[j] BY <1>1, <1>2
  <2> QED BY <1>1, <2>1
<1>5. content_length' \in 0..content_length BY <1>1, <1>2
<1> QED BY <1>1, <1>2, <1>3, <1>4, <1>5, InvSameContainer

\* What dereferencing an iterator of the caller gives.
LEMMA CallerDeref ==
  ASSUME Inv, NEW i \in Iters, iters[i].index < content_length
  PROVE  /\ Deref(iters[i]) \in Iterators /\ Deref(iters[i]).index = iters[i].index
         /\ RightPointer(Deref(iters[i]), num_levels)
         /\ Deref(iters[i]).current = Addresses[iters[i].index]
         /\ Addresses[iters[i].index] \in Cells(num_levels)
         /\ values[Addresses[iters[i].index]] \in Values
<1>1. /\ content_length \in 0..MaxLength /\ num_levels \in 1..MaxLevels
      /\ values \in [Cells(num_levels) -> Values]
      /\ iters[i] \in Iterators /\ RightPointer(iters[i], num_levels)
  BY DEF Inv, TypeOK, PointersRight
<1>2. iters[i].index \in 0..(content_length - 1)
  BY <1>1 DEF Iterators
<1>3. PICK k \in 0..(num_levels - 1) : Holds(k, iters[i].index)
  BY <1>2, HasLevel
<1>4. iters[i].index < MaxLength BY <1>1, <1>2, Starts
<1>5. /\ Deref(iters[i]) \in Iterators /\ Deref(iters[i]).index = iters[i].index
      /\ RightPointer(Deref(iters[i]), num_levels)
      /\ Deref(iters[i]).current = Addresses[iters[i].index]
      /\ Addresses[iters[i].index] \in Cells(num_levels)
  BY <1>1, <1>3, <1>4, DerefRight
<1> QED BY <1>1, <1>5

\* back() and front() answer with the last and the first element.
LEMMA EndsDeref ==
  ASSUME Inv, content_length # 0
  PROVE  /\ Deref(Backward(end_iter, 1)).current = Addresses[content_length - 1]
         /\ Deref(Iterator(0)).current = Addresses[0]
         /\ Addresses[content_length - 1] \in Cells(num_levels)
         /\ Addresses[0] \in Cells(num_levels)
<1>1. /\ content_length \in 0..MaxLength /\ num_levels \in 1..MaxLevels
      /\ end_iter \in Iterators /\ end_iter.index = content_length
      /\ RightPointer(end_iter, num_levels)
  BY DEF Inv, TypeOK, PointersRight
<1>2. 0 \in 0..(content_length - 1) /\ content_length - 1 \in 0..(content_length - 1)
  BY <1>1
<1>3. PICK k \in 0..(num_levels - 1) : Holds(k, 0) BY <1>2, HasLevel
<1>4. PICK l \in 0..(num_levels - 1) : Holds(l, content_length - 1)
  BY <1>2, HasLevel
<1>5. /\ Backward(end_iter, 1) \in Iterators
      /\ Backward(end_iter, 1).index = content_length - 1
      /\ RightPointer(Backward(end_iter, 1), num_levels)
  <2>1. 1 \in Nat /\ 1 <= end_iter.index BY <1>1
  <2> QED BY <1>1, <2>1, BackwardRight
<1>6. /\ Iterator(0) \in Iterators /\ Iterator(0).index = 0
      /\ RightPointer(Iterator(0), num_levels)
  <2>1. 0 \in 0..MaxLength BY Starts
  <2> QED BY <2>1, IteratorRight
<1>7. 0 < MaxLength /\ content_length - 1 < MaxLength BY <1>1, Starts
<1>8. /\ Deref(Backward(end_iter, 1)).current = Addresses[content_length - 1]
      /\ Addresses[content_length - 1] \in Cells(num_levels)
  BY <1>1, <1>4, <1>5, <1>7, DerefRight
<1>9. Deref(Iterator(0)).current = Addresses[0] /\ Addresses[0] \in Cells(num_levels)
  BY <1>1, <1>3, <1>6, <1>7, DerefRight
<1> QED BY <1>8, <1>9

-----------------------------------------------------------------------------
(* The sequence *)

\* The elements are a sequence.
LEMMA ElementsSeq ==
  ASSUME Inv
  PROVE  /\ Elements \in Seq(Values) /\ Len(Elements) = content_length
         /\ content_length \in 0..MaxLength
         /\ \A n \in 1..content_length : /\ Addresses[n - 1] \in Cells(num_levels)
                                        /\ Elements[n] = values[Addresses[n - 1]]
<1>1. /\ content_length \in 0..MaxLength /\ num_levels \in 1..MaxLevels
      /\ values \in [Cells(num_levels) -> Values]
  BY DEF Inv, TypeOK
<1>2. ASSUME NEW n \in 1..content_length
      PROVE  Addresses[n - 1] \in Cells(num_levels)
  <2>1. n - 1 \in 0..(content_length - 1) BY <1>1
  <2>2. /\ n - 1 \in 0..(MaxLength - 1)
        /\ \E l \in 0..(num_levels - 1) : Holds(l, n - 1)
    BY <2>1, HasLevel
  <2>3. PICK l \in 0..(num_levels - 1) : Holds(l, n - 1) BY <2>2
  <2>4. l \in 0..(MaxLevels - 1) /\ n - 1 \in Nat BY <1>1, <2>1, Starts
  <2>5. seek(n - 1) = l BY <2>2, <2>3, <2>4, SeekFinds
  <2>6. Addresses[n - 1] = <<l, (n - 1) - getStartOffset(l)>>
    BY <2>2, <2>5 DEF Addresses
  <2>7. <<l, (n - 1) - getStartOffset(l)>> \in Cells(num_levels)
    BY <1>1, <2>3, <2>4, CellOf
  <2> QED BY <2>6, <2>7
<1>3. Elements \in [1..content_length -> Values]
  BY <1>1, <1>2 DEF Elements
<1>4. Elements \in Seq(Values) BY <1>1, <1>3, SeqDef
<1>5. Len(Elements) = content_length
  <2>1. DOMAIN Elements = 1..content_length BY DEF Elements
  <2>2. DOMAIN Elements = 1..Len(Elements) /\ Len(Elements) \in Nat
    BY <1>4, LenProperties
  <2> QED BY <1>1, <2>1, <2>2
<1>6. \A n \in 1..content_length : Elements[n] = values[Addresses[n - 1]]
  BY DEF Elements
<1> QED BY <1>1, <1>2, <1>4, <1>5, <1>6

\* Different elements have different places.
LEMMA PlacesDiffer ==
  ASSUME Inv, NEW m \in 0..(content_length - 1), NEW levels \in 1..MaxLevels,
         num_levels <= levels, NEW n \in 0..(MaxLength - 1),
         NEW k \in 0..(levels - 1), Holds(k, n), Addresses[m] = Addresses[n]
  PROVE  m = n
<1>1. m \in 0..(MaxLength - 1) /\ \E l \in 0..(num_levels - 1) : Holds(l, m)
  BY HasLevel
<1>2. PICK l \in 0..(num_levels - 1) : Holds(l, m) BY <1>1
<1>3. l \in 0..(MaxLevels - 1) /\ k \in 0..(MaxLevels - 1)
  BY Starts DEF Inv, TypeOK
<1> QED BY <1>1, <1>2, <1>3, AddressesDiffer

\* push_back appends: the other elements keep their places and their values.
LEMMA PushAppends ==
  ASSUME Inv, NEW v \in Values, PushAt(Deref(end_iter), v)
  PROVE  Elements' = Append(Elements, v) /\ Inv'
<1>1. content_length < MaxLength BY DEF PushAt
<1>2. content_length' = content_length + 1 BY DEF PushAt
<1>3. /\ Inv' /\ values' = [Grown EXCEPT ![Addresses[content_length]] = v]
  BY InvPush
<1>4. /\ Elements \in Seq(Values) /\ Len(Elements) = content_length
      /\ content_length \in 0..MaxLength
      /\ \A n \in 1..content_length : /\ Addresses[n - 1] \in Cells(num_levels)
                                     /\ Elements[n] = values[Addresses[n - 1]]
  BY ElementsSeq
<1>5. Elements' = [n \in 1..(content_length + 1) |-> values'[Addresses[n - 1]]]
  BY <1>2 DEF Elements
<1>6. /\ LevelsAfter \in 1..MaxLevels /\ num_levels <= LevelsAfter
      /\ Grown \in [Cells(LevelsAfter) -> Values]
      /\ \A c \in Cells(num_levels) : c \in Cells(LevelsAfter) /\ Grown[c] = values[c]
  BY <1>1, GrownRight
<1>7. /\ Addresses[content_length] \in Cells(LevelsAfter)
      /\ \E k \in 0..(LevelsAfter - 1) : Holds(k, content_length)
  BY <1>1, PushPlace
<1>8. PICK k \in 0..(LevelsAfter - 1) : Holds(k, content_length) BY <1>7
<1>9. content_length \in 0..(MaxLength - 1) BY <1>1, <1>4, Starts
<1>10. ASSUME NEW n \in 1..content_length PROVE Elements'[n] = Elements[n]
  <2>1. n - 1 \in 0..(content_length - 1) /\ n - 1 # content_length BY <1>4
  <2>2. Addresses[n - 1] # Addresses[content_length]
    BY <1>6, <1>8, <1>9, <2>1, PlacesDiffer
  <2>3. Addresses[n - 1] \in Cells(num_levels) /\ Elements[n] = values[Addresses[n - 1]]
    BY <1>4
  <2>4. values'[Addresses[n - 1]] = values[Addresses[n - 1]]
    BY <1>3, <1>6, <2>2, <2>3
  <2>5. n \in 1..(content_length + 1) BY <1>4
  <2> QED BY <1>5, <2>3, <2>4, <2>5
<1>11. Elements'[content_length + 1] = v
  <2>1. content_length + 1 \in 1..(content_length + 1)
        /\ (content_length + 1) - 1 = content_length
    BY <1>4
  <2>2. values'[Addresses[content_length]] = v BY <1>3, <1>6, <1>7
  <2> QED BY <1>5, <2>1, <2>2
<1>12. /\ Append(Elements, v) \in Seq(Values)
       /\ Len(Append(Elements, v)) = content_length + 1
       /\ \A n \in 1..content_length : Append(Elements, v)[n] = Elements[n]
       /\ Append(Elements, v)[content_length + 1] = v
  BY <1>4, AppendProperties
<1>13. Append(Elements, v) = [n \in 1..(content_length + 1) |-> Append(Elements, v)[n]]
  <2>1. DOMAIN Append(Elements, v) = 1..(content_length + 1)
        /\ Append(Elements, v) \in [1..(content_length + 1) -> Values]
    BY <1>12, LenProperties
  <2> QED BY <2>1
<1>14. ASSUME NEW n \in 1..(content_length + 1)
       PROVE  Elements'[n] = Append(Elements, v)[n]
  <2>1. n \in 1..content_length \/ n = content_length + 1 BY <1>4
  <2> QED BY <1>10, <1>11, <1>12, <2>1
<1>15. Elements' = [n \in 1..(content_length + 1) |-> Elements'[n]] BY <1>5
<1>16. Elements' = Append(Elements, v) BY <1>13, <1>14, <1>15, Zenon
<1> QED BY <1>3, <1>16

\* Taking elements away leaves the first ones.
LEMMA ShrinkTruncates ==
  ASSUME Inv, NEW n \in 0..MaxLength,
         content_length' = IF n < content_length THEN n ELSE content_length,
         values' = values
  PROVE  Elements' = IF n < Len(Elements) THEN SubSeq(Elements, 1, n) ELSE Elements
<1>1. /\ Elements \in Seq(Values) /\ Len(Elements) = content_length
      /\ content_length \in 0..MaxLength
  BY ElementsSeq
<1>2. CASE ~(n < content_length)
  <2>1. content_length' = content_length BY <1>2
  <2>2. Elements' = Elements BY <2>1 DEF Elements
  <2> QED BY <1>1, <1>2, <2>2
<1>3. CASE n < content_length
  <2>1. Elements' = [i \in 1..n |-> values[Addresses[i - 1]]]
    BY <1>3 DEF Elements
  <2>2. \A i \in 1..n : i \in 1..content_length
    BY <1>1, <1>3
  <2>3. \A i \in 1..n : Elements'[i] = Elements[i]
    BY <2>1, <2>2 DEF Elements
  <2> DEFINE s == SubSeq(Elements, 1, n)
  <2>4. \A i \in 1..n : Elements[i] \in Values
    BY <1>1, <2>2, ElementOfSeq
  <2>5. /\ s \in Seq(Values) /\ Len(s) = (IF 1 <= n THEN n - 1 + 1 ELSE 0)
        /\ \A i \in 1..(n - 1 + 1) : s[i] = Elements[1 + i - 1]
    BY <2>4, SubSeqProperties
  <2> HIDE DEF s
  <2>6. Len(s) = n /\ (\A i \in 1..n : s[i] = Elements[i])
    <3>1. n \in Nat /\ n - 1 + 1 = n BY <1>1
    <3>2. \A i \in 1..n : 1 + i - 1 = i OBVIOUS
    <3> QED BY <2>5, <3>1, <3>2
  <2>7. s = [i \in 1..n |-> s[i]]
    <3>1. DOMAIN s = 1..n /\ s \in [1..n -> Values] BY <2>5, <2>6, LenProperties
    <3> QED BY <3>1
  <2>8. Elements' = [i \in 1..n |-> Elements'[i]] BY <2>1
  <2>9. \A i \in 1..n : Elements'[i] = s[i] BY <2>3, <2>6
  <2>10. Elements' = s BY <2>7, <2>8, <2>9, Zenon
  <2> QED BY <1>1, <1>3, <2>10 DEF s
<1> QED BY <1>2, <1>3

\* A call that moves no element and no iterator.
LEMMA SameSequence ==
  ASSUME UNCHANGED <<values, content_length>>
  PROVE  Elements' = Elements
BY DEF Elements

\* The positions after an iterator of the caller has been replaced.
LEMMA PutPosition ==
  ASSUME Inv, NEW i \in Iters, NEW it, Put(i, it)
  PROVE  /\ [j \in Iters |-> iters[j].index]'
              = [[j \in Iters |-> iters[j].index] EXCEPT ![i] = it.index]
         /\ UNCHANGED <<content_length, end_iter>>
<1>1. iters \in [Iters -> Iterators] BY DEF Inv, TypeOK
<1>2. iters' = [iters EXCEPT ![i] = it] BY DEF Put
<1>3. \A j \in Iters : iters'[j].index = IF j = i THEN it.index ELSE iters[j].index
  BY <1>1, <1>2
<1>4. [j \in Iters |-> iters'[j].index]
        = [j \in Iters |-> IF j = i THEN it.index ELSE iters[j].index]
  BY <1>3
<1> QED BY <1>4 DEF Put

-----------------------------------------------------------------------------
(* One lemma for each call: it keeps the invariant, and it is a call of the  *)
(* sequence.                                                                 *)

Simulates == Abstract!Next \/ UNCHANGED Abstract!vars

\* push_back with a value.
LEMMA PushStep ==
  ASSUME Inv, NEW v \in Values, PushAt(Deref(end_iter), v)
  PROVE  Inv' /\ Simulates
<1>1. Elements' = Append(Elements, v) /\ Inv' BY PushAppends
<1>2. Len(Elements) < MaxLength BY ElementsSeq DEF PushAt
<1>3. answer' = v /\ iters' = iters BY DEF PushAt
<1>4. Abstract!push_back(v) BY <1>1, <1>2, <1>3 DEF Abstract!push_back
<1> QED BY <1>1, <1>4 DEF Simulates, Abstract!Next

\* push_back without a value appends one that is there.
LEMMA PushDefaultStep == Inv /\ push_back_default => Inv' /\ Simulates
<1> SUFFICES ASSUME Inv, push_back_default PROVE Inv' /\ Simulates OBVIOUS
<1> DEFINE v == Grown[Deref(end_iter).current]
<1>1. PushAt(Deref(end_iter), v) BY DEF push_back_default
<1>2. content_length < MaxLength BY <1>1 DEF PushAt
<1>3. Grown \in [Cells(LevelsAfter) -> Values] BY <1>2, GrownRight
<1>4. Deref(end_iter).current \in Cells(LevelsAfter)
  <2>1. /\ Deref(end_iter).current = Addresses[content_length]
        /\ Addresses[content_length] \in Cells(LevelsAfter)
    BY <1>2, PushPlace
  <2> QED BY <2>1
<1>5. v \in Values BY <1>3, <1>4
<1> HIDE DEF v
<1> QED BY <1>1, <1>5, PushStep

\* A call that takes away the elements from n on, if there are any.
LEMMA ShrinkStep ==
  ASSUME Inv, NEW n \in 0..MaxLength,
         IF n < content_length
         THEN /\ content_length' = n
              /\ \/ end_iter' = Backward(end_iter, content_length - n)
                 \/ n = 0 /\ end_iter' = Iterator(0)
         ELSE UNCHANGED <<content_length, end_iter>>,
         answer' = NoAnswer, UNCHANGED <<container, iters>>
  PROVE  Inv' /\ Simulates
<1>1. content_length \in 0..MaxLength /\ values' = values
  BY DEF Inv, TypeOK, container
<1>2. Inv'
  <2>1. CASE n < content_length
    <3>1. content_length - n \in 0..content_length
          /\ content_length' = content_length - (content_length - n)
      BY <1>1, <2>1
    <3>2. \/ end_iter' = Backward(end_iter, content_length - n)
          \/ content_length - n = content_length /\ end_iter' = Iterator(0)
      BY <1>1, <2>1
    <3> QED BY <3>1, <3>2, InvShrink
  <2>2. CASE ~(n < content_length)
    BY <2>2, InvAnswer
  <2> QED BY <2>1, <2>2
<1>3. content_length' = IF n < content_length THEN n ELSE content_length
  OBVIOUS
<1>4. Elements' = IF n < Len(Elements) THEN SubSeq(Elements, 1, n) ELSE Elements
  BY <1>1, <1>3, ShrinkTruncates
<1>5. Abstract!truncate(n) BY <1>4 DEF Abstract!truncate
<1> QED BY <1>2, <1>5 DEF Simulates, Abstract!Next

\* pop_back takes away the last element, if there is one.
LEMMA PopStep == Inv /\ pop_back => Inv' /\ Simulates
<1> SUFFICES ASSUME Inv, pop_back PROVE Inv' /\ Simulates OBVIOUS
<1>1. content_length \in 0..MaxLength BY DEF Inv, TypeOK
<1>2. CASE content_length # 0
  <2> DEFINE n == content_length - 1
  <2>1. n \in 0..MaxLength /\ n < content_length /\ content_length - n = 1
    BY <1>1, <1>2, Starts
  <2>2. /\ content_length' = n /\ end_iter' = Backward(end_iter, 1)
        /\ answer' = NoAnswer /\ UNCHANGED <<container, iters>>
    BY <1>2 DEF pop_back
  <2> HIDE DEF n
  <2>3. end_iter' = Backward(end_iter, content_length - n) BY <2>1, <2>2
  <2> QED BY <2>1, <2>2, <2>3, ShrinkStep
<1>3. CASE content_length = 0
  <2>1. 0 \in 0..MaxLength /\ ~(0 < content_length) BY <1>3, Starts
  <2>2. /\ UNCHANGED <<content_length, end_iter>> /\ answer' = NoAnswer
        /\ UNCHANGED <<container, iters>>
    BY <1>3 DEF pop_back
  <2> QED BY <2>1, <2>2, ShrinkStep
<1> QED BY <1>2, <1>3

\* truncate takes away the elements from n on.
LEMMA TruncateStep ==
  ASSUME Inv, NEW n \in 0..MaxLength, truncate(n)
  PROVE  Inv' /\ Simulates
<1>1. content_length \in 0..MaxLength BY DEF Inv, TypeOK
<1>2. content_length > n <=> n < content_length BY <1>1
<1> QED BY <1>2, ShrinkStep DEF truncate

\* clear takes away all elements; the end begins anew without a pointer.
LEMMA ClearStep == Inv /\ clear => Inv' /\ Simulates
<1> SUFFICES ASSUME Inv, clear PROVE Inv' /\ Simulates OBVIOUS
<1>1. content_length \in 0..MaxLength BY DEF Inv, TypeOK
<1>2. /\ content_length' = 0 /\ end_iter' = Iterator(0) /\ answer' = NoAnswer
      /\ UNCHANGED <<container, iters>>
  BY DEF clear
<1>3. Inv'
  <2>1. /\ content_length \in 0..content_length
        /\ content_length' = content_length - content_length
    BY <1>1, <1>2
  <2> QED BY <1>2, <2>1, InvShrink
<1>4. content_length' = IF 0 < content_length THEN 0 ELSE content_length
  BY <1>1, <1>2
<1>5. 0 \in 0..MaxLength /\ values' = values BY <1>2, Starts DEF container
<1>6. Elements' = IF 0 < Len(Elements) THEN SubSeq(Elements, 1, 0) ELSE Elements
  BY <1>4, <1>5, ShrinkTruncates
<1>7. Abstract!truncate(0) BY <1>2, <1>6 DEF Abstract!truncate
<1> QED BY <1>3, <1>5, <1>7 DEF Simulates, Abstract!Next

\* A call that answers with the element at position n.
LEMMA AnswerStep ==
  ASSUME Inv, NEW n \in 0..(content_length - 1), answer' = values[Addresses[n]],
         UNCHANGED <<container, content_length, end_iter, iters>>
  PROVE  Inv' /\ Simulates
<1>1. /\ content_length \in 0..MaxLength /\ Len(Elements) = content_length
      /\ Elements \in Seq(Values)
      /\ \A m \in 1..content_length : Elements[m] = values[Addresses[m - 1]]
  BY ElementsSeq
<1>2. n + 1 \in 1..content_length /\ (n + 1) - 1 = n BY <1>1
<1>3. answer' = Elements[n + 1] BY <1>1, <1>2
<1>4. answer' \in Values BY <1>1, <1>2, <1>3, ElementOfSeq
<1>5. Elements' = Elements BY SameSequence DEF container
<1>6. n < Len(Elements) /\ n \in 0..(MaxLength - 1) BY <1>1, Starts
<1>7. Abstract!Read(n) BY <1>3, <1>5, <1>6 DEF Abstract!Read
<1>8. Inv' BY <1>4, InvAnswer
<1> QED BY <1>6, <1>7, <1>8 DEF Simulates, Abstract!Next

\* back() answers with the last element.
LEMMA BackStep == Inv /\ back => Inv' /\ Simulates
<1> SUFFICES ASSUME Inv, back PROVE Inv' /\ Simulates OBVIOUS
<1>1. content_length # 0 BY DEF back
<1>2. content_length - 1 \in 0..(content_length - 1) BY <1>1 DEF Inv, TypeOK
<1>3. answer' = values[Addresses[content_length - 1]]
  BY <1>1, EndsDeref DEF back
<1> QED BY <1>2, <1>3, AnswerStep DEF back

\* front() answers with the first one.
LEMMA FrontStep == Inv /\ front => Inv' /\ Simulates
<1> SUFFICES ASSUME Inv, front PROVE Inv' /\ Simulates OBVIOUS
<1>1. content_length # 0 BY DEF front
<1>2. 0 \in 0..(content_length - 1) BY <1>1 DEF Inv, TypeOK
<1>3. answer' = values[Addresses[0]]
  BY <1>1, EndsDeref DEF front
<1> QED BY <1>2, <1>3, AnswerStep DEF front

\* An iterator of the caller that is given another position.
LEMMA MoveStep ==
  ASSUME Inv, NEW i \in Iters, NEW it \in Iterators, RightPointer(it, num_levels),
         Put(i, it), answer' = NoAnswer, UNCHANGED container
  PROVE  Inv' /\ Simulates
<1>1. values' = values /\ UNCHANGED <<alloc_size, num_levels>> BY DEF container
<1>2. values' \in [Cells(num_levels) -> Values] BY <1>1 DEF Inv, TypeOK
<1>3. Inv' BY <1>1, <1>2, InvPut
<1>4. /\ [j \in Iters |-> iters[j].index]'
           = [[j \in Iters |-> iters[j].index] EXCEPT ![i] = it.index]
      /\ UNCHANGED <<content_length, end_iter>>
  BY PutPosition
<1>5. Elements' = Elements BY <1>1, <1>4, SameSequence
<1>6. it.index \in 0..MaxLength BY DEF Iterators
<1>7. Abstract!MoveTo(i, it.index) BY <1>4, <1>5 DEF Abstract!MoveTo
<1> QED BY <1>3, <1>6, <1>7 DEF Simulates, Abstract!Next

\* begin() is position 0.
LEMMA BeginStep ==
  ASSUME Inv, NEW i \in Iters, Begin(i) PROVE Inv' /\ Simulates
<1>1. Iterator(0) \in Iterators /\ RightPointer(Iterator(0), num_levels)
  <2>1. 0 \in 0..MaxLength BY Starts
  <2> QED BY <2>1, IteratorRight
<1> QED BY <1>1, MoveStep DEF Begin

\* end() is the position behind the last element, with the pointer the array's
\* own iterator has.
LEMMA EndStep ==
  ASSUME Inv, NEW i \in Iters, End(i) PROVE Inv' /\ Simulates
<1>1. end_iter \in Iterators /\ RightPointer(end_iter, num_levels)
  BY DEF Inv, TypeOK, PointersRight
<1> QED BY <1>1, MoveStep DEF End

\* operator++ and operator+=.
LEMMA GoForwardStep ==
  ASSUME Inv, NEW i \in Iters, NEW n \in 1..MaxLength, GoForward(i, n)
  PROVE  Inv' /\ Simulates
<1>1. /\ iters[i] \in Iterators /\ RightPointer(iters[i], num_levels)
      /\ num_levels \in 1..MaxLevels /\ n \in Nat
  BY Starts DEF Inv, TypeOK, PointersRight
<1>2. iters[i].index + n <= MaxLength BY DEF GoForward
<1>3. /\ Forward(iters[i], n) \in Iterators
      /\ RightPointer(Forward(iters[i], n), num_levels)
  BY <1>1, <1>2, ForwardRight
<1> QED BY <1>3, MoveStep DEF GoForward

\* operator-- and operator-=.
LEMMA GoBackwardStep ==
  ASSUME Inv, NEW i \in Iters, NEW n \in 1..MaxLength, GoBackward(i, n)
  PROVE  Inv' /\ Simulates
<1>1. /\ iters[i] \in Iterators /\ RightPointer(iters[i], num_levels)
      /\ num_levels \in 1..MaxLevels /\ n \in Nat
  BY Starts DEF Inv, TypeOK, PointersRight
<1>2. n <= iters[i].index BY DEF GoBackward
<1>3. /\ Backward(iters[i], n) \in Iterators
      /\ RightPointer(Backward(iters[i], n), num_levels)
  BY <1>1, <1>2, BackwardRight
<1> QED BY <1>3, MoveStep DEF GoBackward

\* Dereferencing may cache a pointer but does not move the iterator.
LEMMA DerefPosition ==
  ASSUME Inv, NEW i \in Iters, Put(i, Deref(iters[i])),
         Deref(iters[i]).index = iters[i].index
  PROVE  /\ [j \in Iters |-> iters[j].index]' = [j \in Iters |-> iters[j].index]
         /\ UNCHANGED <<content_length, end_iter>>
<1>1. /\ [j \in Iters |-> iters[j].index]'
           = [[j \in Iters |-> iters[j].index] EXCEPT ![i] = Deref(iters[i]).index]
      /\ UNCHANGED <<content_length, end_iter>>
  BY PutPosition
<1>2. [[j \in Iters |-> iters[j].index] EXCEPT ![i] = iters[i].index]
        = [j \in Iters |-> iters[j].index]
  OBVIOUS
<1> QED BY <1>1, <1>2

\* Reading through an iterator gives the element at its position.
LEMMA ReadStep ==
  ASSUME Inv, NEW i \in Iters, Read(i) PROVE Inv' /\ Simulates
<1> DEFINE n == iters[i].index
<1>1. iters[i].index < content_length BY DEF Read
<1>2. /\ Deref(iters[i]) \in Iterators /\ Deref(iters[i]).index = iters[i].index
      /\ RightPointer(Deref(iters[i]), num_levels)
      /\ Deref(iters[i]).current = Addresses[iters[i].index]
      /\ values[Addresses[iters[i].index]] \in Values
  BY <1>1, CallerDeref
<1>3. /\ Put(i, Deref(iters[i])) /\ answer' = values[Addresses[n]]
      /\ values' = values /\ UNCHANGED <<alloc_size, num_levels>>
  BY <1>2 DEF Read, container
<1>4. values' \in [Cells(num_levels) -> Values] BY <1>3 DEF Inv, TypeOK
<1>5. Inv' BY <1>2, <1>3, <1>4, InvPut
<1>6. /\ [j \in Iters |-> iters[j].index]' = [j \in Iters |-> iters[j].index]
      /\ UNCHANGED <<content_length, end_iter>>
  BY <1>2, <1>3, DerefPosition
<1>7. Elements' = Elements BY <1>3, <1>6, SameSequence
<1>8. /\ content_length \in 0..MaxLength /\ Len(Elements) = content_length
      /\ \A m \in 1..content_length : Elements[m] = values[Addresses[m - 1]]
  BY ElementsSeq
<1>9. n \in 0..(MaxLength - 1) /\ n + 1 \in 1..content_length /\ (n + 1) - 1 = n
      /\ n < content_length
  <2>1. n \in 0..MaxLength BY DEF Inv, TypeOK, Iterators
  <2> QED BY <1>1, <1>8, <2>1, Starts
<1>10. answer' = Elements[n + 1] BY <1>3, <1>8, <1>9
<1> HIDE DEF n
<1>11. Abstract!Read(n) BY <1>6, <1>7, <1>8, <1>9, <1>10 DEF Abstract!Read
<1> QED BY <1>5, <1>9, <1>11 DEF Simulates, Abstract!Next

\* An assignment through an iterator changes the element at its position.
LEMMA WriteStep ==
  ASSUME Inv, NEW i \in Iters, NEW v \in Values, Write(i, v)
  PROVE  Inv' /\ Simulates
<1> DEFINE n == iters[i].index
<1>1. iters[i].index < content_length BY DEF Write
<1>2. /\ Deref(iters[i]) \in Iterators /\ Deref(iters[i]).index = iters[i].index
      /\ RightPointer(Deref(iters[i]), num_levels)
      /\ Deref(iters[i]).current = Addresses[iters[i].index]
      /\ Addresses[iters[i].index] \in Cells(num_levels)
  BY <1>1, CallerDeref
<1>3. /\ Put(i, Deref(iters[i])) /\ answer' = v
      /\ values' = [values EXCEPT ![Addresses[n]] = v]
      /\ UNCHANGED <<alloc_size, num_levels>>
  BY <1>2 DEF Write
<1>4. /\ values \in [Cells(num_levels) -> Values] /\ num_levels \in 1..MaxLevels
      /\ content_length \in 0..MaxLength
  BY DEF Inv, TypeOK
<1>5. values' \in [Cells(num_levels) -> Values] BY <1>2, <1>3, <1>4
<1>6. Inv' BY <1>2, <1>3, <1>5, InvPut
<1>7. /\ [j \in Iters |-> iters[j].index]' = [j \in Iters |-> iters[j].index]
      /\ UNCHANGED <<content_length, end_iter>>
  BY <1>2, <1>3, DerefPosition
<1>8. /\ Elements \in Seq(Values) /\ Len(Elements) = content_length
      /\ \A m \in 1..content_length : /\ Addresses[m - 1] \in Cells(num_levels)
                                     /\ Elements[m] = values[Addresses[m - 1]]
  BY ElementsSeq
<1>9. /\ n \in 0..(MaxLength - 1) /\ n \in 0..(content_length - 1)
      /\ n + 1 \in 1..content_length /\ n < content_length
  <2>1. n \in 0..MaxLength BY DEF Inv, TypeOK, Iterators
  <2> QED BY <1>1, <1>4, <2>1, Starts
<1>10. PICK k \in 0..(num_levels - 1) : Holds(k, n) BY <1>9, HasLevel
<1> HIDE DEF n
<1>11. Elements' = [m \in 1..content_length |-> values'[Addresses[m - 1]]]
  BY <1>7 DEF Elements
<1>12. ASSUME NEW m \in 1..content_length
       PROVE  Elements'[m] = [Elements EXCEPT ![n + 1] = v][m]
  <2>1. m - 1 \in 0..(content_length - 1) /\ Addresses[m - 1] \in Cells(num_levels)
    <3>1. m - 1 \in 0..(content_length - 1) BY <1>4
    <3>2. Addresses[m - 1] \in Cells(num_levels) BY <1>8
    <3> QED BY <3>1, <3>2
  <2>2. DOMAIN Elements = 1..content_length BY DEF Elements
  <2>3. CASE m = n + 1
    <3>1. m - 1 = n BY <1>9, <2>3
    <3>2. values'[Addresses[m - 1]] = v BY <1>3, <1>4, <2>1, <3>1
    <3> QED BY <1>11, <2>2, <2>3, <3>2
  <2>4. CASE m # n + 1
    <3>1. m - 1 # n BY <1>9, <2>4
    <3>2. Addresses[m - 1] # Addresses[n]
      <4>1. num_levels <= num_levels BY <1>4
      <4> QED BY <1>4, <1>9, <1>10, <2>1, <3>1, <4>1, PlacesDiffer
    <3>3. values'[Addresses[m - 1]] = values[Addresses[m - 1]]
      BY <1>3, <1>4, <2>1, <3>2
    <3> QED BY <1>8, <1>11, <2>2, <2>4, <3>3
  <2> QED BY <2>3, <2>4
<1>13. Elements' = [Elements EXCEPT ![n + 1] = v]
  <2>1. DOMAIN Elements = 1..content_length BY DEF Elements
  <2>2. [Elements EXCEPT ![n + 1] = v]
          = [m \in 1..content_length |-> [Elements EXCEPT ![n + 1] = v][m]]
    BY <2>1
  <2>3. Elements' = [m \in 1..content_length |-> Elements'[m]] BY <1>11
  <2> QED BY <1>12, <2>2, <2>3, Zenon
<1>14. Abstract!Write(iters[i].index, v)
  BY <1>3, <1>7, <1>8, <1>9, <1>13 DEF Abstract!Write, n
<1>15. [j \in Iters |-> iters[j].index][i] = iters[i].index OBVIOUS
<1>16. Abstract!Write([j \in Iters |-> iters[j].index][i], v)
  BY <1>14, <1>15
<1> QED BY <1>6, <1>16 DEF Simulates, Abstract!Next

-----------------------------------------------------------------------------
(* The theorems *)

\* Every call keeps the invariant and is a call of the sequence.
LEMMA CallStep == Inv /\ Next => Inv' /\ Simulates
<1> SUFFICES ASSUME Inv, Next PROVE Inv' /\ Simulates OBVIOUS
<1>1. CASE ArrayCalls
  BY <1>1, PushStep, PushDefaultStep, PopStep, ClearStep, BackStep, FrontStep,
     TruncateStep DEF ArrayCalls, push_back
<1>2. CASE IteratorCalls
  BY <1>2, BeginStep, EndStep, ReadStep, GoForwardStep, GoBackwardStep, WriteStep
  DEF IteratorCalls
<1> QED BY <1>1, <1>2 DEF Next

\* Nothing else changes the array.
LEMMA StutterStep == Inv /\ UNCHANGED vars => Inv' /\ Simulates
<1> SUFFICES ASSUME Inv, UNCHANGED vars PROVE Inv' /\ Simulates OBVIOUS
<1>1. UNCHANGED <<values, alloc_size, num_levels, content_length, end_iter, iters, answer>>
  BY DEF vars, container
<1>2. Inv' BY <1>1 DEF Inv, TypeOK, PointersRight, Allocated
<1>3. Elements' = Elements BY <1>1, SameSequence
<1>4. UNCHANGED Abstract!vars BY <1>1, <1>3 DEF Abstract!vars
<1> QED BY <1>2, <1>4 DEF Simulates

\* The invariant holds in every state.
THEOREM InvAlways == Spec => []Inv
<1>1. Inv /\ [Next]_vars => Inv' BY CallStep, StutterStep
<1> QED BY <1>1, InvInit, PTL DEF Spec

\* The variables keep their types.
THEOREM TypeCorrect == Spec => []TypeOK
<1>1. Inv => TypeOK BY DEF Inv
<1> QED BY <1>1, InvAlways, PTL

\* No iterator ever holds a pointer to another element than that of its index.
THEOREM PointersAlwaysRight == Spec => []PointersRight
<1>1. Inv => PointersRight BY DEF Inv
<1> QED BY <1>1, InvAlways, PTL

\* There is always a place for every element.
THEOREM AlwaysAllocated == Spec => []Allocated
<1>1. Inv => Allocated BY DEF Inv
<1> QED BY <1>1, InvAlways, PTL

\* Every call is a call of the sequence.
THEOREM ArrayImplementsSequence == Spec => ImplementsSequence
<1>1. Init => Abstract!Init
  <2> SUFFICES ASSUME Init PROVE Abstract!Init OBVIOUS
  <2>1. Elements = <<>> BY DEF Elements, Init
  <2>2. [i \in Iters |-> iters[i].index] = [i \in Iters |-> 0]
    BY DEF Init, Iterator
  <2> QED BY <2>1, <2>2 DEF Abstract!Init, Init
<1>2. Inv /\ [Next]_vars => [Abstract!Next]_(Abstract!vars)
  BY CallStep, StutterStep DEF Simulates
<1> QED BY <1>1, <1>2, InvAlways, PTL DEF Spec, ImplementsSequence, Abstract!Spec

-----------------------------------------------------------------------------
(* The search for the level of an index *)

SeekInv == SeekTypes /\ Narrowing /\ FindsTheLevel

\* A word is a natural number; the largest one is never the predecessor of a
\* positive one.
LEMMA WordFacts ==
  /\ \A w \in Word : w \in Nat
  /\ \A x \in Nat : x # 0 => Minus1(x) = x - 1
BY DEF Word, Minus1

\* The middle of a range that is not empty lies in it.
LEMMA MidBetween ==
  ASSUME SeekTypes, min <= max
  PROVE  mid \in Nat /\ min <= mid /\ mid <= max /\ mid + 1 \in 0..Bits
<1>1. (max - min) \in Nat BY BitsAssumption DEF SeekTypes
<1>2. (max - min) \div 2 \in Nat /\ (max - min) \div 2 <= max - min
  BY <1>1
<1> QED BY <1>1, <1>2, BitsAssumption DEF SeekTypes, mid

\* When nothing is left of the range, no level holds the index: lo is the
\* level after hi.
LEMMA NothingLeft ==
  ASSUME NEW i \in Word, NEW lo \in 0..Bits, NEW hi \in 0..(Bits - 1),
         getStartOffset(lo) <= i, lo = hi + 1,
         hi = Bits - 1 \/ i < getStartOffset(hi + 1)
  PROVE  \A l \in 0..(Bits - 1) : ~Holds(l, i)
<1> SUFFICES ASSUME NEW l \in 0..(Bits - 1), Holds(l, i) PROVE FALSE
  OBVIOUS
<1>1. hi = Bits - 1
  <2> SUFFICES ASSUME i < getStartOffset(hi + 1) PROVE FALSE OBVIOUS
  <2>1. getStartOffset(lo) \in Nat /\ i \in Nat
    BY StartsAssumption, WordFacts
  <2> QED BY <2>1
<1>2. l + 1 \in 0..Bits /\ l + 1 <= lo
  BY <1>1, BitsAssumption
<1>3. getStartOffset(l + 1) <= getStartOffset(lo)
  BY <1>2, StartsAssumption
<1>4. /\ getStartOffset(l + 1) \in Nat /\ getStartOffset(lo) \in Nat
      /\ i \in Nat /\ i < getStartOffset(l + 1)
  BY <1>2, StartsAssumption, WordFacts DEF Holds
<1> QED BY <1>3, <1>4

\* What a turn of the loop has to leave of the range for the invariant to hold
\* after it.
LEMMA InvAfterTurn ==
  ASSUME SeekTypes, index' = index, UNCHANGED <<contig_size, start_index>>, Repeat,
         min' \in 0..Bits, max' \in 0..(Bits - 1), min' <= max' + 1,
         getStartOffset(min') <= index,
         max' = Bits - 1 \/ index < getStartOffset(max' + 1)
  PROVE  SeekInv'
<1>1. pc' = IF min' <= max' THEN "search" ELSE "NULL" BY DEF Repeat
<1>2. SeekTypes' BY <1>1 DEF SeekTypes
<1>3. Narrowing'
  <2>1. (pc' = "search") = (min' <= max') BY <1>1
  <2> QED BY <2>1 DEF Narrowing
<1>4. FindsTheLevel'
  <2> SUFFICES ASSUME pc' = "NULL"
               PROVE  \A l \in 0..(Bits - 1) : ~Holds(l, index')
    BY <1>1 DEF FindsTheLevel
  <2>1. min' = max' + 1
    <3>1. ~(min' <= max') BY <1>1
    <3>2. \A a, b \in Int : a <= b + 1 /\ ~(a <= b) => a = b + 1 OBVIOUS
    <3>3. min' \in Int /\ max' \in Int OBVIOUS
    <3> QED BY <3>1, <3>2, <3>3, Zenon
  <2>2. index \in Word BY DEF SeekTypes
  <2>3. \A l \in 0..(Bits - 1) : ~Holds(l, index) BY <2>1, <2>2, NothingLeft
  <2> QED BY <2>3
<1> QED BY <1>2, <1>3, <1>4 DEF SeekInv

\* The search begins with all levels.
LEMMA SeekInvInit == SeekInit => SeekInv
<1> SUFFICES ASSUME SeekInit PROVE SeekInv OBVIOUS
<1>1. getStartOffset(0) = 0 BY DEF getStartOffset
<1>2. SeekTypes BY BitsAssumption DEF SeekInit, SeekTypes
<1>3. Narrowing
  BY <1>1, <1>2, BitsAssumption, WordFacts DEF SeekInit, Narrowing, SeekTypes
<1>4. FindsTheLevel BY DEF SeekInit, FindsTheLevel
<1> QED BY <1>2, <1>3, <1>4 DEF SeekInv

\* What is ruled out below: the levels up to mid.
LEMMA InvGoUp == SeekInv /\ GoUp => SeekInv'
<1> SUFFICES ASSUME SeekInv, GoUp PROVE SeekInv' OBVIOUS
<1>1. SeekTypes /\ min <= max BY DEF SeekInv, GoUp, SeekTypes, Narrowing
<1>2. mid \in Nat /\ min <= mid /\ mid <= max /\ mid + 1 \in 0..Bits
  BY <1>1, MidBetween
<1>3. min' = mid + 1 /\ max' = max /\ index' = index
  BY DEF GoUp
<1>4. getStartOffset(mid + 1) <= index
  <2>1. index >= getStartOffset(mid + 1) BY DEF GoUp, y2
  <2>2. getStartOffset(mid + 1) \in Nat /\ index \in Nat
    BY <1>1, <1>2, StartsAssumption, WordFacts DEF SeekTypes
  <2> QED BY <2>1, <2>2
<1>5. max = Bits - 1 \/ index < getStartOffset(max + 1)
  BY DEF SeekInv, GoUp, Narrowing
<1>6. min' <= max' + 1 BY <1>1, <1>2, <1>3 DEF SeekTypes
<1>7. UNCHANGED <<contig_size, start_index>> /\ Repeat BY DEF GoUp
<1>8. min' \in 0..Bits /\ max' \in 0..(Bits - 1)
  BY <1>1, <1>2, <1>3 DEF SeekTypes
<1> QED BY <1>1, <1>3, <1>4, <1>5, <1>6, <1>7, <1>8, InvAfterTurn

\* The start of level 0 is 0, so the search does not go down from there.
LEMMA InvGoDown == SeekInv /\ GoDown => SeekInv'
<1> SUFFICES ASSUME SeekInv, GoDown PROVE SeekInv' OBVIOUS
<1>1. SeekTypes /\ min <= max BY DEF SeekInv, GoDown, SeekTypes, Narrowing
<1>2. mid \in Nat /\ min <= mid /\ mid <= max /\ mid + 1 \in 0..Bits
  BY <1>1, MidBetween
<1>3. index \in Nat /\ getStartOffset(mid) \in Nat /\ mid \in 0..Bits
  <2>1. index \in Nat BY <1>1, WordFacts DEF SeekTypes
  <2>2. mid \in 0..Bits BY <1>2, BitsAssumption
  <2> QED BY <2>1, <2>2, StartsAssumption
<1>4. index < getStartOffset(mid) BY DEF GoDown, y
<1>5. mid # 0
  <2> SUFFICES ASSUME mid = 0 PROVE FALSE OBVIOUS
  <2>1. getStartOffset(mid) = 0 BY DEF getStartOffset
  <2> QED BY <1>3, <1>4, <2>1
<1>6. max' = mid - 1
  <2>1. Minus1(mid) = mid - 1 BY <1>2, <1>5, WordFacts
  <2> QED BY <2>1 DEF GoDown
<1>7. min' = min /\ index' = index BY DEF GoDown
<1>8. getStartOffset(min') <= index BY <1>7 DEF SeekInv, GoDown, Narrowing
<1>9. index < getStartOffset(max' + 1)
  <2>1. max' + 1 = mid BY <1>2, <1>6
  <2> QED BY <1>4, <2>1
<1>10. UNCHANGED <<contig_size, start_index>> /\ Repeat BY DEF GoDown
<1>11. /\ min' \in 0..Bits /\ max' \in 0..(Bits - 1)
       /\ min' <= max' + 1
  BY <1>1, <1>2, <1>5, <1>6, <1>7, BitsAssumption DEF SeekTypes
<1> QED BY <1>1, <1>7, <1>8, <1>9, <1>10, <1>11, InvAfterTurn

\* The search ends in the level it looks at.
LEMMA InvFound == SeekInv /\ Found => SeekInv'
<1> SUFFICES ASSUME SeekInv, Found PROVE SeekInv' OBVIOUS
<1>1. SeekTypes /\ min <= max BY DEF SeekInv, Found, SeekTypes, Narrowing
<1>2. mid \in Nat /\ min <= mid /\ mid <= max /\ mid + 1 \in 0..Bits
  BY <1>1, MidBetween
<1>3. /\ index \in Nat /\ getStartOffset(mid) \in Nat
      /\ getStartOffset(mid + 1) \in Nat
  <2>1. index \in Nat BY <1>1, WordFacts DEF SeekTypes
  <2>2. mid \in 0..Bits BY <1>2, BitsAssumption
  <2> QED BY <1>2, <2>1, <2>2, StartsAssumption
<1>4. index < getStartOffset(mid + 1) /\ index >= getStartOffset(mid)
  BY DEF Found, y, y2
<1>5. /\ contig_size' = getStartOffset(mid + 1) - index
      /\ start_index' = getStartOffset(mid)
  BY DEF Found, y, y2
<1>6. pc' = "found" /\ UNCHANGED <<index, min, max>> BY DEF Found
<1>7. contig_size' \in Nat /\ start_index' \in Nat BY <1>3, <1>4, <1>5
<1>8. SeekTypes' BY <1>1, <1>6, <1>7 DEF SeekTypes
<1>9. mid' = mid BY <1>6 DEF mid
<1>10. FindsTheLevel'
  <2>1. Holds(mid, index) BY <1>3, <1>4 DEF Holds
  <2>2. index + contig_size' = getStartOffset(mid + 1) BY <1>3, <1>5
  <2> QED BY <1>5, <1>6, <1>9, <2>1, <2>2 DEF FindsTheLevel
<1>11. Narrowing' BY <1>6 DEF Narrowing
<1> QED BY <1>8, <1>10, <1>11 DEF SeekInv

\* Nothing happens after the end.
LEMMA InvSeekStutter == SeekInv /\ UNCHANGED seek_vars => SeekInv'
<1> SUFFICES ASSUME SeekInv, UNCHANGED seek_vars PROVE SeekInv' OBVIOUS
<1>1. SeekTypes' BY DEF SeekInv, SeekTypes, seek_vars
<1>2. Narrowing' BY DEF SeekInv, Narrowing, seek_vars
<1>3. mid' = mid BY DEF mid, seek_vars
<1>4. FindsTheLevel' BY <1>3 DEF SeekInv, FindsTheLevel, seek_vars
<1> QED BY <1>1, <1>2, <1>4 DEF SeekInv

\* The invariant of the search.
THEOREM SeekInvAlways == SeekSpec => []SeekInv
<1>1. SeekInv /\ [SeekNext]_seek_vars => SeekInv'
  BY InvGoUp, InvGoDown, InvFound, InvSeekStutter DEF SeekNext, SeekStep, Returned
<1> QED BY <1>1, SeekInvInit, PTL DEF SeekSpec

\* min and max stay in the range of levels; max does not wrap around.
THEOREM SeekTypeCorrect == SeekSpec => []SeekTypes
<1>1. SeekInv => SeekTypes BY DEF SeekInv
<1> QED BY <1>1, SeekInvAlways, PTL

\* The search ends in the level that holds the index, with the bounds an
\* iterator caches, or finds that there is none.
THEOREM AlwaysFindsTheLevel == SeekSpec => []FindsTheLevel
<1>1. SeekInv => FindsTheLevel BY DEF SeekInv
<1> QED BY <1>1, SeekInvAlways, PTL

\* The level that the search returns for an index of an array is the one that
\* its iterators take it for.
THEOREM SearchIsSeek ==
  SeekSpec => [](pc = "found" /\ index < MaxLength => mid = seek(index))
<1>1. SeekInv => (pc = "found" /\ index < MaxLength => mid = seek(index))
  <2> SUFFICES ASSUME SeekInv, pc = "found", index < MaxLength PROVE mid = seek(index)
    OBVIOUS
  <2>1. /\ min \in 0..Bits /\ max \in 0..(Bits - 1) /\ index \in Nat
        /\ Holds(mid, index)
    BY WordFacts DEF SeekInv, SeekTypes, FindsTheLevel
  <2>2. mid \in Nat /\ mid <= Bits
    <3>1. (max - min) \div 2 \in Int /\ 2 * ((max - min) \div 2) <= max - min
          /\ max - min < 2 * ((max - min) \div 2) + 2
      BY <2>1, BitsAssumption
    <3>2. QED BY <2>1, <3>1, BitsAssumption DEF mid
  <2>3. MaxLevels \in 0..Bits /\ MaxLength \in Nat /\ MaxLength <= getStartOffset(MaxLevels)
    BY LengthAssumption, BitsAssumption
  <2>4. mid < MaxLevels
    <3> SUFFICES ASSUME MaxLevels <= mid PROVE FALSE BY <2>2, <2>3
    <3>1. mid \in 0..Bits BY <2>2, BitsAssumption
    <3>2. getStartOffset(MaxLevels) <= getStartOffset(mid)
      BY <2>3, <3>1, StartsAssumption
    <3>3. getStartOffset(MaxLevels) \in Nat /\ getStartOffset(mid) \in Nat
      BY <2>3, <3>1, StartsAssumption
    <3>4. getStartOffset(mid) <= index BY <2>1 DEF Holds
    <3> QED BY <2>1, <2>3, <3>2, <3>3, <3>4
  <2>5. mid \in 0..(MaxLevels - 1) /\ index \in 0..(MaxLength - 1)
    BY <2>1, <2>2, <2>3, <2>4
  <2> HIDE DEF mid
  <2> QED BY <2>1, <2>5, SeekFinds
<1> QED BY <1>1, SeekInvAlways, PTL
=============================================================================
