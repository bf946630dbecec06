----------------------- MODULE QuickDisassembler_proofs --------------------
(***************************************************************************)
(* Proofs about the linear sweep, for images of every size and every       *)
(* decoder.                                                                *)
(***************************************************************************)
EXTENDS QuickDisassemblerProps, SequenceTheorems, TLAPS

-----------------------------------------------------------------------------
(* Writing an entry *)

\* What a listing is after an entry was written.
LEMMA WriteFacts ==
  ASSUME NEW s \in Seq(Entries), NEW e \in Entries
  PROVE  /\ Append(s, e) \in Seq(Entries)
         /\ Append(s, e) # <<>>
         /\ Len(Append(s, e)) = Len(s) + 1
         /\ \A i \in 1..Len(s) : Append(s, e)[i] = s[i]
         /\ Append(s, e)[Len(s) + 1] = e
BY AppendProperties

\* The entries that are written are entries.
LEMMA EntryTypes ==
  /\ \A k \in {"start", "nonexecutable", "unrecognized"}, f \in Nat, n \in Nat :
       Skip(k, f, n) \in Entries
  /\ \A f \in Nat, n \in Nat, b \in BOOLEAN, x \in BOOLEAN,
        o \in Offset \cup {Nowhere} : Insn(f, n, b, x, o) \in Entries
BY DEF Skip, Insn, Entries, Offset, Nowhere

-----------------------------------------------------------------------------
(* The inductive invariant *)

\* What holds at each place of the loop body.
SkipCount ==
  /\ Skipping => skipped <= offset /\ offset <= Size
  /\ pc = "nonexecutable" => skipped > 0 \/ MoreNonExecutable
  /\ pc = "unrecognized" => offset < Size
  /\ pc = "recognized" => skipped > 0

Decoded ==
  pc = "print" =>
    /\ offset \in Offset /\ offset \in executable
    /\ insn_len = insn_at[offset] /\ insn_len > 0
    /\ icode = offset

\* Nothing but the first skip happens before the first section.
PastStart == offset >= start_offset \/ (pc = "loop" /\ offset = 0)

Inv == TypeOK /\ SkipCount /\ Decoded /\ PastStart

\* The invariant holds when disassemble begins.
LEMMA InvInit == Init => Inv
  <1> SUFFICES ASSUME Init PROVE Inv
    OBVIOUS
  <1>1. TypeOK
    <2>1. listing \in Seq(Entries)
      BY EmptySeq DEF Init
    <2>2. start_offset \in Nat
      BY BoundsAssumption DEF Init, RawImage, LoadedImage
    <2>3. raw \in BOOLEAN
      BY Zenon DEF Init
    <2>4. executable \subseteq Offset /\ extended \subseteq Offset
      BY DEF Init, RawImage, LoadedImage
    <2>5. /\ offset \in Nat /\ (offset > Size => offset = start_offset)
          /\ prev_offset \in 0..Size \cup {Nowhere}
          /\ skipped \in Nat /\ insn_len \in 0..MaxLen
          /\ icode \in Offset \cup {Nowhere}
      BY SizeAssumption, BoundsAssumption DEF Init
    <2>6. QED
      BY <2>1, <2>2, <2>4, <2>5, <2>3 DEF Init, TypeOK
  <1>2. SkipCount /\ Decoded /\ PastStart
    BY DEF Init, SkipCount, Decoded, PastStart, Skipping
  <1>3. QED
    BY <1>1, <1>2 DEF Inv

\* Every step keeps the types and the facts about the loop body.
LEMMA InvStep == Inv /\ [Next]_vars => Inv'
  <1> SUFFICES ASSUME Inv, [Next]_vars PROVE Inv'
    OBVIOUS
  <1> USE DEF Inv, SkipCount, Decoded, PastStart, Skipping
  <1>1. CASE SkipToStart
    <2>1. Skip("start", offset, start_offset) \in Entries
      BY EntryTypes DEF TypeOK
    <2>2. listing' \in Seq(Entries)
      BY <1>1, <2>1, WriteFacts DEF SkipToStart, Write, TypeOK
    <2>3. QED
      BY <1>1, <2>2 DEF SkipToStart, InLoop, MoreImage, image, TypeOK
  <1>2. CASE MeetNonExecutable
    BY <1>2, SizeAssumption DEF MeetNonExecutable, InLoop, MoreImage,
      StartSkipping, MoreNonExecutable, image, TypeOK
  <1>3. CASE SkipNonExecutable
    BY <1>3, SizeAssumption
    DEF SkipNonExecutable, MoreNonExecutable, image, TypeOK
  <1>4. CASE EndNonExecutable
    <2>1. Skip("nonexecutable", offset - skipped, skipped) \in Entries
      BY <1>4, EntryTypes DEF EndNonExecutable, TypeOK
    <2>2. listing' \in Seq(Entries)
      BY <1>4, <2>1, WriteFacts DEF EndNonExecutable, Write, TypeOK
    <2>3. QED
      BY <1>4, <2>2 DEF EndNonExecutable, image, TypeOK
  <1>5. CASE DecodeExecutable
    <2>1. offset \in Offset /\ insn_at[offset] \in 0..MaxLen
      BY <1>5, SizeAssumption
      DEF DecodeExecutable, InLoop, MoreImage, Offset, Decodings, TypeOK
    <2>2. QED
      BY <1>5, <2>1, SizeAssumption, BoundsAssumption
      DEF DecodeExecutable, InLoop, MoreImage, decode_insn, StartSkipping,
        image, TypeOK
  <1>6. CASE SkipUnrecognized
    <2>1. offset + 1 < Size =>
            offset + 1 \in Offset /\ insn_at[offset + 1] \in 0..MaxLen
      BY SizeAssumption DEF Offset, Decodings, TypeOK
    <2>2. QED
      BY <1>6, <2>1, SizeAssumption
      DEF SkipUnrecognized, decode_insn, image, TypeOK
  <1>7. CASE EndUnrecognized
    <2>1. Skip("unrecognized", offset - skipped, skipped) \in Entries
      BY <1>7, EntryTypes DEF EndUnrecognized, TypeOK
    <2>2. listing' \in Seq(Entries)
      BY <1>7, <2>1, WriteFacts DEF EndUnrecognized, Write, TypeOK
    <2>3. QED
      BY <1>7, <2>2 DEF EndUnrecognized, image, TypeOK
  <1>8. CASE PrintInsn
    <2> DEFINE info == offset \in extended
               blank == prev_offset # offset \/ info
    <2>1. Insn(offset, insn_len, blank, info, icode) \in Entries
      <3>1. blank \in BOOLEAN /\ info \in BOOLEAN
        OBVIOUS
      <3>2. offset \in Nat /\ insn_len \in Nat /\ icode \in Offset \cup {Nowhere}
        BY BoundsAssumption DEF TypeOK
      <3>3. QED
        BY <3>1, <3>2, EntryTypes
    <2>2. listing' \in Seq(Entries)
      BY <1>8, <2>1, WriteFacts DEF PrintInsn, Write, TypeOK
    <2>3. offset + insn_len \in Nat /\ offset + insn_len <= Size
      BY <1>8, SizeAssumption, BoundsAssumption, SMTT(30)
      DEF PrintInsn, Decodings, Offset, TypeOK
    <2>4. QED
      BY <1>8, <2>2, <2>3, SizeAssumption
      DEF PrintInsn, NextInsn, image, TypeOK
  <1>9. CASE Finish
    BY <1>9, SizeAssumption DEF Finish, MoreImage, image, TypeOK
  <1>10. CASE Returned \/ UNCHANGED vars
    BY <1>10 DEF Returned, vars, TypeOK, MoreNonExecutable
  <1>11. QED
    BY <1>1, <1>2, <1>3, <1>4, <1>5, <1>6, <1>7, <1>8, <1>9, <1>10
    DEF Next, Step

\* The variables of the sweep keep their types; in particular the sweep never
\* looks at an offset behind the image, and only a first section that would
\* start there makes it leave the image at all.
THEOREM TypeCorrect == Spec => []TypeOK
  <1>1. Spec => []Inv
    BY InvInit, InvStep, PTL DEF Spec
  <1>2. QED
    BY <1>1, PTL DEF Inv

-----------------------------------------------------------------------------
(* Contiguous *)

\* Where a listing ends is an offset.
LEMMA CoveredIsNat == listing \in Seq(Entries) => Covered \in Nat
  <1> SUFFICES ASSUME listing \in Seq(Entries) PROVE Covered \in Nat
    OBVIOUS
  <1>1. CASE listing = <<>>
    BY <1>1 DEF Covered
  <1>2. CASE listing # <<>>
    <2>1. Len(listing) \in Nat \ {0}
      BY <1>2, EmptySeq
    <2>2. listing[Len(listing)] \in Entries
      BY <2>1, ElementOfSeq
    <2>3. QED
      BY <1>2, <2>2 DEF Covered, Entries
  <1>3. QED
    BY <1>1, <1>2

\* A listing whose entries adjoin grows by an entry that begins where they
\* end and is not empty.
LEMMA AdjoiningEntry ==
  ASSUME listing \in Seq(Entries), EntriesAdjoin,
         NEW e \in Entries, Write(e), e.from = Covered, e.size > 0
  PROVE  EntriesAdjoin' /\ Covered' = e.from + e.size
  <1>1. /\ listing' # <<>> /\ Len(listing') = Len(listing) + 1
        /\ \A i \in 1..Len(listing) : listing'[i] = listing[i]
        /\ listing'[Len(listing) + 1] = e
    BY WriteFacts DEF Write
  <1>2. Len(listing) \in Nat /\ (listing # <<>> => Len(listing) > 0)
    BY EmptySeq
  <1>3. Covered' = e.from + e.size
    BY <1>1 DEF Covered
  <1>4. listing'[1].from = 0
    BY <1>1, <1>2 DEF EntriesAdjoin, Covered
  <1>5. ASSUME NEW i \in 1..(Len(listing') - 1)
        PROVE  listing'[i + 1].from = listing'[i].from + listing'[i].size
    <2>1. CASE i = Len(listing)
      BY <1>1, <1>2, <2>1 DEF Covered
    <2>2. CASE i < Len(listing)
      BY <1>1, <1>2, <2>2 DEF EntriesAdjoin
    <2>3. QED
      BY <1>1, <1>2, <2>1, <2>2
  <1>6. \A i \in 1..Len(listing') : listing'[i].size > 0
    BY <1>1, <1>2 DEF EntriesAdjoin
  <1>7. QED
    BY <1>3, <1>4, <1>5, <1>6 DEF EntriesAdjoin

\* The two fields of an entry that say which bytes it accounts for.
LEMMA EntryFields ==
  /\ \A k, f, n : Skip(k, f, n).from = f /\ Skip(k, f, n).size = n
  /\ \A f, n, b, x, o : Insn(f, n, b, x, o).from = f /\ Insn(f, n, b, x, o).size = n
BY DEF Skip, Insn

\* Every step keeps the listing adjoining and in step with offset.
LEMMA ContiguousStep == Inv /\ Contiguous /\ [Next]_vars => Contiguous'
  <1> SUFFICES ASSUME Inv, Contiguous, [Next]_vars PROVE Contiguous'
    OBVIOUS
  <1>a. /\ listing \in Seq(Entries) /\ EntriesAdjoin
        /\ offset \in Nat /\ skipped \in Nat
    BY DEF Inv, TypeOK, Contiguous
  <1>c. Covered \in Nat
    BY <1>a, CoveredIsNat
  <1>b. ASSUME UNCHANGED listing PROVE EntriesAdjoin' /\ Covered' = Covered
    BY <1>a, <1>b DEF EntriesAdjoin, Covered
  <1>1. CASE SkipToStart
    <2> DEFINE e == Skip("start", offset, start_offset)
    <2>1. e \in Entries /\ e.from = offset /\ e.size = start_offset
      BY EntryTypes, EntryFields DEF Inv, TypeOK
    <2>2. offset = Covered /\ offset = 0 /\ start_offset \in Nat \ {0}
      BY <1>1, <1>a, <1>c DEF SkipToStart, InLoop, Inv, PastStart, TypeOK, Contiguous,
        Skipping
    <2>3. EntriesAdjoin' /\ Covered' = start_offset
      BY <1>1, <1>a, <2>1, <2>2, AdjoiningEntry DEF SkipToStart
    <2>4. QED
      BY <1>1, <2>2, <2>3 DEF SkipToStart, InLoop, Contiguous, Skipping
  <1>2. CASE MeetNonExecutable
    BY <1>2, <1>a, <1>b
    DEF MeetNonExecutable, InLoop, StartSkipping, Contiguous, Skipping
  <1>3. CASE SkipNonExecutable
    BY <1>3, <1>a, <1>b, <1>c DEF SkipNonExecutable, Contiguous, Skipping
  <1>4. CASE EndNonExecutable
    <2> DEFINE e == Skip("nonexecutable", offset - skipped, skipped)
    <2>1. offset - skipped = Covered /\ skipped > 0 /\ offset - skipped \in Nat
      BY <1>4, <1>a, <1>c
      DEF EndNonExecutable, Contiguous, Skipping, Inv, SkipCount
    <2>2. e \in Entries /\ e.from = Covered /\ e.size = skipped
      BY <1>a, <2>1, EntryTypes, EntryFields
    <2>3. EntriesAdjoin' /\ Covered' = offset
      BY <1>4, <1>a, <2>1, <2>2, AdjoiningEntry DEF EndNonExecutable
    <2>4. QED
      BY <1>4, <1>a, <2>3 DEF EndNonExecutable, Contiguous, Skipping
  <1>5. CASE DecodeExecutable
    BY <1>5, <1>a, <1>b
    DEF DecodeExecutable, InLoop, StartSkipping, Contiguous, Skipping
  <1>6. CASE SkipUnrecognized
    BY <1>6, <1>a, <1>b, <1>c DEF SkipUnrecognized, Contiguous, Skipping
  <1>7. CASE EndUnrecognized
    <2> DEFINE e == Skip("unrecognized", offset - skipped, skipped)
    <2>1. offset - skipped = Covered /\ skipped > 0 /\ offset - skipped \in Nat
      BY <1>7, <1>a, <1>c
      DEF EndUnrecognized, Contiguous, Skipping, Inv, SkipCount
    <2>2. e \in Entries /\ e.from = Covered /\ e.size = skipped
      BY <1>a, <2>1, EntryTypes, EntryFields
    <2>3. EntriesAdjoin' /\ Covered' = offset
      BY <1>7, <1>a, <2>1, <2>2, AdjoiningEntry DEF EndUnrecognized
    <2>4. QED
      BY <1>7, <1>a, <2>3 DEF EndUnrecognized, Contiguous, Skipping
  <1>8. CASE PrintInsn
    <2> DEFINE info == offset \in extended
               blank == prev_offset # offset \/ info
               e == Insn(offset, insn_len, blank, info, icode)
    <2>1. e \in Entries
      <3>1. blank \in BOOLEAN /\ info \in BOOLEAN
        OBVIOUS
      <3>2. offset \in Nat /\ insn_len \in Nat /\ icode \in Offset \cup {Nowhere}
        BY BoundsAssumption DEF Inv, TypeOK
      <3>3. QED
        BY <3>1, <3>2, EntryTypes
    <2>2. e.from = Covered /\ e.from = offset /\ e.size = insn_len /\ insn_len > 0
      BY <1>8, <1>a, <1>c, EntryFields
      DEF PrintInsn, Contiguous, Skipping, Inv, Decoded
    <2>3. EntriesAdjoin' /\ Covered' = offset + insn_len
      BY <1>8, <1>a, <2>1, <2>2, AdjoiningEntry DEF PrintInsn
    <2>4. QED
      BY <1>8, <1>a, <2>3, BoundsAssumption
      DEF PrintInsn, NextInsn, Contiguous, Skipping, Inv, TypeOK
  <1>9. CASE Finish
    BY <1>9, <1>a, <1>b DEF Finish, Contiguous, Skipping
  <1>10. CASE Returned \/ UNCHANGED vars
    BY <1>10, <1>a, <1>b DEF Returned, vars, Contiguous, Skipping
  <1>11. QED
    BY <1>1, <1>2, <1>3, <1>4, <1>5, <1>6, <1>7, <1>8, <1>9, <1>10
    DEF Next, Step

\* The bytes named by the entries of a listing, and by the skip count, add up
\* to the offset the sweep has reached: no byte is listed twice or left out.
THEOREM ContiguousAlways == Spec => []Contiguous
  <1>1. Init => Contiguous
    BY EmptySeq DEF Init, Contiguous, EntriesAdjoin, Covered, Skipping
  <1>2. QED
    BY <1>1, InvInit, InvStep, ContiguousStep, PTL DEF Spec

-----------------------------------------------------------------------------
(* The sweep implements a listing *)

\* Taking extents commutes with appending, and keeps the end of a listing.
LEMMA ExtentFacts ==
  ASSUME NEW s \in Seq(Entries), NEW e \in Entries
  PROVE  /\ Len(Extents(s)) = Len(s)
         /\ Extents(Append(s, e)) = Append(Extents(s), ExtentOf(e))
         /\ AbstractListing!EndOf(Extents(s))
              = IF s = <<>> THEN 0 ELSE s[Len(s)].from + s[Len(s)].size
  <1> DEFINE X == [from : Nat, size : Nat]
             t == Append(s, e)
             u == Append(Extents(s), ExtentOf(e))
  <1>1. /\ Len(s) \in Nat /\ (s = <<>> <=> Len(s) = 0)
        /\ \A i \in 1..Len(s) : s[i] \in Entries
    BY EmptySeq, ElementOfSeq
  <1>2. \A x \in Entries : ExtentOf(x) \in X
    BY DEF Entries, ExtentOf
  <1>3. Extents(s) \in Seq(X) /\ Len(Extents(s)) = Len(s)
    BY <1>1, <1>2 DEF Extents
  <1>4. /\ u \in Seq(X) /\ Len(u) = Len(s) + 1
        /\ \A i \in 1..Len(s) : u[i] = Extents(s)[i]
        /\ u[Len(s) + 1] = ExtentOf(e)
    BY <1>2, <1>3, AppendProperties
  <1>5. Extents(t) \in Seq(X) /\ Len(Extents(t)) = Len(s) + 1
    <2>1. Len(t) = Len(s) + 1 /\ \A i \in 1..Len(t) : t[i] \in Entries
      BY WriteFacts, ElementOfSeq
    <2>2. QED
      BY <1>1, <1>2, <2>1 DEF Extents
  <1>6. \A i \in 1..(Len(s) + 1) : Extents(t)[i] = u[i]
    BY <1>1, <1>4, WriteFacts DEF Extents
  <1>7. Extents(t) = u
    BY <1>4, <1>5, <1>6, SeqEqual, SMTT(30)
  <1>8. /\ Extents(s) = <<>> <=> s = <<>>
        /\ s # <<>> => Extents(s)[Len(s)] = ExtentOf(s[Len(s)])
    BY <1>1, <1>3, EmptySeq DEF Extents
  <1>9. QED
    BY <1>3, <1>7, <1>8 DEF AbstractListing!EndOf, ExtentOf

\* An entry that begins where the listing ends and is not empty is a step of
\* the abstract listing.
LEMMA WriteImplementsWrite ==
  ASSUME listing \in Seq(Entries), Covered < Size, pc # "done", pc' # "done",
         NEW e \in Entries, Write(e), e.from = Covered, e.size > 0
  PROVE  AbstractListing!Write
  <1>1. /\ Extents(listing') = Append(Extents(listing), ExtentOf(e))
        /\ Len(Extents(listing)) = Len(listing)
        /\ AbstractListing!EndOf(Extents(listing)) = Covered
    BY ExtentFacts DEF Write, Covered
  <1>2. /\ listing' \in Seq(Entries)
        /\ Len(listing') = Len(listing) + 1 /\ listing'[Len(listing')] = e
    BY WriteFacts DEF Write
  <1>3. /\ Len(Extents(listing')) = Len(Extents(listing)) + 1
        /\ Extents(listing')[Len(Extents(listing'))] = ExtentOf(e)
    BY <1>1, <1>2, ExtentFacts, EmptySeq DEF Extents
  <1>4. ExtentOf(e).from = Covered /\ ExtentOf(e).size \in Nat \ {0}
    BY DEF ExtentOf, Entries
  <1>5. (pc = "done") = FALSE /\ (pc' = "done") = FALSE
    OBVIOUS
  <1>6. QED
    BY <1>1, <1>3, <1>4, <1>5 DEF AbstractListing!Write

\* Every step of the sweep is a step of the abstract listing or a stutter.
LEMMA ListingStep ==
  Inv /\ Contiguous /\ [Next]_vars =>
    [AbstractListing!Next]_<<Extents(listing), pc = "done">>
  <1> SUFFICES ASSUME Inv, Contiguous, [Next]_vars
               PROVE  [AbstractListing!Next]_<<Extents(listing), pc = "done">>
    OBVIOUS
  <1>a. /\ listing \in Seq(Entries) /\ Covered \in Nat
        /\ offset \in Nat /\ skipped \in Nat /\ Size \in Nat
    BY CoveredIsNat, SizeAssumption DEF Inv, TypeOK
  <1>b. ASSUME UNCHANGED listing, pc # "done", pc' # "done"
        PROVE  UNCHANGED <<Extents(listing), pc = "done">>
    <2>1. (pc = "done") = FALSE /\ (pc' = "done") = FALSE
      BY <1>b
    <2>2. Extents(listing') = Extents(listing)
      BY <1>b
    <2>3. QED
      BY <2>1, <2>2
  <1>1. CASE SkipToStart
    <2> DEFINE e == Skip("start", offset, start_offset)
    <2>1. e \in Entries /\ e.from = offset /\ e.size = start_offset
      BY EntryTypes, EntryFields DEF Inv, TypeOK
    <2>2. offset = Covered /\ Covered < Size /\ start_offset > 0
      BY <1>1, <1>a DEF SkipToStart, InLoop, MoreImage, Inv, TypeOK, Contiguous,
        Skipping
    <2>3. AbstractListing!Write
      BY <1>1, <1>a, <2>1, <2>2, WriteImplementsWrite DEF SkipToStart, InLoop
    <2>4. QED
      BY <2>3 DEF AbstractListing!Next
  <1>2. CASE MeetNonExecutable
    BY <1>2, <1>b DEF MeetNonExecutable, InLoop
  <1>3. CASE SkipNonExecutable
    BY <1>3, <1>b DEF SkipNonExecutable
  <1>4. CASE EndNonExecutable
    <2> DEFINE e == Skip("nonexecutable", offset - skipped, skipped)
    <2>1. offset - skipped = Covered /\ skipped > 0 /\ Covered < Size
      BY <1>4, <1>a
      DEF EndNonExecutable, Contiguous, Skipping, Inv, SkipCount
    <2>2. e \in Entries /\ e.from = Covered /\ e.size = skipped
      BY <1>a, <2>1, EntryTypes, EntryFields
    <2>3. AbstractListing!Write
      BY <1>4, <1>a, <2>1, <2>2, WriteImplementsWrite DEF EndNonExecutable
    <2>4. QED
      BY <2>3 DEF AbstractListing!Next
  <1>5. CASE DecodeExecutable
    BY <1>5, <1>b DEF DecodeExecutable, InLoop
  <1>6. CASE SkipUnrecognized
    BY <1>6, <1>b DEF SkipUnrecognized
  <1>7. CASE EndUnrecognized
    <2> DEFINE e == Skip("unrecognized", offset - skipped, skipped)
    <2>1. offset - skipped = Covered /\ skipped > 0 /\ Covered < Size
      BY <1>7, <1>a
      DEF EndUnrecognized, Contiguous, Skipping, Inv, SkipCount
    <2>2. e \in Entries /\ e.from = Covered /\ e.size = skipped
      BY <1>a, <2>1, EntryTypes, EntryFields
    <2>3. AbstractListing!Write
      BY <1>7, <1>a, <2>1, <2>2, WriteImplementsWrite DEF EndUnrecognized
    <2>4. QED
      BY <2>3 DEF AbstractListing!Next
  <1>8. CASE PrintInsn
    <2> DEFINE info == offset \in extended
               blank == prev_offset # offset \/ info
               e == Insn(offset, insn_len, blank, info, icode)
    <2>1. e \in Entries
      <3>1. blank \in BOOLEAN /\ info \in BOOLEAN
        OBVIOUS
      <3>2. offset \in Nat /\ insn_len \in Nat /\ icode \in Offset \cup {Nowhere}
        BY BoundsAssumption DEF Inv, TypeOK
      <3>3. QED
        BY <3>1, <3>2, EntryTypes
    <2>2. /\ e.from = Covered /\ e.from = offset /\ e.size = insn_len
          /\ insn_len > 0 /\ Covered < Size
      BY <1>8, <1>a, EntryFields
      DEF PrintInsn, Contiguous, Skipping, Inv, Decoded, Offset
    <2>3. AbstractListing!Write
      BY <1>8, <1>a, <2>1, <2>2, WriteImplementsWrite DEF PrintInsn
    <2>4. QED
      BY <2>3 DEF AbstractListing!Next
  <1>9. CASE Finish
    <2>1. AbstractListing!EndOf(Extents(listing)) = Covered
      BY <1>a, EntryTypes, ExtentFacts DEF Covered
    <2>2. Covered >= Size
      BY <1>9, <1>a DEF Finish, MoreImage, Contiguous, Skipping
    <2>3. (pc = "done") = FALSE /\ (pc' = "done") = TRUE
      BY <1>9 DEF Finish
    <2>4. Extents(listing') = Extents(listing)
      BY <1>9 DEF Finish
    <2>5. AbstractListing!Finish
      BY <2>1, <2>2, <2>3, <2>4 DEF AbstractListing!Finish
    <2>6. QED
      BY <2>5 DEF AbstractListing!Next
  <1>10. CASE Returned \/ UNCHANGED vars
    <2>1. pc' = pc /\ listing' = listing
      BY <1>10 DEF Returned, vars
    <2>2. QED
      BY <2>1
  <1>11. QED
    BY <1>1, <1>2, <1>3, <1>4, <1>5, <1>6, <1>7, <1>8, <1>9, <1>10
    DEF Next, Step

\* The sweep implements the abstract listing: its steps write the entries of
\* a listing one after the other, and it ends when no byte is left.
THEOREM SweepImplementsListing == Spec => ImplementsListing
  <1>1. Init => AbstractListing!Init
    BY EmptySeq DEF Init, AbstractListing!Init, Extents
  <1>2. Init => Contiguous
    BY EmptySeq DEF Init, Contiguous, EntriesAdjoin, Covered, Skipping
  <1>3. QED
    BY <1>1, <1>2, InvInit, InvStep, ContiguousStep, ListingStep, PTL
    DEF Spec, ImplementsListing, AbstractListing!Spec

-----------------------------------------------------------------------------
(* What the entries say of their bytes *)

\* The reason entry number i gives is true of its bytes.
Truth(e, i) ==
  CASE e.kind = "insn" -> /\ e.from \in executable
                          /\ e.size = insn_at[e.from]
                          /\ e.from + e.size <= Size
    [] e.kind = "nonexecutable" -> Bytes(e) \cap executable = {}
    [] e.kind = "unrecognized" -> /\ e.from \in executable
                                  /\ \A b \in Bytes(e) : insn_at[b] = 0
    [] e.kind = "start" -> e.from = 0 /\ i = 1 /\ e.size = start_offset

\* A line printed for an instruction shows its own decoding, and a blank line
\* above it sets it off from what it does not continue.
Shown(i) ==
  listing[i].kind = "insn" =>
    /\ listing[i].shown = listing[i].from
    /\ listing[i].blank = (\/ i = 1 \/ listing[i - 1].kind # "insn"
                           \/ listing[i].from \in extended)

\* The bytes skipped so far have the property they are skipped for, and the
\* one at offset has it while the skip goes on.
SkippedBytes ==
  LET skip == (offset - skipped)..(offset - 1) IN
  /\ pc = "nonexecutable" => skip \cap executable = {}
  /\ pc \in {"unrecognized", "recognized"} =>
       /\ offset - skipped \in executable
       /\ \A b \in skip : insn_at[b] = 0
  /\ pc = "unrecognized" => insn_at[offset] = 0
  /\ pc = "recognized" => offset >= Size \/ insn_at[offset] > 0

\* The last entry, "none" when there is none yet.
LastKind == IF listing = <<>> THEN "none" ELSE listing[Len(listing)].kind

\* Why the last entry ended, which is why the next is not of its kind.
EndOfSkip ==
  /\ pc = "nonexecutable" => LastKind # "nonexecutable"
  /\ pc \in {"unrecognized", "recognized"} => LastKind # "unrecognized"
  /\ pc = "loop" /\ offset < Size =>
       /\ LastKind = "nonexecutable" => offset \in executable
       /\ LastKind = "unrecognized" => insn_at[offset] > 0
  /\ LastKind = "start" => offset >= start_offset

\* prev_offset is the end of the listing when its last entry is an
\* instruction, and an earlier offset otherwise.
PrevOffset ==
  IF LastKind = "insn" THEN prev_offset = Covered ELSE prev_offset < Covered

EntriesInv ==
  /\ EntriesTellTheTruth /\ SkipsAreMaximal /\ PrintsWhatItDecoded
  /\ SkippedBytes /\ EndOfSkip /\ PrevOffset

\* Which kinds entries have, and what the line of an instruction shows.
LEMMA EntryKinds ==
  /\ \A k, f, n : Skip(k, f, n).kind = k
  /\ \A f, n, b, x, o : /\ Insn(f, n, b, x, o).kind = "insn"
                        /\ Insn(f, n, b, x, o).shown = o
                        /\ Insn(f, n, b, x, o).blank = b
BY DEF Skip, Insn

\* The truth about an entry, kind by kind.
LEMMA TruthOfKind ==
  ASSUME NEW e \in Entries, NEW i \in Nat
  PROVE  /\ e.kind = "insn" =>
              (Truth(e, i) <=> /\ e.from \in executable
                               /\ e.size = insn_at[e.from]
                               /\ e.from + e.size <= Size)
         /\ e.kind = "nonexecutable" =>
              (Truth(e, i) <=> Bytes(e) \cap executable = {})
         /\ e.kind = "unrecognized" =>
              (Truth(e, i) <=> /\ e.from \in executable
                               /\ \A b \in Bytes(e) : insn_at[b] = 0)
         /\ e.kind = "start" =>
              (Truth(e, i) <=> e.from = 0 /\ i = 1 /\ e.size = start_offset)
BY DEF Truth

\* The entry that is written, and the ones before it, which stay.
LEMMA WrittenEntry ==
  ASSUME listing \in Seq(Entries), NEW e \in Entries, Write(e)
  PROVE  /\ Len(listing) \in Nat
         /\ listing' \in Seq(Entries)
         /\ Len(listing') = Len(listing) + 1
         /\ \A i \in 1..Len(listing) : listing'[i] = listing[i]
         /\ listing'[Len(listing) + 1] = e
         /\ LastKind' = e.kind
  <1>1. /\ listing' # <<>> /\ Len(listing') = Len(listing) + 1
        /\ listing' \in Seq(Entries)
        /\ \A i \in 1..Len(listing) : listing'[i] = listing[i]
        /\ listing'[Len(listing) + 1] = e
    BY WriteFacts DEF Write
  <1>2. LastKind' = e.kind
    BY <1>1 DEF LastKind
  <1>3. QED
    BY <1>1, <1>2, EmptySeq

\* A listing that tells the truth still does when a true entry is added.
LEMMA TrueEntry ==
  ASSUME listing \in Seq(Entries), EntriesTellTheTruth, UNCHANGED image,
         NEW e \in Entries, Write(e), Truth(e, Len(listing) + 1)
  PROVE  EntriesTellTheTruth'
  <1>1. \A i \in 1..Len(listing) : Truth(listing[i], i)
    BY DEF EntriesTellTheTruth, Truth
  <1>2. ASSUME NEW i \in 1..Len(listing') PROVE Truth(listing'[i], i)
    <2>1. CASE i \in 1..Len(listing)
      BY <1>1, <2>1, WrittenEntry
    <2>2. CASE i = Len(listing) + 1
      BY <2>2, WrittenEntry
    <2>3. QED
      BY <2>1, <2>2, WrittenEntry
  <1>3. executable' = executable /\ insn_at' = insn_at
        /\ start_offset' = start_offset
    BY DEF image
  <1>4. QED
    BY <1>2, <1>3 DEF EntriesTellTheTruth, Truth

\* A listing without two skips of a kind in a row gets none by an entry that
\* is an instruction or of another kind than the last.
LEMMA OtherKind ==
  ASSUME listing \in Seq(Entries), SkipsAreMaximal,
         NEW e \in Entries, Write(e), e.kind = "insn" \/ e.kind # LastKind
  PROVE  SkipsAreMaximal'
  <1> SUFFICES ASSUME NEW i \in 1..(Len(listing') - 1),
                      listing'[i].kind = listing'[i + 1].kind
               PROVE  listing'[i].kind = "insn"
    BY DEF SkipsAreMaximal
  <1>1. CASE i = Len(listing)
    <2>1. listing # <<>>
      BY <1>1, EmptySeq
    <2>2. listing'[i].kind = LastKind /\ listing'[i + 1].kind = e.kind
      BY <1>1, <2>1, WrittenEntry DEF LastKind
    <2>3. QED
      BY <2>2
  <1>2. CASE i # Len(listing)
    <2>1. i \in 1..(Len(listing) - 1)
      BY <1>2, WrittenEntry
    <2>2. listing'[i] = listing[i] /\ listing'[i + 1] = listing[i + 1]
      BY <2>1, WrittenEntry
    <2>3. QED
      BY <2>1, <2>2 DEF SkipsAreMaximal
  <1>3. QED
    BY <1>1, <1>2

\* The lines of a listing stay what they were when an entry is added that is
\* a skip, or shows its own offset and is set off unless it continues.
LEMMA ShownEntry ==
  ASSUME listing \in Seq(Entries), PrintsWhatItDecoded, UNCHANGED image,
         NEW e \in Entries, Write(e),
         e.kind = "insn" =>
           /\ e.shown = e.from
           /\ e.blank = (LastKind # "insn" \/ e.from \in extended)
  PROVE  PrintsWhatItDecoded'
  <1>1. extended' = extended
    BY DEF image
  <1> SUFFICES ASSUME NEW i \in 1..Len(listing'), listing'[i].kind = "insn"
               PROVE  /\ listing'[i].shown = listing'[i].from
                      /\ listing'[i].blank =
                           (\/ i = 1 \/ listing'[i - 1].kind # "insn"
                            \/ listing'[i].from \in extended)
    BY <1>1 DEF PrintsWhatItDecoded
  <1>2. CASE i \in 1..Len(listing)
    <2>1. listing'[i] = listing[i] /\ (i # 1 => listing'[i - 1] = listing[i - 1])
      BY <1>2, WrittenEntry
    <2>2. CASE i = 1
      BY <1>2, <2>1, <2>2 DEF PrintsWhatItDecoded
    <2>3. CASE i # 1
      BY <1>2, <2>1, <2>3, ZenonT(30) DEF PrintsWhatItDecoded
    <2>4. QED
      BY <2>2, <2>3
  <1>3. CASE i = Len(listing) + 1
    <2>1. listing'[i] = e
      BY <1>3, WrittenEntry
    <2>2. CASE listing = <<>>
      <3>1. i = 1 /\ LastKind # "insn"
        BY <1>3, <2>2, EmptySeq DEF LastKind
      <3>2. QED
        BY <2>1, <3>1
    <2>3. CASE listing # <<>>
      <3>1. Len(listing) \in 1..Len(listing)
        BY <2>3, EmptySeq, WrittenEntry
      <3>2. i # 1 /\ i - 1 = Len(listing)
        BY <1>3, <3>1, WrittenEntry
      <3>3. listing'[i - 1].kind = LastKind
        BY <2>3, <3>1, <3>2, WrittenEntry DEF LastKind
      <3>4. QED
        BY <2>1, <3>2, <3>3
    <2>4. QED
      BY <2>2, <2>3
  <1>4. i \in 1..Len(listing) \/ i = Len(listing) + 1
    BY WrittenEntry
  <1>5. QED
    BY <1>2, <1>3, <1>4

\* A step that writes nothing and leaves the image alone keeps what is said
\* of the entries.
LEMMA NothingWritten ==
  ASSUME EntriesTellTheTruth, SkipsAreMaximal, PrintsWhatItDecoded,
         UNCHANGED image, UNCHANGED listing
  PROVE  /\ EntriesTellTheTruth' /\ SkipsAreMaximal' /\ PrintsWhatItDecoded'
         /\ LastKind' = LastKind /\ Covered' = Covered
  <1>1. /\ executable' = executable /\ insn_at' = insn_at
        /\ start_offset' = start_offset /\ extended' = extended
        /\ listing' = listing
    BY DEF image
  <1>2. EntriesTellTheTruth'
    BY <1>1 DEF EntriesTellTheTruth
  <1>3. SkipsAreMaximal'
    BY <1>1 DEF SkipsAreMaximal
  <1>4. PrintsWhatItDecoded'
    BY <1>1 DEF PrintsWhatItDecoded
  <1>5. QED
    BY <1>1, <1>2, <1>3, <1>4 DEF LastKind, Covered

\* Writing an entry at the end of the listing, a true one of another kind
\* than the last, keeps what is said of the entries.
LEMMA SkipWritten ==
  ASSUME Inv, Contiguous, EntriesInv, UNCHANGED image, UNCHANGED prev_offset,
         NEW e \in Entries, Write(e), e.from = Covered, e.size > 0,
         e.kind # "insn", e.kind # LastKind, Truth(e, Len(listing) + 1)
  PROVE  /\ EntriesTellTheTruth' /\ SkipsAreMaximal' /\ PrintsWhatItDecoded'
         /\ PrevOffset' /\ LastKind' = e.kind
  <1>1. listing \in Seq(Entries) /\ Covered \in Nat /\ prev_offset \in Int
    BY CoveredIsNat, SizeAssumption DEF Inv, TypeOK, Nowhere
  <1>2. LastKind' = e.kind
    BY <1>1, WrittenEntry
  <1>3. Covered' = e.from + e.size
    BY <1>1, AdjoiningEntry DEF Contiguous
  <1>4. e.size \in Nat /\ prev_offset <= Covered
    BY <1>1 DEF EntriesInv, PrevOffset, Entries
  <1>5. PrevOffset'
    BY <1>1, <1>2, <1>3, <1>4 DEF PrevOffset
  <1>6. EntriesTellTheTruth' /\ SkipsAreMaximal' /\ PrintsWhatItDecoded'
    BY <1>1, TrueEntry, OtherKind, ShownEntry DEF EntriesInv
  <1>7. QED
    BY <1>2, <1>5, <1>6

\* Every step keeps the entries true, the skips maximal and the lines their
\* own.
LEMMA EntriesStep == Inv /\ Contiguous /\ EntriesInv /\ [Next]_vars => EntriesInv'
  <1> SUFFICES ASSUME Inv, Contiguous, EntriesInv, [Next]_vars PROVE EntriesInv'
    OBVIOUS
  <1>a. /\ listing \in Seq(Entries) /\ EntriesAdjoin /\ Covered \in Nat
        /\ offset \in Nat /\ skipped \in Nat /\ Size \in Nat
        /\ start_offset \in Nat /\ executable \subseteq Offset
        /\ \A o \in Offset : insn_at[o] \in Nat
    BY CoveredIsNat, SizeAssumption, BoundsAssumption
    DEF Inv, TypeOK, Contiguous, Decodings
  <1>b. /\ EntriesTellTheTruth /\ SkipsAreMaximal /\ PrintsWhatItDecoded
        /\ SkippedBytes /\ EndOfSkip /\ PrevOffset
    BY DEF EntriesInv
  <1>c. /\ Skipping => offset = Covered + skipped
        /\ ~Skipping => offset = Covered
    BY <1>a DEF Contiguous
  <1>d. ASSUME UNCHANGED listing, UNCHANGED image, UNCHANGED prev_offset
        PROVE  /\ EntriesTellTheTruth' /\ SkipsAreMaximal' /\ PrintsWhatItDecoded'
               /\ LastKind' = LastKind /\ PrevOffset'
    <2>1. /\ EntriesTellTheTruth' /\ SkipsAreMaximal' /\ PrintsWhatItDecoded'
          /\ LastKind' = LastKind /\ Covered' = Covered
      BY <1>b, <1>d, NothingWritten
    <2>2. QED
      BY <1>b, <1>d, <2>1 DEF PrevOffset
  <1>1. CASE SkipToStart
    <2> DEFINE e == Skip("start", offset, start_offset)
    <2>1. /\ e \in Entries /\ e.from = offset /\ e.size = start_offset
          /\ e.kind = "start"
      BY <1>a, EntryTypes, EntryFields, EntryKinds
    <2>2. offset = Covered /\ offset = 0 /\ start_offset > 0
      BY <1>1, <1>a, <1>c
      DEF SkipToStart, InLoop, Inv, PastStart, Skipping
    <2>3. listing = <<>>
      <3>1. SUFFICES ASSUME listing # <<>> PROVE FALSE
        OBVIOUS
      <3>2. Len(listing) \in 1..Len(listing)
        BY <1>a, <3>1, EmptySeq
      <3>3. listing[Len(listing)] \in Entries /\ listing[Len(listing)].size > 0
        BY <1>a, <3>2, ElementOfSeq DEF EntriesAdjoin
      <3>4. QED
        BY <2>2, <3>1, <3>3 DEF Covered, Entries
    <2>4. LastKind = "none" /\ Len(listing) = 0
      BY <2>3, EmptySeq DEF LastKind
    <2>5. Truth(e, Len(listing) + 1)
      BY <2>1, <2>2, <2>4, TruthOfKind
    <2>6. /\ EntriesTellTheTruth' /\ SkipsAreMaximal' /\ PrintsWhatItDecoded'
          /\ PrevOffset' /\ LastKind' = "start"
      BY <1>1, <2>1, <2>2, <2>4, <2>5, SkipWritten DEF SkipToStart
    <2>7. SkippedBytes' /\ EndOfSkip'
      BY <1>1, <1>a, <2>6
      DEF SkipToStart, InLoop, image, SkippedBytes, EndOfSkip
    <2>8. QED
      BY <2>6, <2>7 DEF EntriesInv
  <1>2. CASE MeetNonExecutable
    <2>1. /\ EntriesTellTheTruth' /\ SkipsAreMaximal' /\ PrintsWhatItDecoded'
          /\ LastKind' = LastKind /\ PrevOffset'
      BY <1>2, <1>d DEF MeetNonExecutable
    <2>2. SkippedBytes'
      BY <1>2, <1>a DEF MeetNonExecutable, StartSkipping, SkippedBytes
    <2>3. EndOfSkip'
      BY <1>2, <1>a, <1>b, <2>1
      DEF MeetNonExecutable, InLoop, MoreImage, image, EndOfSkip
    <2>4. QED
      BY <2>1, <2>2, <2>3 DEF EntriesInv
  <1>3. CASE SkipNonExecutable
    <2>1. /\ EntriesTellTheTruth' /\ SkipsAreMaximal' /\ PrintsWhatItDecoded'
          /\ LastKind' = LastKind /\ PrevOffset'
      BY <1>3, <1>d DEF SkipNonExecutable
    <2>2. SkippedBytes'
      BY <1>3, <1>a, <1>b
      DEF SkipNonExecutable, MoreNonExecutable, image, SkippedBytes
    <2>3. EndOfSkip'
      BY <1>3, <1>a, <1>b, <2>1 DEF SkipNonExecutable, image, EndOfSkip
    <2>4. QED
      BY <2>1, <2>2, <2>3 DEF EntriesInv
  <1>4. CASE EndNonExecutable
    <2> DEFINE e == Skip("nonexecutable", offset - skipped, skipped)
    <2>1. offset - skipped = Covered /\ skipped > 0 /\ offset - skipped \in Nat
      BY <1>4, <1>a, <1>c DEF EndNonExecutable, Skipping, Inv, SkipCount
    <2>2. /\ e \in Entries /\ e.from = Covered /\ e.size = skipped
          /\ e.kind = "nonexecutable"
      BY <1>a, <2>1, EntryTypes, EntryFields, EntryKinds
    <2>3. Bytes(e) = (offset - skipped)..(offset - 1)
      BY <1>a, <2>1, <2>2 DEF Bytes
    <2>4. Truth(e, Len(listing) + 1)
      <3>1. Bytes(e) \cap executable = {}
        BY <1>4, <1>b, <2>3 DEF EndNonExecutable, SkippedBytes
      <3>2. QED
        BY <1>a, <2>2, <3>1, EmptySeq, TruthOfKind
    <2>5. LastKind # "nonexecutable"
      BY <1>4, <1>b DEF EndNonExecutable, EndOfSkip
    <2>6. /\ EntriesTellTheTruth' /\ SkipsAreMaximal' /\ PrintsWhatItDecoded'
          /\ PrevOffset' /\ LastKind' = "nonexecutable"
      BY <1>4, <2>1, <2>2, <2>4, <2>5, SkipWritten DEF EndNonExecutable
    <2>7. SkippedBytes' /\ EndOfSkip'
      BY <1>4, <1>a, <2>6
      DEF EndNonExecutable, MoreNonExecutable, image, SkippedBytes, EndOfSkip
    <2>8. QED
      BY <2>6, <2>7 DEF EntriesInv
  <1>5. CASE DecodeExecutable
    <2>1. /\ EntriesTellTheTruth' /\ SkipsAreMaximal' /\ PrintsWhatItDecoded'
          /\ LastKind' = LastKind /\ PrevOffset'
      BY <1>5, <1>d DEF DecodeExecutable
    <2>2. SkippedBytes'
      BY <1>5, <1>a
      DEF DecodeExecutable, StartSkipping, image, SkippedBytes
    <2>3. EndOfSkip'
      BY <1>5, <1>a, <1>b, <2>1
      DEF DecodeExecutable, InLoop, MoreImage, image, EndOfSkip
    <2>4. QED
      BY <2>1, <2>2, <2>3 DEF EntriesInv
  <1>6. CASE SkipUnrecognized
    <2>1. /\ EntriesTellTheTruth' /\ SkipsAreMaximal' /\ PrintsWhatItDecoded'
          /\ LastKind' = LastKind /\ PrevOffset'
      BY <1>6, <1>d DEF SkipUnrecognized
    <2>2. offset + 1 < Size => offset + 1 \in Offset
      BY <1>a DEF Offset
    <2>3. SkippedBytes'
      <3>1. /\ offset' - skipped' = offset - skipped
            /\ \A b \in (offset - skipped)..(offset' - 1) : insn_at[b] = 0
        BY <1>6, <1>a, <1>b DEF SkipUnrecognized, SkippedBytes
      <3>2. /\ pc' \in {"unrecognized", "recognized"}
            /\ pc' = "unrecognized" => insn_at[offset'] = 0
            /\ pc' = "recognized" => offset' >= Size \/ insn_at[offset'] > 0
        BY <1>6, <1>a, <2>2 DEF SkipUnrecognized
      <3>3. executable' = executable /\ insn_at' = insn_at
        BY <1>6 DEF SkipUnrecognized, image
      <3>4. offset - skipped \in executable
        BY <1>6, <1>b DEF SkipUnrecognized, SkippedBytes
      <3>5. QED
        BY <3>1, <3>2, <3>3, <3>4 DEF SkippedBytes
    <2>4. EndOfSkip'
      BY <1>6, <1>a, <1>b, <2>1 DEF SkipUnrecognized, image, EndOfSkip
    <2>5. QED
      BY <2>1, <2>3, <2>4 DEF EntriesInv
  <1>7. CASE EndUnrecognized
    <2> DEFINE e == Skip("unrecognized", offset - skipped, skipped)
    <2>1. offset - skipped = Covered /\ skipped > 0 /\ offset - skipped \in Nat
      BY <1>7, <1>a, <1>c DEF EndUnrecognized, Skipping, Inv, SkipCount
    <2>2. /\ e \in Entries /\ e.from = Covered /\ e.size = skipped
          /\ e.kind = "unrecognized"
      BY <1>a, <2>1, EntryTypes, EntryFields, EntryKinds
    <2>3. Bytes(e) = (offset - skipped)..(offset - 1)
      BY <1>a, <2>1, <2>2 DEF Bytes
    <2>4. Truth(e, Len(listing) + 1)
      <3>1. e.from \in executable /\ \A b \in Bytes(e) : insn_at[b] = 0
        BY <1>7, <1>b, <2>1, <2>2, <2>3 DEF EndUnrecognized, SkippedBytes
      <3>2. QED
        BY <1>a, <2>2, <3>1, EmptySeq, TruthOfKind
    <2>5. LastKind # "unrecognized"
      BY <1>7, <1>b DEF EndUnrecognized, EndOfSkip
    <2>6. /\ EntriesTellTheTruth' /\ SkipsAreMaximal' /\ PrintsWhatItDecoded'
          /\ PrevOffset' /\ LastKind' = "unrecognized"
      BY <1>7, <2>1, <2>2, <2>4, <2>5, SkipWritten DEF EndUnrecognized
    <2>7. offset >= Size \/ insn_at[offset] > 0
      BY <1>7, <1>b DEF EndUnrecognized, SkippedBytes
    <2>8. SkippedBytes' /\ EndOfSkip'
      BY <1>7, <1>a, <2>6, <2>7
      DEF EndUnrecognized, image, SkippedBytes, EndOfSkip
    <2>9. QED
      BY <2>6, <2>8 DEF EntriesInv
  <1>8. CASE PrintInsn
    <2> DEFINE info == offset \in extended
               blank == prev_offset # offset \/ info
               e == Insn(offset, insn_len, blank, info, icode)
    <2>1. /\ offset \in Offset /\ offset \in executable /\ icode = offset
          /\ insn_len = insn_at[offset] /\ insn_len > 0 /\ insn_len \in Nat
          /\ offset + insn_len <= Size /\ offset = Covered
      BY <1>8, <1>a, <1>c
      DEF PrintInsn, Skipping, Inv, Decoded, Decodings, TypeOK
    <2>2. e \in Entries
      <3>1. blank \in BOOLEAN /\ info \in BOOLEAN
        OBVIOUS
      <3>2. icode \in Offset \cup {Nowhere}
        BY <2>1
      <3>3. QED
        BY <1>a, <2>1, <3>1, <3>2, EntryTypes
    <2>3. /\ e.from = offset /\ e.size = insn_len /\ e.kind = "insn"
          /\ e.shown = offset
      BY <2>1, EntryFields, EntryKinds
    <2>4. e.blank = (LastKind # "insn" \/ e.from \in extended)
      <3>1. prev_offset \in Int
        BY SizeAssumption DEF Inv, TypeOK, Nowhere
      <3>2. prev_offset # offset <=> LastKind # "insn"
        BY <1>a, <1>b, <2>1, <3>1 DEF PrevOffset
      <3>3. e.blank = blank /\ e.from = offset
        BY EntryFields, EntryKinds
      <3>4. e.blank = (LastKind # "insn" \/ offset \in extended)
        BY <3>2, <3>3
      <3>5. QED
        BY <3>3, <3>4
    <2>5. Truth(e, Len(listing) + 1)
      BY <1>a, <2>1, <2>2, <2>3, EmptySeq, TruthOfKind
    <2>6. Write(e) /\ UNCHANGED image
      BY <1>8 DEF PrintInsn
    <2>7. EntriesTellTheTruth' /\ SkipsAreMaximal'
      BY <1>a, <1>b, <2>2, <2>3, <2>5, <2>6, TrueEntry, OtherKind
    <2>8. PrintsWhatItDecoded'
      BY <1>a, <1>b, <2>2, <2>3, <2>4, <2>6, ShownEntry
    <2>9. LastKind' = "insn" /\ Covered' = offset + insn_len
      BY <1>a, <2>1, <2>2, <2>3, <2>6, WrittenEntry, AdjoiningEntry
    <2>10. PrevOffset'
      BY <1>8, <2>9 DEF PrintInsn, NextInsn, PrevOffset
    <2>11. SkippedBytes' /\ EndOfSkip'
      BY <1>8, <2>9 DEF PrintInsn, SkippedBytes, EndOfSkip
    <2>12. QED
      BY <2>7, <2>8, <2>10, <2>11 DEF EntriesInv
  <1>9. CASE Finish
    <2>1. /\ EntriesTellTheTruth' /\ SkipsAreMaximal' /\ PrintsWhatItDecoded'
          /\ LastKind' = LastKind /\ PrevOffset'
      BY <1>9, <1>d DEF Finish
    <2>2. SkippedBytes' /\ EndOfSkip'
      BY <1>9, <1>b, <2>1 DEF Finish, image, SkippedBytes, EndOfSkip
    <2>3. QED
      BY <2>1, <2>2 DEF EntriesInv
  <1>10. CASE Returned \/ UNCHANGED vars
    <2>1. /\ UNCHANGED listing /\ UNCHANGED image /\ UNCHANGED prev_offset
          /\ pc' = pc /\ offset' = offset /\ skipped' = skipped
      BY <1>10 DEF Returned, vars, image
    <2>2. /\ EntriesTellTheTruth' /\ SkipsAreMaximal' /\ PrintsWhatItDecoded'
          /\ LastKind' = LastKind /\ PrevOffset'
      BY <1>d, <2>1
    <2>3. SkippedBytes' /\ EndOfSkip'
      BY <1>b, <2>1, <2>2 DEF image, SkippedBytes, EndOfSkip
    <2>4. QED
      BY <2>2, <2>3 DEF EntriesInv
  <1>11. QED
    BY <1>1, <1>2, <1>3, <1>4, <1>5, <1>6, <1>7, <1>8, <1>9, <1>10
    DEF Next, Step

\* Nothing has been said, skipped or printed when disassemble begins.
LEMMA EntriesInit == Init => EntriesInv
  <1> SUFFICES ASSUME Init PROVE EntriesInv
    OBVIOUS
  <1>1. listing = <<>> /\ Len(listing) = 0 /\ pc = "loop" /\ prev_offset = -1
    BY EmptySeq DEF Init, Nowhere
  <1>2. EntriesTellTheTruth /\ SkipsAreMaximal /\ PrintsWhatItDecoded
    BY <1>1 DEF EntriesTellTheTruth, SkipsAreMaximal, PrintsWhatItDecoded
  <1>3. SkippedBytes /\ EndOfSkip /\ PrevOffset
    BY <1>1 DEF SkippedBytes, EndOfSkip, PrevOffset, LastKind, Covered
  <1>4. QED
    BY <1>2, <1>3 DEF EntriesInv

\* The invariant of the entries holds in every state.
LEMMA EntriesAlways == Spec => []EntriesInv
  <1>1. Init => Contiguous
    BY EmptySeq DEF Init, Contiguous, EntriesAdjoin, Covered, Skipping
  <1>2. QED
    BY <1>1, InvInit, InvStep, ContiguousStep, EntriesInit, EntriesStep, PTL
    DEF Spec

\* The reason each entry of a listing gives is true of all of its bytes: an
\* instruction begins at an executable byte, has the size the decoder
\* returned there and ends in the image, a non-executable skip has no
\* executable byte in it, an unrecognized one no byte where something decodes,
\* and the skip to the first section is the first entry.
THEOREM TruthAlways == Spec => []EntriesTellTheTruth
  <1>1. EntriesInv => EntriesTellTheTruth
    BY DEF EntriesInv
  <1>2. QED
    BY <1>1, EntriesAlways, PTL

\* A skip ends only where its reason ends, so no two skips of a kind follow
\* one another.
THEOREM MaximalAlways == Spec => []SkipsAreMaximal
  <1>1. EntriesInv => SkipsAreMaximal
    BY DEF EntriesInv
  <1>2. QED
    BY <1>1, EntriesAlways, PTL

\* The icode printed for an instruction is the one decoded at its offset, and
\* prev_offset tells the instructions that continue the line before them from
\* those that follow a skip.
THEOREM PrintedAlways == Spec => []PrintsWhatItDecoded
  <1>1. EntriesInv => PrintsWhatItDecoded
    BY DEF EntriesInv
  <1>2. QED
    BY <1>1, EntriesAlways, PTL

=============================================================================
