---------------------- MODULE QuickDisassemblerProps -----------------------
(***************************************************************************)
(* What the listing written by the linear sweep says about the image.      *)
(***************************************************************************)
EXTENDS QuickDisassembler

Entries == [kind : {"start", "nonexecutable", "unrecognized", "insn"},
            from : Nat, size : Nat, blank : BOOLEAN, info : BOOLEAN,
            shown : Offset \cup {Nowhere}]

\* The types of the variables; offsets may pass the end of the image only
\* when the first section would start there.
TypeOK ==
  /\ raw \in BOOLEAN
  /\ executable \subseteq Offset /\ extended \subseteq Offset
  /\ start_offset \in Nat
  /\ insn_at \in Decodings
  /\ offset \in Nat /\ (offset > Size => offset = start_offset)
  /\ prev_offset \in 0..Size \cup {Nowhere}
  /\ skipped \in Nat /\ insn_len \in 0..MaxLen
  /\ icode \in Offset \cup {Nowhere}
  /\ pc \in {"loop", "nonexecutable", "unrecognized", "recognized", "print",
             "done"}
  /\ listing \in Seq(Entries)

\* Where the entries written so far end.
Covered == IF listing = <<>> THEN 0
           ELSE listing[Len(listing)].from + listing[Len(listing)].size

EntriesAdjoin ==
  /\ listing # <<>> => listing[1].from = 0
  /\ \A i \in 1..(Len(listing) - 1) :
       listing[i + 1].from = listing[i].from + listing[i].size
  /\ \A i \in 1..Len(listing) : listing[i].size > 0

Skipping == pc \in {"nonexecutable", "unrecognized", "recognized"}

\* Every byte is accounted for once and in order, by an entry or by the skip
\* count that is being built: the counts and sizes in the listing add up to
\* the address of each instruction.
Contiguous ==
  EntriesAdjoin /\ offset = Covered + (IF Skipping THEN skipped ELSE 0)

Bytes(e) == e.from..(e.from + e.size - 1)

\* The reason an entry gives is the truth about all of its bytes: an
\* instruction begins at an executable byte of a section and lies in the
\* image, non-executable bytes are not executable, no instruction could have
\* been printed for an unrecognized byte, and nothing before the first
\* section is disassembled.
EntriesTellTheTruth ==
  \A i \in 1..Len(listing) :
    LET e == listing[i] IN
    CASE e.kind = "insn" -> /\ e.from \in executable
                            /\ e.size = insn_at[e.from]
                            /\ e.from + e.size <= Size
      [] e.kind = "nonexecutable" -> Bytes(e) \cap executable = {}
      [] e.kind = "unrecognized" -> /\ e.from \in executable
                                    /\ \A b \in Bytes(e) : insn_at[b] = 0
      [] e.kind = "start" -> e.from = 0 /\ i = 1 /\ e.size = start_offset

\* A skipped stretch is reported by one line: the next entry of the listing
\* gives another reason.
SkipsAreMaximal ==
  \A i \in 1..(Len(listing) - 1) :
    listing[i].kind = listing[i + 1].kind => listing[i].kind = "insn"

\* The line printed for an instruction is made from the icode decoded at its
\* own offset, although the search for the end of unrecognized bytes decodes
\* ahead and leaves icode and state behind. There is a blank line above it
\* unless it continues the line before (prev_offset) and has no symbol.
PrintsWhatItDecoded ==
  \A i \in 1..Len(listing) : listing[i].kind = "insn" =>
    /\ listing[i].shown = listing[i].from
    /\ listing[i].blank = (\/ i = 1 \/ listing[i - 1].kind # "insn"
                           \/ listing[i].from \in extended)

\* The sweep returns, and has then gone through the whole image.
Terminates == <>(pc = "done" /\ offset >= Size)

\* A raw binary is a valid input (the usage message, crudasm9.cpp:915, offers
\* "dosprog.com dosprog.asm 16"), so one that starts with an instruction is
\* not listed without any.
RawBinaryListed ==
  (pc = "done" /\ raw /\ insn_at[0] > 0) =>
    \E i \in 1..Len(listing) : listing[i].kind = "insn"

\* The sweep implements the abstract listing.
ExtentOf(e) == [from |-> e.from, size |-> e.size]
Extents(s) == [i \in 1..Len(s) |-> ExtentOf(s[i])]
AbstractListing ==
  INSTANCE Listing WITH extents <- Extents(listing), finished <- pc = "done"

\* Every step of the sweep writes the next entry of a listing, ends it when
\* all bytes are accounted for, or leaves it alone.
ImplementsListing == AbstractListing!Spec
=============================================================================
