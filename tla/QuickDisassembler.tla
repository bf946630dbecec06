------------------------- MODULE QuickDisassembler -------------------------
(***************************************************************************)
(* The linear sweep of util/main/crudasm9.cpp,                             *)
(* quick_disassembler_t::disassemble, over an image whose metadata init()  *)
(* has filled in: which bytes are executable, which have extended          *)
(* information (an entrypoint, an exported symbol), and where the first    *)
(* section starts.                                                         *)
(*                                                                         *)
(* decode_insn is a function of the offset, since the image does not       *)
(* change: insn_at gives what it returns, 0 for bytes that do not decode,  *)
(* else a size that fits in the image (see SizeInBuffer of Ixdecoder).     *)
(* The listing has one entry for each instruction printed and for each     *)
(* "[Skipped ...]" line.                                                   *)
(***************************************************************************)
EXTENDS Integers, Sequences, FiniteSets

CONSTANTS
  Size,          \* metadata_size, the bytes in the image
  MaxLen,        \* the longest instruction
  MaxStart,      \* the largest start_offset considered
  MaxLabels      \* how many offsets have extended information, at most

ASSUME SizeAssumption == Size \in Nat \ {0}
ASSUME BoundsAssumption == MaxLen \in Nat /\ MaxStart \in Nat /\ MaxLabels \in Nat

VARIABLES
  raw,           \* a raw binary (raw_bits # 0), not a loaded image
  executable,    \* offsets whose metadata has bit 2
  extended,      \* offsets whose metadata has bit 4
  start_offset,
  insn_at,       \* what decode_insn returns at each offset
  offset, prev_offset, skipped, insn_len,
  icode,         \* the offset that icode and state were last decoded at
  pc,            \* where in the loop body the sweep is
  listing

image == <<raw, executable, extended, start_offset, insn_at>>
vars == <<raw, executable, extended, start_offset, insn_at, offset,
          prev_offset, skipped, insn_len, icode, pc, listing>>

Offset == 0..(Size - 1)
\* 0xffffffffffffffff, which no offset equals.
Nowhere == -1

\* What a decoder may return, for all offsets.
Decodings == {f \in [Offset -> 0..MaxLen] : \A o \in Offset : f[o] <= Size - o}

\* Metadata and offsets as init() leaves them.  The load description of an
\* image marks the executable ranges and the offsets with information; for a
\* raw binary init() clears all metadata and that is how it stays.
RawImage == executable = {} /\ extended = {} /\ start_offset = 0

LoadedImage ==
  /\ executable \in SUBSET Offset
  /\ extended \in {S \in SUBSET Offset : Cardinality(S) <= MaxLabels}
  /\ start_offset \in 0..MaxStart

Init ==
  /\ \/ raw = TRUE /\ RawImage
     \/ raw = FALSE /\ LoadedImage
  /\ insn_at \in Decodings
  /\ offset = 0 /\ prev_offset = Nowhere
  /\ skipped = 0 /\ insn_len = 0
  /\ icode = Nowhere
  /\ pc = "loop"
  /\ listing = <<>>

-----------------------------------------------------------------------------
(* Entries: the offset each begins at and the bytes it accounts for, an     *)
(* instruction with the blank line and the information printed before it   *)
(* and the offset whose decoding is printed.                               *)

Skip(kind, from, n) == [kind |-> kind, from |-> from, size |-> n,
                        blank |-> TRUE, info |-> FALSE, shown |-> Nowhere]

Insn(from, n, blank, info, shown) ==
  [kind |-> "insn", from |-> from, size |-> n,
   blank |-> blank, info |-> info, shown |-> shown]

Write(entry) == listing' = Append(listing, entry)

\* The loop goes on while there are bytes left.
MoreImage_short == offset + 1 < Size
MoreImage == offset < Size

InLoop == pc = "loop" /\ MoreImage

\* "[Skipped ... byte(s), to first section]"
SkipToStart ==
  /\ InLoop /\ offset < start_offset
  /\ Write(Skip("start", offset, start_offset))
  /\ offset' = start_offset
  /\ UNCHANGED <<image, prev_offset, skipped, insn_len, icode, pc>>

\* Each kind of skip counts its bytes from 0.
StartSkipping_add == UNCHANGED skipped
StartSkipping == skipped' = 0

MeetNonExecutable ==
  /\ InLoop /\ offset >= start_offset /\ offset \notin executable
  /\ StartSkipping
  /\ pc' = "nonexecutable"
  /\ UNCHANGED <<image, offset, prev_offset, insn_len, icode, listing>>

MoreNonExecutable_all == offset < Size
MoreNonExecutable_once == offset < Size /\ offset \notin executable /\ skipped = 0
MoreNonExecutable == offset < Size /\ offset \notin executable

SkipNonExecutable ==
  /\ pc = "nonexecutable" /\ MoreNonExecutable
  /\ skipped' = skipped + 1
  /\ offset' = offset + 1
  /\ UNCHANGED <<image, prev_offset, insn_len, icode, pc, listing>>

\* "[Skipped ... non-executable byte(s)]"
EndNonExecutable ==
  /\ pc = "nonexecutable" /\ ~MoreNonExecutable
  /\ Write(Skip("nonexecutable", offset - skipped, skipped))
  /\ pc' = "loop"
  /\ UNCHANGED <<image, offset, prev_offset, skipped, insn_len, icode>>

\* Decoding at o sets icode and state, whether it succeeds or not.
decode_insn_once(o) ==
  insn_len' = insn_at[o] /\ icode' = IF insn_len = 0 THEN o ELSE icode
decode_insn(o) == insn_len' = insn_at[o] /\ icode' = o

DecodeExecutable ==
  /\ InLoop /\ offset >= start_offset /\ offset \in executable
  /\ decode_insn(offset)
  /\ IF insn_at[offset] = 0 THEN StartSkipping /\ pc' = "unrecognized"
                            ELSE pc' = "print" /\ UNCHANGED skipped
  /\ UNCHANGED <<image, offset, prev_offset, listing>>

\* One turn of the do loop: the byte is skipped and the next one decoded,
\* whether it is executable or not; the last turn is the one that finds an
\* instruction or the end of the image.
SkipUnrecognized ==
  /\ pc = "unrecognized"
  /\ skipped' = skipped + 1
  /\ offset' = offset + 1
  /\ IF offset + 1 >= Size
     THEN pc' = "recognized" /\ UNCHANGED <<insn_len, icode>>
     ELSE /\ decode_insn(offset + 1)
          /\ pc' = IF insn_at[offset + 1] = 0 THEN "unrecognized"
                                              ELSE "recognized"
  /\ UNCHANGED <<image, prev_offset, listing>>

\* "[Skipped ... unrecognized or invalid opcode byte(s)]"
EndUnrecognized ==
  /\ pc = "recognized"
  /\ Write(Skip("unrecognized", offset - skipped, skipped))
  /\ pc' = "loop"
  /\ UNCHANGED <<image, offset, prev_offset, skipped, insn_len, icode>>

NextInsn == offset' = offset + insn_len /\ prev_offset' = offset'

\* A line for the instruction at offset, after a blank line unless it follows
\* the instruction printed before it and there is nothing to say about it.
PrintInsn ==
  /\ pc = "print"
  /\ LET info == offset \in extended
     IN  Write(Insn(offset, insn_len, prev_offset # offset \/ info, info, icode))
  /\ NextInsn
  /\ pc' = "loop"
  /\ UNCHANGED <<image, skipped, insn_len, icode>>

\* The imported symbols are listed and disassemble returns.
Finish ==
  /\ pc = "loop" /\ ~MoreImage
  /\ pc' = "done"
  /\ UNCHANGED <<image, offset, prev_offset, skipped, insn_len, icode, listing>>

Returned == pc = "done" /\ UNCHANGED vars

Step == \/ SkipToStart
        \/ MeetNonExecutable \/ SkipNonExecutable \/ EndNonExecutable
        \/ DecodeExecutable \/ SkipUnrecognized \/ EndUnrecognized
        \/ PrintInsn \/ Finish

Next == Step \/ Returned

\* disassemble is a call that runs until it returns.
Spec == Init /\ [][Next]_vars
FairSpec == Spec /\ WF_vars(Step)
=============================================================================
