-------------------------- MODULE IxdecoderProps ---------------------------
(***************************************************************************)
(* What a call of crudasm_intel_decode promises to the linear sweep and to *)
(* the printer, stated over the states of Ixdecoder.  The references that  *)
(* results are compared with read the buffer directly, in one piece, and   *)
(* share no definition with the steps of the decoder.                      *)
(***************************************************************************)
EXTENDS Ixdecoder, FiniteSets

Returning == pc = "done"
Succeeded == Returning /\ status = ""

-----------------------------------------------------------------------------
(* Position in the buffer *)

Prefixes ==
  [lockrep : 0..3, op66 : BOOLEAN, op67 : BOOLEAN,
   rex_w : 0..1, rex_r : 0..1, rex_x : 0..1, rex_b : 0..1,
   sreg : 0..7, rex_used : BOOLEAN, wait_used : BOOLEAN]

Slices == [at : Nat, len : Nat]

Addresses ==
  [base : Nat, index : Nat, scale : 0..3, sreg : 0..7, disp8 : BOOLEAN]

Icodes ==
  [encoding : DOMAIN Encodings \cup {Invalid}, imm : Slices, disp : Slices,
   ea : Addresses,
   has_disp : BOOLEAN, lockrep : 0..3, osz : 0..2, asz : 0..2, sx : BOOLEAN,
   rip_relative : BOOLEAN, imm64 : BOOLEAN, fwait : 0..2, is_nop : BOOLEAN,
   rex_used : BOOLEAN, args : [1..4 -> Args]]

DecoderStates ==
  [rex_used : BOOLEAN, wait_used : BOOLEAN, insn_size : 0..31,
   has_modrm : BOOLEAN, modrm0 : Byte, opcode0 : 0..511,
   disp_offset : Nat, imm1_offset : Nat, imm2_offset : Nat,
   modrm_offset : Nat, prefix_size : Nat]

\* What do_decode and try_decode return; "none" while there is no result.
Messages ==
  {"none", "", "tried to decode a 0-byte buffer", "limit exceeded",
   "limit exceeded (zero-case)", "limit exceeded (2)", "limit exceeded (3)",
   "limit exceeded (4)", "limit exceeded (6)", "limit exceeded (7)",
   "limit exceeded (10)", "invalid opcode",
   "opcode is invalid in 64bit mode", "Unsupported argument encountered",
   "internal error", "imm64_sx32 missing",
   "invalid opcode: seg reg of 6 or 7 specified",
   "invalid opcode: lock used with nonlockable instruction",
   "instruction exceeds 15 bytes"}

\* The types of the variables.
TypeOK ==
  /\ dsz \in Modes /\ buf \in Seq(Byte)
  /\ pc \in {"prefix", "rex", "fwait", "try", "walk", "args", "judge", "done"}
  /\ fetcher \in [left : 0..MaxBytes, next : 0..MaxBytes]
  /\ fetcher_copy \in [left : 0..MaxBytes, next : 0..MaxBytes]
  /\ p \in Prefixes
  /\ got_fwait \in BOOLEAN
  /\ attempt \in {1, 2}
  /\ node \in DOMAIN Table
  /\ argi \in 1..5
  /\ dest \in Icodes
  /\ state \in DecoderStates
  /\ status \in Messages

\* bytes_left and next_offset always add up to the size of the buffer, also
\* after an attempt has been abandoned and the fetcher set back by a byte:
\* no byte outside the buffer is ever fetched.
FetcherInBuffer ==
  /\ fetcher.left + fetcher.next = num_bytes
  /\ fetcher_copy.left + fetcher_copy.next = num_bytes
  /\ fetcher.next \in 0..num_bytes /\ fetcher_copy.next \in 0..num_bytes

\* A decoded instruction has at least one byte, lies inside the buffer, and
\* is no longer than an instruction can be; only one that contains an FWAIT,
\* or is one after ignored prefixes, escapes that limit.  The linear sweep
\* advances by this size.
SizeInBuffer ==
  Succeeded => /\ state.insn_size \in 1..num_bytes
               /\ got_fwait \/ state.insn_size <= MaxInsn

-----------------------------------------------------------------------------
(* Prefixes *)

\* The bytes at offsets first..last of the buffer.
Offsets(first, last) == {i \in 0..(num_bytes - 1) : first <= i /\ i <= last}
ByteOf(i) == buf[i + 1]

\* Offset of the FWAIT that counts as a prefix, -1 if there is none.
FwaitAt ==
  LET skippable(i) == IsPrefix(ByteOf(i))
                      \/ (dsz = 2 /\ IsRex(ByteOf(i)) /\ ByteOf(i + 1) = FWAIT)
      found == {i \in Offsets(0, num_bytes) :
                  ByteOf(i) = FWAIT /\ \A j \in Offsets(0, i - 1) : skippable(j)}
  IN  IF found = {} THEN -1 ELSE CHOOSE i \in found : \A j \in found : i <= j

\* Offsets of the prefixes that count for an instruction that starts at offset
\* first and has its opcode at offset last + 1.
Legacy(first, last) ==
  {i \in Offsets(first, last) : \A j \in Offsets(first, i) : IsPrefix(ByteOf(j))}
Named(first, last, S) == {i \in Legacy(first, last) : ByteOf(i) \in S}

LastSeg(first, last) ==
  LET segs == Named(first, last, {38, 46, 54, 62, 100, 101})
      c == ByteOf(CHOOSE i \in segs : \A j \in segs : j <= i)
  IN  IF segs = {} THEN NoSeg
      ELSE CHOOSE s \in 0..5 : <<38, 46, 54, 62, 100, 101>>[s + 1] = c

LockRep(first, last) ==
  LET reps == Named(first, last, {242, 243})
      c == ByteOf(CHOOSE i \in reps : \A j \in reps : i <= j)
  IN  CASE Named(first, last, {LOCK}) # {} -> 1
        [] Named(first, last, {LOCK}) = {} /\ reps # {} -> c - 240
        [] OTHER -> 0

\* The prefixes of a decoded instruction are those between the FWAIT, if one
\* is used, and the opcode: the last segment prefix wins, LOCK wins over REP
\* and REPNE and the first of these over the second, and a REX prefix counts
\* only in 64-bit mode as the last byte before the opcode.
PrefixMeaning ==
  (Succeeded /\ attempt = 1) =>
    LET first == FwaitAt + 1
        last == state.prefix_size - 1
        rexed == dsz = 2 /\ last > FwaitAt /\ IsRex(ByteOf(last))
    IN  /\ p.op66 = (Named(first, last, {OP66}) # {})
        /\ p.op67 = (Named(first, last, {OP67}) # {})
        /\ p.sreg = LastSeg(first, last)
        /\ dest.lockrep = LockRep(first, last)
        /\ p.rex_used = rexed
        /\ rexed => ByteOf(last) = 64 + 8 * p.rex_w + 4 * p.rex_r
                                      + 2 * p.rex_x + p.rex_b

\* LOCK survives only on an instruction that may be locked and whose first
\* operand turned out to be in memory; what the printer shows as "lock" is
\* that prefix.
LockOnMemory ==
  (Succeeded /\ dest.lockrep = 1) =>
    /\ "lockable" \in Encodings[dest.encoding].itags
         \/ "lock_always" \in Encodings[dest.encoding].itags
    /\ state.has_modrm /\ state.modrm0 < 192
    /\ attempt = 1

-----------------------------------------------------------------------------
(* FWAIT *)

\* An FWAIT among the prefixes is either part of an instruction that takes
\* one, and then the instruction starts with the skipped prefixes and the
\* FWAIT, or it is decoded as the instruction "wait", which then ends where
\* the FWAIT ends and has no operand that could show what the abandoned
\* attempt left behind.
FwaitMeaning ==
  Succeeded =>
    /\ (dest.fwait = 2) = (got_fwait /\ attempt = 1)
    /\ (dest.fwait = 2) => "fwaitable" \in Encodings[dest.encoding].itags
    /\ attempt = 2 => /\ state.insn_size = FwaitAt + 1
                      /\ state.prefix_size = FwaitAt
                      /\ \A i \in 1..4 : dest.args[i].type = "void"
                      /\ dest.lockrep = 0

-----------------------------------------------------------------------------
(* Results *)

\* Reference for the registers of a 16-bit address, one row for each rm.
Forms16 == <<{3, 6}, {3, 7}, {5, 6}, {5, 7}, {6}, {7}, {5}, {3}>>

\* The opcode of a decoded instruction that has a memory operand is followed
\* by its ModRM byte; the registers and the displacement of the operand are
\* those the architecture's addressing tables give for the bytes there, and
\* the immediate or the end of the instruction comes right after them.
EffectiveAddress ==
  (Succeeded /\ state.has_modrm /\ state.modrm0 < 192) =>
    LET m    == state.modrm_offset
        mod  == ByteOf(m) \div 64
        rm   == ByteOf(m) % 8
        sib  == ByteOf(m + 1)
        regs == {dest.ea.base, dest.ea.index} \ {NoReg}
        len  == dest.disp.len
        hasSib == dest.asz # 0 /\ rm = 4
        after  == m + (IF hasSib THEN 2 ELSE 1) + len
        b    == (IF rm = 4 THEN sib % 8 ELSE rm) + 8 * p.rex_b
        x    == ((sib \div 8) % 8) + 8 * p.rex_x
        bare == mod = 0 /\ b % 8 = 5
    IN  /\ after = IF state.imm1_offset # NoOffset THEN state.imm1_offset
                   ELSE state.insn_size
        /\ IF dest.asz = 0
           THEN /\ regs = (IF mod = 0 /\ rm = 6 THEN {} ELSE Forms16[rm + 1])
                /\ len = (IF mod = 0 THEN IF rm = 6 THEN 2 ELSE 0 ELSE mod)
           ELSE /\ dest.ea.base = IF bare THEN NoReg ELSE b
                /\ dest.ea.index = IF rm = 4 /\ x # 4 THEN x ELSE NoReg
                /\ len = CASE mod = 1 -> 1
                           [] mod = 2 \/ bare -> 4
                           [] OTHER -> 0
                /\ dest.rip_relative = (dsz = 2 /\ bare /\ rm = 5)

Extent(s) == s.at..(s.at + s.len - 1)

\* The slices of the buffer that the operands of the instruction come from.
OperandSlices == {s \in {dest.disp, dest.imm} : s.len > 0}

\* Offsets of the ModRM byte and of the SIB byte that may follow it.
AddressBytes ==
  LET m == state.modrm_offset
      sib == dest.asz # 0 /\ state.modrm0 < 192 /\ state.modrm0 % 8 = 4
  IN  IF state.has_modrm THEN {m} \cup (IF sib THEN {m + 1} ELSE {}) ELSE {}

\* Offset of the first byte after the opcode.
AfterOpcode ==
  LET first == state.prefix_size
  IN  first + CASE ByteOf(first) # 15 -> 1
                [] ByteOf(first) = 15 /\ ByteOf(first + 1) # 56 -> 2
                [] OTHER -> 3

\* The printer takes an operand's displacement and immediate from two fields
\* that the operands share.  Their bytes, with those of the address form,
\* fill the instruction from its opcode to its end without overlapping: no
\* byte is skipped, read twice, or lost because a later operand overwrote
\* the field of an earlier one.
OperandBytes ==
  (Succeeded /\ attempt = 1) =>
    /\ (UNION {Extent(s) : s \in OperandSlices}) \cup AddressBytes
         = AfterOpcode..(state.insn_size - 1)
    /\ \A s \in OperandSlices : Extent(s) \cap AddressBytes = {}
    /\ Cardinality(OperandSlices) = 2 =>
         Extent(dest.disp) \cap Extent(dest.imm) = {}
    /\ state.disp_offset # NoOffset => dest.disp.at = state.disp_offset
    /\ state.imm1_offset # NoOffset => dest.imm.at = state.imm1_offset
    /\ state.imm2_offset # NoOffset => dest.disp.at = state.imm2_offset

\* A call returns.
Terminates == <>Returning
=============================================================================
