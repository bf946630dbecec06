--------------------------- MODULE IxdisasmProps ---------------------------
(***************************************************************************)
(* What the printed operands must say.  A comment (ixdisasm.c:284) gives   *)
(* the aim: "code that will reasonably be expected to reassemble".  So the *)
(* text is read as an assembler reads it, and compared with what the bytes *)
(* of the instruction mean.                                                *)
(***************************************************************************)
EXTENDS Ixdisasm, IxdecoderProps

ReadBack(number) == IF number.minus THEN Negate(number.digits) ELSE number.digits

Operands(types) == {i \in 1..4 : dest.args[i].type \in types}

\* Operands shown as an address in brackets.
Addressed == Operands({"mem_ea", "mem_ea_seg", "mem_address", "mem_fulldisp"})

-----------------------------------------------------------------------------
(* Numbers *)

\* The immediates, and the displacement, of a decoded instruction with the
\* offset at which each ends.
FirstImmEnd == IF state.imm2_offset # NoOffset THEN state.imm2_offset
                                               ELSE state.insn_size
DispEnd == IF state.imm1_offset # NoOffset THEN state.imm1_offset
                                           ELSE state.insn_size

SignedBytes(from, end) == SignExtend(BytesAt(from, end - from), end - from)

ImmMeaning(i, rel) ==
  LET type == dest.args[i].type
      v == CASE type = "imm_implict" -> Small(Encoding.args[i].value)
             [] type = "imm_2nd" -> SignedBytes(state.imm2_offset, state.insn_size)
             [] OTHER -> SignedBytes(state.imm1_offset, FirstImmEnd)
  IN  IF Relative THEN Add(rel, v) ELSE v

MemMeaning(rel) ==
  LET v == IF state.disp_offset = NoOffset THEN Zero
           ELSE SignedBytes(state.disp_offset, DispEnd)
  IN  IF dest.rip_relative THEN Add(rel, v) ELSE v

\* Two kinds of operands are not shown as they are meant: a short jump with
\* a 66 prefix in 64-bit mode, whose displacement is extended to 16 bits and
\* from there as if it had 32, and an address relative to EIP, which is shown
\* as relative ("rel") but without the address of the next instruction.
ShortJumpWith66 == Relative /\ dest.sx /\ dsz = 2 /\ dest.osz = 0
EipRelative     == dest.rip_relative /\ dest.asz = 1

\* Wherever the instruction is, the number printed for an immediate reads
\* back as the value its bytes have at the size of the operand, or as the
\* target of the jump; the displacement printed for a memory operand gives
\* the same address, and a displacement relative to RIP the address it
\* points to.  That holds for numbers with the sign bit set as well, whether
\* they are shown with a minus or not.
NumbersReadBack ==
  Succeeded => \A origin \in Origins :
    LET rel == After(origin)
    IN  /\ \A i \in Operands(ImmTypes) : ~ShortJumpWith66 =>
             Low(ReadBack(ImmNumber(i, rel)), dest.args[i].size)
               = Low(ImmMeaning(i, rel), dest.args[i].size)
        /\ \A i \in Addressed :
             ~EipRelative =>
               Low(ReadBack(MemNumber(i, rel)), SizeOf(dest.asz))
                 = Low(MemMeaning(rel), SizeOf(dest.asz))

\* The decoder's comment (ixdecoder.c:388-391) says how to get an immediate
\* of 64 bits from the icode: sign extend the 32 bits of imm "if
\* ixflag_imm64_sx32 is used".  That gives the value its bytes have.
Imm64SignExtends ==
  Succeeded =>
    \A i \in Operands({"imm_1st"}) :
      (dest.args[i].size = 8 /\ "imm64_sx32" \in Encoding.etags) =>
        SignExtend(Imm, 4) = SignedBytes(state.imm1_offset, FirstImmEnd)

-----------------------------------------------------------------------------
(* Names *)

RexByte == state.prefix_size > 0 /\ dsz = 2 /\ IsRex(ByteOf(state.prefix_size - 1))
RexBit(weight) == IF RexByte THEN 8 * ((ByteOf(state.prefix_size - 1) \div weight) % 2)
                             ELSE 0

\* The register the bytes of the instruction mean.
RegisterMeant(i) ==
  LET a == Encoding.args[i]
      explicit == a.value \in {DefaultValue, RegOrMem}
      base == "reg_base" \in Encoding.etags
      opcode == ByteOf(AfterOpcode - 1)
      modrm == ByteOf(state.modrm_offset)
      n == CASE ~explicit -> a.value
             [] explicit /\ base -> (opcode % 8) + RexBit(1)
             [] explicit /\ ~base /\ (a.value = RegOrMem \/ "reg_rm" \in Encoding.etags) ->
                  (modrm % 8) + RexBit(1)
             [] OTHER -> RegField(modrm) + RexBit(4)
  IN  IF explicit /\ a.size = 1 /\ n \in 4..7 /\ ~RexByte THEN n + 12 ELSE n

\* What tells the size of operand i: a keyword, or a register of a size that
\* the prototype makes the same; the mnemonic, if the prototype fixes it, and
\* for cmpxchg8b and cmpxchg16b.
TellsSize(i) ==
  \/ Encoding.proto[i] >= 0
  \/ Handler = "cmpxchgxb"
  \/ dest.args[i].type = "mem_address"
  \/ SizeKeyword(i) = dest.args[i].size /\ SizeKeyword(i) \in {1, 2, 4, 8, 10}
  \/ \E j \in Operands(RegTypes) : /\ Encoding.proto[j] = Encoding.proto[i]
                                   /\ dest.args[j].size = dest.args[i].size

AddressSizeRead(i) ==
  IF HasRegister /\ ~FullDisp(i) THEN SizeOf(dest.asz)
  ELSE IF AddressKeyword(i) # 0 THEN AddressKeyword(i) ELSE SizeOf(dsz)

\* The names in the text stand for what the instruction accesses: a byte
\* register is AH, CH, DH or BH exactly if there is no REX prefix; the size
\* of a memory operand can be told from its keyword or from a register next
\* to it, never only from an immediate; and the size of an address is named
\* where no register shows it and it is not the one of the mode.
NamesReadBack ==
  Succeeded =>
    /\ \A i \in Operands({"reg_gr"}) : RegisterName(i) = RegisterMeant(i)
    /\ \A i \in Addressed :
         TellsSize(i) /\ AddressSizeRead(i) = SizeOf(dest.asz)

-----------------------------------------------------------------------------
(* Words *)

FirstPrefix == FwaitAt + 1
LastPrefix == state.prefix_size - 1
Prefixed(S) == Named(FirstPrefix, LastPrefix, S) # {}

\* The operand size that the mode, or the instruction in that mode, has by
\* itself, and the one that the prefixes of the instruction mean.
OwnSize == CASE dsz < 2 -> dsz
             [] dsz = 2 /\ "is64" \in Encoding.etags -> 2
             [] OTHER -> 1
OperandSizeMeant ==
  CASE dsz < 2 -> IF Prefixed({OP66}) THEN 1 - dsz ELSE dsz
    [] dsz = 2 /\ RexBit(8) # 0 /\ "no_rex_w" \notin Encoding.etags -> 2
    [] OTHER -> IF Prefixed({OP66}) THEN 0 ELSE OwnSize

AddressSizeMeant ==
  IF Prefixed({OP67}) THEN IF dsz = 1 THEN 0 ELSE 1 ELSE dsz

\* The bytes of an operand of each size in the encoding table, for operand
\* sizes 0 to 2 (crudasm_intel_argsize_size_osz, and those that limit it).
SizeWith(size, osz) ==
  IF size >= 0 THEN size
  ELSE (<<<<2, 4, 8>>, <<0, 0, 0>>,
          IF dsz = 2 THEN <<8, 8, 8>> ELSE <<4, 4, 4>>,
          <<2, 4, 4>>, <<4, 4, 8>>, <<8, 8, 16>>, <<2, 2, 8>>,
          IF dsz = 2 THEN <<8, 8, 8>> ELSE <<2, 4, 8>>>>[-size])[osz + 1]

Sized == SizedBy(Encoding)

\* The bytes that the text of operand i names, 0 if it names none.
Told(i) ==
  IF i \notin PrintedOperands THEN 0
  ELSE CASE dest.args[i].type = "reg_gr"  -> dest.args[i].size
         [] dest.args[i].type \in ImmTypes -> ImmSizeWord(i)
         [] i \in Addressed -> SizeKeyword(i)
         [] OTHER -> 0

\* The operand sizes that agree with what is told of each operand.
Fitting(told) ==
  IF \A i \in Sized : told[i] = 0 THEN {OwnSize}
  ELSE {o \in 0..2 : \A i \in Sized :
          told[i] \in {0, SizeWith(Encoding.args[i].size, o)}}

\* The operand sizes that an assembler can take the text for: the one that a
\* prefix or the mnemonic names, or those that agree with every operand, or
\* else the instruction's own.
Readings ==
  CASE OperandSizeWord # NoSize -> {OperandSizeWord}
    [] OperandSizeName # NoSize -> {OperandSizeName}
    [] Handler \in WideInsns -> IF WideName THEN {2} ELSE {0, 1}
    [] Handler \in StringInsns ->
         {o \in 0..2 : SizeWith(Encoding.args[IF Handler = "outs" THEN 2 ELSE 1].size, o)
                         = SizeSuffix}
    [] SizeSuffix # 0 /\ Handler \notin StringInsns ->
         {o \in 0..2 : SizeOf(o) = SizeSuffix}
    [] OTHER -> Fitting([i \in Sized |-> Told(i)])

\* Two operand sizes are the same operation if they give the same operands;
\* it depends on the mnemonic if no operand depends on them.  A nop is the
\* same at every size.
SameOperation(o1, o2) ==
  \/ o1 = o2 \/ IsNop
  \/ Handler \in WideInsns /\ (o1 = 2) = (o2 = 2)
  \/ /\ Handler \notin WideInsns
     /\ \/ Sized # {}
        \/ Encoding.op66 # 0
        \/ Handler \in StringInsns \cup OneSize
     /\ \A i \in Sized : SizeWith(Encoding.args[i].size, o1)
                            = SizeWith(Encoding.args[i].size, o2)

\* The text does not have the operand size of a return, nor of a relative
\* jump outside 64-bit mode, except jcxz and its like, if it is not the own
\* size of the instruction.
SizeNotShown ==
  \/ Handler \in Returns
  \/ Relative /\ dsz # 2 /\ Handler # "jrcxz"

ReadAs(meant, readings) ==
  /\ readings # {}
  /\ (SizeNotShown /\ meant # OwnSize) \/ \A o \in readings : SameOperation(o, meant)

\* The segment that the text names, for an operand that has an address.
SegmentRead == IF Addressed \cap PrintedOperands # {} THEN AddressSegWord ELSE SegWord

\* The prefixes of an instruction can be told from the words in the text,
\* although each group of mnemonics has rules of its own for them: the
\* operand size from o16, o32 or o64, the mnemonic or the operands, whichever
\* is there; a repeat prefix of a string instruction, where F2 means the same
\* as F3 if the instruction does not compare; the segment of whatever reads
\* memory that can be in another one; LOCK and FWAIT.  An operand that is
\* left out is 10 for aad and aam, and nop exchanges a register with itself,
\* which 90 behind REX.B does not; short and byte mark the immediates of one
\* byte that are extended, but for jumps that have no others; and a far
\* pointer in memory is always called far by a jump or a call.  (The address size of a string
\* instruction, of xlat and of loop is not shown if it is not the mode's.)
WordsReadBack ==
  (Succeeded /\ attempt = 1) =>
    /\ ReadAs(OperandSizeMeant, Readings)
    /\ LET rep == LockRep(FirstPrefix, LastPrefix)
       IN  IF Handler \in {"cmps", "scas"}
           THEN (CASE RepWord = "repnz" -> 2 [] RepWord = "repz" -> 3 [] OTHER -> 0) = rep
           ELSE Handler \in StringInsns => (RepWord = "rep") = (rep \in {2, 3})
    /\ (Addressed # {} \/ Handler \in {"cmps", "lods", "movs", "outs", "xlat"}) =>
         SegmentRead = LastSeg(FirstPrefix, LastPrefix)
    /\ LockWord = Prefixed({LOCK})
    /\ FwaitWord = CASE "fwaitable" \notin Encoding.itags -> ""
                     [] "fwaitable" \in Encoding.itags /\ FwaitAt >= 0 -> "f"
                     [] OTHER -> "fn"
    /\ Handler = "jrcxz" => AddressSizeName = AddressSizeMeant
    /\ IsNop => RegisterMeant(1) = RegisterMeant(2)
    /\ (Handler = "aam" /\ PrintedOperands = {}) => ImmMeaning(1, Zero) = Small(10)
    /\ \A i \in Operands({"imm_1st"}) \cap PrintedOperands :
         (dest.args[i].size > 1 /\ FirstImmEnd - state.imm1_offset = 1)
           = (ImmFormWord \in {"short", "byte"} \/ Handler \in ShortJumps)
    /\ \A i \in Operands({"mem_ea_seg"}) :
         "ctrlxfer" \in Encoding.itags => PointerWord(i) = "far"
=============================================================================
