------------------------------ MODULE Ixdisasm ------------------------------
(***************************************************************************)
(* The operands that x86core/ixdisasm.c prints for an icode which a call   *)
(* of crudasm_intel_decode has left in dest: the names of registers, the   *)
(* keywords that give sizes of memory operands and of addresses, and the   *)
(* numbers; and the other words of the line.  Punctuation is left out.     *)
(*                                                                         *)
(* A U8 is eight bytes, the lowest first; a conversion to a shorter type   *)
(* keeps the low bytes.  A number in the text is a sign and its digits.    *)
(* Encodings also give the sizes in the prototype of the instruction       *)
(* (proto, insn->argSizes; equal negative sizes are one parameter) and     *)
(* op66, 0 unless the opcode demands a 66, or that there is none.          *)
(***************************************************************************)
EXTENDS Ixdecoder

CONSTANTS
  Origins,            \* addresses that the first byte of the buffer may have
  HandlerOf(_)        \* the function that prints an encoding, or "none"

\* The operands of an encoding come first.  An immediate has no more than eight
\* bytes, and a second one comes behind the first; a byte is extended only if it
\* is an immediate of the instruction's own; the target of a jump is an immediate
\* of the size of an address in 64-bit mode, extended if it is shorter; and what
\* may have its high half in the other field has no ModRM byte.
ASSUME NumbersAssumption ==
  \A e \in {Encodings[x] : x \in DOMAIN Encodings} :
    /\ \A i, j \in 1..4 : i < j =>
         /\ e.args[i].type = "void" => e.args[j].type = "void"
         /\ e.args[i].type = "imm_2nd" => e.args[j].type \notin {"imm_1st", "imm_both"}
    /\ \A i \in 1..4 : e.args[i].type \in ImmTypes =>
         /\ e.args[i].size <= 8 /\ e.args[i].size # -6
         /\ "sx_byte" \in e.etags => e.args[i].type \in {"imm_1st", "imm_both"}
         /\ "relative" \in e.etags => /\ e.args[i].type = "imm_1st"
                                       /\ e.args[i].size = -8
                                       /\ "imm64_sx32" \in e.etags
    /\ "imm64_disp" \in e.etags => ~e.regop /\ "relative" \notin e.etags
    /\ \A i \in 1..4 : e.args[i].type = "mem_fulldisp" => Wide(e)

\* A general register is named by its number, or found in the opcode, which then
\* has one or two bytes and no ModRM byte behind it, or in ModRM.  Where the
\* prototype leaves the size of an operand open, what else it makes as large is
\* a register of that size or an immediate; if nothing is, there is a keyword
\* for the size.
Keywords == {1, 2, 4, 8, 10} \cup {-1, -2, -3, -4, -5, -7, -8}
Alike(e, i, j) == /\ j # i /\ e.proto[j] = e.proto[i]
                  /\ e.args[j].type \notin ImmTypes
MayBeAddress(a) == a.type \in {"mem_ea", "mem_ea_seg", "mem_fulldisp"} \/ a.value = RegOrMem

ASSUME NamesAssumption ==
  /\ \A c \in Byte :
       LET leaf == Table[Table[Three].kids[c]]
       IN  (leaf.type = 0 /\ leaf.encoding # Invalid) =>
             "reg_base" \notin Encodings[leaf.encoding].etags
  /\ \A x \in DOMAIN Encodings :
       LET e == Encodings[x]
       IN  /\ "reg_base" \in e.etags => ~e.regop
           /\ \A i \in 1..4 : e.args[i].type = "reg_gr" =>
                /\ e.args[i].value \in 0..15 \cup {DefaultValue, RegOrMem}
                /\ e.args[i].value \in {DefaultValue, RegOrMem} =>
                     "reg_base" \in e.etags \/ e.regop
           /\ e.proto \in [1..4 -> Int]
           /\ \A i \in 1..4 :
                (MayBeAddress(e.args[i]) /\ e.proto[i] < 0 /\ HandlerOf(x) # "cmpxchgxb") =>
                  /\ HandlerOf(x) \notin {"in", "out"}
                  /\ \A j \in 1..4 : Alike(e, i, j) =>
                       /\ e.args[j].type \in RegTypes /\ e.args[j].value # RegOrMem
                       /\ e.args[j].size = e.args[i].size
                  /\ (\A j \in 1..4 : ~Alike(e, i, j)) => e.args[i].size \in Keywords

\* An address has eight bytes.
ASSUME OriginsAssumption == Origins \subseteq [0..7 -> Byte]

Zero     == [k \in 0..7 |-> 0]
Small(n) == [Zero EXCEPT ![0] = n]
Low(v, n) == [k \in 0..7 |-> IF k < n THEN v[k] ELSE 0]
SignExtend(v, n) ==
  [k \in 0..7 |-> IF k < n THEN v[k] ELSE 255 * (v[n - 1] \div 128)]
Join(low, high) == [k \in 0..7 |-> IF k < 4 THEN low[k] ELSE high[k - 4]]

Add(a, b) ==
  LET carry[k \in 0..7] ==
        IF k = 0 THEN 0 ELSE (a[k - 1] + b[k - 1] + carry[k - 1]) \div 256
  IN  [k \in 0..7 |-> (a[k] + b[k] + carry[k]) % 256]

Negate(v) == Add([k \in 0..7 |-> 255 - v[k]], Small(1))

\* v < 0x80000000
Below2G(v) == v[3] < 128 /\ \A k \in 4..7 : v[k] = 0

\* The argument rel of crudasm_intel_disasm.
After(origin) == Add(origin, Small(state.insn_size))

-----------------------------------------------------------------------------
(* The U4 fields imm and disp of the icode *)

BytesAt(at, n) == [k \in 0..7 |-> IF k < n THEN buf[at + k + 1] ELSE 0]
SliceBytes(s)  == BytesAt(s.at, s.len)

\* A byte is extended to 16 bits if the address size, or the operand size,
\* is 16 bits, else to 32.
FromByte(v, sz) == Low(SignExtend(v, 1), IF sz = 0 THEN 2 ELSE 4)

Disp == IF dest.ea.disp8 THEN FromByte(SliceBytes(dest.disp), dest.asz)
                         ELSE SliceBytes(dest.disp)
Imm  == IF dest.sx THEN FromByte(SliceBytes(dest.imm), dest.osz)
                   ELSE SliceBytes(dest.imm)

-----------------------------------------------------------------------------
(* Numbers *)

Plain(v, n) == [minus |-> FALSE, digits |-> Low(v, n)]
Minus(v, n) == [minus |-> TRUE, digits |-> Low(Negate(v), n)]

ImmValue(i) ==
  LET a == dest.args[i]
      etags == Encoding.etags
      wide == a.type \notin {"imm_implict", "imm_2nd"} /\ a.size = 8
  IN  CASE a.type = "imm_implict" -> Small(a.value)
        [] a.type = "imm_2nd" -> Disp
        [] wide /\ "imm64_disp" \in etags -> Join(Imm, Disp)
        [] wide /\ "imm64_disp" \notin etags /\ "imm64_sx32" \in etags ->
             SignExtend(Imm, 4)
        [] OTHER -> Imm

Relative == "relative" \in Encoding.etags

\* The target of a jump, cut to 16 or 32 bits except in 64-bit mode.
Target(i, rel) ==
  LET t == Add(ImmValue(i), rel)
  IN  CASE dsz = 2 -> t
        [] dsz # 2 /\ dest.osz = 0 -> Low(t, 2)
        [] OTHER -> Low(t, 4)

ImmNumber(i, rel) ==
  LET v == ImmValue(i)
      size == dest.args[i].size
  IN  CASE Relative -> Plain(Target(i, rel), size)
        [] ~Relative /\ dest.sx ->
             IF v[0] < 128 THEN Plain(v, 1) ELSE Minus(v, 1)
        [] ~Relative /\ ~dest.sx /\ size = 8 /\ "imm64_disp" \notin Encoding.etags ->
             IF Below2G(v) THEN Plain(v, 4) ELSE Minus(v, 4)
        [] OTHER -> Plain(v, size)

FullDisp(i) == dest.args[i].type = "mem_fulldisp"
HasRegister == dest.ea.base # NoReg \/ dest.ea.index # NoReg

\* An offset of 64 bits has its high half in imm.
DispValue == IF "imm64_disp" \in Encoding.etags /\ dest.asz = 2
             THEN Join(Disp, Imm) ELSE Disp

\* newval: the displacement is added to rel, or subtracted if negative.
RipTarget_unsigned(v, rel) == Add(rel, v)
RipTarget(v, rel) ==
  IF Below2G(v) THEN Add(rel, v) ELSE Add(rel, Negate(Minus(v, 4).digits))

WideNumber(i, rel) ==
  LET v == DispValue
  IN  CASE dest.asz < 2 -> Plain(v, SizeOf(dest.asz))
        [] dest.asz = 2 /\ FullDisp(i) -> Plain(v, 8)
        [] dest.asz = 2 /\ ~FullDisp(i) /\ dest.rip_relative ->
             Plain(RipTarget(v, rel), 8)
        [] OTHER -> IF Below2G(v) THEN Plain(v, 4) ELSE Minus(v, 4)

\* The displacement of a memory operand; nothing, which reads as 0, if there
\* is none, or if it is 0 and a register is shown.
MemNumber(i, rel) ==
  CASE ~FullDisp(i) /\ dest.ea.disp8 ->
         IF Disp[0] < 128 THEN Plain(Disp, 4) ELSE Minus(Disp, 1)
    [] ~FullDisp(i) /\ ~dest.ea.disp8
         /\ (~dest.has_disp \/ (DispValue = Zero /\ HasRegister)) -> Plain(Zero, 1)
    [] OTHER -> WideNumber(i, rel)

-----------------------------------------------------------------------------
(* Registers and keywords *)

\* The register a general operand names: its number in the array of its
\* size, which for bytes has AH to BH from 16 on; NoReg for "<bad-reg-arg>".
ExplicitRegister_default_only(i) == Encoding.args[i].value = DefaultValue
ExplicitRegister(i) == Encoding.args[i].value \in {DefaultValue, RegOrMem}

ByteRegister(i) ==
  LET n == dest.args[i].value
      in8x86 == ExplicitRegister(i) /\ ~dest.rex_used
      last == CASE in8x86 -> 7 [] ~in8x86 /\ ExplicitRegister(i) -> 15 [] OTHER -> 19
  IN  CASE n > last -> NoReg
        [] n <= last /\ in8x86 /\ n >= 4 -> n + 12
        [] OTHER -> n

RegisterName(i) ==
  LET n == dest.args[i].value
  IN  CASE dest.args[i].size = 1 -> ByteRegister(i)
        [] dest.args[i].size # 1 /\ n <= 15 -> n
        [] OTHER -> NoReg

\* The text of another operand may give the size as well; immediates do not
\* count.
Sizes(i, j) == /\ j # i /\ dest.args[j].size > 0
               /\ Encoding.proto[j] = Encoding.proto[i]
               /\ dest.args[j].type \notin ImmTypes

\* The parameters xoverride and need_size: some handlers always or never want
\* the size.
Handler == HandlerOf(dest.encoding)
NeedSize(i) ==
  \/ Handler \in {"divb", "idivb", "imulb", "mulb"}
  \/ /\ Handler \notin {"cmpxchgxb", "in", "out"}
     /\ Encoding.proto[i] < 0 /\ ~\E j \in 1..4 : Sizes(i, j)

\* The size named in front of a memory operand, 0 for none.
SizeKeyword(i) ==
  IF NeedSize(i) /\ dest.args[i].type # "mem_address" THEN dest.args[i].size ELSE 0

\* The size named inside the brackets, 0 for none.
AddressKeyword(i) ==
  CASE FullDisp(i) /\ dest.asz = 2 /\ "imm64_disp" \in Encoding.etags -> 8
    [] dest.asz # dsz /\ (FullDisp(i) \/ ~HasRegister) -> SizeOf(dest.asz)
    [] OTHER -> 0

-----------------------------------------------------------------------------
(* The words besides the operands: the prefixes lock, rep and o16, a segment *)
(* in front of the mnemonic, the part of the mnemonic that depends on the    *)
(* icode, and the words in front of an operand.  Most mnemonics have the     *)
(* default rules; the others have a function in x86core/intel_disasm_nasm.h  *)
(* that says which rules apply (Handler), and are grouped here by these.     *)

NoSize == 3     \* in place of an operand or address size of 0, 1 or 2

StringInsns == {"cmps", "ins", "lods", "movs", "outs", "scas", "stos"}
StackInsns  == {"pop", "popsr", "push", "pushsr"}
WideInsns   == {"cmpxchgxb", "fxrstor", "fxsave"}
ShortJumps  == {"jrcxz", "loop", "loopnz", "loopz"}
Suffixed    == {"iret", "popa", "popf", "pusha", "pushf"}
Extending   == {"sxacc", "sxdax"}

\* Operands that the mnemonic implies are not printed, or only the first is.
NoOperands == StringInsns \cup Suffixed \cup Extending \cup
                {"xlat", "int3", "ret", "retf", "uint1", "usalc"}
OneOperand == ShortJumps \cup {"cmpxchgxb", "divb", "idivb", "imulb", "mulb"}

\* A size of an operand that depends on the operand size of the instruction.
osz_sensitive(size) == size < 0 /\ size # -2
SizedBy(e) == {i \in 1..4 : osz_sensitive(e.args[i].size)}

-----------------------------------------------------------------------------
(* What the generated tables hold that the words rely on.                    *)

\* What may be shown as an address is printed; "rep" is written only for what
\* cannot be locked; the operand of aam and aad is one byte, that of a short
\* jump is extended from one; and a far pointer in memory has a keyword.
ASSUME ShownAssumption ==
  \A x \in DOMAIN Encodings :
    LET e == Encodings[x]
        h == HandlerOf(x)
    IN  /\ \A i \in 1..4 : (MayBeAddress(e.args[i]) \/ e.args[i].type = "mem_address") =>
             h \notin NoOperands \cup {"aad", "aam"} /\ (h \in OneOperand => i = 1)
        /\ h \in {"cmps", "scas"} => ~Lockable(e)
        /\ h \in {"aad", "aam"} => /\ e.args[1].type = "imm_1st" /\ e.args[1].size = 1
                                  /\ {"sx_byte", "relative"} \cap e.etags = {}
        /\ h \in ShortJumps => {"sx_byte", "relative"} \subseteq e.etags
        /\ \A i \in 1..4 : (e.args[i].type = "mem_ea_seg" /\ "ctrlxfer" \in e.itags) =>
             /\ h \notin {"cmpxchgxb", "in", "out"} /\ e.args[i].size = -8
             /\ e.proto[i] < 0 /\ \A j \in 1..4 : e.proto[j] = e.proto[i] => j = i

\* Mnemonics that show no operand size where no operand has one.
OneSize == {"aad", "aam", "cmpxchg", "divb", "fmul1", "fmul2", "fxch", "idivb",
            "imulb", "in", "int3", "movsd2", "movsrv", "mulb", "out", "sal",
            "test", "uint1", "usalc", "xchg"}
Returns == {"ret", "retf", "retfnum", "retnum"}
SizedByName == StringInsns \cup WideInsns \cup Suffixed \cup Extending

\* An operand that shows the operand size as a register, or as memory that has
\* a keyword or is as large as a general register; an operand that has only
\* one size, or one that the decoder does not know; an immediate that is shown
\* with its size, or as large as a general register.
ShowsSize(e, h, i) ==
  LET a == e.args[i]
  IN  \/ a.type = "reg_gr" /\ a.value # RegOrMem
      \/ /\ MayBeAddress(a) /\ e.proto[i] < 0
         /\ a.type \in RegTypes => a.type = "reg_gr"
         /\ \A j \in 1..4 : Alike(e, i, j) => e.args[j].type = "reg_gr"
      \/ a.type \notin ImmTypes /\ a.size = -3
      \/ a.size < -8
      \/ a.type \in ImmTypes /\ a.size = -1 /\ h \in {"callfd", "jmpfd"}
      \/ /\ a.type \in ImmTypes /\ h \notin {"callfd", "jmpfd"}
         /\ \/ \E j \in 1..4 : /\ Alike(e, i, j)
                               /\ e.args[j].type = "reg_gr" /\ e.args[j].size = -1
            \/ /\ a.size = -1 /\ "sx_byte" \notin e.etags
               /\ h \notin {"cmpxchgxb", "in", "out"}
               /\ e.proto[i] < 0 /\ \A j \in 1..4 : ~Alike(e, i, j)

\* The operand size can be told from the mnemonic, from a prefix that is shown,
\* from an operand, or there is only one.
ASSUME SizedAssumption ==
  \A x \in DOMAIN Encodings :
    LET e == Encodings[x]
        h == HandlerOf(x)
        sized == SizedBy(e)
        main  == e.args[IF h = "outs" THEN 2 ELSE 1]
    IN  /\ "is64" \in e.etags => "no_rex_w" \notin e.etags
        /\ \A i \in 1..4 : e.args[i].type = "void" => e.args[i].size >= 0
        /\ h \in StringInsns => /\ main.type # "void" /\ main.size # -2
                                /\ \A i \in sized : e.args[i].size = main.size
        /\ h \in StackInsns =>
             /\ {"is64", "no64"} \cap e.etags # {} /\ sized \subseteq {1}
             /\ e.args[1].type \in ImmTypes => e.args[1].size \in {-1, -8}
        /\ h = "xlat" => "is64" \notin e.etags /\ sized = {}
        /\ "relative" \in e.etags => /\ sized = {1} /\ e.args[1].type \in ImmTypes
                                     /\ h \notin {"callfd", "jmpfd"}
        /\ sized = {} => \/ e.op66 # 0 \/ h = "none"
                         \/ h \in StackInsns \cup {"xlat"} \cup SizedByName \cup OneSize \cup Returns
        /\ (/\ sized # {} /\ "relative" \notin e.etags
            /\ h \notin StackInsns \cup SizedByName) =>
             /\ h \notin NoOperands \cup OneOperand \cup {"aad", "aam"}
             /\ \A i \in sized : ShowsSize(e, h, i)

\* 90 is an xchg of the accumulator with a register of the operand size.
NopLeaf == Table[Table[Root].kids[NOP]]
ASSUME NopAssumption ==
  /\ NopLeaf.type = 0 /\ NopLeaf.encoding # Invalid
  /\ LET e == Encodings[NopLeaf.encoding]
     IN  /\ e.args[1].type = "reg_gr" /\ e.args[1].value = 0
         /\ e.args[2].type = "reg_gr" /\ e.args[2].size # 1
         /\ \A i \in 1..4 : ~MayBeAddress(e.args[i]) /\ e.args[i].type # "mem_address"

-----------------------------------------------------------------------------
(* Prefixes *)

LockWord  == dest.lockrep = 1
FwaitWord == <<"", "fn", "f">>[dest.fwait + 1]

RepWord ==
  CASE Handler \in {"cmps", "scas"} /\ dest.lockrep = 2 -> "repnz"
    [] Handler \in {"cmps", "scas"} /\ dest.lockrep = 3 -> "repz"
    [] Handler \in {"ins", "lods", "movs", "outs", "stos"}
         /\ dest.lockrep \in {2, 3} -> "rep"
    [] OTHER -> ""

NamedSegment == IF dest.ea.sreg <= 5 THEN dest.ea.sreg ELSE NoSeg

\* The segment in front of the mnemonic, and the one inside the brackets.
SegWord == IF Handler \in {"cmps", "lods", "movs", "outs", "xlat"}
           THEN NamedSegment ELSE NoSeg
AddressSegWord == NamedSegment

\* o16, o32, o64 as 0, 1, 2.  The default rule is to leave it to an operand
\* whose size tells it, and to an opcode that contains a 66.
maybe_write_oxx_one_rule ==
  IF /\ dest.osz # dsz
     /\ \A i \in 1..4 : ~osz_sensitive(Encoding.args[i].size)
     /\ Encoding.op66 = 0
  THEN dest.osz ELSE NoSize
maybe_write_oxx ==
  IF /\ dest.osz # (IF dsz = 2 THEN 1 ELSE dsz)
     /\ \A i \in 1..4 : ~osz_sensitive(Encoding.args[i].size)
     /\ Encoding.op66 = 0
  THEN dest.osz ELSE NoSize

write_stack_oxx ==
  IF dest.osz # dsz /\ (dsz = 2 => dest.osz = 0) THEN dest.osz ELSE NoSize
write_xlat_oxx ==
  IF dest.osz # (IF dsz = 2 THEN 1 ELSE dsz) THEN dest.osz ELSE NoSize
write_jrcxz_oxx ==
  IF dsz # 2 /\ dest.osz # dsz THEN dest.osz ELSE NoSize

OperandSizeWord ==
  CASE Handler = "none" -> maybe_write_oxx
    [] Handler \in StackInsns -> write_stack_oxx
    [] Handler = "xlat"  -> write_xlat_oxx
    [] Handler = "jrcxz" -> write_jrcxz_oxx
    [] OTHER -> NoSize

-----------------------------------------------------------------------------
(* The mnemonic *)

\* cbw, cwde, cdqe; cwd, cdq, cqo.
OperandSizeName == IF Handler \in Extending THEN dest.osz ELSE NoSize

\* cmpxchg16b, fxsave64 and fxrstor64, not cmpxchg8b, fxsave and fxrstor.
WideName == Handler \in WideInsns /\ dest.osz = 2

\* jcxz, jecxz, jrcxz.
AddressSizeName == IF Handler = "jrcxz" THEN dest.asz ELSE NoSize

\* The bytes that the last letter of the mnemonic stands for, 0 for no such
\* letter.
SizeSuffix ==
  CASE Handler \in Suffixed -> SizeOf(dest.osz)
    [] Handler \in StringInsns \ {"outs"} -> dest.args[1].size
    [] Handler = "outs" -> dest.args[2].size
    [] OTHER -> 0

\* xchg of the accumulator with itself.
IsNop == /\ Handler = "xchg" /\ dest.is_nop
         /\ dest.args[1].type = "reg_gr" /\ dest.args[2].value = 0

-----------------------------------------------------------------------------
(* Operands *)

\* The operands up to the first void one.
AllOperands == {i \in 1..4 : \A j \in 1..i : dest.args[j].type # "void"}

PrintedOperands ==
  CASE \/ Handler \in NoOperands
       \/ Handler \in {"aad", "aam"} /\ Imm = Small(10)
       \/ IsNop -> {}
    [] Handler \in OneOperand -> {1}
    [] OTHER -> AllOperands

\* The size named in front of an immediate, 0 for none; the operand size of a
\* far pointer stands in front of it.
ImmSizeWord(i) ==
  CASE Handler \in {"callfd", "jmpfd"} -> SizeOf(dest.osz)
    [] Handler \notin {"callfd", "jmpfd"} /\ NeedSize(i) /\ ~dest.sx ->
         CASE dest.args[i].size # 8 /\ "imm64_sx32" \notin Encoding.etags ->
                dest.args[i].size
           [] (dest.args[i].size = 8 \/ "imm64_sx32" \in Encoding.etags)
                /\ ~Relative -> SizeOf(dest.osz)
           [] OTHER -> 0
    [] OTHER -> 0

\* The word that gives the length of an immediate or the reach of a jump.
ImmFormWord ==
  CASE dest.sx /\ Relative /\ Handler \in ShortJumps -> ""
    [] dest.sx /\ Relative /\ Handler \notin ShortJumps -> "short"
    [] dest.sx /\ ~Relative -> "byte"
    [] ~dest.sx /\ Relative -> "near"
    [] OTHER -> ""

\* What the memory operand of an indirect jump or call contains.
PointerWord(i) ==
  CASE SizeKeyword(i) \notin {2, 4, 8} \/ "ctrlxfer" \notin Encoding.itags -> ""
    [] SizeKeyword(i) \in {2, 4, 8} /\ "ctrlxfer" \in Encoding.itags
         /\ dest.args[i].type = "mem_ea" -> "near"
    [] SizeKeyword(i) \in {2, 4, 8} /\ "ctrlxfer" \in Encoding.itags
         /\ dest.args[i].type = "mem_ea_seg" -> "far"
    [] OTHER -> ""
=============================================================================
