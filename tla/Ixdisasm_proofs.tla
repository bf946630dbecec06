-------------------------- MODULE Ixdisasm_proofs --------------------------
(***************************************************************************)
(* Proofs about the numbers, names and words that are printed for what the *)
(* decoder returns, for every buffer and all tables that satisfy the       *)
(* assumptions of Ixdecoder and Ixdisasm.                                  *)
(***************************************************************************)
EXTENDS Ixdecoder_proofs, IxdisasmProps

-----------------------------------------------------------------------------
(* Where the numbers of an icode come from *)

\* ModRM addresses memory.
ModrmMemory(st) == st.has_modrm /\ st.modrm0 < 192

\* What the flags of an icode say about its displacement.
Displaced(d, ic, st) ==
  /\ d = 2 => ic.asz # 0
  /\ ic.rip_relative => d = 2 /\ ModrmMemory(st)
  /\ ic.ea.disp8 => ModrmMemory(st)
  /\ ModrmMemory(st) => /\ ic.ea.disp8 = (ic.disp.len = 1)
                        /\ ic.has_disp = (ic.disp.len > 0)

\* The flags before ModRM is read.
Unflagged(ic) == ~ic.rip_relative /\ ~ic.ea.disp8 /\ ~ic.has_disp

\* An address form does not say how long the displacement is; get_modrm does.
LEMMA FormKeepsDisp8 ==
  ASSUME NEW ea \in Addresses, NEW c, NEW sib, NEW d, NEW a, NEW x, NEW b
  PROVE  decode_modrm(ea, c, sib, d, a, x, b).ea.disp8 = ea.disp8
  <1>1. decode_modrm_16(ea, c).ea.disp8 = ea.disp8
    BY DEF decode_modrm_16, Addresses
  <1>2. ASSUME NEW y
        PROVE  /\ decode_modrm_32(ea, c, sib, y, x).ea.disp8 = ea.disp8
               /\ DOMAIN decode_modrm_32(ea, c, sib, y, x).ea = DOMAIN ea
    BY DEF decode_modrm_32, Addresses
  <1>3. decode_modrm_64(ea, c, sib, x, b).ea.disp8 = ea.disp8
    <2> DEFINE m == decode_modrm_32(ea, c, sib, TRUE, x)
    <2>1. m = [ea |-> m.ea, disp |-> m.disp]
      BY DEF decode_modrm_32
    <2>2. m.ea.disp8 = ea.disp8
      BY <1>2
    <2>3. decode_modrm_64(ea, c, sib, x, b)
            \in {m, [m EXCEPT !.ea.base = Extend(@, b), !.ea.index = Extend(@, x)]}
      BY DEF decode_modrm_64
    <2> HIDE DEF m
    <2>4. [m EXCEPT !.ea.base = Extend(@, b), !.ea.index = Extend(@, x)].ea
            = [m.ea EXCEPT !.base = Extend(@, b), !.index = Extend(@, x)]
      BY <2>1
    <2>5. [m.ea EXCEPT !.base = Extend(@, b), !.index = Extend(@, x)].disp8 = m.ea.disp8
      OBVIOUS
    <2>6. QED
      BY <2>2, <2>3, <2>4, <2>5
  <1>4. QED
    BY <1>1, <1>2, <1>3 DEF decode_modrm

\* The flags of an icode with a whole address.
FlaggedAs(w, ic, c, m, s) ==
  /\ w.ea.disp8 = (m.disp = 1) /\ w.has_disp = (m.disp > 0)
  /\ w.rip_relative = (dsz = 2 /\ RipRelative(c))
  /\ w.disp = s /\ w.asz = ic.asz
LEMMA WholeIcodeFlags ==
  ASSUME NEW ic \in Icodes, NEW c, NEW m, m.ea \in Addresses, m = [ea |-> m.ea, disp |-> m.disp],
         NEW s, ~ic.rip_relative, ~ic.has_disp, ~m.ea.disp8, NEW w, w = WholeIcode(ic, c, m, s)
  PROVE  FlaggedAs(w, ic, c, m, s)
  <1> DEFINE ea == [m.ea EXCEPT !.disp8 = m.ea.disp8 \/ m.disp = 1,
                                !.sreg = DefaultSegment(m.ea)]
             n == [m EXCEPT !.ea = ea]
             rip == dsz = 2 /\ RipRelative(c)
             has == m.disp > 0
  <1>1. ea.disp8 = (m.disp = 1)
    BY DEF Addresses
  <1>2. w = AddressIcode(ic, c, n, s)
    BY DEF WholeIcode
  <1> HIDE DEF ea
  <1>3. n.ea = ea /\ n.disp = m.disp
    BY Zenon
  <1> HIDE DEF n
  <1>4. w = [ic EXCEPT !.ea = n.ea, !.rip_relative = ic.rip_relative \/ rip,
                       !.has_disp = ic.has_disp \/ has, !.disp = s]
    BY <1>2, <1>3 DEF AddressIcode
  <1>5. (ic.rip_relative \/ rip) = rip /\ (ic.has_disp \/ has) = has
    OBVIOUS
  <1> HIDE DEF rip, has
  <1>6. /\ w.disp = s /\ w.asz = ic.asz /\ w.ea = ea /\ w.rip_relative = rip
        /\ w.has_disp = has
    BY <1>3, <1>4, <1>5 DEF Icodes
  <1>7. QED
    BY <1>1, <1>6 DEF rip, has, FlaggedAs

\* get_modrm sets the flags as the displacement it reads asks for.
LEMMA GetModrmFlags ==
  ASSUME Inv, NEW ic \in Icodes, Unflagged(ic), dsz = 2 => ic.asz # 0,
         get_modrm(fetcher_copy, ic, state).ok
  PROVE  LET r == get_modrm(fetcher_copy, ic, state)
         IN  r.st.has_modrm /\ Displaced(dsz, r.ic, r.st)
  <1> DEFINE f == fetcher_copy
             c == At(f)
             sib == IF HasSib(c, dsz, ic.asz) THEN buf[f.next + 2] ELSE 0
             stage == ModrmStage(f, ic.asz)
             header == ModrmHeader(f, ic.asz)
             after == Advance(f, header)
             m == decode_modrm(ic.ea, c, sib, dsz, ic.asz, p.rex_x, p.rex_b)
             whole == Has(after, m.disp)
             slice == IF m.disp = 0 THEN NoSlice
                      ELSE Slice(after, IF whole THEN m.disp ELSE after.left)
             st0 == [state EXCEPT !.modrm_offset = f.next]
             st1 == [st0 EXCEPT !.modrm0 = c, !.has_modrm = TRUE]
             st2 == IF m.disp = 0 THEN st1
                    ELSE [st1 EXCEPT !.disp_offset = after.next]
             r == get_modrm(f, ic, state)
  <1>1. /\ buf \in Seq(Byte) /\ p \in Prefixes /\ Within(f) /\ state \in DecoderStates
        /\ dsz \in 0..2 /\ ic.asz \in 0..2 /\ ic.ea \in Addresses
    BY ModesAssumption DEF Inv, TypeOK, Positions, Icodes
  <1>2. (stage = "byte" /\ c >= 192) \/ (stage = "address" /\ whole)
    BY DEF get_modrm
  <1>3. f.next \in Nat /\ f.left \in Nat
    BY <1>1 DEF Within
  <1>4. Has(f, 1) /\ c \in Byte
    BY <1>1, <1>2, FetcherMoves DEF ModrmStage
  <1>5. st1.modrm0 = c /\ st1.has_modrm = TRUE /\ st1 \in DecoderStates
    <2>1. st0 \in DecoderStates
      BY <1>1, <1>3, StateOffset
    <2> HIDE DEF st0, c
    <2>2. st1 \in DecoderStates
      BY <1>4, <2>1, StateModrm, StateFlag
    <2>3. QED
      BY <2>1, <2>2 DEF DecoderStates
  <1>6. ~ic.rip_relative /\ ~ic.ea.disp8 /\ ~ic.has_disp
    BY DEF Unflagged
  <1>7. CASE stage = "byte" /\ c >= 192
    <2>1. r.ic = [ic EXCEPT !.disp = NoSlice] /\ r.st = st1
      BY <1>7 DEF get_modrm
    <2>2. r.ic.asz = ic.asz /\ r.ic.rip_relative = ic.rip_relative /\ r.ic.ea = ic.ea
      BY <2>1 DEF Icodes
    <2> HIDE DEF c, st1, r
    <2>3. ~(c < 192)
      BY <1>4, <1>7 DEF Byte
    <2>4. r.st.has_modrm /\ r.st.modrm0 = c
      BY <1>5, <2>1
    <2>5. r.st.has_modrm /\ Displaced(dsz, r.ic, r.st)
      BY <1>6, <2>2, <2>3, <2>4 DEF Displaced, ModrmMemory
    <2>6. QED
      BY <2>5 DEF r
  <1>8. CASE stage = "address" /\ whole
    <2>1. c < 192 /\ Has(f, header)
      BY <1>8 DEF ModrmStage
    <2>2. sib \in Byte
      <3>1. header = 2 \/ ~HasSib(c, dsz, ic.asz)
        BY DEF ModrmHeader
      <3>2. HasSib(c, dsz, ic.asz) => Has(f, 2)
        BY <2>1, <3>1
      <3>3. 0 \in Byte
        BY DEF Byte
      <3>4. QED
        BY <1>1, <3>2, <3>3, ByteAhead
    <2>3. /\ m.ea \in Addresses /\ m.disp \in {0, 1, 2, 4}
          /\ m = [ea |-> m.ea, disp |-> m.disp]
      <3>1. p.rex_x \in 0..1 /\ p.rex_b \in 0..1
        BY <1>1 DEF Prefixes
      <3>2. QED
        BY <1>1, <1>4, <2>2, <3>1, AddressType, DisplacementSize, AddressRecord
    <2>4. ~m.ea.disp8
      BY <1>1, <1>6, FormKeepsDisp8
    <2>5. r.ic = WholeIcode(ic, c, m, slice) /\ r.st = st2
      BY <1>8 DEF get_modrm
    <2>6. slice.len = m.disp
      BY <1>8 DEF Slice, NoSlice
    <2>7. st2.modrm0 = c /\ st2.has_modrm = TRUE
      <3> HIDE DEF st1, m, after, c, f
      <3>1. QED
        BY <1>5 DEF DecoderStates
    <2>8. /\ r.ic.ea.disp8 = (m.disp = 1) /\ r.ic.has_disp = (m.disp > 0)
          /\ r.ic.rip_relative = (dsz = 2 /\ RipRelative(c))
          /\ r.ic.disp = slice /\ r.ic.asz = ic.asz
      <3> DEFINE ric == r.ic
      <3>1. ric = WholeIcode(ic, c, m, slice)
        BY <2>5
      <3> HIDE DEF r, m, slice, c, ric
      <3>2. FlaggedAs(ric, ic, c, m, slice)
        BY <1>6, <2>3, <2>4, <3>1, WholeIcodeFlags, Zenon
      <3>3. QED
        BY <3>2 DEF FlaggedAs, ric
    <2> HIDE DEF r, m, slice, c, st2, f
    <2>9. ModrmMemory(r.st)
      BY <2>1, <2>5, <2>7 DEF ModrmMemory
    <2>10. r.ic.disp.len = m.disp
      BY <2>6, <2>8
    <2>11. Displaced(dsz, r.ic, r.st)
      BY <2>8, <2>9, <2>10 DEF Displaced
    <2>12. QED
      BY <2>5, <2>7, <2>11 DEF r, f
  <1>9. QED
    BY <1>2, <1>7, <1>8

-----------------------------------------------------------------------------
(* What the icode holds of each operand *)

\* The bytes that a size of the encoding table stands for.
SizeIn(d, ic, size) ==
  CASE size >= 0 -> size
    [] size = -1 -> SizeOf(ic.osz)
    [] size = -2 -> SizeOf(ic.asz)
    [] size = -3 -> IF d = 2 THEN 8 ELSE 4
    [] size = -4 -> IF ic.osz = 2 THEN 4 ELSE SizeOf(ic.osz)
    [] size = -5 -> IF ic.osz = 0 THEN 4 ELSE SizeOf(ic.osz)
    [] size = -6 -> IF ic.osz = 2 THEN 16 ELSE 8
    [] size = -7 -> IF ic.osz = 2 THEN 8 ELSE 2
    [] size = -8 -> IF d = 2 THEN 8 ELSE SizeOf(ic.osz)
    [] OTHER     -> 0

\* Offset of what follows the first immediate.
EndOfFirst(st, k) == IF st.imm2_offset # NoOffset THEN st.imm2_offset ELSE k

\* An immediate of the instruction's own is in imm, its high half in disp.
ImmediateRead(ic, st, k, e, size) ==
  /\ ic.imm.at = st.imm1_offset
  /\ EndOfFirst(st, k) = st.imm1_offset + (IF Wide(e) /\ size = 8 THEN 8 ELSE ic.imm.len)
  /\ "sx_byte" \in e.etags => ic.sx /\ ic.imm.len = 1 /\ size # 1
  /\ Wide(e) /\ size = 8 =>
       ic.imm.len = 4 /\ ic.disp = [at |-> st.imm1_offset + 4, len |-> 4]
  /\ "sx_byte" \notin e.etags /\ "imm64_disp" \notin e.etags /\ size = 8 =>
       ic.imm.len = 4 /\ "imm64_sx32" \in e.etags
  /\ "sx_byte" \notin e.etags /\ size # 8 => ic.imm.len = size

\* A second immediate is in disp.
SecondRead(ic, st, k, size) ==
  /\ ic.disp.at = st.imm2_offset /\ k = st.imm2_offset + ic.disp.len
  /\ ic.disp.len = IF size = 8 THEN 4 ELSE size

\* An offset is in disp, its high half in imm.
OffsetRead(ic, st, k) ==
  LET n == SizeOf(ic.asz)
  IN  /\ ic.disp.at = st.disp_offset /\ k = st.disp_offset + n
      /\ ic.disp.len = IF n = 8 THEN 4 ELSE n
      /\ n = 8 => ic.imm = [at |-> st.disp_offset + 4, len |-> 4]
      /\ st.imm1_offset = NoOffset

\* The number of the register that an operand stands for.
RegisterIn(q, e, r, st) ==
  CASE r.type = "reg_sr" -> RegField(st.modrm0)
    [] r.type # "reg_sr" /\ "reg_base" \in e.etags ->
         (st.opcode0 % 8) + (IF r.type = "reg_gr" THEN 8 * q.rex_b ELSE 0)
    [] r.type # "reg_sr" /\ "reg_base" \notin e.etags
         /\ ("reg_rm" \in e.etags \/ r.value = RegOrMem) -> Rm(st.modrm0) + 8 * q.rex_b
    [] OTHER -> RegField(st.modrm0) + 8 * q.rex_r

ByDefault(r) == r.value \in {DefaultValue, RegOrMem}

\* The j-th operand of encoding e has been read, and the rest of the
\* instruction up to offset k has left it as it was read.
OperandRead(d, q, ic, st, k, e, j) ==
  LET r == e.args[j]
      a == ic.args[j]
  IN  /\ a.type = r.type \/ (r.value = RegOrMem /\ st.modrm0 < 192 /\ a.type = "mem_ea")
      /\ a.size = SizeIn(d, ic, r.size) /\ a.size > 0
      /\ a.type = "imm_implict" => a.value = r.value
      /\ a.type \in {"imm_1st", "imm_both"} => ImmediateRead(ic, st, k, e, a.size)
      /\ a.type = "imm_2nd" => SecondRead(ic, st, k, a.size)
      /\ a.type = "mem_fulldisp" => OffsetRead(ic, st, k)
      /\ a.type \in RegTypes =>
           a.value = IF ByDefault(r) THEN RegisterIn(q, e, r, st) ELSE r.value

\* The operands before the i-th have been read.
Sourced(d, q, ic, st, i, k) ==
  LET e == Encodings[ic.encoding]
  IN  /\ \A j \in 1..4 : j < i => OperandRead(d, q, ic, st, k, e, j)
      /\ (\A j \in 1..4 : j < i => e.args[j].type # "imm_2nd") => st.imm2_offset = NoOffset
      /\ ic.sx => "sx_byte" \in e.etags
      /\ d # 2 => ic.osz # 2
      /\ Displaced(d, ic, st)

\* An operand stays as it was read if its fields, and the end of its bytes,
\* stay as they are.
LEMMA OperandKept ==
  ASSUME NEW d, NEW q, NEW ic, NEW st, NEW k, NEW e, NEW j \in 1..4,
         OperandRead(d, q, ic, st, k, e, j),
         NEW ic2, NEW st2, NEW k2,
         ic2.args[j] = ic.args[j], ic2.osz = ic.osz, ic2.asz = ic.asz, ic.sx => ic2.sx,
         st2.modrm0 = st.modrm0, st2.opcode0 = st.opcode0,
         NEW F, F = FieldsOf(e, e.args[j]),
         "imm" \in F => ic2.imm = ic.imm /\ st2.imm1_offset = st.imm1_offset,
         "disp" \in F => /\ ic2.disp = ic.disp /\ st2.disp_offset = st.disp_offset
                         /\ st2.imm2_offset = st.imm2_offset,
         e.args[j].type \in {"imm_1st", "imm_both"} => EndOfFirst(st2, k2) = EndOfFirst(st, k),
         e.args[j].type \in {"imm_2nd", "mem_fulldisp"} => k2 = k
  PROVE  OperandRead(d, q, ic2, st2, k2, e, j)
  <1> DEFINE r == e.args[j]
             a == ic.args[j]
  <1>1. /\ a.type = r.type \/ (r.value = RegOrMem /\ st.modrm0 < 192 /\ a.type = "mem_ea")
        /\ a.size = SizeIn(d, ic, r.size) /\ a.size > 0
        /\ a.type = "imm_implict" => a.value = r.value
        /\ a.type \in {"imm_1st", "imm_both"} => ImmediateRead(ic, st, k, e, a.size)
        /\ a.type = "imm_2nd" => SecondRead(ic, st, k, a.size)
        /\ a.type = "mem_fulldisp" => OffsetRead(ic, st, k)
        /\ a.type \in RegTypes =>
             a.value = IF ByDefault(r) THEN RegisterIn(q, e, r, st) ELSE r.value
    BY DEF OperandRead
  <1> HIDE DEF r, a
  <1>2. SizeIn(d, ic2, r.size) = SizeIn(d, ic, r.size)
    BY DEF SizeIn
  <1>3. RegisterIn(q, e, r, st2) = RegisterIn(q, e, r, st)
    BY DEF RegisterIn
  <1>4. ASSUME a.type \in {"imm_1st", "imm_both"}
        PROVE  ImmediateRead(ic2, st2, k2, e, a.size)
    <2>1. r.type = a.type
      BY <1>1, <1>4
    <2>2. "imm" \in F /\ (Wide(e) => "disp" \in F)
      BY <1>4, <2>1 DEF FieldsOf, r
    <2>3. /\ ic2.imm = ic.imm /\ st2.imm1_offset = st.imm1_offset
          /\ Wide(e) => ic2.disp = ic.disp
          /\ EndOfFirst(st2, k2) = EndOfFirst(st, k)
      BY <1>4, <2>1, <2>2 DEF r
    <2>4. ImmediateRead(ic, st, k, e, a.size)
      BY <1>1, <1>4
    <2>5. QED
      BY <2>3, <2>4 DEF ImmediateRead
  <1>5. ASSUME a.type = "imm_2nd"
        PROVE  SecondRead(ic2, st2, k2, a.size)
    <2>1. r.type = a.type
      BY <1>1, <1>5
    <2>2. "disp" \in F
      BY <1>5, <2>1 DEF FieldsOf, r
    <2>3. ic2.disp = ic.disp /\ st2.imm2_offset = st.imm2_offset /\ k2 = k
      BY <1>5, <2>1, <2>2 DEF r
    <2>4. QED
      BY <1>1, <1>5, <2>3 DEF SecondRead
  <1>6. ASSUME a.type = "mem_fulldisp"
        PROVE  OffsetRead(ic2, st2, k2)
    <2>1. r.type = a.type
      BY <1>1, <1>6
    <2>2. "disp" \in F /\ "imm" \in F
      BY <1>6, <2>1 DEF FieldsOf, r
    <2>3. /\ ic2.disp = ic.disp /\ st2.disp_offset = st.disp_offset /\ k2 = k
          /\ ic2.imm = ic.imm /\ st2.imm1_offset = st.imm1_offset
      BY <1>6, <2>1, <2>2 DEF r
    <2>4. QED
      BY <1>1, <1>6, <2>3 DEF OffsetRead
  <1>7. ic2.args[j] = a
    BY DEF a
  <1>8. QED
    BY <1>1, <1>2, <1>3, <1>4, <1>5, <1>6, <1>7 DEF OperandRead, r

\* The flags stay right if a displacement that ModRM has asked for stays.
LEMMA DisplacedKept ==
  ASSUME NEW d, NEW ic, NEW st, Displaced(d, ic, st), NEW ic2, NEW st2,
         ic2.asz = ic.asz, ic2.ea = ic.ea, ic2.rip_relative = ic.rip_relative,
         st2.has_modrm = st.has_modrm, st2.modrm0 = st.modrm0,
         st.has_modrm => ic2.disp = ic.disp /\ ic2.has_disp = ic.has_disp
  PROVE  Displaced(d, ic2, st2)
BY DEF Displaced, ModrmMemory

\* What two operands of an encoding have to do with each other.
Apart(e, i, j) ==
  /\ FieldsOf(e, e.args[i]) \cap FieldsOf(e, e.args[j]) = {}
  /\ i < j /\ e.args[i].type = "imm_2nd" => e.args[j].type \notin {"imm_1st", "imm_both"}

LEMMA OperandsApart ==
  ASSUME NEW x \in DOMAIN Encodings, NEW i \in 1..4, NEW j \in 1..4, i # j
  PROVE  Apart(Encodings[x], i, j)
  <1> DEFINE e == Encodings[x]
  <1>1. e \in {Encodings[y] : y \in DOMAIN Encodings}
    OBVIOUS
  <1> HIDE DEF e
  <1>2. FieldsOf(e, e.args[i]) \cap FieldsOf(e, e.args[j]) = {}
    BY <1>1, OperandsAssumption, Zenon
  <1>3. i < j => (e.args[i].type = "imm_2nd" => e.args[j].type \notin {"imm_1st", "imm_both"})
    BY <1>1, NumbersAssumption, Zenon
  <1>4. QED
    BY <1>2, <1>3 DEF Apart, e

SourcedNow == Sourced(dsz, p, dest, state, argi, fetcher_copy.next)

\* What the next operand does to the fields of the earlier ones.
LEMMA EarlierKept ==
  ASSUME Inv, get_arguments, AtArg, ArgumentsRead, SourcedNow, pc' = "args",
         NEW e, e = Encodings[dest.encoding],
         NEW W, W = FieldsOf(e, e.args[argi]),
         \A j \in 1..4 : j # argi => dest'.args[j] = dest.args[j],
         dest.sx => dest'.sx, state'.opcode0 = state.opcode0,
         "imm" \notin W => dest'.imm = dest.imm /\ state'.imm1_offset = state.imm1_offset,
         "disp" \notin W => /\ dest'.disp = dest.disp
                            /\ state'.disp_offset = state.disp_offset
                            /\ state'.imm2_offset = state.imm2_offset,
         \/ fetcher_copy' = fetcher_copy /\ state'.imm2_offset = state.imm2_offset
         \/ e.args[argi].type = "mem_fulldisp"
         \/ e.args[argi].type = "imm_2nd" /\ state'.imm2_offset = fetcher_copy.next
         \/ e.args[argi].type \in {"imm_1st", "imm_both"},
         NEW j \in 1..4, j < argi
  PROVE  OperandRead(dsz, p, dest', state', fetcher_copy'.next, e, j)
  <1> DEFINE F == FieldsOf(e, e.args[j])
             k == fetcher_copy.next
             type == e.args[argi].type
  <1>1. /\ dest'.osz = dest.osz /\ dest'.asz = dest.asz /\ state'.modrm0 = state.modrm0
    BY ArgumentsKeep DEF KeptByArguments
  <1>2. /\ dest.encoding \in DOMAIN Encodings /\ argi \in 1..4 /\ j # argi
    BY DEF Inv, TypeOK, Icodes, ArgumentsRead, AtArg
  <1>3. OperandRead(dsz, p, dest, state, k, e, j)
    BY DEF SourcedNow, Sourced
  <1>4. Apart(e, j, argi)
    BY <1>2, OperandsApart
  <1>5. F \cap W = {}
    BY <1>4 DEF Apart
  <1>6. type \in {"imm_1st", "imm_both"} => e.args[j].type # "imm_2nd"
    BY <1>4 DEF Apart
  <1>7. /\ type \in {"imm_1st", "imm_both"} => "imm" \in W
        /\ type = "imm_2nd" => "disp" \in W
        /\ type = "mem_fulldisp" => "disp" \in W /\ "imm" \in W
    BY DEF FieldsOf
  <1>8. /\ e.args[j].type \in {"imm_1st", "imm_both"} => "imm" \in F
        /\ e.args[j].type = "imm_2nd" => "disp" \in F
        /\ e.args[j].type = "mem_fulldisp" => "disp" \in F /\ "imm" \in F
    BY DEF FieldsOf
  <1>9. /\ \/ fetcher_copy' = fetcher_copy /\ state'.imm2_offset = state.imm2_offset
           \/ type = "mem_fulldisp"
           \/ type = "imm_2nd" /\ state'.imm2_offset = fetcher_copy.next
           \/ type \in {"imm_1st", "imm_both"}
        /\ k \in 0..31
    BY CopyOffset
  <1>10. type = "imm_2nd" => state.imm2_offset = NoOffset
    <2>1. type = "imm_2nd" => "disp" \in FieldsOf(e, e.args[argi])
      BY <1>7
    <2>2. QED
      BY <2>1, DispFree
  <1> HIDE DEF F, type
  <1>11. e.args[j].type \in {"imm_2nd", "mem_fulldisp"} => fetcher_copy'.next = k
    BY <1>5, <1>6, <1>7, <1>8, <1>9
  <1>12. e.args[j].type \in {"imm_1st", "imm_both"} =>
           EndOfFirst(state', fetcher_copy'.next) = EndOfFirst(state, k)
    <2> SUFFICES ASSUME e.args[j].type \in {"imm_1st", "imm_both"}
                 PROVE  EndOfFirst(state', fetcher_copy'.next) = EndOfFirst(state, k)
      OBVIOUS
    <2>1. type \notin {"imm_1st", "imm_both", "mem_fulldisp"}
      BY <1>5, <1>7, <1>8
    <2>2. CASE fetcher_copy' = fetcher_copy /\ state'.imm2_offset = state.imm2_offset
      BY <2>2 DEF EndOfFirst
    <2>3. CASE type = "imm_2nd" /\ state'.imm2_offset = fetcher_copy.next
      <3>1. k # NoOffset
        BY <1>9 DEF NoOffset
      <3>2. QED
        BY <1>10, <2>3, <3>1 DEF EndOfFirst
    <2>4. QED
      BY <1>9, <2>1, <2>2, <2>3
  <1>13. dest'.args[j] = dest.args[j]
    BY <1>2
  <1>14. /\ "imm" \in F => dest'.imm = dest.imm /\ state'.imm1_offset = state.imm1_offset
         /\ "disp" \in F => /\ dest'.disp = dest.disp
                            /\ state'.disp_offset = state.disp_offset
                            /\ state'.imm2_offset = state.imm2_offset
    BY <1>5
  <1>15. F = FieldsOf(e, e.args[j])
    BY DEF F
  <1> HIDE DEF k
  <1>16. QED
    BY <1>1, <1>3, <1>11, <1>12, <1>13, <1>14, <1>15, OperandKept

\* What an operand's step has to do so that the operands are sourced.
LEMMA SourcedNext ==
  ASSUME Inv, get_arguments, AtArg, ArgumentsRead, SourcedNow, pc' = "args",
         NEW e, e = Encodings[dest.encoding],
         NEW W, W = FieldsOf(e, e.args[argi]),
         \A j \in 1..4 : j # argi => dest'.args[j] = dest.args[j],
         dest.sx => dest'.sx, dest'.sx => dest.sx \/ "sx_byte" \in e.etags,
         state'.opcode0 = state.opcode0,
         "imm" \notin W => dest'.imm = dest.imm /\ state'.imm1_offset = state.imm1_offset,
         "disp" \notin W => /\ dest'.disp = dest.disp /\ dest'.has_disp = dest.has_disp
                            /\ state'.disp_offset = state.disp_offset
                            /\ state'.imm2_offset = state.imm2_offset,
         \/ fetcher_copy' = fetcher_copy /\ state'.imm2_offset = state.imm2_offset
         \/ e.args[argi].type = "mem_fulldisp"
         \/ e.args[argi].type = "imm_2nd" /\ state'.imm2_offset = fetcher_copy.next
         \/ e.args[argi].type \in {"imm_1st", "imm_both"},
         e.args[argi].type # "imm_2nd" => state'.imm2_offset = state.imm2_offset,
         OperandRead(dsz, p, dest', state', fetcher_copy'.next, e, argi)
  PROVE  SourcedNow'
  <1>1. /\ dest'.encoding = dest.encoding /\ dest'.osz = dest.osz /\ dest'.asz = dest.asz
        /\ dest'.ea = dest.ea /\ dest'.rip_relative = dest.rip_relative
        /\ state'.has_modrm = state.has_modrm /\ state'.modrm0 = state.modrm0
    BY ArgumentsKeep DEF KeptByArguments
  <1>2. argi' = argi + 1 /\ dsz' = dsz /\ p' = p /\ argi \in 1..4
    BY ArgumentsGoOn DEF caller, AtArg
  <1>3. \A j \in 1..4 : j < argi => OperandRead(dsz, p, dest', state', fetcher_copy'.next, e, j)
    BY EarlierKept
  <1>4. \A j \in 1..4 : j < argi + 1 => OperandRead(dsz, p, dest', state', fetcher_copy'.next, e, j)
    <2>1. ASSUME NEW j \in 1..4, j < argi + 1
          PROVE  j < argi \/ j = argi
      BY <1>2, <2>1
    <2>2. QED
      BY <1>3, <2>1
  <1>5. /\ (\A j \in 1..4 : j < argi => e.args[j].type # "imm_2nd") => state.imm2_offset = NoOffset
        /\ dest.sx => "sx_byte" \in e.etags
        /\ dsz # 2 => dest.osz # 2
        /\ Displaced(dsz, dest, state)
    BY DEF SourcedNow, Sourced
  <1>6. (\A j \in 1..4 : j < argi + 1 => e.args[j].type # "imm_2nd") => state'.imm2_offset = NoOffset
    <2> SUFFICES ASSUME \A j \in 1..4 : j < argi + 1 => e.args[j].type # "imm_2nd"
                 PROVE  state'.imm2_offset = NoOffset
      OBVIOUS
    <2>1. e.args[argi].type # "imm_2nd"
      BY <1>2
    <2>2. \A j \in 1..4 : j < argi => e.args[j].type # "imm_2nd"
      BY <1>2
    <2>3. QED
      BY <1>5, <2>1, <2>2
  <1>7. Displaced(dsz, dest', state')
    <2>1. state.has_modrm => "disp" \notin W
      BY DispFree
    <2>2. state.has_modrm => dest'.disp = dest.disp /\ dest'.has_disp = dest.has_disp
      BY <2>1
    <2>3. QED
      BY <1>1, <1>5, <2>2, DisplacedKept
  <1>8. e = Encodings[dest'.encoding]
    BY <1>1
  <1>9. dest'.sx => "sx_byte" \in e.etags
    BY <1>5
  <1>10. Sourced(dsz, p, dest', state', argi + 1, fetcher_copy'.next)
    BY <1>1, <1>4, <1>5, <1>6, <1>7, <1>8, <1>9 DEF Sourced
  <1>11. QED
    BY <1>2, <1>10 DEF SourcedNow

\* The operand at hand.
LEMMA ArgIs ==
  ASSUME Inv, AtArg, ArgumentsRead, NEW e, e = Encodings[dest.encoding],
         NEW r, r = e.args[argi]
  PROVE  /\ dest.args[argi] = r /\ r \in Args /\ Arg \in Args
         /\ Arg.type = r.type \/ (r.value = RegOrMem /\ state.modrm0 < 192 /\ Arg.type = "mem_ea")
         /\ Arg.size = SizeIn(dsz, dest, r.size)
         /\ Arg.value = IF r.value = RegOrMem THEN DefaultValue ELSE r.value
  <1>1. dest.encoding \in DOMAIN Encodings /\ argi \in 1..4
    BY DEF Inv, TypeOK, Icodes, ArgumentsRead, AtArg
  <1>2. dest.args[argi] = r
    BY <1>1 DEF ArgumentsRead, Pending
  <1>3. r \in Args
    <2>1. e.args \in [1..4 -> Args]
      BY <1>1, EncodingsAssumption
    <2>2. QED
      BY <1>1, <2>1
  <1>4. Arg \in Args
    BY ArgType, Inv DEF AtArg
  <1>5. intel_specialize_arg_size(r.size) = SizeIn(dsz, dest, r.size)
    BY DEF intel_specialize_arg_size, SizeIn
  <1>6. CASE r.value = RegOrMem
    BY <1>2, <1>3, <1>4, <1>5, <1>6 DEF Arg
  <1>7. CASE r.value # RegOrMem
    <2>1. Arg = [r EXCEPT !.size = intel_specialize_arg_size(r.size)]
      BY <1>2, <1>7 DEF Arg
    <2> HIDE DEF Arg
    <2>2. QED
      BY <1>2, <1>3, <1>4, <1>5, <1>7, <2>1 DEF Args
  <1>8. QED
    BY <1>6, <1>7

\* Sizes depend on the operand size and the address size.
LEMMA SizeInKept ==
  ASSUME NEW d, NEW ic, NEW ic2, ic2.osz = ic.osz, ic2.asz = ic.asz, NEW size
  PROVE  SizeIn(d, ic2, size) = SizeIn(d, ic, size)
BY DEF SizeIn

\* The register that RegArg finds is the one the operand stands for.
LEMMA RegisterFound ==
  ASSUME Inv, AtArg, ArgumentsRead, Arg.type \in RegTypes, NEW e, e = Encodings[dest.encoding],
         NEW r, r = e.args[argi]
  PROVE  (IF Arg.value = DefaultValue THEN RegisterNumber ELSE Arg.value)
           = IF ByDefault(r) THEN RegisterIn(p, e, r, state) ELSE r.value
  <1>1. /\ dest.args[argi] = r
        /\ Arg.type = r.type \/ Arg.type = "mem_ea"
        /\ Arg.value = IF r.value = RegOrMem THEN DefaultValue ELSE r.value
    BY ArgIs
  <1>2. Arg.type = r.type
    BY <1>1 DEF RegTypes
  <1>3. RegisterNumber = RegisterIn(p, e, r, state)
    <2> HIDE DEF Arg
    <2>1. QED
      BY <1>1, <1>2 DEF RegisterNumber, RegisterIn, Encoding
  <1>4. Arg.value = DefaultValue <=> ByDefault(r)
    BY <1>1 DEF ByDefault
  <1>5. QED
    BY <1>1, <1>3, <1>4 DEF ByDefault

\* Operands in registers and in memory.
LEMMA PlainArgSourced ==
  ASSUME Inv, ArgumentsRead, SourcedNow, MemArg \/ RegArg, pc' = "args"
  PROVE  SourcedNow'
  <1>1. AtArg /\ get_arguments /\ argi \in 1..4 /\ dest \in Icodes
    BY DEF MemArg, RegArg, get_arguments, AtArg, Inv, TypeOK
  <1>2. fetcher_copy' = fetcher_copy /\ state' = state
        /\ Arg.type \in (MemTypes \ {"mem_fulldisp"}) \cup RegTypes /\ Arg.size > 0
    BY DEF MemArg, RegArg
  <1> DEFINE e == Encodings[dest.encoding]
             r == e.args[argi]
             W == FieldsOf(e, r)
             n == IF Arg.type \in RegTypes
                  THEN IF ByDefault(r) THEN RegisterIn(p, e, r, state) ELSE r.value
                  ELSE Arg.value
             a == [Arg EXCEPT !.value = n]
  <1>3. /\ dest.args[argi] = r /\ r \in Args /\ Arg \in Args
        /\ Arg.type = r.type \/ (r.value = RegOrMem /\ state.modrm0 < 192 /\ Arg.type = "mem_ea")
        /\ Arg.size = SizeIn(dsz, dest, r.size)
    BY <1>1, ArgIs
  <1>4. dest' = [dest EXCEPT !.args[argi] = a]
    <2>1. CASE MemArg
      <3>1. Arg.type \notin RegTypes
        BY <2>1 DEF MemArg, MemTypes, RegTypes
      <3>2. [Arg EXCEPT !.value = Arg.value] = Arg
        <4> HIDE DEF Arg
        <4> QED BY <1>3 DEF Args
      <3>3. a = Arg
        BY <3>1, <3>2
      <3> HIDE DEF a
      <3>4. QED
        BY <2>1, <3>3 DEF MemArg
    <2>2. CASE RegArg
      <3>1. Arg.type \in RegTypes
        BY <2>2 DEF RegArg
      <3>2. n = IF Arg.value = DefaultValue THEN RegisterNumber ELSE Arg.value
        BY <1>1, <3>1, RegisterFound
      <3> HIDE DEF n
      <3>3. QED
        BY <2>2, <3>2 DEF RegArg
    <2>3. QED
      BY <2>1, <2>2
  <1>5. a.type = Arg.type /\ a.size = Arg.size /\ a.value = n
    <2> HIDE DEF Arg, n
    <2> QED BY <1>3 DEF Args
  <1> HIDE DEF a, n
  <1>6. /\ dest'.args[argi] = a /\ \A j \in 1..4 : j # argi => dest'.args[j] = dest.args[j]
        /\ dest'.imm = dest.imm /\ dest'.disp = dest.disp /\ dest'.has_disp = dest.has_disp
        /\ dest'.sx = dest.sx /\ dest'.osz = dest.osz /\ dest'.asz = dest.asz
    BY <1>1, <1>4 DEF Icodes
  <1>7. SizeIn(dsz, dest', r.size) = SizeIn(dsz, dest, r.size)
    BY <1>6, SizeInKept
  <1>8. Arg.type \notin ImmTypes \cup {"mem_fulldisp"}
    BY <1>2 DEF ImmTypes, MemTypes, RegTypes
  <1>9. OperandRead(dsz, p, dest', state', fetcher_copy'.next, e, argi)
    <2> HIDE DEF Arg
    <2>1. a.type \in RegTypes => a.value = IF ByDefault(r) THEN RegisterIn(p, e, r, state') ELSE r.value
      BY <1>2, <1>5 DEF n
    <2>2. a.type = "imm_implict" \/ a.type \in {"imm_1st", "imm_both"} \/ a.type = "imm_2nd"
            \/ a.type = "mem_fulldisp" => FALSE
      BY <1>5, <1>8 DEF ImmTypes
    <2>3. QED
      BY <1>2, <1>3, <1>5, <1>6, <1>7, <2>1, <2>2 DEF OperandRead
  <1>10. r = e.args[argi] /\ e = Encodings[dest.encoding] /\ W = FieldsOf(e, e.args[argi])
    OBVIOUS
  <1> HIDE DEF e, r, W
  <1>11. QED
    BY <1>1, <1>2, <1>6, <1>9, <1>10, SourcedNext

\* Immediates that the encoding implies.
LEMMA ImplicitImmSourced ==
  ASSUME Inv, ArgumentsRead, SourcedNow, ImplicitImmArg, pc' = "args"
  PROVE  SourcedNow'
  <1>1. AtArg /\ get_arguments /\ argi \in 1..4 /\ dest \in Icodes
    BY DEF ImplicitImmArg, get_arguments, AtArg, Inv, TypeOK
  <1>2. /\ fetcher_copy' = fetcher_copy /\ state' = state /\ Arg.type = "imm_implict" /\ Arg.size > 0
        /\ dest' = [dest EXCEPT !.args[argi] = Arg, !.imm = NoSlice]
    BY DEF ImplicitImmArg
  <1> DEFINE here == [dest EXCEPT !.args[argi] = Arg]
             e == Encodings[dest.encoding]
             r == e.args[argi]
             W == FieldsOf(e, r)
  <1>3. /\ dest.args[argi] = r /\ r \in Args /\ Arg \in Args
        /\ Arg.type = r.type \/ (r.value = RegOrMem /\ state.modrm0 < 192 /\ Arg.type = "mem_ea")
        /\ Arg.size = SizeIn(dsz, dest, r.size)
        /\ Arg.value = IF r.value = RegOrMem THEN DefaultValue ELSE r.value
    BY <1>1, ArgIs
  <1>4. here \in Icodes /\ dest' = [here EXCEPT !.imm = NoSlice]
    BY <1>1, <1>2, WithArgType
  <1>5. /\ here.args[argi] = Arg /\ \A j \in 1..4 : j # argi => here.args[j] = dest.args[j]
        /\ here.disp = dest.disp /\ here.has_disp = dest.has_disp
        /\ here.sx = dest.sx /\ here.osz = dest.osz /\ here.asz = dest.asz
    BY <1>1 DEF Icodes
  <1> HIDE DEF here
  <1>6. /\ dest'.args[argi] = Arg /\ \A j \in 1..4 : j # argi => dest'.args[j] = dest.args[j]
        /\ dest'.disp = dest.disp /\ dest'.has_disp = dest.has_disp
        /\ dest'.sx = dest.sx /\ dest'.osz = dest.osz /\ dest'.asz = dest.asz
    BY <1>4, <1>5 DEF Icodes
  <1>7. r.type = "imm_implict" /\ r.value # RegOrMem
    <2>1. r.type = "imm_implict"
      BY <1>2, <1>3
    <2>2. e \in {Encodings[x] : x \in DOMAIN Encodings}
      BY <1>1, ArgKnown
    <2>3. e.args[argi].value = RegOrMem => e.args[argi].type \in RegTypes
      <3> HIDE DEF e
      <3> QED BY <1>1, <2>2, OperandsAssumption, Zenon
    <2>4. QED
      BY <2>1, <2>3 DEF RegTypes
  <1>8. W = {"imm"}
    BY <1>7 DEF FieldsOf
  <1>9. SizeIn(dsz, dest', r.size) = SizeIn(dsz, dest, r.size)
    BY <1>6, SizeInKept
  <1>10. OperandRead(dsz, p, dest', state', fetcher_copy'.next, e, argi)
    <2> HIDE DEF Arg
    <2>1. QED
      BY <1>2, <1>3, <1>6, <1>7, <1>9 DEF OperandRead, RegTypes
  <1>11. r = e.args[argi] /\ e = Encodings[dest.encoding] /\ W = FieldsOf(e, e.args[argi])
    OBVIOUS
  <1> HIDE DEF e, r, W
  <1>12. QED
    BY <1>1, <1>2, <1>6, <1>7, <1>8, <1>10, <1>11, SourcedNext

\* Memory at an absolute offset.
LEMMA FullDispSourced ==
  ASSUME Inv, ArgumentsRead, SourcedNow, FullDispArg, pc' = "args"
  PROVE  SourcedNow'
  <1>1. AtArg /\ get_arguments /\ argi \in 1..4 /\ dest \in Icodes /\ state \in DecoderStates
    BY DEF FullDispArg, get_arguments, AtArg, Inv, TypeOK
  <1> DEFINE n == SizeOf(dest.asz)
             k == fetcher_copy.next
             f == fetcher_copy
             here == [dest EXCEPT !.has_disp = TRUE, !.args[argi] = Arg]
             s1 == Slice(f, IF n = 8 THEN 4 ELSE n)
             s2 == IF n = 8 THEN Slice(Advance(f, 4), 4) ELSE here.imm
             e == Encodings[dest.encoding]
             r == e.args[argi]
             W == FieldsOf(e, r)
  <1>2. /\ Arg.type = "mem_fulldisp" /\ fetcher_copy' = Advance(f, n) /\ Arg.size > 0
        /\ state' = [state EXCEPT !.disp_offset = k]
        /\ dest' = [here EXCEPT !.disp = s1, !.imm = s2]
    BY DEF FullDispArg, Fail
  <1>3. fetcher_copy'.next = k + n
    BY <1>2 DEF Advance
  <1>4. /\ dest.args[argi] = r /\ r \in Args /\ Arg \in Args
        /\ Arg.type = r.type \/ (r.value = RegOrMem /\ state.modrm0 < 192 /\ Arg.type = "mem_ea")
        /\ Arg.size = SizeIn(dsz, dest, r.size)
    BY <1>1, ArgIs
  <1>5. /\ here.args[argi] = Arg /\ \A j \in 1..4 : j # argi => here.args[j] = dest.args[j]
        /\ here.sx = dest.sx /\ here.osz = dest.osz /\ here.asz = dest.asz /\ here \in Icodes
    <2> DEFINE arg == [dest EXCEPT !.args[argi] = Arg]
    <2>1. arg \in Icodes
      BY <1>1, WithArgType
    <2>2. here = [arg EXCEPT !.has_disp = TRUE]
      BY <1>1 DEF Icodes
    <2>3. here \in Icodes
      <3> HIDE DEF arg, here
      <3> QED BY <2>1, <2>2, IcodeFlag
    <2>4. QED
      BY <1>1, <2>3 DEF Icodes
  <1>6. /\ s1 = [at |-> k, len |-> IF n = 8 THEN 4 ELSE n]
        /\ n = 8 => s2 = [at |-> k + 4, len |-> 4]
    BY DEF Slice, Advance
  <1> HIDE DEF here, s1, s2, n
  <1>7. /\ dest'.disp = s1 /\ dest'.imm = s2 /\ dest'.args[argi] = Arg
        /\ \A j \in 1..4 : j # argi => dest'.args[j] = dest.args[j]
        /\ dest'.sx = dest.sx /\ dest'.osz = dest.osz /\ dest'.asz = dest.asz
    BY <1>2, <1>5 DEF Icodes
  <1>8. /\ state'.disp_offset = k /\ state'.imm1_offset = state.imm1_offset
        /\ state'.imm2_offset = state.imm2_offset /\ state'.opcode0 = state.opcode0
    BY <1>1, <1>2 DEF DecoderStates
  <1>9. r.type = "mem_fulldisp"
    BY <1>2, <1>4
  <1>10. W = {"disp", "imm"}
    BY <1>9 DEF FieldsOf
  <1>11. state.imm1_offset = NoOffset
    BY <1>1, <1>10, ImmFree
  <1>12. OffsetRead(dest', state', fetcher_copy'.next)
    <2>1. SizeOf(dest'.asz) = n
      BY <1>7 DEF n
    <2>2. dest'.disp.at = k /\ dest'.disp.len = IF n = 8 THEN 4 ELSE n
      BY <1>6, <1>7
    <2>3. QED
      BY <1>3, <1>6, <1>7, <1>8, <1>11, <2>1, <2>2 DEF OffsetRead
  <1>13. SizeIn(dsz, dest', r.size) = SizeIn(dsz, dest, r.size)
    BY <1>7, SizeInKept
  <1>14. OperandRead(dsz, p, dest', state', fetcher_copy'.next, e, argi)
    <2> HIDE DEF Arg
    <2>1. QED
      BY <1>2, <1>4, <1>7, <1>9, <1>12, <1>13 DEF OperandRead, RegTypes
  <1>15. r = e.args[argi] /\ e = Encodings[dest.encoding] /\ W = FieldsOf(e, e.args[argi])
    OBVIOUS
  <1> HIDE DEF e, r, W
  <1>16. QED
    BY <1>1, <1>7, <1>8, <1>9, <1>10, <1>14, <1>15, SourcedNext

\* The immediates of an encoding.
LEMMA ImmediateKinds ==
  ASSUME NEW x \in DOMAIN Encodings, NEW i \in 1..4, NEW e, e = Encodings[x],
         e.args[i].type \in ImmTypes
  PROVE  /\ e.args[i].size <= 8 /\ e.args[i].size # -6
         /\ "sx_byte" \in e.etags => e.args[i].type \in {"imm_1st", "imm_both"}
         /\ "relative" \in e.etags => /\ e.args[i].type = "imm_1st" /\ e.args[i].size = -8
                                       /\ "imm64_sx32" \in e.etags
         /\ e.args[i].type = "imm_2nd" => ~Wide(e)
         /\ e.args[i].value # RegOrMem
  <1>1. e \in {Encodings[y] : y \in DOMAIN Encodings}
    OBVIOUS
  <1>2. /\ e.args[i].size <= 8 /\ e.args[i].size # -6
        /\ "sx_byte" \in e.etags => e.args[i].type \in {"imm_1st", "imm_both"}
        /\ "relative" \in e.etags => /\ e.args[i].type = "imm_1st" /\ e.args[i].size = -8
                                     /\ "imm64_sx32" \in e.etags
    BY <1>1, NumbersAssumption, Zenon
  <1>3. /\ e.args[i].type = "imm_2nd" => ~Wide(e)
        /\ e.args[i].value = RegOrMem => e.args[i].type \in RegTypes
    BY <1>1, OperandsAssumption, Zenon
  <1>4. QED
    BY <1>2, <1>3 DEF ImmTypes, RegTypes

\* The bytes of an immediate by the tags of its encoding.
LEMMA ImmediateLength ==
  ASSUME Arg.size \in Nat, ImmBytes > 0,
         NEW e, e = Encodings[dest.encoding], NEW n, n = Arg.size
  PROVE  /\ "sx_byte" \in e.etags => ImmBytes = 1 /\ n # 1
         /\ Imm64 <=> Wide(e) /\ n = 8
         /\ Imm64 => ImmBytes = 8
         /\ "sx_byte" \notin e.etags /\ "imm64_disp" \notin e.etags /\ n = 8 =>
              ImmBytes = 4 /\ "imm64_sx32" \in e.etags
         /\ "sx_byte" \notin e.etags /\ n # 8 => ImmBytes = n
  <1> HIDE DEF Arg
  <1>1. SxByte <=> "sx_byte" \in e.etags
    BY DEF SxByte, Encoding
  <1>2. Imm64 <=> Wide(e) /\ n = 8
    BY DEF Imm64, Wide, SxByte, Encoding
  <1>3. ImmBytes = IF SxByte THEN IF n = 1 THEN 0 ELSE 1
                   ELSE IF Imm64 THEN 8
                   ELSE IF n # 8 THEN n
                   ELSE IF "imm64_sx32" \in e.etags THEN 4 ELSE 0
    <2>1. CASE SxByte
      <3>1. ImmBytes = IF Arg.size = 1 THEN 0 ELSE 1
        BY <2>1 DEF ImmBytes, Imm64
      <3>2. QED
        BY <2>1, <3>1
    <2>2. CASE ~SxByte /\ Imm64
      BY <2>2 DEF ImmBytes
    <2>3. CASE ~SxByte /\ ~Imm64
      <3>1. ImmBytes = CASE Arg.size # 8 -> Arg.size
                         [] Arg.size = 8 /\ "imm64_sx32" \in Encoding.etags -> 4
                         [] OTHER -> 0
        BY <2>3 DEF ImmBytes
      <3>2. CASE Arg.size = 8
        BY <2>3, <3>1, <3>2 DEF Encoding
      <3>3. CASE Arg.size # 8
        BY <2>3, <3>1, <3>3
      <3>4. QED
        BY <3>2, <3>3
    <2>4. QED
      BY <2>1, <2>2, <2>3
  <1>4. "sx_byte" \in e.etags => ~Wide(e)
    BY DEF Wide
  <1>5. "imm64_disp" \notin e.etags => ~Wide(e)
    BY DEF Wide
  <1> HIDE DEF ImmBytes, Imm64, SxByte
  <1>6. QED
    BY <1>1, <1>2, <1>3, <1>4, <1>5

\* Immediates of the instruction's own.
LEMMA ImmSourced ==
  ASSUME Inv, ArgumentsRead, SourcedNow, ImmArg, pc' = "args"
  PROVE  SourcedNow'
  <1>1. /\ AtArg /\ get_arguments /\ argi \in 1..4 /\ Arg.size > 0
        /\ Arg.type \in {"imm_1st", "imm_2nd", "imm_both"}
    BY DEF ImmArg, get_arguments, AtArg, ImmTypes
  <1>2. dest \in Icodes /\ state \in DecoderStates
    BY DEF Inv, TypeOK
  <1> DEFINE n == ImmBytes
             f == fetcher_copy
             k == fetcher_copy.next
             sx == IF SxByte /\ n = 1 THEN TRUE ELSE dest.sx
             here == [dest EXCEPT !.args[argi] = Arg, !.sx = sx]
             e == Encodings[dest.encoding]
             r == e.args[argi]
             W == FieldsOf(e, r)
             size == Arg.size
  <1>3. k \in 0..31
    BY CopyOffset
  <1>4. /\ dest.args[argi] = r /\ r \in Args /\ Arg \in Args
        /\ Arg.type = r.type \/ (r.value = RegOrMem /\ state.modrm0 < 192 /\ Arg.type = "mem_ea")
        /\ Arg.size = SizeIn(dsz, dest, r.size)
    BY <1>1, ArgIs
  <1>5. Arg.type = r.type /\ dest.encoding \in DOMAIN Encodings
    BY <1>1, <1>4, ArgKnown
  <1>6. /\ "sx_byte" \in e.etags => r.type \in {"imm_1st", "imm_both"}
        /\ r.type = "imm_2nd" => ~Wide(e)
    <2>1. r.type \in ImmTypes
      BY <1>1, <1>5 DEF ImmTypes
    <2> HIDE DEF Arg
    <2>2. e = Encodings[dest.encoding]
      OBVIOUS
    <2>3. e.args[argi].type \in ImmTypes
      BY <2>1
    <2> HIDE DEF e
    <2>4. /\ "sx_byte" \in e.etags => e.args[argi].type \in {"imm_1st", "imm_both"}
          /\ e.args[argi].type = "imm_2nd" => ~Wide(e)
      BY <1>1, <1>5, <2>2, <2>3, ImmediateKinds
    <2>5. QED
      BY <2>4
  <1>7. W = IF r.type = "imm_2nd" THEN {"disp"}
            ELSE IF Wide(e) THEN {"imm", "disp"} ELSE {"imm"}
    BY <1>1, <1>5 DEF FieldsOf
  <1>8. /\ here.args[argi] = Arg /\ \A j \in 1..4 : j # argi => here.args[j] = dest.args[j]
        /\ here.sx = sx /\ here.osz = dest.osz /\ here.asz = dest.asz
        /\ here.imm = dest.imm /\ here.disp = dest.disp /\ here.has_disp = dest.has_disp
        /\ here \in Icodes
    <2> DEFINE arg == [dest EXCEPT !.args[argi] = Arg]
    <2>1. arg \in Icodes
      BY <1>1, WithArgType
    <2>2. sx \in BOOLEAN
      BY <1>2 DEF Icodes
    <2>3. here = [arg EXCEPT !.sx = sx]
      BY <1>2 DEF Icodes
    <2>4. here \in Icodes
      <3> HIDE DEF arg, here, sx
      <3> QED BY <2>1, <2>2, <2>3, IcodeFlag
    <2> HIDE DEF sx
    <2>5. QED
      BY <1>1, <1>2, <2>4 DEF Icodes
  <1>9. /\ state' = IF SecondImm THEN [state EXCEPT !.imm2_offset = k]
                     ELSE [state EXCEPT !.imm1_offset = k]
        /\ n > 0 /\ fetcher_copy' = Advance(f, n)
        /\ dest' = CASE Imm64 -> [here EXCEPT !.imm = Slice(f, 4),
                                       !.disp = Slice(Advance(f, 4), 4),
                                       !.imm64 = TRUE]
                      [] ~Imm64 /\ SecondImm -> [here EXCEPT !.disp = Slice(f, n)]
                      [] OTHER -> [here EXCEPT !.imm = Slice(f, n)]
    <2>1. here = [dest EXCEPT !.args[argi] = Arg,
                              !.sx = IF SxByte /\ n = 1 THEN TRUE ELSE @]
      BY <1>2 DEF Icodes
    <2>2. QED
      BY <2>1 DEF ImmArg, Fail
  <1>10. fetcher_copy'.next = k + n
    BY <1>9 DEF Advance
  <1>11. SecondImm <=> r.type = "imm_2nd"
    BY <1>5 DEF SecondImm
  <1>12. /\ "sx_byte" \in e.etags => n = 1 /\ size # 1
         /\ Imm64 <=> Wide(e) /\ size = 8
         /\ Imm64 => n = 8
         /\ "sx_byte" \notin e.etags /\ "imm64_disp" \notin e.etags /\ size = 8 =>
              n = 4 /\ "imm64_sx32" \in e.etags
         /\ "sx_byte" \notin e.etags /\ size # 8 => n = size
    <2>1. Arg.size \in Nat
      BY <1>1, ArgType DEF Args, AtArg
    <2>2. QED
      BY <1>9, <2>1, ImmediateLength
  <1>13. SxByte <=> "sx_byte" \in e.etags
    BY DEF SxByte, Encoding
  <1>14. /\ "sx_byte" \in e.etags => sx = TRUE
         /\ dest.sx => sx
         /\ sx => dest.sx \/ "sx_byte" \in e.etags
    BY <1>12, <1>13
  <1>15. n \in Nat
    BY <1>1, ImmediateBytes
  <1>16. SizeIn(dsz, here, r.size) = SizeIn(dsz, dest, r.size)
    <2> HIDE DEF here, r
    <2> QED BY <1>8, SizeInKept
  <1>17. r = e.args[argi] /\ e = Encodings[dest.encoding] /\ W = FieldsOf(e, e.args[argi])
    OBVIOUS
  <1>18. size = Arg.size /\ size > 0
    BY <1>1
  <1> HIDE DEF here, n, sx, size, Arg, e, r, W
  <1>19. ASSUME dest'.args = here.args, dest'.osz = here.osz, dest'.asz = here.asz,
                Arg.type \in {"imm_1st", "imm_both"} =>
                  ImmediateRead(dest', state', fetcher_copy'.next, e, size),
                Arg.type = "imm_2nd" => SecondRead(dest', state', fetcher_copy'.next, size)
         PROVE  OperandRead(dsz, p, dest', state', fetcher_copy'.next, e, argi)
    <2>1. SizeIn(dsz, dest', r.size) = SizeIn(dsz, here, r.size)
      BY <1>19, SizeInKept
    <2>2. dest'.args[argi] = Arg
      BY <1>8, <1>19
    <2>3. Arg.type \notin RegTypes \cup {"imm_implict", "mem_fulldisp"}
      BY <1>1 DEF RegTypes
    <2>4. QED
      BY <1>1, <1>4, <1>5, <1>16, <1>17, <1>18, <1>19, <2>1, <2>2, <2>3 DEF OperandRead
  <1>20. CASE SecondImm
    <2>1. ~Imm64 /\ r.type = "imm_2nd"
      BY <1>6, <1>11, <1>12, <1>20
    <2>2. W = {"disp"}
      BY <1>7, <2>1
    <2>3. dest' = [here EXCEPT !.disp = Slice(f, n)] /\ state' = [state EXCEPT !.imm2_offset = k]
      BY <1>9, <1>20, <2>1
    <2>4. /\ dest'.disp = [at |-> k, len |-> n] /\ dest'.imm = dest.imm /\ dest'.args = here.args
          /\ dest'.has_disp = dest.has_disp /\ dest'.sx = sx
          /\ dest'.osz = here.osz /\ dest'.asz = here.asz
      BY <1>8, <2>3 DEF Icodes, Slice
    <2>5. /\ state'.imm2_offset = k /\ state'.imm1_offset = state.imm1_offset
          /\ state'.disp_offset = state.disp_offset /\ state'.opcode0 = state.opcode0
      BY <1>2, <2>3 DEF DecoderStates
    <2>6. "sx_byte" \notin e.etags
      BY <1>6, <2>1
    <2>7. n = IF size = 8 THEN 4 ELSE size
      BY <1>12, <2>1, <2>6 DEF Wide
    <2>8. SecondRead(dest', state', fetcher_copy'.next, size)
      BY <1>10, <2>4, <2>5, <2>7 DEF SecondRead
    <2>9. OperandRead(dsz, p, dest', state', fetcher_copy'.next, e, argi)
      BY <1>5, <1>19, <2>1, <2>4, <2>8
    <2>10. \A j \in 1..4 : j # argi => dest'.args[j] = dest.args[j]
      BY <1>8, <2>4
    <2>11. e.args[argi].type = "imm_2nd"
      BY <1>17, <2>1
    <2>12. QED
      BY <1>1, <1>14, <1>17, <2>2, <2>4, <2>5, <2>9, <2>10, <2>11, SourcedNext
  <1>21. CASE ~SecondImm
    <2>1. r.type \in {"imm_1st", "imm_both"} /\ Arg.type \in {"imm_1st", "imm_both"}
      BY <1>1, <1>5, <1>11, <1>21
    <2>2. "imm" \in W /\ (Imm64 => "disp" \in W)
      BY <1>7, <1>12, <2>1
    <2>3. state' = [state EXCEPT !.imm1_offset = k]
      BY <1>9, <1>21
    <2>4. /\ state'.imm1_offset = k /\ state'.imm2_offset = state.imm2_offset
          /\ state'.disp_offset = state.disp_offset /\ state'.opcode0 = state.opcode0
      BY <1>2, <2>3 DEF DecoderStates
    <2>5. /\ dest'.args = here.args /\ dest'.sx = sx
          /\ dest'.osz = here.osz /\ dest'.asz = here.asz /\ dest'.has_disp = dest.has_disp
          /\ dest'.imm = [at |-> k, len |-> IF Imm64 THEN 4 ELSE n]
          /\ dest'.disp = IF Imm64 THEN [at |-> k + 4, len |-> 4] ELSE dest.disp
      <3>1. CASE Imm64
        <4>1. dest' = [here EXCEPT !.imm = Slice(f, 4), !.disp = Slice(Advance(f, 4), 4),
                                   !.imm64 = TRUE]
          BY <1>9, <3>1
        <4>2. QED
          BY <1>8, <3>1, <4>1 DEF Icodes, Slice, Advance
      <3>2. CASE ~Imm64
        <4>1. dest' = [here EXCEPT !.imm = Slice(f, n)]
          BY <1>9, <1>21, <3>2
        <4>2. QED
          BY <1>8, <3>2, <4>1 DEF Icodes, Slice, Advance
      <3>3. QED
        BY <3>1, <3>2
    <2>6. state.imm2_offset = NoOffset
      <3>1. \A j \in 1..4 : j < argi => e.args[j].type # "imm_2nd"
        <4> SUFFICES ASSUME NEW j \in 1..4, j < argi PROVE e.args[j].type # "imm_2nd"
          OBVIOUS
        <4>1. Apart(Encodings[dest.encoding], j, argi)
          BY <1>1, <1>5, OperandsApart
        <4>2. Apart(e, j, argi)
          BY <1>17, <4>1
        <4>3. QED
          BY <1>17, <2>1, <4>2 DEF Apart
      <3>2. QED
        BY <1>17, <3>1 DEF SourcedNow, Sourced
    <2>7. EndOfFirst(state', fetcher_copy'.next) = k + n
      BY <1>10, <2>4, <2>6 DEF EndOfFirst
    <2>8. ImmediateRead(dest', state', fetcher_copy'.next, e, size)
      <3>1. dest'.imm.at = k /\ dest'.imm.len = IF Imm64 THEN 4 ELSE n
        BY <2>5
      <3>2. "sx_byte" \in e.etags => dest'.sx /\ dest'.imm.len = 1 /\ size # 1
        <4>1. "sx_byte" \in e.etags => ~Imm64
          BY <1>12 DEF Wide
        <4>2. QED
          BY <1>12, <1>14, <2>5, <3>1, <4>1
      <3>3. Wide(e) /\ size = 8 =>
              dest'.imm.len = 4 /\ dest'.disp = [at |-> state'.imm1_offset + 4, len |-> 4]
        BY <1>12, <2>4, <2>5, <3>1
      <3>4. EndOfFirst(state', fetcher_copy'.next)
              = state'.imm1_offset + (IF Wide(e) /\ size = 8 THEN 8 ELSE dest'.imm.len)
        BY <1>12, <2>4, <2>7, <3>1
      <3>5. "sx_byte" \notin e.etags /\ "imm64_disp" \notin e.etags /\ size = 8 =>
              dest'.imm.len = 4 /\ "imm64_sx32" \in e.etags
        BY <1>12, <3>1 DEF Wide
      <3>6. "sx_byte" \notin e.etags /\ size # 8 => dest'.imm.len = size
        BY <1>12, <3>1
      <3>7. QED
        BY <2>4, <3>1, <3>2, <3>3, <3>4, <3>5, <3>6 DEF ImmediateRead
    <2>9. OperandRead(dsz, p, dest', state', fetcher_copy'.next, e, argi)
      BY <1>19, <2>1, <2>5, <2>8
    <2>10. \A j \in 1..4 : j # argi => dest'.args[j] = dest.args[j]
      BY <1>8, <2>5
    <2>11. e.args[argi].type \in {"imm_1st", "imm_both"}
      BY <1>17, <2>1
    <2>12. "disp" \notin W => dest'.disp = dest.disp
      BY <2>2, <2>5
    <2>13. (dest.sx => dest'.sx) /\ (dest'.sx => dest.sx \/ "sx_byte" \in e.etags)
      BY <1>14, <2>5
    <2>14. QED
      BY <1>1, <1>17, <2>2, <2>4, <2>5, <2>9, <2>10, <2>11, <2>12, <2>13, SourcedNext
  <1>22. QED
    BY <1>20, <1>21

\* The operands are sourced one after the other.
LEMMA ArgumentsSourced ==
  ASSUME Inv, ArgumentsRead, SourcedNow, get_arguments, pc' = "args"
  PROVE  SourcedNow'
  <1>1. MemArg \/ RegArg \/ ImplicitImmArg \/ FullDispArg \/ ImmArg
    BY DEF get_arguments, UnsupportedArgument, EndArgs, Fail
  <1>2. QED
    BY <1>1, PlainArgSourced, ImplicitImmSourced, FullDispSourced, ImmSourced

\* On the way along the opcode the flags say what ModRM has asked for, if it
\* has been read.
Walking(d, ic, st) == Displaced(d, ic, st) /\ (~st.has_modrm => Unflagged(ic))

\* The icode of an attempt begins without flags.
LEMMA WalkingBegins ==
  ASSUME Inv, EnterTry, dest = NewIcode(dsz)
  PROVE  Walking(dsz', dest', state')
  <1>1. dest \in Icodes /\ state \in DecoderStates /\ dsz' = dsz
    BY DEF Inv, TypeOK, EnterTry, caller, inputs
  <1>2. ~dest.has_disp
    BY DEF NewIcode
  <1>3. /\ dest'.asz = AddressSize /\ ~dest'.rip_relative /\ ~dest'.ea.disp8 /\ ~dest'.has_disp
    <2>1. dest.ea \in Addresses
      BY <1>1 DEF Icodes
    <2>2. dest' = [dest EXCEPT !.asz = AddressSize, !.lockrep = p.lockrep,
                     !.ea = [dest.ea EXCEPT !.sreg = p.sreg, !.scale = 0, !.disp8 = FALSE],
                     !.rip_relative = FALSE, !.is_nop = (Opcode0 = NOP),
                     !.rex_used = p.rex_used]
      BY DEF EnterTry
    <2> HIDE DEF AddressSize, Opcode0, NOP
    <2>3. /\ dest'.asz = AddressSize /\ ~dest'.rip_relative /\ ~dest'.has_disp
          /\ dest'.ea = [dest.ea EXCEPT !.sreg = p.sreg, !.scale = 0, !.disp8 = FALSE]
      BY <1>1, <1>2, <2>2 DEF Icodes
    <2>4. QED
      BY <2>1, <2>3 DEF Addresses
  <1>4. dsz = 2 => AddressSize # 0
    BY DEF AddressSize
  <1>5. ~state'.has_modrm
    <2>1. EnterState \in DecoderStates /\ ~EnterState.has_modrm
      BY <1>1, EnterStateType DEF EnterState, DecoderStates
    <2>2. state' = [EnterState EXCEPT !.opcode0 = Opcode0, !.modrm0 = 0]
      BY DEF EnterTry
    <2>3. QED
      BY <2>1, <2>2 DEF DecoderStates
  <1>6. QED
    BY <1>1, <1>3, <1>4, <1>5 DEF Walking, Displaced, ModrmMemory, Unflagged

\* Reading ModRM on the way sets the flags.
LEMMA WalkingModRM ==
  ASSUME Inv, WalkModRM, pc' = "walk", Walking(dsz, dest, state)
  PROVE  Walking(dsz', dest', state')
  <1> DEFINE r == get_modrm(fetcher_copy, dest, state)
  <1>1. /\ dest \in Icodes /\ state \in DecoderStates /\ dsz' = dsz
    BY DEF WalkModRM, Inv, TypeOK, caller, inputs
  <1>2. \/ state.has_modrm /\ dest' = dest /\ state' = state
        \/ ~state.has_modrm /\ r.ok /\ dest' = r.ic /\ state' = r.st
    BY DEF WalkModRM, Fail
  <1>3. CASE state.has_modrm
    BY <1>1, <1>2, <1>3
  <1>4. CASE ~state.has_modrm
    <2>1. Unflagged(dest) /\ (dsz = 2 => dest.asz # 0)
      BY <1>4 DEF Walking, Displaced
    <2>2. get_modrm(fetcher_copy, dest, state).ok
      BY <1>2, <1>4
    <2>3. r.st.has_modrm /\ Displaced(dsz, r.ic, r.st)
      BY <1>1, <2>1, <2>2, GetModrmFlags
    <2> HIDE DEF r
    <2>4. QED
      BY <1>1, <1>2, <1>4, <2>3 DEF Walking
  <1>5. QED
    BY <1>3, <1>4

\* What the operands do not change of the flags.
LEMMA WithOperandsFlags ==
  ASSUME NEW ic \in Icodes, NEW e, NEW w, w = WithOperands(ic, e)
  PROVE  /\ w.asz = ic.asz /\ w.ea = ic.ea /\ w.rip_relative = ic.rip_relative
         /\ w.disp = ic.disp /\ w.has_disp = ic.has_disp /\ w.encoding = ic.encoding
         /\ w.osz = OperandSize(e) /\ ~w.sx
BY DEF WithOperands, Icodes

\* The flags are those of an icode that has the same address.
LEMMA DisplacedSame ==
  ASSUME NEW d, NEW ic, NEW st, Displaced(d, ic, st), NEW ic2, NEW st2,
         ic2.asz = ic.asz, ic2.ea = ic.ea, ic2.rip_relative = ic.rip_relative,
         ic2.disp = ic.disp, ic2.has_disp = ic.has_disp,
         st2.has_modrm = st.has_modrm, st2.modrm0 = st.modrm0
  PROVE  Displaced(d, ic2, st2)
BY DEF Displaced, ModrmMemory

\* At the leaf no operand has been read.
LEMMA LeafSourced ==
  ASSUME Inv, Leaf, pc' = "args", Walking(dsz, dest, state),
         Reading(buf, dsz, p, dest, state, node, fetcher_copy.next)
  PROVE  SourcedNow'
  <1> DEFINE e == LeafEncoding
             ric == LeafRead.ic
             rst == LeafRead.st
  <1>1. /\ LeafIcode \in Icodes /\ ric \in Icodes /\ rst \in DecoderStates
        /\ LeafKnown \/ LeafReads
        /\ dsz' = dsz /\ p' = p /\ argi' = 1
    BY LeafCases DEF caller, inputs
  <1>2. state \in DecoderStates /\ dest \in Icodes /\ dsz \in 0..2
    BY ModesAssumption DEF Inv, TypeOK
  <1>3. /\ LeafIcode.asz = dest.asz /\ LeafIcode.ea = dest.ea /\ LeafIcode.disp = dest.disp
        /\ LeafIcode.rip_relative = dest.rip_relative /\ LeafIcode.has_disp = dest.has_disp
    BY <1>2 DEF LeafIcode, Icodes
  <1>4. dsz # 2 => OperandSize(e) # 2
    BY <1>2 DEF OperandSize
  <1>5. state.imm2_offset = NoOffset /\ Displaced(dsz, dest, state) /\ (dsz = 2 => dest.asz # 0)
    BY DEF Reading, Walking
  <1>6. /\ ~dest'.sx /\ dest'.osz = OperandSize(e)
        /\ state'.imm2_offset = NoOffset /\ Displaced(dsz, dest', state')
    <2>1. CASE LeafKnown
      <3>1. dest' = WithOperands(LeafIcode, e) /\ state' = state
        BY <2>1 DEF LeafKnown
      <3>2. /\ dest'.asz = dest.asz /\ dest'.ea = dest.ea /\ dest'.rip_relative = dest.rip_relative
            /\ dest'.disp = dest.disp /\ dest'.has_disp = dest.has_disp
            /\ dest'.osz = OperandSize(e) /\ ~dest'.sx
        BY <1>1, <1>3, <3>1, WithOperandsFlags
      <3>3. state'.has_modrm = state.has_modrm /\ state'.modrm0 = state.modrm0
        BY <3>1
      <3>4. Displaced(dsz, dest', state')
        BY <1>5, <3>2, <3>3 DEF Displaced, ModrmMemory
      <3>5. QED
        BY <1>5, <3>1, <3>2, <3>4
    <2>2. CASE LeafReads
      <3>1. ~state.has_modrm /\ LeafRead.ok /\ state' = rst /\ dest' = WithOperands(ric, e)
        BY <2>2 DEF LeafReads
      <3>2. Unflagged(LeafIcode) /\ (dsz = 2 => LeafIcode.asz # 0)
        BY <1>3, <1>5, <3>1 DEF Walking, Unflagged
      <3>3. get_modrm(fetcher_copy, LeafIcode, state).ok
        BY <3>1 DEF LeafRead
      <3>4. LET r == get_modrm(fetcher_copy, LeafIcode, state)
            IN  r.st.has_modrm /\ Displaced(dsz, r.ic, r.st)
        <4> HIDE DEF LeafIcode
        <4> QED BY <1>1, <3>2, <3>3, GetModrmFlags
      <3>5. Displaced(dsz, ric, rst)
        BY <3>4 DEF LeafRead
      <3>6. rst.imm2_offset = state.imm2_offset
        BY <1>1, <1>2, GetModrmKeeps DEF LeafRead
      <3> HIDE DEF ric, rst, e
      <3>7. /\ dest'.asz = ric.asz /\ dest'.ea = ric.ea /\ dest'.rip_relative = ric.rip_relative
            /\ dest'.disp = ric.disp /\ dest'.has_disp = ric.has_disp
            /\ dest'.osz = OperandSize(e) /\ ~dest'.sx
        BY <1>1, <3>1, WithOperandsFlags
      <3>8. state'.has_modrm = rst.has_modrm /\ state'.modrm0 = rst.modrm0
        BY <3>1
      <3>9. Displaced(dsz, dest', state')
        BY <3>5, <3>7, <3>8 DEF Displaced, ModrmMemory
      <3>10. QED
        BY <1>5, <3>1, <3>6, <3>7, <3>9
    <2>3. QED
      BY <1>1, <2>1, <2>2
  <1>7. \A j \in 1..4 : ~(j < 1)
    OBVIOUS
  <1> HIDE DEF e
  <1>8. Sourced(dsz, p, dest', state', 1, fetcher_copy'.next)
    BY <1>4, <1>6, <1>7 DEF Sourced
  <1>9. QED
    BY <1>1, <1>8 DEF SourcedNow

\* An instruction that has been decoded, with what was read of its operands.
AllSourced(d, q, ic, st) ==
  LET e == Encodings[ic.encoding]
  IN  /\ \A j \in 1..4 : ic.args[j].type # "void" =>
           OperandRead(d, q, ic, st, st.insn_size, e, j)
      /\ ic.sx => "sx_byte" \in e.etags
      /\ d # 2 => ic.osz # 2
      /\ Displaced(d, ic, st)

\* The operands come first, so that the last one that is not void has been read.
LEMMA ArgumentsAllSourced ==
  ASSUME Inv, ArgumentsRead, SourcedNow, EndArgs, Judged'
  PROVE  AllSourced(dsz', p', dest', state')
  <1>1. state \in DecoderStates /\ dest \in Icodes
    BY DEF Inv, TypeOK
  <1>2. /\ dest' = dest /\ dsz' = dsz /\ p' = p
        /\ state' = [state EXCEPT !.insn_size = fetcher_copy.next]
        /\ ~(argi \in 1..4 /\ dest.args[argi].type # "void")
    BY DEF EndArgs, Fail, Judged, AtArg, caller, inputs
  <1>3. /\ state'.insn_size = fetcher_copy.next /\ state'.has_modrm = state.has_modrm
        /\ state'.modrm0 = state.modrm0 /\ state'.disp_offset = state.disp_offset
        /\ state'.imm1_offset = state.imm1_offset /\ state'.imm2_offset = state.imm2_offset
        /\ state'.opcode0 = state.opcode0
    BY <1>1, <1>2 DEF DecoderStates
  <1> DEFINE e == Encodings[dest.encoding]
             k == fetcher_copy.next
  <1>4. argi \in 1..5
    BY DEF Inv, TypeOK
  <1>5. /\ \A j \in 1..4 : j < argi => OperandRead(dsz, p, dest, state, k, e, j)
        /\ dest.sx => "sx_byte" \in e.etags
        /\ dsz # 2 => dest.osz # 2
        /\ Displaced(dsz, dest, state)
    BY DEF SourcedNow, Sourced
  <1>6. ASSUME NEW j \in 1..4, dest.args[j].type # "void"
        PROVE  j < argi
    <2> SUFFICES ASSUME j >= argi PROVE FALSE
      BY <1>4
    <2>1. argi \in 1..4 /\ dest.args[argi].type = "void" /\ argi # j
      BY <1>2, <1>4, <1>6
    <2>2. dest.args[argi] = e.args[argi] /\ dest.args[j] = e.args[j]
      BY <2>1 DEF ArgumentsRead, Pending
    <2>3. dest.encoding \in DOMAIN Encodings
      BY <1>1 DEF ArgumentsRead, Icodes
    <2>4. e \in {Encodings[x] : x \in DOMAIN Encodings}
      BY <2>3
    <2>5. argi < j
      BY <2>1
    <2>6. e.args[argi].type = "void" /\ e.args[j].type # "void"
      BY <1>6, <2>1, <2>2
    <2> HIDE DEF e
    <2>7. e.args[argi].type = "void" => e.args[j].type = "void"
      BY <2>1, <2>4, <2>5, NumbersAssumption, Zenon
    <2>8. QED
      BY <2>6, <2>7
  <1>7. ASSUME NEW j \in 1..4, dest'.args[j].type # "void"
        PROVE  OperandRead(dsz, p, dest', state', state'.insn_size, e, j)
    <2>1. OperandRead(dsz, p, dest, state, k, e, j)
      BY <1>2, <1>5, <1>6, <1>7
    <2>2. EndOfFirst(state', k) = EndOfFirst(state, k)
      BY <1>3 DEF EndOfFirst
    <2> HIDE DEF k, e
    <2>3. OperandRead(dsz, p, dest', state', k, e, j)
      BY <1>2, <1>3, <2>1, <2>2, OperandKept
    <2>4. QED
      BY <1>3, <2>3 DEF k
  <1>8. Displaced(dsz, dest', state')
    BY <1>2, <1>3, <1>5, DisplacedSame
  <1>9. QED
    BY <1>2, <1>5, <1>7, <1>8 DEF AllSourced

\* The way an operand was read depends on these.
LEMMA AllSourcedKept ==
  ASSUME NEW d, NEW q, NEW ic, NEW st, AllSourced(d, q, ic, st), NEW ic2,
         ic2.encoding = ic.encoding, ic2.args = ic.args, ic2.sx = ic.sx, ic2.osz = ic.osz,
         ic2.asz = ic.asz, ic2.ea = ic.ea, ic2.rip_relative = ic.rip_relative,
         ic2.disp = ic.disp, ic2.imm = ic.imm, ic2.has_disp = ic.has_disp
  PROVE  AllSourced(d, q, ic2, st)
  <1> DEFINE e == Encodings[ic.encoding]
             k == st.insn_size
  <1>1. e = Encodings[ic2.encoding]
    OBVIOUS
  <1>2. /\ \A j \in 1..4 : ic.args[j].type # "void" => OperandRead(d, q, ic, st, k, e, j)
        /\ ic.sx => "sx_byte" \in e.etags
        /\ d # 2 => ic.osz # 2
        /\ Displaced(d, ic, st)
    BY DEF AllSourced
  <1>3. Displaced(d, ic2, st)
    BY <1>2, DisplacedSame, Zenon
  <1> HIDE DEF e, k
  <1>4. ASSUME NEW j \in 1..4, ic2.args[j].type # "void"
        PROVE  OperandRead(d, q, ic2, st, k, e, j)
    <2>1. OperandRead(d, q, ic, st, k, e, j)
      BY <1>2, <1>4
    <2>2. QED
      BY <2>1, OperandKept
  <1>5. QED
    BY <1>1, <1>2, <1>3, <1>4 DEF AllSourced, k

\* Returning, do_decode notes an FWAIT and leaves what was read.
LEMMA ReturnSourced ==
  ASSUME Inv, Return, AllSourced(dsz, p, dest, state)
  PROVE  AllSourced(dsz', p', dest', state')
  <1>1. dest \in Icodes
    BY DEF Inv, TypeOK
  <1>2. PICK w : dest' = [dest EXCEPT !.fwait = w]
    BY DEF Return
  <1>3. dsz' = dsz /\ p' = p /\ state' = state
    BY DEF Return, caller, inputs
  <1>4. /\ dest'.encoding = dest.encoding /\ dest'.args = dest.args /\ dest'.sx = dest.sx
        /\ dest'.osz = dest.osz /\ dest'.asz = dest.asz /\ dest'.ea = dest.ea
        /\ dest'.rip_relative = dest.rip_relative /\ dest'.disp = dest.disp
        /\ dest'.imm = dest.imm /\ dest'.has_disp = dest.has_disp
    BY <1>1, <1>2 DEF Icodes
  <1>5. AllSourced(dsz, p, dest', state)
    BY <1>4, AllSourcedKept, Zenon
  <1>6. QED
    BY <1>3, <1>5

\* What the first attempt has read of the operands.
SourcedSoFar ==
  attempt = 1 =>
    /\ pc = "walk" => Walking(dsz, dest, state)
    /\ pc = "args" => SourcedNow
    /\ Judged => AllSourced(dsz, p, dest, state)

\* The first attempt reads the operands as SourcedSoFar says.
LEMMA SourcedStep ==
  Inv /\ Attempts /\ ReadSoFar /\ SourcedSoFar /\ [Next]_vars => SourcedSoFar'
  <1> SUFFICES ASSUME Inv, Collecting, ReadSoFar, SourcedSoFar, [Next]_vars, attempt' = 1
               PROVE  SourcedSoFar'
    BY DEF SourcedSoFar, Attempts
  <1>1. CASE TakePrefixes
    <2>1. pc' \notin {"walk", "args"} /\ ~Judged'
      BY <1>1, CollectingFrame DEF Judged
    <2>2. QED
      BY <2>1 DEF SourcedSoFar
  <1>2. CASE FallBack
    BY <1>2 DEF FallBack
  <1>3. CASE Walk \/ get_arguments \/ Return
    <2>1. attempt = 1 /\ dsz' = dsz /\ p' = p
      BY <1>3, DecodeFrame DEF caller
    <2>2. CASE Walk
      <3>1. ~Judged'
        BY <2>2, WalkJudge
      <3>2. ASSUME pc' = "walk"
            PROVE  Walking(dsz', dest', state')
        <4>1. CASE EnterTry
          <5>1. dest = NewIcode(dsz)
            BY <2>1, <4>1 DEF EnterTry, ReadSoFar
          <5>2. QED
            BY <4>1, <5>1, WalkingBegins
        <4>2. CASE WalkByte \/ WalkMode \/ WalkModRM
          <5>1. Walking(dsz, dest, state)
            BY <2>1, <4>2 DEF WalkByte, WalkMode, WalkModRM, SourcedSoFar
          <5>2. CASE WalkByte \/ WalkMode
            <6>1. dest' = dest /\ state' = state
              BY <5>2 DEF WalkByte, WalkMode
            <6>2. QED
              BY <2>1, <5>1, <6>1
          <5>3. CASE WalkModRM
            BY <3>2, <5>1, <5>3, WalkingModRM
          <5>4. QED
            BY <4>2, <5>2, <5>3
        <4>3. CASE EnterTryTooShort \/ InvalidOpcode
          BY <3>2, <4>3 DEF EnterTryTooShort, InvalidOpcode, Fail
        <4>4. CASE Leaf
          BY <3>2, <4>4, LeafCases
        <4>5. QED
          BY <2>2, <4>1, <4>2, <4>3, <4>4 DEF Walk
      <3>3. ASSUME pc' = "args"
            PROVE  SourcedNow'
        <4>1. Leaf
          BY <2>2, <3>3 DEF Walk, EnterTry, EnterTryTooShort, WalkByte, WalkMode, WalkModRM,
             InvalidOpcode, Fail
        <4>2. Reading(buf, dsz, p, dest, state, node, fetcher_copy.next) /\ Walking(dsz, dest, state)
          BY <2>1, <4>1 DEF Leaf, ReadSoFar, SourcedSoFar
        <4>3. QED
          BY <3>3, <4>1, <4>2, LeafSourced
      <3>4. QED
        BY <2>1, <3>1, <3>2, <3>3 DEF SourcedSoFar
    <2>3. CASE get_arguments
      <3>1. pc = "args" /\ pc' \in {"args", "judge"}
        BY <2>3 DEF get_arguments, UnsupportedArgument, FullDispArg, ImplicitImmArg, ImmArg, RegArg,
           MemArg, EndArgs, Fail, NextArg, AtArg
      <3>2. ArgumentsRead /\ SourcedNow
        BY <2>1, <3>1 DEF ReadSoFar, SourcedSoFar
      <3>3. pc' = "args" => SourcedNow'
        BY <2>3, <3>2, ArgumentsSourced
      <3>4. Judged' => AllSourced(dsz', p', dest', state')
        BY <2>3, <3>2, ArgumentsJudge, ArgumentsAllSourced
      <3>5. QED
        BY <2>1, <3>1, <3>3, <3>4 DEF SourcedSoFar
    <2>4. CASE Return
      <3>1. pc' = "done"
        BY <2>4 DEF Return
      <3>2. Judged' => AllSourced(dsz', p', dest', state')
        <4>1. Judged' => Judged
          BY <2>4, ReturnKeeps
        <4>2. Judged => AllSourced(dsz, p, dest, state)
          BY <2>1 DEF SourcedSoFar
        <4>3. QED
          BY <2>4, <4>1, <4>2, ReturnSourced
      <3>3. QED
        BY <2>1, <3>1, <3>2 DEF SourcedSoFar
    <2>5. QED
      BY <1>3, <2>2, <2>3, <2>4
  <1>4. CASE UNCHANGED vars
    <2>1. /\ dsz' = dsz /\ pc' = pc /\ fetcher_copy' = fetcher_copy /\ p' = p
          /\ attempt' = attempt /\ argi' = argi /\ dest' = dest
          /\ state' = state /\ Judged' = Judged
      BY <1>4 DEF vars, Judged
    <2>2. SourcedNow' = SourcedNow
      BY <2>1 DEF SourcedNow
    <2>3. QED
      BY <2>1, <2>2 DEF SourcedSoFar
  <1>5. QED
    BY <1>1, <1>2, <1>3, <1>4 DEF Next, Step, Finish, Returned

\* Where the operands of the first attempt come from holds at every moment.
THEOREM SourcedAlways == Spec => [](Inv /\ Attempts /\ ReadSoFar /\ Unaddressed /\ SourcedSoFar)
  <1>1. Spec => [](Inv /\ Attempts /\ ReadSoFar /\ Unaddressed)
    BY ReadingAlways
  <1>2. Init => SourcedSoFar
    <2> SUFFICES ASSUME Init PROVE SourcedSoFar
      OBVIOUS
    <2>1. pc \in {"prefix", "done"} /\ ~Judged
      BY DEF Init, Judged
    <2>2. QED
      BY <2>1 DEF SourcedSoFar
  <1>3. Inv /\ Attempts /\ ReadSoFar /\ SourcedSoFar /\ [Next]_vars => SourcedSoFar'
    BY SourcedStep
  <1>4. QED
    BY <1>1, <1>2, <1>3, PTL DEF Spec

-----------------------------------------------------------------------------
(* Numbers of eight bytes *)

U8 == [0..7 -> Byte]

\* Two numbers with the same n low bytes.
SameLow(v, w, n) == \A k \in 0..7 : k < n => v[k] = w[k]

\* A byte of a sum, and the carry into the next one.
ByteOfSum(x, y, c) == (x + y + c) % 256
CarryOf(x, y, c)   == (x + y + c) \div 256

LEMMA ByteSum ==
  \A x, y \in Byte, c \in 0..1 :
    /\ CarryOf(x, y, c) \in 0..1 /\ ByteOfSum(x, y, c) \in Byte
    /\ CarryOf(x, y, c) = CarryOf(y, x, c) /\ ByteOfSum(x, y, c) = ByteOfSum(y, x, c)
  <1> SUFFICES ASSUME NEW x \in Byte, NEW y \in Byte, NEW c \in 0..1
               PROVE  /\ CarryOf(x, y, c) \in 0..1 /\ ByteOfSum(x, y, c) \in Byte
                      /\ CarryOf(x, y, c) = CarryOf(y, x, c)
                      /\ ByteOfSum(x, y, c) = ByteOfSum(y, x, c)
    OBVIOUS
  <1>1. x + y + c \in 0..511 /\ x + y + c = y + x + c
    BY DEF Byte
  <1>2. QED
    BY <1>1 DEF CarryOf, ByteOfSum, Byte

\* The offsets of the bytes.
LEMMA EightBytes ==
  \A k \in 0..7 : k = 0 \/ k = 1 \/ k = 2 \/ k = 3 \/ k = 4 \/ k = 5 \/ k = 6 \/ k = 7
OBVIOUS

\* The carries into the bytes of a sum.
Carries(a, b, c) ==
  /\ c \in [0..7 -> 0..1] /\ c[0] = 0
  /\ c[1] = CarryOf(a[0], b[0], c[0]) /\ c[2] = CarryOf(a[1], b[1], c[1])
  /\ c[3] = CarryOf(a[2], b[2], c[2]) /\ c[4] = CarryOf(a[3], b[3], c[3])
  /\ c[5] = CarryOf(a[4], b[4], c[4]) /\ c[6] = CarryOf(a[5], b[5], c[5])
  /\ c[7] = CarryOf(a[6], b[6], c[6])

SumWith(a, b, c) == [k \in 0..7 |-> ByteOfSum(a[k], b[k], c[k])]

\* The carries exist, and a sum is made with them.
LEMMA AddCarries ==
  ASSUME NEW a \in U8, NEW b \in U8
  PROVE  \E c : Carries(a, b, c) /\ Add(a, b) = SumWith(a, b, c)
  <1> DEFINE next(c, k) == CarryOf(a[k], b[k], c)
             c1 == next(0, 0)   c2 == next(c1, 1)   c3 == next(c2, 2)
             c4 == next(c3, 3)  c5 == next(c4, 4)   c6 == next(c5, 5)
             c7 == next(c6, 6)
             g == [k \in 0..7 |-> CASE k = 0 -> 0 [] k = 1 -> c1 [] k = 2 -> c2 [] k = 3 -> c3
                                    [] k = 4 -> c4 [] k = 5 -> c5 [] k = 6 -> c6 [] k = 7 -> c7]
             F(f) == [k \in 0..7 |-> IF k = 0 THEN 0 ELSE CarryOf(a[k - 1], b[k - 1], f[k - 1])]
  <1>1. \A k \in 0..7 : a[k] \in Byte /\ b[k] \in Byte
    BY DEF U8
  <1>2. \A c \in 0..1, k \in 0..7 : next(c, k) \in 0..1
    BY <1>1, ByteSum
  <1> HIDE DEF next
  <1>3. /\ c1 \in 0..1 /\ c2 \in 0..1 /\ c3 \in 0..1 /\ c4 \in 0..1
        /\ c5 \in 0..1 /\ c6 \in 0..1 /\ c7 \in 0..1
    BY <1>2
  <1>4. /\ g \in [0..7 -> 0..1] /\ g[0] = 0
        /\ g[1] = next(g[0], 0) /\ g[2] = next(g[1], 1) /\ g[3] = next(g[2], 2)
        /\ g[4] = next(g[3], 3) /\ g[5] = next(g[4], 4) /\ g[6] = next(g[5], 5)
        /\ g[7] = next(g[6], 6)
    <2> HIDE DEF c1, c2, c3, c4, c5, c6, c7
    <2>1. /\ g \in [0..7 -> 0..1] /\ g[0] = 0 /\ g[1] = c1 /\ g[2] = c2 /\ g[3] = c3 /\ g[4] = c4
          /\ g[5] = c5 /\ g[6] = c6 /\ g[7] = c7
      BY <1>3
    <2> HIDE DEF g
    <2>2. QED
      BY <2>1 DEF c1, c2, c3, c4, c5, c6, c7
  <1> HIDE DEF g
  <1>5. Carries(a, b, g)
    BY <1>4 DEF next, Carries
  <1>6. g = F(g)
    <2>1. \A k \in 1..7 : g[k] = CarryOf(a[k - 1], b[k - 1], g[k - 1])
      <3> SUFFICES ASSUME NEW k \in 1..7
                   PROVE  g[k] = CarryOf(a[k - 1], b[k - 1], g[k - 1])
        OBVIOUS
      <3>1. k = 1 \/ k = 2 \/ k = 3 \/ k = 4 \/ k = 5 \/ k = 6 \/ k = 7
        BY EightBytes
      <3>2. QED
        BY <1>5, <3>1 DEF Carries
    <2>2. \A k \in 0..7 : g[k] = F(g)[k]
      BY <1>4, <2>1
    <2>3. QED
      BY <1>4, <2>2
  <1> DEFINE carry == CHOOSE f : f = F(f)
  <1>7. carry = F(carry)
    BY <1>6
  <1>8. \A k \in 0..7 : carry[k] = IF k = 0 THEN 0 ELSE CarryOf(a[k - 1], b[k - 1], carry[k - 1])
    <2> HIDE DEF carry
    <2> QED BY <1>7
  <1>9. Add(a, b) = SumWith(a, b, carry)
    BY DEF Add, SumWith, CarryOf, ByteOfSum
  <1>10. carry = [k \in 0..7 |-> carry[k]]
    <2> HIDE DEF carry
    <2> QED BY <1>7
  <1> HIDE DEF carry, F
  <1>11. Carries(a, b, carry)
    <2>1. carry[0] = g[0]
      BY <1>4, <1>8
    <2>2. carry[1] = g[1]
      BY <1>5, <1>8, <2>1 DEF Carries
    <2>3. carry[2] = g[2]
      BY <1>5, <1>8, <2>2 DEF Carries
    <2>4. carry[3] = g[3]
      BY <1>5, <1>8, <2>3 DEF Carries
    <2>5. carry[4] = g[4]
      BY <1>5, <1>8, <2>4 DEF Carries
    <2>6. carry[5] = g[5]
      BY <1>5, <1>8, <2>5 DEF Carries
    <2>7. carry[6] = g[6]
      BY <1>5, <1>8, <2>6 DEF Carries
    <2>8. carry[7] = g[7]
      BY <1>5, <1>8, <2>7 DEF Carries
    <2>9. \A k \in 0..7 : carry[k] = g[k]
      BY <2>1, <2>2, <2>3, <2>4, <2>5, <2>6, <2>7, <2>8, EightBytes, Zenon
    <2>10. carry = g
      BY <1>4, <1>10, <2>9
    <2>11. QED
      BY <1>5, <2>10
  <1>12. QED
    BY <1>9, <1>11

\* A sum is a number, whose low bytes depend on the low bytes of its terms,
\* in whichever order.
LEMMA AddLow ==
  ASSUME NEW a \in U8, NEW b \in U8, NEW x \in U8, NEW y \in U8, NEW n \in 0..8,
         SameLow(a, x, n), SameLow(b, y, n)
  PROVE  Add(a, b) \in U8 /\ SameLow(Add(a, b), Add(x, y), n)
                          /\ SameLow(Add(a, b), Add(y, x), n)
  <1>1. PICK c : Carries(a, b, c) /\ Add(a, b) = SumWith(a, b, c)
    BY AddCarries
  <1>2. PICK d : Carries(x, y, d) /\ Add(x, y) = SumWith(x, y, d)
    BY AddCarries
  <1>3. PICK e : Carries(y, x, e) /\ Add(y, x) = SumWith(y, x, e)
    BY AddCarries
  <1>4. \A k \in 0..7 : a[k] \in Byte /\ b[k] \in Byte /\ x[k] \in Byte /\ y[k] \in Byte
    BY DEF U8
  <1>5. \A k \in 0..7 : c[k] \in 0..1 /\ d[k] \in 0..1 /\ e[k] \in 0..1
    BY <1>1, <1>2, <1>3 DEF Carries
  <1>6. Add(a, b) \in U8
    <2>1. \A k \in 0..7 : ByteOfSum(a[k], b[k], c[k]) \in Byte
      BY <1>4, <1>5, ByteSum
    <2>2. QED
      BY <1>1, <2>1 DEF U8, SumWith
  <1>7. \A k \in 0..7 : k < n => a[k] = x[k] /\ b[k] = y[k]
    BY DEF SameLow
  <1> DEFINE same(k) == c[k] = d[k] /\ c[k] = e[k]
  <1>8. \A k \in 0..7 : k < n /\ same(k) =>
          /\ CarryOf(a[k], b[k], c[k]) = CarryOf(x[k], y[k], d[k])
          /\ CarryOf(a[k], b[k], c[k]) = CarryOf(y[k], x[k], e[k])
          /\ ByteOfSum(a[k], b[k], c[k]) = ByteOfSum(x[k], y[k], d[k])
          /\ ByteOfSum(a[k], b[k], c[k]) = ByteOfSum(y[k], x[k], e[k])
    BY <1>4, <1>5, <1>7, ByteSum
  <1>10. same(0)
    BY <1>1, <1>2, <1>3 DEF Carries
  <1>11. 0 < n => same(1)
    BY <1>1, <1>2, <1>3, <1>8, <1>10 DEF Carries
  <1>12. 1 < n => same(2)
    BY <1>1, <1>2, <1>3, <1>8, <1>11 DEF Carries
  <1>13. 2 < n => same(3)
    BY <1>1, <1>2, <1>3, <1>8, <1>12 DEF Carries
  <1>14. 3 < n => same(4)
    BY <1>1, <1>2, <1>3, <1>8, <1>13 DEF Carries
  <1>15. 4 < n => same(5)
    BY <1>1, <1>2, <1>3, <1>8, <1>14 DEF Carries
  <1>16. 5 < n => same(6)
    BY <1>1, <1>2, <1>3, <1>8, <1>15 DEF Carries
  <1>17. 6 < n => same(7)
    BY <1>1, <1>2, <1>3, <1>8, <1>16 DEF Carries
  <1> HIDE DEF same
  <1>18. \A k \in 0..7 : k < n => same(k)
    BY <1>10, <1>11, <1>12, <1>13, <1>14, <1>15, <1>16, <1>17, EightBytes
  <1>19. \A k \in 0..7 : k < n => Add(a, b)[k] = Add(x, y)[k] /\ Add(a, b)[k] = Add(y, x)[k]
    BY <1>1, <1>2, <1>3, <1>8, <1>18 DEF SumWith
  <1>20. QED
    BY <1>6, <1>19 DEF SameLow

-----------------------------------------------------------------------------
(* Negative numbers *)

\* To negate twice gives each byte back, with the same carries, and a byte that
\* is not 0 ends the carry.
LEMMA NegateByte ==
  \A x \in Byte, c \in 0..1 :
    LET y == ByteOfSum(255 - x, 0, c)
    IN  /\ y \in Byte /\ ByteOfSum(255 - y, 0, c) = x
        /\ CarryOf(255 - y, 0, c) = CarryOf(255 - x, 0, c)
        /\ CarryOf(255 - x, 0, c) \in 0..1
        /\ x > 0 => CarryOf(255 - x, 0, c) = 0
        /\ ByteOfSum(255 - x, 1, 0) = ByteOfSum(255 - x, 0, 1)
        /\ CarryOf(255 - x, 1, 0) = CarryOf(255 - x, 0, 1)
  <1> SUFFICES ASSUME NEW x \in Byte, NEW c \in 0..1
               PROVE  LET y == ByteOfSum(255 - x, 0, c)
                      IN  /\ y \in Byte /\ ByteOfSum(255 - y, 0, c) = x
                          /\ CarryOf(255 - y, 0, c) = CarryOf(255 - x, 0, c)
                          /\ CarryOf(255 - x, 0, c) \in 0..1
                          /\ x > 0 => CarryOf(255 - x, 0, c) = 0
                          /\ ByteOfSum(255 - x, 1, 0) = ByteOfSum(255 - x, 0, 1)
                          /\ CarryOf(255 - x, 1, 0) = CarryOf(255 - x, 0, 1)
    OBVIOUS
  <1> DEFINE y == ByteOfSum(255 - x, 0, c)
  <1>1. x \in 0..255
    BY DEF Byte
  <1>2. /\ ByteOfSum(255 - x, 1, 0) = ByteOfSum(255 - x, 0, 1)
        /\ CarryOf(255 - x, 1, 0) = CarryOf(255 - x, 0, 1)
    BY <1>1 DEF ByteOfSum, CarryOf
  <1>3. CASE c = 0
    <2>1. y = 255 - x /\ CarryOf(255 - x, 0, c) = 0
      BY <1>1, <1>3 DEF ByteOfSum, CarryOf
    <2>2. 255 - y = x /\ y \in 0..255
      BY <1>1, <2>1
    <2>3. ByteOfSum(x, 0, 0) = x /\ CarryOf(x, 0, 0) = 0
      BY <1>1 DEF ByteOfSum, CarryOf
    <2> HIDE DEF y
    <2>4. QED
      BY <1>2, <1>3, <2>1, <2>2, <2>3 DEF Byte, y
  <1>4. CASE c = 1 /\ x = 0
    <2>1. y = 0 /\ CarryOf(255 - x, 0, c) = 1
      BY <1>4 DEF ByteOfSum, CarryOf
    <2> HIDE DEF y
    <2>2. ByteOfSum(255 - y, 0, c) = 0 /\ CarryOf(255 - y, 0, c) = 1
      BY <1>4, <2>1 DEF ByteOfSum, CarryOf
    <2>3. QED
      BY <1>2, <1>4, <2>1, <2>2 DEF Byte, y
  <1>5. CASE c = 1 /\ x # 0
    <2>1. y = 256 - x /\ CarryOf(255 - x, 0, c) = 0
      BY <1>1, <1>5 DEF ByteOfSum, CarryOf
    <2>2. y \in 1..255 /\ 256 - y = x
      BY <1>1, <1>5, <2>1
    <2> HIDE DEF y
    <2>3. ByteOfSum(255 - y, 0, c) = x /\ CarryOf(255 - y, 0, c) = 0
      BY <1>1, <1>5, <2>2 DEF ByteOfSum, CarryOf
    <2>4. QED
      BY <1>2, <1>5, <2>1, <2>2, <2>3 DEF Byte, y
  <1>6. QED
    BY <1>3, <1>4, <1>5

\* The carries of a negation.
NegCarries(v, c) ==
  /\ c \in [0..7 -> 0..1] /\ c[0] = 1
  /\ \A k \in 0..6 : c[k + 1] = CarryOf(255 - v[k], 0, c[k])

NegWith(v, c) == [k \in 0..7 |-> ByteOfSum(255 - v[k], 0, c[k])]

LEMMA NegateCarries ==
  ASSUME NEW v \in U8
  PROVE  \E c : NegCarries(v, c) /\ Negate(v) = NegWith(v, c)
  <1> DEFINE a == [k \in 0..7 |-> 255 - v[k]]
             b == Small(1)
  <1>1. \A k \in 0..7 : v[k] \in Byte /\ 255 - v[k] \in Byte
    BY DEF U8, Byte
  <1>2. a \in U8 /\ \A k \in 0..7 : a[k] = 255 - v[k]
    BY <1>1 DEF U8
  <1>3. b \in U8 /\ b[0] = 1 /\ \A k \in 1..7 : b[k] = 0
    BY DEF U8, Small, Zero, Byte
  <1>4. Negate(v) = Add(a, b)
    BY DEF Negate
  <1> HIDE DEF a, b
  <1>5. PICK d : Carries(a, b, d) /\ Add(a, b) = SumWith(a, b, d)
    BY <1>2, <1>3, AddCarries
  <1> DEFINE c == [k \in 0..7 |-> IF k = 0 THEN 1 ELSE d[k]]
  <1>6. /\ d \in [0..7 -> 0..1] /\ d[0] = 0
        /\ \A k \in 0..6 : d[k + 1] = CarryOf(a[k], b[k], d[k])
    <2>1. ASSUME NEW k \in 0..6
          PROVE  d[k + 1] = CarryOf(a[k], b[k], d[k])
      <3>1. k = 0 \/ k = 1 \/ k = 2 \/ k = 3 \/ k = 4 \/ k = 5 \/ k = 6
        BY EightBytes
      <3>2. QED
        BY <1>5, <3>1 DEF Carries
    <2>2. QED
      BY <1>5, <2>1 DEF Carries
  <1>7. /\ c \in [0..7 -> 0..1] /\ c[0] = 1 /\ \A k \in 1..7 : c[k] = d[k]
    BY <1>6
  <1> HIDE DEF c
  <1>8. ASSUME NEW k \in 0..7
        PROVE  /\ CarryOf(a[k], b[k], d[k]) = CarryOf(255 - v[k], 0, c[k])
               /\ ByteOfSum(a[k], b[k], d[k]) = ByteOfSum(255 - v[k], 0, c[k])
    <2>1. CASE k = 0
      <3>1. a[0] = 255 - v[0] /\ b[0] = 1 /\ d[0] = 0 /\ c[0] = 1 /\ v[0] \in Byte
        BY <1>1, <1>2, <1>3, <1>6, <1>7
      <3>2. /\ CarryOf(255 - v[0], 1, 0) = CarryOf(255 - v[0], 0, 1)
            /\ ByteOfSum(255 - v[0], 1, 0) = ByteOfSum(255 - v[0], 0, 1)
        <4>1. 0 \in 0..1
          OBVIOUS
        <4>2. QED
          BY <3>1, <4>1, NegateByte
      <3>3. QED
        BY <2>1, <3>1, <3>2
    <2>2. CASE k # 0
      <3>1. a[k] = 255 - v[k] /\ b[k] = 0 /\ d[k] = c[k]
        BY <1>2, <1>3, <1>7, <2>2
      <3>2. QED
        BY <3>1
    <2>3. QED
      BY <2>1, <2>2
  <1>9. NegCarries(v, c)
    <2>1. ASSUME NEW k \in 0..6
          PROVE  c[k + 1] = CarryOf(255 - v[k], 0, c[k])
      <3>1. c[k + 1] = d[k + 1] /\ k \in 0..7
        BY <1>7
      <3>2. QED
        BY <1>6, <1>8, <3>1
    <2>2. QED
      BY <1>7, <2>1 DEF NegCarries
  <1>10. Negate(v) = NegWith(v, c)
    <2>1. SumWith(a, b, d) = NegWith(v, c)
      BY <1>8 DEF SumWith, NegWith
    <2>2. QED
      BY <1>4, <1>5, <2>1
  <1>11. QED
    BY <1>9, <1>10

\* A negation is a number.
LEMMA NegateType ==
  ASSUME NEW v \in U8
  PROVE  Negate(v) \in U8
  <1>1. PICK c : NegCarries(v, c) /\ Negate(v) = NegWith(v, c)
    BY NegateCarries
  <1>2. \A k \in 0..7 : v[k] \in Byte /\ c[k] \in 0..1
    BY <1>1 DEF U8, NegCarries
  <1>3. \A k \in 0..7 : ByteOfSum(255 - v[k], 0, c[k]) \in Byte
    BY <1>2, NegateByte
  <1>4. QED
    BY <1>1, <1>3 DEF U8, NegWith

\* The low bytes of a negative number, shown with a minus, read back as the
\* number they are extended to.
LEMMA NegateBack ==
  ASSUME NEW v \in U8, NEW n \in 1..8, v[n - 1] >= 128
  PROVE  Negate(Low(Negate(v), n)) = SignExtend(v, n)
  <1> DEFINE w == Low(Negate(v), n)
  <1>1. PICK c : NegCarries(v, c) /\ Negate(v) = NegWith(v, c)
    BY NegateCarries
  <1>2. /\ Negate(v) \in U8
        /\ \A k \in 0..7 : w[k] = IF k < n THEN ByteOfSum(255 - v[k], 0, c[k]) ELSE 0
    BY <1>1, NegateType DEF Low, NegWith
  <1>3. w \in U8
    BY <1>2 DEF U8, Low, Byte
  <1> HIDE DEF w
  <1>4. PICK d : NegCarries(w, d) /\ Negate(w) = NegWith(w, d)
    BY <1>3, NegateCarries
  <1>5. \A k \in 0..7 : v[k] \in Byte /\ w[k] \in Byte /\ c[k] \in 0..1 /\ d[k] \in 0..1
    BY <1>1, <1>3, <1>4 DEF U8, NegCarries
  <1> DEFINE same(k) == d[k] = IF k < n THEN c[k] ELSE 0
             zero == CarryOf(255, 0, 0) = 0 /\ ByteOfSum(255, 0, 0) = 255
  <1>6. zero
    BY DEF CarryOf, ByteOfSum
  <1>7. same(0)
    BY <1>1, <1>4 DEF NegCarries
  <1>8. ASSUME NEW k \in 0..6, same(k)
        PROVE  same(k + 1)
    <2>1. d[k + 1] = CarryOf(255 - w[k], 0, d[k]) /\ c[k + 1] = CarryOf(255 - v[k], 0, c[k])
      BY <1>1, <1>4 DEF NegCarries
    <2>2. CASE k < n
      <3>1. w[k] = ByteOfSum(255 - v[k], 0, c[k]) /\ d[k] = c[k]
        BY <1>2, <1>8, <2>2
      <3>2. d[k + 1] = c[k + 1]
        <4>1. CarryOf(255 - w[k], 0, c[k]) = CarryOf(255 - v[k], 0, c[k])
          BY <1>5, <3>1, NegateByte
        <4>2. QED
          BY <2>1, <3>1, <4>1
      <3>3. k + 1 = n => d[k + 1] = 0
        <4>1. k + 1 = n => v[k] > 0
          <5> SUFFICES ASSUME k + 1 = n PROVE v[k] > 0
            OBVIOUS
          <5>1. k = n - 1
            OBVIOUS
          <5>2. v[k] >= 128 /\ v[k] \in 0..255
            BY <1>5, <5>1 DEF Byte
          <5>3. QED
            BY <5>2
        <4>2. v[k] > 0 => CarryOf(255 - v[k], 0, c[k]) = 0
          BY <1>5, NegateByte
        <4>3. QED
          BY <2>1, <3>2, <4>1, <4>2
      <3>4. QED
        BY <2>2, <3>2, <3>3
    <2>3. CASE ~(k < n)
      <3>1. w[k] = 0 /\ d[k] = 0
        BY <1>2, <1>8, <2>3
      <3>2. d[k + 1] = 0
        BY <1>6, <2>1, <3>1
      <3>3. QED
        BY <2>3, <3>2
    <2>4. QED
      BY <2>2, <2>3
  <1>9. \A k, m \in 0..7 : m = k + 1 /\ same(k) => same(m)
    <2> SUFFICES ASSUME NEW k \in 0..7, NEW m \in 0..7, m = k + 1, same(k)
                 PROVE  same(m)
      OBVIOUS
    <2>1. k \in 0..6
      OBVIOUS
    <2>2. QED
      BY <1>8, <2>1
  <1>10. \A k \in 0..7 : same(k)
    <2> HIDE DEF same
    <2>1. same(1)
      BY <1>7, <1>9
    <2>2. same(2)
      BY <1>9, <2>1
    <2>3. same(3)
      BY <1>9, <2>2
    <2>4. same(4)
      BY <1>9, <2>3
    <2>5. same(5)
      BY <1>9, <2>4
    <2>6. same(6)
      BY <1>9, <2>5
    <2>7. same(7)
      BY <1>9, <2>6
    <2>8. QED
      BY <1>7, <2>1, <2>2, <2>3, <2>4, <2>5, <2>6, <2>7, EightBytes
  <1>11. ASSUME NEW k \in 0..7
         PROVE  ByteOfSum(255 - w[k], 0, d[k])
                  = IF k < n THEN v[k] ELSE 255 * (v[n - 1] \div 128)
    <2>1. CASE k < n
      <3>1. w[k] = ByteOfSum(255 - v[k], 0, c[k]) /\ d[k] = c[k]
        BY <1>2, <1>10, <2>1
      <3>2. ByteOfSum(255 - w[k], 0, c[k]) = v[k]
        BY <1>5, <3>1, NegateByte
      <3>3. QED
        BY <2>1, <3>1, <3>2
    <2>2. CASE ~(k < n)
      <3>1. w[k] = 0 /\ d[k] = 0
        BY <1>2, <1>10, <2>2
      <3>2. v[n - 1] \in 128..255
        BY DEF U8, Byte
      <3>3. 255 * (v[n - 1] \div 128) = 255
        BY <3>2
      <3>4. QED
        BY <1>6, <2>2, <3>1, <3>3
    <2>3. QED
      BY <2>1, <2>2
  <1>12. NegWith(w, d) = SignExtend(v, n)
    BY <1>11 DEF NegWith, SignExtend
  <1>13. QED
    BY <1>4, <1>12 DEF w

-----------------------------------------------------------------------------
(* Parts of numbers *)

\* The bytes that extend a byte.
LEMMA Signs ==
  \A x \in Byte : /\ 255 * (x \div 128) \in Byte
                  /\ x < 128 => 255 * (x \div 128) = 0
                  /\ 255 * ((255 * (x \div 128)) \div 128) = 255 * (x \div 128)
  <1> SUFFICES ASSUME NEW x \in Byte
               PROVE  /\ 255 * (x \div 128) \in Byte
                      /\ x < 128 => 255 * (x \div 128) = 0
                      /\ 255 * ((255 * (x \div 128)) \div 128) = 255 * (x \div 128)
    OBVIOUS
  <1>1. x \in 0..255
    BY DEF Byte
  <1>2. CASE x < 128
    <2>1. x \div 128 = 0
      BY <1>1, <1>2
    <2>2. QED
      BY <2>1 DEF Byte
  <1>3. CASE x >= 128
    <2>1. x \div 128 = 1
      BY <1>1, <1>3
    <2>2. 255 * (x \div 128) = 255 /\ 255 \div 128 = 1
      BY <2>1
    <2>3. QED
      BY <1>3, <2>1, <2>2 DEF Byte
  <1>4. QED
    BY <1>1, <1>2, <1>3

\* What is made of numbers is a number.
LEMMA NumberTypes ==
  ASSUME NEW v \in U8, NEW w \in U8, NEW n \in 1..8
  PROVE  Low(v, n) \in U8 /\ SignExtend(v, n) \in U8 /\ Join(v, w) \in U8
  <1>1. \A k \in 0..7 : v[k] \in Byte /\ w[k] \in Byte
    BY DEF U8
  <1>2. 0 \in Byte /\ n - 1 \in 0..7
    BY DEF Byte
  <1>3. 255 * (v[n - 1] \div 128) \in Byte
    BY <1>1, <1>2, Signs
  <1>4. Low(v, n) \in U8
    BY <1>1, <1>2 DEF U8, Low
  <1>5. SignExtend(v, n) \in U8
    <2> DEFINE s == 255 * (v[n - 1] \div 128)
    <2>1. SignExtend(v, n) = [k \in 0..7 |-> IF k < n THEN v[k] ELSE s]
      BY DEF SignExtend
    <2>2. s \in Byte
      BY <1>3
    <2> HIDE DEF s
    <2>3. QED
      BY <1>1, <2>1, <2>2 DEF U8
  <1>6. Join(v, w) \in U8
    <2>1. \A k \in 0..7 : (IF k < 4 THEN v[k] ELSE w[k - 4]) \in Byte
      <3> SUFFICES ASSUME NEW k \in 0..7 PROVE (IF k < 4 THEN v[k] ELSE w[k - 4]) \in Byte
        OBVIOUS
      <3>1. ~(k < 4) => k - 4 \in 0..7
        OBVIOUS
      <3>2. QED
        BY <1>1, <3>1
    <2>2. QED
      BY <2>1 DEF U8, Join
  <1>7. QED
    BY <1>4, <1>5, <1>6

\* Numbers with the same low bytes.
LEMMA LowSame ==
  ASSUME NEW v, NEW w, NEW n, SameLow(v, w, n)
  PROVE  Low(v, n) = Low(w, n)
BY DEF SameLow, Low

LEMMA SameLowSign ==
  ASSUME NEW v, NEW n
  PROVE  SameLow(v, SignExtend(v, n), n) /\ SameLow(SignExtend(v, n), v, n)
BY DEF SameLow, SignExtend

\* To keep n low bytes twice, or more of them, is to keep them once.
LEMMA LowTwice ==
  ASSUME NEW v, NEW n \in 0..8, NEW m \in n..8
  PROVE  Low(Low(v, n), m) = Low(v, n) /\ SameLow(Low(v, m), v, n)
BY DEF Low, SameLow

\* An extended number is extended already.
LEMMA ExtendTwice ==
  ASSUME NEW v \in U8, NEW n \in 1..8, NEW m \in n..8
  PROVE  /\ SignExtend(SignExtend(v, n), m) = SignExtend(v, n)
         /\ SignExtend(Low(SignExtend(v, n), m), m) = SignExtend(v, n)
  <1> DEFINE s == SignExtend(v, n)
             t == Low(s, m)
             sign == 255 * (v[n - 1] \div 128)
  <1>1. \A k \in 0..7 : s[k] = IF k < n THEN v[k] ELSE sign
    BY DEF SignExtend
  <1>2. v[n - 1] \in Byte /\ m - 1 \in 0..7 /\ n - 1 \in 0..7
    BY DEF U8
  <1>3. 255 * (sign \div 128) = sign
    BY <1>2, Signs
  <1>4. 255 * (s[m - 1] \div 128) = sign
    <2>1. CASE m = n
      <3>1. s[m - 1] = v[n - 1]
        BY <1>1, <1>2, <2>1
      <3>2. QED
        BY <3>1
    <2>2. CASE m # n
      <3>1. s[m - 1] = sign
        <4> HIDE DEF sign, s
        <4> QED BY <1>1, <1>2, <2>2
      <3>2. QED
        BY <1>3, <3>1
    <2>3. QED
      BY <2>1, <2>2
  <1>5. t[m - 1] = s[m - 1] /\ \A k \in 0..7 : k < m => t[k] = s[k]
    BY <1>2 DEF Low
  <1>6. SignExtend(s, m) = [k \in 0..7 |-> IF k < m THEN s[k] ELSE 255 * (s[m - 1] \div 128)]
        /\ SignExtend(t, m) = [k \in 0..7 |-> IF k < m THEN t[k] ELSE 255 * (t[m - 1] \div 128)]
    BY DEF SignExtend
  <1>7. s = [k \in 0..7 |-> s[k]]
    BY DEF SignExtend
  <1> HIDE DEF s, t, sign
  <1>8. SignExtend(s, m) = s
    <2>1. SignExtend(s, m) = [k \in 0..7 |-> IF k < m THEN s[k] ELSE sign]
      BY <1>4, <1>6
    <2>2. \A k \in 0..7 : (IF k < m THEN s[k] ELSE sign) = s[k]
      BY <1>1
    <2>3. QED
      BY <1>7, <2>1, <2>2
  <1>9. SignExtend(t, m) = s
    <2>1. SignExtend(t, m) = [k \in 0..7 |-> IF k < m THEN t[k] ELSE sign]
      BY <1>4, <1>5, <1>6
    <2>2. \A k \in 0..7 : (IF k < m THEN t[k] ELSE sign) = s[k]
      BY <1>1, <1>5
    <2>3. QED
      BY <1>7, <2>1, <2>2
  <1>10. QED
    BY <1>8, <1>9 DEF s, t

\* A number of 32 bits is shown as it is, or with a minus, so that it reads
\* back extended.
LEMMA TwoGReads ==
  ASSUME NEW v \in U8, (\A k \in 4..7 : v[k] = 0) \/ v = SignExtend(v, 4)
  PROVE  /\ Below2G(v) => v = SignExtend(v, 4) /\ Low(v, 4) = v
         /\ ~Below2G(v) => Negate(Low(Negate(v), 4)) = SignExtend(v, 4)
  <1> DEFINE s == 255 * (v[3] \div 128)
  <1>1. v[3] \in Byte /\ v = [k \in 0..7 |-> v[k]]
    BY DEF U8
  <1>2. v[3] < 128 => s = 0
    BY <1>1, Signs
  <1>3. SignExtend(v, 4) = [k \in 0..7 |-> IF k < 4 THEN v[k] ELSE s]
    BY DEF SignExtend
  <1> HIDE DEF s
  <1>4. v[3] < 128 => Below2G(v)
    <2> SUFFICES ASSUME v[3] < 128 PROVE Below2G(v)
      OBVIOUS
    <2>1. \A k \in 4..7 : v[k] = 0
      <3>1. CASE v = SignExtend(v, 4)
        <4>1. \A k \in 4..7 : SignExtend(v, 4)[k] = s
          BY <1>3
        <4>2. QED
          BY <1>2, <3>1, <4>1
      <3>2. QED
        BY <3>1
    <2>2. QED
      BY <2>1 DEF Below2G
  <1>5. ASSUME Below2G(v)
        PROVE  v = SignExtend(v, 4) /\ Low(v, 4) = v
    <2>1. s = 0 /\ \A k \in 4..7 : v[k] = 0
      BY <1>2, <1>5 DEF Below2G
    <2>2. \A k \in 0..7 : v[k] = (IF k < 4 THEN v[k] ELSE 0)
      BY <2>1
    <2>3. QED
      BY <1>1, <1>3, <2>1, <2>2 DEF Low
  <1>6. ASSUME ~Below2G(v)
        PROVE  Negate(Low(Negate(v), 4)) = SignExtend(v, 4)
    <2>1. v[4 - 1] >= 128
      BY <1>1, <1>4, <1>6 DEF Byte
    <2>2. QED
      BY <2>1, NegateBack
  <1>7. QED
    BY <1>5, <1>6

\* So is a number of 8 bits.
LEMMA ByteReads ==
  ASSUME NEW v \in U8
  PROVE  /\ v[0] < 128 => Low(v, 1) = SignExtend(v, 1)
         /\ ~(v[0] < 128) => Negate(Low(Negate(v), 1)) = SignExtend(v, 1)
  <1>1. v[0] \in Byte
    BY DEF U8
  <1>2. ASSUME v[0] < 128
        PROVE  Low(v, 1) = SignExtend(v, 1)
    <2>1. 255 * (v[1 - 1] \div 128) = 0
      BY <1>1, <1>2, Signs
    <2>2. QED
      BY <2>1 DEF Low, SignExtend
  <1>3. ASSUME ~(v[0] < 128)
        PROVE  Negate(Low(Negate(v), 1)) = SignExtend(v, 1)
    <2>1. v[1 - 1] >= 128
      BY <1>1, <1>3 DEF Byte
    <2>2. QED
      BY <2>1, NegateBack
  <1>4. QED
    BY <1>2, <1>3

\* A number is extended by its lowest byte.
LEMMA ExtendByte ==
  ASSUME NEW v, NEW w, v[0] = w[0]
  PROVE  SignExtend(v, 1) = SignExtend(w, 1)
  <1>1. v[1 - 1] = v[0] /\ w[1 - 1] = w[0]
    OBVIOUS
  <1>2. \A k \in 0..7 : k < 1 => k = 0
    OBVIOUS
  <1>3. QED
    BY <1>1, <1>2 DEF SignExtend

\* Bytes of the buffer.
LEMMA BytesAtType ==
  ASSUME buf \in Seq(Byte), NEW at \in Nat, NEW n \in 0..8, n > 0 => at + n <= Len(buf)
  PROVE  /\ BytesAt(at, n) \in U8 /\ \A k \in 0..7 : k >= n => BytesAt(at, n)[k] = 0
  <1>1. \A k \in 0..7 : k < n => buf[(at + k) + 1] \in Byte
    <2> SUFFICES ASSUME NEW k \in 0..7, k < n PROVE buf[(at + k) + 1] \in Byte
      OBVIOUS
    <2>1. (at + k) + 1 \in 1..Len(buf)
      OBVIOUS
    <2>2. QED
      BY <2>1
  <1>2. 0 \in Byte
    BY DEF Byte
  <1>3. \A k \in 0..7 : (IF k < n THEN buf[(at + k) + 1] ELSE 0) \in Byte
    BY <1>1, <1>2
  <1>4. BytesAt(at, n) \in U8
    BY <1>3 DEF BytesAt, U8
  <1>5. QED
    BY <1>4 DEF BytesAt

LEMMA JoinBytes ==
  ASSUME NEW at \in Nat
  PROVE  Join(BytesAt(at, 4), BytesAt(at + 4, 4)) = BytesAt(at, 8)
  <1>1. ASSUME NEW k \in 0..7
        PROVE  (IF k < 4 THEN BytesAt(at, 4)[k] ELSE BytesAt(at + 4, 4)[k - 4])
                 = buf[(at + k) + 1]
    <2>1. CASE k < 4
      BY <2>1 DEF BytesAt
    <2>2. CASE ~(k < 4)
      <3>1. k - 4 \in 0..7 /\ k - 4 < 4 /\ ((at + 4) + (k - 4)) + 1 = (at + k) + 1
        BY <2>2
      <3>2. BytesAt(at + 4, 4)[k - 4] = buf[((at + 4) + (k - 4)) + 1]
        BY <3>1 DEF BytesAt
      <3>3. QED
        BY <2>2, <3>1, <3>2
    <2>3. QED
      BY <2>1, <2>2
  <1>2. QED
    BY <1>1 DEF Join, BytesAt

-----------------------------------------------------------------------------
(* Numbers as they are shown *)

\* A number without a minus reads back as its low bytes.
LEMMA PlainShown ==
  ASSUME NEW v, NEW w, NEW n \in 1..8, SameLow(v, w, n)
  PROVE  Low(ReadBack(Plain(v, n)), n) = Low(w, n)
  <1>1. ReadBack(Plain(v, n)) = Low(v, n)
    BY DEF ReadBack, Plain
  <1>2. n \in 0..8 /\ n \in n..8
    OBVIOUS
  <1>3. Low(Low(v, n), n) = Low(v, n)
    BY <1>2, LowTwice
  <1>4. Low(v, n) = Low(w, n)
    BY LowSame, Zenon
  <1>5. QED
    BY <1>1, <1>3, <1>4

\* A number of 32 bits, shown with a minus if it is 2G or more, reads back
\* extended.
LEMMA WordShown ==
  ASSUME NEW v \in U8, (\A k \in 4..7 : v[k] = 0) \/ v = SignExtend(v, 4)
  PROVE  ReadBack(IF Below2G(v) THEN Plain(v, 4) ELSE Minus(v, 4)) = SignExtend(v, 4)
  <1>1. /\ Below2G(v) => v = SignExtend(v, 4) /\ Low(v, 4) = v
        /\ ~Below2G(v) => Negate(Low(Negate(v), 4)) = SignExtend(v, 4)
    BY TwoGReads
  <1>2. CASE Below2G(v)
    BY <1>1, <1>2, Zenon DEF ReadBack, Plain
  <1>3. CASE ~Below2G(v)
    BY <1>1, <1>3, Zenon DEF ReadBack, Minus
  <1>4. QED
    BY <1>2, <1>3

\* So does a number of 8 bits.
LEMMA ByteShown ==
  ASSUME NEW v \in U8, NEW w, v[0] = w[0]
  PROVE  ReadBack(IF v[0] < 128 THEN Plain(v, 1) ELSE Minus(v, 1)) = SignExtend(w, 1)
  <1>1. /\ v[0] < 128 => Low(v, 1) = SignExtend(v, 1)
        /\ ~(v[0] < 128) => Negate(Low(Negate(v), 1)) = SignExtend(v, 1)
    BY ByteReads
  <1>2. SignExtend(v, 1) = SignExtend(w, 1)
    BY ExtendByte, Zenon
  <1>3. CASE v[0] < 128
    BY <1>1, <1>2, <1>3, Zenon DEF ReadBack, Plain
  <1>4. CASE ~(v[0] < 128)
    BY <1>1, <1>2, <1>4, Zenon DEF ReadBack, Minus
  <1>5. QED
    BY <1>3, <1>4

\* Small numbers have one byte.
LEMMA SmallNumber ==
  ASSUME NEW n \in Byte
  PROVE  Small(n) \in U8 /\ Zero \in U8 /\ \A k \in 1..7 : Small(n)[k] = 0
BY DEF Small, Zero, U8, Byte

\* Numbers made of numbers, one at a time.
LEMMA PartTypes ==
  /\ \A v \in U8, n \in 1..8 : Low(v, n) \in U8 /\ SignExtend(v, n) \in U8
  /\ \A v, w \in U8 : Join(v, w) \in U8
  <1>1. 1 \in 1..8
    OBVIOUS
  <1>2. QED
    BY <1>1, NumberTypes

\* A byte extended to 16 or 32 bits.
LEMMA FromByteType ==
  ASSUME NEW v \in U8, NEW z
  PROVE  /\ FromByte(v, z) \in U8 /\ FromByte(v, z)[0] = v[0]
         /\ \E m \in {2, 4} : FromByte(v, z) = Low(SignExtend(v, 1), m) /\ (z # 0 => m = 4)
  <1>1. PICK m \in {2, 4} : FromByte(v, z) = Low(SignExtend(v, 1), m) /\ (z # 0 => m = 4)
    BY DEF FromByte
  <1>2. SignExtend(v, 1) \in U8 /\ SignExtend(v, 1)[0] = v[0]
    <2>1. 1 \in 1..8
      OBVIOUS
    <2>2. SignExtend(v, 1) \in U8
      BY <2>1, PartTypes
    <2>3. SignExtend(v, 1)[0] = v[0]
      BY DEF SignExtend
    <2>4. QED
      BY <2>2, <2>3
  <1>3. m \in 1..8 /\ 0 < m
    OBVIOUS
  <1>4. Low(SignExtend(v, 1), m) \in U8
    BY <1>2, <1>3, PartTypes
  <1>5. Low(SignExtend(v, 1), m)[0] = SignExtend(v, 1)[0]
    BY <1>3 DEF Low
  <1>6. QED
    BY <1>1, <1>2, <1>4, <1>5

\* What is in imm or disp has its bytes in the buffer.
ReadSlice(s) ==
  /\ s.at \in Nat /\ s.len \in Nat
  /\ s.len > 0 => s.at + s.len <= Len(buf) /\ s.at < 31

\* An instruction that the first attempt has decoded.
DecodedFirst ==
  /\ buf \in Seq(Byte) /\ dsz \in 0..2 /\ dest \in Icodes /\ state \in DecoderStates
  /\ dest.encoding \in DOMAIN Encodings
  /\ Encodings[dest.encoding].args \in [1..4 -> Args]
  /\ state.insn_size \in 1..31
  /\ Filled(buf, dsz, p, dest, state, state.insn_size)
  /\ AllSourced(dsz, p, dest, state)
  /\ ReadSlice(dest.imm) /\ ReadSlice(dest.disp)

\* Slices that fill what has been read are inside of it.
LEMMA AdjoinInside ==
  ASSUME NEW i \in Nat, NEW k \in Nat, NEW s, NEW t, Adjoin(s, t, i, k),
         s.at \in Nat, s.len \in Nat, t.at \in Nat, t.len \in Nat
  PROVE  (s.len > 0 => s.at + s.len <= k) /\ (t.len > 0 => t.at + t.len <= k)
BY DEF Adjoin

LEMMA FirstDecoded ==
  ASSUME Inv, ReadSoFar, SourcedSoFar, Succeeded, attempt = 1
  PROVE  DecodedFirst
  <1> DEFINE k == state.insn_size
             i == Opened(buf, dest, state)
  <1>1. /\ Filled(buf, dsz, p, dest, state, k)
        /\ dest \in Icodes /\ state \in DecoderStates
    BY ReadReturned
  <1>2. buf \in Seq(Byte) /\ dsz \in 0..2
    BY ModesAssumption DEF Inv, TypeOK
  <1>3. Judged
    BY DEF Succeeded, Returning, Judged
  <1>4. dest.encoding \in DOMAIN Encodings
    BY <1>1, <1>3 DEF ReadSoFar, Icodes
  <1>5. Encodings[dest.encoding].args \in [1..4 -> Args]
    BY <1>4, EncodingsAssumption
  <1>6. k \in 1..num_bytes
    BY DEF Inv, Positions, Succeeded, Returning
  <1>7. num_bytes \in Nat /\ num_bytes <= Len(buf) /\ num_bytes <= MaxBytes /\ MaxBytes <= 31
        /\ MaxBytes \in Nat /\ Len(buf) \in Nat
    <2>1. MaxBytes \in 1..31 /\ Len(buf) \in Nat
      BY <1>2, BytesAssumption
    <2>2. num_bytes \in Nat /\ num_bytes <= Len(buf)
      BY <1>2, NumBytes
    <2>3. num_bytes <= MaxBytes
      BY <2>1 DEF num_bytes
    <2>4. QED
      BY <2>1, <2>2, <2>3
  <1>8. AllSourced(dsz, p, dest, state)
    BY <1>3 DEF SourcedSoFar
  <1>9. /\ dest.imm.at \in Nat /\ dest.imm.len \in Nat
        /\ dest.disp.at \in Nat /\ dest.disp.len \in Nat
    BY <1>1 DEF Icodes, Slices
  <1>10. i \in Nat
    BY <1>1, OpenedType
  <1>11. Adjoin(dest.disp, dest.imm, i, k) \/ Adjoin(dest.imm, dest.disp, i, k)
    BY <1>1 DEF Filled
  <1> HIDE DEF k, i
  <1>12. ReadSlice(dest.imm) /\ ReadSlice(dest.disp)
    <2>1. k \in Nat /\ k <= Len(buf) /\ k <= 31
      BY <1>6, <1>7
    <2>2. /\ dest.imm.len > 0 => dest.imm.at + dest.imm.len <= k
          /\ dest.disp.len > 0 => dest.disp.at + dest.disp.len <= k
      BY <1>9, <1>10, <1>11, <2>1, AdjoinInside
    <2>3. ReadSlice(dest.imm)
      BY <1>7, <1>9, <2>1, <2>2 DEF ReadSlice
    <2>4. ReadSlice(dest.disp)
      BY <1>7, <1>9, <2>1, <2>2 DEF ReadSlice
    <2>5. QED
      BY <2>3, <2>4
  <1>13. k \in 1..31
    BY <1>6, <1>7
  <1>14. QED
    BY <1>1, <1>2, <1>4, <1>5, <1>8, <1>12, <1>13 DEF DecodedFirst, k

\* The bytes of a slice are a number; those behind it are 0.
LEMMA SliceNumber ==
  ASSUME buf \in Seq(Byte), NEW s, ReadSlice(s)
  PROVE  SliceBytes(s) \in U8 /\ \A k \in 0..7 : k >= s.len => SliceBytes(s)[k] = 0
  <1> DEFINE n == IF s.len <= 8 THEN s.len ELSE 8
  <1>1. /\ s.at \in Nat /\ s.len \in Nat /\ n \in 0..8 /\ Len(buf) \in Nat
        /\ n > 0 => s.at + n <= Len(buf)
    <2>1. Len(buf) \in Nat
      OBVIOUS
    <2>2. s.at \in Nat /\ s.len \in Nat /\ (s.len > 0 => s.at + s.len <= Len(buf))
      BY DEF ReadSlice
    <2>3. n \in 0..8 /\ n <= s.len
      BY <2>2
    <2> HIDE DEF n
    <2>4. n > 0 => s.at + n <= Len(buf)
      BY <2>1, <2>2, <2>3
    <2>5. QED
      BY <2>1, <2>2, <2>3, <2>4
  <1>2. \A k \in 0..7 : k < n <=> k < s.len
    BY <1>1
  <1> HIDE DEF n
  <1>3. SliceBytes(s) = BytesAt(s.at, n)
    BY <1>2 DEF SliceBytes, BytesAt
  <1>4. /\ BytesAt(s.at, n) \in U8
        /\ \A k \in 0..7 : k >= n => BytesAt(s.at, n)[k] = 0
    BY <1>1, BytesAtType
  <1>5. \A k \in 0..7 : k >= s.len => k >= n
    BY <1>1, <1>2
  <1>6. QED
    BY <1>3, <1>4, <1>5

-----------------------------------------------------------------------------
(* Immediates *)

\* What is known of an immediate a of a decoded instruction, whose encoding e
\* has r for it.
ImmKnown(a, e, r) ==
  LET k == state.insn_size
      wide == "imm64_disp" \in e.etags
  IN  /\ a.type = r.type /\ a.type \in ImmTypes /\ a.size \in 1..8
      /\ a.type = "imm_implict" => a.value = r.value /\ r.value \in Byte
      /\ a.type \in {"imm_1st", "imm_both"} => ImmediateRead(dest, state, k, e, a.size)
      /\ a.type = "imm_2nd" => SecondRead(dest, state, k, a.size) /\ ~wide
      /\ dest.sx <=> "sx_byte" \in e.etags
      /\ dest.sx => a.type \in {"imm_1st", "imm_both"}
      /\ "relative" \in e.etags =>
           /\ a.type = "imm_1st" /\ "imm64_sx32" \in e.etags /\ ~wide
           /\ a.size = (IF dsz = 2 THEN 8 ELSE SizeOf(dest.osz))
           /\ dsz # 2 => dest.osz \in 0..1
      /\ wide \/ a.type = "imm_2nd" => ~dest.ea.disp8

\* A size is one of those that an instruction can have.
LEMMA SizesIn ==
  ASSUME NEW d \in 0..2, NEW ic, ic.osz \in 0..2, ic.asz \in 0..2, NEW n \in Int,
         n <= 8, n # -6, SizeIn(d, ic, n) > 0
  PROVE  SizeIn(d, ic, n) \in 1..8
  <1>1. SizeOf(ic.osz) \in {2, 4, 8} /\ SizeOf(ic.asz) \in {2, 4, 8}
    BY DEF SizeOf
  <1>2. n \in {-1, -2, -3, -4, -5, -7, -8} \/ n \in 0..8 \/ n < -8
    OBVIOUS
  <1>3. CASE n \in 0..8
    <2>1. SizeIn(d, ic, n) = n
      BY <1>3 DEF SizeIn
    <2>2. QED
      BY <1>3, <2>1
  <1>4. CASE n < -8
    <2>1. SizeIn(d, ic, n) = 0
      BY <1>4 DEF SizeIn
    <2>2. QED
      BY <2>1
  <1>5. CASE n \in {-1, -2, -3, -4, -5, -7, -8}
    <2>1. SizeIn(d, ic, n) \in {SizeOf(ic.osz), SizeOf(ic.asz), 2, 4, 8}
      BY <1>5 DEF SizeIn
    <2>2. QED
      BY <1>1, <2>1
  <1>6. QED
    BY <1>2, <1>3, <1>4, <1>5

LEMMA ImmediateKnown ==
  ASSUME DecodedFirst, NEW i \in 1..4, NEW a, a = dest.args[i], a.type \in ImmTypes,
         NEW e, e = Encodings[dest.encoding], NEW r, r = e.args[i]
  PROVE  ImmKnown(a, e, r)
  <1> DEFINE k == state.insn_size
             st == state
             ic == dest
  <1>1. /\ dsz \in 0..2 /\ ic \in Icodes /\ ic.encoding \in DOMAIN Encodings /\ r \in Args
        /\ Filled(buf, dsz, p, ic, st, k)
        /\ AllSourced(dsz, p, ic, st)
    BY DEF DecodedFirst
  <1>2. a.type # "void" /\ a.type # "mem_ea" /\ a.type \notin RegTypes
    BY DEF ImmTypes, RegTypes
  <1>3. /\ OperandRead(dsz, p, ic, st, k, e, i)
        /\ ic.sx => "sx_byte" \in e.etags
        /\ dsz # 2 => ic.osz # 2
        /\ Displaced(dsz, ic, st)
    BY <1>1, <1>2 DEF AllSourced
  <1>4. /\ a.type = r.type
        /\ a.size = SizeIn(dsz, ic, r.size) /\ a.size > 0
        /\ a.type = "imm_implict" => a.value = r.value
        /\ a.type \in {"imm_1st", "imm_both"} => ImmediateRead(ic, st, k, e, a.size)
        /\ a.type = "imm_2nd" => SecondRead(ic, st, k, a.size)
    BY <1>2, <1>3 DEF OperandRead
  <1>5. ic.osz \in 0..2 /\ ic.asz \in 0..2 /\ r.size \in Int /\ r.value \in Byte
    BY <1>1 DEF Icodes, Args
  <1>6. /\ r.size <= 8 /\ r.size # -6
        /\ "sx_byte" \in e.etags => r.type \in {"imm_1st", "imm_both"}
        /\ "relative" \in e.etags => /\ r.type = "imm_1st" /\ r.size = -8
                                     /\ "imm64_sx32" \in e.etags
        /\ r.type = "imm_2nd" => ~Wide(e)
    BY <1>1, <1>4, ImmediateKinds
  <1>7. e \in {Encodings[x] : x \in DOMAIN Encodings}
    BY <1>1
  <1> HIDE DEF k, st, ic
  <1>8. a.size \in 1..8
    BY <1>1, <1>4, <1>5, <1>6, SizesIn
  <1>9. "sx_byte" \in e.etags => ic.sx
    BY <1>4, <1>6 DEF ImmediateRead
  <1>10. "imm64_disp" \in e.etags => ~e.regop /\ "relative" \notin e.etags
    BY <1>7, NumbersAssumption, Zenon
  <1>11. e.regop => "disp" \notin FieldsOf(e, r)
    BY <1>7, OperandsAssumption, Zenon
  <1>12. "imm64_disp" \in e.etags \/ a.type = "imm_2nd" => ~e.regop
    <2>1. r.type = "imm_2nd" => "disp" \in FieldsOf(e, r)
      BY DEF FieldsOf
    <2>2. QED
      BY <1>4, <1>10, <1>11, <2>1
  <1>13. ~e.regop => ~ic.ea.disp8
    BY <1>1, <1>3 DEF Filled, Displaced, ModrmMemory, ic
  <1>14. a.type = "imm_2nd" => "imm64_disp" \notin e.etags
    BY <1>4, <1>6 DEF Wide
  <1>15. "relative" \in e.etags => a.size = (IF dsz = 2 THEN 8 ELSE SizeOf(ic.osz))
    <2>1. SizeIn(dsz, ic, -8) = (IF dsz = 2 THEN 8 ELSE SizeOf(ic.osz))
      BY DEF SizeIn
    <2>2. QED
      BY <1>4, <1>6, <2>1
  <1>16. QED
    BY <1>3, <1>4, <1>5, <1>6, <1>8, <1>9, <1>10, <1>12, <1>13, <1>14, <1>15 DEF ImmKnown, ic, st, k

\* The number shown for an immediate has its meaning.
ImmShown(i, rel) ==
  Low(ReadBack(ImmNumber(i, rel)), dest.args[i].size)
    = Low(ImmMeaning(i, rel), dest.args[i].size)

\* An immediate that is not extended is shown at the size of the operand, and
\* as 32 bits in an operand of eight bytes that has no others.
LEMMA ShownAtSize ==
  ASSUME NEW i \in 1..4, NEW rel, ~Relative, ~dest.sx, NEW n \in 1..8, n = dest.args[i].size,
         NEW v \in U8, v = ImmValue(i), NEW w, w = ImmMeaning(i, rel),
         n = 8 /\ "imm64_disp" \notin Encoding.etags =>
           /\ (\A k \in 4..7 : v[k] = 0) \/ v = SignExtend(v, 4)
           /\ w = SignExtend(v, 4),
         n # 8 \/ "imm64_disp" \in Encoding.etags => SameLow(v, w, n)
  PROVE  ImmShown(i, rel)
  <1>1. CASE n = 8 /\ "imm64_disp" \notin Encoding.etags
    <2>1. ImmNumber(i, rel) = IF Below2G(v) THEN Plain(v, 4) ELSE Minus(v, 4)
      BY <1>1 DEF ImmNumber
    <2>2. ReadBack(IF Below2G(v) THEN Plain(v, 4) ELSE Minus(v, 4)) = SignExtend(v, 4)
      BY <1>1, WordShown
    <2>3. ReadBack(ImmNumber(i, rel)) = w
      BY <1>1, <2>1, <2>2
    <2>4. QED
      BY <2>3 DEF ImmShown
  <1>2. CASE n # 8 \/ "imm64_disp" \in Encoding.etags
    <2>1. ImmNumber(i, rel) = Plain(v, n)
      BY <1>2 DEF ImmNumber
    <2>2. Low(ReadBack(Plain(v, n)), n) = Low(w, n)
      BY <1>2, PlainShown
    <2>3. QED
      BY <2>1, <2>2 DEF ImmShown
  <1>3. QED
    BY <1>1, <1>2

\* Immediates that are implied by the opcode.
LEMMA ImplicitShown ==
  ASSUME NEW i \in 1..4, NEW rel, NEW a, a = dest.args[i], NEW r, r = Encoding.args[i],
         ImmKnown(a, Encoding, r), a.type = "imm_implict"
  PROVE  ImmShown(i, rel)
  <1> DEFINE v == Small(a.value)
             n == a.size
  <1>1. /\ a.size \in 1..8 /\ a.value = r.value /\ r.value \in Byte
        /\ ~dest.sx /\ ~Relative
    BY DEF ImmKnown, Relative
  <1>2. v \in U8 /\ \A k \in 1..7 : v[k] = 0
    BY <1>1, SmallNumber
  <1>3. ImmValue(i) = v
    BY DEF ImmValue
  <1>4. ImmMeaning(i, rel) = v
    BY <1>1 DEF ImmMeaning
  <1> HIDE DEF v
  <1>5. Below2G(v)
    BY <1>2 DEF Below2G
  <1>6. \A k \in 4..7 : v[k] = 0
    BY <1>2
  <1>7. v = SignExtend(v, 4)
    BY <1>2, <1>5, <1>6, TwoGReads
  <1>8. SameLow(v, v, n)
    BY DEF SameLow
  <1>9. QED
    BY <1>1, <1>2, <1>3, <1>4, <1>7, <1>8, ShownAtSize

\* What imm and disp hold.
LEMMA FieldNumbers ==
  ASSUME DecodedFirst
  PROVE  /\ SliceBytes(dest.imm) \in U8 /\ SliceBytes(dest.disp) \in U8
         /\ ~dest.sx => Imm = SliceBytes(dest.imm)
         /\ ~dest.ea.disp8 => Disp = SliceBytes(dest.disp)
BY SliceNumber DEF DecodedFirst, Imm, Disp

\* Second immediates.
LEMMA SecondShown ==
  ASSUME DecodedFirst, NEW i \in 1..4, NEW rel, NEW a, a = dest.args[i], NEW r, r = Encoding.args[i],
         ImmKnown(a, Encoding, r), a.type = "imm_2nd"
  PROVE  ImmShown(i, rel)
  <1> DEFINE n == a.size
             len == dest.disp.len
             v == SliceBytes(dest.disp)
  <1>1. /\ n \in 1..8 /\ SecondRead(dest, state, state.insn_size, n)
        /\ "imm64_disp" \notin Encoding.etags /\ ~dest.sx /\ ~Relative /\ ~dest.ea.disp8
    BY DEF ImmKnown, Relative
  <1>2. len = (IF n = 8 THEN 4 ELSE n) /\ dest.disp.at = state.imm2_offset
        /\ state.insn_size = state.imm2_offset + len
    BY <1>1 DEF SecondRead
  <1>3. len \in 1..8 /\ state.imm2_offset \in Nat
    BY <1>1, <1>2 DEF DecodedFirst, DecoderStates
  <1>4. v \in U8 /\ \A k \in 0..7 : k >= len => v[k] = 0
    BY <1>3, SliceNumber DEF DecodedFirst
  <1>5. v = BytesAt(state.imm2_offset, len)
    BY <1>2 DEF SliceBytes
  <1>6. state.insn_size - state.imm2_offset = len
    BY <1>2, <1>3
  <1>7. ImmValue(i) = v
    BY <1>1 DEF ImmValue, Disp
  <1>8. ImmMeaning(i, rel) = SignExtend(v, len)
    BY <1>1, <1>5, <1>6 DEF ImmMeaning, SignedBytes
  <1> HIDE DEF v, len, n
  <1>9. n = 8 => \A k \in 4..7 : v[k] = 0
    BY <1>2, <1>4
  <1>10. n # 8 => SameLow(v, SignExtend(v, len), n)
    BY <1>2, SameLowSign
  <1>11. n = 8 => len = 4
    BY <1>2
  <1>12. QED
    BY <1>1, <1>4, <1>7, <1>8, <1>9, <1>10, <1>11, ShownAtSize DEF n

\* The bytes of an immediate of the instruction's own, which are in the buffer
\* from imm1_offset on.
OwnImm(n) ==
  /\ SliceBytes(dest.imm) = BytesAt(state.imm1_offset, n) /\ BytesAt(state.imm1_offset, n) \in U8
  /\ \A k \in 0..7 : k >= n => BytesAt(state.imm1_offset, n)[k] = 0
  /\ FirstImmEnd - state.imm1_offset = n

LEMMA OwnImmediate ==
  ASSUME DecodedFirst, NEW e, NEW size, ImmediateRead(dest, state, state.insn_size, e, size),
         ~(Wide(e) /\ size = 8), NEW n \in 1..8, dest.imm.len = n
  PROVE  OwnImm(n)
  <1> DEFINE at == state.imm1_offset
  <1>1. dest.imm.at = at /\ EndOfFirst(state, state.insn_size) = at + n
    BY DEF ImmediateRead
  <1>2. at \in Nat
    BY DEF DecodedFirst, DecoderStates
  <1>3. SliceBytes(dest.imm) = BytesAt(at, n)
    BY <1>1 DEF SliceBytes
  <1>4. /\ SliceBytes(dest.imm) \in U8
        /\ \A k \in 0..7 : k >= n => SliceBytes(dest.imm)[k] = 0
    BY SliceNumber DEF DecodedFirst
  <1>5. FirstImmEnd = at + n
    BY <1>1 DEF FirstImmEnd, EndOfFirst
  <1> HIDE DEF at
  <1>6. FirstImmEnd - at = n
    BY <1>2, <1>5
  <1>7. QED
    BY <1>3, <1>4, <1>6 DEF OwnImm, at

\* A byte that is extended is shown as a byte.
LEMMA ExtendedShown ==
  ASSUME DecodedFirst, NEW i \in 1..4, NEW rel, NEW a, a = dest.args[i], NEW r, r = Encoding.args[i],
         ImmKnown(a, Encoding, r), dest.sx, ~Relative
  PROVE  ImmShown(i, rel)
  <1> DEFINE b == BytesAt(state.imm1_offset, 1)
             v == ImmValue(i)
  <1>1. /\ a.type \in {"imm_1st", "imm_both"} /\ "sx_byte" \in Encoding.etags
        /\ ImmediateRead(dest, state, state.insn_size, Encoding, a.size)
    BY DEF ImmKnown
  <1>2. ~Wide(Encoding) /\ dest.imm.len = 1
    BY <1>1 DEF ImmediateRead, Wide
  <1>3. OwnImm(1)
    BY <1>1, <1>2, OwnImmediate
  <1>4. b \in U8 /\ SliceBytes(dest.imm) = b
    BY <1>3 DEF OwnImm
  <1> HIDE DEF b
  <1>5. Imm = FromByte(b, dest.osz)
    BY <1>4 DEF Imm
  <1>7. Imm \in U8 /\ Imm[0] = b[0]
    BY <1>4, <1>5, FromByteType
  <1>8. "imm64_disp" \in Encoding.etags => Disp \in U8
    BY FieldNumbers DEF ImmKnown
  <1>9. v \in U8 /\ v[0] = b[0]
    <2>1. v \in {Imm, SignExtend(Imm, 4)}
            \/ ("imm64_disp" \in Encoding.etags /\ v = Join(Imm, Disp))
      BY <1>1 DEF ImmValue
    <2>2. Imm \in U8 /\ SignExtend(Imm, 4) \in U8
      BY <1>7, PartTypes
    <2>3. Disp \in U8 => Join(Imm, Disp) \in U8
      BY <1>7, PartTypes
    <2>4. SignExtend(Imm, 4)[0] = Imm[0] /\ Join(Imm, Disp)[0] = Imm[0]
      BY DEF SignExtend, Join
    <2> HIDE DEF v
    <2>5. QED
      BY <1>7, <1>8, <2>1, <2>2, <2>3, <2>4
  <1>10. ImmMeaning(i, rel) = SignExtend(b, 1)
    <2>1. a.type \notin {"imm_implict", "imm_2nd"}
      BY <1>1
    <2>2. ImmMeaning(i, rel) = SignedBytes(state.imm1_offset, FirstImmEnd)
      BY <2>1 DEF ImmMeaning
    <2>3. QED
      BY <1>3, <2>2 DEF SignedBytes, OwnImm, b
  <1>11. ImmNumber(i, rel) = IF v[0] < 128 THEN Plain(v, 1) ELSE Minus(v, 1)
    BY DEF ImmNumber
  <1> HIDE DEF v
  <1>12. ReadBack(IF v[0] < 128 THEN Plain(v, 1) ELSE Minus(v, 1)) = SignExtend(b, 1)
    BY <1>9, ByteShown
  <1>13. QED
    BY <1>10, <1>11, <1>12 DEF ImmShown

\* An immediate that fills eight bytes is shown as such.
LEMMA WideShown ==
  ASSUME DecodedFirst, NEW i \in 1..4, NEW rel, NEW a, a = dest.args[i], NEW r, r = Encoding.args[i],
         ImmKnown(a, Encoding, r), ~dest.sx, ~Relative, a.type \in {"imm_1st", "imm_both"},
         Wide(Encoding), a.size = 8
  PROVE  ImmShown(i, rel)
  <1> DEFINE at == state.imm1_offset
             v == BytesAt(at, 8)
             n == 8
  <1>1. /\ ImmediateRead(dest, state, state.insn_size, Encoding, a.size)
        /\ "imm64_disp" \in Encoding.etags /\ ~dest.ea.disp8
    BY DEF ImmKnown, Wide
  <1>2. /\ dest.imm.at = at /\ EndOfFirst(state, state.insn_size) = at + 8
        /\ dest.imm.len = 4 /\ dest.disp = [at |-> at + 4, len |-> 4]
    BY <1>1 DEF ImmediateRead
  <1>3. at \in Nat
    BY DEF DecodedFirst, DecoderStates
  <1>4. Imm = BytesAt(at, 4) /\ Disp = BytesAt(at + 4, 4)
    BY <1>1, <1>2 DEF Imm, Disp, SliceBytes
  <1>5. FirstImmEnd - at = 8
    BY <1>2, <1>3 DEF FirstImmEnd, EndOfFirst
  <1>6. Join(Imm, Disp) = v
    BY <1>3, <1>4, JoinBytes
  <1>7. v \in U8
    BY <1>6, FieldNumbers, PartTypes, <1>1
  <1>8. ImmValue(i) = v
    BY <1>1, <1>6 DEF ImmValue
  <1>9. ImmMeaning(i, rel) = SignExtend(v, 8)
    BY <1>5 DEF ImmMeaning, SignedBytes
  <1>10. SameLow(v, SignExtend(v, 8), 8)
    BY SameLowSign
  <1> HIDE DEF v, at
  <1>11. ImmShown(i, rel)
    <2>1. n \in 1..8 /\ n = dest.args[i].size
      OBVIOUS
    <2>2. n = 8 /\ SameLow(v, SignExtend(v, 8), n)
      BY <1>10
    <2> HIDE DEF n
    <2>3. QED
      BY <1>1, <1>7, <1>8, <1>9, <2>1, <2>2, ShownAtSize
  <1>12. QED
    BY <1>11

\* The others are shown as they are, or as 32 bits.
LEMMA OwnShown ==
  ASSUME DecodedFirst, NEW i \in 1..4, NEW rel, NEW a, a = dest.args[i], NEW r, r = Encoding.args[i],
         ImmKnown(a, Encoding, r), ~dest.sx, ~Relative, a.type \in {"imm_1st", "imm_both"},
         ~(Wide(Encoding) /\ a.size = 8)
  PROVE  ImmShown(i, rel)
  <1> DEFINE len == dest.imm.len
             b == BytesAt(state.imm1_offset, len)
             n == a.size
             v == IF n = 8 THEN SignExtend(b, 4) ELSE b
  <1>1. /\ ImmediateRead(dest, state, state.insn_size, Encoding, n) /\ n \in 1..8
        /\ "sx_byte" \notin Encoding.etags
    BY DEF ImmKnown
  <1>2. /\ n = 8 => "imm64_disp" \notin Encoding.etags
        /\ n = 8 => len = 4 /\ "imm64_sx32" \in Encoding.etags
        /\ n # 8 => len = n
    BY <1>1 DEF ImmediateRead, Wide
  <1>3. len \in 1..8
    BY <1>1, <1>2
  <1>4. OwnImm(len)
    BY <1>1, <1>3, OwnImmediate
  <1>5. b \in U8 /\ Imm = b /\ FirstImmEnd - state.imm1_offset = len
    BY <1>4, FieldNumbers DEF OwnImm
  <1>6. ImmMeaning(i, rel) = SignExtend(b, len)
    <2>1. a.type \notin {"imm_implict", "imm_2nd"}
      OBVIOUS
    <2>2. ImmMeaning(i, rel) = SignedBytes(state.imm1_offset, FirstImmEnd)
      BY <2>1 DEF ImmMeaning
    <2>3. QED
      BY <1>5, <2>2 DEF SignedBytes
  <1>7. ImmValue(i) = v
    BY <1>2, <1>5 DEF ImmValue
  <1> HIDE DEF b
  <1>8. 4 \in 1..8 /\ 4 \in 4..8
    OBVIOUS
  <1>9. SignExtend(b, 4) \in U8 /\ SignExtend(SignExtend(b, 4), 4) = SignExtend(b, 4)
    BY <1>5, <1>8, PartTypes, ExtendTwice
  <1>10. v \in U8 /\ (n = 8 => v = SignExtend(v, 4) /\ SignExtend(b, len) = SignExtend(v, 4))
    BY <1>2, <1>5, <1>9
  <1>11. n # 8 => SameLow(v, SignExtend(b, len), n)
    BY <1>2, SameLowSign
  <1> HIDE DEF v, len
  <1>12. QED
    BY <1>1, <1>2, <1>6, <1>7, <1>10, <1>11, ShownAtSize

\* A displacement is what its bytes say, as far as a jump's target keeps it.
LEMMA JumpNumber ==
  ASSUME DecodedFirst, NEW i \in 1..4, NEW a, a = dest.args[i], NEW r, r = Encoding.args[i],
         ImmKnown(a, Encoding, r), Relative, ~ShortJumpWith66,
         NEW m, m = SignedBytes(state.imm1_offset, FirstImmEnd)
  PROVE  m \in U8 /\ ImmValue(i) \in U8 /\ SameLow(ImmValue(i), m, a.size)
  <1> DEFINE len == dest.imm.len
             b == BytesAt(state.imm1_offset, len)
             n == a.size
  <1>1. /\ ImmediateRead(dest, state, state.insn_size, Encoding, n) /\ n \in 1..8
        /\ dest.sx <=> "sx_byte" \in Encoding.etags
        /\ a.type = "imm_1st" /\ "imm64_sx32" \in Encoding.etags
        /\ "imm64_disp" \notin Encoding.etags
        /\ n = (IF dsz = 2 THEN 8 ELSE SizeOf(dest.osz))
        /\ dsz # 2 => dest.osz \in 0..1
    BY DEF ImmKnown, Relative
  <1>2. len = IF dest.sx THEN 1 ELSE IF n = 8 THEN 4 ELSE n
    BY <1>1 DEF ImmediateRead
  <1>3. len \in 1..8
    BY <1>1, <1>2
  <1>4. OwnImm(len)
    BY <1>1, <1>3, OwnImmediate DEF Wide
  <1>5. b \in U8 /\ SliceBytes(dest.imm) = b /\ m = SignExtend(b, len)
    BY <1>4 DEF OwnImm, SignedBytes
  <1>6. Imm = IF dest.sx THEN FromByte(b, dest.osz) ELSE b
    BY <1>5 DEF Imm
  <1>7. ImmValue(i) = IF n = 8 THEN SignExtend(Imm, 4) ELSE Imm
    BY <1>1 DEF ImmValue
  <1>8. n = 8 <=> dsz = 2
    <2>1. dest.osz \in 0..1 => SizeOf(dest.osz) \in {2, 4}
      BY DEF SizeOf
    <2>2. QED
      BY <1>1, <2>1
  <1>9. n # 8 => n = (IF dest.osz = 0 THEN 2 ELSE 4)
    <2>1. dest.osz \in 0..1 => SizeOf(dest.osz) = IF dest.osz = 0 THEN 2 ELSE 4
      BY DEF SizeOf
    <2>2. QED
      BY <1>1, <1>8, <2>1
  <1>10. dest.sx /\ n = 8 => dest.osz # 0
    BY <1>8 DEF ShortJumpWith66
  <1> HIDE DEF b, n
  <1>11. m \in U8
    BY <1>3, <1>5, PartTypes
  <1>12. Imm \in U8
    BY <1>5, <1>6, FromByteType
  <1>13. 4 \in 1..8 /\ 1 \in 1..8 /\ 4 \in 1..8
    OBVIOUS
  <1>14. ImmValue(i) \in U8
    BY <1>7, <1>12, <1>13, PartTypes
  <1>15. CASE n = 8 /\ dest.sx
    <2>1. FromByte(b, dest.osz) = Low(SignExtend(b, 1), 4)
      BY <1>10, <1>15 DEF FromByte
    <2>2. SignExtend(Low(SignExtend(b, 1), 4), 4) = SignExtend(b, 1)
      BY <1>5, ExtendTwice
    <2>3. ImmValue(i) = m
      BY <1>2, <1>5, <1>6, <1>7, <1>15, <2>1, <2>2
    <2>4. QED
      BY <1>11, <1>14, <2>3 DEF SameLow
  <1>16. CASE n = 8 /\ ~dest.sx
    <2>1. ImmValue(i) = m
      BY <1>2, <1>5, <1>6, <1>7, <1>16
    <2>2. QED
      BY <1>11, <1>14, <2>1 DEF SameLow
  <1>17. CASE n # 8 /\ dest.sx
    <2>1. ImmValue(i) = Low(m, n)
      BY <1>2, <1>5, <1>6, <1>7, <1>9, <1>17 DEF FromByte
    <2>2. n \in 0..8 /\ n \in n..8
      BY <1>9, <1>17
    <2>3. SameLow(Low(m, n), m, n)
      BY <2>2, LowTwice
    <2>4. QED
      BY <1>11, <1>14, <2>1, <2>3 DEF n
  <1>18. CASE n # 8 /\ ~dest.sx
    <2>1. ImmValue(i) = b /\ m = SignExtend(b, n)
      BY <1>2, <1>5, <1>6, <1>7, <1>18
    <2>2. SameLow(b, SignExtend(b, n), n)
      BY SameLowSign
    <2>3. QED
      BY <1>11, <1>14, <2>1, <2>2 DEF n
  <1>19. QED
    BY <1>15, <1>16, <1>17, <1>18

\* The target of a jump is shown at the size of the operand.
LEMMA TargetShown ==
  ASSUME DecodedFirst, NEW i \in 1..4, NEW rel \in U8,
         NEW a, a = dest.args[i], NEW r, r = Encoding.args[i],
         ImmKnown(a, Encoding, r), Relative, ~ShortJumpWith66
  PROVE  ImmShown(i, rel)
  <1> DEFINE m == SignedBytes(state.imm1_offset, FirstImmEnd)
             n == a.size
             v == ImmValue(i)
             t == Add(v, rel)
  <1>1. /\ a.type = "imm_1st" /\ n \in 1..8
        /\ n = (IF dsz = 2 THEN 8 ELSE SizeOf(dest.osz))
        /\ dsz # 2 => dest.osz \in 0..1
    BY DEF ImmKnown, Relative
  <1>2. m \in U8 /\ v \in U8 /\ SameLow(v, m, n)
    BY JumpNumber
  <1>3. ImmMeaning(i, rel) = Add(rel, m)
    BY <1>1 DEF ImmMeaning
  <1>4. ImmNumber(i, rel) = Plain(Target(i, rel), n)
    BY DEF ImmNumber
  <1>5. Target(i, rel) \in {t, Low(t, n)}
    <2>1. dsz # 2 => n = (IF dest.osz = 0 THEN 2 ELSE 4)
      BY <1>1 DEF SizeOf
    <2>2. QED
      BY <2>1 DEF Target
  <1> HIDE DEF m, n, v
  <1>6. n \in 0..8 /\ n \in n..8
    BY <1>1
  <1>7. SameLow(rel, rel, n)
    BY DEF SameLow
  <1>8. SameLow(t, Add(rel, m), n)
    BY <1>2, <1>6, <1>7, AddLow
  <1> HIDE DEF t
  <1>9. SameLow(Low(t, n), t, n)
    BY <1>6, LowTwice
  <1>10. SameLow(Target(i, rel), Add(rel, m), n)
    BY <1>5, <1>8, <1>9 DEF SameLow
  <1>11. Low(ReadBack(Plain(Target(i, rel), n)), n) = Low(Add(rel, m), n)
    BY <1>1, <1>10, PlainShown
  <1>12. QED
    BY <1>3, <1>4, <1>11 DEF ImmShown, n

\* The number shown for an immediate has its meaning.
LEMMA ImmediatesShown ==
  ASSUME DecodedFirst, NEW i \in Operands(ImmTypes), NEW rel \in U8, ~ShortJumpWith66
  PROVE  ImmShown(i, rel)
  <1> DEFINE a == dest.args[i]
             r == Encoding.args[i]
  <1>1. i \in 1..4 /\ a.type \in ImmTypes
    BY DEF Operands
  <1>2. ImmKnown(a, Encoding, r)
    BY <1>1, ImmediateKnown DEF Encoding
  <1>3. a.type \in {"imm_1st", "imm_both"} \/ a.type = "imm_2nd" \/ a.type = "imm_implict"
    BY <1>1 DEF ImmTypes
  <1>4. CASE Relative
    BY <1>1, <1>2, <1>4, TargetShown
  <1>5. CASE ~Relative /\ dest.sx
    BY <1>1, <1>2, <1>5, ExtendedShown
  <1>6. CASE ~Relative /\ ~dest.sx /\ a.type \in {"imm_1st", "imm_both"}
    BY <1>1, <1>2, <1>6, WideShown, OwnShown
  <1>7. CASE a.type = "imm_2nd"
    BY <1>1, <1>2, <1>7, SecondShown
  <1>8. CASE a.type = "imm_implict"
    BY <1>1, <1>2, <1>8, ImplicitShown
  <1>9. QED
    BY <1>3, <1>4, <1>5, <1>6, <1>7, <1>8

-----------------------------------------------------------------------------
(* Displacements *)

\* The number shown for a memory operand gives the same address.
MemShown(i, rel) ==
  Low(ReadBack(MemNumber(i, rel)), SizeOf(dest.asz)) = Low(MemMeaning(rel), SizeOf(dest.asz))

\* A memory operand is at an offset, or where ModRM says.
LEMMA AddressedBy ==
  ASSUME DecodedFirst, NEW i \in Addressed, NEW e, e = Encodings[dest.encoding]
  PROVE  /\ FullDisp(i) => /\ OffsetRead(dest, state, state.insn_size) /\ Wide(e) /\ ~dest.sx
                           /\ ~ModrmMemory(state)
         /\ ~FullDisp(i) => ModrmMemory(state) /\ "imm64_disp" \notin e.etags
  <1> DEFINE k == state.insn_size
             st == state
             ic == dest
             a == ic.args[i]
             r == e.args[i]
  <1>1. i \in 1..4 /\ a.type \in EaTypes \cup {"mem_fulldisp"}
    BY DEF Addressed, Operands, EaTypes
  <1>2. /\ Filled(buf, dsz, p, ic, st, k) /\ AllSourced(dsz, p, ic, st)
        /\ ic.encoding \in DOMAIN Encodings /\ r \in Args
    BY <1>1 DEF DecodedFirst
  <1>3. e \in {Encodings[x] : x \in DOMAIN Encodings}
    BY <1>2
  <1>4. a.type # "void" /\ (a.type = "mem_fulldisp" => a.type # "mem_ea")
    BY <1>1 DEF EaTypes
  <1>5. OperandRead(dsz, p, ic, st, k, e, i) /\ (ic.sx => "sx_byte" \in e.etags)
    BY <1>1, <1>2, <1>4 DEF AllSourced
  <1>6. /\ a.type = r.type \/ (r.value = RegOrMem /\ st.modrm0 < 192 /\ a.type = "mem_ea")
        /\ a.type = "mem_fulldisp" => OffsetRead(ic, st, k)
    BY <1>5 DEF OperandRead
  <1>7. /\ e.regop => "disp" \notin FieldsOf(e, r)
        /\ r.value = RegOrMem => e.regop
    BY <1>1, <1>3, OperandsAssumption, Zenon
  <1>8. /\ "imm64_disp" \in e.etags => ~e.regop
        /\ r.type = "mem_fulldisp" => Wide(e)
    BY <1>1, <1>3, NumbersAssumption, Zenon
  <1>9. st.has_modrm = e.regop /\ Suits(e, st)
    BY <1>2 DEF Filled
  <1>10. FullDisp(i) <=> a.type = "mem_fulldisp"
    BY DEF FullDisp
  <1> HIDE DEF k, st, ic, a
  <1>11. ASSUME FullDisp(i)
         PROVE  OffsetRead(ic, st, k) /\ Wide(e) /\ ~ic.sx /\ ~ModrmMemory(st)
    <2>1. r.type = "mem_fulldisp"
      BY <1>4, <1>6, <1>10, <1>11
    <2>2. "disp" \in FieldsOf(e, r)
      BY <2>1 DEF FieldsOf
    <2>3. Wide(e) /\ ~st.has_modrm
      BY <1>7, <1>8, <1>9, <2>1, <2>2
    <2>4. ~ic.sx
      BY <1>5, <2>3 DEF Wide
    <2>5. QED
      BY <1>6, <1>10, <1>11, <2>3, <2>4 DEF ModrmMemory
  <1>12. ASSUME ~FullDisp(i)
         PROVE  ModrmMemory(st) /\ "imm64_disp" \notin e.etags
    <2>1. a.type \in EaTypes
      BY <1>1, <1>10, <1>12
    <2>2. st.has_modrm /\ st.modrm0 < 192
      <3>1. CASE a.type = r.type
        <4>1. InMemory(e)
          BY <1>1, <2>1, <3>1 DEF InMemory
        <4>2. QED
          BY <1>9, <4>1 DEF Suits
      <3>2. CASE r.value = RegOrMem /\ st.modrm0 < 192
        BY <1>7, <1>9, <3>2
      <3>3. QED
        BY <1>6, <3>1, <3>2
    <2>3. QED
      BY <1>8, <1>9, <2>2 DEF ModrmMemory
  <1>13. QED
    BY <1>11, <1>12 DEF ic, st, k

\* A memory operand at an offset shows all of its bytes.
LEMMA OffsetShown ==
  ASSUME DecodedFirst, NEW i \in Addressed, NEW rel, FullDisp(i)
  PROVE  MemShown(i, rel)
  <1> DEFINE at == state.disp_offset
             n == SizeOf(dest.asz)
             v == BytesAt(at, n)
  <1>1. /\ OffsetRead(dest, state, state.insn_size) /\ Wide(Encoding) /\ ~dest.sx
        /\ ~ModrmMemory(state)
    BY AddressedBy DEF Encoding
  <1>2. dest.asz \in 0..2 /\ at \in Nat /\ state.insn_size \in 1..31
    BY DEF DecodedFirst, Icodes, DecoderStates
  <1>3. n = (CASE dest.asz = 0 -> 2 [] dest.asz = 1 -> 4 [] dest.asz = 2 -> 8)
    BY <1>2 DEF SizeOf
  <1>4. n \in {2, 4, 8} /\ (n = 8 <=> dest.asz = 2)
    BY <1>2, <1>3
  <1>5. /\ dest.disp.at = at /\ state.insn_size = at + n
        /\ dest.disp.len = (IF n = 8 THEN 4 ELSE n)
        /\ n = 8 => dest.imm = [at |-> at + 4, len |-> 4]
        /\ state.imm1_offset = NoOffset
    BY <1>1 DEF OffsetRead
  <1>6. at # NoOffset
    BY <1>2, <1>4, <1>5 DEF NoOffset
  <1>7. ~dest.rip_relative /\ ~dest.ea.disp8
    BY <1>1 DEF DecodedFirst, AllSourced, Displaced
  <1>8. Disp = SliceBytes(dest.disp) /\ Imm = SliceBytes(dest.imm)
    BY <1>1, <1>7 DEF Disp, Imm
  <1>9. MemMeaning(rel) = SignExtend(v, n)
    <2>1. DispEnd - at = n
      BY <1>2, <1>4, <1>5 DEF DispEnd
    <2>2. MemMeaning(rel) = SignedBytes(at, DispEnd)
      BY <1>6, <1>7 DEF MemMeaning
    <2>3. QED
      BY <2>1, <2>2 DEF SignedBytes
  <1>10. DispValue = v
    <2>1. CASE n = 8
      <3>1. DispValue = Join(Disp, Imm)
        BY <1>1, <1>4, <2>1 DEF DispValue, Wide
      <3>2. Disp = BytesAt(at, 4) /\ Imm = BytesAt(at + 4, 4)
        BY <1>5, <1>8, <2>1 DEF SliceBytes
      <3>3. QED
        BY <1>2, <2>1, <3>1, <3>2, JoinBytes
    <2>2. CASE n # 8
      <3>1. DispValue = Disp
        BY <1>4, <2>2 DEF DispValue
      <3>2. QED
        BY <1>5, <1>8, <2>2, <3>1 DEF SliceBytes
    <2>3. QED
      BY <2>1, <2>2
  <1>11. MemNumber(i, rel) = WideNumber(i, rel)
    BY DEF MemNumber
  <1>12. WideNumber(i, rel) = Plain(v, n)
    <2>1. CASE dest.asz = 2
      BY <1>4, <1>10, <2>1 DEF WideNumber
    <2>2. CASE dest.asz < 2
      BY <1>10, <2>2 DEF WideNumber
    <2>3. QED
      BY <1>2, <2>1, <2>2
  <1>13. SameLow(v, SignExtend(v, n), n)
    BY SameLowSign
  <1> HIDE DEF v, n
  <1>14. n \in 1..8
    BY <1>4
  <1>15. Low(ReadBack(Plain(v, n)), n) = Low(SignExtend(v, n), n)
    BY <1>13, <1>14, PlainShown
  <1>16. QED
    BY <1>9, <1>11, <1>12, <1>15 DEF MemShown, n

\* What is known of an address in memory that ModRM gives.
AddressKnown ==
  LET len == dest.disp.len
  IN  /\ dest.asz \in 0..2 /\ (dsz = 2 => dest.asz # 0) /\ len \in Nat
      /\ dest.asz = 0 => len \in 0..2
      /\ dest.asz # 0 => len \in {0, 1, 4}
      /\ dest.rip_relative => dsz = 2 /\ len = 4 /\ ~HasRegister
      /\ dest.ea.disp8 <=> len = 1
      /\ dest.has_disp <=> len > 0
      /\ len = 0 => state.disp_offset = NoOffset
      /\ len > 0 => /\ state.disp_offset = dest.disp.at /\ dest.disp.at # NoOffset
                    /\ DispEnd - state.disp_offset = len

LEMMA AddressIsKnown ==
  ASSUME DecodedFirst, ModrmMemory(state)
  PROVE  AddressKnown
  <1> DEFINE ic == dest
             st == state
             k == state.insn_size
             c == st.modrm0
             sib == buf[st.modrm_offset + 2]
             len == dest.disp.len
  <1>1. /\ Filled(buf, dsz, p, ic, st, k) /\ Displaced(dsz, ic, st)
        /\ ic \in Icodes /\ st \in DecoderStates /\ dsz \in 0..2
        /\ ReadSlice(ic.disp) /\ k \in 1..31
    BY DEF DecodedFirst, AllSourced
  <1>2. st.has_modrm /\ c < 192 /\ c \in Byte
    BY <1>1 DEF ModrmMemory, DecoderStates
  <1>3. AddressRead(buf, dsz, p, ic, st)
    BY <1>1, <1>2 DEF Filled
  <1>4. /\ AddressForm(dsz, p, ic, c, sib)
        /\ len = 0 => st.disp_offset = NoOffset
        /\ len # 0 => /\ ic.disp.at = st.modrm_offset + HeaderLength(ic.asz, c)
                      /\ st.disp_offset = ic.disp.at
    BY <1>2, <1>3 DEF AddressRead
  <1>5. /\ dsz = 2 => ic.asz # 0
        /\ ic.rip_relative => dsz = 2
        /\ ic.ea.disp8 = (len = 1) /\ ic.has_disp = (len > 0)
    BY <1>1 DEF Displaced, ModrmMemory
  <1>6. c \div 64 \in 0..2
    BY <1>2 DEF Byte
  <1>7. ic.asz \in 0..2 /\ len \in Nat /\ ic.disp.at \in Nat
    BY <1>1 DEF Icodes, Slices
  <1> HIDE DEF ic, st, c, sib, len
  <1>8. ic.asz = 0 => len \in 0..2
    BY <1>4, <1>6 DEF AddressForm, len, ic
  <1>9. ic.asz # 0 => len \in {0, 1, 4}
    BY <1>4, <1>6 DEF AddressForm, len, ic
  <1>10. ic.rip_relative => len = 4 /\ ic.ea.base = NoReg /\ ic.ea.index = NoReg
    <2> SUFFICES ASSUME ic.rip_relative
                 PROVE  len = 4 /\ ic.ea.base = NoReg /\ ic.ea.index = NoReg
      OBVIOUS
    <2> DEFINE mod == c \div 64
               rm == c % 8
               b == (IF rm = 4 THEN sib % 8 ELSE rm) + 8 * p.rex_b
               x == ((sib \div 8) % 8) + 8 * p.rex_x
               bare == mod = 0 /\ b % 8 = 5
    <2>1. ic.asz # 0
      BY <1>5
    <2>2. /\ ic.ea.base = IF bare THEN NoReg ELSE b
          /\ ic.ea.index = IF rm = 4 /\ x # 4 THEN x ELSE NoReg
          /\ ic.disp.len = CASE mod = 1 -> 1
                             [] mod = 2 \/ bare -> 4
                             [] OTHER -> 0
          /\ ic.rip_relative = (dsz = 2 /\ bare /\ rm = 5)
      BY <1>4, <2>1 DEF AddressForm
    <2>3. bare => mod = 0
      OBVIOUS
    <2> HIDE DEF mod, rm, b, x, bare
    <2>4. bare /\ rm = 5 /\ mod = 0
      BY <2>2, <2>3
    <2>5. ic.disp.len = 4
      BY <2>2, <2>4
    <2>6. QED
      BY <2>2, <2>4, <2>5 DEF len, ic
  <1>11. len > 0 => ic.disp.at # NoOffset
    BY <1>1, <1>7 DEF ReadSlice, NoOffset, len, ic
  <1>12. len > 0 => DispEnd - st.disp_offset = len
    <2>1. Opened(buf, ic, st) + len
            = IF st.imm1_offset # NoOffset THEN st.imm1_offset ELSE k
      BY <1>1, <1>2, AddressFollowed DEF len, ic
    <2>2. Opened(buf, ic, st) = st.modrm_offset + HeaderLength(ic.asz, c)
      BY <1>2 DEF Opened, c
    <2>3. DispEnd = Opened(buf, ic, st) + len
      BY <2>1 DEF DispEnd, st
    <2>4. len > 0 => st.disp_offset = ic.disp.at /\ Opened(buf, ic, st) = ic.disp.at
      BY <1>4, <1>7, <2>2
    <2>5. QED
      BY <1>7, <2>3, <2>4
  <1>13. ic.rip_relative => ~HasRegister
    BY <1>10 DEF HasRegister, ic
  <1>14. (ic.ea.disp8 <=> len = 1) /\ (ic.has_disp <=> len > 0)
    BY <1>5
  <1>15. len # 0 <=> len > 0
    BY <1>7
  <1>16. len > 0 => st.disp_offset = ic.disp.at
    BY <1>4, <1>15
  <1>17. /\ ic.asz \in 0..2 /\ (dsz = 2 => ic.asz # 0) /\ len \in Nat
         /\ ic.rip_relative => dsz = 2 /\ len = 4 /\ ~HasRegister
         /\ len = 0 => st.disp_offset = NoOffset
    BY <1>4, <1>5, <1>7, <1>10, <1>13
  <1>18. QED
    BY <1>8, <1>9, <1>11, <1>12, <1>14, <1>16, <1>17 DEF AddressKnown, ic, st, len

\* What the bytes of a displacement mean, before an address is added.
DispMeaning == IF dest.disp.len = 0 THEN Zero
               ELSE SignExtend(SliceBytes(dest.disp), dest.disp.len)

LEMMA DispMeant ==
  ASSUME AddressKnown, NEW rel
  PROVE  MemMeaning(rel) = IF dest.rip_relative THEN Add(rel, DispMeaning) ELSE DispMeaning
  <1>1. CASE dest.disp.len = 0
    BY <1>1 DEF AddressKnown, MemMeaning, DispMeaning
  <1>2. CASE dest.disp.len # 0
    <2>1. dest.disp.len > 0 /\ state.disp_offset = dest.disp.at /\ dest.disp.at # NoOffset
          /\ DispEnd - state.disp_offset = dest.disp.len
      BY <1>2 DEF AddressKnown
    <2>2. SignedBytes(state.disp_offset, DispEnd) = DispMeaning
      BY <1>2, <2>1 DEF SignedBytes, DispMeaning, SliceBytes
    <2>3. QED
      BY <2>1, <2>2 DEF MemMeaning
  <1>3. QED
    BY <1>1, <1>2

\* 0 in any length.
LEMMA ZeroNumbers ==
  /\ Zero \in U8 /\ ReadBack(Plain(Zero, 1)) = Zero
  /\ \A n \in 1..8 : SignExtend(Zero, n) = Zero
  <1>1. Zero \in U8
    BY DEF Zero, U8, Byte
  <1>2. ReadBack(Plain(Zero, 1)) = Zero
    BY DEF ReadBack, Plain, Low, Zero
  <1>3. ASSUME NEW n \in 1..8
        PROVE  SignExtend(Zero, n) = Zero
    <2>1. n - 1 \in 0..7
      OBVIOUS
    <2>2. Zero[n - 1] = 0 /\ 255 * (0 \div 128) = 0
      BY <2>1 DEF Zero
    <2>3. QED
      BY <2>2 DEF SignExtend, Zero
  <1>4. QED
    BY <1>1, <1>2, <1>3

\* Displacements of one byte.
LEMMA ShortDispShown ==
  ASSUME DecodedFirst, AddressKnown, dest.disp.len = 1, NEW i, ~FullDisp(i), NEW rel
  PROVE  MemShown(i, rel)
  <1> DEFINE b == SliceBytes(dest.disp)
             v == Disp
  <1>1. dest.ea.disp8 /\ ~dest.rip_relative
    BY DEF AddressKnown
  <1>2. b \in U8
    BY FieldNumbers
  <1>3. MemMeaning(rel) = SignExtend(b, 1)
    BY <1>1, DispMeant DEF DispMeaning
  <1>4. v = FromByte(b, dest.asz)
    BY <1>1 DEF Disp
  <1>5. MemNumber(i, rel) = IF v[0] < 128 THEN Plain(v, 4) ELSE Minus(v, 1)
    BY <1>1 DEF MemNumber
  <1> HIDE DEF b, v
  <1>6. PICK m \in {2, 4} : v = Low(SignExtend(b, 1), m)
    BY <1>2, <1>4, FromByteType
  <1>7. v \in U8 /\ v[0] = b[0]
    BY <1>2, <1>4, FromByteType
  <1>8. CASE v[0] < 128
    <2>1. SignExtend(b, 1) = Low(b, 1)
      BY <1>2, <1>7, <1>8, ByteReads
    <2>2. 1 \in 0..8 /\ m \in 1..8 /\ 4 \in 1..8
      OBVIOUS
    <2>3. Low(Low(b, 1), m) = Low(b, 1) /\ Low(Low(b, 1), 4) = Low(b, 1)
      BY <2>2, LowTwice
    <2>4. Low(v, 4) = SignExtend(b, 1)
      BY <1>6, <2>1, <2>3
    <2>5. ReadBack(Plain(v, 4)) = Low(v, 4)
      BY DEF ReadBack, Plain
    <2>6. QED
      BY <1>3, <1>5, <1>8, <2>4, <2>5 DEF MemShown
  <1>9. CASE ~(v[0] < 128)
    <2>1. Negate(Low(Negate(v), 1)) = SignExtend(v, 1)
      BY <1>7, <1>9, ByteReads
    <2>2. SignExtend(v, 1) = SignExtend(b, 1)
      BY <1>7, ExtendByte, Zenon
    <2>3. ReadBack(Minus(v, 1)) = Negate(Low(Negate(v), 1))
      BY Zenon DEF ReadBack, Minus
    <2>4. QED
      BY <1>3, <1>5, <1>9, <2>1, <2>2, <2>3 DEF MemShown
  <1>10. QED
    BY <1>8, <1>9

\* A displacement that is not there, or is 0 next to a register.
LEMMA NoDispShown ==
  ASSUME DecodedFirst, AddressKnown, NEW i, ~FullDisp(i), NEW rel,
         "imm64_disp" \notin Encoding.etags,
         dest.disp.len = 0 \/ (dest.disp.len \in {2, 4} /\ Disp = Zero /\ HasRegister)
  PROVE  MemShown(i, rel)
  <1>1. ~dest.ea.disp8 /\ ~dest.rip_relative
    BY DEF AddressKnown
  <1>2. MemNumber(i, rel) = Plain(Zero, 1)
    <2>1. ~dest.has_disp \/ (DispValue = Zero /\ HasRegister)
      BY DEF AddressKnown, DispValue
    <2>2. QED
      BY <1>1, <2>1 DEF MemNumber
  <1>3. MemMeaning(rel) = Zero
    <2>1. CASE dest.disp.len = 0
      BY <1>1, <2>1, DispMeant DEF DispMeaning
    <2>2. CASE dest.disp.len # 0
      <3>1. SliceBytes(dest.disp) = Zero /\ dest.disp.len \in 1..8
        BY <1>1, <2>2, FieldNumbers
      <3>2. QED
        BY <1>1, <2>2, <3>1, DispMeant, ZeroNumbers DEF DispMeaning
    <2>3. QED
      BY <2>1, <2>2
  <1>4. QED
    BY <1>2, <1>3, ZeroNumbers DEF MemShown

\* An address relative to RIP is shown as the address it stands for.
LEMMA RipTargetIs ==
  ASSUME NEW v \in U8, \A k \in 4..7 : v[k] = 0, NEW rel
  PROVE  RipTarget(v, rel) = Add(rel, SignExtend(v, 4))
  <1>1. /\ Below2G(v) => v = SignExtend(v, 4)
        /\ ~Below2G(v) => Negate(Low(Negate(v), 4)) = SignExtend(v, 4)
    BY TwoGReads
  <1>2. CASE Below2G(v)
    BY <1>1, <1>2, Zenon DEF RipTarget
  <1>3. CASE ~Below2G(v)
    <2>1. Minus(v, 4).digits = Low(Negate(v), 4)
      BY DEF Minus
    <2>2. RipTarget(v, rel) = Add(rel, Negate(Low(Negate(v), 4)))
      BY <1>3, <2>1 DEF RipTarget
    <2>3. QED
      BY <1>1, <1>3, <2>2, Zenon
  <1>4. QED
    BY <1>2, <1>3

\* The others.
LEMMA LongDispShown ==
  ASSUME DecodedFirst, AddressKnown, NEW i, ~FullDisp(i), NEW rel,
         "imm64_disp" \notin Encoding.etags, dest.disp.len \in {2, 4},
         ~(Disp = Zero /\ HasRegister), ~EipRelative
  PROVE  MemShown(i, rel)
  <1> DEFINE v == Disp
             len == dest.disp.len
             n == SizeOf(dest.asz)
             m == SignExtend(v, len)
             w == IF dest.rip_relative THEN Add(rel, m) ELSE m
  <1>1. /\ ~dest.ea.disp8 /\ dest.has_disp /\ dest.asz \in 0..2
        /\ len = (IF dest.asz = 0 THEN 2 ELSE 4)
        /\ dest.rip_relative => dest.asz = 2
    BY DEF AddressKnown, EipRelative
  <1>2. /\ v = SliceBytes(dest.disp) /\ v \in U8
        /\ \A k \in 0..7 : k >= len => v[k] = 0
    BY <1>1, FieldNumbers, SliceNumber DEF DecodedFirst
  <1>3. DispValue = v
    BY DEF DispValue
  <1>4. MemMeaning(rel) = w
    BY <1>2, DispMeant DEF DispMeaning
  <1>5. MemNumber(i, rel) = WideNumber(i, rel)
    BY <1>1, <1>3 DEF MemNumber
  <1>6. n = (CASE dest.asz = 0 -> 2 [] dest.asz = 1 -> 4 [] dest.asz = 2 -> 8)
    BY <1>1 DEF SizeOf
  <1> HIDE DEF v
  <1>7. CASE dest.asz < 2
    <2>1. n = len /\ n \in 1..8 /\ w = m
      BY <1>1, <1>6, <1>7
    <2>2. WideNumber(i, rel) = Plain(v, n)
      BY <1>3, <1>7 DEF WideNumber
    <2>3. SameLow(v, m, n)
      BY <2>1, SameLowSign
    <2> HIDE DEF n, m, w
    <2>4. Low(ReadBack(Plain(v, n)), n) = Low(m, n)
      BY <2>1, <2>3, PlainShown
    <2>5. QED
      BY <1>4, <1>5, <2>1, <2>2, <2>4 DEF MemShown, n
  <1>8. CASE dest.asz = 2
    <2>1. len = 4 /\ n = 8
      BY <1>1, <1>6, <1>8
    <2>2. \A k \in 4..7 : v[k] = 0
      BY <1>2, <2>1
    <2>3. CASE dest.rip_relative
      <3> DEFINE t == RipTarget(v, rel)
      <3>1. WideNumber(i, rel) = Plain(t, 8)
        BY <1>3, <1>8, <2>3 DEF WideNumber
      <3>2. t = w
        BY <1>2, <2>1, <2>2, <2>3, RipTargetIs
      <3> HIDE DEF t, w
      <3>3. SameLow(t, w, 8)
        BY <3>2 DEF SameLow
      <3>4. Low(ReadBack(Plain(t, 8)), 8) = Low(w, 8)
        BY <3>3, PlainShown
      <3>5. QED
        BY <1>4, <1>5, <2>1, <3>1, <3>4 DEF MemShown
    <2>4. CASE ~dest.rip_relative
      <3>1. WideNumber(i, rel) = IF Below2G(v) THEN Plain(v, 4) ELSE Minus(v, 4)
        BY <1>3, <1>8, <2>4 DEF WideNumber
      <3>2. ReadBack(IF Below2G(v) THEN Plain(v, 4) ELSE Minus(v, 4)) = SignExtend(v, 4)
        BY <1>2, <2>2, WordShown
      <3>3. w = SignExtend(v, 4)
        BY <2>1, <2>4
      <3>4. QED
        BY <1>4, <1>5, <3>1, <3>2, <3>3 DEF MemShown
    <2>5. QED
      BY <2>3, <2>4
  <1>9. QED
    BY <1>1, <1>7, <1>8

\* The number shown for a memory operand gives its address.
LEMMA AddressesShown ==
  ASSUME DecodedFirst, NEW i \in Addressed, NEW rel, ~EipRelative
  PROVE  MemShown(i, rel)
  <1>1. CASE FullDisp(i)
    BY <1>1, OffsetShown
  <1>2. CASE ~FullDisp(i)
    <2>1. AddressKnown /\ "imm64_disp" \notin Encoding.etags
      BY <1>2, AddressedBy, AddressIsKnown DEF Encoding
    <2>2. dest.disp.len \in {0, 1, 2, 4}
      BY <2>1 DEF AddressKnown
    <2>3. QED
      BY <1>2, <2>1, <2>2, ShortDispShown, NoDispShown, LongDispShown
  <1>3. QED
    BY <1>1, <1>2

-----------------------------------------------------------------------------
(* What is printed *)

\* The address behind an instruction.
LEMMA AfterType ==
  ASSUME state \in DecoderStates, NEW origin \in Origins
  PROVE  After(origin) \in U8
  <1>1. origin \in U8
    BY OriginsAssumption DEF U8
  <1>2. Small(state.insn_size) \in U8
    <2>1. state.insn_size \in Byte
      BY DEF DecoderStates, Byte
    <2>2. QED
      BY <2>1, SmallNumber
  <1>3. 0 \in 0..8 /\ SameLow(origin, origin, 0)
        /\ SameLow(Small(state.insn_size), Small(state.insn_size), 0)
    BY DEF SameLow
  <1>4. QED
    BY <1>1, <1>2, <1>3, AddLow DEF After

\* An instruction that the second attempt decodes has no operands.
LEMMA ShownReturned ==
  Inv /\ Attempts /\ ReadSoFar /\ SourcedSoFar => NumbersReadBack
  <1> SUFFICES ASSUME Inv, Attempts, ReadSoFar, SourcedSoFar, Succeeded, NEW origin \in Origins
               PROVE  /\ \A i \in Operands(ImmTypes) :
                           ~ShortJumpWith66 => ImmShown(i, After(origin))
                      /\ \A i \in Addressed : ~EipRelative => MemShown(i, After(origin))
    <2> SUFFICES ASSUME Inv, Attempts, ReadSoFar, SourcedSoFar, Succeeded, NEW origin \in Origins
                 PROVE  LET rel == After(origin)
                        IN  /\ \A i \in Operands(ImmTypes) : ~ShortJumpWith66 =>
                                 Low(ReadBack(ImmNumber(i, rel)), dest.args[i].size)
                                   = Low(ImmMeaning(i, rel), dest.args[i].size)
                            /\ \A i \in Addressed : ~EipRelative =>
                                 Low(ReadBack(MemNumber(i, rel)), SizeOf(dest.asz))
                                   = Low(MemMeaning(rel), SizeOf(dest.asz))
      BY Zenon DEF NumbersReadBack
    <2>1. QED
      BY Zenon DEF ImmShown, MemShown
  <1>1. attempt \in {1, 2} /\ state \in DecoderStates
    BY DEF Inv, TypeOK
  <1>2. CASE attempt = 1
    <2>1. DecodedFirst
      BY <1>2, FirstDecoded
    <2>2. After(origin) \in U8
      BY <1>1, AfterType
    <2>3. QED
      BY <2>1, <2>2, ImmediatesShown, AddressesShown
  <1>3. CASE attempt = 2
    <2>1. \A i \in 1..4 : dest.args[i].type = "void"
      BY <1>3, AttemptsReturn DEF FwaitMeaning
    <2>2. Operands(ImmTypes) = {} /\ Addressed = {}
      BY <2>1 DEF Operands, ImmTypes, Addressed
    <2>3. QED
      BY <2>2
  <1>4. QED
    BY <1>1, <1>2, <1>3

\* The numbers that are printed always read back as what the bytes of the
\* instruction mean, wherever it is.
THEOREM NumbersAlwaysReadBack == Spec => []NumbersReadBack
  <1>1. Inv /\ Attempts /\ ReadSoFar /\ SourcedSoFar => NumbersReadBack
    BY ShownReturned
  <1>2. QED
    BY <1>1, SourcedAlways, PTL

-----------------------------------------------------------------------------
(* What names the registers *)

\* The opcode at offset first of b as try_decode numbers it.
OpcodeNumber(b, first) == IF b[first + 1] = 15 THEN 256 + b[first + 2] ELSE b[first + 1]

\* The opcode, and whether there is a REX prefix, have been noted.
OpcodeNoted(b, q, ic, st) ==
  /\ ic.rex_used = q.rex_used
  /\ st.opcode0 = OpcodeNumber(b, st.prefix_size)

\* A register that the opcode names is in its first or its second byte.
InOpcode(b, e, st) ==
  "reg_base" \in e.etags => ~e.regop /\ OpcodeLength(b, st.prefix_size) \in {1, 2}

\* An operand that is missing in the icode is missing in the encoding.
Missing(ic) ==
  \A j \in 1..4 : ic.args[j].type = "void" => Encodings[ic.encoding].args[j].type = "void"

\* What the first attempt has noted of the opcode.
NamedSoFar ==
  attempt = 1 =>
    /\ (pc \in {"walk", "args"} \/ Judged) => OpcodeNoted(buf, p, dest, state)
    /\ (pc = "walk" /\ Table[node].type = 0 /\ Table[node].encoding # Invalid) =>
         InOpcode(buf, Encodings[Table[node].encoding], state)
    /\ (pc = "args" \/ Judged) => InOpcode(buf, Encodings[dest.encoding], state)
    /\ Judged => Missing(dest)

\* try_decode notes the opcode at once.
LEMMA NotedAtOnce ==
  ASSUME Inv, EnterTry
  PROVE  OpcodeNoted(buf, p, dest', state')
  <1>1. dest \in Icodes /\ state \in DecoderStates
    BY DEF Inv, TypeOK
  <1>2. dest'.rex_used = p.rex_used
    BY <1>1 DEF EnterTry, Icodes
  <1>3. state'.prefix_size = fetcher_copy.next /\ state'.opcode0 = Opcode0
    <2>1. EnterState.prefix_size = fetcher_copy.next
      BY <1>1 DEF EnterState, DecoderStates
    <2>2. EnterState \in DecoderStates /\ state' = [EnterState EXCEPT !.opcode0 = Opcode0, !.modrm0 = 0]
      BY EnterStateType DEF EnterTry
    <2> HIDE DEF EnterState, Opcode0
    <2>3. QED
      BY <2>1, <2>2 DEF DecoderStates
  <1>4. Opcode0 = OpcodeNumber(buf, fetcher_copy.next)
    BY DEF Opcode0, OpcodeNumber, TwoByte, At
  <1>5. QED
    BY <1>2, <1>3, <1>4 DEF OpcodeNoted

\* What was noted stays.
LEMMA NotedKept ==
  ASSUME NEW b, NEW q, NEW ic, NEW st, OpcodeNoted(b, q, ic, st), NEW ic2, NEW st2,
         ic2.rex_used = ic.rex_used, st2.opcode0 = st.opcode0, st2.prefix_size = st.prefix_size
  PROVE  OpcodeNoted(b, q, ic2, st2)
BY DEF OpcodeNoted

\* An opcode that names a register has no ModRM byte behind it.
LEMMA BaseOpcode ==
  ASSUME NEW x \in DOMAIN Encodings, "reg_base" \in Encodings[x].etags
  PROVE  ~Encodings[x].regop
BY NamesAssumption

\* No opcode of three bytes names a register.
LEMMA BaseLength ==
  ASSUME NEW c \in Byte, NEW kid, kid = Table[Three].kids[c],
         Table[kid].type = 0, Table[kid].encoding # Invalid
  PROVE  "reg_base" \notin Encodings[Table[kid].encoding].etags
BY NamesAssumption

\* The byte that leads to a leaf ends the opcode.
LEMMA ByteNames ==
  ASSUME Inv, WalkByte, pc' = "walk",
         Reading(buf, dsz, p, dest, state, node, fetcher_copy.next),
         Table[node'].type = 0, Table[node'].encoding # Invalid
  PROVE  InOpcode(buf, Encodings[Table[node'].encoding], state)
  <1> DEFINE k == fetcher_copy.next
             first == state.prefix_size
             c == buf[k + 1]
             e == Encodings[Table[node'].encoding]
  <1>1. /\ Table[node].type = 1 /\ node \in DOMAIN Table /\ Has(fetcher_copy, 1)
        /\ node' = Table[node].kids[c]
    BY DEF WalkByte, Inv, TypeOK, Fail, At
  <1>2. c \in Byte /\ k \in Nat /\ first \in Nat
    <2>1. Within(fetcher_copy) /\ buf \in Seq(Byte) /\ first \in Nat
      BY DEF Inv, TypeOK, Positions, DecoderStates
    <2>2. QED
      BY <1>1, <2>1, FetcherMoves, ZenonT(30) DEF At, Within
  <1>3. OnTheWay(buf, node, first, k)
    BY <1>1 DEF Reading
  <1>4. node' \in DOMAIN Table /\ Table[node'].encoding \in DOMAIN Encodings
    <2>1. c \in NodeKids(Table[node].type) /\ Table[node].type # 0
      BY <1>1, <1>2 DEF NodeKids
    <2> HIDE DEF c
    <2>2. node' \in DOMAIN Table
      BY <1>1, <2>1, KidOf
    <2>3. QED
      BY <2>2, TableAssumption
  <1>5. Table[Two].type = 1 /\ Table[Three].type = 1
        /\ Two = Table[Root].kids[15] /\ Three = Table[Two].kids[56]
    BY OpcodeAssumption DEF Two, Three
  <1> SUFFICES ASSUME "reg_base" \in e.etags PROVE OpcodeLength(buf, first) \in {1, 2}
    BY <1>4, BaseOpcode DEF InOpcode
  <1> HIDE DEF Two, Three
  <1>6. CASE node = Root /\ k = first
    <2>1. buf[first + 1] # 15
      BY <1>1, <1>5, <1>6
    <2>2. QED
      BY <2>1 DEF OpcodeLength
  <1>7. CASE node = Two /\ k = first + 1 /\ buf[first + 1] = 15
    <2>1. k + 1 = first + 2
      BY <1>2, <1>7
    <2>2. c = buf[first + 2]
      BY <2>1
    <2>3. c # 56
      <3> SUFFICES ASSUME c = 56 PROVE FALSE
        OBVIOUS
      <3>1. node' = Table[Two].kids[56]
        BY <1>1, <1>7
      <3>2. node' = Three
        <4> HIDE DEF c, k
        <4>1. QED
          BY <1>5, <3>1, Zenon
      <3>3. Table[node'].type = 1
        BY <1>5, <3>2, Zenon
      <3>4. QED
        BY <3>3
    <2>4. QED
      BY <1>7, <2>2, <2>3 DEF OpcodeLength
  <1>8. CASE node = Three
    <2>1. "reg_base" \notin e.etags
      <3> HIDE DEF c
      <3>1. QED
        BY <1>1, <1>2, <1>8, BaseLength
    <2>2. QED
      BY <2>1
  <1>9. QED
    BY <1>1, <1>3, <1>6, <1>7, <1>8 DEF OnTheWay

\* The other nodes lead only to leaves with a ModRM byte.
LEMMA OtherNames ==
  ASSUME Inv, WalkMode \/ WalkModRM, pc' = "walk",
         Table[node'].type = 0, Table[node'].encoding # Invalid, NEW b, NEW st
  PROVE  InOpcode(b, Encodings[Table[node'].encoding], st)
  <1>1. node \in DOMAIN Table /\ Table[node].type \in 2..6
    <2>1. Table[node].type \in {2, 6} \/ Table[node].type \in {3, 4, 5}
      BY DEF WalkMode, WalkModRM
    <2>2. QED
      BY <2>1 DEF Inv, TypeOK
  <1>2. PICK i \in NodeKids(Table[node].type) : node' = Table[node].kids[i]
    <2>1. CASE WalkMode
      <3>1. CASE Table[node].type = 6
        <4>1. node' = Table[node].kids[0] \/ node' = Table[node].kids[1]
          BY <2>1, <3>1 DEF WalkMode
        <4>2. 0 \in NodeKids(Table[node].type) /\ 1 \in NodeKids(Table[node].type)
          BY <3>1 DEF NodeKids
        <4>3. QED
          BY <4>1, <4>2
      <3>2. CASE Table[node].type = 2
        <4> DEFINE rep == IF p.lockrep \in {2, 3} THEN p.lockrep - 1 ELSE 0
                   i == (IF p.op66 THEN 1 ELSE 0) + 2 * rep
        <4>1. node' = Table[node].kids[i]
          BY <2>1, <3>2 DEF WalkMode
        <4>2. i \in 0..5
          OBVIOUS
        <4>3. i \in NodeKids(Table[node].type)
          BY <3>2, <4>2 DEF NodeKids
        <4>4. QED
          BY <4>1, <4>3
      <3>3. QED
        BY <2>1, <3>1, <3>2 DEF WalkMode
    <2>2. CASE WalkModRM
      <3>1. PICK c : node' = Table[node].kids[ModRMIndex(Table[node].type, c)] /\ c \in Byte
        <4>1. \E c : node' = Table[node].kids[ModRMIndex(Table[node].type, c)] /\ c = state'.modrm0
          BY <2>2 DEF WalkModRM, Fail
        <4>2. state'.modrm0 \in Byte
          <5>1. Inv'
            BY <2>2, WalkModRMStep
          <5>2. QED
            BY <5>1 DEF Inv, TypeOK, DecoderStates
        <4>3. QED
          BY <4>1, <4>2
      <3>2. Table[node].type \in {3, 4, 5}
        BY <2>2 DEF WalkModRM
      <3>3. ModRMIndex(Table[node].type, c) \in NodeKids(Table[node].type)
        <4>1. RegField(c) \in 0..7 /\ Rm(c) \in 0..7
          BY <3>1, ModRMFields
        <4>2. c \div 8 \in 0..31
          BY <3>1 DEF Byte
        <4>3. QED
          BY <3>2, <4>1, <4>2 DEF ModRMIndex, NodeKids
      <3>4. QED
        BY <3>1, <3>3
    <2>3. QED
      BY <2>1, <2>2
  <1>3. node' \in DOMAIN Table /\ Encodings[Table[node'].encoding].regop
    <2>1. Table[node].type # 0 /\ Table[node].type # 1
      BY <1>1
    <2>2. /\ node' \in DOMAIN Table
          /\ ~Encodings[Table[node'].encoding].regop => Table[node].type = 1
      BY <1>1, <1>2, <2>1, KidOf
    <2>3. QED
      BY <2>1, <2>2
  <1>4. Table[node'].encoding \in DOMAIN Encodings
    BY <1>3, TableAssumption
  <1>5. QED
    BY <1>3, <1>4, BaseOpcode DEF InOpcode

\* What get_arguments skips is missing.
LEMMA EndMissing ==
  ASSUME Inv, EndArgs, ArgumentsRead, SourcedNow
  PROVE  Missing(dest')
  <1> DEFINE e == Encodings[dest.encoding]
  <1>1. dest' = dest /\ argi \in 1..5
    BY DEF EndArgs, Inv, TypeOK
  <1>2. \A j \in 1..4 : j >= argi => dest.args[j] = e.args[j]
    BY DEF ArgumentsRead, Pending
  <1>3. \A j \in 1..4 : j < argi => OperandRead(dsz, p, dest, state, fetcher_copy.next, e, j)
    BY DEF SourcedNow, Sourced
  <1> HIDE DEF e
  <1>4. \A j \in 1..4 : j < argi => (dest.args[j].type = e.args[j].type \/ dest.args[j].type = "mem_ea")
    BY <1>3, Zenon DEF OperandRead
  <1>5. \A j \in 1..4 : dest.args[j].type = "void" => e.args[j].type = "void"
    BY <1>1, <1>2, <1>4
  <1>6. QED
    BY <1>1, <1>5 DEF Missing, e

\* The first attempt notes the opcode, and finds registers in it, as NamedSoFar
\* says.
LEMMA NamedStep ==
  Inv /\ Attempts /\ ReadSoFar /\ SourcedSoFar /\ NamedSoFar /\ [Next]_vars => NamedSoFar'
  <1> SUFFICES ASSUME Inv, Collecting, ReadSoFar, SourcedSoFar, NamedSoFar, [Next]_vars, attempt' = 1
               PROVE  NamedSoFar'
    BY DEF NamedSoFar, Attempts
  <1>1. CASE TakePrefixes
    <2>1. pc' \notin {"walk", "args"} /\ ~Judged'
      BY <1>1, CollectingFrame DEF Judged
    <2>2. QED
      BY <2>1 DEF NamedSoFar
  <1>2. CASE FallBack
    BY <1>2 DEF FallBack
  <1>3. CASE Walk \/ get_arguments \/ Return
    <2>1. attempt = 1 /\ dsz' = dsz /\ p' = p /\ buf' = buf
      BY <1>3, DecodeFrame DEF caller
    <2>2. CASE EnterTry
      <3>1. OpcodeNoted(buf, p, dest', state')
        BY <2>2, NotedAtOnce
      <3>2. node' = Root /\ pc' = "walk" /\ Table[Root].type = 1
        BY <2>2, TableAssumption DEF EnterTry
      <3>3. ~Judged' /\ Table[node'].type = 1
        BY <3>2 DEF Judged
      <3>4. QED
        BY <2>1, <3>1, <3>2, <3>3 DEF NamedSoFar
    <2>3. CASE EnterTryTooShort \/ InvalidOpcode
      <3>1. pc' = "judge" /\ ~Judged'
        BY <2>3 DEF EnterTryTooShort, InvalidOpcode, Fail, Judged
      <3>2. QED
        BY <3>1 DEF NamedSoFar
    <2>4. CASE WalkByte \/ WalkMode \/ WalkModRM
      <3>1. ~Judged' /\ pc = "walk" /\ pc' \in {"walk", "judge"}
        BY <2>4 DEF WalkByte, WalkMode, WalkModRM, Fail, Judged
      <3> SUFFICES ASSUME pc' = "walk"
                   PROVE  /\ OpcodeNoted(buf, p, dest', state')
                          /\ (Table[node'].type = 0 /\ Table[node'].encoding # Invalid) =>
                               InOpcode(buf, Encodings[Table[node'].encoding], state')
        BY <2>1, <3>1 DEF NamedSoFar
      <3>2. OpcodeNoted(buf, p, dest, state)
        BY <2>1, <3>1 DEF NamedSoFar
      <3>3. /\ state'.prefix_size = state.prefix_size
            /\ dest'.rex_used = dest.rex_used /\ state'.opcode0 = state.opcode0
        BY <2>4, WalkKeeps
      <3>4. OpcodeNoted(buf, p, dest', state')
        BY <3>2, <3>3, NotedKept, Zenon
      <3>5. ASSUME Table[node'].type = 0, Table[node'].encoding # Invalid
            PROVE  InOpcode(buf, Encodings[Table[node'].encoding], state')
        <4>1. CASE WalkByte
          <5>1. Reading(buf, dsz, p, dest, state, node, fetcher_copy.next)
            BY <2>1, <3>1 DEF ReadSoFar
          <5>2. InOpcode(buf, Encodings[Table[node'].encoding], state)
            BY <3>5, <4>1, <5>1, ByteNames
          <5>3. QED
            BY <3>3, <5>2 DEF InOpcode
        <4>2. CASE WalkMode \/ WalkModRM
          BY <3>5, <4>2, OtherNames
        <4>3. QED
          BY <2>4, <4>1, <4>2
      <3>6. QED
        BY <3>4, <3>5
    <2>5. CASE Leaf
      <3>1. ~Judged' /\ pc' # "walk" /\ pc = "walk"
        BY <2>5, LeafCases DEF Judged
      <3> SUFFICES ASSUME pc' = "args"
                   PROVE  /\ OpcodeNoted(buf, p, dest', state')
                          /\ InOpcode(buf, Encodings[dest'.encoding], state')
        BY <2>1, <3>1 DEF NamedSoFar
      <3>2. OpcodeNoted(buf, p, dest, state)
        BY <2>1, <3>1 DEF NamedSoFar
      <3>3. /\ state'.prefix_size = state.prefix_size
            /\ dest'.rex_used = dest.rex_used /\ state'.opcode0 = state.opcode0
        BY <2>5, WalkKeeps
      <3>4. OpcodeNoted(buf, p, dest', state')
        BY <3>2, <3>3, NotedKept, Zenon
      <3>5. Table[node].type = 0 /\ Table[node].encoding # Invalid
        BY <2>5 DEF Leaf
      <3>6. InOpcode(buf, Encodings[Table[node].encoding], state)
        BY <2>1, <3>1, <3>5 DEF NamedSoFar
      <3>7. dest'.encoding = Table[node].encoding
        <4>1. /\ LeafIcode \in Icodes /\ LeafRead.ic \in Icodes /\ (LeafKnown \/ LeafReads)
          BY <2>5, LeafCases
        <4>2. LeafIcode.encoding = Table[node].encoding
          <5>1. dest \in Icodes
            BY DEF Inv, TypeOK
          <5>2. QED
            BY <5>1 DEF LeafIcode, Icodes
        <4>3. LeafRead.ic.encoding = LeafIcode.encoding
          <5>1. state \in DecoderStates
            BY DEF Inv, TypeOK
          <5>2. QED
            BY <4>1, <5>1, GetModrmKeeps DEF LeafRead
        <4>4. \A e : \A ic \in Icodes : WithOperands(ic, e).encoding = ic.encoding
          BY DEF WithOperands, Icodes
        <4>5. dest' \in {WithOperands(LeafIcode, LeafEncoding), WithOperands(LeafRead.ic, LeafEncoding)}
          BY <4>1 DEF LeafKnown, LeafReads
        <4>6. QED
          BY <4>1, <4>2, <4>3, <4>4, <4>5
      <3>8. QED
        BY <3>3, <3>4, <3>6, <3>7 DEF InOpcode
    <2>6. CASE get_arguments
      <3>1. pc = "args" /\ pc' \in {"args", "judge"}
        BY <2>6 DEF get_arguments, UnsupportedArgument, FullDispArg, ImplicitImmArg, ImmArg, RegArg,
           MemArg, EndArgs, Fail, NextArg, AtArg
      <3>2. OpcodeNoted(buf, p, dest, state) /\ InOpcode(buf, Encodings[dest.encoding], state)
        BY <2>1, <3>1 DEF NamedSoFar
      <3>3. /\ dest'.encoding = dest.encoding /\ dest'.rex_used = dest.rex_used
            /\ state'.prefix_size = state.prefix_size /\ state'.opcode0 = state.opcode0
        BY <2>6, ArgumentsKeep DEF KeptByArguments
      <3>4. OpcodeNoted(buf, p, dest', state')
        BY <3>2, <3>3, NotedKept, Zenon
      <3>5. InOpcode(buf, Encodings[dest'.encoding], state')
        BY <3>2, <3>3 DEF InOpcode
      <3>6. Judged' => Missing(dest')
        <4>1. ArgumentsRead /\ SourcedNow
          BY <2>1, <3>1 DEF ReadSoFar, SourcedSoFar
        <4>2. QED
          BY <2>6, <4>1, ArgumentsJudge, EndMissing
      <3>7. QED
        BY <2>1, <3>1, <3>4, <3>5, <3>6 DEF NamedSoFar
    <2>7. CASE Return
      <3>1. pc' = "done"
        BY <2>7 DEF Return
      <3> SUFFICES ASSUME Judged'
                   PROVE  /\ OpcodeNoted(buf, p, dest', state')
                          /\ InOpcode(buf, Encodings[dest'.encoding], state')
                          /\ Missing(dest')
        BY <2>1, <3>1 DEF NamedSoFar
      <3>2. /\ Judged /\ state' = state
            /\ KeptByArguments(dest', state') = KeptByArguments(dest, state)
        BY <2>7, ReturnKeeps
      <3>3. dest'.encoding = dest.encoding /\ dest'.rex_used = dest.rex_used
        BY <3>2 DEF KeptByArguments
      <3>4. dest'.args = dest.args
        <4>1. dest \in Icodes
          BY DEF Inv, TypeOK
        <4>2. PICK w : dest' = [dest EXCEPT !.fwait = w]
          BY <2>7 DEF Return
        <4>3. QED
          BY <4>1, <4>2 DEF Icodes
      <3>5. /\ OpcodeNoted(buf, p, dest, state) /\ InOpcode(buf, Encodings[dest.encoding], state)
            /\ Missing(dest)
        BY <2>1, <3>2 DEF NamedSoFar
      <3>6. QED
        BY <3>2, <3>3, <3>4, <3>5 DEF OpcodeNoted, Missing
    <2>8. QED
      BY <1>3, <2>2, <2>3, <2>4, <2>5, <2>6, <2>7 DEF Walk
  <1>4. CASE UNCHANGED vars
    <2>1. /\ buf' = buf /\ pc' = pc /\ p' = p /\ node' = node
          /\ attempt' = attempt /\ dest' = dest
          /\ state' = state /\ Judged' = Judged
      BY <1>4 DEF vars, Judged
    <2>2. QED
      BY <2>1 DEF NamedSoFar
  <1>5. QED
    BY <1>1, <1>2, <1>3, <1>4 DEF Next, Step, Finish, Returned

\* The byte at which FwaitAt is, is one.
LEMMA FwaitThere ==
  ASSUME num_bytes \in Nat, FwaitAt # -1
  PROVE  ByteOf(FwaitAt) = FWAIT
  <1>1. PICK i \in 0..(num_bytes - 1) : FwaitIs(i)
    BY FwaitOffset
  <1>2. FwaitAt = i
    BY <1>1, FwaitOffset
  <1>3. QED
    BY <1>1, <1>2 DEF FwaitIs

\* What RexBit reads of the byte before the opcode.
LEMMA RexBitOf ==
  ASSUME NEW c \in 64..79, RexByte, c = ByteOf(state.prefix_size - 1)
  PROVE  RexBit(1) = 8 * (c % 2) /\ RexBit(4) = 8 * ((c \div 4) % 2)
  <1>1. RexBit(1) = 8 * ((c \div 1) % 2) /\ RexBit(4) = 8 * ((c \div 4) % 2)
    BY DEF RexBit
  <1>2. c \div 1 = c
    OBVIOUS
  <1>3. QED
    BY <1>1, <1>2

\* A REX prefix is the byte before the opcode, and what it says is in p.
RexKnown ==
  /\ p.rex_used = RexByte
  /\ 8 * p.rex_b = RexBit(1) /\ 8 * p.rex_r = RexBit(4)
  /\ p.rex_b \in 0..1 /\ p.rex_r \in 0..1

LEMMA RexRead ==
  ASSUME Inv, Attempts, Succeeded, attempt = 1
  PROVE  RexKnown
  <1> DEFINE n == fetcher.next
  <1>1. /\ AtOpcode \/ BehindRex \/ AtEnd
        /\ ~got_fwait => FwaitAt = -1
        /\ got_fwait => FwaitAt \in 0..(n - 1)
    BY DEF Attempts, Collecting, Decoding, Succeeded, Returning
  <1>2. state.prefix_size = n /\ Has(fetcher, 1)
    BY DEF Attempts, Began, Succeeded, Returning
  <1>3. num_bytes \in Nat /\ n \in 0..num_bytes
    BY FetcherBytes
  <1>4. p.rex_used \in BOOLEAN /\ p.rex_b \in 0..1 /\ p.rex_r \in 0..1
    BY DEF Inv, TypeOK, Prefixes
  <1> HIDE DEF n
  <1>5. CASE AtOpcode
    <2>1. /\ Start \in 0..n /\ AllPrefixes(buf, Start, n)
          /\ p.rex_used = FALSE /\ p.rex_r = 0 /\ p.rex_b = 0
      BY <1>5 DEF AtOpcode, Collected, NoRexBits, n
    <2>2. ASSUME n > 0 PROVE ~IsRex(ByteOf(n - 1))
      <3>1. CASE Start <= n - 1
        <4>1. n - 1 \in Start..(n - 1)
          BY <1>3, <2>1, <2>2, <3>1
        <4>2. IsPrefix(ByteOf(n - 1))
          BY <2>1, <4>1 DEF AllPrefixes, ByteOf
        <4>3. QED
          BY <4>2, ByteClasses
      <3>2. CASE ~(Start <= n - 1)
        <4>1. Start = n
          BY <1>3, <2>1, <3>2
        <4>2. got_fwait /\ FwaitAt = n - 1
          BY <1>1, <1>3, <2>2, <4>1 DEF Start
        <4>3. FwaitAt # -1
          BY <1>3, <2>2, <4>2
        <4>4. ByteOf(n - 1) = FWAIT
          BY <1>3, <4>2, <4>3, FwaitThere
        <4>5. QED
          BY <4>4, ByteClasses
      <3>3. QED
        BY <3>1, <3>2
    <2>3. ~RexByte
      BY <1>2, <2>2 DEF RexByte
    <2>4. RexBit(1) = 0 /\ RexBit(4) = 0
      BY <2>3 DEF RexBit
    <2>5. QED
      <3>1. RexByte = FALSE
        BY <2>3 DEF RexByte
      <3>2. p.rex_used = RexByte
        BY <2>1, <3>1
      <3>3. 8 * p.rex_b = RexBit(1) /\ 8 * p.rex_r = RexBit(4)
        BY <2>1, <2>4
      <3>4. QED
        BY <1>4, <3>2, <3>3 DEF RexKnown
  <1>6. CASE BehindRex
    <2> DEFINE c == ByteOf(n - 1)
    <2>1. dsz = 2 /\ n > 0 /\ IsRex(c) /\ RexBits(p, c)
      BY <1>6 DEF BehindRex, n
    <2>2. RexByte /\ c = ByteOf(state.prefix_size - 1)
      BY <1>2, <2>1 DEF RexByte
    <2>3. c \in 64..79
      BY <2>1 DEF IsRex
    <2> HIDE DEF c
    <2>4. RexBit(1) = 8 * (c % 2) /\ RexBit(4) = 8 * ((c \div 4) % 2)
      BY <2>2, <2>3, RexBitOf
    <2>5. p.rex_used = TRUE /\ p.rex_b = c % 2 /\ p.rex_r = (c \div 4) % 2
      BY <2>1 DEF RexBits
    <2>6. QED
      BY <1>4, <2>2, <2>4, <2>5 DEF RexKnown
  <1>7. CASE AtEnd
    BY <1>2, <1>7 DEF AtEnd
  <1>8. QED
    BY <1>1, <1>5, <1>6, <1>7

\* A register that the opcode names is in its last byte.
LEMMA OpcodeRead ==
  ASSUME Inv, Succeeded, DecodedFirst, OpcodeNoted(buf, p, dest, state),
         InOpcode(buf, Encoding, state), "reg_base" \in Encoding.etags
  PROVE  /\ state.opcode0 % 8 = ByteOf(AfterOpcode - 1) % 8
         /\ state.opcode0 % 8 \in 0..7
  <1> DEFINE first == state.prefix_size
             k == state.insn_size
             n == OpcodeLength(buf, first)
  <1>1. first \in Nat /\ state \in DecoderStates /\ dest \in Icodes /\ buf \in Seq(Byte)
    BY DEF DecodedFirst, DecoderStates
  <1>2. ~Encoding.regop /\ n \in {1, 2}
    BY DEF InOpcode
  <1>3. Opened(buf, dest, state) = first + n
    <2>1. ~state.has_modrm
      BY <1>2 DEF DecodedFirst, Filled, Encoding
    <2>2. QED
      BY <2>1 DEF Opened
  <1>4. first + n <= k
    <2>1. \/ Adjoin(dest.disp, dest.imm, first + n, k)
          \/ Adjoin(dest.imm, dest.disp, first + n, k)
      BY <1>3 DEF DecodedFirst, Filled
    <2>2. /\ dest.imm.len \in Nat /\ dest.disp.len \in Nat
          /\ dest.imm.at \in Nat /\ dest.disp.at \in Nat
      BY <1>1 DEF Icodes, Slices
    <2> HIDE DEF n, k, first
    <2>3. QED
      BY <1>1, <1>2, <2>1, <2>2 DEF Adjoin
  <1>5. k \in Nat /\ k <= Len(buf)
    <2>1. k \in 1..num_bytes
      BY DEF Inv, Positions, Succeeded, Returning
    <2>2. num_bytes \in Nat /\ num_bytes <= Len(buf) /\ Len(buf) \in Nat
      BY <1>1, NumBytes
    <2>3. QED
      BY <2>1, <2>2
  <1>6. first + n \in 1..Len(buf) /\ buf[first + n] \in Byte
    <2>1. first + n \in 1..Len(buf)
      <3> HIDE DEF n, k, first
      <3>1. QED
        BY <1>1, <1>2, <1>4, <1>5
    <2> HIDE DEF n, k, first
    <2>2. QED
      BY <1>1, <2>1
  <1>7. ByteOf(AfterOpcode - 1) = buf[first + n]
    <2>1. AfterOpcode = first + n
      BY <1>1, AfterOpcodeIs
    <2> HIDE DEF n, k, first
    <2>2. ((first + n) - 1) + 1 = first + n
      BY <1>1, <1>2
    <2>3. QED
      BY <2>1, <2>2 DEF ByteOf
  <1>8. state.opcode0 = IF n = 1 THEN buf[first + n] ELSE 256 + buf[first + n]
    <2>1. state.opcode0 = OpcodeNumber(buf, first)
      BY DEF OpcodeNoted
    <2>2. n = 1 => buf[first + 1] # 15
      BY DEF OpcodeLength
    <2>3. n = 2 => buf[first + 1] = 15
      BY DEF OpcodeLength
    <2> HIDE DEF n, k, first
    <2>4. QED
      BY <1>2, <2>1, <2>2, <2>3 DEF OpcodeNumber
  <1>9. \A x \in Byte : (256 + x) % 8 = x % 8 /\ x % 8 \in 0..7
    BY DEF Byte
  <1> HIDE DEF n, k, first
  <1>10. QED
    BY <1>6, <1>7, <1>8, <1>9

\* What RegisterMeant makes of an operand before it tells AH from SPL.
NumberMeant(i) ==
  LET a == Encoding.args[i]
      opcode == ByteOf(AfterOpcode - 1)
      modrm == ByteOf(state.modrm_offset)
  IN  CASE ~ByDefault(a) -> a.value
        [] ByDefault(a) /\ "reg_base" \in Encoding.etags -> (opcode % 8) + RexBit(1)
        [] /\ ByDefault(a) /\ "reg_base" \notin Encoding.etags
           /\ a.value = RegOrMem \/ "reg_rm" \in Encoding.etags ->
             (modrm % 8) + RexBit(1)
        [] OTHER -> RegField(modrm) + RexBit(4)

LEMMA NumberRead ==
  ASSUME Inv, Succeeded, DecodedFirst, RexKnown, OpcodeNoted(buf, p, dest, state),
         InOpcode(buf, Encoding, state), NEW i \in 1..4, dest.args[i].type = "reg_gr"
  PROVE  /\ dest.args[i].value = NumberMeant(i)
         /\ NumberMeant(i) \in 0..15
         /\ ByDefault(Encoding.args[i]) /\ ~RexByte => NumberMeant(i) <= 7
         /\ dest.args[i].size = SizeIn(dsz, dest, Encoding.args[i].size)
  <1> DEFINE r == Encoding.args[i]
             a == dest.args[i]
             e == Encoding
  <1>1. OperandRead(dsz, p, dest, state, state.insn_size, e, i)
    BY DEF DecodedFirst, AllSourced, Encoding
  <1>2. r.type = "reg_gr" /\ a.size = SizeIn(dsz, dest, r.size)
        /\ a.value = IF ByDefault(r) THEN RegisterIn(p, e, r, state) ELSE r.value
    BY <1>1 DEF OperandRead, RegTypes
  <1>3. /\ r.value \in 0..15 \cup {DefaultValue, RegOrMem}
        /\ r.value \in {DefaultValue, RegOrMem} => "reg_base" \in e.etags \/ e.regop
    <2>1. dest.encoding \in DOMAIN Encodings
      BY DEF DecodedFirst
    <2>2. QED
      BY <1>2, <2>1, NamesAssumption DEF Encoding
  <1>4. /\ 8 * p.rex_b = RexBit(1) /\ 8 * p.rex_r = RexBit(4)
        /\ p.rex_b \in 0..1 /\ p.rex_r \in 0..1
        /\ ~RexByte => RexBit(1) = 0 /\ RexBit(4) = 0
    BY DEF RexKnown, RexBit
  <1>5. "reg_base" \in e.etags =>
          /\ state.opcode0 % 8 = ByteOf(AfterOpcode - 1) % 8
          /\ state.opcode0 % 8 \in 0..7
    BY OpcodeRead
  <1>6. e.regop => state.modrm0 = ByteOf(state.modrm_offset) /\ state.modrm0 \in Byte
    <2>1. e.regop => state.modrm0 = ByteOf(state.modrm_offset)
      BY DEF DecodedFirst, Filled, AddressRead, ByteOf, Encoding
    <2>2. QED
      BY <2>1 DEF DecodedFirst, DecoderStates
  <1>7. \A c \in Byte : c % 8 \in 0..7 /\ RegField(c) \in 0..7 /\ Rm(c) = c % 8
    BY ModRMFields DEF Rm
  <1> HIDE DEF r, a, e
  <1>8. CASE ~ByDefault(r)
    <2>1. NumberMeant(i) = r.value
      BY <1>8 DEF NumberMeant, r
    <2>2. QED
      BY <1>2, <1>3, <1>8, <2>1 DEF ByDefault, a, r
  <1>9. CASE ByDefault(r) /\ "reg_base" \in e.etags
    <2>1. NumberMeant(i) = (ByteOf(AfterOpcode - 1) % 8) + RexBit(1)
      BY <1>9 DEF NumberMeant, r, e
    <2>2. RegisterIn(p, e, r, state) = (state.opcode0 % 8) + 8 * p.rex_b
      BY <1>2, <1>9 DEF RegisterIn
    <2>3. a.value = (state.opcode0 % 8) + 8 * p.rex_b
      BY <1>2, <1>9, <2>2
    <2>4. a.value = NumberMeant(i) /\ a.value \in 0..15 /\ (~RexByte => a.value <= 7)
      BY <1>4, <1>5, <1>9, <2>1, <2>3
    <2>5. QED
      BY <1>2, <2>4 DEF a, r
  <1>10. CASE ByDefault(r) /\ "reg_base" \notin e.etags
    <2>1. e.regop
      BY <1>3, <1>10 DEF ByDefault
    <2> DEFINE rm == r.value = RegOrMem \/ "reg_rm" \in e.etags
               m == state.modrm0
    <2>2. m = ByteOf(state.modrm_offset) /\ m \in Byte
      BY <1>6, <2>1
    <2>3. NumberMeant(i) = IF rm THEN (m % 8) + RexBit(1) ELSE RegField(m) + RexBit(4)
      BY <1>10, <2>2 DEF NumberMeant, r, e
    <2>4. RegisterIn(p, e, r, state) = IF rm THEN Rm(m) + 8 * p.rex_b ELSE RegField(m) + 8 * p.rex_r
      BY <1>2, <1>10 DEF RegisterIn
    <2>5. a.value = RegisterIn(p, e, r, state)
      BY <1>2, <1>10
    <2> HIDE DEF rm, m
    <2>6. m % 8 \in 0..7 /\ RegField(m) \in 0..7 /\ Rm(m) = m % 8
      BY <1>7, <2>2
    <2>7. a.value = NumberMeant(i) /\ a.value \in 0..15 /\ (~RexByte => a.value <= 7)
      <3>1. CASE rm
        BY <1>4, <2>3, <2>4, <2>5, <2>6, <3>1
      <3>2. CASE ~rm
        BY <1>4, <2>3, <2>4, <2>5, <2>6, <3>2
      <3>3. QED
        BY <3>1, <3>2
    <2>8. QED
      BY <1>2, <2>7 DEF a, r
  <1>11. QED
    BY <1>8, <1>9, <1>10

\* A size of one byte does not depend on a prefix.
LEMMA ByteSize ==
  ASSUME DecodedFirst, NEW n \in Int
  PROVE  SizeIn(dsz, dest, n) = 1 <=> n = 1
  <1>1. SizeOf(dest.osz) \in {2, 4, 8} /\ SizeOf(dest.asz) \in {2, 4, 8}
    BY DEF DecodedFirst, Icodes, SizeOf
  <1>2. CASE n >= 0
    BY <1>2 DEF SizeIn
  <1>3. CASE n < 0
    <2>1. SizeIn(dsz, dest, n) \in {SizeOf(dest.osz), SizeOf(dest.asz), 0, 2, 4, 8, 16}
      BY <1>3 DEF SizeIn
    <2>2. QED
      BY <1>1, <1>3, <2>1
  <1>4. QED
    BY <1>2, <1>3

\* The name of a general register is that of the register meant.
LEMMA RegisterNamed ==
  ASSUME Inv, Succeeded, DecodedFirst, RexKnown, OpcodeNoted(buf, p, dest, state),
         InOpcode(buf, Encoding, state), NEW i \in 1..4, dest.args[i].type = "reg_gr"
  PROVE  RegisterName(i) = RegisterMeant(i)
  <1> DEFINE r == Encoding.args[i]
             a == dest.args[i]
             n == NumberMeant(i)
  <1>1. /\ a.value = n /\ n \in 0..15
        /\ ByDefault(r) /\ ~RexByte => n <= 7
        /\ a.size = SizeIn(dsz, dest, r.size)
    BY NumberRead
  <1>2. r.size \in Int
    BY DEF DecodedFirst, Args, Encoding
  <1>3. a.size = 1 <=> r.size = 1
    BY <1>1, <1>2, ByteSize
  <1>4. dest.rex_used = RexByte
    BY DEF OpcodeNoted, RexKnown
  <1>5. RegisterMeant(i) = IF ByDefault(r) /\ r.size = 1 /\ n \in 4..7 /\ ~RexByte THEN n + 12 ELSE n
    BY DEF RegisterMeant, NumberMeant, ByDefault
  <1>6. ExplicitRegister(i) <=> ByDefault(r)
    BY DEF ExplicitRegister, ByDefault
  <1> HIDE DEF n, r
  <1>7. CASE a.size # 1
    <2>1. RegisterName(i) = n
      BY <1>1, <1>7 DEF RegisterName
    <2>2. QED
      BY <1>3, <1>5, <1>7, <2>1
  <1>8. CASE a.size = 1
    <2>1. RegisterName(i) = ByteRegister(i)
      BY <1>8 DEF RegisterName
    <2>2. CASE ByDefault(r) /\ ~RexByte
      <3>1. ByteRegister(i) = IF n >= 4 THEN n + 12 ELSE n
        BY <1>1, <1>4, <1>6, <2>2 DEF ByteRegister
      <3>2. QED
        BY <1>1, <1>3, <1>5, <1>8, <2>1, <2>2, <3>1
    <2>3. CASE ~(ByDefault(r) /\ ~RexByte)
      <3>1. ByteRegister(i) = n
        BY <1>1, <1>4, <1>6, <2>3 DEF ByteRegister
      <3>2. QED
        BY <1>5, <2>1, <2>3, <3>1
    <2>4. QED
      BY <2>2, <2>3
  <1>9. QED
    BY <1>7, <1>8

\* The text gives the size of an address.
LEMMA AddressNamed ==
  ASSUME DecodedFirst, NEW i \in 1..4
  PROVE  AddressSizeRead(i) = SizeOf(dest.asz)
  <1>1. dest.asz \in 0..2 /\ SizeOf(dest.asz) \in {2, 4, 8} /\ (dest.asz = 2 => SizeOf(dest.asz) = 8)
    BY DEF DecodedFirst, Icodes, SizeOf
  <1>2. CASE HasRegister /\ ~FullDisp(i)
    BY <1>2 DEF AddressSizeRead
  <1>3. CASE ~(HasRegister /\ ~FullDisp(i))
    <2>1. AddressSizeRead(i) = IF AddressKeyword(i) # 0 THEN AddressKeyword(i) ELSE SizeOf(dsz)
      BY <1>3 DEF AddressSizeRead
    <2>2. CASE dest.asz # dsz
      <3>1. AddressKeyword(i) = SizeOf(dest.asz)
        BY <1>1, <1>3, <2>2 DEF AddressKeyword
      <3>2. QED
        BY <1>1, <2>1, <3>1
    <2>3. CASE dest.asz = dsz
      <3>1. AddressKeyword(i) \in {0, SizeOf(dest.asz)}
        BY <1>1, <2>3 DEF AddressKeyword
      <3>2. QED
        BY <2>1, <2>3, <3>1
    <2>4. QED
      BY <2>2, <2>3
  <1>4. QED
    BY <1>2, <1>3

\* The sizes that have a keyword.
LEMMA KeywordSizes ==
  ASSUME DecodedFirst, NEW n \in Keywords
  PROVE  SizeIn(dsz, dest, n) \in {1, 2, 4, 8, 10}
  <1>1. SizeOf(dest.osz) \in {2, 4, 8} /\ SizeOf(dest.asz) \in {2, 4, 8}
    BY DEF DecodedFirst, Icodes, SizeOf
  <1>2. CASE n \in {1, 2, 4, 8, 10}
    BY <1>2 DEF SizeIn
  <1>3. CASE n \in {-1, -2, -3, -4, -5, -7, -8}
    <2>1. SizeIn(dsz, dest, n) \in {SizeOf(dest.osz), SizeOf(dest.asz), 2, 4, 8}
      BY <1>3 DEF SizeIn
    <2>2. QED
      BY <1>1, <2>1
  <1>4. QED
    BY <1>2, <1>3 DEF Keywords

\* An operand that the prototype makes as large as operand i tells its size.
LEMMA AlikeTells ==
  ASSUME DecodedFirst, Missing(dest), NEW i \in 1..4, NEW j \in 1..4, dest.args[i].type # "void",
         Encoding.proto[j] = Encoding.proto[i],
         Encoding.args[j].type \in RegTypes, Encoding.args[j].value # RegOrMem,
         Encoding.args[j].size = Encoding.args[i].size
  PROVE  TellsSize(i)
  <1>1. dest.args[j].type # "void"
    BY DEF Missing, RegTypes, Encoding
  <1>2. /\ OperandRead(dsz, p, dest, state, state.insn_size, Encoding, i)
        /\ OperandRead(dsz, p, dest, state, state.insn_size, Encoding, j)
    BY <1>1 DEF DecodedFirst, AllSourced, Encoding
  <1>3. dest.args[j].type \in RegTypes /\ dest.args[j].size = dest.args[i].size
    BY <1>2 DEF OperandRead
  <1>4. j \in Operands(RegTypes)
    BY <1>3 DEF Operands
  <1>5. QED
    BY <1>3, <1>4 DEF TellsSize

\* If there is none, a keyword tells it.
LEMMA KeywordTells ==
  ASSUME DecodedFirst, Missing(dest), NEW i \in 1..4,
         dest.args[i].type \notin {"void", "mem_address"},
         \A j \in 1..4 : ~Alike(Encoding, i, j), Encoding.args[i].size \in Keywords,
         Encoding.proto[i] < 0, Handler \notin {"cmpxchgxb", "in", "out"}
  PROVE  TellsSize(i)
  <1>1. ASSUME NEW j \in 1..4, Sizes(i, j) PROVE FALSE
    <2>1. j # i /\ Encoding.proto[j] = Encoding.proto[i] /\ dest.args[j].type \notin ImmTypes
      BY <1>1 DEF Sizes
    <2>2. Encoding.args[j].type \in ImmTypes
      BY <2>1 DEF Alike
    <2>3. dest.args[j].type = "void"
      <3>1. SUFFICES ASSUME dest.args[j].type # "void" PROVE FALSE
        OBVIOUS
      <3>2. OperandRead(dsz, p, dest, state, state.insn_size, Encoding, j)
        BY <3>1 DEF DecodedFirst, AllSourced, Encoding
      <3>3. Encoding.args[j].value = RegOrMem
        BY <2>1, <2>2, <3>2 DEF OperandRead
      <3>4. Encoding \in {Encodings[x] : x \in DOMAIN Encodings}
        BY DEF DecodedFirst, Encoding
      <3>5. Encoding.args[j].type \in RegTypes
        <4> DEFINE e == Encoding
        <4>1. e \in {Encodings[x] : x \in DOMAIN Encodings} /\ e.args[j].value = RegOrMem
          BY <3>3, <3>4
        <4> HIDE DEF e
        <4>2. e.args[j].type \in RegTypes
          BY <4>1, OperandsAssumption, Zenon
        <4>3. QED
          BY <4>2 DEF e
      <3>6. QED
        BY <2>2, <3>5 DEF ImmTypes, RegTypes
    <2>4. Encoding.args[j].type = "void"
      BY <2>3 DEF Missing, Encoding
    <2>5. QED
      BY <2>2, <2>4 DEF ImmTypes
  <1>2. NeedSize(i)
    BY <1>1 DEF NeedSize
  <1>3. SizeKeyword(i) = dest.args[i].size
    BY <1>2 DEF SizeKeyword
  <1>4. OperandRead(dsz, p, dest, state, state.insn_size, Encoding, i)
    BY DEF DecodedFirst, AllSourced, Encoding
  <1>5. dest.args[i].size \in {1, 2, 4, 8, 10}
    BY <1>4, KeywordSizes DEF OperandRead
  <1>6. QED
    BY <1>3, <1>5 DEF TellsSize

\* What may be in memory and has no size by its prototype.
LEMMA OpenSize ==
  ASSUME NEW x \in DOMAIN Encodings, NEW i \in 1..4, MayBeAddress(Encodings[x].args[i]),
         Encodings[x].proto[i] < 0, HandlerOf(x) # "cmpxchgxb"
  PROVE  /\ HandlerOf(x) \notin {"in", "out"}
         /\ \A j \in 1..4 : Alike(Encodings[x], i, j) =>
              /\ Encodings[x].args[j].type \in RegTypes /\ Encodings[x].args[j].value # RegOrMem
              /\ Encodings[x].args[j].size = Encodings[x].args[i].size
         /\ (\A j \in 1..4 : ~Alike(Encodings[x], i, j)) => Encodings[x].args[i].size \in Keywords
BY NamesAssumption, Zenon

\* The text tells the size of an operand in memory.
LEMMA SizeTold ==
  ASSUME DecodedFirst, Missing(dest), NEW i \in 1..4, i \in Addressed
  PROVE  TellsSize(i)
  <1> DEFINE e == Encoding
             a == dest.args[i]
             r == e.args[i]
  <1>1. a.type \in {"mem_ea", "mem_ea_seg", "mem_address", "mem_fulldisp"}
    BY DEF Addressed, Operands
  <1> SUFFICES ASSUME ~(e.proto[i] >= 0), Handler # "cmpxchgxb", a.type # "mem_address"
               PROVE  TellsSize(i)
    BY DEF TellsSize
  <1>2. OperandRead(dsz, p, dest, state, state.insn_size, e, i)
    BY <1>1 DEF DecodedFirst, AllSourced, Encoding
  <1>3. MayBeAddress(r)
    <2>1. a.type = r.type \/ r.value = RegOrMem
      BY <1>2 DEF OperandRead
    <2>2. QED
      BY <1>1, <2>1 DEF MayBeAddress
  <1>4. dest.encoding \in DOMAIN Encodings /\ e = Encodings[dest.encoding]
        /\ Handler = HandlerOf(dest.encoding)
    BY DEF DecodedFirst, Encoding, Handler
  <1> HIDE DEF e, Handler
  <1>5. e.proto[i] < 0
    <2>1. e.proto \in [1..4 -> Int]
      BY <1>4, NamesAssumption
    <2>2. QED
      BY <2>1
  <1>6. /\ Handler \notin {"in", "out"}
        /\ \A j \in 1..4 : Alike(e, i, j) =>
             /\ e.args[j].type \in RegTypes /\ e.args[j].value # RegOrMem
             /\ e.args[j].size = e.args[i].size
        /\ (\A j \in 1..4 : ~Alike(e, i, j)) => e.args[i].size \in Keywords
    BY <1>3, <1>4, <1>5, OpenSize
  <1>7. CASE \E j \in 1..4 : Alike(e, i, j)
    <2>1. PICK j \in 1..4 : Alike(e, i, j)
      BY <1>7
    <2>2. e.proto[j] = e.proto[i]
      BY <2>1 DEF Alike
    <2>3. /\ e.args[j].type \in RegTypes /\ e.args[j].value # RegOrMem
          /\ e.args[j].size = e.args[i].size
      BY <1>6, <2>1
    <2>4. QED
      BY <1>1, <2>2, <2>3, AlikeTells DEF e
  <1>8. CASE \A j \in 1..4 : ~Alike(e, i, j)
    BY <1>1, <1>5, <1>6, <1>8, KeywordTells DEF e
  <1>9. QED
    BY <1>7, <1>8

\* An instruction that the second attempt decodes has no operands.
LEMMA NamesReturned ==
  Inv /\ Attempts /\ ReadSoFar /\ SourcedSoFar /\ NamedSoFar => NamesReadBack
  <1> SUFFICES ASSUME Inv, Attempts, ReadSoFar, SourcedSoFar, NamedSoFar, Succeeded
               PROVE  /\ \A i \in Operands({"reg_gr"}) : RegisterName(i) = RegisterMeant(i)
                      /\ \A i \in Addressed :
                           TellsSize(i) /\ AddressSizeRead(i) = SizeOf(dest.asz)
    BY DEF NamesReadBack
  <1>1. attempt \in {1, 2} /\ Judged
    BY DEF Inv, TypeOK, Succeeded, Returning, Judged
  <1>2. CASE attempt = 1
    <2>1. DecodedFirst /\ RexKnown
      BY <1>2, FirstDecoded, RexRead
    <2>2. /\ OpcodeNoted(buf, p, dest, state) /\ InOpcode(buf, Encoding, state)
          /\ Missing(dest)
      BY <1>1, <1>2 DEF NamedSoFar, Encoding
    <2>3. \A i \in Operands({"reg_gr"}) : RegisterName(i) = RegisterMeant(i)
      BY <2>1, <2>2, RegisterNamed DEF Operands
    <2>4. \A i \in Addressed : i \in 1..4
      BY DEF Addressed, Operands
    <2>5. \A i \in Addressed : TellsSize(i) /\ AddressSizeRead(i) = SizeOf(dest.asz)
      BY <2>1, <2>2, <2>4, SizeTold, AddressNamed
    <2>6. QED
      BY <2>3, <2>5
  <1>3. CASE attempt = 2
    <2>1. \A i \in 1..4 : dest.args[i].type = "void"
      BY <1>3, AttemptsReturn DEF FwaitMeaning
    <2>2. Operands({"reg_gr"}) = {} /\ Addressed = {}
      BY <2>1 DEF Operands, Addressed
    <2>3. QED
      BY <2>2
  <1>4. QED
    BY <1>1, <1>2, <1>3

\* What the first attempt has noted of the opcode holds at every moment.
THEOREM NamedAlways ==
  Spec => [](Inv /\ Attempts /\ ReadSoFar /\ Unaddressed /\ SourcedSoFar /\ NamedSoFar)
  <1>1. Spec => [](Inv /\ Attempts /\ ReadSoFar /\ Unaddressed /\ SourcedSoFar)
    BY SourcedAlways
  <1>2. Init => NamedSoFar
    <2> SUFFICES ASSUME Init PROVE NamedSoFar
      OBVIOUS
    <2>1. pc \in {"prefix", "done"} /\ ~Judged
      BY DEF Init, Judged
    <2>2. QED
      BY <2>1 DEF NamedSoFar
  <1>3. Inv /\ Attempts /\ ReadSoFar /\ SourcedSoFar /\ NamedSoFar /\ [Next]_vars => NamedSoFar'
    BY NamedStep
  <1>4. QED
    BY <1>1, <1>2, <1>3, PTL DEF Spec

\* The names that are printed always stand for what the bytes of the
\* instruction mean: its registers, the sizes of its operands in memory, and
\* the size of their addresses.
THEOREM NamesAlwaysReadBack == Spec => []NamesReadBack
  <1>1. Inv /\ Attempts /\ ReadSoFar /\ SourcedSoFar /\ NamedSoFar => NamesReadBack
    BY NamesReturned
  <1>2. QED
    BY <1>1, NamedAlways, PTL

-----------------------------------------------------------------------------
(* What the words are taken from *)

\* The segment of an address is the one a prefix names, or by its base.
SegmentNoted(q, ic) == ic.ea.sreg = q.sreg \/ (q.sreg = NoSeg /\ ic.ea.sreg = StackSeg)

\* An address form does not name a segment.
LEMMA FormKeepsSegment ==
  ASSUME NEW ea \in Addresses, NEW c, NEW sib, NEW d, NEW a, NEW x, NEW b, NEW w,
         w = decode_modrm(ea, c, sib, d, a, x, b).ea
  PROVE  w.sreg = ea.sreg /\ DOMAIN w = DOMAIN ea
  <1>1. /\ decode_modrm_16(ea, c).ea.sreg = ea.sreg
        /\ DOMAIN decode_modrm_16(ea, c).ea = DOMAIN ea
    BY DEF decode_modrm_16, Addresses
  <1>2. ASSUME NEW y
        PROVE  /\ decode_modrm_32(ea, c, sib, y, x).ea.sreg = ea.sreg
               /\ DOMAIN decode_modrm_32(ea, c, sib, y, x).ea = DOMAIN ea
    BY DEF decode_modrm_32, Addresses
  <1>3. /\ decode_modrm_64(ea, c, sib, x, b).ea.sreg = ea.sreg
        /\ DOMAIN decode_modrm_64(ea, c, sib, x, b).ea = DOMAIN ea
    <2> DEFINE m == decode_modrm_32(ea, c, sib, TRUE, x)
    <2>1. m = [ea |-> m.ea, disp |-> m.disp]
      BY DEF decode_modrm_32
    <2>2. m.ea.sreg = ea.sreg /\ DOMAIN m.ea = DOMAIN ea
      BY <1>2
    <2>3. decode_modrm_64(ea, c, sib, x, b)
            \in {m, [m EXCEPT !.ea.base = Extend(@, b), !.ea.index = Extend(@, x)]}
      BY DEF decode_modrm_64
    <2> HIDE DEF m
    <2>4. [m EXCEPT !.ea.base = Extend(@, b), !.ea.index = Extend(@, x)].ea
            = [m.ea EXCEPT !.base = Extend(@, b), !.index = Extend(@, x)]
      BY <2>1
    <2>5. /\ [m.ea EXCEPT !.base = Extend(@, b), !.index = Extend(@, x)].sreg = m.ea.sreg
          /\ DOMAIN [m.ea EXCEPT !.base = Extend(@, b), !.index = Extend(@, x)] = DOMAIN m.ea
      OBVIOUS
    <2>6. QED
      BY <2>2, <2>3, <2>4, <2>5
  <1>4. QED
    BY <1>1, <1>2, <1>3 DEF decode_modrm

\* Nor do the icodes that get_modrm makes of it forget one.
LEMMA GetModrmSegment ==
  ASSUME NEW f, NEW ic \in Icodes, NEW st, SegmentNoted(p, ic), NEW w, w = get_modrm(f, ic, st).ic
  PROVE  SegmentNoted(p, w) /\ w.is_nop = ic.is_nop
  <1> DEFINE c == At(f)
             sib == IF HasSib(c, dsz, ic.asz) THEN buf[f.next + 2] ELSE 0
             stage == ModrmStage(f, ic.asz)
             after == Advance(f, ModrmHeader(f, ic.asz))
             m == decode_modrm(ic.ea, c, sib, dsz, ic.asz, p.rex_x, p.rex_b)
             slice == IF m.disp = 0 THEN NoSlice
                      ELSE Slice(after, IF Has(after, m.disp) THEN m.disp ELSE after.left)
             ea == [m.ea EXCEPT !.disp8 = m.ea.disp8 \/ m.disp = 1,
                                !.sreg = DefaultSegment(m.ea)]
             n == [m EXCEPT !.ea = ea]
  <1>1. /\ w = CASE stage = "none"    -> ic
                 [] stage = "byte"    -> [ic EXCEPT !.disp = NoSlice]
                 [] stage = "address" -> IF Has(after, m.disp) THEN WholeIcode(ic, c, m, slice)
                                         ELSE AddressIcode(ic, c, m, slice)
        /\ stage \in {"none", "byte", "address"}
    BY DEF get_modrm, ModrmStage
  <1>2. WholeIcode(ic, c, m, slice) = AddressIcode(ic, c, n, slice)
    BY DEF WholeIcode
  <1>3. ic.ea \in Addresses
    BY DEF Icodes
  <1>4. m.ea.sreg = ic.ea.sreg /\ DOMAIN m.ea = DOMAIN ic.ea
    BY <1>3, FormKeepsSegment
  <1>5. "sreg" \in DOMAIN m.ea
    BY <1>3, <1>4 DEF Addresses
  <1>6. "ea" \in DOMAIN m
    BY <1>3 DEF decode_modrm, decode_modrm_16, decode_modrm_32, decode_modrm_64
  <1>7. DefaultSegment(m.ea) = m.ea.sreg \/ (p.sreg = NoSeg /\ DefaultSegment(m.ea) = StackSeg)
    BY DEF DefaultSegment
  <1> HIDE DEF c, stage, after, m, slice
  <1>8. n.ea.sreg = DefaultSegment(m.ea)
    BY <1>5, <1>6
  <1> HIDE DEF n, ea
  <1>9. \A x : /\ AddressIcode(ic, c, x, slice).ea = x.ea
               /\ AddressIcode(ic, c, x, slice).is_nop = ic.is_nop
    BY DEF AddressIcode, Icodes
  <1>10. w = ic \/ w = [ic EXCEPT !.disp = NoSlice]
           \/ w = AddressIcode(ic, c, n, slice) \/ w = AddressIcode(ic, c, m, slice)
    BY <1>1, <1>2
  <1>11. /\ w.ea = ic.ea \/ w.ea = n.ea \/ w.ea = m.ea
         /\ w.is_nop = ic.is_nop
    BY <1>9, <1>10 DEF Icodes
  <1>12. QED
    BY <1>4, <1>7, <1>8, <1>11 DEF SegmentNoted

\* What try_decode notes at once for the words: the size of an address, the
\* segment, and whether the opcode is 90.
Worded(ic, st) ==
  /\ ic.asz = AddressSize /\ SegmentNoted(p, ic)
  /\ ic.is_nop <=> st.opcode0 = NOP
  /\ st.opcode0 = NOP => buf[st.prefix_size + 1] = NOP

\* What it knows of the encoding.
WordedLeaf(ic, st) ==
  LET e == Encodings[ic.encoding]
  IN  /\ ic.osz = OperandSize(e) /\ ~(dsz = 2 /\ "no64" \in e.etags)
      /\ st.opcode0 = NOP => ic.encoding = NopLeaf.encoding

\* The number of FWAIT that the printer is told.
WaitNoted(ic) ==
  ic.fwait = IF p.wait_used THEN 2
             ELSE IF "fwaitable" \in Encodings[ic.encoding].itags THEN 1 ELSE 0

NopNode == Table[Root].kids[NOP]

\* What the first attempt has noted for the words.
WordsSoFar ==
  attempt = 1 =>
    /\ (pc \in {"walk", "args"} \/ Judged) => Worded(dest, state)
    /\ (pc = "walk" /\ state.opcode0 = NOP) => node \in {Root, NopNode}
    /\ (pc = "args" \/ Judged) => WordedLeaf(dest, state)
    /\ Done => WaitNoted(dest)

\* The first icode of an attempt.
LEMMA WordedAtOnce ==
  ASSUME Inv, EnterTry
  PROVE  Worded(dest', state')
  <1>1. dest \in Icodes /\ state \in DecoderStates
    BY DEF Inv, TypeOK
  <1> DEFINE nop == Opcode0 = NOP
  <1>2. /\ dest'.asz = AddressSize /\ dest'.ea.sreg = p.sreg /\ dest'.is_nop = nop
    <2>1. dest.ea \in Addresses
      BY <1>1 DEF Icodes
    <2> DEFINE ea == [dest.ea EXCEPT !.sreg = p.sreg, !.scale = 0, !.disp8 = FALSE]
    <2>2. ea.sreg = p.sreg
      BY <2>1 DEF Addresses
    <2> HIDE DEF ea
    <2>3. dest' = [dest EXCEPT !.asz = AddressSize, !.lockrep = p.lockrep, !.ea = ea,
                               !.rip_relative = FALSE, !.is_nop = nop, !.rex_used = p.rex_used]
      BY DEF EnterTry, ea
    <2> HIDE DEF nop
    <2>4. QED
      BY <1>1, <2>2, <2>3 DEF Icodes
  <1>3. state'.prefix_size = fetcher_copy.next /\ state'.opcode0 = Opcode0
    <2>1. EnterState.prefix_size = fetcher_copy.next
      BY <1>1 DEF EnterState, DecoderStates
    <2>2. EnterState \in DecoderStates /\ state' = [EnterState EXCEPT !.opcode0 = Opcode0, !.modrm0 = 0]
      BY EnterStateType DEF EnterTry
    <2> HIDE DEF EnterState, Opcode0
    <2>3. QED
      BY <2>1, <2>2 DEF DecoderStates
  <1>4. Opcode0 = NOP => buf[fetcher_copy.next + 1] = NOP
    <2>1. TwoByte => buf[fetcher_copy.next + 2] \in Byte
      <3>1. buf \in Seq(Byte) /\ Within(fetcher_copy)
        BY DEF Inv, TypeOK, Positions
      <3>2. TwoByte => Has(fetcher_copy, 2)
        BY DEF EnterTry
      <3>3. QED
        BY <3>1, <3>2, ByteAhead
    <2>2. TwoByte => Opcode0 # NOP
      BY <2>1 DEF Opcode0, NOP, Byte
    <2>3. QED
      BY <2>2 DEF Opcode0, At
  <1>5. QED
    BY <1>2, <1>3, <1>4 DEF Worded, SegmentNoted

\* The walk leaves it as it is.
LEMMA WalkWords ==
  ASSUME Inv, WalkByte \/ WalkMode \/ WalkModRM \/ Leaf, pc' # "judge", Worded(dest, state)
  PROVE  Worded(dest', state')
  <1>1. dest \in Icodes /\ state \in DecoderStates
    BY DEF Inv, TypeOK
  <1>2. state'.prefix_size = state.prefix_size /\ state'.opcode0 = state.opcode0
    BY WalkKeeps
  <1>3. /\ dest'.asz = dest.asz /\ dest'.is_nop = dest.is_nop /\ SegmentNoted(p, dest')
    <2>1. SegmentNoted(p, dest)
      BY DEF Worded
    <2>2. CASE WalkByte \/ WalkMode
      BY <2>1, <2>2 DEF WalkByte, WalkMode
    <2>3. CASE WalkModRM
      <3>1. dest' = dest \/ dest' = get_modrm(fetcher_copy, dest, state).ic
        BY <2>3 DEF WalkModRM
      <3>2. get_modrm(fetcher_copy, dest, state).ic.asz = dest.asz
        BY <1>1, GetModrmKeeps, ZenonT(30)
      <3>3. dest' = get_modrm(fetcher_copy, dest, state).ic =>
              SegmentNoted(p, dest') /\ dest'.is_nop = dest.is_nop
        BY <1>1, <2>1, GetModrmSegment
      <3>4. QED
        BY <2>1, <3>1, <3>2, <3>3
    <2>4. CASE Leaf
      <3>1. LeafIcode \in Icodes /\ LeafRead.ic \in Icodes /\ (LeafKnown \/ LeafReads)
        BY <2>4, LeafCases
      <3>2. /\ LeafIcode.asz = dest.asz /\ LeafIcode.is_nop = dest.is_nop /\ LeafIcode.ea = dest.ea
        BY <1>1 DEF LeafIcode, Icodes
      <3>3. SegmentNoted(p, LeafIcode)
        BY <2>1, <3>2 DEF SegmentNoted
      <3>4. LeafRead.ic.asz = LeafIcode.asz
        BY <1>1, <3>1, GetModrmKeeps DEF LeafRead
      <3>5. SegmentNoted(p, LeafRead.ic) /\ LeafRead.ic.is_nop = LeafIcode.is_nop
        BY <3>1, <3>3, GetModrmSegment DEF LeafRead
      <3>6. ASSUME NEW ic \in Icodes
            PROVE  /\ WithOperands(ic, LeafEncoding).asz = ic.asz
                   /\ WithOperands(ic, LeafEncoding).is_nop = ic.is_nop
                   /\ WithOperands(ic, LeafEncoding).ea = ic.ea
        BY DEF WithOperands, Icodes
      <3>7. \/ dest' = WithOperands(LeafIcode, LeafEncoding)
            \/ dest' = WithOperands(LeafRead.ic, LeafEncoding)
        BY <3>1 DEF LeafKnown, LeafReads
      <3> DEFINE u == LeafRead.ic
      <3> HIDE DEF u
      <3>8. CASE dest' = WithOperands(LeafIcode, LeafEncoding)
        <4>1. dest'.asz = dest.asz /\ dest'.is_nop = dest.is_nop /\ dest'.ea = LeafIcode.ea
          BY <3>1, <3>2, <3>6, <3>8
        <4>2. QED
          BY <3>3, <4>1 DEF SegmentNoted
      <3>9. CASE dest' = WithOperands(LeafRead.ic, LeafEncoding)
        <4>1. u \in Icodes /\ dest' = WithOperands(u, LeafEncoding) /\ SegmentNoted(p, u)
              /\ u.asz = dest.asz /\ u.is_nop = dest.is_nop
          BY <3>1, <3>2, <3>4, <3>5, <3>9 DEF u
        <4>2. dest'.asz = u.asz /\ dest'.is_nop = u.is_nop /\ dest'.ea = u.ea
          BY <3>6, <4>1
        <4>3. QED
          BY <4>1, <4>2 DEF SegmentNoted
      <3>10. QED
        BY <3>7, <3>8, <3>9
    <2>5. QED
      BY <2>2, <2>3, <2>4
  <1>4. QED
    BY <1>2, <1>3 DEF Worded

\* The node of 90 is a leaf.
LEMMA NopIsLeaf == Table[NopNode].type = 0 /\ NopLeaf = Table[NopNode]
  <1>1. NopLeaf = Table[NopNode]
    BY DEF NopLeaf, NopNode
  <1>2. NopLeaf.type = 0
    BY NopAssumption, Zenon
  <1>3. QED
    BY <1>1, <1>2, Zenon

\* The byte 90 as an opcode leads to its leaf.
LEMMA NopWay ==
  ASSUME Inv, WalkByte, pc' = "walk", Worded(dest, state), state.opcode0 = NOP,
         node \in {Root, NopNode},
         Reading(buf, dsz, p, dest, state, node, fetcher_copy.next)
  PROVE  node' = NopNode
  <1>1. Table[node].type = 1 /\ node' = Table[node].kids[At(fetcher_copy)]
    BY DEF WalkByte, Fail
  <1>2. node = Root
    BY <1>1, NopIsLeaf
  <1>3. OnTheWay(buf, node, state.prefix_size, fetcher_copy.next)
    BY <1>1 DEF Reading
  <1>4. fetcher_copy.next = state.prefix_size
    BY <1>1, <1>2, <1>3, OpcodeAssumption DEF OnTheWay
  <1>5. At(fetcher_copy) = NOP
    BY <1>4 DEF Worded, At
  <1>6. QED
    BY <1>1, <1>2, <1>5 DEF NopNode

\* What a leaf tells of the encoding.
LEMMA LeafWords ==
  ASSUME Inv, Leaf, pc' = "args", state.opcode0 = NOP => node \in {Root, NopNode}
  PROVE  WordedLeaf(dest', state')
  <1>1. Table[node].type = 0 /\ Table[node].encoding # Invalid
        /\ ~(dsz = 2 /\ "no64" \in LeafEncoding.etags)
    BY DEF Leaf, LeafEncoding, Fail
  <1>2. dest'.encoding = Table[node].encoding /\ dest'.osz = OperandSize(LeafEncoding)
    <2>1. /\ LeafIcode \in Icodes /\ LeafRead.ic \in Icodes /\ (LeafKnown \/ LeafReads)
      BY LeafCases
    <2>2. LeafIcode.encoding = Table[node].encoding
      <3>1. dest \in Icodes
        BY DEF Inv, TypeOK
      <3>2. QED
        BY <3>1 DEF LeafIcode, Icodes
    <2>3. LeafRead.ic.encoding = LeafIcode.encoding
      <3>1. state \in DecoderStates
        BY DEF Inv, TypeOK
      <3>2. QED
        BY <2>1, <3>1, GetModrmKeeps DEF LeafRead
    <2>4. \A e : \A ic \in Icodes : /\ WithOperands(ic, e).encoding = ic.encoding
                                    /\ WithOperands(ic, e).osz = OperandSize(e)
      BY DEF WithOperands, Icodes
    <2>5. dest' \in {WithOperands(LeafIcode, LeafEncoding), WithOperands(LeafRead.ic, LeafEncoding)}
      BY <2>1 DEF LeafKnown, LeafReads
    <2>6. QED
      BY <2>1, <2>2, <2>3, <2>4, <2>5
  <1>3. Encodings[dest'.encoding] = LeafEncoding
    BY <1>2 DEF LeafEncoding
  <1>4. state'.opcode0 = state.opcode0
    BY WalkKeeps
  <1>5. state.opcode0 = NOP => dest'.encoding = NopLeaf.encoding
    <2> SUFFICES ASSUME state.opcode0 = NOP PROVE dest'.encoding = NopLeaf.encoding
      OBVIOUS
    <2>1. node = NopNode
      BY <1>1, TableAssumption
    <2>2. QED
      BY <1>2, <2>1 DEF NopNode, NopLeaf
  <1>6. QED
    BY <1>1, <1>2, <1>3, <1>4, <1>5 DEF WordedLeaf

\* The operands leave what is noted of the words.
LEMMA WordsKept ==
  ASSUME NEW ic, NEW st, NEW ic2, NEW st2, KeptByArguments(ic2, st2) = KeptByArguments(ic, st)
  PROVE  /\ Worded(ic, st) => Worded(ic2, st2)
         /\ WordedLeaf(ic, st) => WordedLeaf(ic2, st2)
         /\ ic2.encoding = ic.encoding
  <1>1. /\ ic2.asz = ic.asz /\ ic2.ea = ic.ea /\ ic2.is_nop = ic.is_nop /\ ic2.osz = ic.osz
        /\ ic2.encoding = ic.encoding
        /\ st2.opcode0 = st.opcode0 /\ st2.prefix_size = st.prefix_size
    BY DEF KeptByArguments
  <1>2. QED
    BY <1>1 DEF Worded, WordedLeaf, SegmentNoted

\* do_decode notes what became of the FWAIT.
LEMMA WaitNotedAtEnd ==
  ASSUME Inv, Return, Done', attempt = 1
  PROVE  WaitNoted(dest')
  <1>1. dest \in Icodes /\ p.wait_used \in BOOLEAN
    BY DEF Inv, TypeOK, Prefixes
  <1>2. ~Rejected /\ status = "" /\ ~TooLong
    <2>1. "instruction exceeds 15 bytes" # ""
      OBVIOUS
    <2>2. QED
      BY <2>1 DEF Return, Done
  <1>3. p.wait_used => Fwaitable
    BY <1>2 DEF Rejected
  <1>4. dest' = [dest EXCEPT !.fwait = CASE p.wait_used -> 2
                                         [] ~p.wait_used /\ Fwaitable -> 1
                                         [] OTHER -> 0]
    BY <1>2 DEF Return
  <1>5. dest'.encoding = dest.encoding
        /\ dest'.fwait = CASE p.wait_used -> 2
                           [] ~p.wait_used /\ Fwaitable -> 1
                           [] OTHER -> 0
    BY <1>1, <1>4 DEF Icodes
  <1>6. QED
    BY <1>1, <1>5 DEF WaitNoted, Fwaitable, Encoding

\* The first attempt notes what the words are taken from, as WordsSoFar says.
LEMMA WordsStep ==
  Inv /\ Attempts /\ ReadSoFar /\ WordsSoFar /\ [Next]_vars => WordsSoFar'
  <1> SUFFICES ASSUME Inv, Collecting, ReadSoFar, WordsSoFar, [Next]_vars, attempt' = 1
               PROVE  WordsSoFar'
    BY DEF WordsSoFar, Attempts
  <1>1. CASE TakePrefixes
    <2>1. pc' \notin {"walk", "args"} /\ ~Judged' /\ ~Done'
      BY <1>1, CollectingFrame DEF Judged, Done
    <2>2. QED
      BY <2>1 DEF WordsSoFar
  <1>2. CASE FallBack
    BY <1>2 DEF FallBack
  <1>3. CASE Walk \/ get_arguments \/ Return
    <2>1. attempt = 1 /\ dsz' = dsz /\ p' = p /\ buf' = buf
      BY <1>3, DecodeFrame DEF caller
    <2> SUFFICES
          /\ (pc' \in {"walk", "args"} \/ Judged') => Worded(dest', state')
          /\ (pc' = "walk" /\ state'.opcode0 = NOP) => node' \in {Root, NopNode}
          /\ (pc' = "args" \/ Judged') => WordedLeaf(dest', state')
          /\ Done' => WaitNoted(dest')
      <3>1. QED
        BY <2>1 DEF WordsSoFar, Worded, WordedLeaf, WaitNoted, SegmentNoted, AddressSize, OperandSize
    <2>2. CASE EnterTry
      <3>1. Worded(dest', state')
        BY <2>2, WordedAtOnce
      <3>2. node' = Root /\ pc' = "walk"
        BY <2>2 DEF EnterTry
      <3>3. ~Judged' /\ ~Done'
        BY <3>2 DEF Judged, Done
      <3>4. QED
        BY <3>1, <3>2, <3>3
    <2>3. CASE EnterTryTooShort \/ InvalidOpcode
      <3>1. pc' = "judge" /\ ~Judged' /\ ~Done'
        BY <2>3 DEF EnterTryTooShort, InvalidOpcode, Fail, Judged, Done
      <3>2. QED
        BY <3>1
    <2>4. CASE WalkByte \/ WalkMode \/ WalkModRM
      <3>1. ~Judged' /\ ~Done' /\ pc = "walk" /\ pc' \in {"walk", "judge"}
        BY <2>4 DEF WalkByte, WalkMode, WalkModRM, Fail, Judged, Done
      <3> SUFFICES ASSUME pc' = "walk"
                   PROVE  /\ Worded(dest', state')
                          /\ state'.opcode0 = NOP => node' \in {Root, NopNode}
        BY <3>1
      <3>2. Worded(dest, state) /\ (state.opcode0 = NOP => node \in {Root, NopNode})
        BY <2>1, <3>1 DEF WordsSoFar
      <3>3. Worded(dest', state')
        BY <2>4, <3>2, WalkWords
      <3>4. state'.opcode0 = state.opcode0
        BY <2>4, WalkKeeps
      <3>5. ASSUME state.opcode0 = NOP PROVE node' = NopNode
        <4>1. Reading(buf, dsz, p, dest, state, node, fetcher_copy.next)
          BY <2>1, <3>1 DEF ReadSoFar
        <4>2. Table[node].type \in {0, 1}
          <5>1. Table[Root].type = 1 /\ Table[NopNode].type = 0
            BY TableAssumption, NopIsLeaf
          <5>2. node = Root \/ node = NopNode
            BY <3>2, <3>5
          <5>3. QED
            BY <5>1, <5>2
        <4>3. ~WalkMode /\ ~WalkModRM
          <5>1. /\ WalkMode => Table[node].type = 6 \/ Table[node].type = 2
                /\ WalkModRM => Table[node].type \in {3, 4, 5}
            BY DEF WalkMode, WalkModRM
          <5>2. QED
            BY <4>2, <5>1
        <4>4. QED
          BY <2>4, <3>2, <3>5, <4>1, <4>3, NopWay
      <3>6. QED
        BY <3>3, <3>4, <3>5
    <2>5. CASE Leaf
      <3>1. ~Judged' /\ ~Done' /\ pc' # "walk" /\ pc = "walk"
        BY <2>5, LeafCases DEF Judged, Done
      <3> SUFFICES ASSUME pc' = "args"
                   PROVE  Worded(dest', state') /\ WordedLeaf(dest', state')
        BY <3>1
      <3>2. Worded(dest, state) /\ (state.opcode0 = NOP => node \in {Root, NopNode})
        BY <2>1, <3>1 DEF WordsSoFar
      <3>3. Worded(dest', state')
        BY <2>5, <3>2, WalkWords
      <3>4. WordedLeaf(dest', state')
        BY <2>5, <3>2, LeafWords
      <3>5. QED
        BY <3>3, <3>4
    <2>6. CASE get_arguments
      <3>1. pc = "args" /\ pc' \in {"args", "judge"}
        BY <2>6 DEF get_arguments, UnsupportedArgument, FullDispArg, ImplicitImmArg, ImmArg, RegArg,
           MemArg, EndArgs, Fail, NextArg, AtArg
      <3>2. Worded(dest, state) /\ WordedLeaf(dest, state)
        BY <2>1, <3>1 DEF WordsSoFar
      <3>3. Worded(dest', state') /\ WordedLeaf(dest', state')
        BY <2>6, <3>2, ArgumentsKeep, WordsKept
      <3>4. QED
        BY <3>1, <3>3 DEF Done
    <2>7. CASE Return
      <3>1. pc' = "done"
        BY <2>7 DEF Return
      <3> SUFFICES ASSUME Judged'
                   PROVE  /\ Worded(dest', state') /\ WordedLeaf(dest', state')
                          /\ WaitNoted(dest')
        BY <3>1 DEF Judged, Done
      <3>2. /\ Judged /\ KeptByArguments(dest', state') = KeptByArguments(dest, state)
        BY <2>7, ReturnKeeps
      <3>3. Worded(dest, state) /\ WordedLeaf(dest, state)
        BY <2>1, <3>2 DEF WordsSoFar
      <3>4. Done'
        BY <3>1 DEF Done, Judged
      <3>5. QED
        BY <2>1, <2>7, <3>2, <3>3, <3>4, WordsKept, WaitNotedAtEnd
    <2>8. QED
      BY <1>3, <2>2, <2>3, <2>4, <2>5, <2>6, <2>7 DEF Walk
  <1>4. CASE UNCHANGED vars
    <2>1. /\ buf' = buf /\ pc' = pc /\ p' = p /\ node' = node /\ dsz' = dsz
          /\ attempt' = attempt /\ dest' = dest
          /\ state' = state /\ Judged' = Judged /\ Done' = Done
      BY <1>4 DEF vars, inputs, Judged, Done
    <2>2. QED
      BY <2>1 DEF WordsSoFar, Worded, WordedLeaf, WaitNoted, SegmentNoted, AddressSize, OperandSize
  <1>5. QED
    BY <1>1, <1>2, <1>3, <1>4 DEF Next, Step, Finish, Returned

\* What the first attempt has noted for the words holds at every moment.
THEOREM WordsAlways ==
  Spec => [](/\ Inv /\ Attempts /\ ReadSoFar /\ Unaddressed
             /\ SourcedSoFar /\ NamedSoFar /\ WordsSoFar)
  <1>1. Spec => [](Inv /\ Attempts /\ ReadSoFar /\ Unaddressed /\ SourcedSoFar /\ NamedSoFar)
    BY NamedAlways
  <1>2. Init => WordsSoFar
    <2> SUFFICES ASSUME Init PROVE WordsSoFar
      OBVIOUS
    <2>1. pc \in {"prefix", "done"} /\ ~Judged /\ ~Done
      BY DEF Init, Judged, Done
    <2>2. QED
      BY <2>1 DEF WordsSoFar
  <1>3. Inv /\ Attempts /\ ReadSoFar /\ WordsSoFar /\ [Next]_vars => WordsSoFar'
    BY WordsStep
  <1>4. QED
    BY <1>1, <1>2, <1>3, PTL DEF Spec

\* Bit 3 of a REX prefix, which is 0 if there is none.
LEMMA RexWide ==
  ASSUME Inv, Attempts, Succeeded, attempt = 1, RexKnown
  PROVE  RexBit(8) # 0 <=> p.rex_w = 1
  <1>1. p.rex_w \in 0..1 /\ p.rex_r \in 0..1 /\ p.rex_x \in 0..1 /\ p.rex_b \in 0..1
    BY DEF Inv, TypeOK, Prefixes
  <1>2. p.rex_used = RexByte
    BY DEF RexKnown
  <1>3. CASE RexByte
    <2> DEFINE c == ByteOf(state.prefix_size - 1)
    <2>1. c = 64 + 8 * p.rex_w + 4 * p.rex_r + 2 * p.rex_x + p.rex_b
      <3>1. PrefixMeaning
        BY AttemptsReturn
      <3>2. QED
        BY <1>2, <1>3, <3>1 DEF PrefixMeaning
    <2>2. RexBit(8) = 8 * ((c \div 8) % 2)
      BY <1>3 DEF RexBit
    <2> HIDE DEF c
    <2>3. c \div 8 = 8 + p.rex_w
      BY <1>1, <2>1
    <2>4. (c \div 8) % 2 = p.rex_w
      BY <1>1, <2>3
    <2>5. QED
      BY <1>1, <2>2, <2>4
  <1>4. CASE ~RexByte
    <2>1. RexBit(8) = 0
      BY <1>4 DEF RexBit
    <2>2. AtOpcode \/ BehindRex \/ AtEnd
      BY DEF Attempts, Collecting, Decoding, Succeeded, Returning
    <2>3. p.rex_used = FALSE
      BY <1>2, <1>4
    <2>4. p.rex_w = 0
      BY <2>2, <2>3 DEF AtOpcode, BehindRex, RexBits, AtEnd, NoRexBits
    <2>5. QED
      BY <2>1, <2>4
  <1>5. QED
    BY <1>3, <1>4

\* The operand size and the address size are those that the mode, the
\* instruction and its prefixes mean.
LEMMA SizesMeant ==
  ASSUME Inv, Attempts, Succeeded, attempt = 1, RexKnown, DecodedFirst,
         Worded(dest, state), WordedLeaf(dest, state)
  PROVE  /\ dest.osz = OperandSizeMeant /\ dest.asz = AddressSizeMeant
         /\ OperandSizeMeant \in 0..2
         /\ Prefixed({OP66}) = p.op66
  <1>1. p.op66 = Prefixed({OP66}) /\ p.op67 = Prefixed({OP67})
    <2>1. PrefixMeaning
      BY AttemptsReturn
    <2>2. QED
      BY <2>1 DEF PrefixMeaning, Prefixed, FirstPrefix, LastPrefix
  <1>2. RexBit(8) # 0 <=> p.rex_w = 1
    BY RexWide
  <1>3. p.rex_w \in 0..1 /\ p.op66 \in BOOLEAN /\ p.op67 \in BOOLEAN
    BY DEF Inv, TypeOK, Prefixes
  <1>4. dsz \in 0..2 /\ dest \in Icodes
    BY DEF DecodedFirst
  <1>5. "is64" \in Encoding.etags => "no_rex_w" \notin Encoding.etags
    BY SizedAssumption DEF DecodedFirst, Encoding
  <1>6. dest.osz = OperandSize(Encoding) /\ dest.asz = AddressSize
    BY DEF Worded, WordedLeaf, Encoding
  <1>7. OperandSize(Encoding) = OperandSizeMeant
    <2> DEFINE is64 == "is64" \in Encoding.etags
               norex == "no_rex_w" \in Encoding.etags
               own66 == Prefixed({OP66})
               w == RexBit(8) # 0
    <2> HIDE DEF is64, norex, own66, w
    <2>1. CASE dsz < 2
      <3>1. OperandSize(Encoding) = IF p.op66 THEN 1 - dsz ELSE dsz
        BY <1>4, <2>1 DEF OperandSize
      <3>2. OperandSizeMeant = IF own66 THEN 1 - dsz ELSE dsz
        BY <2>1 DEF OperandSizeMeant, own66
      <3>3. QED
        BY <1>1, <3>1, <3>2 DEF own66
    <2>2. CASE dsz = 2
      <3>1. OperandSize(Encoding) =
              IF ~norex /\ (p.rex_w = 1 \/ is64)
              THEN IF p.op66 /\ is64 /\ p.rex_w = 0 THEN 0 ELSE 2
              ELSE IF p.op66 THEN 0 ELSE 1
        BY <2>2 DEF OperandSize, norex, is64
      <3>2. OperandSizeMeant =
              IF w /\ ~norex THEN 2 ELSE IF own66 THEN 0 ELSE IF is64 THEN 2 ELSE 1
        BY <2>2 DEF OperandSizeMeant, OwnSize, own66, w, norex, is64
      <3>3. p.op66 = own66 /\ (w <=> p.rex_w = 1) /\ (is64 => ~norex)
        BY <1>1, <1>2, <1>5 DEF own66, w, is64, norex
      <3>4. QED
        BY <1>3, <3>1, <3>2, <3>3
    <2>3. QED
      BY <1>4, <2>1, <2>2
  <1>8. AddressSize = AddressSizeMeant
    BY <1>1, <1>4 DEF AddressSize, AddressSizeMeant
  <1>9. QED
    BY <1>1, <1>4, <1>6, <1>7, <1>8 DEF Icodes

-----------------------------------------------------------------------------
(* The words of a decoded instruction *)

\* The first attempt has decoded an instruction.
FirstReturned ==
  /\ Inv /\ Attempts /\ ReadSoFar /\ SourcedSoFar /\ NamedSoFar /\ WordsSoFar
  /\ Succeeded /\ attempt = 1

\* What is known of it then.
LEMMA FirstKnown ==
  ASSUME FirstReturned
  PROVE  /\ DecodedFirst /\ Missing(dest)
         /\ Worded(dest, state) /\ WordedLeaf(dest, state) /\ WaitNoted(dest)
         /\ dest.osz = OperandSizeMeant /\ dest.asz = AddressSizeMeant
         /\ dest.osz \in 0..2 /\ dsz \in 0..2 /\ (dsz # 2 => dest.osz # 2)
         /\ dest.encoding \in DOMAIN Encodings
         /\ Locked(dest, state)
         /\ \A i \in Operands({"reg_gr"}) : RegisterName(i) = RegisterMeant(i)
  <1> USE DEF FirstReturned
  <1>1. Judged /\ Done
    BY DEF Succeeded, Returning, Judged, Done
  <1>2. DecodedFirst /\ RexKnown
    BY FirstDecoded, RexRead
  <1>3. /\ OpcodeNoted(buf, p, dest, state) /\ InOpcode(buf, Encoding, state)
        /\ Missing(dest)
    BY <1>1 DEF NamedSoFar, Encoding
  <1>4. \A i \in Operands({"reg_gr"}) : RegisterName(i) = RegisterMeant(i)
    BY <1>2, <1>3, RegisterNamed DEF Operands
  <1>5. Worded(dest, state) /\ WordedLeaf(dest, state) /\ WaitNoted(dest)
    BY <1>1 DEF WordsSoFar
  <1>6. dest.osz = OperandSizeMeant /\ dest.asz = AddressSizeMeant
    BY <1>2, <1>5, SizesMeant
  <1>7. dest.osz \in 0..2 /\ dsz \in 0..2 /\ dest.encoding \in DOMAIN Encodings
    BY <1>2 DEF DecodedFirst, Icodes
  <1>8. dsz # 2 => dest.osz # 2
    BY <1>2 DEF DecodedFirst, AllSourced
  <1>9. Locked(dest, state)
    BY <1>1 DEF ReadSoFar
  <1>10. QED
    BY <1>2, <1>3, <1>4, <1>5, <1>6, <1>7, <1>8, <1>9

\* An operand of the icode is the one of the encoding, or the memory that
\* ModRM has made of it.
LEMMA OperandIs ==
  ASSUME FirstReturned, NEW i \in 1..4, dest.args[i].type # "void"
  PROVE  /\ OperandRead(dsz, p, dest, state, state.insn_size, Encoding, i)
         /\ \/ dest.args[i].type = Encoding.args[i].type
            \/ Encoding.args[i].value = RegOrMem /\ dest.args[i].type = "mem_ea"
         /\ dest.args[i].size = SizeIn(dsz, dest, Encoding.args[i].size) /\ dest.args[i].size > 0
         /\ Encoding.args[i] \in Args
  <1>1. OperandRead(dsz, p, dest, state, state.insn_size, Encoding, i)
    BY FirstKnown DEF DecodedFirst, AllSourced, Encoding
  <1>2. Encoding.args \in [1..4 -> Args]
    BY FirstKnown DEF DecodedFirst, Encoding
  <1>3. QED
    BY <1>1, <1>2 DEF OperandRead

\* An operand of the encoding is one of the icode.
LEMMA OperandThere ==
  ASSUME FirstReturned, NEW i \in 1..4, Encoding.args[i].type # "void"
  PROVE  dest.args[i].type # "void"
BY FirstKnown DEF Missing, Encoding

\* A repeat prefix of a string instruction can be told from the text, and LOCK.
LEMMA RepeatTold ==
  ASSUME FirstReturned, NEW rep, rep = LockRep(FirstPrefix, LastPrefix)
  PROVE  /\ Handler \in {"cmps", "scas"} =>
              (CASE RepWord = "repnz" -> 2 [] RepWord = "repz" -> 3 [] OTHER -> 0) = rep
         /\ (Handler \in StringInsns /\ Handler \notin {"cmps", "scas"}) =>
              (RepWord = "rep") = (rep \in {2, 3})
         /\ dest.lockrep = rep
  <1>1. dest.lockrep = rep /\ rep \in 0..3
    <2>1. PrefixMeaning
      BY AttemptsReturn DEF FirstReturned
    <2>2. dest.lockrep = rep
      BY <2>1 DEF PrefixMeaning, FirstReturned, FirstPrefix, LastPrefix
    <2>3. dest \in Icodes
      BY FirstKnown DEF DecodedFirst
    <2>4. QED
      BY <2>2, <2>3 DEF Icodes
  <1>2. ASSUME Handler \in {"cmps", "scas"}
        PROVE  (CASE RepWord = "repnz" -> 2 [] RepWord = "repz" -> 3 [] OTHER -> 0) = rep
    <2>1. ~Lockable(Encoding)
      BY <1>2, FirstKnown, ShownAssumption DEF Handler, Encoding
    <2>2. rep # 1
      BY <1>1, <2>1, FirstKnown DEF Locked, Encoding
    <2>3. CASE rep = 2
      <3>1. RepWord = "repnz"
        BY <1>1, <1>2, <2>3 DEF RepWord
      <3>2. QED
        BY <2>3, <3>1
    <2>4. CASE rep = 3
      <3>1. RepWord = "repz"
        BY <1>1, <1>2, <2>4 DEF RepWord
      <3>2. QED
        BY <2>4, <3>1
    <2>5. CASE rep = 0
      <3>1. RepWord = ""
        BY <1>1, <1>2, <2>5 DEF RepWord
      <3>2. QED
        BY <2>5, <3>1
    <2>6. QED
      BY <1>1, <2>2, <2>3, <2>4, <2>5
  <1>3. ASSUME Handler \in StringInsns, Handler \notin {"cmps", "scas"}
        PROVE  (RepWord = "rep") = (rep \in {2, 3})
    <2>1. Handler \in {"ins", "lods", "movs", "outs", "stos"}
      BY <1>3 DEF StringInsns
    <2>2. CASE rep \in {2, 3}
      BY <1>1, <1>3, <2>1, <2>2 DEF RepWord
    <2>3. CASE rep \notin {2, 3}
      BY <1>1, <1>3, <2>1, <2>3 DEF RepWord
    <2>4. QED
      BY <2>2, <2>3
  <1>4. QED
    BY <1>1, <1>2, <1>3

\* What was collected of the prefixes is what their bytes say.
LEMMA PrefixesSay ==
  ASSUME Inv, Attempts, Succeeded, attempt = 1
  PROVE  \E m \in Nat : /\ Says(p, buf, FirstPrefix, m)
                        /\ \A S : Named(FirstPrefix, LastPrefix, S) = Of(buf, FirstPrefix, m, S)
  <1> DEFINE first == FwaitAt + 1
             n == fetcher.next
  <1>1. /\ AtOpcode \/ BehindRex \/ AtEnd
        /\ ~got_fwait => FwaitAt = -1
        /\ got_fwait => FwaitAt \in 0..(n - 1)
    BY DEF Attempts, Collecting, Decoding, Succeeded, Returning
  <1>2. state.prefix_size = n /\ Has(fetcher, 1)
    BY DEF Attempts, Began, Succeeded, Returning
  <1>3. /\ num_bytes \in Nat /\ n \in 0..num_bytes /\ n < num_bytes
        /\ At(fetcher) = ByteOf(n)
    BY <1>2, FetcherBytes
  <1>4. Start = first /\ first \in Nat
    BY <1>1, <1>3 DEF Start
  <1>5. LastPrefix = n - 1 /\ FirstPrefix = first
    BY <1>2 DEF LastPrefix, FirstPrefix
  <1> HIDE DEF first, n
  <1>6. CASE AtOpcode
    <2>1. /\ ~IsPrefix(ByteOf(n)) /\ first \in 0..n /\ AllPrefixes(buf, first, n)
          /\ Says(p, buf, first, n)
      BY <1>3, <1>4, <1>6 DEF AtOpcode, Collected, n
    <2>2. \A S : Named(first, n - 1, S) = Of(buf, first, n, S)
      BY <1>3, <1>4, <2>1, NamedBytes
    <2>3. n \in Nat
      BY <1>3
    <2>4. QED
      BY <1>5, <2>1, <2>2, <2>3
  <1>7. CASE BehindRex
    <2>1. /\ n > 0 /\ IsRex(ByteOf(n - 1)) /\ first \in 0..(n - 1)
          /\ AllPrefixes(buf, first, n - 1) /\ Says(p, buf, first, n - 1)
      BY <1>4, <1>7 DEF BehindRex, Collected, n
    <2>2. n - 1 \in 0..num_bytes /\ n - 1 < num_bytes /\ ~IsPrefix(ByteOf(n - 1))
      BY <1>3, <2>1, ByteClasses
    <2>3. \A S : Named(first, n - 1, S) = Of(buf, first, n - 1, S)
      BY <1>3, <1>4, <2>1, <2>2, NamedBytes
    <2>4. n - 1 \in Nat
      BY <2>2
    <2>5. QED
      BY <1>5, <2>1, <2>3, <2>4
  <1>8. CASE AtEnd
    BY <1>2, <1>8 DEF AtEnd
  <1>9. QED
    BY <1>1, <1>6, <1>7, <1>8

\* LOCK is the word of that prefix, and a segment has one of six numbers.
LEMMA LockAndSegment ==
  ASSUME FirstReturned
  PROVE  /\ LockWord = Prefixed({LOCK})
         /\ p.sreg = LastSeg(FirstPrefix, LastPrefix) /\ p.sreg \in 0..5 \cup {NoSeg}
  <1> DEFINE first == FirstPrefix
  <1>1. PICK m \in Nat : /\ Says(p, buf, FirstPrefix, m)
                         /\ \A S : Named(FirstPrefix, LastPrefix, S) = Of(buf, FirstPrefix, m, S)
    BY PrefixesSay DEF FirstReturned
  <1>2. p.sreg = LastSeg(FirstPrefix, LastPrefix) /\ dest.lockrep = LockRep(FirstPrefix, LastPrefix)
    <2>1. PrefixMeaning
      BY AttemptsReturn DEF FirstReturned
    <2>2. QED
      BY <2>1 DEF PrefixMeaning, FirstPrefix, LastPrefix, FirstReturned
  <1>3. dest.lockrep = p.lockrep
    BY DEF FirstReturned, Attempts, Began, Succeeded, Returning
  <1>4. p.sreg \in 0..5 \cup {NoSeg}
    <2>1. SaysSegment(p, buf, first, m)
      BY <1>1 DEF Says
    <2>2. \A c \in Segs : SegOf(c) \in 0..5
      <3>1. /\ SegOf(38) = 0 /\ SegOf(46) = 1 /\ SegOf(54) = 2 /\ SegOf(62) = 3
            /\ SegOf(100) = 4 /\ SegOf(101) = 5
        BY DEF SegOf, RegField
      <3>2. QED
        BY <3>1 DEF Segs
    <2>3. QED
      BY <2>1, <2>2 DEF SaysSegment, Of
  <1>5. LockWord = Prefixed({LOCK})
    <2>1. SaysRepeat(p, buf, first, m)
      BY <1>1 DEF Says
    <2>2. \A i \in Of(buf, first, m, Reps) : buf[i + 1] - 240 # 1
      BY DEF Of, Reps
    <2>3. p.lockrep = 1 <=> Of(buf, first, m, {LOCK}) # {}
      <3> DEFINE locks == Of(buf, first, m, {LOCK})
                 reps == Of(buf, first, m, Reps)
      <3>1. \/ locks # {} /\ p.lockrep = 1
            \/ locks = {} /\ p.lockrep = 0
            \/ locks = {} /\ \E i \in reps : p.lockrep = buf[i + 1] - 240
        BY <2>1 DEF SaysRepeat
      <3>2. \A i \in reps : buf[i + 1] - 240 # 1
        BY <2>2
      <3> HIDE DEF locks, reps
      <3>3. p.lockrep = 1 <=> locks # {}
        <4> DEFINE v == p.lockrep
        <4>1. CASE locks # {}
          BY <3>1, <4>1
        <4>2. CASE locks = {}
          <5>1. v = 0 \/ \E i \in reps : v = buf[i + 1] - 240
            BY <3>1, <4>2
          <5> HIDE DEF v
          <5>2. CASE v = 0
            BY <4>2, <5>2 DEF v
          <5>3. ASSUME NEW i \in reps, v = buf[i + 1] - 240
                PROVE  v # 1
            BY <3>2, <5>3, Zenon
          <5>4. QED
            BY <4>2, <5>1, <5>2, <5>3 DEF v
        <4>3. QED
          BY <4>1, <4>2
      <3>4. QED
        BY <3>3 DEF locks
    <2>4. Prefixed({LOCK}) <=> Of(buf, first, m, {LOCK}) # {}
      BY <1>1 DEF Prefixed
    <2>5. LockWord <=> Prefixed({LOCK})
      BY <1>3, <2>3, <2>4 DEF LockWord
    <2>6. QED
      BY <2>5 DEF LockWord, Prefixed
  <1>6. QED
    BY <1>2, <1>4, <1>5

\* An FWAIT can be told from the mnemonic of an instruction that takes one.
LEMMA FwaitTold ==
  ASSUME FirstReturned
  PROVE  FwaitWord = CASE "fwaitable" \notin Encoding.itags -> ""
                       [] "fwaitable" \in Encoding.itags /\ FwaitAt >= 0 -> "f"
                       [] OTHER -> "fn"
  <1> DEFINE takes == "fwaitable" \in Encoding.itags
  <1>1. /\ p.wait_used = got_fwait
        /\ ~got_fwait => FwaitAt = -1
        /\ got_fwait => FwaitAt \in 0..(fetcher.next - 1)
        /\ dest.fwait = 2 => takes
    BY DEF FirstReturned, Attempts, Collecting, Decoding, Noted, Succeeded, Returning, Encoding
  <1>2. dest.fwait = IF p.wait_used THEN 2 ELSE IF takes THEN 1 ELSE 0
    BY FirstKnown DEF WaitNoted, Encoding
  <1>3. got_fwait <=> FwaitAt >= 0
    BY <1>1
  <1>4. p.wait_used \in BOOLEAN
    BY DEF FirstReturned, Inv, TypeOK, Prefixes
  <1> HIDE DEF takes
  <1>5. CASE got_fwait
    <2>1. dest.fwait = 2 /\ takes
      BY <1>1, <1>2, <1>5
    <2>2. FwaitWord = "f"
      BY <2>1 DEF FwaitWord
    <2>3. QED
      BY <1>3, <1>5, <2>1, <2>2 DEF takes
  <1>6. CASE ~got_fwait /\ takes
    <2>1. dest.fwait = 1
      BY <1>1, <1>2, <1>6
    <2>2. FwaitWord = "fn"
      BY <2>1 DEF FwaitWord
    <2>3. QED
      BY <1>3, <1>6, <2>2 DEF takes
  <1>7. CASE ~got_fwait /\ ~takes
    <2>1. dest.fwait = 0
      BY <1>1, <1>2, <1>7
    <2>2. FwaitWord = ""
      BY <2>1 DEF FwaitWord
    <2>3. QED
      BY <1>7, <2>2 DEF takes
  <1>8. QED
    BY <1>5, <1>6, <1>7

\* Only 90 is printed as nop.
LEMMA NopIs ==
  ASSUME FirstReturned, IsNop
  PROVE  /\ Encoding.args[1].type = "reg_gr" /\ Encoding.args[1].value = 0
         /\ Encoding.args[2].type = "reg_gr" /\ Encoding.args[2].size # 1
         /\ \A i \in 1..4 : ~MayBeAddress(Encoding.args[i]) /\ Encoding.args[i].type # "mem_address"
  <1>1. dest.encoding = NopLeaf.encoding
    BY FirstKnown DEF IsNop, Worded, WordedLeaf
  <1>2. QED
    BY <1>1, NopAssumption DEF Encoding

\* What is shown as an address may be one by its encoding.
LEMMA AddressIs ==
  ASSUME FirstReturned, NEW i \in Addressed
  PROVE  /\ i \in 1..4 /\ dest.args[i].type # "void"
         /\ MayBeAddress(Encoding.args[i]) \/ Encoding.args[i].type = "mem_address"
  <1>1. i \in 1..4 /\ dest.args[i].type \in {"mem_ea", "mem_ea_seg", "mem_address", "mem_fulldisp"}
    BY DEF Addressed, Operands
  <1>2. dest.args[i].type = Encoding.args[i].type \/ Encoding.args[i].value = RegOrMem
    BY <1>1, OperandIs
  <1>3. QED
    BY <1>1, <1>2 DEF MayBeAddress

\* The operands come before those that are missing.
LEMMA OperandCounts ==
  ASSUME FirstReturned, NEW i \in 1..4, dest.args[i].type # "void"
  PROVE  i \in AllOperands
  <1>1. Encoding.args[i].type # "void"
    <2>1. dest.args[i].type = Encoding.args[i].type \/ Encoding.args[i].value = RegOrMem
      BY OperandIs
    <2>2. Encoding.args[i].value = RegOrMem => Encoding.args[i].type \in RegTypes
      <3> DEFINE e == Encoding
      <3>1. e \in {Encodings[x] : x \in DOMAIN Encodings}
        BY FirstKnown DEF Encoding
      <3> HIDE DEF e
      <3>2. e.args[i].value = RegOrMem => e.args[i].type \in RegTypes
        BY <3>1, OperandsAssumption, Zenon
      <3>3. QED
        BY <3>2 DEF e
    <2>3. QED
      BY <2>1, <2>2 DEF RegTypes
  <1>2. \A j \in 1..4 : j < i => Encoding.args[j].type # "void"
    <2> SUFFICES ASSUME NEW j \in 1..4, j < i PROVE Encoding.args[j].type # "void"
      OBVIOUS
    <2> DEFINE e == Encoding
    <2>1. e \in {Encodings[x] : x \in DOMAIN Encodings}
      BY FirstKnown DEF Encoding
    <2> HIDE DEF e
    <2>2. e.args[j].type = "void" => e.args[i].type = "void"
      BY <2>1, NumbersAssumption, Zenon
    <2>3. QED
      BY <1>1, <2>2 DEF e
  <1>3. \A j \in 1..4 : j < i => dest.args[j].type # "void"
    BY <1>2, OperandThere
  <1>4. QED
    BY <1>3 DEF AllOperands

\* An address is printed.
LEMMA AddressPrinted ==
  ASSUME FirstReturned, NEW i \in Addressed
  PROVE  i \in PrintedOperands
  <1>1. /\ i \in 1..4 /\ dest.args[i].type # "void"
        /\ MayBeAddress(Encoding.args[i]) \/ Encoding.args[i].type = "mem_address"
    BY AddressIs
  <1>2. ~IsNop
    BY <1>1, NopIs
  <1>3. Handler \notin NoOperands \cup {"aad", "aam"} /\ (Handler \in OneOperand => i = 1)
    BY <1>1, FirstKnown, ShownAssumption DEF Handler, Encoding
  <1>4. i \in AllOperands
    BY <1>1, OperandCounts
  <1>5. PrintedOperands = IF Handler \in OneOperand THEN {1} ELSE AllOperands
    BY <1>2, <1>3 DEF PrintedOperands
  <1>6. QED
    BY <1>3, <1>4, <1>5

\* The segment of whatever reads memory can be told from the text.
LEMMA SegmentTold ==
  ASSUME FirstReturned,
         Addressed # {} \/ Handler \in {"cmps", "lods", "movs", "outs", "xlat"}
  PROVE  SegmentRead = LastSeg(FirstPrefix, LastPrefix)
  <1>1. NamedSegment = p.sreg
    <2>1. p.sreg \in 0..5 \cup {NoSeg} /\ SegmentNoted(p, dest)
      BY LockAndSegment, FirstKnown DEF Worded
    <2>2. QED
      BY <2>1 DEF NamedSegment, SegmentNoted, NoSeg, StackSeg
  <1>2. Addressed # {} => Addressed \cap PrintedOperands # {}
    BY AddressPrinted
  <1>3. SegmentRead = NamedSegment
    BY <1>2 DEF SegmentRead, SegWord, AddressSegWord
  <1>4. QED
    BY <1>1, <1>3, LockAndSegment

\* A nop exchanges a register with itself.
LEMMA NopSame ==
  ASSUME FirstReturned, IsNop
  PROVE  RegisterMeant(1) = RegisterMeant(2)
  <1>1. /\ Encoding.args[1].type = "reg_gr" /\ Encoding.args[1].value = 0
        /\ Encoding.args[2].type = "reg_gr" /\ Encoding.args[2].size # 1
        /\ ~MayBeAddress(Encoding.args[1]) /\ ~MayBeAddress(Encoding.args[2])
    BY NopIs
  <1>2. dest.args[1].type # "void" /\ dest.args[2].type # "void"
    BY <1>1, OperandThere
  <1>3. dest.args[1].type = "reg_gr" /\ dest.args[2].type = "reg_gr"
    BY <1>1, <1>2, OperandIs DEF MayBeAddress
  <1>4. dest.args[1].value = 0 /\ dest.args[2].value = 0
    <2>1. OperandRead(dsz, p, dest, state, state.insn_size, Encoding, 1)
      BY <1>2, OperandIs
    <2>2. QED
      BY <1>1, <1>3, <2>1 DEF OperandRead, RegTypes, ByDefault, DefaultValue, RegOrMem, IsNop
  <1>5. dest.args[2].size # 1
    <2>1. dest.args[2].size = SizeIn(dsz, dest, Encoding.args[2].size) /\ Encoding.args[2] \in Args
      BY <1>2, OperandIs
    <2>2. Encoding.args[2].size \in Int
      BY <2>1 DEF Args
    <2>3. DecodedFirst
      BY FirstKnown
    <2>4. QED
      BY <1>1, <2>1, <2>2, <2>3, ByteSize
  <1>6. RegisterName(1) = 0
    <2>1. ByteRegister(1) = 0
      BY <1>4 DEF ByteRegister
    <2>2. QED
      BY <1>4, <2>1 DEF RegisterName
  <1>7. RegisterName(2) = 0
    BY <1>4, <1>5 DEF RegisterName
  <1>8. 1 \in Operands({"reg_gr"}) /\ 2 \in Operands({"reg_gr"})
    BY <1>3 DEF Operands
  <1>9. QED
    BY <1>6, <1>7, <1>8, FirstKnown

\* The first immediate of an instruction, with the bytes it has.
LEMMA FirstImmKnown ==
  ASSUME FirstReturned, NEW i \in 1..4, dest.args[i].type = "imm_1st"
  PROVE  /\ ImmKnown(dest.args[i], Encoding, Encoding.args[i])
         /\ dest.sx => FirstImmEnd - state.imm1_offset = 1 /\ dest.args[i].size > 1
         /\ (~dest.sx /\ dest.args[i].size > 1) => FirstImmEnd - state.imm1_offset > 1
         /\ (~dest.sx /\ dest.args[i].size = 1) => OwnImm(1)
  <1> DEFINE a == dest.args[i]
             e == Encoding
             n == a.size
             k == state.insn_size
  <1>1. ImmKnown(a, e, e.args[i])
    <2>1. a.type \in ImmTypes
      BY DEF ImmTypes
    <2>2. DecodedFirst
      BY FirstKnown
    <2>3. QED
      BY <2>1, <2>2, ImmediateKnown DEF Encoding
  <1>2. n \in 1..8 /\ ImmediateRead(dest, state, k, e, n) /\ (dest.sx <=> "sx_byte" \in e.etags)
    BY <1>1 DEF ImmKnown
  <1>3. state.imm1_offset \in Nat /\ dest.imm.len \in Nat
    BY FirstKnown DEF DecodedFirst, DecoderStates, Icodes, Slices
  <1>4. FirstImmEnd = EndOfFirst(state, k)
    BY DEF FirstImmEnd, EndOfFirst
  <1> HIDE DEF a, e, n, k
  <1>5. EndOfFirst(state, k) = state.imm1_offset + (IF Wide(e) /\ n = 8 THEN 8 ELSE dest.imm.len)
    BY <1>2 DEF ImmediateRead
  <1>6. FirstImmEnd - state.imm1_offset = IF Wide(e) /\ n = 8 THEN 8 ELSE dest.imm.len
    BY <1>3, <1>4, <1>5
  <1>7. dest.sx => dest.imm.len = 1 /\ n # 1 /\ ~Wide(e)
    BY <1>2 DEF ImmediateRead, Wide
  <1>8. ~dest.sx /\ ~(Wide(e) /\ n = 8) => dest.imm.len = IF n = 8 THEN 4 ELSE n
    BY <1>2 DEF ImmediateRead, Wide
  <1>9. dest.sx => FirstImmEnd - state.imm1_offset = 1 /\ n > 1
    BY <1>2, <1>6, <1>7
  <1>10. (~dest.sx /\ n > 1) => FirstImmEnd - state.imm1_offset > 1
    BY <1>2, <1>6, <1>8
  <1>11. (~dest.sx /\ n = 1) => OwnImm(1)
    <2> SUFFICES ASSUME ~dest.sx, n = 1 PROVE OwnImm(1)
      OBVIOUS
    <2>1. dest.imm.len = 1
      BY <1>8
    <2>2. DecodedFirst
      BY FirstKnown
    <2>3. QED
      BY <1>2, <2>1, <2>2, OwnImmediate DEF k
  <1>12. QED
    BY <1>1, <1>9, <1>10, <1>11 DEF a, e, n

\* An operand that is left out of aam is 10.
LEMMA TenLeftOut ==
  ASSUME FirstReturned, Handler = "aam", PrintedOperands = {}
  PROVE  ImmMeaning(1, Zero) = Small(10)
  <1>1. /\ Encoding.args[1].type = "imm_1st" /\ Encoding.args[1].size = 1
        /\ "sx_byte" \notin Encoding.etags /\ "relative" \notin Encoding.etags
    BY FirstKnown, ShownAssumption DEF Handler, Encoding
  <1>2. dest.args[1].type = "imm_1st" /\ dest.args[1].size = 1
    <2>1. dest.args[1].type # "void"
      BY <1>1, OperandThere
    <2>2. Encoding.args[1].value # RegOrMem
      <3> DEFINE e == Encoding
      <3>1. e \in {Encodings[x] : x \in DOMAIN Encodings} /\ e.args[1].type \notin RegTypes
        BY <1>1, FirstKnown DEF Encoding, RegTypes
      <3> HIDE DEF e
      <3>2. \A i \in 1..4 : e.args[i].value = RegOrMem => e.args[i].type \in RegTypes
        BY <3>1, OperandsAssumption, Zenon
      <3>3. QED
        BY <3>1, <3>2 DEF e
    <2>3. dest.args[1].size = SizeIn(dsz, dest, 1)
      BY <1>1, <2>1, OperandIs
    <2>4. QED
      BY <1>1, <2>1, <2>2, <2>3, OperandIs DEF SizeIn
  <1>3. Imm = Small(10)
    <2>1. 1 \in AllOperands
      BY <1>2 DEF AllOperands
    <2>2. ~IsNop /\ Handler \notin NoOperands /\ Handler \notin OneOperand
      BY DEF IsNop, NoOperands, OneOperand, StringInsns, Suffixed, Extending, ShortJumps
    <2>3. QED
      BY <2>1, <2>2 DEF PrintedOperands
  <1>4. ImmKnown(dest.args[1], Encoding, Encoding.args[1])
    BY <1>2, FirstImmKnown
  <1>5. ~dest.sx
    BY <1>1, <1>4 DEF ImmKnown
  <1>6. OwnImm(1)
    BY <1>2, <1>5, FirstImmKnown
  <1>7. BytesAt(state.imm1_offset, 1) = Small(10)
    BY <1>3, <1>5, <1>6 DEF OwnImm, Imm
  <1>8. ImmMeaning(1, Zero) = SignExtend(Small(10), 1)
    BY <1>1, <1>2, <1>6, <1>7 DEF ImmMeaning, SignedBytes, OwnImm, Relative
  <1>9. SignExtend(Small(10), 1) = Small(10)
    BY DEF SignExtend, Small, Zero
  <1>10. QED
    BY <1>8, <1>9

\* short and byte mark the immediates of one byte that are extended.
LEMMA FormTold ==
  ASSUME FirstReturned, NEW i \in Operands({"imm_1st"})
  PROVE  (dest.args[i].size > 1 /\ FirstImmEnd - state.imm1_offset = 1)
           = (ImmFormWord \in {"short", "byte"} \/ Handler \in ShortJumps)
  <1>1. i \in 1..4 /\ dest.args[i].type = "imm_1st"
    BY DEF Operands
  <1>2. /\ ImmKnown(dest.args[i], Encoding, Encoding.args[i])
        /\ dest.sx => FirstImmEnd - state.imm1_offset = 1 /\ dest.args[i].size > 1
        /\ (~dest.sx /\ dest.args[i].size > 1) => FirstImmEnd - state.imm1_offset > 1
    BY <1>1, FirstImmKnown
  <1>3. Handler \in ShortJumps => {"sx_byte", "relative"} \subseteq Encoding.etags
    BY FirstKnown, ShownAssumption DEF Handler, Encoding
  <1>4. Handler \in ShortJumps => dest.sx /\ Relative
    BY <1>2, <1>3 DEF ImmKnown, Relative
  <1>5. CASE dest.sx
    <2>1. ImmFormWord \in {"short", "byte"} \/ Handler \in ShortJumps
      BY <1>5 DEF ImmFormWord
    <2>2. dest.args[i].size > 1 /\ FirstImmEnd - state.imm1_offset = 1
      BY <1>2, <1>5
    <2>3. QED
      BY <2>1, <2>2
  <1>6. CASE ~dest.sx
    <2>1. Handler \notin ShortJumps
      BY <1>4, <1>6
    <2>2. ImmFormWord \in {"near", ""}
      BY <1>6 DEF ImmFormWord
    <2>3. ImmFormWord \notin {"short", "byte"}
      BY <2>2
    <2>4. ~(dest.args[i].size > 1 /\ FirstImmEnd - state.imm1_offset = 1)
      BY <1>2, <1>6
    <2>5. QED
      BY <2>1, <2>3, <2>4
  <1>7. QED
    BY <1>5, <1>6

\* A far pointer in memory is called far.
LEMMA FarTold ==
  ASSUME FirstReturned, NEW i \in Operands({"mem_ea_seg"}), "ctrlxfer" \in Encoding.itags
  PROVE  PointerWord(i) = "far"
  <1>1. i \in 1..4 /\ dest.args[i].type = "mem_ea_seg"
    BY DEF Operands
  <1>2. Encoding.args[i].type = "mem_ea_seg"
    BY <1>1, OperandIs
  <1>3. /\ Handler \notin {"cmpxchgxb", "in", "out"} /\ Encoding.args[i].size = -8
        /\ Encoding.proto[i] < 0 /\ \A j \in 1..4 : Encoding.proto[j] = Encoding.proto[i] => j = i
    BY <1>1, <1>2, FirstKnown, ShownAssumption DEF Handler, Encoding
  <1>4. NeedSize(i)
    BY <1>3 DEF NeedSize, Sizes
  <1>5. SizeKeyword(i) = dest.args[i].size
    BY <1>1, <1>4 DEF SizeKeyword
  <1>6. dest.args[i].size \in {2, 4, 8}
    <2>1. dest.args[i].size = SizeIn(dsz, dest, -8)
      BY <1>1, <1>3, OperandIs
    <2>2. SizeOf(dest.osz) \in {2, 4, 8}
      BY FirstKnown DEF SizeOf
    <2>3. SizeIn(dsz, dest, -8) = (IF dsz = 2 THEN 8 ELSE SizeOf(dest.osz))
      BY DEF SizeIn
    <2>4. QED
      BY <2>1, <2>2, <2>3
  <1>7. QED
    BY <1>1, <1>5, <1>6 DEF PointerWord

-----------------------------------------------------------------------------
(* The operand size *)

\* The items of a tuple.
LEMMA EightItems ==
  ASSUME NEW a, NEW b, NEW c, NEW d, NEW e, NEW f, NEW g, NEW h, NEW s, s = <<a, b, c, d, e, f, g, h>>
  PROVE  /\ s[1] = a /\ s[2] = b /\ s[3] = c /\ s[4] = d /\ s[5] = e /\ s[6] = f
         /\ s[7] = g /\ s[8] = h
OBVIOUS

\* The sizes of an operand for each operand size, row by row.
LEMMA SizeRow ==
  ASSUME NEW size \in Int, size < 0, NEW o, NEW k, k = -size, NEW rows,
         rows = <<<<2, 4, 8>>, <<0, 0, 0>>, IF dsz = 2 THEN <<8, 8, 8>> ELSE <<4, 4, 4>>,
                  <<2, 4, 4>>, <<4, 4, 8>>, <<8, 8, 16>>, <<2, 2, 8>>,
                  IF dsz = 2 THEN <<8, 8, 8>> ELSE <<2, 4, 8>>>>
  PROVE  SizeWith(size, o) = rows[k][o + 1]
  <1>1. SizeWith(size, o) = IF size >= 0 THEN size ELSE rows[-size][o + 1]
    BY Zenon DEF SizeWith
  <1>2. QED
    BY <1>1

LEMMA SizeRows ==
  ASSUME NEW o \in 0..2
  PROVE  /\ SizeWith(-1, o) = <<2, 4, 8>>[o + 1]
         /\ SizeWith(-3, o) = (IF dsz = 2 THEN <<8, 8, 8>> ELSE <<4, 4, 4>>)[o + 1]
         /\ SizeWith(-4, o) = <<2, 4, 4>>[o + 1]
         /\ SizeWith(-5, o) = <<4, 4, 8>>[o + 1]
         /\ SizeWith(-6, o) = <<8, 8, 16>>[o + 1]
         /\ SizeWith(-7, o) = <<2, 2, 8>>[o + 1]
         /\ SizeWith(-8, o) = (IF dsz = 2 THEN <<8, 8, 8>> ELSE <<2, 4, 8>>)[o + 1]
  <1> DEFINE rows == <<<<2, 4, 8>>, <<0, 0, 0>>, IF dsz = 2 THEN <<8, 8, 8>> ELSE <<4, 4, 4>>,
                       <<2, 4, 4>>, <<4, 4, 8>>, <<8, 8, 16>>, <<2, 2, 8>>,
                       IF dsz = 2 THEN <<8, 8, 8>> ELSE <<2, 4, 8>>>>
  <1>1. /\ rows[1] = <<2, 4, 8>>
        /\ rows[3] = IF dsz = 2 THEN <<8, 8, 8>> ELSE <<4, 4, 4>>
        /\ rows[4] = <<2, 4, 4>> /\ rows[5] = <<4, 4, 8>> /\ rows[6] = <<8, 8, 16>>
        /\ rows[7] = <<2, 2, 8>>
        /\ rows[8] = IF dsz = 2 THEN <<8, 8, 8>> ELSE <<2, 4, 8>>
    BY EightItems, Zenon
  <1>2. \A size \in Int : \A k : (size < 0 /\ k = -size) => SizeWith(size, o) = rows[k][o + 1]
    BY SizeRow, Zenon
  <1> HIDE DEF rows
  <1>3. /\ SizeWith(-1, o) = rows[1][o + 1] /\ SizeWith(-3, o) = rows[3][o + 1]
        /\ SizeWith(-4, o) = rows[4][o + 1] /\ SizeWith(-5, o) = rows[5][o + 1]
        /\ SizeWith(-6, o) = rows[6][o + 1] /\ SizeWith(-7, o) = rows[7][o + 1]
        /\ SizeWith(-8, o) = rows[8][o + 1]
    BY <1>2
  <1>4. QED
    BY <1>1, <1>3, Zenon

\* The operand size that is meant gives an operand the size it has.
LEMMA SizeWithIs ==
  ASSUME NEW ic, ic.osz \in 0..2, NEW size \in Int, size # -2,
         NEW w, w = SizeIn(dsz, ic, size), w > 0
  PROVE  w = SizeWith(size, ic.osz)
  <1>1. size \in {-1, -3, -4, -5, -6, -7, -8} \/ size >= 0
    BY DEF SizeIn
  <1> DEFINE o == ic.osz
  <1>2. CASE size >= 0
    BY <1>2 DEF SizeIn, SizeWith
  <1>3. CASE size = -1
    BY <1>3, SizeRows DEF SizeIn, SizeOf
  <1>4. CASE size = -3
    BY <1>4, SizeRows DEF SizeIn, SizeOf
  <1>5. CASE size = -4
    BY <1>5, SizeRows DEF SizeIn, SizeOf
  <1>6. CASE size = -5
    BY <1>6, SizeRows DEF SizeIn, SizeOf
  <1>7. CASE size = -6
    BY <1>7, SizeRows DEF SizeIn, SizeOf
  <1>8. CASE size = -7
    BY <1>8, SizeRows DEF SizeIn, SizeOf
  <1>9. CASE size = -8
    BY <1>9, SizeRows DEF SizeIn, SizeOf
  <1>10. QED
    BY <1>1, <1>2, <1>3, <1>4, <1>5, <1>6, <1>7, <1>8, <1>9

\* Sizes that are those of a general register, of a stack operand, or the same
\* for every operand size.
LEMMA SizesWith ==
  ASSUME NEW o \in 0..2, dsz \in 0..2
  PROVE  /\ SizeWith(-1, o) = SizeOf(o) /\ SizeOf(o) > 0
         /\ \A r \in 0..2 : SizeOf(r) = SizeOf(o) => r = o
         /\ \A r \in 0..2 : SizeWith(-3, r) = SizeWith(-3, o)
         /\ SizeWith(-8, o) = (IF dsz = 2 THEN 8 ELSE SizeOf(o))
  <1>1. SizeWith(-1, o) = SizeOf(o)
    BY SizeRows DEF SizeOf
  <1>2. SizeOf(o) > 0
    BY DEF SizeOf
  <1>3. \A r \in 0..2 : SizeOf(r) = SizeOf(o) => r = o
    BY DEF SizeOf
  <1>4. ASSUME NEW r \in 0..2 PROVE SizeWith(-3, r) = IF dsz = 2 THEN 8 ELSE 4
    <2>1. SizeWith(-3, r) = (IF dsz = 2 THEN <<8, 8, 8>> ELSE <<4, 4, 4>>)[r + 1]
      BY SizeRows
    <2>2. <<8, 8, 8>>[r + 1] = 8 /\ <<4, 4, 4>>[r + 1] = 4
      OBVIOUS
    <2>3. QED
      BY <2>1, <2>2
  <1>5. SizeWith(-8, o) = (IF dsz = 2 THEN 8 ELSE SizeOf(o))
    <2>1. <<8, 8, 8>>[o + 1] = 8
      OBVIOUS
    <2>2. QED
      BY <2>1, SizeRows DEF SizeOf
  <1>6. QED
    BY <1>1, <1>2, <1>3, <1>4, <1>5

\* What one operand size must give the operands to be taken for another.
SameSizes(r, o) ==
  \A i \in Sized : SizeWith(Encoding.args[i].size, r) = SizeWith(Encoding.args[i].size, o)

\* What the tables hold of the operand sizes, for the instruction decoded.
LEMMA SizedBySaid ==
  ASSUME FirstReturned, NEW e, e = Encoding, NEW h, h = Handler, NEW sized, sized = Sized,
         NEW main, main = e.args[IF h = "outs" THEN 2 ELSE 1]
  PROVE  /\ "is64" \in e.etags => "no_rex_w" \notin e.etags
         /\ \A i \in 1..4 : e.args[i].type = "void" => e.args[i].size >= 0
         /\ h \in StringInsns => /\ main.type # "void" /\ main.size # -2
                                 /\ \A i \in sized : e.args[i].size = main.size
         /\ h \in StackInsns =>
              /\ {"is64", "no64"} \cap e.etags # {} /\ sized \subseteq {1}
              /\ e.args[1].type \in ImmTypes => e.args[1].size \in {-1, -8}
         /\ h = "xlat" => "is64" \notin e.etags /\ sized = {}
         /\ "relative" \in e.etags => /\ sized = {1} /\ e.args[1].type \in ImmTypes
                                      /\ h \notin {"callfd", "jmpfd"}
         /\ sized = {} => \/ e.op66 # 0 \/ h = "none"
                          \/ h \in StackInsns \cup {"xlat"} \cup SizedByName \cup OneSize \cup Returns
         /\ (/\ sized # {} /\ "relative" \notin e.etags
             /\ h \notin StackInsns \cup SizedByName) =>
              /\ h \notin NoOperands \cup OneOperand \cup {"aad", "aam"}
              /\ \A i \in sized : ShowsSize(e, h, i)
  <1> DEFINE x == dest.encoding
  <1>1. x \in DOMAIN Encodings
    BY FirstKnown
  <1>2. e = Encodings[x] /\ h = HandlerOf(x) /\ sized = SizedBy(e)
    BY DEF Encoding, Handler, Sized
  <1> HIDE DEF x
  <1>3. QED
    BY <1>1, <1>2, SizedAssumption, Zenon

\* A sized operand is there, with the size that the operand size gives it.
LEMMA SizedOperand ==
  ASSUME FirstReturned, NEW i \in Sized
  PROVE  /\ i \in 1..4 /\ dest.args[i].type # "void" /\ Encoding.args[i].type # "void"
         /\ Encoding.args[i].size \in Int /\ Encoding.args[i].size < 0
         /\ Encoding.args[i].size # -2
         /\ dest.args[i].size = SizeWith(Encoding.args[i].size, dest.osz)
         /\ dest.args[i].size > 0
         /\ i \in AllOperands
         /\ \/ dest.args[i].type = Encoding.args[i].type
            \/ Encoding.args[i].value = RegOrMem /\ dest.args[i].type = "mem_ea"
  <1>1. i \in 1..4 /\ Encoding.args[i].size < 0 /\ Encoding.args[i].size # -2
    BY DEF Sized, SizedBy, osz_sensitive
  <1>2. Encoding.args[i].size \in Int
    <2>1. Encoding.args \in [1..4 -> Args]
      BY FirstKnown DEF DecodedFirst, Encoding
    <2>2. QED
      BY <1>1, <2>1 DEF Args
  <1>3. Encoding.args[i].type # "void"
    <2>1. Encoding.args[i].type = "void" => Encoding.args[i].size >= 0
      BY <1>1, SizedBySaid
    <2>2. QED
      BY <1>1, <1>2, <2>1
  <1>4. dest.args[i].type # "void"
    BY <1>1, <1>3, OperandThere
  <1>5. dest.args[i].size = SizeIn(dsz, dest, Encoding.args[i].size) /\ dest.args[i].size > 0
    BY <1>1, <1>4, OperandIs
  <1>6. dest.args[i].size = SizeWith(Encoding.args[i].size, dest.osz)
    BY <1>1, <1>2, <1>5, FirstKnown, SizeWithIs
  <1>7. QED
    BY <1>1, <1>2, <1>3, <1>4, <1>5, <1>6, OperandIs, OperandCounts

\* An operand of memory that ModRM has made was a register.
LEMMA MemoryWasRegister ==
  ASSUME FirstReturned, NEW i \in 1..4, Encoding.args[i].value = RegOrMem
  PROVE  Encoding.args[i].type \in RegTypes
  <1> DEFINE e == Encoding
  <1>1. e \in {Encodings[x] : x \in DOMAIN Encodings}
    BY FirstKnown DEF Encoding
  <1> HIDE DEF e
  <1>2. e.args[i].value = RegOrMem => e.args[i].type \in RegTypes
    BY <1>1, OperandsAssumption, Zenon
  <1>3. QED
    BY <1>2 DEF e

\* An operand that gives the size of another is alike by its encoding.
LEMMA SizesAlike ==
  ASSUME FirstReturned, NEW i \in 1..4, NEW j \in 1..4, Sizes(i, j)
  PROVE  Alike(Encoding, i, j)
  <1>1. j # i /\ Encoding.proto[j] = Encoding.proto[i] /\ dest.args[j].type \notin ImmTypes
    BY DEF Sizes
  <1>2. SUFFICES ASSUME Encoding.args[j].type \in ImmTypes PROVE FALSE
    BY <1>1 DEF Alike
  <1>3. dest.args[j].type # "void"
    BY <1>2, OperandThere DEF ImmTypes
  <1>4. Encoding.args[j].value = RegOrMem
    BY <1>1, <1>2, <1>3, OperandIs
  <1>5. QED
    BY <1>2, <1>4, MemoryWasRegister DEF ImmTypes, RegTypes

\* A keyword is the size of its operand.
LEMMA ImmWordSize ==
  ASSUME FirstReturned, NEW i \in Sized, dest.args[i].type \in ImmTypes,
         Handler \notin {"callfd", "jmpfd"}
  PROVE  /\ ImmSizeWord(i) \in {0, dest.args[i].size, SizeOf(dest.osz)}
         /\ NeedSize(i) /\ ~dest.sx /\ ~Relative =>
              ImmSizeWord(i) \in {dest.args[i].size, SizeOf(dest.osz)}
         /\ (~NeedSize(i) \/ (Relative /\ "imm64_sx32" \in Encoding.etags)) => ImmSizeWord(i) = 0
  <1>1. dest.args[i].size > 0 /\ SizeOf(dest.osz) > 0
    BY SizedOperand, FirstKnown, SizesWith
  <1>2. QED
    BY <1>1 DEF ImmSizeWord

\* The operand size of a push or a pop that no prefix word names.
LEMMA StackSize ==
  ASSUME FirstReturned, Handler \in StackInsns, OperandSizeWord = NoSize
  PROVE  dest.osz = OwnSize /\ (dsz = 2 => OwnSize = 2)
  <1>1. {"is64", "no64"} \cap Encoding.etags # {} /\ ("is64" \in Encoding.etags => "no_rex_w" \notin Encoding.etags)
    BY SizedBySaid
  <1>2. dsz = 2 => "is64" \in Encoding.etags
    <2>1. ~(dsz = 2 /\ "no64" \in Encoding.etags)
      BY FirstKnown DEF WordedLeaf, Encoding
    <2>2. QED
      BY <1>1, <2>1
  <1>3. write_stack_oxx = NoSize
    BY DEF OperandSizeWord, StackInsns
  <1>4. ~(dest.osz # dsz /\ (dsz = 2 => dest.osz = 0))
    BY <1>3, FirstKnown DEF write_stack_oxx, NoSize
  <1>5. CASE dsz = 2
    <2>1. OwnSize = 2
      BY <1>2, <1>5 DEF OwnSize
    <2>2. dest.osz \in {0, 2}
      <3>1. dest.osz = OperandSizeMeant
        BY FirstKnown
      <3>2. QED
        BY <1>5, <2>1, <3>1 DEF OperandSizeMeant
    <2>3. QED
      BY <1>4, <1>5, <2>1, <2>2
  <1>6. CASE dsz # 2
    BY <1>4, <1>6, FirstKnown DEF OwnSize
  <1>7. QED
    BY <1>5, <1>6

\* The operand size of an instruction that follows the default rule, has no
\* operand of that size and no prefix word.
LEMMA PlainSize ==
  ASSUME FirstReturned, Sized = {}, OperandSizeWord = NoSize,
         \/ Handler = "none" /\ Encoding.op66 = 0
         \/ Handler = "xlat"
  PROVE  dest.osz = OwnSize
  <1>1. dest.osz = (IF dsz = 2 THEN 1 ELSE dsz)
    <2>1. CASE Handler = "none" /\ Encoding.op66 = 0
      <3>1. \A i \in 1..4 : ~osz_sensitive(Encoding.args[i].size)
        BY DEF Sized, SizedBy
      <3>2. maybe_write_oxx = NoSize
        BY <2>1 DEF OperandSizeWord, StackInsns
      <3>3. QED
        <4> SUFFICES ASSUME dest.osz # (IF dsz = 2 THEN 1 ELSE dsz) PROVE FALSE
          OBVIOUS
        <4>1. maybe_write_oxx = dest.osz
          BY <2>1, <3>1 DEF maybe_write_oxx
        <4>2. QED
          BY <3>2, <4>1, FirstKnown DEF NoSize
    <2>2. CASE Handler = "xlat"
      <3>1. write_xlat_oxx = NoSize
        BY <2>2 DEF OperandSizeWord, StackInsns
      <3>2. QED
        BY <3>1, FirstKnown DEF write_xlat_oxx, NoSize
    <2>3. QED
      BY <2>1, <2>2
  <1>2. CASE dsz = 2
    <2>1. dest.osz = OperandSizeMeant /\ dest.osz = 1
      BY <1>1, <1>2, FirstKnown
    <2>2. "is64" \in Encoding.etags => "no_rex_w" \notin Encoding.etags
      BY SizedBySaid
    <2>3. OwnSize = 1
      BY <1>2, <2>1, <2>2 DEF OperandSizeMeant, OwnSize
    <2>4. QED
      BY <2>1, <2>3
  <1>3. CASE dsz # 2
    BY <1>1, <1>3, FirstKnown DEF OwnSize
  <1>4. QED
    BY <1>2, <1>3

\* The operand size of a jump relative to the next instruction.
LEMMA JrcxzSize ==
  ASSUME FirstReturned, Handler = "jrcxz", OperandSizeWord = NoSize, dsz # 2
  PROVE  dest.osz = OwnSize
  <1>1. write_jrcxz_oxx = NoSize
    BY DEF OperandSizeWord, StackInsns
  <1>2. QED
    BY <1>1, FirstKnown DEF write_jrcxz_oxx, NoSize, OwnSize

-----------------------------------------------------------------------------
(* The operand size by the operands *)

\* The instructions that show it nowhere else.
ByOperands ==
  /\ FirstReturned /\ Sized # {} /\ ~IsNop /\ ~Relative
  /\ Handler \notin StackInsns \cup SizedByName

\* Their operands are printed.
LEMMA ShownOperand ==
  ASSUME ByOperands, NEW i \in Sized
  PROVE  /\ ShowsSize(Encoding, Handler, i) /\ i \in PrintedOperands
         /\ Handler \notin {"cmpxchgxb", "divb", "idivb", "imulb", "mulb"}
  <1>1. "relative" \notin Encoding.etags
    BY DEF ByOperands, Relative
  <1>2. /\ Handler \notin NoOperands \cup OneOperand \cup {"aad", "aam"}
        /\ ShowsSize(Encoding, Handler, i)
    BY <1>1, SizedBySaid DEF ByOperands
  <1>3. i \in AllOperands
    BY SizedOperand DEF ByOperands
  <1>4. i \in PrintedOperands
    BY <1>2, <1>3 DEF PrintedOperands, ByOperands
  <1>5. QED
    BY <1>2, <1>4 DEF OneOperand

\* What the text of an operand says of its size, by the kind of the operand.
LEMMA ToldIs ==
  ASSUME NEW i \in PrintedOperands
  PROVE  /\ dest.args[i].type = "reg_gr" => Told(i) = dest.args[i].size
         /\ dest.args[i].type \in ImmTypes => Told(i) = ImmSizeWord(i)
         /\ (dest.args[i].type \notin ImmTypes \cup {"reg_gr"} /\ i \in Addressed) =>
              Told(i) = SizeKeyword(i)
  <1> DEFINE t == dest.args[i].type
  <1>1. Told(i) = CASE t = "reg_gr" -> dest.args[i].size
                    [] t \in ImmTypes -> ImmSizeWord(i)
                    [] i \in Addressed -> SizeKeyword(i)
                    [] OTHER -> 0
    BY Zenon DEF Told
  <1>2. t \in ImmTypes => t # "reg_gr" /\ i \notin Addressed
    BY DEF ImmTypes, Addressed, Operands
  <1>3. t = "reg_gr" => i \notin Addressed
    BY DEF Addressed, Operands
  <1> HIDE DEF t
  <1>4. QED
    <2>1. CASE t = "reg_gr"
      BY <1>1, <1>2, <1>3, <2>1 DEF t
    <2>2. CASE t \in ImmTypes
      BY <1>1, <1>2, <2>2 DEF t
    <2>3. CASE t \notin ImmTypes \cup {"reg_gr"}
      BY <1>1, <2>3 DEF t
    <2>4. QED
      BY <2>1, <2>2, <2>3

\* What an immediate shows its size by.
LEMMA ImmShows ==
  ASSUME NEW e, NEW h, NEW i, ShowsSize(e, h, i), e.args[i].type \in ImmTypes,
         ~MayBeAddress(e.args[i]), e.args[i].size \in Int, e.args[i].size >= -8
  PROVE  \/ h \in {"callfd", "jmpfd"} /\ e.args[i].size = -1
         \/ /\ h \notin {"callfd", "jmpfd"}
            /\ \/ \E j \in 1..4 : /\ Alike(e, i, j)
                                  /\ e.args[j].type = "reg_gr" /\ e.args[j].size = -1
               \/ /\ e.args[i].size = -1 /\ "sx_byte" \notin e.etags
                  /\ h \notin {"cmpxchgxb", "in", "out"}
                  /\ e.proto[i] < 0 /\ \A j \in 1..4 : ~Alike(e, i, j)
  <1>1. e.args[i].type # "reg_gr" /\ ~(e.args[i].size < -8)
    BY DEF ImmTypes
  <1>2. QED
    BY <1>1, Zenon DEF ShowsSize

\* What the text says of a size is right.
LEMMA ToldRight ==
  ASSUME ByOperands, NEW i \in Sized
  PROVE  Told(i) \in {0, dest.args[i].size}
  <1> DEFINE a == dest.args[i]
  <1>1. CASE a.type \in ImmTypes
    <2>1. Told(i) = ImmSizeWord(i)
      BY <1>1, ShownOperand, ToldIs
    <2>2. Encoding.args[i].type \in ImmTypes
      BY <1>1, SizedOperand DEF ByOperands, ImmTypes
    <2>3. ~MayBeAddress(Encoding.args[i])
      <3>1. i \in 1..4
        BY SizedOperand DEF ByOperands
      <3>2. Encoding.args[i].value # RegOrMem
        BY <2>2, <3>1, MemoryWasRegister DEF ByOperands, ImmTypes, RegTypes
      <3>3. QED
        BY <2>2, <3>2 DEF MayBeAddress, ImmTypes
    <2>4. SizeWith(-1, dest.osz) = SizeOf(dest.osz)
      BY FirstKnown, SizesWith DEF ByOperands
    <2>5. Encoding.args[i].size \in Int /\ Encoding.args[i].size >= -8
      <3>1. a.size = SizeIn(dsz, dest, Encoding.args[i].size) /\ a.size > 0
        BY SizedOperand, OperandIs DEF ByOperands
      <3>2. Encoding.args[i].size \in Int
        BY SizedOperand DEF ByOperands
      <3>3. QED
        BY <3>1, <3>2 DEF SizeIn
    <2>6. CASE Handler \in {"callfd", "jmpfd"}
      <3>1. Encoding.args[i].size = -1
        <4>1. ShowsSize(Encoding, Handler, i)
          BY ShownOperand
        <4>2. QED
          BY <2>2, <2>3, <2>5, <2>6, <4>1, ImmShows
      <3>2. a.size = SizeOf(dest.osz)
        BY <2>4, <3>1, SizedOperand DEF ByOperands
      <3>3. ImmSizeWord(i) = SizeOf(dest.osz)
        BY <2>6 DEF ImmSizeWord
      <3>4. QED
        BY <2>1, <3>2, <3>3
    <2>7. CASE Handler \notin {"callfd", "jmpfd"} /\ ~NeedSize(i)
      BY <1>1, <2>1, <2>7, ImmWordSize DEF ByOperands
    <2>8. CASE Handler \notin {"callfd", "jmpfd"} /\ NeedSize(i)
      <3>1. Encoding.args[i].size = -1
        <4>1. ASSUME NEW j \in 1..4, Alike(Encoding, i, j), Encoding.args[j].type = "reg_gr"
              PROVE  FALSE
          <5>1. dest.args[j].type # "void"
            BY <4>1, OperandThere DEF ByOperands
          <5>2. dest.args[j].size > 0 /\ dest.args[j].type \notin ImmTypes
            BY <4>1, <5>1, OperandIs DEF ByOperands, ImmTypes
          <5>3. Sizes(i, j)
            BY <4>1, <5>2 DEF Sizes, Alike
          <5>4. QED
            BY <2>8, <5>3, ShownOperand DEF NeedSize
        <4>2. QED
          <5>1. ShowsSize(Encoding, Handler, i)
            BY ShownOperand
          <5>2. QED
            BY <2>2, <2>3, <2>5, <2>8, <4>1, <5>1, ImmShows
      <3>2. a.size = SizeOf(dest.osz)
        BY <2>4, <3>1, SizedOperand DEF ByOperands
      <3>3. QED
        BY <1>1, <2>1, <2>8, <3>2, ImmWordSize DEF ByOperands
    <2>9. QED
      BY <2>6, <2>7, <2>8
  <1>2. CASE a.type = "reg_gr"
    BY <1>2, ShownOperand, ToldIs
  <1>3. CASE a.type \notin ImmTypes \cup {"reg_gr"} /\ i \in Addressed
    <2>1. Told(i) = SizeKeyword(i)
      BY <1>3, ShownOperand, ToldIs
    <2>2. QED
      BY <2>1 DEF SizeKeyword
  <1>4. CASE a.type \notin ImmTypes \cup {"reg_gr"} /\ i \notin Addressed
    BY <1>4 DEF Told
  <1>5. QED
    BY <1>1, <1>2, <1>3, <1>4

\* Operand sizes that agree with what the text says of each operand.
Agrees(r) == \A k \in Sized : Told(k) \in {0, SizeWith(Encoding.args[k].size, r)}

\* An operand that says its size has no other at such an operand size.
LEMMA ToldPins ==
  ASSUME ByOperands, NEW r \in 0..2, Agrees(r), NEW k \in Sized, Told(k) # 0
  PROVE  SizeWith(Encoding.args[k].size, r) = SizeWith(Encoding.args[k].size, dest.osz)
  <1>1. Told(k) = dest.args[k].size
    BY ToldRight
  <1>2. dest.args[k].size = SizeWith(Encoding.args[k].size, dest.osz)
    BY SizedOperand DEF ByOperands
  <1>3. Told(k) = SizeWith(Encoding.args[k].size, r)
    BY DEF Agrees
  <1>4. QED
    BY <1>1, <1>2, <1>3

\* An operand that is not an immediate.
LEMMA PlainPinned ==
  ASSUME ByOperands, NEW r \in 0..2, Agrees(r), NEW i \in Sized,
         Encoding.args[i].type \notin ImmTypes
  PROVE  SizeWith(Encoding.args[i].size, r) = SizeWith(Encoding.args[i].size, dest.osz)
  <1> DEFINE e == Encoding
             s == e.args[i].size
  <1> USE DEF ByOperands
  <1>1. /\ i \in 1..4 /\ s \in Int /\ s < 0 /\ s # -2 /\ s >= -8
        /\ dest.args[i].size > 0 /\ dest.args[i].type # "void"
        /\ \/ dest.args[i].type = e.args[i].type
           \/ e.args[i].value = RegOrMem /\ dest.args[i].type = "mem_ea"
    <2>1. dest.args[i].size = SizeIn(dsz, dest, s) /\ dest.args[i].size > 0
      BY SizedOperand, OperandIs
    <2>2. s \in Int
      BY SizedOperand
    <2>3. s >= -8
      BY <2>1, <2>2 DEF SizeIn
    <2>4. QED
      BY <2>3, SizedOperand
  <1>2. ShowsSize(Encoding, Handler, i) /\ i \in PrintedOperands
        /\ Handler \notin {"cmpxchgxb", "divb", "idivb", "imulb", "mulb"}
    BY ShownOperand
  <1>3. CASE s = -3
    BY <1>3, FirstKnown, SizesWith
  <1>4. CASE dest.args[i].type = "reg_gr"
    <2>1. Told(i) # 0
      BY <1>1, <1>2, <1>4, ToldIs
    <2>2. QED
      BY <2>1, ToldPins
  <1>5. CASE s # -3 /\ dest.args[i].type # "reg_gr"
    <2>1. /\ MayBeAddress(e.args[i]) /\ e.proto[i] < 0
          /\ e.args[i].type \in RegTypes => e.args[i].type = "reg_gr"
          /\ \A j \in 1..4 : Alike(e, i, j) => e.args[j].type = "reg_gr"
      <3>1. ~(e.args[i].size < -8)
        BY <1>1
      <3>2. ~(e.args[i].type = "reg_gr" /\ e.args[i].value # RegOrMem)
        BY <1>1, <1>5
      <3>3. QED
        BY <1>2, <1>5, <3>1, <3>2, Zenon DEF ShowsSize
    <2>2. i \in Addressed
      <3>1. e.args[i].value = RegOrMem => e.args[i].type = "reg_gr"
        BY <1>1, <2>1, MemoryWasRegister
      <3>2. dest.args[i].type \in {"mem_ea", "mem_ea_seg", "mem_fulldisp"}
        BY <1>1, <1>5, <2>1, <3>1 DEF MayBeAddress
      <3>3. QED
        BY <1>1, <3>2 DEF Addressed, Operands
    <2>3. /\ Handler \notin {"in", "out"}
          /\ \A j \in 1..4 : Alike(e, i, j) =>
               /\ e.args[j].type \in RegTypes /\ e.args[j].value # RegOrMem
               /\ e.args[j].size = e.args[i].size
      <3> DEFINE x == dest.encoding
      <3>1. x \in DOMAIN Encodings /\ e = Encodings[x] /\ Handler = HandlerOf(x)
        BY FirstKnown DEF Encoding, Handler
      <3> HIDE DEF x, e
      <3>2. QED
        BY <1>1, <1>2, <2>1, <3>1, OpenSize
    <2>4. CASE \E j \in 1..4 : Alike(e, i, j)
      <3>1. PICK j \in 1..4 : Alike(e, i, j)
        BY <2>4
      <3>2. e.args[j].type = "reg_gr" /\ e.args[j].value # RegOrMem /\ e.args[j].size = s
        BY <2>1, <2>3, <3>1
      <3>3. j \in Sized
        BY <1>1, <3>2 DEF Sized, SizedBy, osz_sensitive
      <3>4. dest.args[j].type = "reg_gr" /\ dest.args[j].size > 0
        BY <3>2, <3>3, SizedOperand
      <3>5. Told(j) # 0
        <4>1. j \in PrintedOperands
          BY <3>3, ShownOperand
        <4>2. QED
          BY <3>4, <4>1, ToldIs
      <3>6. QED
        BY <3>2, <3>3, <3>5, ToldPins
    <2>5. CASE \A j \in 1..4 : ~Alike(e, i, j)
      <3>1. \A j \in 1..4 : ~Sizes(i, j)
        BY <1>1, <2>5, SizesAlike
      <3>2. NeedSize(i)
        BY <1>2, <2>1, <2>3, <3>1 DEF NeedSize
      <3>3. Told(i) = SizeKeyword(i)
        <4>1. dest.args[i].type \notin ImmTypes \cup {"reg_gr"}
          BY <1>5, <2>2 DEF Addressed, Operands, ImmTypes
        <4>2. QED
          BY <1>2, <2>2, <4>1, ToldIs
      <3>4. dest.args[i].type # "mem_address"
        BY <1>1, <2>1, MemoryWasRegister DEF MayBeAddress, RegTypes
      <3>5. SizeKeyword(i) = dest.args[i].size
        BY <3>2, <3>4 DEF SizeKeyword
      <3>6. QED
        BY <1>1, <3>3, <3>5, ToldPins
    <2>6. QED
      BY <2>4, <2>5
  <1>6. QED
    BY <1>3, <1>4, <1>5

\* An operand of any kind.
LEMMA OperandPinned ==
  ASSUME ByOperands, NEW r \in 0..2, Agrees(r), NEW i \in Sized
  PROVE  SizeWith(Encoding.args[i].size, r) = SizeWith(Encoding.args[i].size, dest.osz)
  <1> DEFINE e == Encoding
             s == e.args[i].size
  <1> USE DEF ByOperands
  <1>1. CASE e.args[i].type \notin ImmTypes
    BY <1>1, PlainPinned
  <1>2. CASE e.args[i].type \in ImmTypes
    <2>1. i \in 1..4 /\ s \in Int /\ s >= -8 /\ dest.args[i].size > 0
          /\ dest.args[i].type # "void"
      <3>1. dest.args[i].size = SizeIn(dsz, dest, s) /\ dest.args[i].size > 0
        BY SizedOperand, OperandIs
      <3>2. s \in Int
        BY SizedOperand
      <3>3. QED
        BY <3>1, <3>2, SizedOperand DEF SizeIn
    <2>2. e.args[i].value # RegOrMem
      BY <1>2, <2>1, MemoryWasRegister DEF ImmTypes, RegTypes
    <2>3. dest.args[i].type \in ImmTypes /\ ~MayBeAddress(e.args[i])
      <3>1. dest.args[i].type = e.args[i].type
        BY <2>2, SizedOperand
      <3>2. QED
        BY <1>2, <2>2, <3>1 DEF MayBeAddress, ImmTypes
    <2>4. i \in PrintedOperands /\ ShowsSize(e, Handler, i)
          /\ Handler \notin {"cmpxchgxb", "divb", "idivb", "imulb", "mulb"}
      BY ShownOperand
    <2>5. Told(i) = ImmSizeWord(i)
      BY <2>3, <2>4, ToldIs
    <2>6. SizeOf(dest.osz) > 0
      BY FirstKnown, SizesWith
    <2>7. \/ Handler \in {"callfd", "jmpfd"} /\ s = -1
          \/ /\ Handler \notin {"callfd", "jmpfd"}
             /\ \/ \E j \in 1..4 : /\ Alike(e, i, j)
                                   /\ e.args[j].type = "reg_gr" /\ e.args[j].size = -1
                \/ /\ s = -1 /\ "sx_byte" \notin e.etags
                   /\ Handler \notin {"cmpxchgxb", "in", "out"}
                   /\ e.proto[i] < 0 /\ \A j \in 1..4 : ~Alike(e, i, j)
      BY <1>2, <2>1, <2>3, <2>4, ImmShows
    <2>8. CASE Handler \in {"callfd", "jmpfd"}
      <3>1. ImmSizeWord(i) = SizeOf(dest.osz)
        BY <2>8 DEF ImmSizeWord
      <3>2. QED
        BY <2>5, <2>6, <3>1, ToldPins
    <2>9. CASE \E j \in 1..4 : /\ Alike(e, i, j)
                               /\ e.args[j].type = "reg_gr" /\ e.args[j].size = -1
      <3>1. PICK j \in 1..4 : e.args[j].type = "reg_gr" /\ e.args[j].size = -1
        BY <2>9
      <3>2. j \in Sized
        BY <3>1 DEF Sized, SizedBy, osz_sensitive
      <3>3. SizeWith(-1, r) = SizeWith(-1, dest.osz)
        BY <3>1, <3>2, PlainPinned DEF ImmTypes
      <3>4. r = dest.osz
        BY <3>3, FirstKnown, SizesWith
      <3>5. QED
        BY <3>4
    <2>10. CASE /\ s = -1 /\ "sx_byte" \notin e.etags
                /\ Handler \notin {"cmpxchgxb", "in", "out", "callfd", "jmpfd"}
                /\ e.proto[i] < 0 /\ \A j \in 1..4 : ~Alike(e, i, j)
      <3>1. \A j \in 1..4 : ~Sizes(i, j)
        BY <2>1, <2>10, SizesAlike
      <3>2. NeedSize(i)
        BY <2>10, <3>1 DEF NeedSize
      <3>3. ~dest.sx
        BY <2>10, FirstKnown DEF DecodedFirst, AllSourced, Encoding
      <3>4. ImmSizeWord(i) # 0
        BY <2>1, <2>3, <2>6, <2>10, <3>2, <3>3, ImmWordSize
      <3>5. QED
        BY <2>5, <3>4, ToldPins
    <2>11. QED
      BY <2>7, <2>8, <2>9, <2>10
  <1>3. QED
    BY <1>1, <1>2

-----------------------------------------------------------------------------
(* What the text can be taken for *)

\* The operand sizes that agree with what is told include the one that is meant,
\* and none of them makes an operand differ from it.
LEMMA FittingIs ==
  ASSUME FirstReturned, NEW told, told = [i \in Sized |-> Told(i)],
         Fitting(told) = Readings, SameOperation(dest.osz, dest.osz),
         \/ /\ \A i \in Sized : Told(i) = 0
            /\ \/ SizeNotShown \/ dest.osz = OwnSize \/ SameOperation(OwnSize, dest.osz)
         \/ /\ Sized # {} /\ Handler \notin WideInsns
            /\ Agrees(dest.osz)
            /\ (\A i \in Sized : Told(i) = 0) => SameSizes(OwnSize, dest.osz)
            /\ \A r \in 0..2 : Agrees(r) => SameSizes(r, dest.osz)
  PROVE  ReadAs(OperandSizeMeant, Readings)
  <1>1. dest.osz = OperandSizeMeant /\ dest.osz \in 0..2
    BY FirstKnown
  <1>2. \A i \in Sized : told[i] = Told(i)
    OBVIOUS
  <1> HIDE DEF Readings
  <1>3. CASE \A i \in Sized : Told(i) = 0
    <2>1. Readings = {OwnSize}
      BY <1>2, <1>3 DEF Fitting
    <2>2. \/ SizeNotShown \/ dest.osz = OwnSize \/ SameOperation(OwnSize, dest.osz)
      BY <1>3 DEF SameOperation, SameSizes
    <2>3. QED
      BY <1>1, <2>1, <2>2 DEF ReadAs
  <1>4. CASE ~\A i \in Sized : Told(i) = 0
    <2>1. Readings = {r \in 0..2 : Agrees(r)}
      <3>1. Readings = {r \in 0..2 : \A i \in Sized :
                          told[i] \in {0, SizeWith(Encoding.args[i].size, r)}}
        BY <1>2, <1>4 DEF Fitting
      <3>2. \A r : Agrees(r) <=> \A i \in Sized :
                          told[i] \in {0, SizeWith(Encoding.args[i].size, r)}
        BY <1>2 DEF Agrees
      <3>3. QED
        BY <3>1, <3>2
    <2>2. /\ Sized # {} /\ Handler \notin WideInsns /\ Agrees(dest.osz)
          /\ \A r \in 0..2 : Agrees(r) => SameSizes(r, dest.osz)
      BY <1>4
    <2>3. ASSUME NEW r \in Readings PROVE SameOperation(r, dest.osz)
      <3>1. SameSizes(r, dest.osz)
        BY <2>1, <2>2
      <3>2. QED
        BY <2>2, <3>1 DEF SameOperation, SameSizes
    <2>4. dest.osz \in Readings
      BY <1>1, <2>1, <2>2
    <2>5. QED
      BY <1>1, <2>3, <2>4 DEF ReadAs
  <1>5. QED
    BY <1>3, <1>4

\* The text shows the size by a word in front or by the mnemonic.
SizeNamed ==
  OperandSizeWord # NoSize \/ Handler \in SizedByName

\* Then it is the one that is meant, or as good.
LEMMA NamedSizeRead ==
  ASSUME FirstReturned, SizeNamed
  PROVE  ReadAs(OperandSizeMeant, Readings)
  <1> DEFINE o == dest.osz
             R == Readings
  <1>1. o = OperandSizeMeant /\ o \in 0..2 /\ o # NoSize
    BY FirstKnown DEF NoSize
  <1>2. SameOperation(o, o)
    BY DEF SameOperation
  <1>3. SUFFICES /\ R # {}
                 /\ \A r \in R : SameOperation(r, o)
    BY <1>1 DEF ReadAs
  <1>4. CASE OperandSizeWord # NoSize
    <2>1. OperandSizeWord = o
      BY <1>4 DEF OperandSizeWord, maybe_write_oxx, write_stack_oxx, write_xlat_oxx, write_jrcxz_oxx
    <2>2. Handler \notin SizedByName
      BY <1>4 DEF OperandSizeWord, SizedByName, StringInsns, WideInsns, Suffixed, Extending,
                  StackInsns
    <2>3. R = {o}
      <3>1. OperandSizeName = NoSize /\ SizeSuffix = 0
        BY <2>2 DEF OperandSizeName, SizeSuffix, SizedByName, StringInsns
      <3>2. QED
        BY <1>4, <2>1, <2>2, <3>1 DEF Readings, SizedByName
    <2>4. QED
      BY <1>2, <2>3
  <1>5. CASE OperandSizeWord = NoSize /\ Handler \in Extending
    <2>1. OperandSizeName = o
      BY <1>5 DEF OperandSizeName
    <2>2. R = {o}
      <3>1. Handler \notin WideInsns \cup StringInsns \cup Suffixed
        BY <1>5 DEF Extending, WideInsns, StringInsns, Suffixed
      <3>2. SizeSuffix = 0
        BY <3>1 DEF SizeSuffix, StringInsns
      <3>3. QED
        BY <1>1, <1>5, <2>1, <3>1, <3>2 DEF Readings
    <2>3. QED
      BY <1>2, <2>2
  <1>6. CASE OperandSizeWord = NoSize /\ Handler \in WideInsns
    <2>1. OperandSizeName = NoSize
      BY <1>6 DEF OperandSizeName, WideInsns, Extending
    <2>2. R = IF o = 2 THEN {2} ELSE {0, 1}
      <3>1. R = IF WideName THEN {2} ELSE {0, 1}
        <4>1. Handler \notin StringInsns
          BY <1>6 DEF WideInsns, StringInsns
        <4>2. SizeSuffix = 0
          BY <1>6, <4>1 DEF SizeSuffix, Suffixed, WideInsns
        <4>3. QED
          BY <1>6, <2>1, <4>1, <4>2 DEF Readings
      <3>2. QED
        BY <1>6, <3>1 DEF WideName
    <2> HIDE DEF R
    <2>3. \A r \in R : (r = 2) <=> (o = 2)
      BY <1>1, <2>2
    <2>4. \A r \in R : SameOperation(r, o)
      <3>1. ASSUME NEW r \in R PROVE SameOperation(r, o)
        <4>1. (r = 2) = (o = 2)
          BY <2>3
        <4>2. QED
          BY <1>6, <4>1, Zenon DEF SameOperation
      <3>2. QED
        BY <3>1
    <2>5. QED
      BY <2>2, <2>4
  <1>7. CASE OperandSizeWord = NoSize /\ Handler \in StringInsns
    <2> DEFINE m == IF Handler = "outs" THEN 2 ELSE 1
               s == Encoding.args[m].size
    <2>1. /\ Handler \notin WideInsns \cup Extending \cup Suffixed /\ m \in 1..4
          /\ OperandSizeName = NoSize
      BY <1>7 DEF StringInsns, WideInsns, Extending, Suffixed, OperandSizeName
    <2>2. /\ Encoding.args[m].type # "void" /\ s # -2
          /\ \A i \in Sized : Encoding.args[i].size = s
      BY <1>7, SizedBySaid
    <2>3. SizeSuffix = dest.args[m].size
      BY <1>7, <2>1 DEF SizeSuffix
    <2>4. dest.args[m].size = SizeWith(s, o)
      <3>1. dest.args[m].type # "void"
        BY <2>1, <2>2, OperandThere
      <3>2. dest.args[m].size = SizeIn(dsz, dest, s) /\ dest.args[m].size > 0
            /\ Encoding.args[m] \in Args
        BY <2>1, <3>1, OperandIs
      <3>3. s \in Int
        BY <3>2 DEF Args
      <3>4. QED
        BY <1>1, <2>2, <3>2, <3>3, SizeWithIs
    <2>5. R = {r \in 0..2 : SizeWith(s, r) = SizeSuffix}
      BY <1>7, <2>1 DEF Readings
    <2> HIDE DEF R, m
    <2>6. o \in R
      BY <1>1, <2>3, <2>4, <2>5
    <2>7. ASSUME NEW r \in R PROVE SameOperation(r, o)
      <3>1. SizeWith(s, r) = SizeWith(s, o)
        BY <2>3, <2>4, <2>5
      <3>2. \A i \in Sized : SizeWith(Encoding.args[i].size, r) = SizeWith(Encoding.args[i].size, o)
        BY <2>2, <3>1
      <3>3. QED
        BY <1>7, <2>1, <3>2 DEF SameOperation
    <2>8. QED
      BY <2>6, <2>7
  <1>8. CASE OperandSizeWord = NoSize /\ Handler \in Suffixed
    <2>1. /\ Handler \notin WideInsns \cup Extending \cup StringInsns
          /\ OperandSizeName = NoSize
      BY <1>8 DEF StringInsns, WideInsns, Extending, Suffixed, OperandSizeName
    <2>2. SizeSuffix = SizeOf(o) /\ SizeOf(o) > 0
      <3>1. SizeSuffix = SizeOf(o)
        BY <1>8, <2>1 DEF SizeSuffix, StringInsns
      <3>2. QED
        BY <1>1, <3>1, FirstKnown, SizesWith
    <2>3. R = {r \in 0..2 : SizeOf(r) = SizeOf(o)}
      BY <1>8, <2>1, <2>2 DEF Readings
    <2> HIDE DEF R
    <2>4. R = {o}
      BY <1>1, <2>3, FirstKnown, SizesWith
    <2>5. QED
      BY <1>2, <2>4
  <1>9. QED
    BY <1>4, <1>5, <1>6, <1>7, <1>8 DEF SizeNamed, SizedByName

\* Otherwise the operands show it.
LEMMA UnnamedFits ==
  ASSUME FirstReturned, ~SizeNamed
  PROVE  /\ Readings = Fitting([i \in Sized |-> Told(i)])
         /\ OperandSizeWord = NoSize /\ Handler \notin SizedByName
         /\ SameOperation(dest.osz, dest.osz)
  <1>1. OperandSizeWord = NoSize /\ Handler \notin SizedByName
    BY DEF SizeNamed
  <1>2. OperandSizeName = NoSize /\ SizeSuffix = 0
    BY <1>1 DEF OperandSizeName, SizeSuffix, SizedByName, StringInsns
  <1>3. Handler \notin WideInsns \cup StringInsns
    BY <1>1 DEF SizedByName
  <1>4. Readings = Fitting([i \in Sized |-> Told(i)])
    BY <1>1, <1>2, <1>3 DEF Readings
  <1>5. SameOperation(dest.osz, dest.osz)
    BY DEF SameOperation
  <1>6. QED
    BY <1>1, <1>4, <1>5

\* Without an operand of that size there is only one, or the mnemonic says that
\* it does not matter; a return does not show it.
LEMMA UnsizedRead ==
  ASSUME FirstReturned, ~SizeNamed, Sized = {}
  PROVE  SizeNotShown \/ dest.osz = OwnSize \/ SameOperation(OwnSize, dest.osz)
  <1>1. OperandSizeWord = NoSize /\ Handler \notin SizedByName
    BY UnnamedFits
  <1>2. \/ Encoding.op66 # 0 \/ Handler = "none"
        \/ Handler \in StackInsns \cup {"xlat"} \cup OneSize \cup Returns
    BY <1>1, SizedBySaid
  <1>3. Handler \notin WideInsns
    BY <1>1 DEF SizedByName
  <1>4. CASE Encoding.op66 # 0 \/ Handler \in OneSize
    BY <1>3, <1>4 DEF SameOperation
  <1>5. CASE Handler = "none" /\ Encoding.op66 = 0
    BY <1>1, <1>5, PlainSize
  <1>6. CASE Handler = "xlat"
    BY <1>1, <1>6, PlainSize
  <1>7. CASE Handler \in StackInsns
    BY <1>1, <1>7, StackSize
  <1>8. CASE Handler \in Returns
    BY <1>8 DEF SizeNotShown
  <1>9. QED
    BY <1>2, <1>4, <1>5, <1>6, <1>7, <1>8

\* A jump shows no size of its target, which depends on the operand size only
\* outside 64-bit mode.
LEMMA JumpRead ==
  ASSUME FirstReturned, ~SizeNamed, Relative
  PROVE  /\ \A i \in Sized : Told(i) = 0
         /\ SizeNotShown \/ dest.osz = OwnSize \/ SameOperation(OwnSize, dest.osz)
  <1>1. OperandSizeWord = NoSize /\ Handler \notin SizedByName
    BY UnnamedFits
  <1>2. Sized = {1} /\ Encoding.args[1].type \in ImmTypes /\ Handler \notin {"callfd", "jmpfd"}
    BY SizedBySaid DEF Relative
  <1>3. Encoding.args[1].size = -8 /\ "imm64_sx32" \in Encoding.etags
    <2> DEFINE e == Encoding
    <2>1. e \in {Encodings[x] : x \in DOMAIN Encodings} /\ "relative" \in e.etags
      BY FirstKnown DEF Encoding, Relative
    <2> HIDE DEF e
    <2>2. \A i \in 1..4 : e.args[i].type \in ImmTypes =>
            ("relative" \in e.etags => e.args[i].size = -8 /\ "imm64_sx32" \in e.etags)
      BY <2>1, NumbersAssumption, Zenon
    <2>3. QED
      BY <1>2, <2>1, <2>2 DEF e
  <1>4. dest.args[1].type \in ImmTypes
    <2>1. 1 \in Sized
      BY <1>2
    <2>2. Encoding.args[1].value # RegOrMem
      BY <1>2, MemoryWasRegister DEF ImmTypes, RegTypes
    <2>3. QED
      BY <1>2, <2>1, <2>2, SizedOperand
  <1>5. Told(1) = 0
    <2>1. ImmSizeWord(1) = 0
      BY <1>2, <1>3, <1>4, ImmWordSize
    <2>2. CASE 1 \in PrintedOperands
      BY <1>4, <2>1, <2>2, ToldIs
    <2>3. CASE 1 \notin PrintedOperands
      BY <2>3 DEF Told
    <2>4. QED
      BY <2>2, <2>3
  <1>6. CASE dsz = 2
    <2>1. OwnSize \in 0..2 /\ dest.osz \in 0..2
      BY <1>6, FirstKnown DEF OwnSize
    <2>2. \A r \in 0..2 : SizeWith(-8, r) = 8
      BY <1>6, SizesWith
    <2>3. \A i \in Sized : SizeWith(Encoding.args[i].size, OwnSize)
                             = SizeWith(Encoding.args[i].size, dest.osz)
      BY <1>2, <1>3, <2>1, <2>2
    <2>4. Handler \notin WideInsns
      BY <1>1 DEF SizedByName
    <2>5. QED
      BY <1>2, <1>5, <2>3, <2>4 DEF SameOperation
  <1>7. CASE dsz # 2 /\ Handler # "jrcxz"
    BY <1>2, <1>5, <1>7 DEF SizeNotShown
  <1>8. CASE dsz # 2 /\ Handler = "jrcxz"
    BY <1>1, <1>2, <1>5, <1>8, JrcxzSize
  <1>9. QED
    BY <1>6, <1>7, <1>8

\* A push or a pop that names no size has its own, and shows none that differs.
LEMMA StackRead ==
  ASSUME FirstReturned, ~SizeNamed, Handler \in StackInsns
  PROVE  dest.osz = OwnSize /\ Agrees(dest.osz)
         /\ \A r \in 0..2 : (Agrees(r) /\ ~\A i \in Sized : Told(i) = 0) => SameSizes(r, dest.osz)
  <1> DEFINE o == dest.osz
             a == dest.args[1]
             s == Encoding.args[1].size
  <1>1. OperandSizeWord = NoSize
    BY UnnamedFits
  <1>2. o = OwnSize /\ (dsz = 2 => o = 2) /\ o \in 0..2
    BY <1>1, StackSize, FirstKnown
  <1>3. Sized \subseteq {1} /\ (Encoding.args[1].type \in ImmTypes => s \in {-1, -8})
    BY SizedBySaid
  <1>4. ASSUME 1 \in Sized PROVE Told(1) \in {0, SizeWith(s, o)}
    <2>1. a.size = SizeWith(s, o)
      BY <1>4, SizedOperand
    <2>2. CASE a.type \in ImmTypes
      <3>1. s \in {-1, -8}
        <4>1. a.type = Encoding.args[1].type
          BY <1>4, <2>2, SizedOperand DEF ImmTypes
        <4>2. QED
          BY <1>3, <2>2, <4>1
      <3>2. SizeWith(s, o) = SizeOf(o)
        <4>1. CASE s = -1
          BY <1>2, <4>1, FirstKnown, SizesWith
        <4>2. CASE s = -8
          BY <1>2, <4>2, FirstKnown, SizesWith DEF SizeOf
        <4>3. QED
          BY <3>1, <4>1, <4>2
      <3>3. ImmSizeWord(1) \in {0, a.size, SizeOf(o)}
        <4>1. Handler \notin {"callfd", "jmpfd"}
          BY DEF StackInsns
        <4>2. QED
          BY <1>4, <2>2, <4>1, ImmWordSize
      <3>4. Told(1) \in {0, ImmSizeWord(1)}
        BY <2>2, ToldIs DEF Told
      <3>5. QED
        BY <2>1, <3>2, <3>3, <3>4
    <2>3. CASE a.type \notin ImmTypes
      <3>1. Told(1) \in {0, a.size}
        <4>1. CASE 1 \notin PrintedOperands
          BY <4>1 DEF Told
        <4>2. CASE 1 \in PrintedOperands /\ a.type = "reg_gr"
          BY <4>2, ToldIs
        <4>3. CASE 1 \in PrintedOperands /\ a.type # "reg_gr" /\ 1 \in Addressed
          BY <2>3, <4>3, ToldIs DEF SizeKeyword
        <4>4. CASE 1 \in PrintedOperands /\ a.type # "reg_gr" /\ 1 \notin Addressed
          BY <2>3, <4>4 DEF Told
        <4>5. QED
          BY <4>1, <4>2, <4>3, <4>4
      <3>2. QED
        BY <2>1, <3>1
    <2>4. QED
      BY <2>2, <2>3
  <1>5. Agrees(o)
    BY <1>3, <1>4 DEF Agrees
  <1>6. ASSUME NEW r \in 0..2, Agrees(r), ~\A i \in Sized : Told(i) = 0
        PROVE  SameSizes(r, o)
    <2>1. 1 \in Sized /\ Told(1) # 0
      BY <1>3, <1>6
    <2>2. Told(1) = SizeWith(s, o) /\ Told(1) = SizeWith(s, r)
      BY <1>4, <1>6, <2>1 DEF Agrees
    <2>3. QED
      BY <1>3, <2>2 DEF SameSizes
  <1>7. QED
    BY <1>2, <1>5, <1>6

\* The operand size that is meant can be told from the text.
LEMMA SizeRead ==
  ASSUME FirstReturned
  PROVE  ReadAs(OperandSizeMeant, Readings)
  <1> DEFINE told == [i \in Sized |-> Told(i)]
  <1>1. CASE SizeNamed
    BY <1>1, NamedSizeRead
  <1>2. CASE ~SizeNamed
    <2>1. /\ Readings = Fitting(told)
          /\ OperandSizeWord = NoSize /\ Handler \notin SizedByName
          /\ SameOperation(dest.osz, dest.osz)
      BY <1>2, UnnamedFits
    <2>2. Handler \notin WideInsns
      BY <2>1 DEF SizedByName
    <2> HIDE DEF told
    <2>3. CASE Sized = {}
      BY <1>2, <2>1, <2>3, UnsizedRead, FittingIs DEF told
    <2>4. CASE Relative
      BY <1>2, <2>1, <2>4, JumpRead, FittingIs DEF told
    <2>5. CASE Sized # {} /\ Handler \in StackInsns
      <3>1. /\ dest.osz = OwnSize /\ Agrees(dest.osz)
            /\ \A r \in 0..2 : (Agrees(r) /\ ~\A i \in Sized : Told(i) = 0)
                                 => SameSizes(r, dest.osz)
        BY <1>2, <2>5, StackRead
      <3>2. CASE \A i \in Sized : Told(i) = 0
        BY <2>1, <3>1, <3>2, FittingIs DEF told
      <3>3. CASE ~\A i \in Sized : Told(i) = 0
        <4>1. \A r \in 0..2 : Agrees(r) => SameSizes(r, dest.osz)
          BY <3>1, <3>3
        <4>2. (\A i \in Sized : Told(i) = 0) => SameSizes(OwnSize, dest.osz)
          BY <3>3
        <4>3. QED
          BY <2>1, <2>2, <2>5, <3>1, <4>1, <4>2, FittingIs DEF told
      <3>4. QED
        BY <3>2, <3>3
    <2>6. CASE IsNop
      <3>1. \A i \in Sized : Told(i) = 0
        <4>1. PrintedOperands = {}
          <5>1. Handler = "xchg"
            BY <2>6 DEF IsNop
          <5>2. Handler \notin OneOperand
            BY <5>1 DEF OneOperand, ShortJumps
          <5>3. QED
            BY <2>6, <5>2 DEF PrintedOperands
        <4>2. QED
          BY <4>1 DEF Told
      <3>2. SameOperation(OwnSize, dest.osz)
        BY <2>6 DEF SameOperation
      <3>3. QED
        BY <2>1, <3>1, <3>2, FittingIs DEF told
    <2>7. CASE Sized # {} /\ ~Relative /\ Handler \notin StackInsns /\ ~IsNop
      <3>1. ByOperands
        BY <2>1, <2>7 DEF ByOperands
      <3>2. Agrees(dest.osz)
        BY <3>1, ToldRight, SizedOperand DEF Agrees
      <3>3. \A r \in 0..2 : Agrees(r) => SameSizes(r, dest.osz)
        BY <3>1, OperandPinned DEF SameSizes
      <3>4. (\A i \in Sized : Told(i) = 0) => SameSizes(OwnSize, dest.osz)
        <4>1. OwnSize \in 0..2
          BY FirstKnown DEF OwnSize
        <4>2. (\A i \in Sized : Told(i) = 0) => Agrees(OwnSize)
          BY DEF Agrees
        <4>3. QED
          BY <3>3, <4>1, <4>2
      <3>5. QED
        BY <2>1, <2>2, <2>7, <3>2, <3>3, <3>4, FittingIs DEF told
    <2>8. QED
      BY <2>3, <2>4, <2>5, <2>6, <2>7
  <1>3. QED
    BY <1>1, <1>2

\* What is known of a decoded instruction is all that the words rely on.
LEMMA WordsReturned ==
  Inv /\ Attempts /\ ReadSoFar /\ SourcedSoFar /\ NamedSoFar /\ WordsSoFar => WordsReadBack
  <1> SUFFICES ASSUME FirstReturned PROVE WordsReadBack
    BY DEF FirstReturned, WordsReadBack
  <1> DEFINE rep == LockRep(FirstPrefix, LastPrefix)
  <1>1. ReadAs(OperandSizeMeant, Readings)
    BY SizeRead
  <1>2. IF Handler \in {"cmps", "scas"}
        THEN (CASE RepWord = "repnz" -> 2 [] RepWord = "repz" -> 3 [] OTHER -> 0) = rep
        ELSE Handler \in StringInsns => (RepWord = "rep") = (rep \in {2, 3})
    BY RepeatTold
  <1>3. (Addressed # {} \/ Handler \in {"cmps", "lods", "movs", "outs", "xlat"}) =>
          SegmentRead = LastSeg(FirstPrefix, LastPrefix)
    BY SegmentTold
  <1>4. LockWord = Prefixed({LOCK})
    BY LockAndSegment
  <1>5. FwaitWord = CASE "fwaitable" \notin Encoding.itags -> ""
                      [] "fwaitable" \in Encoding.itags /\ FwaitAt >= 0 -> "f"
                      [] OTHER -> "fn"
    BY FwaitTold
  <1>6. Handler = "jrcxz" => AddressSizeName = AddressSizeMeant
    BY FirstKnown DEF AddressSizeName
  <1>7. IsNop => RegisterMeant(1) = RegisterMeant(2)
    BY NopSame
  <1>8. (Handler = "aam" /\ PrintedOperands = {}) => ImmMeaning(1, Zero) = Small(10)
    BY TenLeftOut
  <1>9. \A i \in Operands({"imm_1st"}) \cap PrintedOperands :
          (dest.args[i].size > 1 /\ FirstImmEnd - state.imm1_offset = 1)
            = (ImmFormWord \in {"short", "byte"} \/ Handler \in ShortJumps)
    BY FormTold
  <1>10. \A i \in Operands({"mem_ea_seg"}) :
           "ctrlxfer" \in Encoding.itags => PointerWord(i) = "far"
    BY FarTold
  <1>11. QED
    BY <1>1, <1>2, <1>3, <1>4, <1>5, <1>6, <1>7, <1>8, <1>9, <1>10, Zenon DEF WordsReadBack

\* The prefixes of an instruction, and the sizes of its operands, can be told
\* from the words that x86core/ixdisasm.c prints.
THEOREM WordsAlwaysReadBack == Spec => []WordsReadBack
BY WordsAlways, WordsReturned, PTL
=============================================================================
