-------------------------- MODULE Ixdecoder_proofs -------------------------
(***************************************************************************)
(* Proofs about the decoder, for every decoder table that satisfies        *)
(* the assumptions of Ixdecoder and for every buffer.                      *)
(***************************************************************************)
EXTENDS IxdecoderProps, TLAPS

-----------------------------------------------------------------------------
(* Positions in the buffer *)

\* A fetcher that knows where the buffer ends.
Within(f) == /\ f \in [left : Nat, next : Nat]
             /\ f.left + f.next = num_bytes

\* crudasm_intel_decode never looks at more bytes than the buffer has.
LEMMA NumBytes == buf \in Seq(Byte) => num_bytes \in Nat /\ num_bytes <= Len(buf)
BY BytesAssumption DEF num_bytes

\* The moves of a fetcher keep it within the buffer.
LEMMA FetcherMoves ==
  ASSUME buf \in Seq(Byte), NEW f, Within(f)
  PROVE  /\ \A n \in Nat : Has(f, n) => /\ Within(Advance(f, n))
                                        /\ Advance(f, n).next = f.next + n
         /\ Within(Drained(f)) /\ Drained(f).next >= f.next
         /\ f.next > 0 => Within(GoBack(f))
         /\ Has(f, 1) => At(f) \in Byte
  <1>1. /\ f.left \in Nat /\ f.next \in Nat /\ f = [left |-> f.left, next |-> f.next]
        /\ num_bytes \in Nat /\ num_bytes <= Len(buf) /\ Len(buf) \in Nat
    BY NumBytes DEF Within
  <1>2. ASSUME NEW n \in Nat, Has(f, n)
        PROVE  Within(Advance(f, n)) /\ Advance(f, n).next = f.next + n
    BY <1>1, <1>2 DEF Within, Advance, Has
  <1>3. Within(Drained(f)) /\ Drained(f).next >= f.next
    BY <1>1, <1>2 DEF Drained, Has, Advance, Within
  <1>4. f.next > 0 => Within(GoBack(f))
    BY <1>1 DEF GoBack, Within
  <1>5. Has(f, 1) => At(f) \in Byte
    <2>1. Has(f, 1) => f.next + 1 \in 1..Len(buf)
      BY <1>1 DEF Has, Within
    <2>2. QED
      BY <2>1 DEF At
  <1>6. QED
    BY <1>2, <1>3, <1>4, <1>5

\* The displacement that an addressing form asks for.
LEMMA DisplacementSize ==
  ASSUME NEW ea, NEW c, NEW sib, NEW d, NEW a, NEW x, NEW b
  PROVE  decode_modrm(ea, c, sib, d, a, x, b).disp \in {0, 1, 2, 4}
  <1>1. decode_modrm_16(ea, c).disp \in {0, 1, 2, 4}
    BY DEF decode_modrm_16, ModDisp
  <1>2. \A m : decode_modrm_32(ea, c, sib, m, x).disp \in {0, 1, 2, 4}
    BY DEF decode_modrm_32, ModDisp
  <1>3. decode_modrm_64(ea, c, sib, x, b).disp \in {0, 1, 2, 4}
    <2>1. decode_modrm_64(ea, c, sib, x, b).disp
            = decode_modrm_32(ea, c, sib, TRUE, x).disp
      BY DEF decode_modrm_64, decode_modrm_32
    <2>2. QED
      BY <1>2, <2>1
  <1>4. QED
    BY <1>1, <1>2, <1>3 DEF decode_modrm

\* Reading a ModRM byte and what follows it leaves the fetcher in the buffer,
\* behind the ModRM byte if there was one.
LEMMA GetModrmWithin ==
  ASSUME buf \in Seq(Byte), NEW f, Within(f), NEW ic, NEW st
  PROVE  /\ Within(get_modrm(f, ic, st).f)
         /\ get_modrm(f, ic, st).f.next >= f.next
  <1> DEFINE header == ModrmHeader(f, ic.asz)
             after == Advance(f, header)
             sib == IF HasSib(At(f), dsz, ic.asz) THEN buf[f.next + 2] ELSE 0
             disp == decode_modrm(ic.ea, At(f), sib, dsz, ic.asz, p.rex_x,
                                  p.rex_b).disp
  <1>1. get_modrm(f, ic, st).f = ModrmFetcher(f, ic.asz, disp)
    BY DEF get_modrm
  <1>2. header \in {1, 2} /\ disp \in {0, 1, 2, 4}
    BY DisplacementSize DEF ModrmHeader
  <1> HIDE DEF header, disp
  <1>3. Has(f, 1) => Within(Advance(f, 1)) /\ Advance(f, 1).next >= f.next
    <2>1. Has(f, 1) => Within(Advance(f, 1)) /\ Advance(f, 1).next = f.next + 1
      BY FetcherMoves
    <2>2. QED
      BY <2>1 DEF Within
  <1>4. Has(f, header) => Within(after) /\ after.next >= f.next
    <2>1. header \in Nat
      BY <1>2
    <2>2. Has(f, header) => Within(after) /\ after.next = f.next + header
      BY <2>1, FetcherMoves
    <2>3. QED
      BY <2>1, <2>2 DEF Within
  <1>5. ASSUME Within(after)
        PROVE  Within(Drained(after)) /\ Drained(after).next >= after.next
    <2> HIDE DEF after
    <2>1. QED
      BY <1>5, FetcherMoves
  <1>6. ASSUME Within(after), Has(after, disp)
        PROVE  Within(Advance(after, disp)) /\ Advance(after, disp).next >= after.next
    <2> HIDE DEF after
    <2>1. disp \in Nat
      BY <1>2
    <2>2. Within(Advance(after, disp)) /\ Advance(after, disp).next = after.next + disp
      BY <1>6, <2>1, FetcherMoves
    <2>3. QED
      BY <1>6, <2>1, <2>2 DEF Within
  <1>7. CASE ModrmStage(f, ic.asz) = "none"
    BY <1>1, <1>7 DEF ModrmFetcher, Within
  <1>8. CASE ModrmStage(f, ic.asz) = "byte"
    BY <1>1, <1>3, <1>8 DEF ModrmFetcher, ModrmStage
  <1>9. CASE ModrmStage(f, ic.asz) = "address"
    <2>1. Has(f, header)
      BY <1>9 DEF ModrmStage, header
    <2>2. ModrmFetcher(f, ic.asz, disp)
            = IF Has(after, disp) THEN Advance(after, disp) ELSE Drained(after)
      BY <1>9 DEF ModrmFetcher, header
    <2> HIDE DEF after
    <2>3. Within(after) /\ after.next >= f.next
      BY <1>4, <2>1
    <2>4. f.next \in Nat /\ after.next \in Nat
      BY <2>3 DEF Within
    <2>5. CASE Has(after, disp)
      <3>1. Within(Advance(after, disp)) /\ Advance(after, disp).next >= after.next
        BY <1>6, <2>3, <2>5
      <3>2. QED
        BY <1>1, <2>2, <2>3, <2>4, <2>5, <3>1 DEF Within
    <2>6. CASE ~Has(after, disp)
      <3>1. Within(Drained(after)) /\ Drained(after).next >= after.next
        BY <1>5, <2>3
      <3>2. QED
        BY <1>1, <2>2, <2>3, <2>4, <2>6, <3>1 DEF Within
    <2>7. QED
      BY <2>5, <2>6
  <1>10. QED
    BY <1>7, <1>8, <1>9 DEF ModrmStage

-----------------------------------------------------------------------------
(* The inductive invariant *)

\* Where the fetchers are, and what the flags say about that.
Positions ==
  /\ Within(fetcher) /\ Within(fetcher_copy)
  /\ got_fwait => fetcher.next > 0
  /\ p.wait_used => got_fwait
  /\ attempt = 2 => got_fwait
  /\ pc = "walk" => node = Root \/ fetcher_copy.next > 0
  /\ pc = "args" => fetcher_copy.next > 0
  /\ pc \in {"judge", "done"} /\ status = "" => state.insn_size \in 1..num_bytes
  /\ pc = "done" /\ status = "" => got_fwait \/ state.insn_size <= MaxInsn

Inv == TypeOK /\ Positions

\* A prefix changes the prefix state and nothing about FWAIT.
LEMMA AddPrefixType ==
  ASSUME NEW q \in Prefixes, NEW c \in Byte, IsPrefix(c)
  PROVE  AddPrefix(q, c) \in Prefixes /\ AddPrefix(q, c).wait_used = q.wait_used
  <1>1. SegOf(c) \in 0..7 /\ c % 4 \in 0..3
    BY DEF SegOf, RegField, Byte
  <1>2. CASE IsSegPrefix(c)
    <2>1. AddPrefix(q, c) = [q EXCEPT !.sreg = SegOf(c)]
      BY <1>2 DEF AddPrefix, IsRep, IsSegPrefix, OP66, OP67, LOCK
    <2>2. QED
      BY <1>1, <2>1 DEF Prefixes
  <1>3. CASE c = OP66
    <2>1. AddPrefix(q, c) = [q EXCEPT !.op66 = TRUE]
      BY <1>3 DEF AddPrefix, IsRep, IsSegPrefix, OP66, OP67, LOCK
    <2>2. QED
      BY <2>1 DEF Prefixes
  <1>4. CASE c = OP67
    <2>1. AddPrefix(q, c) = [q EXCEPT !.op67 = TRUE]
      BY <1>4 DEF AddPrefix, IsRep, IsSegPrefix, OP66, OP67, LOCK
    <2>2. QED
      BY <2>1 DEF Prefixes
  <1>5. CASE c = LOCK
    <2>1. AddPrefix(q, c) = [q EXCEPT !.lockrep = 1]
      BY <1>5 DEF AddPrefix, IsRep, IsSegPrefix, OP66, OP67, LOCK
    <2>2. QED
      BY <2>1 DEF Prefixes
  <1>6. CASE IsRep(c)
    <2>1. AddPrefix(q, c) = [q EXCEPT !.lockrep = IF @ = 0 THEN c % 4 ELSE @]
      BY <1>6 DEF AddPrefix, IsRep, IsSegPrefix, OP66, OP67, LOCK
    <2>2. QED
      BY <1>1, <2>1 DEF Prefixes
  <1>7. QED
    BY <1>2, <1>3, <1>4, <1>5, <1>6 DEF IsPrefix

\* The position of a fetcher within the buffer is one of its type.
LEMMA WithinType ==
  ASSUME buf \in Seq(Byte), NEW f, Within(f)
  PROVE  /\ f \in [left : 0..MaxBytes, next : 0..MaxBytes]
         /\ f.left \in Nat /\ f.next \in 0..num_bytes
  <1>1. num_bytes \in Nat /\ num_bytes <= MaxBytes /\ MaxBytes \in Nat
    BY NumBytes, BytesAssumption DEF num_bytes
  <1>2. f = [left |-> f.left, next |-> f.next] /\ f.left \in Nat /\ f.next \in Nat
    BY DEF Within
  <1>3. QED
    BY <1>1, <1>2 DEF Within

\* Accepting a byte moves do_decode's fetcher on by one.
LEMMA Accepted ==
  ASSUME buf \in Seq(Byte), Within(fetcher), Has(fetcher, 1), Accept
  PROVE  Within(fetcher') /\ fetcher'.next > 0
  <1>1. Within(Advance(fetcher, 1)) /\ Advance(fetcher, 1).next = fetcher.next + 1
    BY FetcherMoves
  <1>2. QED
    BY <1>1 DEF Accept, Within

\* A legacy prefix is accepted and the invariant kept.
LEMMA TakePrefixStep == Inv /\ TakePrefix => Inv'
  <1> SUFFICES ASSUME Inv, TakePrefix PROVE Inv'
    OBVIOUS
  <1>0. buf \in Seq(Byte) /\ buf' = buf /\ num_bytes' = num_bytes
    BY DEF Inv, TypeOK, TakePrefix, inputs, num_bytes
  <1>1. p' \in Prefixes /\ p'.wait_used = p.wait_used
    BY FetcherMoves, AddPrefixType DEF Inv, Positions, TakePrefix, TypeOK
  <1>2. Within(fetcher') /\ fetcher'.next > 0
    BY <1>0, Accepted DEF Inv, Positions, TakePrefix
  <1>3. fetcher' \in [left : 0..MaxBytes, next : 0..MaxBytes]
    BY <1>0, <1>2, WithinType
  <1>4. TypeOK'
    BY <1>1, <1>3 DEF Inv, TypeOK, TakePrefix, inputs
  <1>5. Positions'
    BY <1>0, <1>1, <1>2 DEF Inv, TakePrefix, Positions, Within
  <1>6. QED
    BY <1>4, <1>5 DEF Inv

\* The buffer ends among the prefixes: an error, and nothing else changes.
LEMMA LimitExceededStep == Inv /\ LimitExceeded => Inv'
  <1> SUFFICES ASSUME Inv, LimitExceeded PROVE Inv'
    OBVIOUS
  <1>1. num_bytes' = num_bytes
    BY DEF LimitExceeded, inputs, num_bytes
  <1>2. TypeOK'
    BY DEF Inv, TypeOK, LimitExceeded, inputs, Messages
  <1>3. Positions'
    BY <1>1 DEF Inv, LimitExceeded, Positions, Within
  <1>4. QED
    BY <1>2, <1>3 DEF Inv

\* reset_prefix gives a prefix state.
LEMMA NoPrefixType == NoPrefix \in Prefixes /\ NoPrefix.wait_used = FALSE
BY DEF NoPrefix, Prefixes, NoSeg

\* The end of the legacy prefixes moves nothing.
LEMMA EndPrefixesStep == Inv /\ EndPrefixes => Inv'
  <1> SUFFICES ASSUME Inv, EndPrefixes PROVE Inv'
    OBVIOUS
  <1>1. num_bytes' = num_bytes
    BY DEF EndPrefixes, inputs, num_bytes
  <1>2. p' \in Prefixes /\ (p'.wait_used => got_fwait)
    BY NoPrefixType DEF Inv, TypeOK, Positions, EndPrefixes
  <1>3. TypeOK'
    BY <1>2 DEF Inv, TypeOK, EndPrefixes, inputs
  <1>4. Positions'
    BY <1>1, <1>2 DEF Inv, EndPrefixes, Positions, Within
  <1>5. QED
    BY <1>3, <1>4 DEF Inv

\* A REX prefix is accepted and its bits are kept.
LEMMA TakeRexStep == Inv /\ TakeRex => Inv'
  <1> SUFFICES ASSUME Inv, TakeRex PROVE Inv'
    OBVIOUS
  <1>0. buf \in Seq(Byte) /\ num_bytes' = num_bytes
    BY DEF Inv, TypeOK, TakeRex, inputs, num_bytes
  <1>1. p' \in Prefixes /\ p'.wait_used = p.wait_used
    <2> DEFINE c == At(fetcher)
    <2>1. c \in Byte
      BY <1>0, FetcherMoves DEF Inv, Positions, TakeRex, RexHere
    <2>2. /\ (c \div 8) % 2 \in 0..1 /\ (c \div 4) % 2 \in 0..1
          /\ (c \div 2) % 2 \in 0..1 /\ c % 2 \in 0..1
      BY <2>1 DEF Byte
    <2>3. QED
      BY <2>2 DEF Inv, TypeOK, TakeRex, Prefixes
  <1>2. Within(fetcher') /\ fetcher'.next > 0
    BY <1>0, Accepted DEF Inv, Positions, TakeRex, RexHere
  <1>3. fetcher' \in [left : 0..MaxBytes, next : 0..MaxBytes]
    BY <1>0, <1>2, WithinType
  <1>4. TypeOK'
    BY <1>1, <1>3 DEF Inv, TypeOK, TakeRex, inputs
  <1>5. Positions'
    BY <1>0, <1>1, <1>2 DEF Inv, TakeRex, Positions, Within
  <1>6. QED
    BY <1>4, <1>5 DEF Inv

\* Going on without a REX prefix moves nothing.
LEMMA NoRexStep == Inv /\ NoRex => Inv'
  <1> SUFFICES ASSUME Inv, NoRex PROVE Inv'
    OBVIOUS
  <1>1. num_bytes' = num_bytes
    BY DEF NoRex, inputs, num_bytes
  <1>2. QED
    BY <1>1 DEF Inv, TypeOK, NoRex, inputs, Positions, Within

\* An FWAIT is accepted: from here on got_fwait says that a byte was read.
LEMMA TakeFwaitStep == Inv /\ TakeFwait => Inv'
  <1> SUFFICES ASSUME Inv, TakeFwait PROVE Inv'
    OBVIOUS
  <1>0. buf \in Seq(Byte) /\ num_bytes' = num_bytes
    BY DEF Inv, TypeOK, TakeFwait, inputs, num_bytes
  <1>1. Within(fetcher') /\ fetcher'.next > 0
    BY <1>0, Accepted DEF Inv, Positions, TakeFwait, FwaitHere
  <1>2. fetcher' \in [left : 0..MaxBytes, next : 0..MaxBytes]
    BY <1>0, <1>1, WithinType
  <1>3. TypeOK'
    BY <1>2, NoPrefixType DEF Inv, TypeOK, TakeFwait, inputs
  <1>4. Positions'
    BY <1>0, <1>1, NoPrefixType DEF Inv, TakeFwait, Positions, Within
  <1>5. QED
    BY <1>3, <1>4 DEF Inv

\* The first attempt starts where the prefixes end.
LEMMA NoFwaitStep == Inv /\ NoFwait => Inv'
  <1> SUFFICES ASSUME Inv, NoFwait PROVE Inv'
    OBVIOUS
  <1>1. num_bytes' = num_bytes
    BY DEF NoFwait, inputs, num_bytes
  <1>2. p' \in Prefixes /\ p'.wait_used = got_fwait
    BY DEF Inv, TypeOK, NoFwait, Prefixes
  <1>3. TypeOK'
    BY <1>2 DEF Inv, TypeOK, NoFwait, inputs
  <1>4. Positions'
    BY <1>1, <1>2 DEF Inv, NoFwait, Positions, Within
  <1>5. QED
    BY <1>3, <1>4 DEF Inv

-----------------------------------------------------------------------------
(* try_decode: entry and table walk *)

\* A byte at some distance of a fetcher is a byte.
LEMMA ByteAhead ==
  ASSUME buf \in Seq(Byte), NEW f, Within(f), NEW n \in Nat \ {0}, Has(f, n)
  PROVE  buf[f.next + n] \in Byte
  <1>1. /\ num_bytes <= Len(buf) /\ Len(buf) \in Nat /\ num_bytes \in Nat
        /\ f.left \in Nat /\ f.next \in Nat
    BY NumBytes DEF Within
  <1>2. f.next + n \in 1..Len(buf)
    BY <1>1 DEF Has, Within
  <1>3. QED
    BY <1>2

\* One field at a time, an update of the records keeps their types; updates of
\* several fields are made of these.
LEMMA StateFlag ==
  \A st \in DecoderStates, b \in BOOLEAN :
    /\ [st EXCEPT !.rex_used = b] \in DecoderStates
    /\ [st EXCEPT !.wait_used = b] \in DecoderStates
    /\ [st EXCEPT !.has_modrm = b] \in DecoderStates
BY DEF DecoderStates

\* An update of its offsets keeps a decoder state in type.
LEMMA StateOffset ==
  \A st \in DecoderStates, n \in Nat :
    /\ [st EXCEPT !.prefix_size = n] \in DecoderStates
    /\ [st EXCEPT !.disp_offset = n] \in DecoderStates
    /\ [st EXCEPT !.imm1_offset = n] \in DecoderStates
    /\ [st EXCEPT !.imm2_offset = n] \in DecoderStates
    /\ [st EXCEPT !.modrm_offset = n] \in DecoderStates
BY DEF DecoderStates

\* An update of its ModRM byte keeps a decoder state in type.
LEMMA StateModrm ==
  \A st \in DecoderStates, c \in Byte :
    [st EXCEPT !.modrm0 = c] \in DecoderStates
BY DEF DecoderStates

\* An update of its opcode keeps a decoder state in type.
LEMMA StateOpcode ==
  \A st \in DecoderStates, c \in 0..511 :
    [st EXCEPT !.opcode0 = c] \in DecoderStates
BY DEF DecoderStates

\* An update of its size keeps a decoder state in type.
LEMMA StateSize ==
  \A st \in DecoderStates, n \in 0..31 :
    [st EXCEPT !.insn_size = n] \in DecoderStates
BY DEF DecoderStates

\* An update of its flags keeps an icode in type.
LEMMA IcodeFlag ==
  \A ic \in Icodes, b \in BOOLEAN :
    /\ [ic EXCEPT !.has_disp = b] \in Icodes
    /\ [ic EXCEPT !.sx = b] \in Icodes
    /\ [ic EXCEPT !.rip_relative = b] \in Icodes
    /\ [ic EXCEPT !.imm64 = b] \in Icodes
    /\ [ic EXCEPT !.is_nop = b] \in Icodes
    /\ [ic EXCEPT !.rex_used = b] \in Icodes
BY DEF Icodes

\* An update of its sizes keeps an icode in type.
LEMMA IcodeWidth ==
  \A ic \in Icodes, n \in 0..2 :
    /\ [ic EXCEPT !.osz = n] \in Icodes
    /\ [ic EXCEPT !.asz = n] \in Icodes
    /\ [ic EXCEPT !.fwait = n] \in Icodes
BY DEF Icodes

\* An update of its prefix keeps an icode in type.
LEMMA IcodeLockRep ==
  \A ic \in Icodes, n \in 0..3 :
    [ic EXCEPT !.lockrep = n] \in Icodes
BY DEF Icodes

\* An update of its slices keeps an icode in type.
LEMMA IcodeSlice ==
  \A ic \in Icodes, s \in Slices :
    /\ [ic EXCEPT !.imm = s] \in Icodes
    /\ [ic EXCEPT !.disp = s] \in Icodes
BY DEF Icodes

\* An update of its address keeps an icode in type.
LEMMA IcodeAddress ==
  \A ic \in Icodes, ea \in Addresses :
    [ic EXCEPT !.ea = ea] \in Icodes
BY DEF Icodes

\* An update of its encoding keeps an icode in type.
LEMMA IcodeEncoding ==
  \A ic \in Icodes, e \in DOMAIN Encodings :
    [ic EXCEPT !.encoding = e] \in Icodes
BY DEF Icodes

\* An update of its operands keeps an icode in type.
LEMMA IcodeArgs ==
  \A ic \in Icodes, a \in [1..4 -> Args] :
    [ic EXCEPT !.args = a] \in Icodes
BY DEF Icodes

\* An update of its segment keeps an address in type.
LEMMA AddressSegment ==
  \A ea \in Addresses, n \in 0..7 : [ea EXCEPT !.sreg = n] \in Addresses
BY DEF Addresses

\* An update of its scale keeps an address in type.
LEMMA AddressScale ==
  \A ea \in Addresses, n \in 0..3 : [ea EXCEPT !.scale = n] \in Addresses
BY DEF Addresses

\* An update of its displacement flag keeps an address in type.
LEMMA AddressDisp8 ==
  \A ea \in Addresses, b \in BOOLEAN : [ea EXCEPT !.disp8 = b] \in Addresses
BY DEF Addresses

\* An operand may be replaced in an icode.
LEMMA ArgUpdate ==
  \A ic \in Icodes, i \in 1..4 :
    /\ ic.args[i] \in Args
    /\ \A a \in Args : [ic EXCEPT !.args[i] = a] \in Icodes
  <1>1. \A ic \in Icodes : ic.args \in [1..4 -> Args]
    BY DEF Icodes
  <1>2. \A s \in [1..4 -> Args], i \in 1..4, a \in Args :
          s[i] \in Args /\ [s EXCEPT ![i] = a] \in [1..4 -> Args]
    OBVIOUS
  <1>3. QED
    BY <1>1, <1>2, IcodeArgs

\* try_decode begins by noting the prefixes in the decoder state.
LEMMA EnterStateType ==
  Inv => EnterState \in DecoderStates
  <1> SUFFICES ASSUME Inv PROVE EnterState \in DecoderStates
    OBVIOUS
  <1>1. /\ fetcher_copy.next \in Nat /\ NoOffset \in Nat
        /\ p.rex_used \in BOOLEAN /\ p.wait_used \in BOOLEAN
        /\ state \in DecoderStates
    <2>1. fetcher_copy.next \in Nat /\ NoOffset \in Nat
      <3>1. Within(fetcher_copy) BY DEF Inv, Positions
      <3>2. fetcher_copy \in [left : Nat, next : Nat] BY <3>1 DEF Within
      <3>3. fetcher_copy.next \in Nat BY <3>2
      <3>4. NoOffset \in Nat BY DEF NoOffset
      <3> QED BY <3>3, <3>4
    <2>2. p \in Prefixes /\ state \in DecoderStates
      BY DEF Inv, TypeOK
    <2>3. QED
      BY <2>1, <2>2 DEF Prefixes
  <1> DEFINE s1 == [state EXCEPT !.prefix_size = fetcher_copy.next]
             s2 == [s1 EXCEPT !.rex_used = p.rex_used]
             s3 == [s2 EXCEPT !.wait_used = p.wait_used]
             s4 == [s3 EXCEPT !.has_modrm = FALSE]
             s5 == [s4 EXCEPT !.disp_offset = NoOffset]
             s6 == [s5 EXCEPT !.imm1_offset = NoOffset]
             s7 == [s6 EXCEPT !.imm2_offset = NoOffset]
             s8 == [s7 EXCEPT !.modrm_offset = NoOffset]
  <1>2. EnterState = s8
    BY DEF EnterState
  <1>3. s1 \in DecoderStates
    BY <1>1, StateOffset
  <1> HIDE DEF s1
  <1>4. s2 \in DecoderStates
    BY <1>1, <1>3, StateFlag
  <1> HIDE DEF s2
  <1>5. s3 \in DecoderStates
    BY <1>1, <1>4, StateFlag
  <1> HIDE DEF s3
  <1>6. s4 \in DecoderStates
    BY <1>5, StateFlag
  <1> HIDE DEF s4
  <1>7. s5 \in DecoderStates
    BY <1>1, <1>6, StateOffset
  <1> HIDE DEF s5
  <1>8. s6 \in DecoderStates
    BY <1>1, <1>7, StateOffset
  <1> HIDE DEF s6
  <1>9. s7 \in DecoderStates
    BY <1>1, <1>8, StateOffset
  <1> HIDE DEF s7
  <1>10. QED
    BY <1>1, <1>2, <1>9, StateOffset

\* try_decode begins at do_decode's position or behind the escape byte.
LEMMA EnterTryStep == Inv /\ EnterTry => Inv'
  <1> SUFFICES ASSUME Inv, EnterTry PROVE Inv'
    OBVIOUS
  <1>1. num_bytes' = num_bytes
    BY DEF EnterTry, caller, num_bytes
  <1>2. Opcode0 \in 0..511
    <2>1. TwoByte => buf[fetcher_copy.next + 2] \in Byte
      BY ByteAhead DEF Inv, TypeOK, Positions, EnterTry
    <2>2. At(fetcher_copy) \in Byte
      BY FetcherMoves DEF Inv, TypeOK, Positions, EnterTry
    <2>3. QED
      BY <2>1, <2>2 DEF Opcode0, Byte
  <1>3. state' \in DecoderStates
    <2>1. EnterState \in DecoderStates /\ 0 \in Byte
      BY EnterStateType DEF Byte
    <2>2. QED
      BY <1>2, <2>1, StateModrm, StateOpcode DEF EnterTry
  <1>4. AddressSize \in 0..2
    BY ModesAssumption DEF Inv, TypeOK, AddressSize
  <1>5. dest' \in Icodes
    <2> DEFINE nop == Opcode0 = NOP
               ea == [dest.ea EXCEPT !.sreg = p.sreg, !.scale = 0, !.disp8 = FALSE]
    <2>1. /\ dest \in Icodes /\ dest.ea \in Addresses
          /\ p.lockrep \in 0..3 /\ p.sreg \in 0..7 /\ p.rex_used \in BOOLEAN
      BY DEF Inv, TypeOK, Prefixes, Icodes
    <2>2. nop \in BOOLEAN
      OBVIOUS
    <2>3. ea \in Addresses
      <3>1. 0 \in 0..3
        OBVIOUS
      <3>2. QED
        BY <2>1, <3>1, AddressSegment, AddressScale, AddressDisp8
    <2>4. dest' = [dest EXCEPT !.asz = AddressSize, !.lockrep = p.lockrep,
                               !.ea = ea, !.rip_relative = FALSE, !.is_nop = nop,
                               !.rex_used = p.rex_used]
      BY DEF EnterTry
    <2> HIDE DEF nop, ea
    <2>5. QED
      BY <1>4, <2>1, <2>2, <2>3, <2>4, IcodeFlag, IcodeWidth, IcodeLockRep,
        IcodeAddress
  <1>6. TypeOK'
    BY <1>3, <1>5, TableAssumption DEF Inv, TypeOK, EnterTry, caller
  <1>7. Positions'
    BY <1>1 DEF Inv, EnterTry, caller, Positions, Within
  <1>8. QED
    BY <1>6, <1>7 DEF Inv

\* try_decode may find no opcode byte: an error.
LEMMA EnterTryTooShortStep == Inv /\ EnterTryTooShort => Inv'
  <1> SUFFICES ASSUME Inv, EnterTryTooShort PROVE Inv'
    OBVIOUS
  <1>1. num_bytes' = num_bytes
    BY DEF EnterTryTooShort, caller, num_bytes
  <1>2. state' \in DecoderStates
    <2>1. Has(fetcher_copy, 1) => At(fetcher_copy) \in Byte
      BY FetcherMoves DEF Inv, TypeOK, Positions
    <2>2. EnterState \in DecoderStates /\ 0 \in Byte
      BY EnterStateType DEF Byte
    <2>3. Has(fetcher_copy, 1) => At(fetcher_copy) \in 0..511
      BY <2>1 DEF Byte
    <2>4. CASE Has(fetcher_copy, 1)
      <3>1. state' = [EnterState EXCEPT !.opcode0 = At(fetcher_copy), !.modrm0 = 0]
        BY <2>4 DEF EnterTryTooShort
      <3>2. QED
        BY <2>2, <2>3, <2>4, <3>1, StateModrm, StateOpcode
    <2>5. CASE ~Has(fetcher_copy, 1)
      BY <2>2, <2>5 DEF EnterTryTooShort
    <2>6. QED
      BY <2>4, <2>5
  <1>3. TypeOK'
    BY <1>2 DEF Inv, TypeOK, EnterTryTooShort, caller, Fail, Messages
  <1>4. Positions'
    BY <1>1 DEF Inv, EnterTryTooShort, caller, Positions, Within, Fail
  <1>5. QED
    BY <1>3, <1>4 DEF Inv

\* Where the walk may go from a node.
LEMMA Kids ==
  ASSUME NEW n \in DOMAIN Table, Table[n].type # 0,
         NEW k \in NodeKids(Table[n].type)
  PROVE  Table[n].kids[k] \in DOMAIN Table
BY TableAssumption

\* The walk goes to a node of the table and past a byte of the buffer.
LEMMA WalkByteStep == Inv /\ WalkByte => Inv'
  <1> SUFFICES ASSUME Inv, WalkByte PROVE Inv'
    OBVIOUS
  <1>1. num_bytes' = num_bytes
    BY DEF WalkByte, caller, num_bytes
  <1>2. CASE Has(fetcher_copy, 1)
    <2>1. At(fetcher_copy) \in Byte
      BY <1>2, FetcherMoves DEF Inv, TypeOK, Positions
    <2>2. node' \in DOMAIN Table
      BY <1>2, <2>1, Kids DEF Inv, TypeOK, WalkByte, NodeKids
    <2>3. /\ Within(Advance(fetcher_copy, 1))
          /\ Advance(fetcher_copy, 1).next = fetcher_copy.next + 1
      BY <1>2, FetcherMoves DEF Inv, TypeOK, Positions
    <2>4. /\ fetcher_copy' = Advance(fetcher_copy, 1) /\ fetcher_copy'.next > 0
          /\ pc' = pc /\ status' = status
      BY <1>2, <2>3 DEF WalkByte, Inv, Positions, Within
    <2>5. fetcher_copy' \in [left : 0..MaxBytes, next : 0..MaxBytes]
      BY <2>3, <2>4, WithinType DEF Inv, TypeOK
    <2>6. TypeOK'
      BY <2>2, <2>4, <2>5 DEF Inv, TypeOK, WalkByte, caller
    <2>7. Positions'
      BY <1>1, <2>3, <2>4 DEF Inv, WalkByte, caller, Positions, Within
    <2>8. QED
      BY <2>6, <2>7 DEF Inv
  <1>3. CASE ~Has(fetcher_copy, 1)
    BY <1>1, <1>3 DEF Inv, TypeOK, WalkByte, caller, Fail, Messages, Positions, Within
  <1>4. QED
    BY <1>2, <1>3

\* The walk chooses a node by prefix or mode and reads nothing.
LEMMA WalkModeStep == Inv /\ WalkMode => Inv'
  <1> SUFFICES ASSUME Inv, WalkMode PROVE Inv'
    OBVIOUS
  <1>1. num_bytes' = num_bytes
    BY DEF WalkMode, caller, num_bytes
  <1>2. node' \in DOMAIN Table
    <2> DEFINE rep == IF p.lockrep \in {2, 3} THEN p.lockrep - 1 ELSE 0
               k == (IF p.op66 THEN 1 ELSE 0) + 2 * rep
    <2>1. k \in 0..5
      OBVIOUS
    <2>2. CASE Table[node].type = 6
      BY <2>2, Kids DEF Inv, TypeOK, WalkMode, NodeKids
    <2>3. CASE Table[node].type = 2
      BY <2>1, <2>3, Kids DEF Inv, TypeOK, WalkMode, NodeKids
    <2>4. QED
      BY <2>2, <2>3 DEF WalkMode
  <1>3. node # Root
    BY TableAssumption DEF WalkMode
  <1>4. TypeOK'
    BY <1>2 DEF Inv, TypeOK, WalkMode, caller
  <1>5. Positions'
    BY <1>1, <1>3 DEF Inv, WalkMode, caller, Positions, Within
  <1>6. QED
    BY <1>4, <1>5 DEF Inv

-----------------------------------------------------------------------------
(* get_modrm *)

\* An update of its base keeps an address in type.
LEMMA AddressBase ==
  \A ea \in Addresses, n \in Nat : [ea EXCEPT !.base = n] \in Addresses
BY DEF Addresses

\* An update of its index keeps an address in type.
LEMMA AddressIndex ==
  \A ea \in Addresses, n \in Nat : [ea EXCEPT !.index = n] \in Addresses
BY DEF Addresses

\* The fields of a ModRM byte.
LEMMA ModRMFields ==
  ASSUME NEW c \in Byte
  PROVE  Mod(c) \in 0..3 /\ RegField(c) \in 0..7 /\ Rm(c) \in 0..7
BY DEF Byte, Mod, RegField, Rm

\* The addressing forms give an address.
LEMMA AddressType16 ==
  ASSUME NEW ea \in Addresses, NEW c \in Byte
  PROVE  decode_modrm_16(ea, c).ea \in Addresses
  <1> DEFINE rm == Rm(c)
             absolute == Mod(c) = 0 /\ rm = 6
             index == IF rm < 6 THEN 6 + (rm % 2) ELSE ea.index
             base == CASE rm < 4                 -> 3 + 2 * (rm \div 2)
                       [] rm = 6 /\ ~absolute    -> 5
                       [] rm = 7                 -> 3
                       [] OTHER                  -> ea.base
  <1>1. rm \in 0..7 /\ ea.index \in Nat /\ ea.base \in Nat
    BY ModRMFields DEF Addresses
  <1>2. index \in Nat
    BY <1>1
  <1>3. base \in Nat
    BY <1>1
  <1>4. decode_modrm_16(ea, c).ea = [ea EXCEPT !.index = index, !.base = base]
    BY DEF decode_modrm_16
  <1> HIDE DEF index, base
  <1>5. [ea EXCEPT !.index = index] \in Addresses
    BY <1>2, AddressIndex
  <1>6. [[ea EXCEPT !.index = index] EXCEPT !.base = base] \in Addresses
    BY <1>3, <1>5, AddressBase
  <1>7. QED
    BY <1>4, <1>6

\* The 32-bit and the 64-bit form give an address.
LEMMA AddressType32 ==
  ASSUME NEW ea \in Addresses, NEW c \in Byte, NEW sib \in Byte,
         NEW m, NEW x
  PROVE  decode_modrm_32(ea, c, sib, m, x).ea \in Addresses
  <1> DEFINE mod == Mod(c)
             rm == Rm(c)
             baseField == IF rm = 4 THEN Rm(sib) ELSE rm
             noBase == mod = 0 /\ baseField = 5
             indexed == rm = 4 /\ (RegField(sib) # 4 \/ (m /\ x = 1))
             base == IF noBase THEN ea.base ELSE baseField
             index == IF indexed THEN RegField(sib) ELSE ea.index
             scale == IF indexed THEN Mod(sib) ELSE ea.scale
  <1>1. /\ rm \in 0..7 /\ Rm(sib) \in 0..7 /\ RegField(sib) \in 0..7
        /\ Mod(sib) \in 0..3
        /\ ea.index \in Nat /\ ea.base \in Nat /\ ea.scale \in 0..3
    BY ModRMFields DEF Addresses
  <1>2. index \in Nat /\ base \in Nat /\ scale \in 0..3
    BY <1>1
  <1>3. decode_modrm_32(ea, c, sib, m, x).ea
          = [ea EXCEPT !.base = base, !.index = index, !.scale = scale]
    BY DEF decode_modrm_32
  <1> HIDE DEF index, base, scale
  <1>4. [ea EXCEPT !.base = base] \in Addresses
    BY <1>2, AddressBase
  <1>5. [[ea EXCEPT !.base = base] EXCEPT !.index = index] \in Addresses
    BY <1>2, <1>4, AddressIndex
  <1>6. [[[ea EXCEPT !.base = base] EXCEPT !.index = index] EXCEPT !.scale = scale]
          \in Addresses
    BY <1>2, <1>5, AddressScale
  <1>7. QED
    BY <1>3, <1>6

\* So does the form that get_modrm chooses.
LEMMA AddressType ==
  ASSUME NEW ea \in Addresses, NEW c \in Byte, NEW sib \in Byte,
         NEW d, NEW a, NEW x \in 0..1, NEW b \in 0..1
  PROVE  decode_modrm(ea, c, sib, d, a, x, b).ea \in Addresses
  <1>1. decode_modrm_64(ea, c, sib, x, b).ea \in Addresses
    <2> DEFINE m == decode_modrm_32(ea, c, sib, TRUE, x)
    <2>1. m.ea \in Addresses
      BY AddressType32
    <2>2. m = [ea |-> m.ea, disp |-> m.disp]
      BY DEF decode_modrm_32
    <2> HIDE DEF m
    <2>3. Extend(m.ea.base, b) \in Nat /\ Extend(m.ea.index, x) \in Nat
      BY <2>1 DEF Addresses, Extend
    <2>4. [m EXCEPT !.ea.base = Extend(@, b), !.ea.index = Extend(@, x)].ea
            = [m.ea EXCEPT !.base = Extend(m.ea.base, b),
                           !.index = Extend(m.ea.index, x)]
      BY <2>1, <2>2 DEF Addresses
    <2>5. [m.ea EXCEPT !.base = Extend(m.ea.base, b),
                       !.index = Extend(m.ea.index, x)] \in Addresses
      BY <2>1, <2>3, AddressBase, AddressIndex
    <2>6. QED
      BY <2>1, <2>4, <2>5 DEF decode_modrm_64, m
  <1>2. QED
    BY <1>1, AddressType16, AddressType32 DEF decode_modrm

\* The outcome of an addressing form has an address and a displacement.
LEMMA AddressRecord ==
  ASSUME NEW ea, NEW c, NEW sib, NEW d, NEW a, NEW x, NEW b,
         NEW m, m = decode_modrm(ea, c, sib, d, a, x, b)
  PROVE  m = [ea |-> m.ea, disp |-> m.disp]
BY DEF decode_modrm, decode_modrm_16, decode_modrm_32, decode_modrm_64

\* The icode with the address and the displacement is an icode.
LEMMA AddressIcodeType ==
  ASSUME NEW ic \in Icodes, NEW c, NEW m, m.ea \in Addresses, NEW s \in Slices
  PROVE  AddressIcode(ic, c, m, s) \in Icodes
  <1> DEFINE rip == ic.rip_relative \/ (dsz = 2 /\ RipRelative(c))
             has == ic.has_disp \/ m.disp > 0
  <1>1. rip \in BOOLEAN /\ has \in BOOLEAN
    OBVIOUS
  <1>2. AddressIcode(ic, c, m, s)
          = [ic EXCEPT !.ea = m.ea, !.rip_relative = rip, !.has_disp = has,
                       !.disp = s]
    BY DEF AddressIcode
  <1> HIDE DEF rip, has
  <1>3. [ic EXCEPT !.ea = m.ea] \in Icodes
    BY IcodeAddress
  <1>4. [[ic EXCEPT !.ea = m.ea] EXCEPT !.rip_relative = rip] \in Icodes
    BY <1>1, <1>3, IcodeFlag
  <1>5. [[[ic EXCEPT !.ea = m.ea] EXCEPT !.rip_relative = rip]
           EXCEPT !.has_disp = has] \in Icodes
    BY <1>1, <1>4, IcodeFlag
  <1>6. [[[[ic EXCEPT !.ea = m.ea] EXCEPT !.rip_relative = rip]
            EXCEPT !.has_disp = has] EXCEPT !.disp = s] \in Icodes
    BY <1>5, IcodeSlice
  <1>7. QED
    BY <1>2, <1>6

\* So is the one with the default segment and the kind of the displacement.
LEMMA WholeIcodeType ==
  ASSUME NEW ic \in Icodes, NEW c, NEW m, m.ea \in Addresses,
         m = [ea |-> m.ea, disp |-> m.disp], NEW s \in Slices
  PROVE  WholeIcode(ic, c, m, s) \in Icodes
  <1> DEFINE disp8 == m.ea.disp8 \/ m.disp = 1
             ea == [m.ea EXCEPT !.disp8 = disp8, !.sreg = DefaultSegment(m.ea)]
             n == [m EXCEPT !.ea = ea]
  <1>1. disp8 \in BOOLEAN
    OBVIOUS
  <1>2. DefaultSegment(m.ea) \in 0..7
    BY DEF DefaultSegment, StackSeg, Addresses
  <1> HIDE DEF disp8
  <1>3. ea \in Addresses
    BY <1>1, <1>2, AddressDisp8, AddressSegment
  <1>4. WholeIcode(ic, c, m, s) = AddressIcode(ic, c, n, s)
    BY DEF WholeIcode, disp8
  <1>5. n.ea = ea
    OBVIOUS
  <1> HIDE DEF ea, n
  <1>6. QED
    BY <1>3, <1>4, <1>5, AddressIcodeType

\* Whatever was there to be read, the icode and the state keep their types.
LEMMA GetModrmType ==
  ASSUME buf \in Seq(Byte), p \in Prefixes, NEW f, Within(f),
         NEW ic \in Icodes, NEW st \in DecoderStates
  PROVE  /\ get_modrm(f, ic, st).ic \in Icodes
         /\ get_modrm(f, ic, st).st \in DecoderStates
  <1> DEFINE c == At(f)
             sib == IF HasSib(c, dsz, ic.asz) THEN buf[f.next + 2] ELSE 0
             stage == ModrmStage(f, ic.asz)
             header == ModrmHeader(f, ic.asz)
             after == Advance(f, header)
             m == decode_modrm(ic.ea, c, sib, dsz, ic.asz, p.rex_x, p.rex_b)
             whole == Has(after, m.disp)
             slice == IF m.disp = 0 THEN NoSlice
                      ELSE Slice(after, IF whole THEN m.disp ELSE after.left)
             st0 == [st EXCEPT !.modrm_offset = f.next]
             st1 == [st0 EXCEPT !.modrm0 = c, !.has_modrm = TRUE]
             st2 == IF m.disp = 0 THEN st1
                    ELSE [st1 EXCEPT !.disp_offset = after.next]
             ic1 == [ic EXCEPT !.disp = NoSlice]
             ic2 == IF whole THEN WholeIcode(ic, c, m, slice)
                    ELSE AddressIcode(ic, c, m, slice)
             r == get_modrm(f, ic, st)
  <1>1. /\ r.ic = (CASE stage = "none"    -> ic
                     [] stage = "byte"    -> ic1
                     [] stage = "address" -> ic2)
        /\ r.st = (CASE stage = "none"    -> st0
                     [] stage = "byte"    -> st1
                     [] stage = "address" -> st2)
    BY DEF get_modrm
  <1>2. stage \in {"none", "byte", "address"}
    BY DEF ModrmStage
  <1>3. f.next \in Nat /\ f.left \in Nat /\ NoSlice \in Slices
    BY DEF Within, NoSlice, Slices, NoOffset
  <1>4. st0 \in DecoderStates /\ ic1 \in Icodes
    BY <1>3, StateOffset, IcodeSlice
  <1>5. stage # "none" => c \in Byte /\ st1 \in DecoderStates
    <2>1. stage # "none" => c \in Byte
      BY FetcherMoves DEF ModrmStage
    <2> HIDE DEF st0, c
    <2>2. QED
      BY <1>4, <2>1, StateModrm, StateFlag
  <1>6. ASSUME stage = "address"
        PROVE  ic2 \in Icodes /\ st2 \in DecoderStates
    <2>1. c \in Byte /\ st1 \in DecoderStates /\ Has(f, header)
      BY <1>5, <1>6 DEF ModrmStage
    <2>2. sib \in Byte
      <3>1. HasSib(c, dsz, ic.asz) => Has(f, 2)
        BY <2>1 DEF ModrmHeader
      <3>2. 0 \in Byte
        BY DEF Byte
      <3>3. QED
        BY <3>1, <3>2, ByteAhead
    <2>3. /\ m.ea \in Addresses /\ m.disp \in {0, 1, 2, 4}
          /\ m = [ea |-> m.ea, disp |-> m.disp]
      <3>1. ic.ea \in Addresses /\ p.rex_x \in 0..1 /\ p.rex_b \in 0..1
        BY DEF Icodes, Prefixes
      <3>2. QED
        BY <2>1, <2>2, <3>1, AddressType, DisplacementSize, AddressRecord
    <2>4. after.next \in Nat /\ after.left \in Nat
      <3>1. header \in Nat
        BY DEF ModrmHeader
      <3> HIDE DEF header
      <3>2. Within(after)
        BY <2>1, <3>1, FetcherMoves
      <3>3. QED
        BY <3>2 DEF Within
    <2> HIDE DEF st1, m, after
    <2>5. slice \in Slices
      BY <1>3, <2>3, <2>4 DEF Slice, Slices
    <2>6. ic2 \in Icodes
      BY <2>3, <2>5, AddressIcodeType, WholeIcodeType
    <2>7. st2 \in DecoderStates
      BY <2>1, <2>4, StateOffset
    <2>8. QED
      BY <2>6, <2>7
  <1> HIDE DEF stage, r, ic1, ic2, st0, st1, st2, whole
  <1>7. QED
    BY <1>1, <1>2, <1>4, <1>5, <1>6 DEF r

\* The walk reads a ModRM byte with all that belongs to it and goes on.
LEMMA WalkModRMStep == Inv /\ WalkModRM => Inv'
  <1> SUFFICES ASSUME Inv, WalkModRM PROVE Inv'
    OBVIOUS
  <1> DEFINE r == IF state.has_modrm
                  THEN [ok |-> TRUE, f |-> fetcher_copy, ic |-> dest, st |-> state]
                  ELSE get_modrm(fetcher_copy, dest, state)
  <1>1. num_bytes' = num_bytes /\ buf \in Seq(Byte)
    BY DEF WalkModRM, caller, num_bytes, Inv, TypeOK
  <1>2. fetcher_copy.next > 0
    <2>1. node # Root
      <3>1. Table[node].type \in {3, 4, 5}
        BY DEF WalkModRM
      <3>2. Table[Root].type = 1
        BY TableAssumption
      <3>3. QED
        BY <3>1, <3>2
    <2>2. QED
      BY <2>1 DEF WalkModRM, Inv, Positions
  <1>3. Within(r.f) /\ r.f.next > 0
    <2>1. Within(fetcher_copy) /\ fetcher_copy.next \in Nat
      BY DEF Inv, Positions, Within
    <2>2. /\ Within(get_modrm(fetcher_copy, dest, state).f)
          /\ get_modrm(fetcher_copy, dest, state).f.next >= fetcher_copy.next
      BY <1>1, <2>1, GetModrmWithin
    <2>3. CASE state.has_modrm
      BY <1>2, <2>1, <2>3
    <2>4. CASE ~state.has_modrm
      BY <1>2, <2>1, <2>2, <2>4 DEF Within
    <2>5. QED
      BY <2>3, <2>4
  <1>4. r.ic \in Icodes /\ r.st \in DecoderStates
    BY <1>1, GetModrmType DEF Inv, TypeOK, Positions
  <1>5. /\ fetcher_copy' = r.f /\ dest' = r.ic /\ state' = r.st
        /\ IF r.ok
           THEN /\ node' = Table[node].kids[
                             ModRMIndex(Table[node].type, r.st.modrm0)]
                /\ UNCHANGED <<pc, status>>
           ELSE Fail("limit exceeded (4)") /\ UNCHANGED node
        /\ UNCHANGED <<caller, argi>>
    BY DEF WalkModRM
  <1> HIDE DEF r
  <1>6. node' \in DOMAIN Table
    <2>1. r.st.modrm0 \in Byte
      BY <1>4 DEF DecoderStates
    <2>2. ASSUME NEW type \in {3, 4, 5}, NEW c \in Byte
          PROVE  ModRMIndex(type, c) \in NodeKids(type)
      <3>1. c \div 8 \in 0..31
        BY DEF Byte
      <3>2. QED
        BY <3>1, ModRMFields DEF ModRMIndex, NodeKids
    <2>3. /\ node \in DOMAIN Table /\ Table[node].type \in {3, 4, 5}
          /\ node' = node \/ node' = Table[node].kids[
                                  ModRMIndex(Table[node].type, r.st.modrm0)]
      BY <1>5 DEF Inv, TypeOK, WalkModRM
    <2>4. ModRMIndex(Table[node].type, r.st.modrm0) \in NodeKids(Table[node].type)
      BY <2>1, <2>2, <2>3
    <2>5. QED
      BY <2>3, <2>4, Kids
  <1>7. fetcher_copy' \in [left : 0..MaxBytes, next : 0..MaxBytes]
    BY <1>1, <1>3, <1>5, WithinType
  <1>8. TypeOK'
    BY <1>4, <1>5, <1>6, <1>7, ZenonT(30) DEF Inv, TypeOK, caller, Fail, Messages
  <1>9. Positions'
    <2>1. /\ Within(fetcher)' /\ Within(fetcher_copy)' /\ fetcher_copy'.next > 0
          /\ pc' \in {"walk", "judge"} /\ (pc' = "judge" => status' # "")
      BY <1>1, <1>3, <1>5 DEF Inv, WalkModRM, Positions, Within, caller, Fail
    <2>2. QED
      BY <1>5, <2>1 DEF Inv, Positions, caller
  <1>10. QED
    BY <1>8, <1>9 DEF Inv

-----------------------------------------------------------------------------
(* The encoding and the operand size *)

\* A leaf without an encoding is an error.
LEMMA InvalidOpcodeStep == Inv /\ InvalidOpcode => Inv'
  <1> SUFFICES ASSUME Inv, InvalidOpcode PROVE Inv'
    OBVIOUS
  <1>1. num_bytes' = num_bytes
    BY DEF InvalidOpcode, caller, num_bytes
  <1>2. TypeOK'
    BY DEF Inv, TypeOK, InvalidOpcode, caller, Fail, Messages
  <1>3. Positions'
    BY <1>1 DEF Inv, InvalidOpcode, caller, Fail, Positions, Within
  <1>4. QED
    BY <1>2, <1>3 DEF Inv

\* The operand size is one of three.
LEMMA OperandSizeType ==
  ASSUME NEW e, dsz \in 0..2
  PROVE  OperandSize(e) \in 0..2
BY DEF OperandSize

\* A leaf with an encoding may still be rejected; else the operands begin.
LEMMA LeafStep == Inv /\ Leaf => Inv'
  <1> SUFFICES ASSUME Inv, Leaf PROVE Inv'
    OBVIOUS
  <1> DEFINE e == Encodings[Table[node].encoding]
             ic == [dest EXCEPT !.encoding = Table[node].encoding]
             r == IF state.has_modrm \/ ~e.regop
                  THEN [ok |-> TRUE, f |-> fetcher_copy, ic |-> ic, st |-> state]
                  ELSE get_modrm(fetcher_copy, ic, state)
             full == [r.ic EXCEPT !.osz = OperandSize(e), !.imm64 = FALSE,
                                  !.sx = FALSE, !.args = e.args]
  <1>1. num_bytes' = num_bytes /\ buf \in Seq(Byte) /\ dsz \in 0..2
    BY ModesAssumption DEF Leaf, caller, num_bytes, Inv, TypeOK
  <1>2. fetcher_copy.next > 0
    <2>1. node # Root
      <3>1. Table[node].type = 0
        BY DEF Leaf
      <3>2. Table[Root].type = 1
        BY TableAssumption
      <3>3. QED
        BY <3>1, <3>2
    <2>2. QED
      BY <2>1 DEF Leaf, Inv, Positions
  <1>3. Table[node].encoding \in DOMAIN Encodings /\ e.args \in [1..4 -> Args]
    <2>1. node \in DOMAIN Table /\ Table[node].type = 0 /\ Table[node].encoding # Invalid
      BY DEF Leaf, Inv, TypeOK
    <2>2. Table[node].encoding \in DOMAIN Encodings
      BY <2>1, TableAssumption
    <2>3. QED
      BY <2>2, EncodingsAssumption
  <1>4. ic \in Icodes
    BY <1>3, IcodeEncoding DEF Inv, TypeOK
  <1> HIDE DEF ic
  <1>5. Within(r.f) /\ r.f.next > 0
    <2>1. Within(fetcher_copy) /\ fetcher_copy.next \in Nat
      BY DEF Inv, Positions, Within
    <2>2. /\ Within(get_modrm(fetcher_copy, ic, state).f)
          /\ get_modrm(fetcher_copy, ic, state).f.next >= fetcher_copy.next
      BY <1>1, <2>1, GetModrmWithin
    <2>3. CASE state.has_modrm \/ ~e.regop
      BY <1>2, <2>1, <2>3
    <2>4. CASE ~(state.has_modrm \/ ~e.regop)
      BY <1>2, <2>1, <2>2, <2>4 DEF Within
    <2>5. QED
      BY <2>3, <2>4
  <1>6. r.ic \in Icodes /\ r.st \in DecoderStates
    BY <1>1, <1>4, GetModrmType DEF Inv, TypeOK, Positions
  <1>7. /\ \/ /\ Fail("opcode is invalid in 64bit mode") /\ dest' = ic
              /\ UNCHANGED <<fetcher_copy, state, argi>>
           \/ /\ fetcher_copy' = r.f /\ state' = r.st
              /\ \/ dest' = full /\ argi' = 1 /\ pc' = "args" /\ UNCHANGED status
                 \/ /\ Fail("limit exceeded (6)") /\ dest' = r.ic
                    /\ UNCHANGED argi
        /\ UNCHANGED <<caller, node>>
    BY DEF Leaf, ic
  <1> HIDE DEF r
  <1>8. full \in Icodes
    <2> DEFINE i1 == [r.ic EXCEPT !.osz = OperandSize(e)]
               i2 == [i1 EXCEPT !.imm64 = FALSE]
               i3 == [i2 EXCEPT !.sx = FALSE]
    <2>1. i1 \in Icodes
      BY <1>1, <1>6, OperandSizeType, IcodeWidth
    <2>2. full = [i3 EXCEPT !.args = e.args]
      OBVIOUS
    <2> HIDE DEF i1
    <2>3. i2 \in Icodes
      BY <2>1, IcodeFlag
    <2> HIDE DEF i2
    <2>4. i3 \in Icodes
      BY <2>3, IcodeFlag
    <2> HIDE DEF i3, full, e
    <2>5. QED
      BY <1>3, <2>2, <2>4, IcodeArgs
  <1> HIDE DEF full, e
  <1>9. r.f \in [left : 0..MaxBytes, next : 0..MaxBytes]
    BY <1>1, <1>5, WithinType
  <1>10. TypeOK'
    <2>1. dest' \in Icodes
      BY <1>4, <1>6, <1>7, <1>8
    <2>2. state' \in DecoderStates
      BY <1>6, <1>7 DEF Inv, TypeOK
    <2>3. fetcher_copy' \in [left : 0..MaxBytes, next : 0..MaxBytes]
      BY <1>7, <1>9 DEF Inv, TypeOK
    <2>4. /\ argi' \in 1..5 /\ status' \in Messages
          /\ pc' \in {"args", "judge"}
      <3>1. /\ "opcode is invalid in 64bit mode" \in Messages
            /\ "limit exceeded (6)" \in Messages
        BY DEF Messages
      <3>2. argi \in 1..5 /\ status \in Messages /\ 1 \in 1..5
        BY DEF Inv, TypeOK
      <3> HIDE DEF ic, full, r
      <3>3. QED
        BY <1>7, <3>1, <3>2 DEF Fail
    <2>5. UNCHANGED <<caller, node>> /\ TypeOK
      BY <1>7 DEF Inv
    <2>6. QED
      BY <2>1, <2>2, <2>3, <2>4, <2>5 DEF TypeOK, caller
  <1>11. Positions'
    <2>1. /\ Within(fetcher)' /\ Within(fetcher_copy)' /\ fetcher_copy'.next > 0
          /\ pc' \in {"args", "judge"} /\ (pc' = "judge" => status' # "")
      BY <1>1, <1>2, <1>5, <1>7 DEF Inv, Positions, Within, caller, Fail
    <2>2. QED
      BY <1>7, <2>1 DEF Inv, Positions, caller
  <1>12. QED
    BY <1>10, <1>11 DEF Inv

-----------------------------------------------------------------------------
(* get_arguments *)

\* The sizes of the table's operands have a meaning for every mode.
LEMMA SpecializedSize ==
  ASSUME dest \in Icodes, NEW size \in Int
  PROVE  intel_specialize_arg_size(size) \in Int
  <1>1. dest.osz \in 0..2 /\ dest.asz \in 0..2
    BY DEF Icodes
  <1>2. \A sz \in 0..2 : SizeOf(sz) \in {2, 4, 8}
    BY DEF SizeOf
  <1>3. QED
    BY <1>1, <1>2 DEF intel_specialize_arg_size

\* An argument that has been specialized is an argument.
LEMMA ArgType ==
  ASSUME Inv, argi \in 1..4
  PROVE  Arg \in Args
  <1> DEFINE a == dest.args[argi]
             size == intel_specialize_arg_size(a.size)
             type == IF state.modrm0 < 192 THEN "mem_ea" ELSE a.type
  <1>1. a \in Args
    BY ArgUpdate DEF Inv, TypeOK
  <1>2. size \in Int
    BY <1>1, SpecializedSize DEF Inv, TypeOK, Args
  <1>3. type \in ArgTypes
    BY <1>1 DEF Args, ArgTypes, MemTypes
  <1>4. Arg = IF a.value # RegOrMem THEN [a EXCEPT !.size = size]
              ELSE [type |-> type, size |-> size, value |-> DefaultValue]
    BY DEF Arg
  <1> HIDE DEF a, size, type
  <1>5. [a EXCEPT !.size = size] \in Args
    BY <1>1, <1>2 DEF Args
  <1>6. [type |-> type, size |-> size, value |-> DefaultValue] \in Args
    BY <1>2, <1>3 DEF Args, DefaultValue, Byte
  <1>7. QED
    BY <1>4, <1>5, <1>6

\* An operand without a size is an error.
LEMMA UnsupportedArgumentStep == Inv /\ UnsupportedArgument => Inv'
  <1> SUFFICES ASSUME Inv, UnsupportedArgument PROVE Inv'
    OBVIOUS
  <1>1. num_bytes' = num_bytes /\ argi \in 1..4
    BY DEF UnsupportedArgument, AtArg, caller, num_bytes
  <1>2. dest' \in Icodes
    <2> DEFINE size == Arg.size
               a == [dest.args[argi] EXCEPT !.size = size]
    <2>1. size \in Int
      BY <1>1, ArgType DEF Args
    <2>2. dest' = [dest EXCEPT !.args[argi] = a]
      BY DEF UnsupportedArgument
    <2> HIDE DEF size
    <2>3. dest.args[argi] \in Args
      BY <1>1, ArgUpdate DEF Inv, TypeOK
    <2>4. a \in Args
      BY <2>1, <2>3 DEF Args
    <2> HIDE DEF a
    <2>5. QED
      BY <1>1, <2>2, <2>4, ArgUpdate DEF Inv, TypeOK
  <1>3. TypeOK'
    BY <1>2 DEF Inv, TypeOK, UnsupportedArgument, caller, Fail, Messages
  <1>4. Positions'
    BY <1>1 DEF Inv, UnsupportedArgument, caller, Fail, Positions, Within
  <1>5. QED
    BY <1>3, <1>4 DEF Inv

\* What the arguments leave alone, and where they lead.
ArgFrame ==
  /\ UNCHANGED <<caller, node>>
  /\ \/ UNCHANGED <<pc, status>> /\ argi' = argi + 1
     \/ pc' = "judge" /\ status' \in Messages \ {""} /\ argi' = argi

\* An argument step keeps the invariant when it keeps the types of what it
\* writes and reads no byte that is not there.
LEMMA ArgStep ==
  ASSUME Inv, AtArg, ArgFrame, Within(fetcher_copy'),
         fetcher_copy'.next >= fetcher_copy.next,
         dest' \in Icodes, state' \in DecoderStates,
         state'.insn_size = state.insn_size
  PROVE  Inv'
  <1>1. num_bytes' = num_bytes /\ buf \in Seq(Byte)
    BY DEF ArgFrame, caller, num_bytes, Inv, TypeOK
  <1>2. fetcher_copy'.next > 0 /\ argi \in 1..4 /\ pc = "args"
    BY DEF Inv, Positions, Within, AtArg
  <1>3. fetcher_copy' \in [left : 0..MaxBytes, next : 0..MaxBytes]
    BY <1>1, WithinType
  <1>4. TypeOK'
    <2>1. UNCHANGED <<caller, node>> /\ TypeOK
      BY DEF Inv, ArgFrame
    <2>2. status \in Messages /\ argi + 1 \in 1..5 /\ argi \in 1..5
      BY <1>2, <2>1 DEF TypeOK
    <2>3. argi' \in 1..5 /\ status' \in Messages /\ pc' \in {"args", "judge"}
      BY <1>2, <2>2 DEF ArgFrame
    <2>4. QED
      BY <1>3, <2>1, <2>3 DEF TypeOK, caller
  <1>5. Positions'
    <2>1. Within(fetcher)' /\ Within(fetcher_copy)'
      BY <1>1 DEF Inv, Positions, Within, ArgFrame, caller
    <2>2. pc' \in {"args", "judge"} /\ (pc' = "judge" => status' # "")
      BY <1>2 DEF ArgFrame
    <2>3. QED
      BY <1>2, <2>1, <2>2 DEF Inv, Positions, ArgFrame, caller
  <1>6. QED
    BY <1>4, <1>5 DEF Inv

\* An icode into which an argument has been written.
LEMMA WithArgType ==
  ASSUME Inv, AtArg
  PROVE  [dest EXCEPT !.args[argi] = Arg] \in Icodes
BY ArgType, ArgUpdate DEF Inv, TypeOK, AtArg

\* The bytes ahead of a fetcher are a slice of the buffer.
LEMMA SliceType ==
  ASSUME buf \in Seq(Byte), NEW f, Within(f), NEW n \in Nat
  PROVE  Slice(f, n) \in Slices
BY DEF Slice, Slices, Within

\* A memory operand has been read with the ModRM byte.
LEMMA MemArgStep == Inv /\ MemArg => Inv'
  <1> SUFFICES ASSUME Inv, MemArg PROVE Inv'
    OBVIOUS
  <1>1. AtArg /\ ArgFrame /\ fetcher_copy' = fetcher_copy /\ state' = state
    BY DEF MemArg, ArgFrame, NextArg
  <1>2. dest' \in Icodes
    BY <1>1, WithArgType DEF MemArg
  <1>3. Within(fetcher_copy) /\ fetcher_copy.next >= fetcher_copy.next
    <2>1. Within(fetcher_copy)
      BY DEF Inv, Positions
    <2>2. QED
      BY <2>1 DEF Within
  <1>4. Within(fetcher_copy') /\ fetcher_copy'.next >= fetcher_copy.next
    BY <1>1, <1>3
  <1>5. state' \in DecoderStates /\ state'.insn_size = state.insn_size
    BY <1>1 DEF Inv, TypeOK
  <1>6. QED
    BY <1>1, <1>2, <1>4, <1>5, ArgStep

\* An implicit immediate reads nothing.
LEMMA ImplicitImmArgStep == Inv /\ ImplicitImmArg => Inv'
  <1> SUFFICES ASSUME Inv, ImplicitImmArg PROVE Inv'
    OBVIOUS
  <1>1. AtArg /\ ArgFrame /\ fetcher_copy' = fetcher_copy /\ state' = state
    BY DEF ImplicitImmArg, ArgFrame, NextArg
  <1>2. dest' \in Icodes
    <2> DEFINE here == [dest EXCEPT !.args[argi] = Arg]
    <2>1. here \in Icodes
      BY <1>1, WithArgType
    <2>2. dest' = [here EXCEPT !.imm = NoSlice]
      BY DEF ImplicitImmArg
    <2>3. NoSlice \in Slices
      BY DEF NoSlice, Slices, NoOffset
    <2> HIDE DEF here
    <2>4. QED
      BY <2>1, <2>2, <2>3, IcodeSlice
  <1>3. Within(fetcher_copy) /\ fetcher_copy.next >= fetcher_copy.next
    <2>1. Within(fetcher_copy)
      BY DEF Inv, Positions
    <2>2. QED
      BY <2>1 DEF Within
  <1>4. Within(fetcher_copy') /\ fetcher_copy'.next >= fetcher_copy.next
    BY <1>1, <1>3
  <1>5. state' \in DecoderStates /\ state'.insn_size = state.insn_size
    BY <1>1 DEF Inv, TypeOK
  <1>6. QED
    BY <1>1, <1>2, <1>4, <1>5, ArgStep

\* A full displacement is read whole, or the buffer ends.
LEMMA FullDispArgStep == Inv /\ FullDispArg => Inv'
  <1> SUFFICES ASSUME Inv, FullDispArg PROVE Inv'
    OBVIOUS
  <1> DEFINE n == SizeOf(dest.asz)
             f == fetcher_copy
             here == [dest EXCEPT !.has_disp = TRUE, !.args[argi] = Arg]
             s1 == Slice(f, IF n = 8 THEN 4 ELSE n)
             s2 == IF n = 8 THEN Slice(Advance(f, 4), 4) ELSE here.imm
             full == [here EXCEPT !.disp = s1, !.imm = s2]
  <1>1. AtArg /\ ArgFrame
    BY DEF FullDispArg, ArgFrame, NextArg, Fail, Messages
  <1>2. buf \in Seq(Byte) /\ Within(f) /\ dest \in Icodes /\ f.next \in Nat
    BY DEF Inv, TypeOK, Positions, Within
  <1>3. n \in {2, 4, 8}
    <2>1. dest.asz \in 0..2
      BY <1>2 DEF Icodes
    <2>2. QED
      BY <2>1 DEF SizeOf
  <1>4. /\ state' = [state EXCEPT !.disp_offset = f.next]
        /\ \/ Has(f, n) /\ fetcher_copy' = Advance(f, n) /\ dest' = full
           \/ fetcher_copy' = Drained(f) /\ dest' = here
    BY DEF FullDispArg
  <1>5. here \in Icodes
    <2> DEFINE arg == [dest EXCEPT !.args[argi] = Arg]
    <2>1. arg \in Icodes
      BY <1>1, WithArgType
    <2>2. here = [arg EXCEPT !.has_disp = TRUE]
      BY <1>2 DEF Icodes
    <2> HIDE DEF arg, here
    <2>3. QED
      BY <2>1, <2>2, IcodeFlag
  <1> HIDE DEF n
  <1>6. ASSUME Has(f, n)
        PROVE  full \in Icodes
    <2>1. s1 \in Slices
      BY <1>2, <1>3, SliceType
    <2>2. s2 \in Slices
      <3>1. CASE n = 8
        <4>1. Has(f, 4)
          BY <1>2, <1>6, <3>1 DEF Has, Within
        <4>2. Within(Advance(f, 4))
          BY <1>2, <4>1, FetcherMoves
        <4>3. QED
          BY <1>2, <3>1, <4>2, SliceType
      <3>2. CASE n # 8
        BY <1>5, <3>2 DEF Icodes
      <3>3. QED
        BY <3>1, <3>2
    <2> HIDE DEF s1, s2, here
    <2>3. [here EXCEPT !.disp = s1] \in Icodes
      BY <1>5, <2>1, IcodeSlice
    <2>4. [[here EXCEPT !.disp = s1] EXCEPT !.imm = s2] \in Icodes
      BY <2>2, <2>3, IcodeSlice
    <2>5. QED
      BY <2>4
  <1> HIDE DEF full, here
  <1>7. dest' \in Icodes
    BY <1>4, <1>5, <1>6
  <1>8. state' \in DecoderStates /\ state'.insn_size = state.insn_size
    <2>1. state \in DecoderStates /\ state' = [state EXCEPT !.disp_offset = f.next]
      BY <1>4 DEF Inv, TypeOK
    <2>2. state' \in DecoderStates
      BY <1>2, <2>1, StateOffset
    <2>3. QED
      BY <2>1, <2>2 DEF DecoderStates
  <1>9. Within(fetcher_copy') /\ fetcher_copy'.next >= fetcher_copy.next
    BY <1>2, <1>3, <1>4, FetcherMoves
  <1>10. QED
    BY <1>1, <1>7, <1>8, <1>9, ArgStep

\* An immediate is read whole, in one part or two, or the buffer ends.
LEMMA ImmArgStep == Inv /\ ImmArg => Inv'
  <1> SUFFICES ASSUME Inv, ImmArg PROVE Inv'
    OBVIOUS
  <1> DEFINE n == ImmBytes
             f == fetcher_copy
             sx == IF SxByte /\ n = 1 THEN TRUE ELSE dest.sx
             here == [dest EXCEPT !.args[argi] = Arg, !.sx = sx]
             whole == CASE Imm64 -> [here EXCEPT !.imm = Slice(f, 4),
                                       !.disp = Slice(Advance(f, 4), 4),
                                       !.imm64 = TRUE]
                        [] ~Imm64 /\ SecondImm ->
                             [here EXCEPT !.disp = Slice(f, n)]
                        [] OTHER -> [here EXCEPT !.imm = Slice(f, n)]
  <1>1. AtArg /\ Arg.size > 0 /\ argi \in 1..4
    BY DEF ImmArg, AtArg
  <1>2. ArgFrame
    <2>1. \A msg \in {"internal error", "imm64_sx32 missing", "limit exceeded (10)"} :
            msg \in Messages \ {""}
      BY DEF Messages
    <2>2. (CASE n = 0 /\ SxByte -> "internal error"
             [] n = 0 /\ ~SxByte -> "imm64_sx32 missing"
             [] OTHER -> "limit exceeded (10)")
          \in {"internal error", "imm64_sx32 missing", "limit exceeded (10)"}
      OBVIOUS
    <2>3. QED
      BY <2>1, <2>2 DEF ImmArg, ArgFrame, NextArg, Fail
  <1>3. buf \in Seq(Byte) /\ Within(f) /\ dest \in Icodes /\ f.next \in Nat
    <2>1. buf \in Seq(Byte) /\ Within(f) /\ dest \in Icodes
      BY DEF Inv, TypeOK, Positions
    <2>2. QED
      BY <2>1 DEF Within
  <1>4. n \in Nat /\ (Imm64 => n = 8)
    <2>1. Arg.size \in Nat
      BY <1>1, ArgType DEF Args
    <2>2. QED
      BY <2>1 DEF ImmBytes, Imm64
  <1>5. /\ state' = [state EXCEPT !.imm2_offset = f.next]
           \/ state' = [state EXCEPT !.imm1_offset = f.next]
        /\ \/ Has(f, n) /\ fetcher_copy' = Advance(f, n) /\ dest' = whole
           \/ dest' = here /\ fetcher_copy' \in {f, Drained(f)}
    <2>1. here = [dest EXCEPT !.args[argi] = Arg,
                              !.sx = IF SxByte /\ n = 1 THEN TRUE ELSE @]
      BY <1>3 DEF Icodes
    <2>2. QED
      BY <2>1 DEF ImmArg
  <1>6. here \in Icodes
    <2> DEFINE arg == [dest EXCEPT !.args[argi] = Arg]
    <2>1. arg \in Icodes
      BY <1>1, WithArgType
    <2>2. sx \in BOOLEAN
      BY <1>3 DEF Icodes
    <2>3. here = [arg EXCEPT !.sx = sx]
      BY <1>3 DEF Icodes
    <2> HIDE DEF arg, here, sx
    <2>4. QED
      BY <2>1, <2>2, <2>3, IcodeFlag
  <1> HIDE DEF n, here
  <1>7. ASSUME Has(f, n)
        PROVE  whole \in Icodes
    <2>1. Slice(f, n) \in Slices /\ Slice(f, 4) \in Slices
      BY <1>3, <1>4, SliceType
    <2>2. CASE Imm64
      <3> DEFINE s4 == Slice(f, 4)
                 t4 == Slice(Advance(f, 4), 4)
      <3>1. Has(f, 4)
        BY <1>3, <1>4, <1>7, <2>2 DEF Has, Within
      <3>2. Within(Advance(f, 4))
        BY <1>3, <3>1, FetcherMoves
      <3>3. t4 \in Slices
        BY <1>3, <3>2, SliceType
      <3>4. whole = [here EXCEPT !.imm = s4, !.disp = t4, !.imm64 = TRUE]
        BY <2>2
      <3>5. s4 \in Slices
        BY <2>1
      <3> HIDE DEF s4, t4, whole
      <3>6. [here EXCEPT !.imm = s4] \in Icodes
        BY <1>6, <3>5, IcodeSlice
      <3>7. [[here EXCEPT !.imm = s4] EXCEPT !.disp = t4] \in Icodes
        BY <3>3, <3>6, IcodeSlice
      <3>8. [[[here EXCEPT !.imm = s4] EXCEPT !.disp = t4] EXCEPT !.imm64 = TRUE]
              \in Icodes
        BY <3>7, IcodeFlag
      <3>9. QED
        BY <3>4, <3>8
    <2>3. CASE ~Imm64
      <3>1. whole = [here EXCEPT !.disp = Slice(f, n)]
              \/ whole = [here EXCEPT !.imm = Slice(f, n)]
        BY <2>3
      <3> HIDE DEF whole
      <3>2. QED
        BY <1>6, <2>1, <3>1, IcodeSlice
    <2>4. QED
      BY <2>2, <2>3
  <1> HIDE DEF whole
  <1>8. dest' \in Icodes
    BY <1>5, <1>6, <1>7
  <1>9. state' \in DecoderStates /\ state'.insn_size = state.insn_size
    <2>1. state \in DecoderStates
      BY DEF Inv, TypeOK
    <2>2. state' \in DecoderStates
      BY <1>3, <1>5, <2>1, StateOffset
    <2>3. QED
      BY <1>5, <2>1, <2>2 DEF DecoderStates
  <1>10. Within(fetcher_copy') /\ fetcher_copy'.next >= fetcher_copy.next
    <2>1. Has(f, n) => Within(Advance(f, n)) /\ Advance(f, n).next >= f.next
      <3>1. Has(f, n) => Within(Advance(f, n)) /\ Advance(f, n).next = f.next + n
        BY <1>3, <1>4, FetcherMoves
      <3>2. QED
        BY <1>3, <1>4, <3>1
    <2>2. Within(Drained(f)) /\ Drained(f).next >= f.next /\ f.next >= f.next
      BY <1>3, FetcherMoves
    <2>3. QED
      BY <1>3, <1>5, <2>1, <2>2
  <1>11. QED
    BY <1>1, <1>2, <1>8, <1>9, <1>10, ArgStep

\* The number of a register operand is a byte.
LEMMA RegisterNumberType ==
  ASSUME Inv
  PROVE  RegisterNumber \in Byte
  <1>1. state.modrm0 \in Byte /\ state.opcode0 \in 0..511
    BY DEF Inv, TypeOK, DecoderStates
  <1>2. p.rex_b \in 0..1 /\ p.rex_r \in 0..1
    BY DEF Inv, TypeOK, Prefixes
  <1>3. /\ RegField(state.modrm0) \in 0..7 /\ Rm(state.modrm0) \in 0..7
        /\ state.opcode0 % 8 \in 0..7
    BY <1>1, ModRMFields
  <1>4. QED
    BY <1>2, <1>3 DEF RegisterNumber, Byte

\* A register operand gets its number, or the number is an error.
LEMMA RegArgStep == Inv /\ RegArg => Inv'
  <1> SUFFICES ASSUME Inv, RegArg PROVE Inv'
    OBVIOUS
  <1> DEFINE n == IF Arg.value = DefaultValue THEN RegisterNumber ELSE Arg.value
             a == [Arg EXCEPT !.value = n]
  <1>1. AtArg /\ argi \in 1..4 /\ fetcher_copy' = fetcher_copy /\ state' = state
        /\ dest' = [dest EXCEPT !.args[argi] = a]
    BY DEF RegArg, AtArg
  <1>2. ArgFrame
    <2>1. "invalid opcode: seg reg of 6 or 7 specified" \in Messages \ {""}
      BY DEF Messages
    <2>2. QED
      BY <2>1 DEF RegArg, ArgFrame, NextArg, Fail
  <1>3. dest' \in Icodes
    <2>1. Arg \in Args
      BY <1>1, ArgType
    <2>2. n \in Byte
      BY <2>1, RegisterNumberType DEF Args
    <2> HIDE DEF n
    <2>3. a \in Args
      BY <2>1, <2>2 DEF Args
    <2> HIDE DEF a
    <2>4. QED
      BY <1>1, <2>3, ArgUpdate DEF Inv, TypeOK
  <1> HIDE DEF a, n
  <1>4. Within(fetcher_copy) /\ fetcher_copy.next >= fetcher_copy.next
    <2>1. Within(fetcher_copy)
      BY DEF Inv, Positions
    <2>2. QED
      BY <2>1 DEF Within
  <1>5. Within(fetcher_copy') /\ fetcher_copy'.next >= fetcher_copy.next
    BY <1>1, <1>4
  <1>6. state' \in DecoderStates /\ state'.insn_size = state.insn_size
    BY <1>1 DEF Inv, TypeOK
  <1>7. QED
    BY <1>1, <1>2, <1>3, <1>5, <1>6, ArgStep

\* The operands are complete: the size of the instruction is where the
\* attempt's fetcher stands, and that is positive.
LEMMA EndArgsStep == Inv /\ EndArgs => Inv'
  <1> SUFFICES ASSUME Inv, EndArgs PROVE Inv'
    OBVIOUS
  <1>1. num_bytes' = num_bytes /\ buf \in Seq(Byte) /\ Within(fetcher_copy)
    BY DEF EndArgs, caller, num_bytes, Inv, TypeOK, Positions
  <1>2. fetcher_copy.next \in 1..num_bytes /\ fetcher_copy.next \in 0..31
    <2>1. fetcher_copy.next > 0
      BY DEF EndArgs, Inv, Positions
    <2>2. /\ fetcher_copy.next \in 0..num_bytes /\ num_bytes \in Nat
          /\ num_bytes <= MaxBytes /\ MaxBytes \in 1..31
      BY <1>1, WithinType, NumBytes, BytesAssumption DEF num_bytes
    <2>3. QED
      BY <2>1, <2>2
  <1>3. \/ /\ status' = "invalid opcode: lock used with nonlockable instruction"
           /\ UNCHANGED state
        \/ /\ status' = "" /\ state' = [state EXCEPT !.insn_size = fetcher_copy.next]
    BY DEF EndArgs, Fail
  <1>4. pc' = "judge" /\ UNCHANGED <<caller, fetcher_copy, node, argi, dest>>
    BY DEF EndArgs, Fail
  <1>5. state \in DecoderStates /\ TypeOK
    BY DEF Inv, TypeOK
  <1>6. state' \in DecoderStates /\ status' \in Messages
    <2>1. "" \in Messages
          /\ "invalid opcode: lock used with nonlockable instruction" \in Messages
      BY DEF Messages
    <2>2. QED
      BY <1>2, <1>3, <1>5, <2>1, StateSize
  <1>7. status' = "" => state'.insn_size \in 1..num_bytes
    BY <1>2, <1>3, <1>5 DEF DecoderStates
  <1>8. TypeOK'
    BY <1>4, <1>5, <1>6 DEF TypeOK, caller
  <1>9. Positions'
    BY <1>1, <1>4, <1>7 DEF Inv, Positions, Within, caller
  <1>10. QED
    BY <1>8, <1>9 DEF Inv

-----------------------------------------------------------------------------
(* What becomes of the attempt *)

\* The second attempt begins one byte back, which exists behind an FWAIT.
LEMMA FallBackStep == Inv /\ FallBack => Inv'
  <1> SUFFICES ASSUME Inv, FallBack PROVE Inv'
    OBVIOUS
  <1>1. num_bytes' = num_bytes /\ buf \in Seq(Byte) /\ Within(fetcher)
    BY DEF FallBack, inputs, num_bytes, Inv, TypeOK, Positions
  <1>2. got_fwait /\ fetcher.next > 0
    BY DEF FallBack, Rejected, Inv, Positions
  <1>3. Within(GoBack(fetcher))
    BY <1>1, <1>2, FetcherMoves
  <1>4. GoBack(fetcher) \in [left : 0..MaxBytes, next : 0..MaxBytes]
    BY <1>1, <1>3, WithinType
  <1>5. dest' \in Icodes
    <2>1. dest' = [dest EXCEPT !.fwait = 0] /\ 0 \in 0..2
      BY DEF FallBack
    <2>2. QED
      BY <2>1, IcodeWidth DEF Inv, TypeOK
  <1>6. TypeOK'
    BY <1>4, <1>5, NoPrefixType DEF Inv, TypeOK, FallBack, inputs
  <1>7. Positions'
    BY <1>1, <1>2, <1>3, NoPrefixType DEF Inv, Positions, Within, FallBack
  <1>8. QED
    BY <1>6, <1>7 DEF Inv

\* do_decode returns the outcome unless the instruction is too long.
LEMMA ReturnStep == Inv /\ Return => Inv'
  <1> SUFFICES ASSUME Inv, Return PROVE Inv'
    OBVIOUS
  <1> DEFINE ok == attempt = 1 /\ status = ""
             fwait == CASE ok /\ p.wait_used -> 2
                        [] ok /\ ~p.wait_used /\ ~TooLong /\ Fwaitable -> 1
                        [] OTHER -> 0
  <1>1. /\ UNCHANGED <<caller, fetcher_copy, node, argi, state>> /\ pc' = "done"
        /\ status' = (IF ok /\ TooLong THEN "instruction exceeds 15 bytes" ELSE status)
        /\ dest' = [dest EXCEPT !.fwait = fwait]
        /\ pc = "judge"
    BY DEF Return
  <1>2. num_bytes' = num_bytes
    BY <1>1 DEF caller, num_bytes
  <1>3. fwait \in 0..2
    OBVIOUS
  <1> HIDE DEF fwait
  <1>4. dest' \in Icodes
    BY <1>1, <1>3, IcodeWidth DEF Inv, TypeOK
  <1>5. status' \in Messages
    <2>1. "instruction exceeds 15 bytes" \in Messages
      BY DEF Messages
    <2>2. QED
      BY <1>1, <2>1 DEF Inv, TypeOK
  <1>6. TypeOK'
    <2>1. TypeOK
      BY DEF Inv
    <2>2. QED
      BY <1>1, <1>4, <1>5, <2>1 DEF TypeOK, caller
  <1>7. ASSUME status' = ""
        PROVE  state.insn_size \in 1..num_bytes
               /\ (got_fwait \/ state.insn_size <= MaxInsn)
    <2>1. status = "" /\ ~(ok /\ TooLong)
      BY <1>1, <1>7
    <2>2. state.insn_size \in 1..num_bytes
      BY <1>1, <2>1 DEF Inv, Positions
    <2>3. CASE attempt = 1
      <3>1. p.wait_used \/ ~(state.insn_size > MaxInsn)
        BY <2>1, <2>3 DEF TooLong
      <3>2. state \in DecoderStates /\ (p.wait_used => got_fwait)
        BY DEF Inv, TypeOK, Positions
      <3>3. state.insn_size \in 0..31 /\ MaxInsn \in Int
        BY <3>2, BytesAssumption DEF DecoderStates
      <3>4. QED
        BY <2>2, <3>1, <3>2, <3>3
    <2>4. CASE attempt = 2
      BY <2>2, <2>4 DEF Inv, Positions
    <2>5. QED
      BY <2>3, <2>4 DEF Inv, TypeOK
  <1>8. Positions'
    BY <1>1, <1>2, <1>7 DEF Inv, Positions, Within, caller
  <1>9. QED
    BY <1>6, <1>8 DEF Inv

-----------------------------------------------------------------------------
(* The theorems *)

\* crudasm_intel_decode's cleared icode and state have their types.
LEMMA InitialTypes ==
  dsz \in 0..2 => NewIcode(dsz) \in Icodes /\ NewState \in DecoderStates
  <1> SUFFICES ASSUME dsz \in 0..2
               PROVE  NewIcode(dsz) \in Icodes /\ NewState \in DecoderStates
    OBVIOUS
  <1>1. NoSlice \in Slices /\ NoOffset \in Nat /\ 0 \in Byte
    BY DEF NoSlice, Slices, NoOffset, Byte
  <1>2. [i \in 1..4 |-> VoidArg] \in [1..4 -> Args]
    BY DEF VoidArg, Args, ArgTypes, Byte
  <1>3. [base |-> NoReg, index |-> NoReg, scale |-> 0, sreg |-> NoSeg,
         disp8 |-> FALSE] \in Addresses
    BY DEF Addresses, NoReg, NoSeg
  <1>4. NewState \in DecoderStates
    BY <1>1 DEF NewState, DecoderStates
  <1>5. NewIcode(dsz) \in Icodes
    BY <1>1, <1>2, <1>3 DEF NewIcode, Icodes
  <1>6. QED
    BY <1>4, <1>5

\* The invariant holds at the start of a call.
LEMMA InvInit == Init => Inv
  <1> SUFFICES ASSUME Init PROVE Inv
    OBVIOUS
  <1>1. buf \in Seq(Byte) /\ dsz \in 0..2 /\ dsz \in Modes
    BY BuffersAssumption, ModesAssumption DEF Init
  <1>2. fetcher = [left |-> num_bytes, next |-> 0] /\ num_bytes \in Nat
    BY <1>1, NumBytes DEF Init
  <1>3. Within(fetcher) /\ Within(fetcher_copy) /\ fetcher_copy = fetcher
    <2>1. fetcher \in [left : Nat, next : Nat]
      BY <1>2
    <2>2. fetcher.left = num_bytes /\ fetcher.next = 0
      BY <1>2
    <2>3. fetcher_copy = fetcher
      BY DEF Init
    <2>4. QED
      BY <1>2, <2>1, <2>2, <2>3 DEF Within
  <1>4. /\ fetcher \in [left : 0..MaxBytes, next : 0..MaxBytes]
        /\ fetcher_copy \in [left : 0..MaxBytes, next : 0..MaxBytes]
    BY <1>1, <1>3, WithinType
  <1>5. dest \in Icodes /\ state \in DecoderStates
    BY <1>1, InitialTypes DEF Init
  <1>6. status \in Messages /\ status # "" /\ pc \in {"prefix", "done"}
    BY DEF Init, Messages
  <1>7. p \in Prefixes /\ ~p.wait_used
    BY NoPrefixType DEF Init
  <1>8. got_fwait = FALSE /\ attempt = 1 /\ argi = 1
    BY DEF Init
  <1>9. node \in DOMAIN Table
    BY TableAssumption DEF Init
  <1>10. TypeOK
    <2>1. argi \in 1..5
      <3>1. argi = 1
        BY <1>8
      <3>2. QED
        BY <3>1
    <2>2. attempt \in {1, 2}
      <3>1. attempt = 1
        BY <1>8
      <3>2. QED
        BY <3>1
    <2>3. got_fwait \in BOOLEAN
      BY <1>8
    <2>4. pc \in {"prefix", "rex", "fwait", "try", "walk", "args", "judge", "done"}
      BY <1>6
    <2>5. QED
      BY <1>1, <1>4, <1>5, <1>6, <1>7, <1>9, <2>1, <2>2, <2>3, <2>4 DEF TypeOK
  <1>11. Positions
    <2>1. Within(fetcher) /\ Within(fetcher_copy)
      BY <1>3
    <2>2. ~got_fwait
      BY <1>8
    <2>3. attempt # 2
      <3>1. attempt = 1
        BY <1>8
      <3>2. QED
        BY <3>1
    <2>4. pc # "walk" /\ pc # "args" /\ status # ""
      BY <1>6
    <2>5. QED
      BY <1>7, <2>1, <2>2, <2>3, <2>4 DEF Positions
  <1>12. QED
    BY <1>10, <1>11 DEF Inv

\* Every step of the decoder keeps the invariant.
LEMMA InvStep == Inv /\ [Next]_vars => Inv'
  <1> SUFFICES ASSUME Inv, [Next]_vars PROVE Inv'
    OBVIOUS
  <1>1. CASE TakePrefixes
    BY <1>1, TakePrefixStep, LimitExceededStep, EndPrefixesStep, TakeRexStep,
      NoRexStep, TakeFwaitStep, NoFwaitStep DEF TakePrefixes
  <1>2. CASE Walk
    BY <1>2, EnterTryStep, EnterTryTooShortStep, WalkByteStep, WalkModeStep,
      WalkModRMStep, InvalidOpcodeStep, LeafStep DEF Walk
  <1>3. CASE get_arguments
    BY <1>3, UnsupportedArgumentStep, FullDispArgStep, ImplicitImmArgStep,
      ImmArgStep, RegArgStep, MemArgStep, EndArgsStep DEF get_arguments
  <1>4. CASE Finish
    BY <1>4, FallBackStep, ReturnStep DEF Finish
  <1>5. CASE UNCHANGED vars
    <2>1. num_bytes' = num_bytes
      BY <1>5 DEF vars, num_bytes
    <2>2. TypeOK'
      BY <1>5 DEF Inv, TypeOK, vars
    <2>3. Positions'
      BY <1>5, <2>1 DEF Inv, Positions, Within, vars
    <2>4. QED
      BY <2>2, <2>3 DEF Inv
  <1>6. QED
    BY <1>1, <1>2, <1>3, <1>4, <1>5 DEF Next, Step, Returned

\* The inductive invariant of the decoder: types, and where the fetchers stand.
THEOREM InvAlways == Spec => []Inv
  <1>1. Init => Inv
    BY InvInit
  <1>2. Inv /\ [Next]_vars => Inv'
    BY InvStep
  <1>3. QED
    BY <1>1, <1>2, PTL DEF Spec

\* The variables of the decoder keep their types, whatever the table, the
\* mode and the buffer.
THEOREM TypeCorrect == Spec => []TypeOK
  <1>1. Inv => TypeOK
    BY DEF Inv
  <1>2. QED
    BY <1>1, InvAlways, PTL

\* No byte outside the buffer is fetched: both fetchers always account for
\* every byte the decoder may look at, in the second attempt too.
THEOREM FetcherAlwaysInBuffer == Spec => []FetcherInBuffer
  <1>1. Inv => FetcherInBuffer
    BY WithinType DEF Inv, TypeOK, Positions, Within, FetcherInBuffer
  <1>2. QED
    BY <1>1, InvAlways, PTL

\* What the decoder reports as the size of an instruction is positive and
\* does not pass the end of the buffer, nor the limit of an instruction.
THEOREM SizeAlwaysInBuffer == Spec => []SizeInBuffer
  <1>1. Inv => SizeInBuffer
    BY DEF Inv, Positions, SizeInBuffer, Succeeded, Returning
  <1>2. QED
    BY <1>1, InvAlways, PTL

-----------------------------------------------------------------------------
(* What the prefixes say, and where the attempts begin *)

\* All bytes of b from offset first to n - 1 are prefixes.
AllPrefixes(b, first, n) == \A i \in first..(n - 1) : IsPrefix(b[i + 1])

\* The prefixes of a kind among the bytes from first to n - 1.
Of(b, first, n, S) == {i \in first..(n - 1) : b[i + 1] \in S}

Segs == {38, 46, 54, 62, 100, 101}
Reps == {242, 243}

\* The prefix state q says what the bytes from first to n - 1 say: the last
\* segment prefix, and LOCK or else the first of REPNE and REP.
SaysSegment(q, b, first, n) ==
  \/ Of(b, first, n, Segs) = {} /\ q.sreg = NoSeg
  \/ \E i \in Of(b, first, n, Segs) :
       (\A j \in Of(b, first, n, Segs) : j <= i) /\ q.sreg = SegOf(b[i + 1])
SaysRepeat(q, b, first, n) ==
  \/ Of(b, first, n, {LOCK}) # {} /\ q.lockrep = 1
  \/ Of(b, first, n, {LOCK}) = {} /\ Of(b, first, n, Reps) = {} /\ q.lockrep = 0
  \/ /\ Of(b, first, n, {LOCK}) = {}
     /\ \E i \in Of(b, first, n, Reps) :
          (\A j \in Of(b, first, n, Reps) : i <= j) /\ q.lockrep = b[i + 1] - 240
Says(q, b, first, n) ==
  /\ q.op66 = (Of(b, first, n, {OP66}) # {})
  /\ q.op67 = (Of(b, first, n, {OP67}) # {})
  /\ SaysSegment(q, b, first, n)
  /\ SaysRepeat(q, b, first, n)

\* The bits of a REX prefix, or of none.
NoRexBits(q) == /\ q.rex_used = FALSE
                /\ q.rex_w = 0 /\ q.rex_r = 0 /\ q.rex_x = 0 /\ q.rex_b = 0
RexBits(q, c) ==
  /\ q.rex_used = TRUE
  /\ q.rex_w = (c \div 8) % 2 /\ q.rex_r = (c \div 4) % 2
  /\ q.rex_x = (c \div 2) % 2 /\ q.rex_b = c % 2

\* Offset of the first prefix that counts.
Start == IF got_fwait THEN FwaitAt + 1 ELSE 0

Collected(n) == Start \in 0..n /\ AllPrefixes(buf, Start, n) /\ Says(p, buf, Start, n)

\* do_decode's position: at an opcode behind legacy prefixes, behind a REX
\* prefix, or at the end of a buffer whose prefixes were dropped.
AtOpcode  == /\ Has(fetcher, 1) /\ ~IsPrefix(At(fetcher))
             /\ Collected(fetcher.next) /\ NoRexBits(p)
BehindRex == /\ dsz = 2 /\ fetcher.next > 0
             /\ IsRex(ByteOf(fetcher.next - 1))
             /\ Collected(fetcher.next - 1)
             /\ RexBits(p, ByteOf(fetcher.next - 1))
AtEnd     == /\ ~Has(fetcher, 1) /\ got_fwait
             /\ Start \in 0..fetcher.next /\ AllPrefixes(buf, Start, fetcher.next)
             /\ NoRexBits(p)

\* The prefixes have been collected.
Decoding == pc \in {"try", "walk", "args", "judge"} \/ (pc = "done" /\ status = "")

Collecting ==
  /\ got_fwait => FwaitAt \in 0..(fetcher.next - 1)
  /\ pc \in {"prefix", "rex", "fwait"} => attempt = 1 /\ ~p.wait_used
  /\ pc = "prefix" => Collected(fetcher.next) /\ NoRexBits(p)
  /\ pc = "rex"    => AtOpcode \/ AtEnd
  /\ pc = "fwait"  => (AtOpcode /\ ~RexHere) \/ BehindRex \/ AtEnd
  /\ (Decoding /\ attempt = 1) =>
       /\ AtOpcode \/ BehindRex \/ AtEnd
       /\ p.wait_used = got_fwait
       /\ ~got_fwait => FwaitAt = -1
  /\ attempt = 2 =>
       /\ got_fwait /\ p = NoPrefix
       /\ \A i \in (FwaitAt + 1)..(fetcher.next - 1) :
            IsPrefix(ByteOf(i)) \/ (dsz = 2 /\ IsRex(ByteOf(i)))

\* Where try_decode began, and what it noted there.
Began ==
  /\ pc = "try" => fetcher_copy = IF attempt = 1 THEN fetcher ELSE GoBack(fetcher)
  /\ (pc \in {"walk", "args"} \/ (pc \in {"judge", "done"} /\ status = "")) =>
       /\ dest.lockrep = p.lockrep
       /\ state.prefix_size = IF attempt = 1 THEN fetcher.next ELSE fetcher.next - 1
       /\ attempt = 1 => Has(fetcher, 1)

AllVoid(ic) == \A i \in 1..4 : ic.args[i].type = "void"

\* The byte at which the second attempt begins.
SecondByte == ByteOf(fetcher.next - 1)

\* The second attempt, one byte back.
Second ==
  attempt = 2 =>
    /\ pc = "walk" =>
         \/ node = Root /\ fetcher_copy.next = fetcher.next - 1
         \/ node = Table[Root].kids[SecondByte] /\ fetcher_copy.next = fetcher.next
    /\ pc = "args" => /\ SecondByte = FWAIT /\ AllVoid(dest)
                      /\ fetcher_copy.next = fetcher.next
    /\ (pc \in {"judge", "done"} /\ status = "") =>
         /\ SecondByte = FWAIT /\ AllVoid(dest)
         /\ state.insn_size = fetcher.next

\* What dest.fwait tells the printer.
Noted ==
  (pc = "done" /\ status = "") =>
    /\ (dest.fwait = 2) = (got_fwait /\ attempt = 1)
    /\ (dest.fwait = 2) => "fwaitable" \in Encodings[dest.encoding].itags

\* What the tests on bytes say of each other.
LEMMA ByteClasses ==
  ASSUME NEW c
  PROVE  /\ IsPrefix(c) => c # FWAIT /\ ~IsRex(c)
         /\ IsRex(c) => c # FWAIT
         /\ IsPrefix(c) <=> c \in {38, 46, 54, 62, 100, 101, 102, 103, 240, 242, 243}
         /\ IsSegPrefix(c) <=> c \in Segs
         /\ IsRep(c) <=> c \in Reps
BY DEF IsPrefix, IsSegPrefix, IsRep, IsRex, FWAIT, LOCK, OP66, OP67, Segs, Reps

\* A byte more.
LEMMA OfNext ==
  ASSUME NEW b, NEW first \in Nat, NEW n \in Nat, first <= n
  PROVE  \A S : Of(b, first, n + 1, S) =
                  IF b[n + 1] \in S THEN Of(b, first, n, S) \cup {n} ELSE Of(b, first, n, S)
  <1>1. first..((n + 1) - 1) = (first..(n - 1)) \cup {n} /\ n \notin first..(n - 1)
    OBVIOUS
  <1>2. QED
    BY <1>1 DEF Of

\* No bytes, no prefixes.
LEMMA SaysNothing ==
  ASSUME NEW b, NEW n \in Nat
  PROVE  Says(NoPrefix, b, n, n) /\ AllPrefixes(b, n, n) /\ NoRexBits(NoPrefix)
  <1>1. \A S : Of(b, n, n, S) = {}
    BY DEF Of
  <1>2. AllPrefixes(b, n, n)
    BY DEF AllPrefixes
  <1>3. NoRexBits(NoPrefix)
    BY DEF NoRexBits, NoPrefix
  <1>4. Says(NoPrefix, b, n, n)
    BY <1>1 DEF Says, SaysSegment, SaysRepeat, NoPrefix
  <1>5. QED
    BY <1>2, <1>3, <1>4

\* AddPrefix keeps what the prefixes say.
LEMMA SaysNext ==
  ASSUME NEW b, NEW first \in Nat, NEW n \in Nat, first <= n,
         NEW q \in Prefixes, Says(q, b, first, n), IsPrefix(b[n + 1]), b[n + 1] \in Byte
  PROVE  Says(AddPrefix(q, b[n + 1]), b, first, n + 1)
  <1> DEFINE c == b[n + 1]
             r == AddPrefix(q, c)
  <1>1. \A S : Of(b, first, n + 1, S) =
                  IF c \in S THEN Of(b, first, n, S) \cup {n} ELSE Of(b, first, n, S)
    BY OfNext
  <1>2. \A S : \A i \in Of(b, first, n, S) : i \in Int /\ i < n
    BY DEF Of
  <1>3. q.op66 = (Of(b, first, n, {OP66}) # {})
    BY DEF Says
  <1>4. q.op67 = (Of(b, first, n, {OP67}) # {})
    BY DEF Says
  <1>5. SaysSegment(q, b, first, n) /\ SaysRepeat(q, b, first, n)
    BY DEF Says
  <1>6. c \in Segs \cup Reps \cup {LOCK, OP66, OP67}
    BY ByteClasses DEF IsPrefix
  <1>7. /\ c \in Segs => r = [q EXCEPT !.sreg = SegOf(c)]
        /\ c = OP66   => r = [q EXCEPT !.op66 = TRUE]
        /\ c = OP67   => r = [q EXCEPT !.op67 = TRUE]
        /\ c = LOCK   => r = [q EXCEPT !.lockrep = 1]
        /\ c \in Reps => r = [q EXCEPT !.lockrep = IF @ = 0 THEN c % 4 ELSE @]
    BY DEF AddPrefix, IsSegPrefix, IsRep, LOCK, OP66, OP67, Segs, Reps
  <1>8. /\ c \notin Segs => r.sreg = q.sreg
        /\ c \in Segs => r.sreg = SegOf(c)
        /\ c \notin Reps \cup {LOCK} => r.lockrep = q.lockrep
        /\ c = LOCK => r.lockrep = 1
        /\ c \in Reps => r.lockrep = IF q.lockrep = 0 THEN c % 4 ELSE q.lockrep
        /\ c # OP66 => r.op66 = q.op66
        /\ c = OP66 => r.op66 = TRUE
        /\ c # OP67 => r.op67 = q.op67
        /\ c = OP67 => r.op67 = TRUE
    BY <1>6, <1>7 DEF Prefixes, Segs, Reps, LOCK, OP66, OP67
  <1> HIDE DEF r, c
  <1>9. r.op66 = (Of(b, first, n + 1, {OP66}) # {})
    <2>1. CASE c = OP66
      BY <1>1, <1>8, <2>1
    <2>2. CASE c # OP66
      BY <1>1, <1>3, <1>8, <2>2
    <2>3. QED
      BY <2>1, <2>2
  <1>10. r.op67 = (Of(b, first, n + 1, {OP67}) # {})
    <2>1. CASE c = OP67
      BY <1>1, <1>8, <2>1
    <2>2. CASE c # OP67
      BY <1>1, <1>4, <1>8, <2>2
    <2>3. QED
      BY <2>1, <2>2
  <1>11. SaysSegment(r, b, first, n + 1)
    <2>1. CASE c \in Segs
      <3>1. /\ n \in Of(b, first, n + 1, Segs)
            /\ \A j \in Of(b, first, n + 1, Segs) : j <= n
        <4>1. Of(b, first, n + 1, Segs) = Of(b, first, n, Segs) \cup {n}
          BY <1>1, <2>1
        <4>2. \A j \in Of(b, first, n, Segs) : j \in Int /\ j < n
          BY <1>2
        <4>3. QED
          BY <4>1, <4>2
      <3>2. r.sreg = SegOf(b[n + 1])
        BY <1>8, <2>1 DEF c
      <3>3. QED
        BY <3>1, <3>2 DEF SaysSegment
    <2>2. CASE c \notin Segs
      BY <1>1, <1>5, <1>8, <2>2 DEF SaysSegment
    <2>3. QED
      BY <2>1, <2>2
  <1>12. SaysRepeat(r, b, first, n + 1)
    <2>1. CASE c \notin Reps \cup {LOCK}
      BY <1>1, <1>5, <1>8, <2>1, ZenonT(30) DEF SaysRepeat
    <2>2. CASE c = LOCK
      BY <1>1, <1>8, <2>2 DEF SaysRepeat
    <2>3. CASE c \in Reps
      <3>1. /\ Of(b, first, n + 1, {LOCK}) = Of(b, first, n, {LOCK})
            /\ Of(b, first, n + 1, Reps) = Of(b, first, n, Reps) \cup {n}
        <4>1. c \notin {LOCK}
          BY <2>3 DEF Reps, LOCK
        <4>2. QED
          BY <1>1, <2>3, <4>1
      <3>2. r.lockrep = IF q.lockrep = 0 THEN c % 4 ELSE q.lockrep
        BY <1>8, <2>3
      <3>3. CASE Of(b, first, n, {LOCK}) # {} /\ q.lockrep = 1
        BY <3>1, <3>2, <3>3 DEF SaysRepeat
      <3>4. CASE Of(b, first, n, {LOCK}) = {} /\ Of(b, first, n, Reps) = {} /\ q.lockrep = 0
        <4>1. c % 4 = c - 240
          BY <2>3 DEF Reps
        <4>2. Of(b, first, n + 1, Reps) = {n} /\ r.lockrep = b[n + 1] - 240
          BY <3>1, <3>2, <3>4, <4>1 DEF c
        <4>3. \A j \in Of(b, first, n + 1, Reps) : n <= j
          BY <4>2
        <4>4. QED
          BY <3>1, <3>4, <4>2, <4>3 DEF SaysRepeat
      <3>5. CASE /\ Of(b, first, n, {LOCK}) = {}
                 /\ \E i \in Of(b, first, n, Reps) :
                      /\ \A j \in Of(b, first, n, Reps) : i <= j
                      /\ q.lockrep = b[i + 1] - 240
        <4>1. PICK i \in Of(b, first, n, Reps) :
                /\ \A j \in Of(b, first, n, Reps) : i <= j
                /\ q.lockrep = b[i + 1] - 240
          BY <3>5
        <4>2. b[i + 1] \in Reps /\ i < n /\ i \in Int
          BY DEF Of
        <4>3. r.lockrep = b[i + 1] - 240
          BY <3>2, <4>1, <4>2 DEF Reps
        <4>4. \A j \in Of(b, first, n + 1, Reps) : i <= j
          BY <3>1, <4>1, <4>2
        <4>5. QED
          BY <3>1, <3>5, <4>3, <4>4 DEF SaysRepeat
      <3>6. QED
        BY <1>5, <3>3, <3>4, <3>5 DEF SaysRepeat
    <2>4. QED
      BY <1>6, <2>1, <2>2, <2>3
  <1>13. QED
    BY <1>9, <1>10, <1>11, <1>12 DEF Says, r, c

\* The FWAIT of a buffer, if it has one, is at offset i.
FwaitIs(i) ==
  /\ i \in 0..(num_bytes - 1) /\ ByteOf(i) = FWAIT
  /\ \A j \in 0..(i - 1) :
       IsPrefix(ByteOf(j)) \/ (dsz = 2 /\ IsRex(ByteOf(j)) /\ ByteOf(j + 1) = FWAIT)

\* There is one at most.
LEMMA FwaitUnique ==
  ASSUME NEW i, FwaitIs(i), NEW j, FwaitIs(j)
  PROVE  i <= j
  <1>1. i \in Int /\ j \in Int /\ 0 <= j
    BY DEF FwaitIs
  <1>2. CASE j < i
    <2>1. j \in 0..(i - 1)
      BY <1>1, <1>2
    <2>2. IsPrefix(ByteOf(j)) \/ IsRex(ByteOf(j))
      BY <2>1 DEF FwaitIs
    <2>3. QED
      BY <2>2, ByteClasses DEF FwaitIs
  <1>3. QED
    BY <1>1, <1>2

\* What FwaitAt stands for.
LEMMA FwaitOffset ==
  ASSUME num_bytes \in Nat
  PROVE  /\ \A i : FwaitIs(i) => FwaitAt = i
         /\ (\A i \in 0..(num_bytes - 1) : ~FwaitIs(i)) => FwaitAt = -1
  <1> DEFINE found == {i \in 0..(num_bytes - 1) : FwaitIs(i)}
  <1>1. FwaitAt = IF found = {} THEN -1 ELSE CHOOSE i \in found : \A j \in found : i <= j
    <2>1. \A i : i \in found <=>
              /\ i \in Offsets(0, num_bytes) /\ ByteOf(i) = FWAIT
              /\ \A j \in Offsets(0, i - 1) :
                   \/ IsPrefix(ByteOf(j))
                   \/ dsz = 2 /\ IsRex(ByteOf(j)) /\ ByteOf(j + 1) = FWAIT
      <3>1. Offsets(0, num_bytes) = 0..(num_bytes - 1)
        BY DEF Offsets
      <3>2. \A i \in 0..(num_bytes - 1) : Offsets(0, i - 1) = 0..(i - 1)
        BY DEF Offsets
      <3>3. QED
        BY <3>1, <3>2 DEF FwaitIs
    <2>2. found = {i \in Offsets(0, num_bytes) :
              /\ ByteOf(i) = FWAIT
              /\ \A j \in Offsets(0, i - 1) :
                   \/ IsPrefix(ByteOf(j))
                   \/ dsz = 2 /\ IsRex(ByteOf(j)) /\ ByteOf(j + 1) = FWAIT}
      <3> HIDE DEF found
      <3> QED BY <2>1
    <2> HIDE DEF found
    <2>3. QED
      BY <2>2 DEF FwaitAt
  <1>2. ASSUME NEW i, FwaitIs(i) PROVE FwaitAt = i
    <2>1. i \in found /\ i \in Int /\ \A j \in found : j \in Int
      BY <1>2 DEF FwaitIs
    <2>2. \A j \in found : i <= j /\ j <= i
      BY <1>2, FwaitUnique
    <2> HIDE DEF found
    <2>3. (CHOOSE k \in found : \A j \in found : k <= j) \in found
      BY <2>1, <2>2
    <2>4. QED
      BY <1>1, <2>1, <2>2, <2>3
  <1>3. QED
    BY <1>1, <1>2

\* The bytes that do_decode's fetcher is at.
LEMMA FetcherBytes ==
  ASSUME Inv
  PROVE  /\ num_bytes \in Nat /\ fetcher.next \in 0..num_bytes
         /\ Has(fetcher, 1) <=> fetcher.next < num_bytes
         /\ At(fetcher) = ByteOf(fetcher.next)
         /\ Has(fetcher, 1) => At(fetcher) \in Byte
  <1>1. num_bytes \in Nat
    BY NumBytes DEF Inv, TypeOK
  <1>2. fetcher.left \in Nat /\ fetcher.next \in Nat /\ fetcher.left + fetcher.next = num_bytes
    BY DEF Inv, Positions, Within
  <1>3. Has(fetcher, 1) => At(fetcher) \in Byte
    BY FetcherMoves DEF Inv, TypeOK, Positions
  <1>4. QED
    BY <1>1, <1>2, <1>3 DEF Has, At, ByteOf

\* An FWAIT where the prefixes end is the one of the buffer; and when there is
\* none, the buffer has none.
LEMMA FwaitSeen ==
  ASSUME Inv, ~got_fwait, (AtOpcode /\ ~RexHere) \/ BehindRex
  PROVE  /\ FwaitHere => FwaitAt = fetcher.next
         /\ ~FwaitHere => FwaitAt = -1
  <1> DEFINE n == fetcher.next
  <1>1. /\ num_bytes \in Nat /\ n \in 0..num_bytes
        /\ Has(fetcher, 1) <=> n < num_bytes
        /\ At(fetcher) = ByteOf(n)
    BY FetcherBytes
  <1>2. Start = 0
    BY DEF Start
  <1>3. FwaitHere <=> n < num_bytes /\ ByteOf(n) = FWAIT
    BY <1>1 DEF FwaitHere
  <1>4. CASE AtOpcode /\ ~RexHere
    <2>1. \A i \in 0..(n - 1) : IsPrefix(ByteOf(i))
      BY <1>2, <1>4 DEF AtOpcode, Collected, AllPrefixes, ByteOf
    <2>2. n < num_bytes /\ ~IsPrefix(ByteOf(n)) /\ ~(dsz = 2 /\ IsRex(ByteOf(n)))
      BY <1>1, <1>4 DEF AtOpcode, RexHere
    <2>3. ByteOf(n) = FWAIT => FwaitIs(n)
      BY <1>1, <2>1, <2>2 DEF FwaitIs
    <2>4. ASSUME NEW i \in 0..(num_bytes - 1), FwaitIs(i), ByteOf(n) # FWAIT PROVE FALSE
      <3>1. i \notin 0..(n - 1)
        BY <2>1, <2>4, ByteClasses DEF FwaitIs
      <3>2. n \in 0..(i - 1)
        BY <1>1, <2>4, <3>1 DEF FwaitIs
      <3>3. QED
        BY <2>2, <2>4, <3>2 DEF FwaitIs
    <2> HIDE DEF n
    <2>5. QED
      BY <1>1, <1>3, <2>2, <2>3, <2>4, FwaitOffset DEF n
  <1>5. CASE BehindRex
    <2>1. n > 0 /\ dsz = 2 /\ IsRex(ByteOf(n - 1)) /\ \A i \in 0..(n - 2) : IsPrefix(ByteOf(i))
      <3>1. n > 0 /\ dsz = 2 /\ IsRex(ByteOf(n - 1)) /\ AllPrefixes(buf, 0, n - 1)
        BY <1>2, <1>5 DEF BehindRex, Collected
      <3>2. (n - 1) - 1 = n - 2
        BY <1>1
      <3>3. QED
        BY <3>1, <3>2 DEF AllPrefixes, ByteOf
    <2>2. ASSUME n < num_bytes, ByteOf(n) = FWAIT PROVE FwaitIs(n)
      <3>1. \A j \in 0..(n - 1) : j \in 0..(n - 2) \/ j = n - 1
        BY <1>1
      <3>2. ByteOf((n - 1) + 1) = FWAIT
        <4>1. (n - 1) + 1 = n
          BY <1>1
        <4>2. QED
          BY <2>2, <4>1
      <3> HIDE DEF n
      <3>3. QED
        BY <1>1, <2>1, <2>2, <3>1, <3>2 DEF FwaitIs
    <2>3. ASSUME NEW i \in 0..(num_bytes - 1), FwaitIs(i), n < num_bytes => ByteOf(n) # FWAIT
          PROVE  FALSE
      <3>1. i \notin 0..(n - 2)
        BY <2>1, <2>3, ByteClasses DEF FwaitIs
      <3>2. i # n - 1
        BY <2>1, <2>3, ByteClasses DEF FwaitIs
      <3>3. n - 1 \in 0..(i - 1) /\ n < num_bytes
        BY <1>1, <2>1, <2>3, <3>1, <3>2
      <3>4. ByteOf((n - 1) + 1) = FWAIT
        BY <2>1, <2>3, <3>3, ByteClasses DEF FwaitIs
      <3>5. (n - 1) + 1 = n
        BY <1>1
      <3>6. QED
        BY <2>3, <3>3, <3>4, <3>5
    <2> HIDE DEF n
    <2>4. QED
      BY <1>1, <1>3, <2>2, <2>3, FwaitOffset DEF n
  <1>6. QED
    BY <1>4, <1>5

\* FwaitAt is about the arguments of the call.
LEMMA FwaitRemains ==
  buf' = buf /\ dsz' = dsz => num_bytes' = num_bytes /\ FwaitAt' = FwaitAt
  <1>1. buf' = buf => num_bytes' = num_bytes
    BY DEF num_bytes
  <1>2. buf' = buf /\ dsz' = dsz => FwaitAt' = FwaitAt
    BY DEF FwaitAt, Offsets, ByteOf, num_bytes
  <1>3. QED
    BY <1>1, <1>2

\* A legacy prefix is added to what the prefixes say.
LEMMA CollectingTakePrefix == Inv /\ Collecting /\ TakePrefix => Collecting'
  <1> SUFFICES ASSUME Inv, Collecting, TakePrefix PROVE Collecting'
    OBVIOUS
  <1> DEFINE n == fetcher.next
             c == buf[n + 1]
  <1>1. /\ buf' = buf /\ dsz' = dsz /\ got_fwait' = got_fwait /\ attempt' = attempt
        /\ pc = "prefix" /\ pc' = "prefix" /\ status' = status
        /\ p' = AddPrefix(p, At(fetcher)) /\ fetcher'.next = n + 1
        /\ Has(fetcher, 1) /\ IsPrefix(At(fetcher))
    BY DEF TakePrefix, inputs, Accept, Advance
  <1>2. num_bytes' = num_bytes /\ FwaitAt' = FwaitAt /\ Start' = Start
    BY <1>1, FwaitRemains DEF Start
  <1>3. n \in Nat /\ At(fetcher) = c /\ c \in Byte /\ p \in Prefixes
    BY <1>1, FetcherBytes DEF Inv, TypeOK, At
  <1>4. /\ Start \in 0..n /\ AllPrefixes(buf, Start, n) /\ Says(p, buf, Start, n)
        /\ NoRexBits(p) /\ ~p.wait_used /\ attempt = 1
    BY <1>1 DEF Collecting, Collected
  <1>5. Says(p', buf, Start, n + 1)
    BY <1>1, <1>3, <1>4, SaysNext
  <1>6. AllPrefixes(buf, Start, n + 1)
    BY <1>1, <1>3, <1>4 DEF AllPrefixes
  <1>7. NoRexBits(p') /\ ~p'.wait_used
    <2>1. p'.wait_used = p.wait_used
      BY <1>1, <1>3, AddPrefixType
    <2>2. NoRexBits(p')
      BY <1>1, <1>3, <1>4 DEF AddPrefix, NoRexBits, Prefixes, IsPrefix
    <2>3. QED
      BY <1>4, <2>1, <2>2
  <1>8. Collected(fetcher.next)'
    BY <1>1, <1>2, <1>3, <1>4, <1>5, <1>6 DEF Collected
  <1>9. got_fwait' => FwaitAt' \in 0..(fetcher'.next - 1)
    BY <1>1, <1>2, <1>3 DEF Collecting
  <1>10. QED
    BY <1>1, <1>4, <1>7, <1>8, <1>9 DEF Collecting, Decoding

\* Without an opcode there is nothing to decode.
LEMMA CollectingLimitExceeded == Inv /\ Collecting /\ LimitExceeded => Collecting'
  <1> SUFFICES ASSUME Inv, Collecting, LimitExceeded PROVE Collecting'
    OBVIOUS
  <1>1. /\ pc = "prefix" /\ ~got_fwait /\ got_fwait' = got_fwait /\ attempt' = attempt
        /\ pc' = "done" /\ status' = "limit exceeded"
    BY DEF LimitExceeded
  <1>2. attempt = 1 /\ ~got_fwait'
    BY <1>1 DEF Collecting
  <1>3. ~Decoding'
    BY <1>1 DEF Decoding
  <1>4. QED
    BY <1>1, <1>2, <1>3 DEF Collecting

\* The prefixes are over, or are dropped at the end of the buffer.
LEMMA CollectingEndPrefixes == Inv /\ Collecting /\ EndPrefixes => Collecting'
  <1> SUFFICES ASSUME Inv, Collecting, EndPrefixes PROVE Collecting'
    OBVIOUS
  <1>1. /\ buf' = buf /\ dsz' = dsz /\ got_fwait' = got_fwait /\ attempt' = attempt
        /\ pc = "prefix" /\ pc' = "rex" /\ fetcher' = fetcher
    BY DEF EndPrefixes, inputs
  <1>2. num_bytes' = num_bytes /\ FwaitAt' = FwaitAt /\ Start' = Start
    BY <1>1, FwaitRemains DEF Start
  <1>3. /\ Collected(fetcher.next) /\ NoRexBits(p) /\ ~p.wait_used /\ attempt = 1
        /\ got_fwait => FwaitAt \in 0..(fetcher.next - 1)
    BY <1>1 DEF Collecting
  <1>4. CASE Has(fetcher, 1) /\ ~IsPrefix(At(fetcher)) /\ p' = p
    <2>1. AtOpcode'
      BY <1>1, <1>2, <1>3, <1>4 DEF AtOpcode, Collected, At
    <2>2. QED
      BY <1>1, <1>2, <1>3, <1>4, <2>1 DEF Collecting, Decoding
  <1>5. CASE ~Has(fetcher, 1) /\ got_fwait /\ p' = NoPrefix
    <2>1. NoRexBits(p') /\ ~p'.wait_used
      BY <1>5 DEF NoRexBits, NoPrefix
    <2>2. AtEnd'
      BY <1>1, <1>2, <1>3, <1>5, <2>1 DEF AtEnd, Collected
    <2>3. QED
      BY <1>1, <1>2, <1>3, <2>1, <2>2 DEF Collecting, Decoding
  <1>6. QED
    BY <1>4, <1>5 DEF EndPrefixes

\* A REX prefix follows the legacy prefixes.
LEMMA CollectingTakeRex == Inv /\ Collecting /\ TakeRex => Collecting'
  <1> SUFFICES ASSUME Inv, Collecting, TakeRex PROVE Collecting'
    OBVIOUS
  <1> DEFINE n == fetcher.next
             c == At(fetcher)
  <1>1. /\ buf' = buf /\ dsz' = dsz /\ got_fwait' = got_fwait /\ attempt' = attempt
        /\ pc = "rex" /\ pc' = "fwait" /\ fetcher'.next = n + 1
        /\ dsz = 2 /\ Has(fetcher, 1) /\ IsRex(c)
    BY DEF TakeRex, RexHere, inputs, Accept, Advance
  <1>2. num_bytes' = num_bytes /\ FwaitAt' = FwaitAt /\ Start' = Start
    BY <1>1, FwaitRemains DEF Start
  <1>3. n \in Nat /\ c = buf[n + 1] /\ p \in Prefixes
    BY FetcherBytes DEF Inv, TypeOK, At
  <1>4. /\ Collected(n) /\ ~p.wait_used /\ attempt = 1
        /\ got_fwait => FwaitAt \in 0..(n - 1)
    BY <1>1 DEF Collecting, AtOpcode, AtEnd
  <1>5. /\ RexBits(p', c) /\ p'.wait_used = p.wait_used
        /\ p'.op66 = p.op66 /\ p'.op67 = p.op67 /\ p'.sreg = p.sreg /\ p'.lockrep = p.lockrep
    BY <1>3 DEF TakeRex, Prefixes, RexBits
  <1>6. Says(p', buf, Start, n) /\ Start \in 0..n /\ AllPrefixes(buf, Start, n)
    BY <1>4, <1>5, ZenonT(30) DEF Collected, Says, SaysSegment, SaysRepeat
  <1>7. BehindRex'
    <2>1. fetcher'.next - 1 = n /\ fetcher'.next > 0
      BY <1>1, <1>3
    <2>2. Collected(fetcher.next - 1)'
      BY <1>1, <1>2, <1>6, <2>1 DEF Collected
    <2>3. ByteOf(fetcher.next - 1)' = c
      BY <1>1, <1>3, <2>1 DEF ByteOf
    <2>4. QED
      BY <1>1, <1>5, <2>1, <2>2, <2>3 DEF BehindRex
  <1>8. got_fwait' => FwaitAt' \in 0..(fetcher'.next - 1)
    BY <1>1, <1>2, <1>3, <1>4
  <1>9. QED
    BY <1>1, <1>4, <1>5, <1>7, <1>8 DEF Collecting, Decoding

\* Nothing is read when there is no REX prefix.
LEMMA CollectingNoRex == Inv /\ Collecting /\ NoRex => Collecting'
  <1> SUFFICES ASSUME Inv, Collecting, NoRex PROVE Collecting'
    OBVIOUS
  <1>1. /\ buf' = buf /\ dsz' = dsz /\ got_fwait' = got_fwait /\ attempt' = attempt
        /\ pc = "rex" /\ pc' = "fwait" /\ fetcher' = fetcher /\ p' = p /\ ~RexHere
    BY DEF NoRex, inputs
  <1>2. num_bytes' = num_bytes /\ FwaitAt' = FwaitAt /\ Start' = Start
    BY <1>1, FwaitRemains DEF Start
  <1>3. /\ AtOpcode \/ AtEnd
        /\ ~p.wait_used /\ attempt = 1
        /\ got_fwait => FwaitAt \in 0..(fetcher.next - 1)
    BY <1>1 DEF Collecting
  <1>4. AtOpcode => AtOpcode' /\ ~RexHere'
    BY <1>1, <1>2 DEF AtOpcode, Collected, At, RexHere
  <1>5. AtEnd => AtEnd'
    BY <1>1, <1>2 DEF AtEnd
  <1>6. QED
    BY <1>1, <1>2, <1>3, <1>4, <1>5 DEF Collecting, Decoding

\* An FWAIT is found where the buffer has it, and what came before is over.
LEMMA CollectingTakeFwait == Inv /\ Collecting /\ TakeFwait => Collecting'
  <1> SUFFICES ASSUME Inv, Collecting, TakeFwait PROVE Collecting'
    OBVIOUS
  <1> DEFINE n == fetcher.next
  <1>1. /\ buf' = buf /\ dsz' = dsz /\ got_fwait' = TRUE /\ attempt' = attempt
        /\ pc = "fwait" /\ pc' = "prefix" /\ fetcher'.next = n + 1 /\ p' = NoPrefix
        /\ FwaitHere /\ ~got_fwait
    BY DEF TakeFwait, FwaitHere, inputs, Accept, Advance
  <1>2. num_bytes' = num_bytes /\ FwaitAt' = FwaitAt
    BY <1>1, FwaitRemains
  <1>3. n \in Nat /\ attempt = 1
    BY <1>1, FetcherBytes DEF Collecting
  <1>4. FwaitAt = n
    BY <1>1, FwaitSeen DEF Collecting, AtEnd
  <1>5. Says(NoPrefix, buf, n + 1, n + 1) /\ AllPrefixes(buf, n + 1, n + 1) /\ NoRexBits(NoPrefix)
    BY <1>3, SaysNothing
  <1>6. Start' = n + 1
    BY <1>1, <1>2, <1>4 DEF Start
  <1>7. Collected(fetcher.next)'
    BY <1>1, <1>3, <1>5, <1>6 DEF Collected
  <1>8. QED
    BY <1>1, <1>2, <1>3, <1>4, <1>5, <1>7, NoPrefixType DEF Collecting, Decoding

\* Behind the prefixes it is known whether there is an FWAIT.
LEMMA CollectingNoFwait == Inv /\ Collecting /\ NoFwait => Collecting'
  <1> SUFFICES ASSUME Inv, Collecting, NoFwait PROVE Collecting'
    OBVIOUS
  <1>1. /\ buf' = buf /\ dsz' = dsz /\ got_fwait' = got_fwait /\ attempt' = attempt
        /\ pc = "fwait" /\ pc' = "try" /\ fetcher' = fetcher /\ ~FwaitHere
    BY DEF NoFwait, inputs
  <1>2. num_bytes' = num_bytes /\ FwaitAt' = FwaitAt /\ Start' = Start
    BY <1>1, FwaitRemains DEF Start
  <1>3. /\ (AtOpcode /\ ~RexHere) \/ BehindRex \/ AtEnd
        /\ attempt = 1
        /\ got_fwait => FwaitAt \in 0..(fetcher.next - 1)
    BY <1>1 DEF Collecting
  <1>4. ~got_fwait => FwaitAt = -1
    BY <1>1, <1>3, FwaitSeen DEF AtEnd
  <1>5. /\ p'.wait_used = got_fwait
        /\ p'.op66 = p.op66 /\ p'.op67 = p.op67 /\ p'.sreg = p.sreg /\ p'.lockrep = p.lockrep
        /\ p'.rex_used = p.rex_used /\ p'.rex_w = p.rex_w /\ p'.rex_r = p.rex_r
        /\ p'.rex_x = p.rex_x /\ p'.rex_b = p.rex_b
    <2>1. p \in Prefixes /\ p' = [p EXCEPT !.wait_used = got_fwait]
      BY DEF NoFwait, Inv, TypeOK
    <2>2. QED
      BY <2>1 DEF Prefixes
  <1>6. ASSUME NEW b, NEW i, NEW n, Says(p, b, i, n) PROVE Says(p', b, i, n)
    <2>1. SaysSegment(p', b, i, n)
      BY <1>5, <1>6 DEF Says, SaysSegment
    <2>2. SaysRepeat(p', b, i, n)
      BY <1>5, <1>6 DEF Says, SaysRepeat
    <2>3. p'.op66 = (Of(b, i, n, {OP66}) # {})
      BY <1>5, <1>6 DEF Says
    <2>4. p'.op67 = (Of(b, i, n, {OP67}) # {})
      BY <1>5, <1>6 DEF Says
    <2>5. QED
      BY <2>1, <2>2, <2>3, <2>4 DEF Says
  <1>7. NoRexBits(p) => NoRexBits(p')
    BY <1>5 DEF NoRexBits
  <1>8. \A c : RexBits(p, c) => RexBits(p', c)
    BY <1>5 DEF RexBits
  <1>9. AtOpcode => AtOpcode'
    BY <1>1, <1>2, <1>6, <1>7 DEF AtOpcode, Collected, At
  <1>10. BehindRex => BehindRex'
    BY <1>1, <1>2, <1>6, <1>8 DEF BehindRex, Collected, ByteOf
  <1>11. AtEnd => AtEnd'
    BY <1>1, <1>2, <1>7 DEF AtEnd
  <1>12. QED
    BY <1>1, <1>2, <1>3, <1>4, <1>5, <1>9, <1>10, <1>11 DEF Collecting, Decoding

\* try_decode and the end of do_decode leave what was collected alone.
LEMMA CollectingRemains ==
  ASSUME Collecting, UNCHANGED caller, Decoding' => Decoding,
         pc' \in {"prefix", "rex", "fwait"} => pc' = pc
  PROVE  Collecting'
  <1>1. /\ buf' = buf /\ dsz' = dsz /\ got_fwait' = got_fwait /\ attempt' = attempt
        /\ fetcher' = fetcher /\ p' = p
    BY DEF caller
  <1>2. num_bytes' = num_bytes /\ FwaitAt' = FwaitAt /\ Start' = Start
    BY <1>1, FwaitRemains DEF Start
  <1>3. \A n : Collected(n) => Collected(n)'
    BY <1>1, <1>2 DEF Collected
  <1>4. (AtOpcode => AtOpcode') /\ (AtEnd => AtEnd') /\ (~RexHere => ~RexHere')
    BY <1>1, <1>2 DEF AtOpcode, AtEnd, Collected, At, RexHere
  <1>5. BehindRex => BehindRex'
    BY <1>1, <1>2 DEF BehindRex, Collected, ByteOf
  <1>6. Collected(fetcher.next) => Collected(fetcher.next)'
    BY <1>1, <1>2 DEF Collected
  <1>7. /\ got_fwait' => FwaitAt' \in 0..(fetcher'.next - 1)
        /\ pc' \in {"prefix", "rex", "fwait"} => attempt' = 1 /\ ~p'.wait_used
        /\ pc' = "prefix" => Collected(fetcher.next)' /\ NoRexBits(p')
    BY <1>1, <1>2, <1>6 DEF Collecting
  <1>8. /\ pc' = "rex"    => AtOpcode' \/ AtEnd'
        /\ pc' = "fwait"  => (AtOpcode' /\ ~RexHere') \/ BehindRex' \/ AtEnd'
    BY <1>4, <1>5 DEF Collecting
  <1>9. (Decoding' /\ attempt' = 1) =>
          /\ AtOpcode' \/ BehindRex' \/ AtEnd'
          /\ p'.wait_used = got_fwait'
          /\ ~got_fwait' => FwaitAt' = -1
    BY <1>1, <1>2, <1>4, <1>5 DEF Collecting
  <1>10. attempt' = 2 =>
          /\ got_fwait' /\ p' = NoPrefix
          /\ \A i \in (FwaitAt' + 1)..(fetcher'.next - 1) :
               IsPrefix(ByteOf(i)') \/ (dsz' = 2 /\ IsRex(ByteOf(i)'))
    BY <1>1, <1>2 DEF Collecting, ByteOf
  <1>11. QED
    BY <1>7, <1>8, <1>9, <1>10 DEF Collecting

\* Going back, do_decode has read an FWAIT and only prefixes behind it.
LEMMA CollectingFallBack == Inv /\ Collecting /\ FallBack => Collecting'
  <1> SUFFICES ASSUME Inv, Collecting, FallBack PROVE Collecting'
    OBVIOUS
  <1> DEFINE n == fetcher.next
  <1>1. /\ buf' = buf /\ dsz' = dsz /\ got_fwait' = got_fwait /\ attempt = 1 /\ attempt' = 2
        /\ fetcher' = fetcher /\ p' = NoPrefix /\ pc = "judge" /\ pc' = "try" /\ p.wait_used
    BY DEF FallBack, inputs, Rejected
  <1>2. num_bytes' = num_bytes /\ FwaitAt' = FwaitAt
    BY <1>1, FwaitRemains
  <1>3. /\ got_fwait /\ Start = FwaitAt + 1 /\ FwaitAt \in 0..(n - 1)
        /\ AtOpcode \/ BehindRex \/ AtEnd
    BY <1>1 DEF Collecting, Decoding, Start
  <1>4. n \in Nat
    BY FetcherBytes
  <1>5. ASSUME NEW i \in (FwaitAt + 1)..(n - 1)
        PROVE  IsPrefix(ByteOf(i)) \/ (dsz = 2 /\ IsRex(ByteOf(i)))
    <2>1. CASE AllPrefixes(buf, Start, n)
      BY <1>3, <2>1 DEF AllPrefixes, ByteOf
    <2>2. CASE BehindRex
      <3>1. AllPrefixes(buf, Start, n - 1) /\ dsz = 2 /\ IsRex(ByteOf(n - 1))
        BY <2>2 DEF BehindRex, Collected
      <3>2. i \in Start..((n - 1) - 1) \/ i = n - 1
        BY <1>3, <1>4
      <3>3. QED
        BY <3>1, <3>2 DEF AllPrefixes, ByteOf
    <2>3. QED
      BY <1>3, <2>1, <2>2 DEF AtOpcode, AtEnd, Collected
  <1>6. \A i \in (FwaitAt' + 1)..(fetcher'.next - 1) :
          IsPrefix(ByteOf(i)') \/ (dsz' = 2 /\ IsRex(ByteOf(i)'))
    BY <1>1, <1>2, <1>5 DEF ByteOf
  <1>7. QED
    BY <1>1, <1>2, <1>3, <1>6 DEF Collecting, Decoding

\* Nothing has been read at first.
LEMMA CollectingInit == Init => Collecting
  <1> SUFFICES ASSUME Init PROVE Collecting
    OBVIOUS
  <1>1. /\ got_fwait = FALSE /\ attempt = 1 /\ p = NoPrefix /\ fetcher.next = 0
        /\ pc = "prefix" \/ (pc = "done" /\ status # "")
    BY DEF Init
  <1>2. Start = 0
    BY <1>1 DEF Start
  <1>3. Collected(fetcher.next) /\ NoRexBits(p) /\ ~p.wait_used
    <2>1. Says(NoPrefix, buf, 0, 0) /\ AllPrefixes(buf, 0, 0) /\ NoRexBits(NoPrefix)
      BY SaysNothing
    <2>2. ~NoPrefix.wait_used
      BY DEF NoPrefix
    <2>3. Collected(0)
      <3>1. Start \in 0..0
        BY <1>2
      <3>2. Says(p, buf, Start, 0)
        BY <1>1, <1>2, <2>1
      <3>3. AllPrefixes(buf, Start, 0)
        BY <1>2, <2>1
      <3>4. QED
        BY <3>1, <3>2, <3>3 DEF Collected
    <2>4. QED
      BY <1>1, <2>1, <2>2, <2>3
  <1>4. ~Decoding /\ pc \notin {"rex", "fwait"} /\ ~got_fwait /\ attempt = 1
    BY <1>1 DEF Decoding
  <1>5. QED
    BY <1>3, <1>4 DEF Collecting

\* A step of try_decode.
LEMMA DecodeFrame ==
  Walk \/ get_arguments \/ Return =>
    /\ UNCHANGED caller
    /\ pc \in {"try", "walk", "args", "judge"}
    /\ pc' \in {"walk", "args", "judge", "done"}
  <1>1. Walk => /\ UNCHANGED caller /\ pc \in {"try", "walk"}
                /\ pc' \in {"walk", "args", "judge"}
    <2>1. EnterTry \/ EnterTryTooShort => UNCHANGED caller /\ pc = "try" /\ pc' \in {"walk", "judge"}
      BY DEF EnterTry, EnterTryTooShort, Fail
    <2>2. WalkByte \/ WalkMode \/ WalkModRM \/ InvalidOpcode =>
            UNCHANGED caller /\ pc = "walk" /\ pc' \in {"walk", "judge"}
      BY DEF WalkByte, WalkMode, WalkModRM, InvalidOpcode, Fail
    <2>3. Leaf => UNCHANGED caller /\ pc = "walk" /\ pc' \in {"args", "judge"}
      BY DEF Leaf, Fail
    <2>4. QED
      BY <2>1, <2>2, <2>3 DEF Walk
  <1>2. get_arguments => UNCHANGED caller /\ pc = "args" /\ pc' \in {"args", "judge"}
    BY DEF get_arguments, UnsupportedArgument, FullDispArg, ImplicitImmArg, ImmArg, RegArg, MemArg,
           EndArgs, Fail, NextArg, AtArg
  <1>3. Return => UNCHANGED caller /\ pc = "judge" /\ pc' = "done"
    BY DEF Return
  <1>4. QED
    BY <1>1, <1>2, <1>3

\* The prefixes are what the steps take them to be.
LEMMA CollectingStep == Inv /\ Collecting /\ [Next]_vars => Collecting'
  <1> SUFFICES ASSUME Inv, Collecting, [Next]_vars PROVE Collecting'
    OBVIOUS
  <1>1. CASE TakePrefixes
    BY <1>1, CollectingTakePrefix, CollectingLimitExceeded, CollectingEndPrefixes,
       CollectingTakeRex, CollectingNoRex, CollectingTakeFwait, CollectingNoFwait DEF TakePrefixes
  <1>2. CASE Walk \/ get_arguments \/ Return
    <2>1. Decoding
      BY <1>2, DecodeFrame DEF Decoding
    <2>2. QED
      BY <1>2, <2>1, DecodeFrame, CollectingRemains
  <1>3. CASE FallBack
    BY <1>3, CollectingFallBack
  <1>4. CASE UNCHANGED vars
    <2>1. UNCHANGED caller /\ Decoding' = Decoding /\ pc' = pc
      BY <1>4 DEF vars, caller, Decoding
    <2>2. QED
      BY <2>1, CollectingRemains
  <1>5. QED
    BY <1>1, <1>2, <1>3, <1>4 DEF Next, Step, Finish, Returned

\* What reading a ModRM byte leaves alone.
LEMMA GetModrmKeeps ==
  ASSUME NEW f, NEW ic \in Icodes, NEW st \in DecoderStates
  PROVE  /\ get_modrm(f, ic, st).ic.lockrep = ic.lockrep
         /\ get_modrm(f, ic, st).ic.args = ic.args
         /\ get_modrm(f, ic, st).ic.encoding = ic.encoding
         /\ get_modrm(f, ic, st).ic.asz = ic.asz
         /\ get_modrm(f, ic, st).ic.imm = ic.imm
         /\ get_modrm(f, ic, st).ic.rex_used = ic.rex_used
         /\ get_modrm(f, ic, st).st.prefix_size = st.prefix_size
         /\ get_modrm(f, ic, st).st.imm1_offset = st.imm1_offset
         /\ get_modrm(f, ic, st).st.imm2_offset = st.imm2_offset
         /\ get_modrm(f, ic, st).st.opcode0 = st.opcode0
  <1> DEFINE r == get_modrm(f, ic, st)
             c == At(f)
             sib == IF HasSib(c, dsz, ic.asz) THEN buf[f.next + 2] ELSE 0
             after == Advance(f, ModrmHeader(f, ic.asz))
             m == decode_modrm(ic.ea, c, sib, dsz, ic.asz, p.rex_x, p.rex_b)
             whole == Has(after, m.disp)
             slice == IF m.disp = 0 THEN NoSlice
                      ELSE Slice(after, IF whole THEN m.disp ELSE after.left)
             st0 == [st EXCEPT !.modrm_offset = f.next]
             st1 == [st0 EXCEPT !.modrm0 = c, !.has_modrm = TRUE]
             stage == ModrmStage(f, ic.asz)
  <1>1. /\ r.ic = CASE stage = "none"    -> ic
                    [] stage = "byte"    -> [ic EXCEPT !.disp = NoSlice]
                    [] stage = "address" -> IF whole THEN WholeIcode(ic, c, m, slice)
                                            ELSE AddressIcode(ic, c, m, slice)
        /\ r.st = CASE stage = "none"    -> st0
                    [] stage = "byte"    -> st1
                    [] stage = "address" -> IF m.disp = 0 THEN st1
                                            ELSE [st1 EXCEPT !.disp_offset = after.next]
    BY DEF get_modrm
  <1>2. stage \in {"none", "byte", "address"}
    BY DEF ModrmStage
  <1> HIDE DEF r, c, sib, after, m, whole, slice, stage
  <1>3. \A x, y, z :
          /\ AddressIcode(ic, x, y, z).lockrep = ic.lockrep
          /\ AddressIcode(ic, x, y, z).args = ic.args
          /\ AddressIcode(ic, x, y, z).encoding = ic.encoding
          /\ AddressIcode(ic, x, y, z).asz = ic.asz
          /\ AddressIcode(ic, x, y, z).imm = ic.imm
          /\ AddressIcode(ic, x, y, z).rex_used = ic.rex_used
    BY DEF AddressIcode, Icodes
  <1>4. \A x, y, z :
          /\ WholeIcode(ic, x, y, z).lockrep = ic.lockrep
          /\ WholeIcode(ic, x, y, z).args = ic.args
          /\ WholeIcode(ic, x, y, z).encoding = ic.encoding
          /\ WholeIcode(ic, x, y, z).asz = ic.asz
          /\ WholeIcode(ic, x, y, z).imm = ic.imm
          /\ WholeIcode(ic, x, y, z).rex_used = ic.rex_used
    BY <1>3 DEF WholeIcode
  <1>5. /\ r.ic.lockrep = ic.lockrep /\ r.ic.args = ic.args /\ r.ic.encoding = ic.encoding
        /\ r.ic.asz = ic.asz /\ r.ic.imm = ic.imm /\ r.ic.rex_used = ic.rex_used
    <2>1. CASE stage = "none"
      BY <1>1, <2>1
    <2>2. CASE stage = "byte"
      BY <1>1, <2>2 DEF Icodes
    <2>3. CASE stage = "address"
      BY <1>1, <1>3, <1>4, <2>3
    <2>4. QED
      BY <1>2, <2>1, <2>2, <2>3
  <1>6. /\ r.st.prefix_size = st.prefix_size /\ r.st.imm1_offset = st.imm1_offset
        /\ r.st.imm2_offset = st.imm2_offset /\ r.st.opcode0 = st.opcode0
    BY <1>1, <1>2 DEF DecoderStates
  <1>7. QED
    BY <1>5, <1>6 DEF r

\* What get_arguments leaves alone.
KeptByArguments(ic, st) ==
  <<ic.lockrep, ic.encoding, ic.asz, ic.osz, ic.ea, ic.rip_relative, ic.rex_used, ic.is_nop,
    st.prefix_size, st.has_modrm, st.modrm0, st.modrm_offset, st.opcode0>>

\* get_arguments works on the operands, their fields and their offsets.
LEMMA ArgumentsKeep ==
  Inv /\ get_arguments => /\ KeptByArguments(dest', state') = KeptByArguments(dest, state)
                          /\ node' = node
  <1> SUFFICES ASSUME Inv, get_arguments
               PROVE  /\ KeptByArguments(dest', state') = KeptByArguments(dest, state)
                      /\ node' = node
    OBVIOUS
  <1> USE DEF KeptByArguments
  <1>1. dest \in Icodes /\ state \in DecoderStates
    BY DEF Inv, TypeOK
  <1>2. CASE UnsupportedArgument
    BY <1>1, <1>2 DEF UnsupportedArgument, Icodes
  <1>3. CASE FullDispArg
    <2> DEFINE here == [dest EXCEPT !.has_disp = TRUE, !.args[argi] = Arg]
               n == SizeOf(dest.asz)
    <2>1. /\ dest' = here \/ \E s, t : dest' = [here EXCEPT !.disp = s, !.imm = t]
          /\ state' = [state EXCEPT !.disp_offset = fetcher_copy.next] /\ node' = node
      BY <1>3 DEF FullDispArg
    <2>2. KeptByArguments(here, state) = KeptByArguments(dest, state)
      BY <1>1 DEF Icodes
    <2>3. here \in Icodes
      <3> DEFINE arg == [dest EXCEPT !.args[argi] = Arg]
      <3>1. arg \in Icodes
        BY <1>3, WithArgType DEF FullDispArg
      <3>2. here = [arg EXCEPT !.has_disp = TRUE]
        BY <1>1 DEF Icodes
      <3> HIDE DEF arg, here
      <3>3. QED
        BY <3>1, <3>2, IcodeFlag
    <2>4. KeptByArguments(dest', state) = KeptByArguments(here, state)
      <3> HIDE DEF here
      <3> QED BY <2>1, <2>3 DEF Icodes
    <2>5. KeptByArguments(dest', state') = KeptByArguments(dest', state)
      BY <1>1, <2>1 DEF DecoderStates
    <2>6. QED
      BY <2>1, <2>2, <2>4, <2>5
  <1>4. CASE ImplicitImmArg
    BY <1>1, <1>4 DEF ImplicitImmArg, Icodes
  <1>5. CASE ImmArg
    <2> DEFINE here == [dest EXCEPT !.args[argi] = Arg,
                                    !.sx = IF SxByte /\ ImmBytes = 1 THEN TRUE ELSE @]
               n == SizeOf(dest.asz)
    <2>1. /\ \/ dest' = here
             \/ \E s, t, b : dest' = [here EXCEPT !.imm = s, !.disp = t, !.imm64 = b]
             \/ \E s : dest' = [here EXCEPT !.imm = s]
             \/ \E s : dest' = [here EXCEPT !.disp = s]
          /\ \/ state' = [state EXCEPT !.imm2_offset = fetcher_copy.next]
             \/ state' = [state EXCEPT !.imm1_offset = fetcher_copy.next]
          /\ node' = node
      BY <1>5 DEF ImmArg
    <2>2. KeptByArguments(here, state) = KeptByArguments(dest, state)
      BY <1>1 DEF Icodes
    <2>3. here \in Icodes
      <3> DEFINE arg == [dest EXCEPT !.args[argi] = Arg]
                 sx == IF SxByte /\ ImmBytes = 1 THEN TRUE ELSE dest.sx
      <3>1. arg \in Icodes
        BY <1>5, WithArgType DEF ImmArg
      <3>2. here = [arg EXCEPT !.sx = sx] /\ sx \in BOOLEAN
        BY <1>1 DEF Icodes
      <3> HIDE DEF arg, here, sx
      <3>3. QED
        BY <3>1, <3>2, IcodeFlag
    <2>4. KeptByArguments(dest', state) = KeptByArguments(here, state)
      <3> HIDE DEF here
      <3> QED BY <2>1, <2>3 DEF Icodes
    <2>5. KeptByArguments(dest', state') = KeptByArguments(dest', state)
      BY <1>1, <2>1 DEF DecoderStates
    <2>6. QED
      BY <2>1, <2>2, <2>4, <2>5
  <1>6. CASE RegArg
    BY <1>1, <1>6 DEF RegArg, Icodes
  <1>7. CASE MemArg
    BY <1>1, <1>7 DEF MemArg, Icodes
  <1>8. CASE EndArgs
    <2>1. dest' = dest /\ node' = node
      BY <1>8 DEF EndArgs
    <2>2. state' = state \/ state' = [state EXCEPT !.insn_size = fetcher_copy.next]
      BY <1>8 DEF EndArgs
    <2>3. QED
      BY <1>1, <2>1, <2>2 DEF DecoderStates
  <1>9. QED
    BY <1>2, <1>3, <1>4, <1>5, <1>6, <1>7, <1>8 DEF get_arguments

\* The encoding that a leaf names, the icode that has it, and what reading the
\* ModRM byte there gives.
LeafEncoding == Encodings[Table[node].encoding]
LeafIcode    == [dest EXCEPT !.encoding = Table[node].encoding]
LeafRead     == get_modrm(fetcher_copy, LeafIcode, state)
WithOperands(ic, e) ==
  [ic EXCEPT !.osz = OperandSize(e), !.imm64 = FALSE, !.sx = FALSE, !.args = e.args]

\* The ways in which a leaf is left.
LeafKnown ==
  /\ state.has_modrm \/ ~LeafEncoding.regop
  /\ fetcher_copy' = fetcher_copy /\ state' = state
  /\ dest' = WithOperands(LeafIcode, LeafEncoding)
LeafReads ==
  /\ ~state.has_modrm /\ LeafEncoding.regop /\ LeafRead.ok
  /\ fetcher_copy' = LeafRead.f /\ state' = LeafRead.st
  /\ dest' = WithOperands(LeafRead.ic, LeafEncoding)

\* A leaf that decodes goes on to the operands in one of these two ways.
LEMMA LeafCases ==
  ASSUME Inv, Leaf
  PROVE  /\ Table[node].encoding \in DOMAIN Encodings
         /\ LeafIcode \in Icodes /\ LeafRead.ic \in Icodes /\ LeafRead.st \in DecoderStates
         /\ LeafEncoding.args \in [1..4 -> Args] /\ LeafEncoding.regop \in BOOLEAN
         /\ UNCHANGED <<caller, node>> /\ pc = "walk"
         /\ \/ pc' = "judge" /\ status' # ""
            \/ /\ pc' = "args" /\ argi' = 1 /\ status' = status
               /\ ~(dsz = 2 /\ "no64" \in LeafEncoding.etags)
               /\ LeafKnown \/ LeafReads
  <1>1. node \in DOMAIN Table /\ Table[node].type = 0 /\ Table[node].encoding # Invalid
    BY DEF Leaf, Inv, TypeOK
  <1>2. Table[node].encoding \in DOMAIN Encodings
    BY <1>1, TableAssumption
  <1>3. LeafEncoding.args \in [1..4 -> Args] /\ LeafEncoding.regop \in BOOLEAN
    BY <1>2, EncodingsAssumption DEF LeafEncoding
  <1>4. LeafIcode \in Icodes
    BY <1>2, IcodeEncoding DEF Inv, TypeOK, LeafIcode
  <1>5. LeafRead.ic \in Icodes /\ LeafRead.st \in DecoderStates
    BY <1>4, GetModrmType DEF Inv, TypeOK, Positions, LeafRead
  <1>6. UNCHANGED <<caller, node>> /\ pc = "walk"
    BY DEF Leaf
  <1>7. \/ pc' = "judge" /\ status' # ""
        \/ /\ pc' = "args" /\ argi' = 1 /\ status' = status
           /\ ~(dsz = 2 /\ "no64" \in LeafEncoding.etags)
           /\ LeafKnown \/ LeafReads
    <2>1. CASE dsz = 2 /\ "no64" \in LeafEncoding.etags
      BY <2>1 DEF Leaf, LeafEncoding, Fail
    <2>2. CASE /\ ~(dsz = 2 /\ "no64" \in LeafEncoding.etags)
               /\ state.has_modrm \/ ~LeafEncoding.regop
      BY <2>2 DEF Leaf, LeafEncoding, LeafIcode, WithOperands, LeafKnown
    <2>3. CASE /\ ~(dsz = 2 /\ "no64" \in LeafEncoding.etags)
               /\ ~(state.has_modrm \/ ~LeafEncoding.regop)
      <3>1. CASE LeafRead.ok
        BY <1>3, <2>3, <3>1 DEF Leaf, LeafEncoding, LeafIcode, LeafRead, WithOperands, LeafReads
      <3>2. CASE ~LeafRead.ok
        BY <2>3, <3>2 DEF Leaf, LeafEncoding, LeafIcode, LeafRead, Fail
      <3>3. QED
        BY <3>1, <3>2
    <2>4. QED
      BY <2>1, <2>2, <2>3
  <1>8. QED
    BY <1>2, <1>3, <1>4, <1>5, <1>6, <1>7

\* What a leaf leaves alone that reads a ModRM byte.
LEMMA LeafReadKeeps ==
  ASSUME LeafIcode \in Icodes, state \in DecoderStates
  PROVE  /\ LeafRead.ic.lockrep = LeafIcode.lockrep /\ LeafRead.st.prefix_size = state.prefix_size
         /\ LeafRead.ic.rex_used = LeafIcode.rex_used /\ LeafRead.st.opcode0 = state.opcode0
BY GetModrmKeeps DEF LeafRead

\* Once try_decode has begun, the prefixes stay as it noted them.
LEMMA WalkKeeps ==
  ASSUME Inv, WalkByte \/ WalkMode \/ WalkModRM \/ InvalidOpcode \/ Leaf,
         pc' = "judge" => status' = ""
  PROVE  /\ dest'.lockrep = dest.lockrep /\ state'.prefix_size = state.prefix_size
         /\ dest'.rex_used = dest.rex_used /\ state'.opcode0 = state.opcode0
  <1>1. dest \in Icodes /\ state \in DecoderStates
    BY DEF Inv, TypeOK
  <1>2. CASE WalkByte \/ WalkMode \/ InvalidOpcode
    BY <1>2 DEF WalkByte, WalkMode, InvalidOpcode
  <1>3. CASE WalkModRM
    <2>1. \/ dest' = dest /\ state' = state
          \/ /\ dest' = get_modrm(fetcher_copy, dest, state).ic
             /\ state' = get_modrm(fetcher_copy, dest, state).st
      BY <1>3 DEF WalkModRM
    <2>2. /\ get_modrm(fetcher_copy, dest, state).ic.lockrep = dest.lockrep
          /\ get_modrm(fetcher_copy, dest, state).ic.rex_used = dest.rex_used
          /\ get_modrm(fetcher_copy, dest, state).st.prefix_size = state.prefix_size
          /\ get_modrm(fetcher_copy, dest, state).st.opcode0 = state.opcode0
      BY <1>1, GetModrmKeeps, ZenonT(30)
    <2>3. QED
      BY <2>1, <2>2
  <1>4. CASE Leaf
    <2>1. LeafIcode \in Icodes /\ LeafRead.ic \in Icodes /\ (LeafKnown \/ LeafReads)
      BY <1>4, LeafCases
    <2>2. LeafIcode.lockrep = dest.lockrep /\ LeafIcode.rex_used = dest.rex_used
      BY <1>1 DEF LeafIcode, Icodes
    <2>3. /\ LeafRead.ic.lockrep = LeafIcode.lockrep /\ LeafRead.st.prefix_size = state.prefix_size
          /\ LeafRead.ic.rex_used = LeafIcode.rex_used /\ LeafRead.st.opcode0 = state.opcode0
      BY <1>1, <2>1, LeafReadKeeps
    <2>4. \A e : \A ic \in Icodes : /\ WithOperands(ic, e).lockrep = ic.lockrep
                                   /\ WithOperands(ic, e).rex_used = ic.rex_used
      BY DEF WithOperands, Icodes
    <2>5. /\ state' \in {state, LeafRead.st}
          /\ dest' \in {WithOperands(LeafIcode, LeafEncoding), WithOperands(LeafRead.ic, LeafEncoding)}
      BY <2>1 DEF LeafKnown, LeafReads
    <2>6. /\ WithOperands(LeafIcode, LeafEncoding).lockrep = dest.lockrep
          /\ WithOperands(LeafRead.ic, LeafEncoding).lockrep = dest.lockrep
          /\ WithOperands(LeafIcode, LeafEncoding).rex_used = dest.rex_used
          /\ WithOperands(LeafRead.ic, LeafEncoding).rex_used = dest.rex_used
      BY <2>1, <2>2, <2>3, <2>4
    <2>7. QED
      BY <2>3, <2>5, <2>6
  <1>5. QED
    BY <1>2, <1>3, <1>4

\* Where a step that collects prefixes leads.
LEMMA CollectingFrame ==
  ASSUME Collecting, TakePrefixes
  PROVE  /\ attempt = 1 /\ attempt' = 1
         /\ pc' \in {"prefix", "rex", "fwait"} \/ (pc' = "done" /\ status' = "limit exceeded")
              \/ (pc' = "try" /\ fetcher' = fetcher /\ fetcher_copy' = fetcher)
  <1>1. pc \in {"prefix", "rex", "fwait"} /\ attempt' = attempt
    BY DEF TakePrefixes, TakePrefix, LimitExceeded, EndPrefixes, TakeRex, NoRex, TakeFwait, NoFwait
  <1>2. attempt = 1
    BY <1>1 DEF Collecting
  <1>3. \/ pc' \in {"prefix", "rex", "fwait"}
        \/ pc' = "done" /\ status' = "limit exceeded"
        \/ pc' = "try" /\ fetcher' = fetcher /\ fetcher_copy' = fetcher
    BY DEF TakePrefixes, TakePrefix, LimitExceeded, EndPrefixes, TakeRex, NoRex, TakeFwait, NoFwait
  <1>4. QED
    BY <1>1, <1>2, <1>3

\* try_decode notes the prefixes and where it begins.
LEMMA BeganEnter ==
  ASSUME Inv, Began, EnterTry
  PROVE  Began'
  <1>1. /\ pc = "try" /\ pc' = "walk" /\ fetcher' = fetcher /\ attempt' = attempt /\ p' = p
        /\ Has(fetcher_copy, 1)
    BY DEF EnterTry, caller
  <1>2. dest'.lockrep = p.lockrep
    <2>1. dest \in Icodes
      BY DEF Inv, TypeOK
    <2>2. QED
      BY <2>1 DEF EnterTry, Icodes
  <1>3. state'.prefix_size = fetcher_copy.next
    <2>1. EnterState \in DecoderStates
      BY EnterStateType
    <2>2. EnterState.prefix_size = fetcher_copy.next
      <3>1. state \in DecoderStates
        BY DEF Inv, TypeOK
      <3>2. QED
        BY <3>1 DEF EnterState, DecoderStates
    <2>3. state' = [EnterState EXCEPT !.opcode0 = Opcode0, !.modrm0 = 0]
      BY DEF EnterTry
    <2>4. QED
      BY <2>1, <2>2, <2>3 DEF DecoderStates
  <1>4. fetcher_copy = IF attempt = 1 THEN fetcher ELSE GoBack(fetcher)
    BY <1>1 DEF Began
  <1>5. attempt # 1 => fetcher_copy.next = fetcher.next - 1
    BY <1>4 DEF GoBack
  <1>6. QED
    BY <1>1, <1>2, <1>3, <1>4, <1>5 DEF Began

\* try_decode keeps what it noted.
LEMMA BeganStep == Inv /\ Collecting /\ Began /\ [Next]_vars => Began'
  <1> SUFFICES ASSUME Inv, Collecting, Began, [Next]_vars PROVE Began'
    OBVIOUS
  <1>1. CASE TakePrefixes
    BY <1>1, CollectingFrame DEF Began
  <1>2. CASE EnterTry
    BY <1>2, BeganEnter
  <1>3. CASE EnterTryTooShort
    BY <1>3 DEF EnterTryTooShort, Fail, Began
  <1>4. ASSUME UNCHANGED caller, pc' # "try",
               pc' \in {"walk", "args"} \/ (pc' \in {"judge", "done"} /\ status' = "") =>
                 /\ pc \in {"walk", "args"} \/ (pc \in {"judge", "done"} /\ status = "")
                 /\ dest'.lockrep = dest.lockrep /\ state'.prefix_size = state.prefix_size
        PROVE  Began'
    <2>1. fetcher' = fetcher /\ p' = p /\ attempt' = attempt
      BY <1>4 DEF caller
    <2>2. QED
      BY <1>4, <2>1 DEF Began, Has
  <1>5. CASE WalkByte \/ WalkMode \/ WalkModRM \/ InvalidOpcode \/ Leaf
    <2>1. pc = "walk" /\ UNCHANGED caller /\ pc' \in {"walk", "args", "judge"}
          /\ (pc' = "judge" => status' # "")
      BY <1>5, LeafCases DEF WalkByte, WalkMode, WalkModRM, InvalidOpcode, Fail
    <2>2. pc' # "judge" => dest'.lockrep = dest.lockrep /\ state'.prefix_size = state.prefix_size
      BY <1>5, WalkKeeps
    <2>3. QED
      BY <2>1, <2>2, <1>4
  <1>6. CASE get_arguments
    <2>1. dest'.lockrep = dest.lockrep /\ state'.prefix_size = state.prefix_size
      BY <1>6, ArgumentsKeep DEF KeptByArguments
    <2>2. /\ UNCHANGED caller /\ pc = "args" /\ pc' \in {"args", "judge"}
      BY <1>6 DEF get_arguments, UnsupportedArgument, FullDispArg, ImplicitImmArg, ImmArg, RegArg,
           MemArg, EndArgs, Fail, NextArg, AtArg
    <2>3. QED
      BY <2>1, <2>2, <1>4
  <1>7. CASE FallBack
    <2>1. pc' = "try" /\ fetcher' = fetcher /\ attempt' = 2 /\ fetcher_copy' = GoBack(fetcher)
      BY <1>7 DEF FallBack
    <2>2. attempt' # 1 /\ fetcher_copy' = GoBack(fetcher')
      BY <2>1
    <2>3. pc' \notin {"walk", "args", "judge", "done"}
      BY <2>1
    <2>4. QED
      BY <2>1, <2>2, <2>3 DEF Began
  <1>8. CASE Return
    <2>1. UNCHANGED caller /\ pc = "judge" /\ pc' = "done" /\ state' = state
          /\ (status' = "" => status = "")
      BY <1>8 DEF Return
    <2>2. dest'.lockrep = dest.lockrep
      <3>1. dest \in Icodes
        BY DEF Inv, TypeOK
      <3>2. QED
        BY <1>8, <3>1 DEF Return, Icodes
    <2>3. QED
      BY <2>1, <2>2, <1>4
  <1>9. CASE UNCHANGED vars
    <2>1. /\ pc' = pc /\ fetcher' = fetcher /\ fetcher_copy' = fetcher_copy /\ p' = p
          /\ attempt' = attempt /\ dest' = dest /\ state' = state /\ status' = status
      BY <1>9 DEF vars
    <2>2. GoBack(fetcher)' = GoBack(fetcher) /\ (Has(fetcher, 1) => Has(fetcher, 1)')
      BY <2>1 DEF GoBack, Has
    <2>3. QED
      BY <2>1, <2>2 DEF Began
  <1>10. QED
    BY <1>1, <1>2, <1>3, <1>5, <1>6, <1>7, <1>8, <1>9
    DEF Next, Step, Finish, Returned, Walk

\* The second attempt begins at the FWAIT, or at a prefix behind it.
LEMMA SecondByteKnown ==
  ASSUME Inv, Collecting, attempt = 2
  PROVE  /\ SecondByte \in Byte /\ fetcher.next > 0
         /\ IsPrefix(SecondByte) \/ (dsz = 2 /\ IsRex(SecondByte)) \/ SecondByte = FWAIT
         /\ SecondByte = FWAIT => FwaitAt = fetcher.next - 1
  <1>1. num_bytes \in Nat /\ fetcher.next \in 0..num_bytes
    BY FetcherBytes
  <1>2. /\ FwaitAt \in 0..(fetcher.next - 1)
        /\ \A i \in (FwaitAt + 1)..(fetcher.next - 1) :
            IsPrefix(ByteOf(i)) \/ (dsz = 2 /\ IsRex(ByteOf(i)))
    BY DEF Collecting
  <1>3. ByteOf(FwaitAt) = FWAIT
    <2>1. FwaitAt # -1
      BY <1>1, <1>2
    <2>2. PICK i \in 0..(num_bytes - 1) : FwaitIs(i)
      BY <1>1, <2>1, FwaitOffset
    <2>3. FwaitAt = i
      BY <1>1, <2>2, FwaitOffset
    <2>4. QED
      BY <2>2, <2>3 DEF FwaitIs
  <1>4. fetcher.next > 0 /\ fetcher.next - 1 \in 0..(num_bytes - 1)
    BY <1>1, <1>2
  <1>5. SecondByte \in Byte
    <2>1. buf[fetcher.next] \in Byte
      <3>1. fetcher.next \in 1..Len(buf)
        BY <1>1, <1>4, NumBytes DEF Inv, TypeOK
      <3>2. QED
        BY <3>1 DEF Inv, TypeOK
    <2>2. (fetcher.next - 1) + 1 = fetcher.next
      BY <1>1
    <2>3. QED
      BY <2>1, <2>2 DEF SecondByte, ByteOf
  <1>6. CASE FwaitAt = fetcher.next - 1
    BY <1>3, <1>4, <1>5, <1>6 DEF SecondByte
  <1>7. CASE FwaitAt # fetcher.next - 1
    <2>1. fetcher.next - 1 \in (FwaitAt + 1)..(fetcher.next - 1)
      BY <1>1, <1>2, <1>7
    <2>2. IsPrefix(SecondByte) \/ (dsz = 2 /\ IsRex(SecondByte))
      BY <1>2, <2>1 DEF SecondByte
    <2>3. SecondByte # FWAIT
      BY <2>2, ByteClasses
    <2>4. QED
      BY <1>4, <1>5, <2>2, <2>3
  <1>8. QED
    BY <1>6, <1>7

\* What the table has for that byte.
LEMMA SecondLeaf ==
  ASSUME Inv, Collecting, attempt = 2
  PROVE  LET n == Table[Table[Root].kids[SecondByte]]
             e == Encodings[n.encoding]
         IN  /\ n.type = 0
             /\ \/ n.encoding = Invalid
                \/ dsz = 2 /\ "no64" \in e.etags
                \/ SecondByte = FWAIT /\ ~e.regop /\ \A i \in 1..4 : e.args[i].type = "void"
  <1>1. /\ SecondByte \in Byte
        /\ IsPrefix(SecondByte) \/ (dsz = 2 /\ IsRex(SecondByte)) \/ SecondByte = FWAIT
    BY SecondByteKnown
  <1>2. QED
    BY <1>1, PrefixAssumption

\* The second attempt finds the instruction that FWAIT is, or none.
LEMMA SecondStep == Inv /\ Collecting /\ Began /\ Second /\ [Next]_vars => Second'
  <1> SUFFICES ASSUME Inv, Collecting, Began, Second, [Next]_vars, attempt' = 2
               PROVE  Second'
    BY DEF Second
  <1> DEFINE b == SecondByte
             leaf == Table[Root].kids[b]
  <1>1. CASE TakePrefixes
    BY <1>1, CollectingFrame
  <1>2. CASE FallBack
    BY <1>2 DEF FallBack, Second
  <1>3. CASE UNCHANGED vars
    BY <1>3 DEF vars, inputs, Second, SecondByte, ByteOf, AllVoid
  <1>4. CASE Walk \/ get_arguments \/ Return
    <2>1. /\ UNCHANGED caller /\ attempt = 2 /\ fetcher' = fetcher /\ SecondByte' = SecondByte
      BY <1>4, DecodeFrame DEF caller, SecondByte, ByteOf
    <2>2. /\ b \in Byte /\ fetcher.next \in Nat /\ fetcher.next > 0 /\ buf[fetcher.next] = b
      <3>1. fetcher.next \in Nat /\ (fetcher.next - 1) + 1 = fetcher.next
        BY FetcherBytes
      <3>2. QED
        BY <2>1, <3>1, SecondByteKnown DEF SecondByte, ByteOf
    <2>3. Table[Root].type = 1 /\ Table[leaf].type = 0
      BY <2>1, SecondLeaf, TableAssumption
    <2>4. CASE EnterTry
      <3>1. pc' = "walk" /\ node' = Root /\ fetcher_copy' = fetcher_copy /\ pc = "try"
        BY <2>4 DEF EnterTry
      <3>2. fetcher_copy.next = fetcher.next - 1
        BY <2>1, <3>1 DEF Began, GoBack
      <3>3. QED
        BY <2>1, <3>1, <3>2 DEF Second
    <2>5. CASE EnterTryTooShort
      BY <2>5 DEF EnterTryTooShort, Fail, Second
    <2>6. CASE WalkByte
      <3>1. pc = "walk" /\ Table[node].type = 1
        BY <2>6 DEF WalkByte
      <3>2. node = Root /\ fetcher_copy.next = fetcher.next - 1
        BY <2>1, <2>3, <3>1 DEF Second
      <3>3. At(fetcher_copy) = b
        BY <2>2, <3>2 DEF At
      <3>4. \/ pc' = "judge" /\ status' # ""
            \/ pc' = "walk" /\ node' = leaf /\ fetcher_copy' = Advance(fetcher_copy, 1)
        BY <2>6, <3>1, <3>2, <3>3 DEF WalkByte, Fail
      <3>5. Advance(fetcher_copy, 1).next = fetcher.next
        BY <2>2, <3>2 DEF Advance
      <3>6. QED
        BY <2>1, <3>4, <3>5 DEF Second
    <2>7. CASE WalkMode \/ WalkModRM
      <3>1. pc = "walk" /\ Table[node].type \in {2, 3, 4, 5, 6}
        <4>1. WalkMode => pc = "walk" /\ Table[node].type \in {2, 6}
          BY DEF WalkMode
        <4>2. WalkModRM => pc = "walk" /\ Table[node].type \in {3, 4, 5}
          BY DEF WalkModRM
        <4>3. QED
          BY <2>7, <4>1, <4>2
      <3>2. node = Root \/ node = leaf
        BY <2>1, <3>1 DEF Second
      <3>3. QED
        BY <2>3, <3>1, <3>2
    <2>8. CASE InvalidOpcode
      BY <2>8 DEF InvalidOpcode, Fail, Second
    <2>9. CASE Leaf
      <3>1. pc = "walk" /\ Table[node].type = 0 /\ Table[node].encoding # Invalid
        BY <2>9 DEF Leaf
      <3>2. node = leaf /\ fetcher_copy.next = fetcher.next
        BY <2>1, <2>3, <3>1 DEF Second
      <3>3. \/ pc' = "judge" /\ status' # ""
            \/ /\ pc' = "args" /\ ~(dsz = 2 /\ "no64" \in LeafEncoding.etags)
               /\ LeafKnown \/ LeafReads
        BY <2>9, LeafCases
      <3>4. CASE pc' = "judge" /\ status' # ""
        BY <3>4 DEF Second
      <3>5. CASE /\ pc' = "args" /\ ~(dsz = 2 /\ "no64" \in LeafEncoding.etags)
                 /\ LeafKnown \/ LeafReads
        <4>1. b = FWAIT /\ ~LeafEncoding.regop /\ \A i \in 1..4 : LeafEncoding.args[i].type = "void"
          BY <2>1, <3>1, <3>2, <3>5, SecondLeaf DEF LeafEncoding
        <4>2. LeafKnown
          BY <3>5, <4>1 DEF LeafReads
        <4>3. dest'.args = LeafEncoding.args
          <5>1. LeafIcode \in Icodes
            BY <2>9, LeafCases
          <5>2. QED
            BY <4>2, <5>1 DEF LeafKnown, WithOperands, Icodes
        <4>4. fetcher_copy' = fetcher_copy
          BY <4>2 DEF LeafKnown
        <4>5. AllVoid(dest')
          BY <4>1, <4>3 DEF AllVoid
        <4>6. QED
          BY <2>1, <3>2, <3>5, <4>1, <4>4, <4>5 DEF Second
      <3>6. QED
        BY <3>3, <3>4, <3>5
    <2>10. CASE get_arguments
      <3>1. pc = "args"
        BY <2>10 DEF get_arguments, UnsupportedArgument, FullDispArg, ImplicitImmArg, ImmArg, RegArg,
           MemArg, EndArgs, AtArg
      <3>2. b = FWAIT /\ AllVoid(dest) /\ fetcher_copy.next = fetcher.next
        BY <2>1, <3>1 DEF Second
      <3>3. ~AtArg
        BY <3>2 DEF AtArg, AllVoid
      <3>4. EndArgs
        BY <2>10, <3>3 DEF get_arguments, UnsupportedArgument, FullDispArg, ImplicitImmArg, ImmArg,
           RegArg, MemArg
      <3>5. pc' = "judge" /\ dest' = dest
        BY <3>4 DEF EndArgs, Fail
      <3>6. status' = "" => state'.insn_size = fetcher.next
        <4>1. state \in DecoderStates
          BY DEF Inv, TypeOK
        <4>2. QED
          BY <3>2, <3>4, <4>1 DEF EndArgs, Fail, DecoderStates
      <3>7. QED
        BY <2>1, <3>2, <3>5, <3>6 DEF Second
    <2>11. CASE Return
      <3>1. /\ pc = "judge" /\ pc' = "done" /\ state' = state
            /\ (status' = "" => status = "")
        BY <2>11 DEF Return
      <3>2. dest'.args = dest.args
        <4>1. dest \in Icodes
          BY DEF Inv, TypeOK
        <4>2. QED
          BY <2>11, <4>1 DEF Return, Icodes
      <3>3. QED
        BY <2>1, <3>1, <3>2 DEF Second, AllVoid
    <2>12. QED
      BY <1>4, <2>4, <2>5, <2>6, <2>7, <2>8, <2>9, <2>10, <2>11 DEF Walk
  <1>5. QED
    BY <1>1, <1>2, <1>3, <1>4 DEF Next, Step, Finish, Returned

\* The call succeeds.
Done == pc = "done" /\ status = ""

\* do_decode notes whether an FWAIT was used.
LEMMA NotedReturn ==
  ASSUME Inv, Collecting, Return, Done'
  PROVE  Noted'
  <1>1. /\ pc = "judge" /\ got_fwait' = got_fwait /\ attempt' = attempt
        /\ ~(attempt = 1 /\ TooLong) /\ ~Rejected /\ (Rejected <=> attempt = 1 /\ p.wait_used /\ ~Fwaitable)
        /\ dest' = [dest EXCEPT !.fwait =
                     CASE attempt = 1 /\ p.wait_used -> 2
                       [] attempt = 1 /\ ~p.wait_used /\ ~TooLong /\ Fwaitable -> 1
                       [] OTHER -> 0]
    BY DEF Return, caller, Done, Rejected
  <1>2. dest \in Icodes /\ attempt \in {1, 2} /\ got_fwait \in BOOLEAN
    BY DEF Inv, TypeOK
  <1>3. attempt = 1 => p.wait_used = got_fwait
    BY <1>1 DEF Collecting, Decoding
  <1>4. /\ dest'.encoding = dest.encoding
        /\ dest'.fwait = CASE attempt = 1 /\ got_fwait -> 2
                       [] attempt = 1 /\ ~got_fwait /\ ~TooLong /\ Fwaitable -> 1
                       [] OTHER -> 0
    BY <1>1, <1>2, <1>3 DEF Icodes
  <1>5. (dest'.fwait = 2) = (got_fwait' /\ attempt' = 1)
    BY <1>1, <1>2, <1>4
  <1>6. (dest'.fwait = 2) => Fwaitable
    BY <1>1, <1>2, <1>3, <1>4
  <1>7. Fwaitable => "fwaitable" \in Encodings[dest'.encoding].itags
    BY <1>4 DEF Fwaitable, Encoding
  <1>8. QED
    BY <1>5, <1>6, <1>7 DEF Noted

\* It is noted by the step that returns.
LEMMA NotedStep == Inv /\ Collecting /\ Noted /\ [Next]_vars => Noted'
  <1> SUFFICES ASSUME Inv, Collecting, Noted, [Next]_vars, Done' PROVE Noted'
    BY DEF Noted, Done
  <1>1. CASE Return
    BY <1>1, NotedReturn
  <1>2. CASE TakePrefixes
    BY <1>2, CollectingFrame DEF Done
  <1>3. CASE Walk \/ get_arguments
    BY <1>3, LeafCases DEF Walk, EnterTry, EnterTryTooShort, WalkByte, WalkMode, WalkModRM, InvalidOpcode,
       get_arguments, UnsupportedArgument, FullDispArg, ImplicitImmArg, ImmArg, RegArg, MemArg,
       EndArgs, Fail, NextArg, AtArg, Done
  <1>4. CASE FallBack
    BY <1>4 DEF FallBack, Done
  <1>5. CASE UNCHANGED vars
    <2>1. pc' = pc /\ status' = status /\ dest' = dest /\ got_fwait' = got_fwait /\ attempt' = attempt
      BY <1>5 DEF vars
    <2>2. QED
      BY <2>1 DEF Noted
  <1>6. QED
    BY <1>1, <1>2, <1>3, <1>4, <1>5 DEF Next, Step, Finish, Returned

\* The prefixes that count are those that were collected.
LEMMA NamedBytes ==
  ASSUME num_bytes \in Nat, NEW first \in Nat, NEW n \in 0..num_bytes, first <= n,
         AllPrefixes(buf, first, n), NEW S
  PROVE  /\ Named(first, n - 1, S) = Of(buf, first, n, S)
         /\ (n < num_bytes /\ ~IsPrefix(ByteOf(n))) => Named(first, n, S) = Of(buf, first, n, S)
  <1>1. \A i \in first..(n - 1) : IsPrefix(ByteOf(i))
    BY DEF AllPrefixes, ByteOf
  <1>2. Legacy(first, n - 1) = first..(n - 1)
    BY <1>1 DEF Legacy, Offsets
  <1>3. ASSUME n < num_bytes, ~IsPrefix(ByteOf(n))
        PROVE  Legacy(first, n) = first..(n - 1)
    <2>1. ASSUME NEW i \in Legacy(first, n)
          PROVE  i \in first..(n - 1)
      <3>1. i \in Offsets(first, n) /\ \A j \in Offsets(first, i) : IsPrefix(ByteOf(j))
        BY <2>1 DEF Legacy
      <3>2. i \in Offsets(first, i) /\ i \in first..n
        BY <3>1 DEF Offsets
      <3>3. i # n
        BY <1>3, <3>1, <3>2
      <3>4. QED
        BY <3>2, <3>3
    <2>2. first..(n - 1) \subseteq Legacy(first, n)
      BY <1>1, <1>3 DEF Legacy, Offsets
    <2>3. QED
      BY <2>1, <2>2
  <1>4. QED
    BY <1>2, <1>3 DEF Named, Of, ByteOf

SegNumber(c) == CHOOSE s \in 0..5 : <<38, 46, 54, 62, 100, 101>>[s + 1] = c

\* The number of a segment.
LEMMA SegNumbers == \A c \in Segs : SegNumber(c) = SegOf(c)
  <1>1. \A s, t \in 0..5 : <<38, 46, 54, 62, 100, 101>>[s + 1] = <<38, 46, 54, 62, 100, 101>>[t + 1] => s = t
    OBVIOUS
  <1>2. ASSUME NEW c \in Segs PROVE SegOf(c) \in 0..5 /\ <<38, 46, 54, 62, 100, 101>>[SegOf(c) + 1] = c
    <2>1. /\ SegOf(38) = 0 /\ SegOf(46) = 1 /\ SegOf(54) = 2 /\ SegOf(62) = 3
          /\ SegOf(100) = 4 /\ SegOf(101) = 5
      BY DEF SegOf, RegField
    <2>2. QED
      BY <2>1 DEF Segs
  <1>3. QED
    BY <1>1, <1>2 DEF SegNumber

\* The last segment prefix is the one that was kept.
LEMMA SegmentSaid ==
  ASSUME NEW q, NEW first \in Nat, NEW n \in Nat, NEW last,
         SaysSegment(q, buf, first, n), Named(first, last, Segs) = Of(buf, first, n, Segs)
  PROVE  q.sreg = LastSeg(first, last)
  <1> DEFINE segs == Of(buf, first, n, Segs)
             k == CHOOSE i \in segs : \A j \in segs : j <= i
  <1>1. LastSeg(first, last) = IF segs = {} THEN NoSeg ELSE SegNumber(ByteOf(k))
    <2>1. Named(first, last, Segs) = segs
      OBVIOUS
    <2> HIDE DEF segs
    <2>2. LastSeg(first, last) =
            LET S == Named(first, last, Segs)
                c == ByteOf(CHOOSE i \in S : \A j \in S : j <= i)
            IN  IF S = {} THEN NoSeg ELSE SegNumber(c)
      BY DEF LastSeg, SegNumber, Segs
    <2>3. QED
      BY <2>1, <2>2
  <1>2. CASE segs = {} /\ q.sreg = NoSeg
    BY <1>1, <1>2
  <1>3. ASSUME NEW i \in segs, \A j \in segs : j <= i, q.sreg = SegOf(buf[i + 1])
        PROVE  q.sreg = LastSeg(first, last)
    <2>1. \A j \in segs : j \in Int /\ ByteOf(j) \in Segs
      BY DEF Of, ByteOf
    <2> HIDE DEF segs
    <2>2. k \in segs /\ \A j \in segs : j <= k
      BY <1>3
    <2> HIDE DEF k
    <2>3. k = i
      BY <1>3, <2>1, <2>2
    <2>4. SegNumber(ByteOf(i)) = SegOf(ByteOf(i))
      BY <1>3, <2>1, SegNumbers
    <2>5. QED
      BY <1>1, <1>3, <2>3, <2>4 DEF ByteOf
  <1>4. QED
    BY <1>2, <1>3 DEF SaysSegment

\* LOCK, or else the first of REPNE and REP, is the one that was kept.
LEMMA RepeatRead ==
  ASSUME NEW q, NEW first \in Nat, NEW n \in Nat, NEW last,
         SaysRepeat(q, buf, first, n), \A S : Named(first, last, S) = Of(buf, first, n, S)
  PROVE  q.lockrep = LockRep(first, last)
  <1> DEFINE reps == Of(buf, first, n, Reps)
             locks == Of(buf, first, n, {LOCK})
             k == CHOOSE i \in reps : \A j \in reps : i <= j
  <1>1. LockRep(first, last) = CASE locks # {} -> 1
                                 [] locks = {} /\ reps # {} -> ByteOf(k) - 240
                                 [] OTHER -> 0
    <2>1. Named(first, last, {242, 243}) = reps /\ Named(first, last, {LOCK}) = locks
      BY DEF Reps
    <2> HIDE DEF reps, locks
    <2>2. QED
      BY <2>1, ZenonT(30) DEF LockRep
  <1>2. CASE locks # {} /\ q.lockrep = 1
    BY <1>1, <1>2
  <1>3. CASE locks = {} /\ reps = {} /\ q.lockrep = 0
    BY <1>1, <1>3
  <1>4. ASSUME locks = {}, NEW i \in reps, \A j \in reps : i <= j, q.lockrep = buf[i + 1] - 240
        PROVE  q.lockrep = LockRep(first, last)
    <2>1. \A j \in reps : j \in Int
      BY DEF Of
    <2> HIDE DEF reps, locks
    <2>2. k \in reps /\ \A j \in reps : k <= j
      BY <1>4
    <2> HIDE DEF k
    <2>3. k = i
      BY <1>4, <2>1, <2>2
    <2>4. QED
      BY <1>1, <1>4, <2>3 DEF ByteOf
  <1>5. QED
    BY <1>2, <1>3, <1>4 DEF SaysRepeat

\* An instruction that was decoded at the first attempt has the prefixes that
\* the bytes before it say it has.
LEMMA CollectedPrefixes ==
  ASSUME Inv, Collecting, Began, Done, attempt = 1
  PROVE  PrefixMeaning
  <1> DEFINE first == FwaitAt + 1
             n == fetcher.next
             last == state.prefix_size - 1
             rexed == dsz = 2 /\ last > FwaitAt /\ IsRex(ByteOf(last))
             body == /\ p.op66 = (Named(first, last, {OP66}) # {})
                     /\ p.op67 = (Named(first, last, {OP67}) # {})
                     /\ p.sreg = LastSeg(first, last)
                     /\ dest.lockrep = LockRep(first, last)
                     /\ p.rex_used = rexed
                     /\ rexed => ByteOf(last) = 64 + 8 * p.rex_w + 4 * p.rex_r
                                      + 2 * p.rex_x + p.rex_b
  <1>1. /\ AtOpcode \/ BehindRex \/ AtEnd
        /\ ~got_fwait => FwaitAt = -1
        /\ got_fwait => FwaitAt \in 0..(n - 1)
    BY DEF Collecting, Decoding, Done
  <1>2. dest.lockrep = p.lockrep /\ state.prefix_size = n /\ Has(fetcher, 1)
    BY DEF Began, Done
  <1>3. /\ num_bytes \in Nat /\ n \in 0..num_bytes /\ n < num_bytes
        /\ At(fetcher) = ByteOf(n)
    BY <1>2, FetcherBytes
  <1>4. Start = first /\ FwaitAt \in Int /\ first \in Nat
    BY <1>1, <1>3 DEF Start
  <1>5. last = n - 1
    BY <1>2
  <1> HIDE DEF first, last, n
  <1>6. ASSUME NEW m \in 0..num_bytes, first \in 0..m, AllPrefixes(buf, first, m),
               Says(p, buf, first, m), \A S : Named(first, last, S) = Of(buf, first, m, S)
        PROVE  /\ p.op66 = (Named(first, last, {OP66}) # {})
               /\ p.op67 = (Named(first, last, {OP67}) # {})
               /\ p.sreg = LastSeg(first, last)
               /\ dest.lockrep = LockRep(first, last)
    <2>1. m \in Nat /\ first \in Nat
      BY <1>3, <1>4, <1>6
    <2>2. p.op66 = (Named(first, last, {OP66}) # {})
      <3>1. p.op66 = (Of(buf, first, m, {OP66}) # {})
        BY <1>6 DEF Says
      <3>2. Named(first, last, {OP66}) = Of(buf, first, m, {OP66})
        BY <1>6
      <3>3. QED
        BY <3>1, <3>2
    <2>3. p.op67 = (Named(first, last, {OP67}) # {})
      <3>1. p.op67 = (Of(buf, first, m, {OP67}) # {})
        BY <1>6 DEF Says
      <3>2. Named(first, last, {OP67}) = Of(buf, first, m, {OP67})
        BY <1>6
      <3>3. QED
        BY <3>1, <3>2
    <2>4. p.sreg = LastSeg(first, last)
      <3>1. SaysSegment(p, buf, first, m) /\ Named(first, last, Segs) = Of(buf, first, m, Segs)
        BY <1>6 DEF Says
      <3>2. QED
        BY <2>1, <3>1, SegmentSaid
    <2>5. dest.lockrep = LockRep(first, last)
      <3>1. SaysRepeat(p, buf, first, m)
        BY <1>6 DEF Says
      <3>2. p.lockrep = LockRep(first, last)
        BY <1>6, <2>1, <3>1, RepeatRead
      <3>3. QED
        BY <1>2, <3>2
    <2>6. QED
      BY <2>2, <2>3, <2>4, <2>5
  <1>7. CASE AtOpcode
    <2>1. /\ ~IsPrefix(ByteOf(n)) /\ first \in 0..n /\ AllPrefixes(buf, first, n)
          /\ Says(p, buf, first, n) /\ NoRexBits(p)
      BY <1>3, <1>4, <1>7 DEF AtOpcode, Collected, n
    <2>2. \A S : Named(first, last, S) = Of(buf, first, n, S)
      BY <1>3, <1>4, <1>5, <2>1, NamedBytes
    <2>3. /\ p.op66 = (Named(first, last, {OP66}) # {})
          /\ p.op67 = (Named(first, last, {OP67}) # {})
          /\ p.sreg = LastSeg(first, last)
          /\ dest.lockrep = LockRep(first, last)
      BY <1>3, <1>6, <2>1, <2>2
    <2>4. ~rexed
      <3>1. ASSUME last > FwaitAt PROVE IsPrefix(ByteOf(last))
        <4>1. last \in first..(n - 1)
          BY <1>3, <1>4, <1>5, <3>1 DEF first
        <4>2. QED
          BY <2>1, <4>1 DEF AllPrefixes, ByteOf
      <3>2. QED
        BY <3>1, ByteClasses
    <2>5. p.rex_used = FALSE
      BY <2>1 DEF NoRexBits
    <2>6. body
      BY <2>3, <2>4, <2>5
    <2>7. QED
      BY <2>6 DEF PrefixMeaning, first, last
  <1>8. CASE BehindRex
    <2>1. /\ dsz = 2 /\ n > 0 /\ IsRex(ByteOf(n - 1)) /\ first \in 0..(n - 1)
          /\ AllPrefixes(buf, first, n - 1) /\ Says(p, buf, first, n - 1)
          /\ RexBits(p, ByteOf(n - 1))
      BY <1>4, <1>8 DEF BehindRex, Collected, n
    <2>2. n - 1 \in 0..num_bytes /\ n - 1 < num_bytes /\ ~IsPrefix(ByteOf(n - 1))
      BY <1>3, <2>1, ByteClasses
    <2>3. \A S : Named(first, last, S) = Of(buf, first, n - 1, S)
      BY <1>3, <1>4, <1>5, <2>1, <2>2, NamedBytes
    <2>4. /\ p.op66 = (Named(first, last, {OP66}) # {})
          /\ p.op67 = (Named(first, last, {OP67}) # {})
          /\ p.sreg = LastSeg(first, last)
          /\ dest.lockrep = LockRep(first, last)
      BY <1>3, <1>6, <2>1, <2>2, <2>3
    <2>5. rexed
      <3>1. last > FwaitAt
        BY <1>3, <1>4, <1>5, <2>1 DEF first
      <3>2. QED
        BY <1>5, <2>1, <3>1
    <2>6. p.rex_used = TRUE
      BY <2>1 DEF RexBits
    <2>7. ByteOf(last) = 64 + 8 * p.rex_w + 4 * p.rex_r + 2 * p.rex_x + p.rex_b
      <3>1. \A c \in 64..79 :
              c = 64 + 8 * ((c \div 8) % 2) + 4 * ((c \div 4) % 2) + 2 * ((c \div 2) % 2) + (c % 2)
        OBVIOUS
      <3>2. QED
        BY <1>5, <2>1, <3>1 DEF RexBits, IsRex
    <2>8. body
      BY <2>4, <2>5, <2>6, <2>7
    <2>9. QED
      BY <2>8 DEF PrefixMeaning, first, last
  <1>9. CASE AtEnd
    BY <1>2, <1>9 DEF AtEnd
  <1>10. QED
    BY <1>1, <1>7, <1>8, <1>9

Attempts == Collecting /\ Began /\ Second /\ Noted

\* What the attempts have in common when the call returns.
LEMMA AttemptsReturn ==
  Inv /\ Attempts => PrefixMeaning /\ FwaitMeaning
  <1> SUFFICES ASSUME Inv, Attempts PROVE PrefixMeaning /\ FwaitMeaning
    OBVIOUS
  <1>1. PrefixMeaning
    <2>1. CASE Done /\ attempt = 1
      BY <2>1, CollectedPrefixes DEF Attempts
    <2>2. CASE ~(Done /\ attempt = 1)
      BY <2>2 DEF PrefixMeaning, Succeeded, Returning, Done
    <2>3. QED
      BY <2>1, <2>2
  <1>2. ASSUME Done, attempt = 2
        PROVE  /\ state.insn_size = FwaitAt + 1
               /\ state.prefix_size = FwaitAt
               /\ \A i \in 1..4 : dest.args[i].type = "void"
               /\ dest.lockrep = 0
    <2>1. /\ SecondByte = FWAIT /\ AllVoid(dest) /\ state.insn_size = fetcher.next
          /\ state.prefix_size = fetcher.next - 1 /\ dest.lockrep = p.lockrep /\ p = NoPrefix
      <3>1. attempt # 1
        BY <1>2
      <3>2. /\ SecondByte = FWAIT /\ AllVoid(dest) /\ state.insn_size = fetcher.next
            /\ p = NoPrefix /\ dest.lockrep = p.lockrep
            /\ state.prefix_size = IF attempt = 1 THEN fetcher.next ELSE fetcher.next - 1
        BY <1>2, Zenon DEF Attempts, Second, Began, Collecting, Done
      <3>3. QED
        BY <3>1, <3>2
    <2>2. FwaitAt = fetcher.next - 1 /\ fetcher.next \in Nat
      BY <1>2, <2>1, SecondByteKnown, FetcherBytes DEF Attempts
    <2>3. QED
      BY <2>1, <2>2 DEF AllVoid, NoPrefix
  <1>3. FwaitMeaning
    <2>1. ASSUME Done
          PROVE  /\ (dest.fwait = 2) = (got_fwait /\ attempt = 1)
                 /\ (dest.fwait = 2) => "fwaitable" \in Encodings[dest.encoding].itags
      BY <2>1 DEF Done, Attempts, Noted
    <2>2. Succeeded <=> Done
      BY DEF Succeeded, Returning, Done
    <2>3. QED
      BY <1>2, <2>1, <2>2 DEF FwaitMeaning
  <1>4. QED
    BY <1>1, <1>3

\* The attempts go as they should.
THEOREM AttemptsAlways == Spec => [](Inv /\ Attempts)
  <1>1. Init => Inv /\ Attempts
    <2>1. Init => pc = "prefix" \/ (pc = "done" /\ status # "")
      BY DEF Init
    <2>2. Init => attempt = 1
      BY DEF Init
    <2>3. QED
      BY <2>1, <2>2, InvInit, CollectingInit DEF Attempts, Began, Second, Noted
  <1>2. Inv /\ Attempts /\ [Next]_vars => (Inv /\ Attempts)'
    BY InvStep, CollectingStep, BeganStep, SecondStep, NotedStep DEF Attempts
  <1>3. QED
    BY <1>1, <1>2, PTL DEF Spec

\* The prefixes of a decoded instruction are those its bytes name.
THEOREM PrefixesAlwaysMean == Spec => []PrefixMeaning
  <1>1. Inv /\ Attempts => PrefixMeaning
    BY AttemptsReturn
  <1>2. QED
    BY <1>1, AttemptsAlways, PTL

\* An FWAIT is a part of an instruction that takes one, or is one of its own.
THEOREM FwaitAlwaysMeans == Spec => []FwaitMeaning
  <1>1. Inv /\ Attempts => FwaitMeaning
    BY AttemptsReturn
  <1>2. QED
    BY <1>1, AttemptsAlways, PTL

-----------------------------------------------------------------------------
(* What has been read of an instruction *)

\* Bytes of the opcode at offset first of b.
OpcodeLength(b, first) ==
  CASE b[first + 1] # 15 -> 1
    [] b[first + 1] = 15 /\ b[first + 2] # 56 -> 2
    [] OTHER -> 3

\* Length of the ModRM byte c and the SIB byte that may follow it.
HeaderLength(asz, c) == IF asz # 0 /\ c < 192 /\ c % 8 = 4 THEN 2 ELSE 1

\* The address in memory that the bytes c and sib stand for, in mode d and with
\* the REX bits of q.
AddressForm(d, q, ic, c, sib) ==
  LET mod  == c \div 64
      rm   == c % 8
      b    == (IF rm = 4 THEN sib % 8 ELSE rm) + 8 * q.rex_b
      x    == ((sib \div 8) % 8) + 8 * q.rex_x
      bare == mod = 0 /\ b % 8 = 5
  IN  IF ic.asz = 0
      THEN /\ {ic.ea.base, ic.ea.index} \ {NoReg}
                = IF mod = 0 /\ rm = 6 THEN {} ELSE Forms16[rm + 1]
           /\ ic.disp.len = IF mod = 0 THEN IF rm = 6 THEN 2 ELSE 0 ELSE mod
      ELSE /\ ic.ea.base = IF bare THEN NoReg ELSE b
           /\ ic.ea.index = IF rm = 4 /\ x # 4 THEN x ELSE NoReg
           /\ ic.disp.len = CASE mod = 1 -> 1
                              [] mod = 2 \/ bare -> 4
                              [] OTHER -> 0
           /\ ic.rip_relative = (d = 2 /\ bare /\ rm = 5)

\* The address form of an instruction in b, and where it was found.
AddressRead(b, d, q, ic, st) ==
  /\ st.modrm_offset = st.prefix_size + OpcodeLength(b, st.prefix_size)
  /\ st.modrm0 = b[st.modrm_offset + 1]
  /\ IF st.modrm0 < 192 THEN AddressForm(d, q, ic, st.modrm0, b[st.modrm_offset + 2])
                        ELSE ic.disp = NoSlice
  /\ IF ic.disp.len = 0 THEN st.disp_offset = NoOffset
     ELSE /\ ic.disp.at = st.modrm_offset + HeaderLength(ic.asz, st.modrm0)
          /\ st.disp_offset = ic.disp.at

\* Offset of what follows the opcode and the address form's ModRM and SIB.
Opened(b, ic, st) ==
  IF st.has_modrm THEN st.modrm_offset + HeaderLength(ic.asz, st.modrm0)
  ELSE st.prefix_size + OpcodeLength(b, st.prefix_size)

\* Nothing has been read behind the opcode.
Fresh(ic, st) ==
  /\ ic.disp = NoSlice /\ st.disp_offset = NoOffset
  /\ ic.ea.base = NoReg /\ ic.ea.index = NoReg /\ ~ic.rip_relative

\* The walk has come to node n, with the next byte at offset k.
OnTheWay(b, n, first, k) ==
  \/ n = Root /\ k = first
  \/ n = Two /\ k = first + 1 /\ b[first + 1] = 15
  \/ n = Three /\ k = first + 2 /\ b[first + 1] = 15 /\ b[first + 2] = 56
  \/ Table[n].type # 1 /\ k = first + OpcodeLength(b, first)

\* An operand is in memory whatever ModRM says.
InMemory(e) == \E i \in 1..4 : e.args[i].type \in EaTypes

\* What a leaf asks of the ModRM byte.
Suits(e, st) ==
  /\ ~e.regop => ~st.has_modrm
  /\ InMemory(e) => st.has_modrm /\ st.modrm0 < 192

\* The first attempt in the table.
Reading(b, d, q, ic, st, n, k) ==
  /\ ic.imm = NoSlice /\ st.imm1_offset = NoOffset /\ st.imm2_offset = NoOffset
  /\ d = 2 => ic.asz # 0
  /\ ~st.has_modrm => Fresh(ic, st) /\ OnTheWay(b, n, st.prefix_size, k)
  /\ st.has_modrm => /\ Table[n].type # 1 /\ AddressRead(b, d, q, ic, st)
                     /\ k = Opened(b, ic, st) + ic.disp.len
  /\ (Table[n].type = 0 /\ Table[n].encoding # Invalid) =>
       Suits(Encodings[Table[n].encoding], st)

\* The slices s and t, if there are any, fill the bytes from offset i to k - 1.
Adjoin(s, t, i, k) ==
  /\ s.len > 0 => s.at = i
  /\ t.len > 0 => t.at = i + s.len
  /\ k = i + s.len + t.len

\* What has been read up to offset k, by fields of the icode.
Filled(b, d, q, ic, st, k) ==
  /\ st.has_modrm = Encodings[ic.encoding].regop
  /\ st.has_modrm => AddressRead(b, d, q, ic, st)
  /\ Suits(Encodings[ic.encoding], st)
  /\ \/ Adjoin(ic.disp, ic.imm, Opened(b, ic, st), k)
     \/ Adjoin(ic.imm, ic.disp, Opened(b, ic, st), k)
  /\ st.disp_offset # NoOffset => ic.disp.at = st.disp_offset
  /\ st.imm2_offset # NoOffset => ic.disp.at = st.imm2_offset
  /\ st.imm1_offset # NoOffset => ic.imm.at = st.imm1_offset /\ ic.imm.len > 0
  /\ st.has_modrm /\ st.imm1_offset = NoOffset => ic.imm = NoSlice

\* No operand before the i-th fills the field.
Free(e, i, field) == \A j \in 1..4 : j < i => field \notin FieldsOf(e, e.args[j])

\* The operands from i on have not been looked at, and their fields are free.
Pending(ic, st, i) ==
  LET e == Encodings[ic.encoding]
  IN  /\ \A j \in 1..4 : j >= i => ic.args[j] = e.args[j]
      /\ Free(e, i, "imm") => ic.imm = NoSlice /\ st.imm1_offset = NoOffset
      /\ Free(e, i, "disp") /\ ~st.has_modrm =>
           ic.disp = NoSlice /\ st.disp_offset = NoOffset /\ st.imm2_offset = NoOffset

\* The first operand, once it has been looked at, is as the encoding has it,
\* or is in memory by its ModRM byte.
FirstOperand(ic, st) ==
  \/ ic.args[1].type = Encodings[ic.encoding].args[1].type
  \/ Encodings[ic.encoding].args[1].value = RegOrMem /\ st.modrm0 < 192

Locked(ic, st) ==
  ic.lockrep = 1 => /\ Lockable(Encodings[ic.encoding])
                    /\ st.has_modrm /\ st.modrm0 < 192

\* get_arguments has read the operands before argi.
ArgumentsRead ==
  /\ dest.encoding # Invalid
  /\ Filled(buf, dsz, p, dest, state, fetcher_copy.next)
  /\ Pending(dest, state, argi) /\ FirstOperand(dest, state)

\* try_decode has come to an instruction.
Judged == pc \in {"judge", "done"} /\ status = ""

\* What the first attempt has read.
ReadSoFar ==
  attempt = 1 =>
    /\ pc \in {"prefix", "rex", "fwait", "try"} => dest = NewIcode(dsz)
    /\ pc = "walk" => Reading(buf, dsz, p, dest, state, node, fetcher_copy.next)
    /\ pc = "args" => ArgumentsRead
    /\ Judged =>
         /\ dest.encoding # Invalid
         /\ Filled(buf, dsz, p, dest, state, state.insn_size)
         /\ Locked(dest, state)

\* The second attempt reads no ModRM byte.
Unaddressed ==
  (attempt = 2 /\ (pc \in {"walk", "args"} \/ Judged)) =>
    ~state.has_modrm

-----------------------------------------------------------------------------
(* Addresses *)

\* The 16-bit form finds the registers and the displacement of the table.
LEMMA Address16 ==
  ASSUME NEW ea \in Addresses, ea.base = NoReg, ea.index = NoReg, NEW c \in 0..191
  PROVE  LET m == decode_modrm_16(ea, c)
             mod == c \div 64
             rm == c % 8
         IN  /\ {m.ea.base, m.ea.index} \ {NoReg}
                  = IF mod = 0 /\ rm = 6 THEN {} ELSE Forms16[rm + 1]
             /\ m.disp = IF mod = 0 THEN IF rm = 6 THEN 2 ELSE 0 ELSE mod
  <1> DEFINE m == decode_modrm_16(ea, c)
             mod == c \div 64
             rm == c % 8
             absolute == mod = 0 /\ rm = 6
             index == IF rm < 6 THEN 6 + (rm % 2) ELSE NoReg
             base == CASE rm < 4                 -> 3 + 2 * (rm \div 2)
                       [] rm = 6 /\ ~absolute    -> 5
                       [] rm = 7                 -> 3
                       [] OTHER                  -> NoReg
  <1>1. mod \in 0..2 /\ rm \in 0..7 /\ Mod(c) = mod /\ Rm(c) = rm
    BY DEF Mod, Rm
  <1>2. m.ea.base = base /\ m.ea.index = index
    BY <1>1 DEF decode_modrm_16, Addresses
  <1>3. m.disp = IF absolute THEN 2 ELSE ModDisp(mod, 2)
    BY <1>1 DEF decode_modrm_16
  <1> HIDE DEF m, mod, rm
  <1>4. m.disp = IF mod = 0 THEN IF rm = 6 THEN 2 ELSE 0 ELSE mod
    BY <1>1, <1>3 DEF ModDisp
  <1>5. /\ Forms16[1] = {3, 6} /\ Forms16[2] = {3, 7} /\ Forms16[3] = {5, 6}
        /\ Forms16[4] = {5, 7} /\ Forms16[5] = {6} /\ Forms16[6] = {7}
        /\ Forms16[7] = {5} /\ Forms16[8] = {3}
    BY DEF Forms16
  <1>6. {base, index} \ {NoReg} = IF mod = 0 /\ rm = 6 THEN {} ELSE Forms16[rm + 1]
    <2> USE DEF NoReg
    <2>1. CASE rm = 0
      BY <1>5, <2>1
    <2>2. CASE rm = 1
      BY <1>5, <2>2
    <2>3. CASE rm = 2
      BY <1>5, <2>3
    <2>4. CASE rm = 3
      BY <1>5, <2>4
    <2>5. CASE rm = 4
      BY <1>5, <2>5
    <2>6. CASE rm = 5
      BY <1>5, <2>6
    <2>7. CASE rm = 6
      BY <1>5, <2>7
    <2>8. CASE rm = 7
      BY <1>5, <2>8
    <2>9. QED
      BY <1>1, <2>1, <2>2, <2>3, <2>4, <2>5, <2>6, <2>7, <2>8
  <1>7. QED
    BY <1>2, <1>4, <1>6 DEF m, mod, rm

\* Of a ModRM byte c and, if it has rm 4, a SIB byte: the base that is named, the
\* index, the bytes of displacement.
BaseField(c, sib) == IF c % 8 = 4 THEN sib % 8 ELSE c % 8
IndexField(sib)   == (sib \div 8) % 8
Bare(c, sib)      == c \div 64 = 0 /\ BaseField(c, sib) = 5
LongDisp(c, sib)  == CASE c \div 64 = 1 -> 1
                       [] c \div 64 = 2 \/ Bare(c, sib) -> 4
                       [] OTHER -> 0

\* The 32-bit form gives them; with a REX bit, index 4 is a register.
LEMMA Address32 ==
  ASSUME NEW ea \in Addresses, ea.base = NoReg, ea.index = NoReg, NEW c \in 0..191,
         NEW sib \in Byte, NEW mode64 \in BOOLEAN, NEW x \in 0..1
  PROVE  LET m == decode_modrm_32(ea, c, sib, mode64, x)
         IN  /\ m.ea.base = IF Bare(c, sib) THEN NoReg ELSE BaseField(c, sib)
             /\ m.ea.index = IF c % 8 = 4 /\ (IndexField(sib) # 4 \/ (mode64 /\ x = 1))
                             THEN IndexField(sib) ELSE NoReg
             /\ m.disp = LongDisp(c, sib)
             /\ m = [ea |-> m.ea, disp |-> m.disp] /\ m.ea \in Addresses
  <1> DEFINE m == decode_modrm_32(ea, c, sib, mode64, x)
             indexed == c % 8 = 4 /\ (IndexField(sib) # 4 \/ (mode64 /\ x = 1))
  <1>1. m.ea \in Addresses
    <2>1. c \in Byte
      BY DEF Byte
    <2>2. QED
      BY <2>1, AddressType32
  <1>2. /\ m.ea = [ea EXCEPT !.base  = IF Bare(c, sib) THEN @ ELSE BaseField(c, sib),
                             !.index = IF indexed THEN IndexField(sib) ELSE @,
                             !.scale = IF indexed THEN sib \div 64 ELSE @]
        /\ m.disp = IF Bare(c, sib) THEN 4 ELSE ModDisp(c \div 64, 4)
        /\ m = [ea |-> m.ea, disp |-> m.disp]
    BY DEF decode_modrm_32, Bare, BaseField, IndexField, Mod, Rm, RegField
  <1>3. m.disp = LongDisp(c, sib)
    BY <1>2 DEF LongDisp, ModDisp, Bare
  <1> HIDE DEF m, indexed
  <1>4. /\ m.ea.base = IF Bare(c, sib) THEN NoReg ELSE BaseField(c, sib)
        /\ m.ea.index = IF indexed THEN IndexField(sib) ELSE NoReg
    BY <1>2 DEF Addresses
  <1>5. QED
    BY <1>1, <1>2, <1>3, <1>4 DEF m, indexed

\* The 64-bit form adds the REX bits, except to an address relative to rip.
LEMMA Address64 ==
  ASSUME NEW ea \in Addresses, ea.base = NoReg, ea.index = NoReg, NEW c \in 0..191,
         NEW sib \in Byte, NEW x \in 0..1, NEW b \in 0..1
  PROVE  LET m == decode_modrm_64(ea, c, sib, x, b)
         IN  /\ m.ea.base = IF Bare(c, sib) THEN NoReg ELSE BaseField(c, sib) + 8 * b
             /\ m.ea.index = IF c % 8 = 4 /\ IndexField(sib) + 8 * x # 4
                             THEN IndexField(sib) + 8 * x ELSE NoReg
             /\ m.disp = LongDisp(c, sib)
  <1> DEFINE w == decode_modrm_32(ea, c, sib, TRUE, x)
             m == decode_modrm_64(ea, c, sib, x, b)
  <1>1. /\ w.ea.base = IF Bare(c, sib) THEN NoReg ELSE BaseField(c, sib)
        /\ w.ea.index = IF c % 8 = 4 /\ (IndexField(sib) # 4 \/ x = 1)
                        THEN IndexField(sib) ELSE NoReg
        /\ w.disp = LongDisp(c, sib)
        /\ w = [ea |-> w.ea, disp |-> w.disp] /\ w.ea \in Addresses
    <2>1. /\ w.ea.base = IF Bare(c, sib) THEN NoReg ELSE BaseField(c, sib)
          /\ w.ea.index = IF c % 8 = 4 /\ (IndexField(sib) # 4 \/ (TRUE /\ x = 1))
                          THEN IndexField(sib) ELSE NoReg
          /\ w.disp = LongDisp(c, sib)
          /\ w = [ea |-> w.ea, disp |-> w.disp] /\ w.ea \in Addresses
      <3>1. TRUE \in BOOLEAN
        OBVIOUS
      <3>2. QED
        BY <3>1, Address32, Zenon
    <2> HIDE DEF w
    <2>2. QED
      BY <2>1
  <1>2. m = IF RipRelative(c) THEN w
            ELSE [w EXCEPT !.ea.base = Extend(@, b), !.ea.index = Extend(@, x)]
    BY DEF decode_modrm_64
  <1>3. BaseField(c, sib) \in 0..7 /\ IndexField(sib) \in 0..7
    BY DEF BaseField, IndexField, Byte
  <1> HIDE DEF w, m
  <1>4. CASE RipRelative(c)
    <2>1. c \div 64 = 0 /\ c % 8 = 5
      BY <1>4 DEF RipRelative, Mod, Rm
    <2>2. Bare(c, sib) /\ c % 8 # 4
      BY <2>1 DEF Bare, BaseField
    <2>3. QED
      BY <1>1, <1>2, <1>4, <2>2 DEF m
  <1>5. CASE ~RipRelative(c)
    <2>1. /\ m.ea.base = Extend(w.ea.base, b) /\ m.ea.index = Extend(w.ea.index, x)
          /\ m.disp = w.disp
      <3>1. m = [w EXCEPT !.ea.base = Extend(@, b), !.ea.index = Extend(@, x)]
        BY <1>2, <1>5
      <3>2. m.ea = [w.ea EXCEPT !.base = Extend(w.ea.base, b), !.index = Extend(w.ea.index, x)]
            /\ m.disp = w.disp
        BY <1>1, <3>1 DEF Addresses
      <3>3. QED
        BY <1>1, <3>2 DEF Addresses
    <2>2. Extend(w.ea.base, b) = IF Bare(c, sib) THEN NoReg ELSE BaseField(c, sib) + 8 * b
      BY <1>1, <1>3 DEF Extend, NoReg
    <2>3. Extend(w.ea.index, x) = IF c % 8 = 4 /\ IndexField(sib) + 8 * x # 4
                                  THEN IndexField(sib) + 8 * x ELSE NoReg
      BY <1>1, <1>3 DEF Extend, NoReg
    <2>4. QED
      BY <1>1, <2>1, <2>2, <2>3 DEF m
  <1>6. QED
    BY <1>4, <1>5

\* An icode that takes over what get_modrm finds has the address that its bytes
\* stand for.
LEMMA AddressFound ==
  ASSUME NEW d \in 0..2, NEW q \in Prefixes, d # 2 => q.rex_x = 0 /\ q.rex_b = 0,
         NEW c \in 0..191, NEW sib \in Byte, NEW s, NEW ic, ic.asz \in 0..2,
         d = 2 => ic.asz # 0, ic.asz # 0 /\ c % 8 = 4 => s = sib,
         NEW ea \in Addresses, ea.base = NoReg, ea.index = NoReg,
         NEW m, m = decode_modrm(ea, c, sib, d, ic.asz, q.rex_x, q.rex_b),
         ic.ea.base = m.ea.base, ic.ea.index = m.ea.index, ic.disp.len = m.disp,
         ic.rip_relative = (d = 2 /\ RipRelative(c))
  PROVE  AddressForm(d, q, ic, c, s)
  <1>1. q.rex_x \in 0..1 /\ q.rex_b \in 0..1
    BY DEF Prefixes
  <1>2. CASE ic.asz = 0
    <2>1. m = decode_modrm_16(ea, c)
      BY <1>2 DEF decode_modrm
    <2>2. /\ {m.ea.base, m.ea.index} \ {NoReg}
               = IF c \div 64 = 0 /\ c % 8 = 6 THEN {} ELSE Forms16[(c % 8) + 1]
          /\ m.disp = IF c \div 64 = 0 THEN IF c % 8 = 6 THEN 2 ELSE 0 ELSE c \div 64
      <3> DEFINE w == decode_modrm_16(ea, c)
      <3>1. /\ {w.ea.base, w.ea.index} \ {NoReg}
                 = IF c \div 64 = 0 /\ c % 8 = 6 THEN {} ELSE Forms16[(c % 8) + 1]
            /\ w.disp = IF c \div 64 = 0 THEN IF c % 8 = 6 THEN 2 ELSE 0 ELSE c \div 64
        BY Address16, Zenon
      <3>2. w = m
        BY <2>1
      <3> HIDE DEF w
      <3>3. QED
        BY <3>1, <3>2
    <2>3. QED
      BY <1>2, <2>2 DEF AddressForm
  <1>3. CASE ic.asz # 0
    <2> DEFINE b == BaseField(c, sib) + 8 * q.rex_b
               x == IndexField(sib) + 8 * q.rex_x
    <2>1. BaseField(c, sib) \in 0..7 /\ IndexField(sib) \in 0..7
      BY DEF BaseField, IndexField, Byte
    <2>2. /\ m.ea.base = IF Bare(c, sib) THEN NoReg ELSE b
          /\ m.ea.index = IF c % 8 = 4 /\ x # 4 THEN x ELSE NoReg
          /\ m.disp = LongDisp(c, sib)
      <3>1. CASE d = 2
        <4>1. m = decode_modrm_64(ea, c, sib, q.rex_x, q.rex_b)
          BY <3>1 DEF decode_modrm
        <4>2. QED
          <5> DEFINE w == decode_modrm_64(ea, c, sib, q.rex_x, q.rex_b)
          <5>1. /\ w.ea.base = IF Bare(c, sib) THEN NoReg ELSE b
                /\ w.ea.index = IF c % 8 = 4 /\ x # 4 THEN x ELSE NoReg
                /\ w.disp = LongDisp(c, sib)
            BY <1>1, Address64, Zenon
          <5>2. w = m
            BY <4>1
          <5> HIDE DEF w
          <5>3. QED
            BY <5>1, <5>2
      <3>2. CASE d # 2
        <4>1. m = decode_modrm_32(ea, c, sib, FALSE, q.rex_x)
          BY <1>3, <3>2 DEF decode_modrm
        <4>2. /\ m.ea.base = IF Bare(c, sib) THEN NoReg ELSE BaseField(c, sib)
              /\ m.ea.index = IF c % 8 = 4 /\ IndexField(sib) # 4
                              THEN IndexField(sib) ELSE NoReg
              /\ m.disp = LongDisp(c, sib)
          <5> DEFINE w == decode_modrm_32(ea, c, sib, FALSE, q.rex_x)
          <5>1. /\ w.ea.base = IF Bare(c, sib) THEN NoReg ELSE BaseField(c, sib)
                /\ w.ea.index = IF c % 8 = 4 /\ (IndexField(sib) # 4 \/ (FALSE /\ q.rex_x = 1))
                                THEN IndexField(sib) ELSE NoReg
                /\ w.disp = LongDisp(c, sib)
            BY <1>1, Address32, Zenon
          <5>2. w = m
            BY <4>1
          <5> HIDE DEF w
          <5>3. QED
            BY <5>1, <5>2
        <4>3. b = BaseField(c, sib) /\ x = IndexField(sib)
          BY <2>1, <3>2
        <4>4. QED
          BY <4>2, <4>3
      <3>3. QED
        BY <3>1, <3>2
    <2>3. Bare(c, sib) <=> c \div 64 = 0 /\ b % 8 = 5
      <3>1. b % 8 = BaseField(c, sib)
        BY <1>1, <2>1
      <3>2. QED
        BY <3>1 DEF Bare
    <2>4. /\ b = (IF c % 8 = 4 THEN s % 8 ELSE c % 8) + 8 * q.rex_b
          /\ c % 8 = 4 => x = ((s \div 8) % 8) + 8 * q.rex_x
      BY <1>3 DEF BaseField, IndexField
    <2>5. RipRelative(c) <=> Bare(c, sib) /\ c % 8 = 5
      BY DEF RipRelative, Bare, BaseField, Mod, Rm
    <2> HIDE DEF b, x
    <2>6. /\ ic.ea.base = IF Bare(c, sib) THEN NoReg ELSE b
          /\ ic.ea.index = IF c % 8 = 4 /\ x # 4 THEN x ELSE NoReg
          /\ ic.disp.len = CASE c \div 64 = 1 -> 1
                             [] c \div 64 = 2 \/ Bare(c, sib) -> 4
                             [] OTHER -> 0
          /\ ic.rip_relative = (d = 2 /\ Bare(c, sib) /\ c % 8 = 5)
      BY <2>2, <2>5 DEF LongDisp
    <2>7. QED
      BY <1>3, <2>3, <2>4, <2>6 DEF AddressForm
  <1>4. QED
    BY <1>2, <1>3

\* What get_modrm makes of an icode when the address is whole.
LEMMA WholeIcodeReads ==
  ASSUME NEW ic \in Icodes, NEW c, NEW m, m.ea \in Addresses, m = [ea |-> m.ea, disp |-> m.disp],
         NEW s, ~ic.rip_relative, NEW w, w = WholeIcode(ic, c, m, s)
  PROVE  /\ w.disp = s /\ w.asz = ic.asz
         /\ w.ea.base = m.ea.base /\ w.ea.index = m.ea.index
         /\ w.rip_relative = (dsz = 2 /\ RipRelative(c))
  <1> DEFINE ea == [m.ea EXCEPT !.disp8 = m.ea.disp8 \/ m.disp = 1,
                                !.sreg = DefaultSegment(m.ea)]
             n == [m EXCEPT !.ea = ea]
             rip == dsz = 2 /\ RipRelative(c)
  <1>1. ea.base = m.ea.base /\ ea.index = m.ea.index
    BY DEF Addresses
  <1>2. w = AddressIcode(ic, c, n, s)
    BY DEF WholeIcode
  <1> HIDE DEF ea
  <1>3. n.ea = ea
    BY Zenon
  <1> HIDE DEF n
  <1>4. w = [ic EXCEPT !.ea = n.ea, !.rip_relative = ic.rip_relative \/ rip,
                       !.has_disp = ic.has_disp \/ n.disp > 0, !.disp = s]
    BY <1>2 DEF AddressIcode
  <1>5. (ic.rip_relative \/ rip) = rip
    OBVIOUS
  <1> HIDE DEF rip
  <1>6. w.disp = s /\ w.asz = ic.asz /\ w.ea = ea /\ w.rip_relative = rip
    BY <1>3, <1>4, <1>5 DEF Icodes
  <1>7. QED
    BY <1>1, <1>6 DEF rip

\* A ModRM byte that is read with all that belongs to it gives the address that
\* the bytes behind the opcode stand for.
LEMMA GetModrmReads ==
  ASSUME Inv, NEW ic \in Icodes, Fresh(ic, state), dsz = 2 => ic.asz # 0,
         dsz # 2 => p.rex_x = 0 /\ p.rex_b = 0,
         fetcher_copy.next = state.prefix_size + OpcodeLength(buf, state.prefix_size),
         get_modrm(fetcher_copy, ic, state).ok
  PROVE  LET r == get_modrm(fetcher_copy, ic, state)
         IN  /\ r.st.has_modrm
             /\ AddressRead(buf, dsz, p, r.ic, r.st)
             /\ r.f.next = Opened(buf, r.ic, r.st) + r.ic.disp.len
  <1> DEFINE f == fetcher_copy
             c == At(f)
             sib == IF HasSib(c, dsz, ic.asz) THEN buf[f.next + 2] ELSE 0
             stage == ModrmStage(f, ic.asz)
             header == ModrmHeader(f, ic.asz)
             after == Advance(f, header)
             m == decode_modrm(ic.ea, c, sib, dsz, ic.asz, p.rex_x, p.rex_b)
             whole == Has(after, m.disp)
             slice == IF m.disp = 0 THEN NoSlice
                      ELSE Slice(after, IF whole THEN m.disp ELSE after.left)
             st0 == [state EXCEPT !.modrm_offset = f.next]
             st1 == [st0 EXCEPT !.modrm0 = c, !.has_modrm = TRUE]
             st2 == IF m.disp = 0 THEN st1
                    ELSE [st1 EXCEPT !.disp_offset = after.next]
             r == get_modrm(f, ic, state)
  <1>1. /\ buf \in Seq(Byte) /\ p \in Prefixes /\ Within(f) /\ state \in DecoderStates
        /\ dsz \in 0..2 /\ ic.asz \in 0..2 /\ ic.ea \in Addresses
    BY ModesAssumption DEF Inv, TypeOK, Positions, Icodes
  <1>2. (stage = "byte" /\ c >= 192) \/ (stage = "address" /\ whole)
    BY DEF get_modrm
  <1>3. f.next \in Nat /\ f.left \in Nat
    BY <1>1 DEF Within
  <1>4. Has(f, 1) /\ c \in Byte
    BY <1>1, <1>2, FetcherMoves DEF ModrmStage
  <1>5. header = HeaderLength(ic.asz, c)
    <2>1. Mod(c) # 3 <=> c < 192
      BY <1>4 DEF Mod, Byte
    <2>2. HasSib(c, dsz, ic.asz) <=> ic.asz # 0 /\ c < 192 /\ c % 8 = 4
      BY <2>1 DEF HasSib, Rm
    <2>3. QED
      BY <2>2 DEF ModrmHeader, HeaderLength
  <1>6. /\ st1.modrm_offset = f.next /\ st1.modrm0 = c /\ st1.has_modrm = TRUE
        /\ st1.disp_offset = NoOffset /\ st1.prefix_size = state.prefix_size
        /\ st1 \in DecoderStates
    <2>1. st0 \in DecoderStates /\ st1 \in DecoderStates
      <3>1. st0 \in DecoderStates
        BY <1>1, <1>3, StateOffset
      <3> HIDE DEF st0, c
      <3>2. QED
        BY <1>4, <3>1, StateModrm, StateFlag
    <2>2. state.disp_offset = NoOffset
      BY DEF Fresh
    <2>3. QED
      BY <1>1, <2>1, <2>2 DEF DecoderStates
  <1>7. c = buf[f.next + 1]
    BY DEF At
  <1>8. CASE stage = "byte" /\ c >= 192
    <2>1. r.ic = [ic EXCEPT !.disp = NoSlice] /\ r.st = st1 /\ r.f = Advance(f, 1)
      BY <1>8 DEF get_modrm, ModrmFetcher
    <2>2. r.ic.disp = NoSlice /\ r.ic.asz = ic.asz /\ r.f.next = f.next + 1
      BY <2>1 DEF Icodes, Advance
    <2>3. HeaderLength(ic.asz, c) = 1
      BY <1>4, <1>8 DEF HeaderLength, Byte
    <2>4. NoSlice.len = 0
      BY DEF NoSlice
    <2> HIDE DEF f, c, st1, r
    <2>5. r.st = st1
      BY <2>1
    <2>6. AddressRead(buf, dsz, p, r.ic, r.st)
      <3>1. ~(r.st.modrm0 < 192)
        BY <1>4, <1>6, <1>8, <2>5 DEF Byte
      <3>2. QED
        BY <1>6, <1>7, <2>2, <2>4, <2>5, <3>1 DEF AddressRead, f
    <2>7. r.f.next = Opened(buf, r.ic, r.st) + r.ic.disp.len
      BY <1>3, <1>6, <2>2, <2>3, <2>4, <2>5 DEF Opened
    <2>8. QED
      BY <1>6, <2>5, <2>6, <2>7 DEF r, f
  <1>9. CASE stage = "address" /\ whole
    <2>1. c < 192 /\ Has(f, header)
      BY <1>9 DEF ModrmStage
    <2>2. c \in 0..191
      BY <1>4, <2>1 DEF Byte
    <2>3. sib \in Byte /\ (ic.asz # 0 /\ c % 8 = 4 => buf[f.next + 2] = sib)
      <3>1. header = 2 \/ ~HasSib(c, dsz, ic.asz)
        BY DEF ModrmHeader
      <3>2. HasSib(c, dsz, ic.asz) => Has(f, 2)
        BY <2>1, <3>1
      <3>3. 0 \in Byte
        BY DEF Byte
      <3>4. sib \in Byte
        BY <1>1, <3>2, <3>3, ByteAhead
      <3>5. ic.asz # 0 /\ c % 8 = 4 => HasSib(c, dsz, ic.asz)
        BY <2>2 DEF HasSib, Mod, Rm
      <3>6. QED
        BY <3>4, <3>5
    <2>4. /\ m.ea \in Addresses /\ m.disp \in {0, 1, 2, 4}
          /\ m = [ea |-> m.ea, disp |-> m.disp]
      <3>1. p.rex_x \in 0..1 /\ p.rex_b \in 0..1
        BY <1>1 DEF Prefixes
      <3>2. QED
        BY <1>1, <1>4, <2>3, <3>1, AddressType, DisplacementSize, AddressRecord
    <2>5. r.ic = WholeIcode(ic, c, m, slice) /\ r.st = st2 /\ r.f = Advance(after, m.disp)
      BY <1>9 DEF get_modrm, ModrmFetcher
    <2>6. /\ after.next = f.next + header /\ header \in 1..2
          /\ r.f.next = f.next + header + m.disp
      <3>1. header \in 1..2
        BY DEF ModrmHeader
      <3>2. after.next = f.next + header /\ Advance(after, m.disp).next = after.next + m.disp
        BY DEF Advance
      <3> HIDE DEF header, after, m
      <3>3. QED
        BY <2>5, <3>1, <3>2
    <2>7. /\ slice.len = m.disp /\ (m.disp # 0 => slice.at = after.next)
      BY <1>9 DEF Slice, NoSlice
    <2>8. /\ r.ic.disp = slice /\ r.ic.asz = ic.asz
          /\ r.ic.ea.base = m.ea.base /\ r.ic.ea.index = m.ea.index
          /\ r.ic.rip_relative = (dsz = 2 /\ RipRelative(c))
      <3> HIDE DEF r, m, slice, c
      <3>1. ~ic.rip_relative
        BY DEF Fresh
      <3>2. QED
        BY <2>4, <2>5, <3>1, WholeIcodeReads
    <2>9. AddressForm(dsz, p, r.ic, c, buf[f.next + 2])
      <3>1. m = decode_modrm(ic.ea, c, sib, dsz, r.ic.asz, p.rex_x, p.rex_b)
        BY <2>8
      <3>2. r.ic.disp.len = m.disp
        BY <2>7, <2>8
      <3>3. ic.ea.base = NoReg /\ ic.ea.index = NoReg
        BY DEF Fresh
      <3>4. r.ic.asz \in 0..2 /\ (dsz = 2 => r.ic.asz # 0)
            /\ (r.ic.asz # 0 /\ c % 8 = 4 => buf[f.next + 2] = sib)
        BY <1>1, <2>3, <2>8
      <3> DEFINE s == buf[f.next + 2]
                 ric == r.ic
      <3> HIDE DEF r, m, sib, c, s, slice, ric
      <3>5. AddressForm(dsz, p, ric, c, s)
        BY <1>1, <2>2, <2>3, <2>8, <3>1, <3>2, <3>3, <3>4, AddressFound, ZenonT(30) DEF ric, s
      <3>6. QED
        BY <3>5 DEF ric, s
    <2>10. /\ st2.modrm_offset = f.next /\ st2.modrm0 = c /\ st2.has_modrm = TRUE
           /\ st2.prefix_size = state.prefix_size
           /\ st2.disp_offset = IF m.disp = 0 THEN NoOffset ELSE after.next
      <3> HIDE DEF st1, m, after, c, f
      <3>1. QED
        BY <1>6 DEF DecoderStates
    <2> HIDE DEF f, c, st2, r, header, after, m, slice, sib
    <2>11. r.st.modrm_offset + 2 = f.next + 2 /\ r.st.modrm_offset + 1 = f.next + 1
      BY <2>5, <2>10
    <2>12. AddressRead(buf, dsz, p, r.ic, r.st)
      <3>1. r.st.modrm_offset = r.st.prefix_size + OpcodeLength(buf, r.st.prefix_size)
        BY <2>5, <2>10 DEF f
      <3>2. r.st.modrm0 = buf[r.st.modrm_offset + 1]
        BY <1>7, <2>5, <2>10
      <3>3. IF r.st.modrm0 < 192
            THEN AddressForm(dsz, p, r.ic, r.st.modrm0, buf[r.st.modrm_offset + 2])
            ELSE r.ic.disp = NoSlice
        BY <2>1, <2>5, <2>9, <2>10
      <3>4. IF r.ic.disp.len = 0 THEN r.st.disp_offset = NoOffset
            ELSE /\ r.ic.disp.at = r.st.modrm_offset + HeaderLength(r.ic.asz, r.st.modrm0)
                 /\ r.st.disp_offset = r.ic.disp.at
        BY <1>5, <2>5, <2>6, <2>7, <2>8, <2>10
      <3>5. QED
        BY <3>1, <3>2, <3>3, <3>4 DEF AddressRead
    <2>13. r.f.next = Opened(buf, r.ic, r.st) + r.ic.disp.len
      BY <1>5, <2>5, <2>6, <2>7, <2>8, <2>10 DEF Opened
    <2>14. QED
      BY <2>5, <2>10, <2>12, <2>13 DEF r, f
  <1>10. QED
    BY <1>2, <1>8, <1>9

-----------------------------------------------------------------------------
(* The walk *)

\* What the table has behind an inner node.
LEMMA KidOf ==
  ASSUME NEW n \in DOMAIN Table, Table[n].type # 0, NEW i \in NodeKids(Table[n].type),
         NEW kid, kid = Table[n].kids[i]
  PROVE  /\ kid \in DOMAIN Table
         /\ Table[kid].type = 1 => <<n, i>> \in {<<Root, 15>>, <<Two, 56>>}
         /\ (Table[kid].type = 0 /\ Table[kid].encoding # Invalid) =>
              /\ ~Encodings[Table[kid].encoding].regop => Table[n].type = 1
              /\ InMemory(Encodings[Table[kid].encoding]) => Table[n].type = 3 /\ i < 24
  <1>1. kid \in DOMAIN Table /\ i \in DOMAIN Table[n].kids
    BY TableAssumption
  <1>2. Table[kid].type = 1 => <<n, i>> \in {<<Root, 15>>, <<Two, 56>>}
    BY <1>1, OpcodeAssumption
  <1>3. (Table[kid].type = 0 /\ Table[kid].encoding # Invalid) =>
              /\ ~Encodings[Table[kid].encoding].regop => Table[n].type = 1
              /\ InMemory(Encodings[Table[kid].encoding]) => Table[n].type = 3 /\ i < 24
    BY <1>1, LeafAssumption, Zenon DEF InMemory
  <1>4. QED
    BY <1>1, <1>2, <1>3

\* A REX prefix is read in 64-bit mode only.
LEMMA NoRexElsewhere ==
  ASSUME Collecting, Decoding, attempt = 1, dsz # 2
  PROVE  p.rex_x = 0 /\ p.rex_b = 0
BY DEF Collecting, AtOpcode, BehindRex, AtEnd, NoRexBits

\* The bytes of the opcode decide where the walk is.
LEMMA OnTheWayNext ==
  ASSUME NEW b, NEW n \in DOMAIN Table, Table[n].type = 1, NEW first \in Nat, NEW k \in Nat,
         OnTheWay(b, n, first, k), b[k + 1] \in Byte
  PROVE  OnTheWay(b, Table[n].kids[b[k + 1]], first, k + 1)
  <1> DEFINE c == b[k + 1]
             kid == Table[n].kids[c]
  <1>1. Table[kid].type = 1 => <<n, c>> \in {<<Root, 15>>, <<Two, 56>>}
    <2>1. c \in NodeKids(Table[n].type)
      BY DEF NodeKids
    <2> HIDE DEF c
    <2>2. QED
      BY <2>1, KidOf
  <1>2. /\ Table[Two].type = 1 /\ Table[Three].type = 1
        /\ Two = Table[Root].kids[15] /\ Three = Table[Two].kids[56]
        /\ Root # Two /\ Root # Three /\ Two # Three
    BY OpcodeAssumption DEF Two, Three
  <1> HIDE DEF Two, Three, c
  <1>3. CASE n = Root /\ k = first
    <2>1. c = b[first + 1]
      BY <1>3 DEF c
    <2>2. CASE c = 15
      <3>1. kid = Two
        BY <1>2, <1>3, <2>2
      <3>2. QED
        BY <1>3, <2>1, <2>2, <3>1 DEF OnTheWay, c
    <2>3. CASE c # 15
      <3>1. Table[kid].type # 1
        BY <1>1, <1>2, <1>3, <2>3
      <3>2. OpcodeLength(b, first) = 1
        BY <2>1, <2>3 DEF OpcodeLength
      <3>3. QED
        BY <1>3, <3>1, <3>2 DEF OnTheWay, c
    <2>4. QED
      BY <2>2, <2>3
  <1>4. CASE n = Two /\ k = first + 1 /\ b[first + 1] = 15
    <2>1. c = b[first + 2] /\ k + 1 = first + 2
      <3>1. k + 1 = first + 2
        BY <1>4
      <3>2. QED
        BY <3>1 DEF c
    <2>2. CASE c = 56
      <3>1. kid = Three
        BY <1>2, <1>4, <2>2
      <3>2. QED
        BY <1>4, <2>1, <2>2, <3>1 DEF OnTheWay, c
    <2>3. CASE c # 56
      <3>1. Table[kid].type # 1
        BY <1>1, <1>2, <1>4, <2>3
      <3>2. OpcodeLength(b, first) = 2
        BY <1>4, <2>1, <2>3 DEF OpcodeLength
      <3>3. QED
        BY <2>1, <3>1, <3>2 DEF OnTheWay, c
    <2>4. QED
      BY <2>2, <2>3
  <1>5. CASE n = Three /\ k = first + 2 /\ b[first + 1] = 15 /\ b[first + 2] = 56
    <2>1. Table[kid].type # 1
      BY <1>1, <1>2, <1>5
    <2>2. OpcodeLength(b, first) = 3
      BY <1>5 DEF OpcodeLength
    <2>3. k + 1 = first + 3
      BY <1>5
    <2>4. QED
      BY <2>1, <2>2, <2>3 DEF OnTheWay, c
  <1>6. QED
    BY <1>3, <1>4, <1>5 DEF OnTheWay

\* Once the opcode is over, the walk is behind it.
LEMMA OnTheWayEnds ==
  ASSUME NEW b, NEW n, Table[n].type # 1, NEW first, NEW k, OnTheWay(b, n, first, k)
  PROVE  k = first + OpcodeLength(b, first)
BY TableAssumption, OpcodeAssumption DEF OnTheWay

\* try_decode begins at the first byte of the opcode.
LEMMA ReadingBegins ==
  ASSUME Inv, Collecting, EnterTry, dest = NewIcode(dsz)
  PROVE  Reading(buf, dsz, p, dest', state', node', fetcher_copy'.next)
  <1>1. dest \in Icodes /\ dsz \in 0..2
    BY ModesAssumption DEF Inv, TypeOK
  <1>2. /\ dest'.imm = dest.imm /\ dest'.disp = dest.disp /\ dest'.asz = AddressSize
        /\ dest'.ea.base = dest.ea.base /\ dest'.ea.index = dest.ea.index
        /\ ~dest'.rip_relative
    <2>1. dest.ea \in Addresses
      BY <1>1 DEF Icodes
    <2>2. dest' = [dest EXCEPT !.asz = AddressSize, !.lockrep = p.lockrep,
                     !.ea = [dest.ea EXCEPT !.sreg = p.sreg, !.scale = 0, !.disp8 = FALSE],
                     !.rip_relative = FALSE, !.is_nop = (Opcode0 = NOP),
                     !.rex_used = p.rex_used]
      BY DEF EnterTry
    <2> HIDE DEF AddressSize, Opcode0, NOP
    <2>3. /\ dest'.imm = dest.imm /\ dest'.disp = dest.disp /\ dest'.asz = AddressSize
          /\ ~dest'.rip_relative
          /\ dest'.ea = [dest.ea EXCEPT !.sreg = p.sreg, !.scale = 0, !.disp8 = FALSE]
      BY <1>1, <2>2 DEF Icodes
    <2>4. QED
      BY <2>1, <2>3 DEF Addresses
  <1>3. /\ dest.imm = NoSlice /\ dest.disp = NoSlice
        /\ dest.ea.base = NoReg /\ dest.ea.index = NoReg
    BY DEF NewIcode
  <1>4. dsz = 2 => AddressSize # 0
    BY DEF AddressSize
  <1>5. /\ state'.prefix_size = fetcher_copy.next /\ ~state'.has_modrm
        /\ state'.disp_offset = NoOffset /\ state'.imm1_offset = NoOffset
        /\ state'.imm2_offset = NoOffset
    <2>1. state \in DecoderStates
      BY DEF Inv, TypeOK
    <2>2. /\ EnterState.prefix_size = fetcher_copy.next /\ ~EnterState.has_modrm
          /\ EnterState.disp_offset = NoOffset /\ EnterState.imm1_offset = NoOffset
          /\ EnterState.imm2_offset = NoOffset
      BY <2>1 DEF EnterState, DecoderStates
    <2>3. EnterState \in DecoderStates /\ state' = [EnterState EXCEPT !.opcode0 = Opcode0, !.modrm0 = 0]
      BY EnterStateType DEF EnterTry
    <2> HIDE DEF EnterState, Opcode0
    <2>4. QED
      BY <2>2, <2>3 DEF DecoderStates
  <1>6. node' = Root /\ fetcher_copy' = fetcher_copy /\ Table[Root].type = 1
    BY TableAssumption DEF EnterTry
  <1>7. Fresh(dest', state') /\ OnTheWay(buf, node', state'.prefix_size, fetcher_copy'.next)
    BY <1>2, <1>3, <1>5, <1>6 DEF Fresh, OnTheWay
  <1>8. QED
    BY <1>2, <1>3, <1>4, <1>5, <1>6, <1>7 DEF Reading

\* The walk along the opcode.
LEMMA ReadingByte ==
  ASSUME Inv, WalkByte, pc' = "walk",
         Reading(buf, dsz, p, dest, state, node, fetcher_copy.next)
  PROVE  Reading(buf, dsz, p, dest', state', node', fetcher_copy'.next)
  <1> DEFINE k == fetcher_copy.next
             first == state.prefix_size
  <1>1. /\ Table[node].type = 1 /\ node \in DOMAIN Table /\ Has(fetcher_copy, 1)
        /\ node' = Table[node].kids[buf[k + 1]] /\ fetcher_copy' = Advance(fetcher_copy, 1)
        /\ dest' = dest /\ state' = state
    BY DEF WalkByte, Inv, TypeOK, Fail, At
  <1>2. /\ buf[k + 1] \in Byte /\ k \in Nat /\ first \in Nat
        /\ fetcher_copy'.next = k + 1
    <2>1. Within(fetcher_copy) /\ buf \in Seq(Byte) /\ first \in Nat
      BY DEF Inv, TypeOK, Positions, DecoderStates
    <2>2. QED
      BY <1>1, <2>1, FetcherMoves, ZenonT(30) DEF At, Within
  <1>3. ~state.has_modrm /\ Fresh(dest, state) /\ OnTheWay(buf, node, first, k)
    BY <1>1 DEF Reading
  <1> HIDE DEF k, first
  <1>4. OnTheWay(buf, node', first, k + 1)
    BY <1>1, <1>2, <1>3, OnTheWayNext
  <1>5. (Table[node'].type = 0 /\ Table[node'].encoding # Invalid) =>
          Suits(Encodings[Table[node'].encoding], state)
    <2>1. buf[k + 1] \in NodeKids(Table[node].type) /\ Table[node].type # 0
      BY <1>1, <1>2 DEF NodeKids
    <2>2. (Table[node'].type = 0 /\ Table[node'].encoding # Invalid) =>
            ~InMemory(Encodings[Table[node'].encoding])
      BY <1>1, <2>1, KidOf
    <2>3. QED
      BY <1>3, <2>2 DEF Suits
  <1>6. QED
    BY <1>1, <1>2, <1>3, <1>4, <1>5 DEF Reading, k, first

\* The choices by mode and by mandatory prefix.
LEMMA ReadingMode ==
  ASSUME Inv, WalkMode, Reading(buf, dsz, p, dest, state, node, fetcher_copy.next)
  PROVE  Reading(buf, dsz, p, dest', state', node', fetcher_copy'.next)
  <1>1. /\ node \in DOMAIN Table /\ Table[node].type \in {2, 6}
        /\ dest' = dest /\ state' = state /\ fetcher_copy' = fetcher_copy
    BY DEF WalkMode, Inv, TypeOK
  <1>2. PICK i \in NodeKids(Table[node].type) : node' = Table[node].kids[i]
    <2>1. CASE Table[node].type = 6
      <3>1. node' = Table[node].kids[0] \/ node' = Table[node].kids[1]
        BY <2>1 DEF WalkMode
      <3>2. 0 \in NodeKids(Table[node].type) /\ 1 \in NodeKids(Table[node].type)
        BY <2>1 DEF NodeKids
      <3>3. QED
        BY <3>1, <3>2
    <2>2. CASE Table[node].type = 2
      <3> DEFINE rep == IF p.lockrep \in {2, 3} THEN p.lockrep - 1 ELSE 0
                 i == (IF p.op66 THEN 1 ELSE 0) + 2 * rep
      <3>1. node' = Table[node].kids[i]
        BY <2>2 DEF WalkMode
      <3>2. i \in 0..5
        OBVIOUS
      <3>3. i \in NodeKids(Table[node].type)
        BY <2>2, <3>2 DEF NodeKids
      <3>4. QED
        BY <3>1, <3>3
    <2>3. QED
      BY <1>1, <2>1, <2>2
  <1>3. Table[node].type \notin {0, 1, 3}
    BY <1>1
  <1>4. /\ Table[node'].type = 1 => <<node, i>> \in {<<Root, 15>>, <<Two, 56>>}
        /\ (Table[node'].type = 0 /\ Table[node'].encoding # Invalid) =>
              /\ Encodings[Table[node'].encoding].regop
              /\ ~InMemory(Encodings[Table[node'].encoding])
    BY <1>1, <1>2, <1>3, KidOf
  <1>5. Table[node'].type # 1
    BY <1>3, <1>4, TableAssumption, OpcodeAssumption
  <1>6. (Table[node'].type = 0 /\ Table[node'].encoding # Invalid) =>
          Suits(Encodings[Table[node'].encoding], state)
    BY <1>4 DEF Suits
  <1>7. ~state.has_modrm => OnTheWay(buf, node', state.prefix_size, fetcher_copy.next)
    <2>1. ~state.has_modrm => OnTheWay(buf, node, state.prefix_size, fetcher_copy.next)
      BY DEF Reading
    <2>2. QED
      BY <1>3, <1>5, <2>1, OnTheWayEnds DEF OnTheWay
  <1>8. QED
    BY <1>1, <1>5, <1>6, <1>7 DEF Reading

\* The ModRM byte is read once, with all that belongs to it.
LEMMA ReadingModRM ==
  ASSUME Inv, Collecting, attempt = 1, WalkModRM, pc' = "walk",
         Reading(buf, dsz, p, dest, state, node, fetcher_copy.next)
  PROVE  Reading(buf, dsz, p, dest', state', node', fetcher_copy'.next)
  <1> DEFINE r == get_modrm(fetcher_copy, dest, state)
  <1>1. /\ node \in DOMAIN Table /\ Table[node].type \in {3, 4, 5} /\ pc = "walk"
        /\ dest \in Icodes /\ state \in DecoderStates
    BY DEF WalkModRM, Inv, TypeOK
  <1>2. \/ /\ state.has_modrm
           /\ fetcher_copy' = fetcher_copy /\ dest' = dest /\ state' = state
        \/ /\ ~state.has_modrm /\ r.ok
           /\ fetcher_copy' = r.f /\ dest' = r.ic /\ state' = r.st
    BY DEF WalkModRM, Fail
  <1>3. node' = Table[node].kids[ModRMIndex(Table[node].type, state'.modrm0)]
    BY DEF WalkModRM, Fail
  <1>4. /\ dest'.imm = dest.imm /\ dest'.asz = dest.asz
        /\ state'.imm1_offset = state.imm1_offset /\ state'.imm2_offset = state.imm2_offset
    BY <1>1, <1>2, GetModrmKeeps
  <1>5. /\ state'.has_modrm /\ AddressRead(buf, dsz, p, dest', state')
        /\ fetcher_copy'.next = Opened(buf, dest', state') + dest'.disp.len
    <2>1. CASE state.has_modrm
      BY <1>2, <2>1 DEF Reading
    <2>2. CASE ~state.has_modrm
      <3>1. Fresh(dest, state) /\ OnTheWay(buf, node, state.prefix_size, fetcher_copy.next)
            /\ (dsz = 2 => dest.asz # 0)
        BY <2>2 DEF Reading
      <3>2. fetcher_copy.next = state.prefix_size + OpcodeLength(buf, state.prefix_size)
        BY <1>1, <3>1, OnTheWayEnds
      <3>3. dsz # 2 => p.rex_x = 0 /\ p.rex_b = 0
        BY <1>1, NoRexElsewhere DEF Decoding
      <3>4. r.ok /\ fetcher_copy' = r.f /\ dest' = r.ic /\ state' = r.st
        BY <1>2, <2>2
      <3>5. /\ r.st.has_modrm /\ AddressRead(buf, dsz, p, r.ic, r.st)
            /\ r.f.next = Opened(buf, r.ic, r.st) + r.ic.disp.len
        BY <1>1, <3>1, <3>2, <3>3, <3>4, GetModrmReads
      <3> HIDE DEF r
      <3>6. QED
        BY <3>4, <3>5
    <2>3. QED
      BY <2>1, <2>2
  <1> DEFINE type == Table[node].type
             i == ModRMIndex(type, state'.modrm0)
  <1>6. state'.modrm0 \in Byte
    <2>1. r.st \in DecoderStates
      BY GetModrmType DEF Inv, TypeOK, Positions
    <2> HIDE DEF r
    <2>2. state' \in DecoderStates
      BY <1>1, <1>2, <2>1
    <2>3. QED
      BY <2>2 DEF DecoderStates
  <1>7. i \in NodeKids(type) /\ (type = 3 /\ i < 24 => state'.modrm0 < 192)
    <2>1. ASSUME NEW t \in {3, 4, 5}, NEW c \in Byte
          PROVE  /\ ModRMIndex(t, c) \in NodeKids(t)
                 /\ t = 3 /\ ModRMIndex(t, c) < 24 => c < 192
      <3>1. c \div 8 \in 0..31 /\ (c \div 8 < 24 => c < 192)
        BY DEF Byte
      <3>2. QED
        BY <3>1, ModRMFields DEF ModRMIndex, NodeKids
    <2>2. QED
      BY <1>1, <1>6, <2>1
  <1> HIDE DEF i, r
  <1>8. /\ Table[node'].type = 1 => <<node, i>> \in {<<Root, 15>>, <<Two, 56>>}
        /\ (Table[node'].type = 0 /\ Table[node'].encoding # Invalid) =>
             /\ Encodings[Table[node'].encoding].regop
             /\ InMemory(Encodings[Table[node'].encoding]) => Table[node].type = 3 /\ i < 24
    <2>1. node' = Table[node].kids[i] /\ Table[node].type # 0 /\ Table[node].type # 1
      BY <1>1, <1>3 DEF i
    <2>2. QED
      BY <1>1, <1>7, <2>1, KidOf
  <1>9. Table[node'].type # 1
    BY <1>1, <1>8, TableAssumption, OpcodeAssumption
  <1>10. (Table[node'].type = 0 /\ Table[node'].encoding # Invalid) =>
          Suits(Encodings[Table[node'].encoding], state')
    BY <1>5, <1>7, <1>8 DEF Suits
  <1>11. QED
    BY <1>4, <1>5, <1>9, <1>10 DEF Reading

\* Only some fields matter to what has been read of the address form.
LEMMA AddressReadSame ==
  ASSUME NEW b, NEW d, NEW q, NEW ic, NEW st, NEW ic2, NEW st2,
         ic2.asz = ic.asz, ic2.ea.base = ic.ea.base, ic2.ea.index = ic.ea.index,
         ic2.rip_relative = ic.rip_relative, ic2.disp = ic.disp,
         st2.prefix_size = st.prefix_size, st2.modrm_offset = st.modrm_offset,
         st2.modrm0 = st.modrm0, st2.disp_offset = st.disp_offset,
         AddressRead(b, d, q, ic, st)
  PROVE  AddressRead(b, d, q, ic2, st2)
  <1>1. \A c, sib : AddressForm(d, q, ic, c, sib) => AddressForm(d, q, ic2, c, sib)
    BY DEF AddressForm
  <1>2. QED
    BY <1>1 DEF AddressRead

\* Nor to where the operands begin.
LEMMA OpenedSame ==
  ASSUME NEW b, NEW ic, NEW st, NEW ic2, NEW st2,
         ic2.asz = ic.asz, st2.prefix_size = st.prefix_size, st2.has_modrm = st.has_modrm,
         st2.modrm_offset = st.modrm_offset, st2.modrm0 = st.modrm0
  PROVE  Opened(b, ic2, st2) = Opened(b, ic, st)
BY DEF Opened

\* What the operands do not change of an icode.
LEMMA WithOperandsKeeps ==
  ASSUME NEW ic \in Icodes, NEW e, NEW w, w = WithOperands(ic, e)
  PROVE  /\ w.asz = ic.asz /\ w.ea.base = ic.ea.base /\ w.ea.index = ic.ea.index
         /\ w.rip_relative = ic.rip_relative /\ w.disp = ic.disp /\ w.imm = ic.imm
         /\ w.encoding = ic.encoding /\ w.args = e.args
BY DEF WithOperands, Icodes

\* What the leaf leaves to the operands: a filled displacement, or nothing.
FilledByWalk(b, d, q, ic, st, k) ==
  /\ ic.imm = NoSlice /\ st.imm1_offset = NoOffset /\ st.imm2_offset = NoOffset
  /\ k = Opened(b, ic, st) + ic.disp.len
  /\ ~st.has_modrm => ic.disp = NoSlice /\ st.disp_offset = NoOffset
  /\ st.has_modrm => AddressRead(b, d, q, ic, st)
  /\ st.has_modrm = Encodings[ic.encoding].regop
  /\ Suits(Encodings[ic.encoding], st)
  /\ ic.args = Encodings[ic.encoding].args

\* A leaf with an encoding that asks for a ModRM byte has read it.
LEMMA ReadingLeaf ==
  ASSUME Inv, Collecting, attempt = 1, Leaf, pc' = "args",
         Reading(buf, dsz, p, dest, state, node, fetcher_copy.next)
  PROVE  /\ FilledByWalk(buf, dsz, p, dest', state', fetcher_copy'.next)
         /\ dest'.encoding # Invalid /\ argi' = 1
  <1> DEFINE e == LeafEncoding
  <1>1. /\ Table[node].type = 0 /\ Table[node].encoding # Invalid
        /\ LeafIcode \in Icodes /\ LeafRead.ic \in Icodes /\ LeafRead.st \in DecoderStates
        /\ e.regop \in BOOLEAN /\ pc = "walk" /\ argi' = 1
        /\ LeafKnown \/ LeafReads
    BY LeafCases DEF Leaf
  <1>2. state \in DecoderStates /\ dest \in Icodes /\ state.has_modrm \in BOOLEAN
    BY DEF Inv, TypeOK, DecoderStates
  <1>3. /\ LeafIcode.asz = dest.asz /\ LeafIcode.ea = dest.ea /\ LeafIcode.disp = dest.disp
        /\ LeafIcode.rip_relative = dest.rip_relative /\ LeafIcode.imm = dest.imm
        /\ LeafIcode.encoding = Table[node].encoding
    BY <1>2 DEF LeafIcode, Icodes
  <1>4. Suits(e, state)
    BY <1>1 DEF Reading, LeafEncoding
  <1>5. /\ dest.imm = NoSlice /\ state.imm1_offset = NoOffset /\ state.imm2_offset = NoOffset
        /\ (dsz = 2 => dest.asz # 0)
    BY DEF Reading
  <1>6. ~state.has_modrm =>
          /\ Fresh(dest, state)
          /\ fetcher_copy.next = state.prefix_size + OpcodeLength(buf, state.prefix_size)
    BY <1>1, OnTheWayEnds DEF Reading
  <1>7. state.has_modrm =>
          /\ AddressRead(buf, dsz, p, dest, state)
          /\ fetcher_copy.next = Opened(buf, dest, state) + dest.disp.len
    BY DEF Reading
  <1>8. CASE LeafKnown
    <2>1. /\ dest' = WithOperands(LeafIcode, e) /\ state' = state
          /\ fetcher_copy' = fetcher_copy /\ (state.has_modrm \/ ~e.regop)
      BY <1>8 DEF LeafKnown
    <2>2. /\ dest'.asz = dest.asz /\ dest'.ea.base = dest.ea.base /\ dest'.ea.index = dest.ea.index
          /\ dest'.rip_relative = dest.rip_relative /\ dest'.disp = dest.disp
          /\ dest'.imm = NoSlice /\ dest'.encoding = Table[node].encoding /\ dest'.args = e.args
      BY <1>1, <1>3, <1>5, <2>1, WithOperandsKeeps
    <2>3. Encodings[dest'.encoding] = e
      BY <2>2 DEF LeafEncoding
    <2>4. state.has_modrm = e.regop
      BY <1>1, <1>2, <1>4, <2>1 DEF Suits
    <2> HIDE DEF e
    <2>5. Opened(buf, dest', state') = Opened(buf, dest, state)
      BY <2>1, <2>2, OpenedSame
    <2>6. CASE state.has_modrm
      <3>1. AddressRead(buf, dsz, p, dest', state')
        BY <1>7, <2>1, <2>2, <2>6, AddressReadSame
      <3>2. fetcher_copy'.next = Opened(buf, dest', state') + dest'.disp.len
        BY <1>7, <2>1, <2>2, <2>5, <2>6
      <3>3. QED
        BY <1>1, <1>4, <1>5, <2>1, <2>2, <2>3, <2>4, <2>6, <3>1, <3>2 DEF FilledByWalk
    <2>7. CASE ~state.has_modrm
      <3>1. dest'.disp = NoSlice /\ state'.disp_offset = NoOffset
        BY <1>6, <2>1, <2>2, <2>7 DEF Fresh
      <3>2. fetcher_copy'.next = Opened(buf, dest', state') + dest'.disp.len
        <4>1. NoSlice.len = 0
          BY DEF NoSlice
        <4>2. fetcher_copy.next = Opened(buf, dest, state)
          BY <1>6, <2>7 DEF Opened
        <4>3. fetcher_copy.next \in Nat
          BY DEF Inv, Positions, Within
        <4>4. QED
          BY <2>1, <2>5, <3>1, <4>1, <4>2, <4>3
      <3>3. QED
        BY <1>1, <1>4, <1>5, <2>1, <2>2, <2>3, <2>4, <2>7, <3>1, <3>2 DEF FilledByWalk
    <2>8. QED
      BY <1>1, <2>2, <2>6, <2>7
  <1>9. CASE LeafReads
    <2>1. /\ ~state.has_modrm /\ e.regop /\ LeafRead.ok
          /\ fetcher_copy' = LeafRead.f /\ state' = LeafRead.st
          /\ dest' = WithOperands(LeafRead.ic, e)
      BY <1>9 DEF LeafReads
    <2>2. Fresh(LeafIcode, state)
      BY <1>3, <1>6, <2>1 DEF Fresh
    <2>3. dsz # 2 => p.rex_x = 0 /\ p.rex_b = 0
      BY <1>1, NoRexElsewhere DEF Decoding
    <2>4. /\ LeafRead.st.has_modrm /\ AddressRead(buf, dsz, p, LeafRead.ic, LeafRead.st)
          /\ LeafRead.f.next = Opened(buf, LeafRead.ic, LeafRead.st) + LeafRead.ic.disp.len
      <3>1. LeafRead.ok <=> get_modrm(fetcher_copy, LeafIcode, state).ok
        BY DEF LeafRead
      <3>2. dsz = 2 => LeafIcode.asz # 0
        BY <1>3, <1>5
      <3>3. QED
        BY <1>1, <1>6, <2>1, <2>2, <2>3, <3>1, <3>2, GetModrmReads DEF LeafRead
    <2>5. /\ LeafRead.ic.imm = NoSlice /\ LeafRead.ic.encoding = Table[node].encoding
          /\ LeafRead.st.imm1_offset = NoOffset /\ LeafRead.st.imm2_offset = NoOffset
      <3>1. /\ LeafRead.ic.imm = LeafIcode.imm /\ LeafRead.ic.encoding = LeafIcode.encoding
            /\ LeafRead.st.imm1_offset = state.imm1_offset
            /\ LeafRead.st.imm2_offset = state.imm2_offset
        BY <1>1, <1>2, GetModrmKeeps DEF LeafRead
      <3>2. QED
        BY <1>3, <1>5, <3>1
    <2> DEFINE lic == LeafRead.ic
               lst == LeafRead.st
    <2>6. /\ dest'.asz = lic.asz /\ dest'.ea.base = lic.ea.base /\ dest'.ea.index = lic.ea.index
          /\ dest'.rip_relative = lic.rip_relative /\ dest'.disp = lic.disp
          /\ dest'.imm = NoSlice /\ dest'.encoding = Table[node].encoding /\ dest'.args = e.args
      BY <1>1, <2>1, <2>5, WithOperandsKeeps
    <2>7. Encodings[dest'.encoding] = e
      BY <2>6 DEF LeafEncoding
    <2>8. Suits(e, state')
      BY <1>4, <2>1, <2>4 DEF Suits
    <2> HIDE DEF e, lic, lst
    <2>9. Opened(buf, dest', state') = Opened(buf, lic, lst)
      BY <2>1, <2>6, OpenedSame DEF lst
    <2>10. AddressRead(buf, dsz, p, dest', state')
      BY <2>1, <2>4, <2>6, AddressReadSame DEF lst, lic
    <2>11. fetcher_copy'.next = Opened(buf, dest', state') + dest'.disp.len
      BY <2>1, <2>4, <2>6, <2>9 DEF lic, lst
    <2>12. state'.has_modrm = e.regop
      BY <1>1, <2>1, <2>4
    <2>13. QED
      BY <1>1, <2>1, <2>4, <2>5, <2>6, <2>7, <2>8, <2>10, <2>11, <2>12 DEF FilledByWalk
  <1>10. QED
    BY <1>1, <1>8, <1>9

\* The offset at which the operands begin is a number.
LEMMA OpenedType ==
  ASSUME NEW b, NEW ic, NEW st \in DecoderStates
  PROVE  Opened(b, ic, st) \in Nat
  <1>1. st.prefix_size \in Nat /\ st.modrm_offset \in Nat
    BY DEF DecoderStates
  <1>2. \A first : OpcodeLength(b, first) \in 1..3
    BY DEF OpcodeLength
  <1>3. HeaderLength(ic.asz, st.modrm0) \in 1..2
    BY DEF HeaderLength
  <1>4. QED
    BY <1>1, <1>2, <1>3 DEF Opened

\* What the leaf leaves is what the operands start from.
LEMMA OperandsBegin ==
  ASSUME NEW b, NEW d, NEW q, NEW ic \in Icodes, NEW st \in DecoderStates, NEW k,
         FilledByWalk(b, d, q, ic, st, k)
  PROVE  Filled(b, d, q, ic, st, k) /\ Pending(ic, st, 1) /\ FirstOperand(ic, st)
  <1>1. /\ ic.imm = NoSlice /\ st.imm1_offset = NoOffset /\ st.imm2_offset = NoOffset
        /\ k = Opened(b, ic, st) + ic.disp.len
        /\ ~st.has_modrm => ic.disp = NoSlice /\ st.disp_offset = NoOffset
        /\ st.has_modrm => AddressRead(b, d, q, ic, st)
        /\ st.has_modrm = Encodings[ic.encoding].regop
        /\ Suits(Encodings[ic.encoding], st)
        /\ ic.args = Encodings[ic.encoding].args
    BY DEF FilledByWalk
  <1>2. NoSlice.len = 0
    BY DEF NoSlice
  <1>3. Opened(b, ic, st) \in Nat /\ ic.disp.len \in Nat
    BY OpenedType DEF Icodes, Slices
  <1>4. st.has_modrm => IF ic.disp.len = 0 THEN st.disp_offset = NoOffset
                        ELSE ic.disp.at = Opened(b, ic, st) /\ st.disp_offset = ic.disp.at
    BY <1>1 DEF AddressRead, Opened
  <1>5. Adjoin(ic.disp, ic.imm, Opened(b, ic, st), k)
    BY <1>1, <1>2, <1>3, <1>4 DEF Adjoin
  <1>6. st.disp_offset # NoOffset => ic.disp.at = st.disp_offset
    BY <1>1, <1>4
  <1>7. Filled(b, d, q, ic, st, k)
    BY <1>1, <1>5, <1>6 DEF Filled
  <1>8. Pending(ic, st, 1) /\ FirstOperand(ic, st)
    BY <1>1 DEF Pending, FirstOperand
  <1>9. QED
    BY <1>7, <1>8

\* A field that an operand fills was not filled by an earlier one, nor by the
\* address form.
LEMMA FieldFree ==
  ASSUME NEW x \in DOMAIN Encodings, NEW i \in 1..4, NEW field,
         field \in FieldsOf(Encodings[x], Encodings[x].args[i])
  PROVE  Free(Encodings[x], i, field) /\ (field = "disp" => ~Encodings[x].regop)
  <1> DEFINE e == Encodings[x]
  <1>1. e \in {Encodings[y] : y \in DOMAIN Encodings}
    OBVIOUS
  <1> HIDE DEF e
  <1>2. /\ \A j \in 1..4 : i # j => FieldsOf(e, e.args[i]) \cap FieldsOf(e, e.args[j]) = {}
        /\ e.regop => "disp" \notin FieldsOf(e, e.args[i])
    BY <1>1, OperandsAssumption, Zenon
  <1>3. field \in FieldsOf(e, e.args[i])
    BY DEF e
  <1>4. Free(e, i, field)
    BY <1>2, <1>3 DEF Free
  <1>5. field = "disp" => ~e.regop
    BY <1>2, <1>3
  <1>6. QED
    BY <1>4, <1>5 DEF e

\* The next operand is pending when the operand before it filled no field but
\* its own.
LEMMA PendingNext ==
  ASSUME NEW ic, NEW st, NEW ic2, NEW st2, NEW i \in 1..4, NEW e,
         e = Encodings[ic.encoding],
         Pending(ic, st, i),
         ic2.encoding = ic.encoding, st2.has_modrm = st.has_modrm,
         \A j \in 1..4 : j # i => ic2.args[j] = ic.args[j],
         "imm" \notin FieldsOf(e, e.args[i]) =>
            ic2.imm = ic.imm /\ st2.imm1_offset = st.imm1_offset,
         "disp" \notin FieldsOf(e, e.args[i]) =>
            /\ ic2.disp = ic.disp /\ st2.disp_offset = st.disp_offset
            /\ st2.imm2_offset = st.imm2_offset
  PROVE  Pending(ic2, st2, i + 1)
  <1>1. /\ \A j \in 1..4 : j >= i => ic.args[j] = e.args[j]
        /\ Free(e, i, "imm") => ic.imm = NoSlice /\ st.imm1_offset = NoOffset
        /\ Free(e, i, "disp") /\ ~st.has_modrm =>
             ic.disp = NoSlice /\ st.disp_offset = NoOffset /\ st.imm2_offset = NoOffset
    BY DEF Pending
  <1>2. ASSUME NEW field, Free(e, i + 1, field)
        PROVE  Free(e, i, field) /\ field \notin FieldsOf(e, e.args[i])
    BY <1>2 DEF Free
  <1>3. \A j \in 1..4 : j >= i + 1 => ic2.args[j] = e.args[j]
    BY <1>1
  <1>4. Free(e, i + 1, "imm") => ic2.imm = NoSlice /\ st2.imm1_offset = NoOffset
    BY <1>1, <1>2
  <1>5. Free(e, i + 1, "disp") /\ ~st2.has_modrm =>
          ic2.disp = NoSlice /\ st2.disp_offset = NoOffset /\ st2.imm2_offset = NoOffset
    BY <1>1, <1>2
  <1>6. Encodings[ic2.encoding] = e
    OBVIOUS
  <1>7. QED
    BY <1>3, <1>4, <1>5, <1>6 DEF Pending

\* The first operand is settled by its own step.
LEMMA FirstOperandNext ==
  ASSUME NEW ic, NEW st, NEW ic2, NEW st2, NEW i \in 1..4, NEW a,
         a = Encodings[ic.encoding].args[i],
         FirstOperand(ic, st),
         ic2.encoding = ic.encoding, st2.modrm0 = st.modrm0,
         \A j \in 1..4 : j # i => ic2.args[j] = ic.args[j],
         ic2.args[i].type = a.type \/ (a.value = RegOrMem /\ st.modrm0 < 192)
  PROVE  FirstOperand(ic2, st2)
BY DEF FirstOperand

\* An operand that fills no field.
LEMMA FilledSame ==
  ASSUME NEW b, NEW d, NEW q, NEW ic, NEW st, NEW ic2, NEW st2, NEW k,
         Filled(b, d, q, ic, st, k),
         KeptByArguments(ic2, st2) = KeptByArguments(ic, st),
         ic2.imm = ic.imm, ic2.disp = ic.disp, st2.disp_offset = st.disp_offset,
         st2.imm1_offset = st.imm1_offset, st2.imm2_offset = st.imm2_offset
  PROVE  Filled(b, d, q, ic2, st2, k)
  <1>1. /\ ic2.asz = ic.asz /\ ic2.ea.base = ic.ea.base /\ ic2.ea.index = ic.ea.index
        /\ ic2.rip_relative = ic.rip_relative /\ ic2.encoding = ic.encoding
        /\ st2.prefix_size = st.prefix_size /\ st2.modrm_offset = st.modrm_offset
        /\ st2.modrm0 = st.modrm0 /\ st2.has_modrm = st.has_modrm
    BY DEF KeptByArguments
  <1>2. Opened(b, ic2, st2) = Opened(b, ic, st)
    BY <1>1, OpenedSame
  <1>3. AddressRead(b, d, q, ic, st) => AddressRead(b, d, q, ic2, st2)
    BY <1>1, AddressReadSame
  <1>4. Suits(Encodings[ic.encoding], st) => Suits(Encodings[ic.encoding], st2)
    BY <1>1 DEF Suits
  <1>5. QED
    BY <1>1, <1>2, <1>3, <1>4 DEF Filled

\* An operand whose bytes go to the immediate.
LEMMA FilledImm ==
  ASSUME NEW b, NEW d, NEW q, NEW ic \in Icodes, NEW st \in DecoderStates,
         NEW ic2, NEW st2, NEW k \in 0..31, NEW n \in Nat \ {0},
         Filled(b, d, q, ic, st, k),
         KeptByArguments(ic2, st2) = KeptByArguments(ic, st),
         ic.imm = NoSlice, ic2.imm = [at |-> k, len |-> n], st2.imm1_offset = k,
         ic2.disp = ic.disp, st2.disp_offset = st.disp_offset,
         st2.imm2_offset = st.imm2_offset
  PROVE  Filled(b, d, q, ic2, st2, k + n)
  <1>1. /\ ic2.asz = ic.asz /\ ic2.ea.base = ic.ea.base /\ ic2.ea.index = ic.ea.index
        /\ ic2.rip_relative = ic.rip_relative /\ ic2.encoding = ic.encoding
        /\ st2.prefix_size = st.prefix_size /\ st2.modrm_offset = st.modrm_offset
        /\ st2.modrm0 = st.modrm0 /\ st2.has_modrm = st.has_modrm
    BY DEF KeptByArguments
  <1>2. Opened(b, ic2, st2) = Opened(b, ic, st)
    BY <1>1, OpenedSame
  <1>3. AddressRead(b, d, q, ic, st) => AddressRead(b, d, q, ic2, st2)
    BY <1>1, AddressReadSame
  <1>4. Suits(Encodings[ic.encoding], st) => Suits(Encodings[ic.encoding], st2)
    BY <1>1 DEF Suits
  <1>5. NoSlice.len = 0 /\ Opened(b, ic, st) \in Nat /\ ic.disp.len \in Nat
    BY OpenedType DEF NoSlice, Icodes, Slices
  <1>6. Adjoin(ic2.disp, ic2.imm, Opened(b, ic2, st2), k + n)
    <2>1. \/ Adjoin(ic.disp, ic.imm, Opened(b, ic, st), k)
          \/ Adjoin(ic.imm, ic.disp, Opened(b, ic, st), k)
      BY DEF Filled
    <2>2. /\ ic.disp.len > 0 => ic.disp.at = Opened(b, ic, st)
          /\ k = Opened(b, ic, st) + ic.disp.len
      BY <1>5, <2>1 DEF Adjoin
    <2>3. ic2.imm.at = k /\ ic2.imm.len = n
      OBVIOUS
    <2>4. QED
      BY <1>2, <1>5, <2>2, <2>3 DEF Adjoin
  <1>7. st2.imm1_offset # NoOffset /\ ic2.imm.at = st2.imm1_offset /\ ic2.imm.len > 0
    BY DEF NoOffset
  <1>8. QED
    BY <1>1, <1>3, <1>4, <1>6, <1>7 DEF Filled

\* A second immediate, whose bytes go where a displacement would be.
LEMMA FilledDisp ==
  ASSUME NEW b, NEW d, NEW q, NEW ic \in Icodes, NEW st \in DecoderStates,
         NEW ic2, NEW st2, NEW k \in 0..31, NEW n \in Nat \ {0},
         Filled(b, d, q, ic, st, k),
         KeptByArguments(ic2, st2) = KeptByArguments(ic, st), ~st.has_modrm,
         ic.disp = NoSlice, ic2.disp = [at |-> k, len |-> n],
         st.disp_offset = NoOffset, st2.disp_offset = st.disp_offset,
         st2.imm2_offset = k,
         ic2.imm = ic.imm, st2.imm1_offset = st.imm1_offset
  PROVE  Filled(b, d, q, ic2, st2, k + n)
  <1>1. /\ ic2.encoding = ic.encoding
        /\ st2.prefix_size = st.prefix_size
        /\ st2.modrm0 = st.modrm0 /\ st2.has_modrm = st.has_modrm
    BY DEF KeptByArguments
  <1>2. Opened(b, ic2, st2) = Opened(b, ic, st)
    BY <1>1 DEF Opened
  <1>4. Suits(Encodings[ic.encoding], st) => Suits(Encodings[ic.encoding], st2)
    BY <1>1 DEF Suits
  <1>5. NoSlice.len = 0 /\ Opened(b, ic, st) \in Nat /\ ic.imm.len \in Nat
    BY OpenedType DEF NoSlice, Icodes, Slices
  <1>6. Adjoin(ic2.imm, ic2.disp, Opened(b, ic2, st2), k + n)
    <2>1. \/ Adjoin(ic.disp, ic.imm, Opened(b, ic, st), k)
          \/ Adjoin(ic.imm, ic.disp, Opened(b, ic, st), k)
      BY DEF Filled
    <2>2. /\ ic.imm.len > 0 => ic.imm.at = Opened(b, ic, st)
          /\ k = Opened(b, ic, st) + ic.imm.len
      BY <1>5, <2>1 DEF Adjoin
    <2>3. ic2.disp.at = k /\ ic2.disp.len = n
      OBVIOUS
    <2>4. QED
      BY <1>2, <1>5, <2>2, <2>3 DEF Adjoin
  <1>7. ic2.disp.at = st2.imm2_offset
    OBVIOUS
  <1>8. QED
    BY <1>1, <1>4, <1>6, <1>7 DEF Filled

\* An operand whose bytes go to both fields, in either order.
LEMMA FilledBoth ==
  ASSUME NEW b, NEW d, NEW q, NEW ic \in Icodes, NEW st \in DecoderStates,
         NEW ic2, NEW st2, NEW k \in 0..31, NEW n \in Nat,
         Filled(b, d, q, ic, st, k),
         KeptByArguments(ic2, st2) = KeptByArguments(ic, st), ~st.has_modrm,
         ic.disp = NoSlice, ic.imm = NoSlice,
         Adjoin(ic2.disp, ic2.imm, k, k + n) \/ Adjoin(ic2.imm, ic2.disp, k, k + n),
         st2.disp_offset # NoOffset => ic2.disp.at = st2.disp_offset,
         st2.imm2_offset # NoOffset => ic2.disp.at = st2.imm2_offset,
         st2.imm1_offset # NoOffset => ic2.imm.at = st2.imm1_offset /\ ic2.imm.len > 0
  PROVE  Filled(b, d, q, ic2, st2, k + n)
  <1>1. /\ ic2.encoding = ic.encoding
        /\ st2.prefix_size = st.prefix_size
        /\ st2.modrm0 = st.modrm0 /\ st2.has_modrm = st.has_modrm
    BY DEF KeptByArguments
  <1>2. Opened(b, ic2, st2) = Opened(b, ic, st)
    BY <1>1 DEF Opened
  <1>4. Suits(Encodings[ic.encoding], st) => Suits(Encodings[ic.encoding], st2)
    BY <1>1 DEF Suits
  <1>5. Opened(b, ic, st) = k
    <2>1. \/ Adjoin(ic.disp, ic.imm, Opened(b, ic, st), k)
          \/ Adjoin(ic.imm, ic.disp, Opened(b, ic, st), k)
      BY DEF Filled
    <2>2. NoSlice.len = 0 /\ Opened(b, ic, st) \in Nat
      BY OpenedType DEF NoSlice
    <2>3. QED
      BY <2>1, <2>2 DEF Adjoin
  <1>6. QED
    BY <1>1, <1>2, <1>4, <1>5 DEF Filled

\* The operand at hand is as the encoding has it, unless ModRM made a register
\* or memory operand memory.
LEMMA ArgKnown ==
  ASSUME Inv, AtArg, ArgumentsRead, NEW e, e = Encodings[dest.encoding],
         NEW a, a = e.args[argi]
  PROVE  /\ dest.encoding \in DOMAIN Encodings /\ argi \in 1..4
         /\ Arg.type = a.type \/ (a.value = RegOrMem /\ state.modrm0 < 192)
         /\ Arg.type \notin RegTypes \cup {"mem_ea"} => Arg.type = a.type
  <1>1. dest.encoding \in DOMAIN Encodings /\ argi \in 1..4
    BY DEF Inv, TypeOK, Icodes, ArgumentsRead, AtArg
  <1>2. dest.args[argi] = a
    BY <1>1 DEF ArgumentsRead, Pending
  <1>3. e \in {Encodings[x] : x \in DOMAIN Encodings}
    BY <1>1
  <1>4. a.value = RegOrMem => a.type \in RegTypes
    <2>1. e.args[argi].value = RegOrMem => e.args[argi].type \in RegTypes
      BY <1>1, <1>3, OperandsAssumption, Zenon
    <2>2. QED
      BY <2>1
  <1>5. a.value # RegOrMem => Arg.type = a.type
    <2>1. e.args \in [1..4 -> Args]
      BY <1>1, EncodingsAssumption
    <2>2. a \in Args
      BY <1>1, <2>1
    <2>3. QED
      BY <1>2, <2>2 DEF Arg, Args
  <1>6. a.value = RegOrMem => Arg.type = IF state.modrm0 < 192 THEN "mem_ea" ELSE a.type
    BY <1>2 DEF Arg
  <1>7. QED
    BY <1>1, <1>4, <1>5, <1>6

\* An operand's step goes on to the next one or fails.
LEMMA ArgumentsGoOn ==
  ASSUME get_arguments, AtArg, pc' = "args"
  PROVE  argi' = argi + 1 /\ UNCHANGED caller
BY DEF get_arguments, UnsupportedArgument, FullDispArg, ImplicitImmArg, ImmArg, RegArg, MemArg,
       EndArgs, NextArg, Fail

\* What an operand's step has to keep.
LEMMA ArgumentRead ==
  ASSUME Inv, get_arguments, AtArg, ArgumentsRead, pc' = "args",
         dest'.args[argi].type = Arg.type,
         \A j \in 1..4 : j # argi => dest'.args[j] = dest.args[j],
         NEW W, W = FieldsOf(Encodings[dest.encoding], Encodings[dest.encoding].args[argi]),
         "imm" \notin W => dest'.imm = dest.imm /\ state'.imm1_offset = state.imm1_offset,
         "disp" \notin W => /\ dest'.disp = dest.disp
                            /\ state'.disp_offset = state.disp_offset
                            /\ state'.imm2_offset = state.imm2_offset,
         Filled(buf, dsz, p, dest', state', fetcher_copy'.next)
  PROVE  ArgumentsRead'
  <1>1. /\ dest'.encoding = dest.encoding /\ state'.has_modrm = state.has_modrm
        /\ state'.modrm0 = state.modrm0
    BY ArgumentsKeep DEF KeptByArguments
  <1>2. argi' = argi + 1 /\ buf' = buf /\ dsz' = dsz /\ p' = p /\ argi \in 1..4
    BY ArgumentsGoOn DEF caller, AtArg
  <1> DEFINE e == Encodings[dest.encoding]
             a == e.args[argi]
  <1>3. Arg.type = a.type \/ (a.value = RegOrMem /\ state.modrm0 < 192)
    BY ArgKnown
  <1>4. Pending(dest', state', argi + 1)
    <2>1. Pending(dest, state, argi)
      BY DEF ArgumentsRead
    <2>2. W = FieldsOf(e, e.args[argi])
      OBVIOUS
    <2> HIDE DEF e, a
    <2>3. e = Encodings[dest.encoding]
      BY DEF e
    <2>4. QED
      BY <1>1, <1>2, <2>1, <2>2, <2>3, PendingNext
  <1>5. FirstOperand(dest', state')
    <2>1. FirstOperand(dest, state)
      BY DEF ArgumentsRead
    <2>2. a = Encodings[dest.encoding].args[argi]
      OBVIOUS
    <2>3. dest'.args[argi].type = a.type \/ (a.value = RegOrMem /\ state.modrm0 < 192)
      BY <1>3
    <2> HIDE DEF e, a
    <2>4. QED
      BY <1>1, <1>2, <2>1, <2>2, <2>3, FirstOperandNext
  <1>6. dest'.encoding # Invalid
    BY <1>1 DEF ArgumentsRead
  <1> HIDE DEF e, a
  <1>7. QED
    BY <1>1, <1>2, <1>4, <1>5, <1>6 DEF ArgumentsRead

\* Operands in registers, and in memory that ModRM or the opcode names.
LEMMA PlainArgRead ==
  ASSUME Inv, ArgumentsRead, MemArg \/ RegArg, pc' = "args"
  PROVE  ArgumentsRead'
  <1>1. AtArg /\ get_arguments /\ argi \in 1..4 /\ dest \in Icodes
    BY DEF MemArg, RegArg, get_arguments, AtArg, Inv, TypeOK
  <1>2. fetcher_copy' = fetcher_copy /\ state' = state
    BY DEF MemArg, RegArg
  <1>3. PICK a : dest' = [dest EXCEPT !.args[argi] = a] /\ a.type = Arg.type
    <2>1. CASE MemArg
      BY <2>1 DEF MemArg
    <2>2. CASE RegArg
      <3> DEFINE n == IF Arg.value = DefaultValue THEN RegisterNumber ELSE Arg.value
                 b == [Arg EXCEPT !.value = n]
      <3>1. dest' = [dest EXCEPT !.args[argi] = b]
        BY <2>2 DEF RegArg
      <3>2. Arg \in Args
        BY <1>1, ArgType
      <3>3. b.type = Arg.type
        BY <3>2 DEF Args
      <3> HIDE DEF b
      <3>4. QED
        BY <3>1, <3>3
    <2>3. QED
      BY <2>1, <2>2
  <1>4. /\ dest'.args[argi] = a /\ \A j \in 1..4 : j # argi => dest'.args[j] = dest.args[j]
        /\ dest'.imm = dest.imm /\ dest'.disp = dest.disp
    BY <1>1, <1>3 DEF Icodes
  <1>5. KeptByArguments(dest', state') = KeptByArguments(dest, state)
    BY <1>1, ArgumentsKeep
  <1>6. Filled(buf, dsz, p, dest', state', fetcher_copy'.next)
    <2>1. Filled(buf, dsz, p, dest, state, fetcher_copy.next)
      BY DEF ArgumentsRead
    <2>2. QED
      BY <1>2, <1>4, <1>5, <2>1, FilledSame
  <1>7. QED
    BY <1>1, <1>2, <1>3, <1>4, <1>6, ArgumentRead

\* An implicit immediate has no bytes, and the field it takes is free.
LEMMA ImplicitImmRead ==
  ASSUME Inv, ArgumentsRead, ImplicitImmArg, pc' = "args"
  PROVE  ArgumentsRead'
  <1>1. AtArg /\ get_arguments /\ argi \in 1..4 /\ dest \in Icodes
    BY DEF ImplicitImmArg, get_arguments, AtArg, Inv, TypeOK
  <1>2. /\ fetcher_copy' = fetcher_copy /\ state' = state /\ Arg.type = "imm_implict"
        /\ dest' = [dest EXCEPT !.args[argi] = Arg, !.imm = NoSlice]
    BY DEF ImplicitImmArg
  <1> DEFINE here == [dest EXCEPT !.args[argi] = Arg]
             e == Encodings[dest.encoding]
             a == e.args[argi]
             W == FieldsOf(e, a)
  <1>3. here \in Icodes /\ dest' = [here EXCEPT !.imm = NoSlice]
    BY <1>1, <1>2, WithArgType
  <1>4. /\ here.args[argi] = Arg /\ \A j \in 1..4 : j # argi => here.args[j] = dest.args[j]
        /\ here.imm = dest.imm /\ here.disp = dest.disp
    BY <1>1 DEF Icodes
  <1> HIDE DEF here
  <1>5. /\ dest'.args[argi] = Arg /\ \A j \in 1..4 : j # argi => dest'.args[j] = dest.args[j]
        /\ dest'.imm = NoSlice /\ dest'.disp = dest.disp
    BY <1>3, <1>4 DEF Icodes
  <1>6. dest.encoding \in DOMAIN Encodings /\ Arg.type = a.type
    BY <1>1, <1>2, ArgKnown DEF RegTypes
  <1>7. "imm" \in W /\ W = {"imm"}
    BY <1>2, <1>6 DEF FieldsOf, ImmTypes
  <1>8. dest.imm = NoSlice
    <2>1. Free(e, argi, "imm")
      BY <1>1, <1>6, <1>7, FieldFree
    <2>2. QED
      BY <2>1 DEF ArgumentsRead, Pending
  <1>9. KeptByArguments(dest', state') = KeptByArguments(dest, state)
    BY <1>1, ArgumentsKeep
  <1>10. Filled(buf, dsz, p, dest', state', fetcher_copy'.next)
    <2>1. Filled(buf, dsz, p, dest, state, fetcher_copy.next)
      BY DEF ArgumentsRead
    <2>2. QED
      <3>1. dest'.imm = dest.imm /\ dest'.disp = dest.disp
        BY <1>5, <1>8
      <3>2. QED
        BY <1>2, <1>9, <2>1, <3>1, FilledSame
  <1>11. QED
    <2>1. W = FieldsOf(Encodings[dest.encoding], Encodings[dest.encoding].args[argi])
      OBVIOUS
    <2> HIDE DEF W, e, a
    <2>2. QED
      BY <1>1, <1>2, <1>5, <1>7, <1>10, <2>1, ArgumentRead

\* Where the attempt stands.
LEMMA CopyOffset ==
  ASSUME Inv
  PROVE  fetcher_copy.next \in 0..31
  <1>1. fetcher_copy \in [left : 0..MaxBytes, next : 0..MaxBytes]
    BY DEF Inv, TypeOK
  <1>2. QED
    BY <1>1, BytesAssumption

\* What operands that fill the displacement find.
LEMMA DispFree ==
  ASSUME Inv, AtArg, ArgumentsRead, NEW e, e = Encodings[dest.encoding],
         "disp" \in FieldsOf(e, e.args[argi])
  PROVE  /\ ~state.has_modrm /\ dest.disp = NoSlice
         /\ state.disp_offset = NoOffset /\ state.imm2_offset = NoOffset
  <1>1. dest.encoding \in DOMAIN Encodings /\ argi \in 1..4
    BY ArgKnown
  <1>2. Free(e, argi, "disp") /\ ~e.regop
    BY <1>1, FieldFree
  <1>3. ~state.has_modrm
    BY <1>2 DEF ArgumentsRead, Filled
  <1>4. QED
    BY <1>2, <1>3 DEF ArgumentsRead, Pending

\* And those that fill the immediate.
LEMMA ImmFree ==
  ASSUME Inv, AtArg, ArgumentsRead, NEW e, e = Encodings[dest.encoding],
         "imm" \in FieldsOf(e, e.args[argi])
  PROVE  dest.imm = NoSlice /\ state.imm1_offset = NoOffset
  <1>1. dest.encoding \in DOMAIN Encodings /\ argi \in 1..4
    BY ArgKnown
  <1>2. Free(e, argi, "imm")
    BY <1>1, FieldFree
  <1>3. QED
    BY <1>2 DEF ArgumentsRead, Pending

\* A full displacement fills one field, or both.
LEMMA FullDispRead ==
  ASSUME Inv, ArgumentsRead, FullDispArg, pc' = "args"
  PROVE  ArgumentsRead'
  <1>1. AtArg /\ get_arguments /\ argi \in 1..4 /\ dest \in Icodes /\ state \in DecoderStates
    BY DEF FullDispArg, get_arguments, AtArg, Inv, TypeOK
  <1> DEFINE n == SizeOf(dest.asz)
             k == fetcher_copy.next
             f == fetcher_copy
             here == [dest EXCEPT !.has_disp = TRUE, !.args[argi] = Arg]
             s1 == Slice(f, IF n = 8 THEN 4 ELSE n)
             s2 == IF n = 8 THEN Slice(Advance(f, 4), 4) ELSE here.imm
             e == Encodings[dest.encoding]
             a == e.args[argi]
             W == FieldsOf(e, a)
  <1>2. n \in {2, 4, 8}
    <2>1. dest.asz \in 0..2
      BY <1>1 DEF Icodes
    <2>2. QED
      BY <2>1 DEF SizeOf
  <1>3. k \in 0..31
    BY CopyOffset
  <1>4. /\ Arg.type = "mem_fulldisp" /\ fetcher_copy' = Advance(f, n)
        /\ state' = [state EXCEPT !.disp_offset = k]
        /\ dest' = [here EXCEPT !.disp = s1, !.imm = s2]
    BY DEF FullDispArg, Fail
  <1>5. fetcher_copy'.next = k + n
    BY <1>4 DEF Advance
  <1>6. here.imm = dest.imm /\ here.args[argi] = Arg
        /\ \A j \in 1..4 : j # argi => here.args[j] = dest.args[j]
    BY <1>1 DEF Icodes
  <1>7. here \in Icodes
    <2> DEFINE arg == [dest EXCEPT !.args[argi] = Arg]
    <2>1. arg \in Icodes
      BY <1>1, WithArgType
    <2>2. here = [arg EXCEPT !.has_disp = TRUE]
      BY <1>1 DEF Icodes
    <2> HIDE DEF arg, here
    <2>3. QED
      BY <2>1, <2>2, IcodeFlag
  <1>8. /\ s1 = [at |-> k, len |-> IF n = 8 THEN 4 ELSE n]
        /\ n = 8 => s2 = [at |-> k + 4, len |-> 4]
        /\ n # 8 => s2 = dest.imm
    BY <1>6 DEF Slice, Advance
  <1> HIDE DEF here, s1, s2, n
  <1>9. /\ dest'.disp = s1 /\ dest'.imm = s2 /\ dest'.args[argi] = Arg
        /\ \A j \in 1..4 : j # argi => dest'.args[j] = dest.args[j]
    BY <1>4, <1>6, <1>7 DEF Icodes
  <1>10. /\ state'.disp_offset = k /\ state'.imm1_offset = state.imm1_offset
         /\ state'.imm2_offset = state.imm2_offset
    BY <1>1, <1>4 DEF DecoderStates
  <1>11. W = {"disp", "imm"}
    <2>1. a.type = "mem_fulldisp"
      BY <1>1, <1>4, ArgKnown DEF RegTypes
    <2>2. QED
      BY <2>1 DEF FieldsOf
  <1>12. /\ dest.disp = NoSlice /\ dest.imm = NoSlice /\ ~state.has_modrm
         /\ state.imm1_offset = NoOffset /\ state.imm2_offset = NoOffset
    BY <1>1, <1>11, DispFree, ImmFree
  <1>13. KeptByArguments(dest', state') = KeptByArguments(dest, state)
    BY <1>1, ArgumentsKeep
  <1>14. Adjoin(dest'.disp, dest'.imm, k, k + n)
    <2>1. NoSlice.len = 0
      BY DEF NoSlice
    <2>2. CASE n = 8
      BY <1>3, <1>8, <1>9, <2>2 DEF Adjoin
    <2>3. CASE n # 8
      <3>1. /\ dest'.disp.at = k /\ dest'.disp.len = n /\ dest'.imm.len = 0
        BY <1>8, <1>9, <1>12, <2>1, <2>3
      <3>2. QED
        BY <1>2, <1>3, <3>1 DEF Adjoin
    <2>4. QED
      BY <2>2, <2>3
  <1>15. Filled(buf, dsz, p, dest', state', fetcher_copy'.next)
    <2>1. Filled(buf, dsz, p, dest, state, k)
      BY DEF ArgumentsRead
    <2>2. n \in Nat
      BY <1>2
    <2>3. dest'.disp.at = k
      BY <1>8, <1>9
    <2>4. Filled(buf, dsz, p, dest', state', k + n)
      BY <1>1, <1>3, <1>10, <1>12, <1>13, <1>14, <2>1, <2>2, <2>3, FilledBoth
    <2>5. QED
      BY <1>5, <2>4
  <1>16. W = FieldsOf(Encodings[dest.encoding], Encodings[dest.encoding].args[argi])
    OBVIOUS
  <1> HIDE DEF W, e, a
  <1>17. QED
    BY <1>1, <1>9, <1>11, <1>15, <1>16, ArgumentRead

\* The bytes of an immediate that is read.
LEMMA ImmediateBytes ==
  ASSUME Inv, AtArg, Arg.size > 0
  PROVE  ImmBytes \in Nat /\ (Imm64 => ImmBytes = 8 /\ Wide(Encoding))
  <1>1. Arg.size \in Nat
    BY ArgType DEF Args, AtArg
  <1>2. QED
    BY <1>1 DEF ImmBytes, Imm64, SxByte, Wide

\* An immediate fills one field, or both.
LEMMA ImmRead ==
  ASSUME Inv, ArgumentsRead, ImmArg, pc' = "args"
  PROVE  ArgumentsRead'
  <1>1. /\ AtArg /\ get_arguments /\ argi \in 1..4 /\ Arg.size > 0
        /\ Arg.type \in {"imm_1st", "imm_2nd", "imm_both"}
    BY DEF ImmArg, get_arguments, AtArg, ImmTypes
  <1>2. dest \in Icodes /\ state \in DecoderStates
    BY DEF Inv, TypeOK
  <1> DEFINE n == ImmBytes
             f == fetcher_copy
             k == fetcher_copy.next
             sx == IF SxByte /\ n = 1 THEN TRUE ELSE dest.sx
             here == [dest EXCEPT !.args[argi] = Arg, !.sx = sx]
             e == Encodings[dest.encoding]
             a == e.args[argi]
             W == FieldsOf(e, a)
  <1>3. n \in Nat /\ (Imm64 => n = 8 /\ Wide(e))
    BY <1>1, ImmediateBytes DEF Encoding
  <1>4. k \in 0..31
    BY CopyOffset
  <1>5. a.type = Arg.type /\ dest.encoding \in DOMAIN Encodings
    BY <1>1, ArgKnown DEF RegTypes
  <1>6. a.type = "imm_2nd" => ~Wide(e)
    <2>1. e \in {Encodings[x] : x \in DOMAIN Encodings}
      BY <1>5
    <2>2. e.args[argi].type = "imm_2nd" => ~Wide(e)
      <3> HIDE DEF e
      <3> QED BY <1>1, <2>1, OperandsAssumption, Zenon
    <2>3. QED
      BY <2>2
  <1>7. W = IF a.type = "imm_2nd" THEN {"disp"}
            ELSE IF Wide(e) THEN {"imm", "disp"} ELSE {"imm"}
    BY <1>1, <1>5 DEF FieldsOf
  <1>8. here \in Icodes
    <2> DEFINE arg == [dest EXCEPT !.args[argi] = Arg]
    <2>1. arg \in Icodes
      BY <1>1, WithArgType
    <2>2. sx \in BOOLEAN
      BY <1>2 DEF Icodes
    <2>3. here = [arg EXCEPT !.sx = sx]
      BY <1>2 DEF Icodes
    <2> HIDE DEF arg, here, sx
    <2>4. QED
      BY <2>1, <2>2, <2>3, IcodeFlag
  <1>9. /\ here.imm = dest.imm /\ here.disp = dest.disp /\ here.args[argi] = Arg
        /\ \A j \in 1..4 : j # argi => here.args[j] = dest.args[j]
    BY <1>1, <1>2 DEF Icodes
  <1>10. /\ state' = IF SecondImm THEN [state EXCEPT !.imm2_offset = k]
                     ELSE [state EXCEPT !.imm1_offset = k]
         /\ n > 0 /\ fetcher_copy' = Advance(f, n)
         /\ dest' = CASE Imm64 -> [here EXCEPT !.imm = Slice(f, 4),
                                       !.disp = Slice(Advance(f, 4), 4),
                                       !.imm64 = TRUE]
                      [] ~Imm64 /\ SecondImm -> [here EXCEPT !.disp = Slice(f, n)]
                      [] OTHER -> [here EXCEPT !.imm = Slice(f, n)]
    <2>1. here = [dest EXCEPT !.args[argi] = Arg,
                              !.sx = IF SxByte /\ n = 1 THEN TRUE ELSE @]
      BY <1>2 DEF Icodes
    <2>2. QED
      BY <2>1 DEF ImmArg, Fail
  <1>11. fetcher_copy'.next = k + n
    BY <1>10 DEF Advance
  <1>12. SecondImm <=> a.type = "imm_2nd"
    BY <1>5 DEF SecondImm
  <1>13. KeptByArguments(dest', state') = KeptByArguments(dest, state)
    BY <1>1, ArgumentsKeep
  <1>14. Filled(buf, dsz, p, dest, state, k)
    BY DEF ArgumentsRead
  <1> HIDE DEF here, n
  <1>15. CASE SecondImm
    <2>1. ~Imm64
      BY <1>3, <1>6, <1>12, <1>15
    <2>2. W = {"disp"}
      BY <1>7, <1>12, <1>15
    <2>3. dest' = [here EXCEPT !.disp = Slice(f, n)] /\ state' = [state EXCEPT !.imm2_offset = k]
      BY <1>10, <1>15, <2>1
    <2>4. /\ dest'.disp = [at |-> k, len |-> n] /\ dest'.imm = dest.imm /\ dest'.args = here.args
      BY <1>8, <1>9, <2>3 DEF Icodes, Slice
    <2>5. /\ state'.imm2_offset = k /\ state'.imm1_offset = state.imm1_offset
          /\ state'.disp_offset = state.disp_offset
      BY <1>2, <2>3 DEF DecoderStates
    <2>6. ~state.has_modrm /\ dest.disp = NoSlice /\ state.disp_offset = NoOffset
      BY <1>1, <2>2, DispFree
    <2>7. n \in Nat \ {0}
      BY <1>3, <1>10
    <2>8. Filled(buf, dsz, p, dest', state', k + n)
      BY <1>2, <1>4, <1>13, <1>14, <2>4, <2>5, <2>6, <2>7, FilledDisp
    <2>9. W = FieldsOf(Encodings[dest.encoding], Encodings[dest.encoding].args[argi])
      OBVIOUS
    <2> HIDE DEF W, e, a
    <2>10. QED
      BY <1>1, <1>9, <1>11, <2>2, <2>4, <2>5, <2>8, <2>9, ArgumentRead
  <1>16. CASE ~SecondImm /\ Imm64
    <2>1. W = {"imm", "disp"}
      BY <1>3, <1>7, <1>12, <1>16
    <2>2. /\ dest' = [here EXCEPT !.imm = Slice(f, 4), !.disp = Slice(Advance(f, 4), 4),
                                  !.imm64 = TRUE]
          /\ state' = [state EXCEPT !.imm1_offset = k]
      BY <1>10, <1>16
    <2>3. /\ dest'.imm = [at |-> k, len |-> 4] /\ dest'.disp = [at |-> k + 4, len |-> 4]
          /\ dest'.args = here.args
      BY <1>8, <2>2 DEF Icodes, Slice, Advance
    <2>4. /\ state'.imm1_offset = k /\ state'.imm2_offset = state.imm2_offset
          /\ state'.disp_offset = state.disp_offset
      BY <1>2, <2>2 DEF DecoderStates
    <2>5. /\ ~state.has_modrm /\ dest.disp = NoSlice /\ dest.imm = NoSlice
          /\ state.disp_offset = NoOffset /\ state.imm2_offset = NoOffset
      BY <1>1, <2>1, DispFree, ImmFree
    <2>6. n = 8 /\ n \in Nat
      BY <1>3, <1>16
    <2>7. Adjoin(dest'.imm, dest'.disp, k, k + n)
      BY <1>4, <2>3, <2>6 DEF Adjoin
    <2>8. dest'.imm.at = k /\ dest'.imm.len > 0
      BY <2>3
    <2>9. Filled(buf, dsz, p, dest', state', k + n)
      BY <1>2, <1>4, <1>13, <1>14, <2>4, <2>5, <2>6, <2>7, <2>8, FilledBoth
    <2>10. W = FieldsOf(Encodings[dest.encoding], Encodings[dest.encoding].args[argi])
      OBVIOUS
    <2> HIDE DEF W, e, a
    <2>11. QED
      BY <1>1, <1>9, <1>11, <2>1, <2>3, <2>9, <2>10, ArgumentRead
  <1>17. CASE ~SecondImm /\ ~Imm64
    <2>1. "imm" \in W
      BY <1>7, <1>12, <1>17
    <2>2. dest' = [here EXCEPT !.imm = Slice(f, n)] /\ state' = [state EXCEPT !.imm1_offset = k]
      BY <1>10, <1>17
    <2>3. /\ dest'.imm = [at |-> k, len |-> n] /\ dest'.disp = dest.disp /\ dest'.args = here.args
      BY <1>8, <1>9, <2>2 DEF Icodes, Slice
    <2>4. /\ state'.imm1_offset = k /\ state'.imm2_offset = state.imm2_offset
          /\ state'.disp_offset = state.disp_offset
      BY <1>2, <2>2 DEF DecoderStates
    <2>5. dest.imm = NoSlice
      BY <1>1, <2>1, ImmFree
    <2>6. n \in Nat \ {0}
      BY <1>3, <1>10
    <2>7. Filled(buf, dsz, p, dest', state', k + n)
      BY <1>2, <1>4, <1>13, <1>14, <2>3, <2>4, <2>5, <2>6, FilledImm
    <2>8. W = FieldsOf(Encodings[dest.encoding], Encodings[dest.encoding].args[argi])
      OBVIOUS
    <2> HIDE DEF W, e, a
    <2>9. QED
      BY <1>1, <1>9, <1>11, <2>1, <2>3, <2>4, <2>7, <2>8, ArgumentRead
  <1>18. QED
    BY <1>15, <1>16, <1>17

\* The operands are in: LOCK goes with memory that ModRM addresses.
LEMMA ArgumentsEnd ==
  ASSUME Inv, ArgumentsRead, EndArgs, Judged'
  PROVE  /\ dest'.encoding # Invalid
         /\ Filled(buf, dsz, p, dest', state', state'.insn_size)
         /\ Locked(dest', state')
  <1>1. state \in DecoderStates /\ dest \in Icodes /\ get_arguments
    BY DEF Inv, TypeOK, get_arguments
  <1>2. /\ dest' = dest /\ ~(dest.lockrep = 1 /\ ~LockAllowed)
        /\ state' = [state EXCEPT !.insn_size = fetcher_copy.next]
    BY DEF EndArgs, Fail, Judged
  <1>3. /\ state'.insn_size = fetcher_copy.next /\ state'.has_modrm = state.has_modrm
        /\ state'.modrm0 = state.modrm0 /\ state'.disp_offset = state.disp_offset
        /\ state'.imm1_offset = state.imm1_offset /\ state'.imm2_offset = state.imm2_offset
    BY <1>1, <1>2 DEF DecoderStates
  <1>4. KeptByArguments(dest', state') = KeptByArguments(dest, state)
    BY <1>1, ArgumentsKeep
  <1>5. Filled(buf, dsz, p, dest', state', fetcher_copy.next)
    <2>1. Filled(buf, dsz, p, dest, state, fetcher_copy.next)
      BY DEF ArgumentsRead
    <2>2. QED
      BY <1>2, <1>3, <1>4, <2>1, FilledSame
  <1> DEFINE e == Encodings[dest.encoding]
  <1>6. ASSUME dest.lockrep = 1
        PROVE  Lockable(e) /\ state.has_modrm /\ state.modrm0 < 192
    <2>1. Lockable(e) /\ dest.args[1].type \in MemTypes
      BY <1>2, <1>6 DEF LockAllowed, Encoding
    <2>2. dest.encoding # Invalid /\ FirstOperand(dest, state)
          /\ state.has_modrm = e.regop /\ Suits(e, state)
      BY DEF ArgumentsRead, Filled
    <2>3. e \in {Encodings[x] : x \in DOMAIN Encodings}
      BY <1>1, <2>2 DEF Icodes
    <2>4. CASE dest.args[1].type = e.args[1].type
      <3>1. e.args[1].type \notin {"mem_fulldisp", "mem_implict"}
        <4> HIDE DEF e
        <4> QED BY <2>1, <2>3, OperandsAssumption, Zenon
      <3>2. e.args[1].type \in EaTypes
        BY <2>1, <2>4, <3>1 DEF MemTypes, EaTypes
      <3>3. InMemory(e)
        BY <3>2 DEF InMemory
      <3>4. QED
        BY <2>1, <2>2, <3>3 DEF Suits
    <2>5. CASE e.args[1].value = RegOrMem /\ state.modrm0 < 192
      <3>1. e.args[1].value = RegOrMem => e.regop
        <4>1. 1 \in 1..4
          OBVIOUS
        <4> HIDE DEF e
        <4> QED BY <2>3, <4>1, OperandsAssumption, Zenon
      <3>2. QED
        BY <2>1, <2>2, <2>5, <3>1
    <2>6. QED
      BY <2>2, <2>4, <2>5 DEF FirstOperand
  <1>7. Locked(dest', state')
    BY <1>2, <1>3, <1>6 DEF Locked
  <1>8. QED
    BY <1>2, <1>3, <1>5, <1>7 DEF ArgumentsRead

\* The operands are read one after the other.
LEMMA ArgumentsReadStep ==
  ASSUME Inv, ArgumentsRead, get_arguments, pc' = "args"
  PROVE  ArgumentsRead'
  <1>1. MemArg \/ RegArg \/ ImplicitImmArg \/ FullDispArg \/ ImmArg
    BY DEF get_arguments, UnsupportedArgument, EndArgs, Fail
  <1>2. QED
    BY <1>1, PlainArgRead, ImplicitImmRead, FullDispRead, ImmRead

\* A step of get_arguments that comes to an instruction is the last.
LEMMA ArgumentsJudge ==
  get_arguments /\ Judged' => EndArgs
  <1>1. \A msg \in {"Unsupported argument encountered", "limit exceeded (7)",
                    "invalid opcode: seg reg of 6 or 7 specified"} : msg # ""
    OBVIOUS
  <1>2. UnsupportedArgument \/ FullDispArg \/ RegArg => ~Judged'
    BY DEF UnsupportedArgument, FullDispArg, RegArg, AtArg, NextArg, Fail, Judged
  <1>3. ImplicitImmArg \/ MemArg => ~Judged'
    BY DEF ImplicitImmArg, MemArg, AtArg, NextArg, Judged
  <1>4. ImmArg => ~Judged'
    BY DEF ImmArg, AtArg, NextArg, Fail, Judged
  <1>5. QED
    BY <1>2, <1>3, <1>4 DEF get_arguments

\* A step of the table walk comes to no instruction.
LEMMA WalkJudge ==
  ASSUME Inv, Walk
  PROVE  ~Judged'
  <1>1. EnterTry \/ WalkMode => ~Judged'
    BY DEF EnterTry, WalkMode, Judged
  <1>2. EnterTryTooShort => ~Judged'
    BY DEF EnterTryTooShort, Fail, Judged
  <1>3. WalkByte \/ WalkModRM \/ InvalidOpcode => ~Judged'
    BY DEF WalkByte, WalkModRM, InvalidOpcode, Fail, Judged
  <1>4. Leaf => ~Judged'
    BY LeafCases DEF Judged
  <1>5. QED
    BY <1>1, <1>2, <1>3, <1>4 DEF Walk

\* Returning, do_decode notes whether there was an FWAIT, and no more.
LEMMA ReturnKeeps ==
  ASSUME Inv, Return, Judged'
  PROVE  /\ Judged /\ UNCHANGED <<caller, state>>
         /\ KeptByArguments(dest', state') = KeptByArguments(dest, state)
         /\ dest'.imm = dest.imm /\ dest'.disp = dest.disp
  <1>1. dest \in Icodes
    BY DEF Inv, TypeOK
  <1>2. PICK w : dest' = [dest EXCEPT !.fwait = w]
    BY DEF Return
  <1>3. UNCHANGED <<caller, state>> /\ Judged
    BY DEF Return, Judged
  <1>4. QED
    BY <1>1, <1>2, <1>3 DEF Icodes, KeptByArguments

\* The first attempt reads as ReadSoFar says.
LEMMA ReadSoFarStep ==
  Inv /\ Attempts /\ ReadSoFar /\ [Next]_vars => ReadSoFar'
  <1> SUFFICES ASSUME Inv, Collecting, ReadSoFar, [Next]_vars, attempt' = 1
               PROVE  ReadSoFar'
    BY DEF ReadSoFar, Attempts
  <1>1. CASE TakePrefixes
    <2>1. /\ attempt = 1 /\ dest' = dest /\ dsz' = dsz /\ pc \in {"prefix", "rex", "fwait"}
      BY <1>1, CollectingFrame DEF TakePrefixes, TakePrefix, LimitExceeded, EndPrefixes, TakeRex, NoRex,
         TakeFwait, NoFwait, inputs
    <2>2. pc' \notin {"walk", "args"} /\ ~Judged'
      BY <1>1, CollectingFrame DEF Judged
    <2>3. dest' = NewIcode(dsz')
      BY <2>1 DEF ReadSoFar
    <2>4. QED
      BY <2>2, <2>3 DEF ReadSoFar
  <1>2. CASE FallBack
    BY <1>2 DEF FallBack
  <1>3. CASE Walk \/ get_arguments \/ Return
    <2>1. /\ attempt = 1 /\ buf' = buf /\ dsz' = dsz /\ p' = p
          /\ pc' \in {"walk", "args", "judge", "done"}
      BY <1>3, DecodeFrame DEF caller
    <2>2. CASE Walk
      <3>1. ~Judged'
        BY <2>2, WalkJudge
      <3>2. ASSUME pc' = "walk"
            PROVE  Reading(buf, dsz, p, dest', state', node', fetcher_copy'.next)
        <4>1. CASE EnterTry
          <5>1. dest = NewIcode(dsz)
            BY <2>1, <4>1 DEF EnterTry, ReadSoFar
          <5>2. QED
            BY <4>1, <5>1, ReadingBegins
        <4>2. CASE WalkByte \/ WalkMode \/ WalkModRM
          <5>1. Reading(buf, dsz, p, dest, state, node, fetcher_copy.next)
            BY <2>1, <4>2 DEF WalkByte, WalkMode, WalkModRM, ReadSoFar
          <5>2. QED
            BY <2>1, <3>2, <4>2, <5>1, ReadingByte, ReadingMode, ReadingModRM
        <4>3. CASE EnterTryTooShort \/ InvalidOpcode
          BY <3>2, <4>3 DEF EnterTryTooShort, InvalidOpcode, Fail
        <4>4. CASE Leaf
          BY <3>2, <4>4, LeafCases
        <4>5. QED
          BY <2>2, <4>1, <4>2, <4>3, <4>4 DEF Walk
      <3>3. ASSUME pc' = "args"
            PROVE  ArgumentsRead'
        <4>1. Leaf
          BY <2>2, <3>3 DEF Walk, EnterTry, EnterTryTooShort, WalkByte, WalkMode, WalkModRM,
             InvalidOpcode, Fail
        <4>2. Reading(buf, dsz, p, dest, state, node, fetcher_copy.next)
          BY <2>1, <4>1 DEF Leaf, ReadSoFar
        <4>3. /\ FilledByWalk(buf, dsz, p, dest', state', fetcher_copy'.next)
              /\ dest'.encoding # Invalid /\ argi' = 1
          BY <2>1, <3>3, <4>1, <4>2, ReadingLeaf
        <4>4. dest' \in Icodes /\ state' \in DecoderStates
          <5>1. Inv'
            BY InvStep
          <5>2. QED
            BY <5>1 DEF Inv, TypeOK
        <4>5. /\ Filled(buf, dsz, p, dest', state', fetcher_copy'.next)
              /\ Pending(dest', state', 1) /\ FirstOperand(dest', state')
          BY <4>3, <4>4, OperandsBegin
        <4>6. QED
          BY <2>1, <4>3, <4>5 DEF ArgumentsRead
      <3>4. QED
        BY <2>1, <3>1, <3>2, <3>3 DEF ReadSoFar
    <2>3. CASE get_arguments
      <3>1. pc = "args" /\ pc' \in {"args", "judge"}
        BY <2>3 DEF get_arguments, UnsupportedArgument, FullDispArg, ImplicitImmArg, ImmArg, RegArg,
           MemArg, EndArgs, Fail, NextArg, AtArg
      <3>2. ArgumentsRead
        BY <2>1, <3>1 DEF ReadSoFar
      <3>3. pc' = "args" => ArgumentsRead'
        BY <2>3, <3>2, ArgumentsReadStep
      <3>4. Judged' => /\ dest'.encoding # Invalid
                       /\ Filled(buf, dsz, p, dest', state', state'.insn_size)
                       /\ Locked(dest', state')
        BY <2>3, <3>2, ArgumentsJudge, ArgumentsEnd
      <3>5. QED
        BY <2>1, <3>1, <3>3, <3>4 DEF ReadSoFar
    <2>4. CASE Return
      <3>1. pc' = "done"
        BY <2>4 DEF Return
      <3>2. ASSUME Judged'
            PROVE  /\ dest'.encoding # Invalid
                   /\ Filled(buf, dsz, p, dest', state', state'.insn_size)
                   /\ Locked(dest', state')
        <4>1. /\ Judged /\ state' = state /\ dest'.imm = dest.imm /\ dest'.disp = dest.disp
              /\ KeptByArguments(dest', state') = KeptByArguments(dest, state)
          BY <2>4, <3>2, ReturnKeeps
        <4>2. /\ dest.encoding # Invalid
              /\ Filled(buf, dsz, p, dest, state, state.insn_size)
              /\ Locked(dest, state)
          BY <2>1, <4>1 DEF ReadSoFar
        <4>3. dest'.encoding = dest.encoding /\ dest'.lockrep = dest.lockrep
          BY <4>1 DEF KeptByArguments
        <4>4. Filled(buf, dsz, p, dest', state', state'.insn_size)
          BY <4>1, <4>2, FilledSame
        <4>5. QED
          BY <4>1, <4>2, <4>3, <4>4 DEF Locked
      <3>3. QED
        BY <2>1, <3>1, <3>2 DEF ReadSoFar
    <2>5. QED
      BY <1>3, <2>2, <2>3, <2>4
  <1>4. CASE UNCHANGED vars
    <2>1. /\ dsz' = dsz /\ buf' = buf /\ pc' = pc /\ fetcher_copy' = fetcher_copy /\ p' = p
          /\ attempt' = attempt /\ node' = node /\ argi' = argi /\ dest' = dest
          /\ state' = state /\ Judged' = Judged
      BY <1>4 DEF vars, Judged
    <2>2. ArgumentsRead' = ArgumentsRead
      BY <2>1 DEF ArgumentsRead
    <2>3. QED
      BY <2>1, <2>2 DEF ReadSoFar
  <1>5. QED
    BY <1>1, <1>2, <1>3, <1>4 DEF Next, Step, Finish, Returned

\* The second attempt leaves the table at a leaf without a ModRM byte.
LEMMA UnaddressedStep ==
  Inv /\ Attempts /\ Unaddressed /\ [Next]_vars => Unaddressed'
  <1> SUFFICES ASSUME Inv, Collecting, Second, Unaddressed, [Next]_vars, attempt' = 2,
                      pc' \in {"walk", "args"} \/ Judged'
               PROVE  ~state'.has_modrm
    BY DEF Unaddressed, Attempts
  <1> DEFINE b == SecondByte
             leaf == Table[Root].kids[b]
  <1>1. CASE TakePrefixes
    BY <1>1, CollectingFrame
  <1>2. CASE FallBack
    BY <1>2 DEF FallBack, Judged
  <1>3. CASE UNCHANGED vars
    BY <1>3 DEF vars, Unaddressed, Judged
  <1>4. CASE Walk \/ get_arguments \/ Return
    <2>1. attempt = 2
      BY <1>4, DecodeFrame DEF caller
    <2>2. Table[Root].type = 1 /\ Table[leaf].type = 0
      BY <2>1, SecondLeaf, TableAssumption
    <2>3. CASE EnterTry
      <3>1. EnterState \in DecoderStates /\ ~EnterState.has_modrm
        <4>1. state \in DecoderStates
          BY DEF Inv, TypeOK
        <4>2. QED
          BY <4>1, EnterStateType DEF EnterState, DecoderStates
      <3>2. state' = [EnterState EXCEPT !.opcode0 = Opcode0, !.modrm0 = 0]
        BY <2>3 DEF EnterTry
      <3>3. QED
        BY <3>1, <3>2 DEF DecoderStates
    <2>4. CASE EnterTryTooShort \/ InvalidOpcode
      <3>1. pc' = "judge"
        BY <2>4 DEF EnterTryTooShort, InvalidOpcode, Fail
      <3>2. ~Judged'
        BY <2>4, WalkJudge DEF Walk
      <3>3. QED
        BY <3>1, <3>2
    <2>5. CASE WalkByte \/ WalkMode
      BY <2>1, <2>5 DEF WalkByte, WalkMode, Unaddressed
    <2>6. CASE WalkModRM
      <3>1. pc = "walk" /\ Table[node].type \in {3, 4, 5}
        BY <2>6 DEF WalkModRM
      <3>2. node = Root \/ node = leaf
        BY <2>1, <3>1 DEF Second
      <3>3. QED
        BY <2>2, <3>1, <3>2
    <2>7. CASE Leaf
      <3>1. pc = "walk" /\ Table[node].type = 0 /\ Table[node].encoding # Invalid
        BY <2>7 DEF Leaf
      <3>2. node = leaf
        BY <2>1, <2>2, <3>1 DEF Second
      <3>3. ~Judged'
        BY <2>7, WalkJudge DEF Walk
      <3>4. /\ ~(dsz = 2 /\ "no64" \in LeafEncoding.etags)
            /\ LeafKnown \/ LeafReads
        BY <2>7, <3>3, LeafCases
      <3>5. ~LeafEncoding.regop
        BY <2>1, <3>1, <3>2, <3>4, SecondLeaf DEF LeafEncoding
      <3>6. state' = state
        BY <3>4, <3>5 DEF LeafKnown, LeafReads
      <3>7. QED
        BY <2>1, <3>1, <3>6 DEF Unaddressed
    <2>8. CASE get_arguments
      <3>1. pc = "args"
        BY <2>8 DEF get_arguments, UnsupportedArgument, FullDispArg, ImplicitImmArg, ImmArg, RegArg,
           MemArg, EndArgs, AtArg
      <3>2. state'.has_modrm = state.has_modrm
        BY <2>8, ArgumentsKeep DEF KeptByArguments
      <3>3. QED
        BY <2>1, <3>1, <3>2 DEF Unaddressed
    <2>9. CASE Return
      <3>1. pc' = "done"
        BY <2>9 DEF Return
      <3>2. Judged /\ state' = state
        BY <2>9, <3>1, ReturnKeeps
      <3>3. QED
        BY <2>1, <3>2 DEF Unaddressed
    <2>10. QED
      BY <1>4, <2>3, <2>4, <2>5, <2>6, <2>7, <2>8, <2>9 DEF Walk
  <1>5. QED
    BY <1>1, <1>2, <1>3, <1>4 DEF Next, Step, Finish, Returned

\* Nothing has been read at first.
LEMMA ReadInit ==
  Init => ReadSoFar /\ Unaddressed
  <1> SUFFICES ASSUME Init PROVE ReadSoFar /\ Unaddressed
    OBVIOUS
  <1>1. attempt = 1 /\ dest = NewIcode(dsz) /\ pc \in {"prefix", "done"} /\ ~Judged
    BY DEF Init, Judged
  <1>2. QED
    BY <1>1 DEF ReadSoFar, Unaddressed

\* What holds of an instruction when the first attempt returns it.
LEMMA ReadReturned ==
  ASSUME Inv, ReadSoFar, Succeeded, attempt = 1
  PROVE  /\ Filled(buf, dsz, p, dest, state, state.insn_size) /\ Locked(dest, state)
         /\ dest \in Icodes /\ state \in DecoderStates
  <1>1. Judged
    BY DEF Succeeded, Returning, Judged
  <1>2. QED
    BY <1>1 DEF ReadSoFar, Inv, TypeOK

\* Only the first attempt decodes an instruction with an address form or LOCK.
LEMMA FirstAttempt ==
  ASSUME Inv, Attempts, Unaddressed, Succeeded, state.has_modrm \/ dest.lockrep = 1
  PROVE  attempt = 1
  <1>1. attempt \in {1, 2} /\ Judged
    BY DEF Inv, TypeOK, Succeeded, Returning, Judged
  <1>2. attempt = 2 => ~state.has_modrm
    BY <1>1 DEF Unaddressed
  <1>3. attempt = 2 => dest.lockrep # 1
    <2>1. attempt = 2 => p = NoPrefix
      BY DEF Attempts, Collecting
    <2>2. dest.lockrep = p.lockrep
      BY Zenon DEF Attempts, Began, Succeeded, Returning
    <2>3. QED
      BY <2>1, <2>2 DEF NoPrefix
  <1>4. QED
    BY <1>1, <1>2, <1>3

\* LOCK was checked against the operand that ModRM addresses.
LEMMA ReadLock ==
  Inv /\ Attempts /\ ReadSoFar /\ Unaddressed => LockOnMemory
  <1> SUFFICES ASSUME Inv, Attempts, ReadSoFar, Unaddressed, Succeeded, dest.lockrep = 1
               PROVE  /\ "lockable" \in Encodings[dest.encoding].itags
                           \/ "lock_always" \in Encodings[dest.encoding].itags
                      /\ state.has_modrm /\ state.modrm0 < 192
                      /\ attempt = 1
    BY DEF LockOnMemory
  <1>1. attempt = 1
    BY FirstAttempt
  <1>2. Locked(dest, state)
    BY <1>1, ReadReturned
  <1>3. QED
    BY <1>1, <1>2 DEF Locked, Lockable

\* Where the first byte after the opcode is.
LEMMA AfterOpcodeIs ==
  ASSUME state \in DecoderStates
  PROVE  AfterOpcode = state.prefix_size + OpcodeLength(buf, state.prefix_size)
  <1> DEFINE first == state.prefix_size
  <1>1. first \in Nat
    BY DEF DecoderStates
  <1>2. ByteOf(first) = buf[first + 1] /\ ByteOf(first + 1) = buf[first + 2]
    BY <1>1 DEF ByteOf
  <1>3. AfterOpcode = first + CASE buf[first + 1] # 15 -> 1
                                [] buf[first + 1] = 15 /\ buf[first + 2] # 56 -> 2
                                [] OTHER -> 3
    BY <1>2 DEF AfterOpcode
  <1>4. QED
    BY <1>3 DEF OpcodeLength

\* An address form's displacement comes right behind its ModRM and SIB bytes,
\* and what comes behind that is the immediate or the end.
LEMMA AddressFollowed ==
  ASSUME NEW b, NEW d, NEW q, NEW ic \in Icodes, NEW st \in DecoderStates, NEW k,
         Filled(b, d, q, ic, st, k), st.has_modrm
  PROVE  Opened(b, ic, st) + ic.disp.len
           = IF st.imm1_offset # NoOffset THEN st.imm1_offset ELSE k
  <1>1. AddressRead(b, d, q, ic, st)
    BY DEF Filled
  <1>2. Opened(b, ic, st) \in Nat /\ ic.disp.len \in Nat /\ ic.imm.len \in Nat /\ NoSlice.len = 0
    BY OpenedType DEF Icodes, Slices, NoSlice
  <1>3. ic.disp.len # 0 => ic.disp.at = Opened(b, ic, st)
    BY <1>1 DEF AddressRead, Opened
  <1>4. \/ Adjoin(ic.disp, ic.imm, Opened(b, ic, st), k)
        \/ Adjoin(ic.imm, ic.disp, Opened(b, ic, st), k)
    BY DEF Filled
  <1>5. CASE st.imm1_offset # NoOffset
    <2>1. ic.imm.at = st.imm1_offset /\ ic.imm.len > 0
      BY <1>5 DEF Filled
    <2>2. QED
      BY <1>2, <1>3, <1>4, <1>5, <2>1 DEF Adjoin
  <1>6. CASE st.imm1_offset = NoOffset
    <2>1. ic.imm.len = 0
      BY <1>2, <1>6 DEF Filled
    <2>2. QED
      BY <1>2, <1>4, <1>6, <2>1 DEF Adjoin
  <1>7. QED
    BY <1>5, <1>6

\* The address of a memory operand is the one its bytes stand for.
LEMMA ReadAddress ==
  Inv /\ Attempts /\ ReadSoFar /\ Unaddressed => EffectiveAddress
  <1> SUFFICES ASSUME Inv, Attempts, ReadSoFar, Unaddressed,
                      Succeeded, state.has_modrm, state.modrm0 < 192
               PROVE  EffectiveAddress
    BY DEF EffectiveAddress
  <1>1. attempt = 1
    BY FirstAttempt
  <1>2. /\ Filled(buf, dsz, p, dest, state, state.insn_size)
        /\ dest \in Icodes /\ state \in DecoderStates
    BY <1>1, ReadReturned
  <1>3. AddressRead(buf, dsz, p, dest, state)
    BY <1>2 DEF Filled
  <1> DEFINE m    == state.modrm_offset
             mod  == ByteOf(m) \div 64
             rm   == ByteOf(m) % 8
             sib  == ByteOf(m + 1)
             regs == {dest.ea.base, dest.ea.index} \ {NoReg}
             len  == dest.disp.len
             hasSib == dest.asz # 0 /\ rm = 4
             after  == (m + (IF hasSib THEN 2 ELSE 1)) + len
             bs   == (IF rm = 4 THEN sib % 8 ELSE rm) + 8 * p.rex_b
             x    == ((sib \div 8) % 8) + 8 * p.rex_x
             bare == mod = 0 /\ bs % 8 = 5
  <1>4. m \in Nat
    BY <1>2 DEF DecoderStates
  <1>5. state.modrm0 = ByteOf(m) /\ buf[m + 2] = sib
    BY <1>3, <1>4 DEF AddressRead, ByteOf
  <1>6. AddressForm(dsz, p, dest, ByteOf(m), sib)
    BY <1>3, <1>5 DEF AddressRead
  <1>7. after = Opened(buf, dest, state) + len
    BY <1>5 DEF Opened, HeaderLength
  <1>8. after = IF state.imm1_offset # NoOffset THEN state.imm1_offset ELSE state.insn_size
    BY <1>2, <1>7, AddressFollowed
  <1>9. IF dest.asz = 0
        THEN /\ regs = (IF mod = 0 /\ rm = 6 THEN {} ELSE Forms16[rm + 1])
             /\ len = (IF mod = 0 THEN IF rm = 6 THEN 2 ELSE 0 ELSE mod)
        ELSE /\ dest.ea.base = IF bare THEN NoReg ELSE bs
             /\ dest.ea.index = IF rm = 4 /\ x # 4 THEN x ELSE NoReg
             /\ len = CASE mod = 1 -> 1
                        [] mod = 2 \/ bare -> 4
                        [] OTHER -> 0
             /\ dest.rip_relative = (dsz = 2 /\ bare /\ rm = 5)
    BY <1>6 DEF AddressForm
  <1>10. QED
    BY <1>8, <1>9 DEF EffectiveAddress

\* Slices that adjoin cover the bytes between their ends once.
LEMMA AdjoinCover ==
  ASSUME NEW s \in Slices, NEW t \in Slices, NEW i \in Nat, NEW k, Adjoin(s, t, i, k)
  PROVE  /\ \A x : (x \in Extent(s) \/ x \in Extent(t)) <=> x \in i..(k - 1)
         /\ Extent(s) \cap Extent(t) = {}
  <1>1. s.at \in Nat /\ s.len \in Nat /\ t.at \in Nat /\ t.len \in Nat
    BY DEF Slices
  <1>2. /\ s.len > 0 => s.at = i
        /\ t.len > 0 => t.at = i + s.len
        /\ k = i + s.len + t.len
    BY DEF Adjoin
  <1>3. ASSUME NEW x
        PROVE  /\ x \in Extent(s) <=> (x \in Int /\ s.len > 0 /\ i <= x /\ x < i + s.len)
               /\ x \in Extent(t) <=> (x \in Int /\ t.len > 0 /\ i + s.len <= x /\ x < i + s.len + t.len)
               /\ x \in i..(k - 1) <=> (x \in Int /\ i <= x /\ x < k)
    BY <1>1, <1>2 DEF Extent
  <1>4. \A x : (x \in Extent(s) \/ x \in Extent(t)) <=> x \in i..(k - 1)
    BY <1>1, <1>2, <1>3
  <1>5. Extent(s) \cap Extent(t) = {}
    BY <1>1, <1>3
  <1>6. QED
    BY <1>4, <1>5

\* An empty slice has no byte.
LEMMA EmptyExtent ==
  ASSUME NEW s \in Slices, s.len = 0
  PROVE  Extent(s) = {}
BY DEF Slices, Extent

\* The bytes from the opcode on are those of the address form, of the
\* displacement and of the immediate.
LEMMA ReadOperands ==
  Inv /\ Attempts /\ ReadSoFar /\ Unaddressed => OperandBytes
  <1> SUFFICES ASSUME Inv, ReadSoFar, Succeeded, attempt = 1
               PROVE  OperandBytes
    BY DEF OperandBytes
  <1> DEFINE o == Opened(buf, dest, state)
             k == state.insn_size
             disp == dest.disp
             imm  == dest.imm
             h    == HeaderLength(dest.asz, state.modrm0)
  <1>1. /\ Filled(buf, dsz, p, dest, state, k)
        /\ dest \in Icodes /\ state \in DecoderStates
    BY ReadReturned
  <1>2. disp \in Slices /\ imm \in Slices /\ o \in Nat /\ state.modrm_offset \in Nat
    BY <1>1, OpenedType DEF Icodes, DecoderStates
  <1>3. Adjoin(disp, imm, o, k) \/ Adjoin(imm, disp, o, k)
    BY <1>1 DEF Filled
  <1>4. /\ state.disp_offset # NoOffset => disp.at = state.disp_offset
        /\ state.imm1_offset # NoOffset => imm.at = state.imm1_offset
        /\ state.imm2_offset # NoOffset => disp.at = state.imm2_offset
    BY <1>1 DEF Filled
  <1>5. /\ state.has_modrm => /\ state.modrm_offset = AfterOpcode
                              /\ o = state.modrm_offset + h
        /\ ~state.has_modrm => o = AfterOpcode
    <2>1. AfterOpcode = state.prefix_size + OpcodeLength(buf, state.prefix_size)
      BY <1>1, AfterOpcodeIs
    <2>2. state.has_modrm => AddressRead(buf, dsz, p, dest, state)
      BY <1>1 DEF Filled
    <2>3. QED
      BY <2>1, <2>2 DEF AddressRead, Opened
  <1>6. AfterOpcode \in Nat /\ (state.has_modrm => h \in 1..2)
    BY <1>2, <1>5 DEF HeaderLength
  <1>7. AddressBytes = AfterOpcode..(o - 1)
    <2>1. CASE ~state.has_modrm
      BY <1>2, <1>5, <2>1 DEF AddressBytes
    <2>2. CASE state.has_modrm /\ h = 2
      <3>1. AddressBytes = {AfterOpcode, AfterOpcode + 1}
        BY <1>5, <2>2 DEF AddressBytes, HeaderLength
      <3>2. QED
        BY <1>5, <1>6, <2>2, <3>1
    <2>3. CASE state.has_modrm /\ h = 1
      <3>1. AddressBytes = {AfterOpcode}
        BY <1>5, <2>3 DEF AddressBytes, HeaderLength
      <3>2. QED
        BY <1>5, <1>6, <2>3, <3>1
    <2>4. QED
      BY <1>6, <2>1, <2>2, <2>3
  <1>8. AfterOpcode <= o /\ o <= k /\ k \in Nat
    <2>1. AfterOpcode <= o
      BY <1>2, <1>5, <1>6
    <2>2. o <= k /\ k \in Nat
      BY <1>2, <1>3 DEF Adjoin, Slices
    <2>3. QED
      BY <2>1, <2>2
  <1> HIDE DEF o, k, disp, imm, h
  <1>9. /\ \A x : (x \in Extent(disp) \/ x \in Extent(imm)) <=> x \in o..(k - 1)
        /\ Extent(disp) \cap Extent(imm) = {}
    <2>1. CASE Adjoin(disp, imm, o, k)
      BY <1>2, <2>1, AdjoinCover
    <2>2. CASE Adjoin(imm, disp, o, k)
      <3>1. /\ \A x : (x \in Extent(imm) \/ x \in Extent(disp)) <=> x \in o..(k - 1)
            /\ Extent(imm) \cap Extent(disp) = {}
        BY <1>2, <2>2, AdjoinCover
      <3>2. QED
        BY <3>1
    <2>3. QED
      BY <1>3, <2>1, <2>2
  <1>10. OperandSlices = {s \in {disp, imm} : s.len > 0}
    BY DEF OperandSlices, disp, imm
  <1>11. UNION {Extent(s) : s \in OperandSlices} = Extent(disp) \cup Extent(imm)
    <2>1. (~(disp.len > 0) => Extent(disp) = {}) /\ (~(imm.len > 0) => Extent(imm) = {})
      BY <1>2, EmptyExtent DEF Slices
    <2>2. QED
      BY <1>10, <2>1
  <1>12. (UNION {Extent(s) : s \in OperandSlices}) \cup AddressBytes = AfterOpcode..(k - 1)
    <2>1. \A x : x \in AfterOpcode..(k - 1) <=> x \in AfterOpcode..(o - 1) \/ x \in o..(k - 1)
      BY <1>2, <1>6, <1>8
    <2> DEFINE U == UNION {Extent(s) : s \in OperandSlices}
               B == AfterOpcode..(k - 1)
    <2>2. \A x : x \in U <=> x \in o..(k - 1)
      BY <1>9, <1>11
    <2> HIDE DEF U
    <2>3. \A x : x \in U \cup AddressBytes <=> x \in B
      BY <1>7, <2>1, <2>2
    <2> HIDE DEF B
    <2>4. U \cup AddressBytes = B
      BY <2>3
    <2>5. QED
      BY <2>4 DEF U, B
  <1>13. \A s \in OperandSlices : Extent(s) \cap AddressBytes = {}
    <2>1. ASSUME NEW s \in OperandSlices, NEW x \in Extent(s)
          PROVE  x \notin AddressBytes
      <3>1. x \in o..(k - 1)
        BY <1>9, <1>10, <2>1
      <3>2. QED
        BY <1>2, <1>6, <1>7, <1>8, <3>1
    <2>2. QED
      BY <2>1
  <1>14. QED
    BY <1>4, <1>9, <1>12, <1>13 DEF OperandBytes, disp, imm, k

\* What an attempt has read of an instruction is right at every moment.
THEOREM ReadingAlways == Spec => [](Inv /\ Attempts /\ ReadSoFar /\ Unaddressed)
  <1>1. Spec => [](Inv /\ Attempts)
    BY AttemptsAlways
  <1>2. Init => ReadSoFar /\ Unaddressed
    BY ReadInit
  <1>3. Inv /\ Attempts /\ ReadSoFar /\ Unaddressed /\ [Next]_vars => (ReadSoFar /\ Unaddressed)'
    BY ReadSoFarStep, UnaddressedStep
  <1>4. QED
    BY <1>1, <1>2, <1>3, PTL DEF Spec

\* LOCK survives only on an instruction that may be locked and whose first
\* operand is in memory.
THEOREM LockAlwaysOnMemory == Spec => []LockOnMemory
  <1>1. Inv /\ Attempts /\ ReadSoFar /\ Unaddressed => LockOnMemory
    BY ReadLock
  <1>2. QED
    BY <1>1, ReadingAlways, PTL

\* The registers and the displacement of a memory operand are those its ModRM
\* and SIB bytes stand for, and the rest of the instruction comes behind them.
THEOREM AddressesAlwaysRight == Spec => []EffectiveAddress
  <1>1. Inv /\ Attempts /\ ReadSoFar /\ Unaddressed => EffectiveAddress
    BY ReadAddress
  <1>2. QED
    BY <1>1, ReadingAlways, PTL

\* No byte behind the opcode is skipped, read twice or lost.
THEOREM OperandsAlwaysAdjoin == Spec => []OperandBytes
  <1>1. Inv /\ Attempts /\ ReadSoFar /\ Unaddressed => OperandBytes
    BY ReadOperands
  <1>2. QED
    BY <1>1, ReadingAlways, PTL
=============================================================================
