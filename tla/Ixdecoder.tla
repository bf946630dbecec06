----------------------------- MODULE Ixdecoder -----------------------------
(***************************************************************************)
(* The instruction decoder, x86core/ixdecoder.c: one call of               *)
(* crudasm_intel_decode on a buffer.  do_decode collects the prefixes,     *)
(* with at most one FWAIT among them, and calls try_decode, which walks    *)
(* the generated decoder table, reads ModRM, SIB, displacement and         *)
(* immediates, and checks LOCK.  When an instruction after an FWAIT does   *)
(* not decode, or cannot take one, a second attempt starts one byte back.  *)
(*                                                                         *)
(* Table and Encodings stand for the generated tables.  The value of an    *)
(* immediate or a displacement is represented by its slice of the buffer.  *)
(***************************************************************************)
EXTENDS ModRM, Sequences

CONSTANTS
  Buffers,      \* the byte sequences a caller may pass
  Modes,        \* the values of dsz a caller may pass: 0, 1, 2
  Table,        \* decoder nodes: [type, kids], or [type |-> 0, encoding]
  Root,         \* the node of decoder_table[0]
  Encodings,    \* the encoding table, with the tags of each instruction
  Invalid,      \* encoding 0xffffff in a leaf, 0xffffffff in an icode
  MaxBytes,     \* 30: bytes of the buffer the decoder looks at
  MaxInsn       \* 15: longest instruction without an FWAIT

\* The fetcher counts the bytes left in a U1, and insn_size has five bits.
ASSUME BytesAssumption == MaxBytes \in 1..31 /\ MaxInsn \in 1..MaxBytes

ASSUME BuffersAssumption == \A b \in Buffers : b \in Seq(Byte)

ASSUME ModesAssumption == Modes \subseteq 0..2

\* The generator emits a root that is indexed by the opcode byte, so no
\* instruction is recognised before a byte has been accepted; the numbers of
\* kids are those decoder_table has room for.
NodeKids(t) == CASE t = 1 -> Byte    [] t = 2 -> 0..5  [] t = 3 -> 0..31
                 [] t = 6 -> 0..1    [] OTHER -> 0..7

ASSUME TableAssumption ==
  /\ Root \in DOMAIN Table /\ Table[Root].type = 1
  /\ \A n \in DOMAIN Table :
       \/ Table[n].type = 0 /\ Table[n].encoding \in DOMAIN Encodings \cup {Invalid}
       \/ /\ Table[n].type \in 1..6
          /\ Table[n].kids \in [NodeKids(Table[n].type) -> DOMAIN Table]

\* Kinds of arguments; those of the same kind and class of registers that
\* get_arguments does not tell apart are one here, but for the printer
\* mem_address is memory of no or of one size (lea, fxsave and their like),
\* and mem_ea_seg a far pointer in memory.
ImmTypes == {"imm_implict", "imm_1st", "imm_2nd", "imm_both"}
MemTypes == {"mem_fulldisp", "mem_ea", "mem_ea_seg", "mem_address", "mem_implict"}
RegTypes == {"reg_gr", "reg_sr", "reg_other"}
EaTypes  == {"mem_ea", "mem_ea_seg", "mem_address"}
ArgTypes == {"void"} \cup ImmTypes \cup MemTypes \cup RegTypes

\* The values of an argument that ModRM decides.
DefaultValue == 128
RegOrMem     == 129

\* A negative size is one that depends on the mode and the prefixes.
Args == [type : ArgTypes, size : Int, value : Byte]

ASSUME EncodingsAssumption ==
  /\ Invalid \notin DOMAIN Encodings
  /\ \A e \in DOMAIN Encodings :
       /\ Encodings[e].regop \in BOOLEAN
       /\ Encodings[e].args \in [1..4 -> Args]

VARIABLES
  dsz, buf,       \* the arguments of the call
  pc,             \* where in do_decode / try_decode the call is
  fetcher,        \* do_decode's position: [left, next]
  fetcher_copy,   \* the position of the current try_decode
  p,              \* decode_prefix_state_t
  got_fwait,      \* an FWAIT was accepted among the prefixes
  attempt,        \* 1, or 2 once do_decode has gone back one byte
  node,           \* the table node try_decode has reached
  argi,           \* the argument get_arguments is at
  dest,           \* ix_icode_t
  state,          \* ix_decoder_state_t
  status          \* the result of the last try_decode, or of the call

inputs == <<dsz, buf>>
vars == <<dsz, buf, pc, fetcher, fetcher_copy, p, got_fwait, attempt, node,
          argi, dest, state, status>>

-----------------------------------------------------------------------------
(* Bytes the decoder tests for. *)

FWAIT == 155    \* 0x9b
NOP   == 144    \* 0x90
LOCK  == 240    \* 0xf0
OP66  == 102
OP67  == 103

IsSegPrefix(c) == c \in {38, 46, 54, 62, 100, 101}   \* 26 2e 36 3e 64 65
IsRep(c)       == c \in {242, 243}
IsPrefix(c)    == IsSegPrefix(c) \/ IsRep(c) \/ c \in {LOCK, OP66, OP67}
IsRex(c)       == c \in 64..79

\* 001ss110 names segment ss, 0110010x names FS or GS by its low bits.
SegOf(c) == IF c < 100 THEN RegField(c) % 4 ELSE c % 8

-----------------------------------------------------------------------------
(* What the generated tables hold.  A generator may be given any script;   *)
(* these are the facts about its output that the decoder relies on.        *)

Two   == Table[Root].kids[15]     \* after 0f
Three == Table[Two].kids[56]      \* after 0f 38

\* Only 0f and 0f 38 are followed by another byte of the opcode.
ASSUME OpcodeAssumption ==
  /\ Table[Two].type = 1 /\ Table[Three].type = 1
  /\ Root # Two /\ Root # Three /\ Two # Three
  /\ \A n \in DOMAIN Table : Table[n].type # 0 =>
       \A i \in DOMAIN Table[n].kids :
         Table[Table[n].kids[i]].type = 1 => <<n, i>> \in {<<Root, 15>>, <<Two, 56>>}

\* A prefix is not an opcode; a REX prefix is one outside of 64-bit mode only,
\* and an FWAIT is an instruction without operands.
ASSUME PrefixAssumption ==
  \A c \in Byte :
    LET n == Table[Table[Root].kids[c]]
    IN  /\ IsPrefix(c) => n.type = 0 /\ n.encoding = Invalid
        /\ IsRex(c) => n.type = 0 /\ (n.encoding = Invalid
                                    \/ "no64" \in Encodings[n.encoding].etags)
        /\ c = FWAIT => /\ n.type = 0 /\ n.encoding # Invalid
                        /\ ~Encodings[n.encoding].regop
                        /\ \A i \in 1..4 : Encodings[n.encoding].args[i].type = "void"

\* An instruction without a ModRM byte is known by its opcode alone, one whose
\* operand must be in memory by the upper bits of ModRM.
ASSUME LeafAssumption ==
  \A n \in DOMAIN Table : Table[n].type # 0 =>
    \A i \in DOMAIN Table[n].kids :
      LET leaf == Table[Table[n].kids[i]]
          e    == Encodings[leaf.encoding]
      IN  (leaf.type = 0 /\ leaf.encoding # Invalid) =>
            /\ ~e.regop => Table[n].type = 1
            /\ (\E k \in 1..4 : e.args[k].type \in EaTypes) => Table[n].type = 3 /\ i < 24

Lockable(e) == e.itags \cap {"lockable", "lock_always"} # {}

\* An immediate of eight bytes is in the instruction as such.
Wide(e) == "imm64_disp" \in e.etags /\ "sx_byte" \notin e.etags

\* The fields of the icode that get_arguments may fill for an argument.
FieldsOf(e, a) ==
  CASE a.type = "mem_fulldisp" -> {"disp", "imm"}
    [] a.type = "imm_implict"  -> {"imm"}
    [] a.type = "imm_2nd"      -> {"disp"}
    [] a.type \in {"imm_1st", "imm_both"} ->
         IF Wide(e) THEN {"imm", "disp"} ELSE {"imm"}
    [] OTHER -> {}

\* Operands do not share a field, nor one with the displacement of an address
\* form, and a second immediate is not wide; what is register or memory by
\* ModRM is said to be a register; and only memory that ModRM addresses can
\* be locked.
ASSUME OperandsAssumption ==
  \A e \in {Encodings[x] : x \in DOMAIN Encodings} :
    /\ \A i, j \in 1..4 : i # j => FieldsOf(e, e.args[i]) \cap FieldsOf(e, e.args[j]) = {}
    /\ \A i \in 1..4 :
         /\ e.regop => "disp" \notin FieldsOf(e, e.args[i])
         /\ e.args[i].type = "imm_2nd" => ~Wide(e)
         /\ e.args[i].value = RegOrMem => e.regop /\ e.args[i].type \in RegTypes
    /\ Lockable(e) => e.args[1].type \notin {"mem_fulldisp", "mem_implict"}

-----------------------------------------------------------------------------
(* struct code_fetcher_t *)

num_bytes_uncapped == Len(buf)
num_bytes == IF Len(buf) > MaxBytes THEN MaxBytes ELSE Len(buf)

At(f)         == buf[f.next + 1]
Has(f, n)     == f.left >= n
Advance(f, n) == [left |-> f.left - n, next |-> f.next + n]
GoBack_keep_left(f) == [left |-> f.left, next |-> f.next - 1]
GoBack(f)     == [left |-> f.left + 1, next |-> f.next - 1]
Drained(f)    == Advance(f, f.left)

\* Where a value came from; offsets are 255 while there is none.
NoOffset == 255
NoSlice  == [at |-> NoOffset, len |-> 0]
Slice(f, n) == [at |-> f.next, len |-> n]

-----------------------------------------------------------------------------
(* Initial values *)

NoPrefix == [lockrep |-> 0, op66 |-> FALSE, op67 |-> FALSE,
             rex_w |-> 0, rex_r |-> 0, rex_x |-> 0, rex_b |-> 0,
             sreg |-> NoSeg, rex_used |-> FALSE, wait_used |-> FALSE]

VoidArg == [type |-> "void", size |-> 0, value |-> 128]

NewIcode(d) ==
  [encoding |-> Invalid, imm |-> NoSlice, disp |-> NoSlice,
   ea |-> [base |-> NoReg, index |-> NoReg, scale |-> 0, sreg |-> NoSeg,
           disp8 |-> FALSE],
   has_disp |-> FALSE, lockrep |-> 0, osz |-> d, asz |-> d, sx |-> FALSE,
   rip_relative |-> FALSE, imm64 |-> FALSE, fwait |-> 0, is_nop |-> FALSE,
   rex_used |-> FALSE, args |-> [i \in 1..4 |-> VoidArg]]

NewState ==
  [rex_used |-> FALSE, wait_used |-> FALSE, insn_size |-> 0,
   has_modrm |-> FALSE, modrm0 |-> 0, opcode0 |-> 0,
   disp_offset |-> NoOffset, imm1_offset |-> NoOffset,
   imm2_offset |-> NoOffset, modrm_offset |-> NoOffset, prefix_size |-> 0]

Init ==
  /\ dsz \in Modes
  /\ buf \in Buffers
  /\ fetcher = [left |-> num_bytes, next |-> 0]
  /\ fetcher_copy = fetcher
  /\ p = NoPrefix
  /\ got_fwait = FALSE
  /\ attempt = 1
  /\ node = Root
  /\ argi = 1
  /\ dest = NewIcode(dsz)
  /\ state = NewState
  /\ IF num_bytes = 0
     THEN pc = "done" /\ status = "tried to decode a 0-byte buffer"
     ELSE pc = "prefix" /\ status = "none"

-----------------------------------------------------------------------------
(* do_decode: prefixes, REX, FWAIT *)

AddPrefix_last_rep(q, c) ==
  IF IsRep(c) THEN [q EXCEPT !.lockrep = c % 4]
  ELSE CASE IsSegPrefix(c) -> [q EXCEPT !.sreg = SegOf(c)]
         [] c = OP66 -> [q EXCEPT !.op66 = TRUE]
         [] c = OP67 -> [q EXCEPT !.op67 = TRUE]
         [] c = LOCK -> [q EXCEPT !.lockrep = 1]

AddPrefix(q, c) ==
  CASE IsSegPrefix(c) -> [q EXCEPT !.sreg = SegOf(c)]
    [] c = OP66       -> [q EXCEPT !.op66 = TRUE]
    [] c = OP67       -> [q EXCEPT !.op67 = TRUE]
    [] c = LOCK       -> [q EXCEPT !.lockrep = 1]
    [] IsRep(c)       -> [q EXCEPT !.lockrep = IF @ = 0 THEN c % 4 ELSE @]

Accept == fetcher' = Advance(fetcher, 1)

TakePrefix_peek ==
  /\ pc = "prefix"
  /\ Has(fetcher, 1) /\ IsPrefix(At(fetcher))
  /\ p' = AddPrefix(p, At(fetcher))
  /\ UNCHANGED <<inputs, pc, fetcher, fetcher_copy, got_fwait, attempt, node,
                 argi, dest, state, status>>
TakePrefix ==
  /\ pc = "prefix"
  /\ Has(fetcher, 1) /\ IsPrefix(At(fetcher))
  /\ p' = AddPrefix(p, At(fetcher))
  /\ Accept
  /\ UNCHANGED <<inputs, pc, fetcher_copy, got_fwait, attempt, node, argi,
                 dest, state, status>>

\* The buffer ends among the prefixes and there is no FWAIT to fall back on.
LimitExceeded ==
  /\ pc = "prefix"
  /\ ~Has(fetcher, 1) /\ ~got_fwait
  /\ status' = "limit exceeded"
  /\ pc' = "done"
  /\ UNCHANGED <<inputs, fetcher, fetcher_copy, p, got_fwait, attempt, node,
                 argi, dest, state>>

\* The prefixes are over, or the buffer is after an FWAIT: the prefixes that
\* followed the FWAIT are dropped.
EndPrefixes ==
  /\ pc = "prefix"
  /\ \/ Has(fetcher, 1) /\ ~IsPrefix(At(fetcher)) /\ p' = p
     \/ ~Has(fetcher, 1) /\ got_fwait /\ p' = NoPrefix
  /\ pc' = "rex"
  /\ UNCHANGED <<inputs, fetcher, fetcher_copy, got_fwait, attempt, node,
                 argi, dest, state, status>>

RexHere == dsz = 2 /\ Has(fetcher, 1) /\ IsRex(At(fetcher))

TakeRex ==
  /\ pc = "rex"
  /\ RexHere
  /\ LET c == At(fetcher)
     IN  p' = [p EXCEPT !.rex_used = TRUE,
                        !.rex_w = (c \div 8) % 2, !.rex_r = (c \div 4) % 2,
                        !.rex_x = (c \div 2) % 2, !.rex_b = c % 2]
  /\ Accept
  /\ pc' = "fwait"
  /\ UNCHANGED <<inputs, fetcher_copy, got_fwait, attempt, node, argi, dest,
                 state, status>>

NoRex ==
  /\ pc = "rex"
  /\ ~RexHere
  /\ pc' = "fwait"
  /\ UNCHANGED <<inputs, fetcher, fetcher_copy, p, got_fwait, attempt, node,
                 argi, dest, state, status>>

FwaitHere == Has(fetcher, 1) /\ ~got_fwait /\ At(fetcher) = FWAIT

\* What came before the FWAIT is forgotten: prefixes are collected anew.
TakeFwait ==
  /\ pc = "fwait"
  /\ FwaitHere
  /\ got_fwait' = TRUE
  /\ p' = NoPrefix
  /\ Accept
  /\ pc' = "prefix"
  /\ UNCHANGED <<inputs, fetcher_copy, attempt, node, argi, dest, state,
                 status>>

NoFwait ==
  /\ pc = "fwait"
  /\ ~FwaitHere
  /\ p' = [p EXCEPT !.wait_used = got_fwait]
  /\ fetcher_copy' = fetcher
  /\ pc' = "try"
  /\ UNCHANGED <<inputs, fetcher, got_fwait, attempt, node, argi, dest,
                 state, status>>

-----------------------------------------------------------------------------
(* try_decode: entry and table walk *)

\* try_decode returns the message msg.
Fail(msg) == status' = msg /\ pc' = "judge"

\* The variables that belong to do_decode, which try_decode leaves alone.
caller == <<dsz, buf, fetcher, p, got_fwait, attempt>>

EnterState ==
  [state EXCEPT !.prefix_size = fetcher_copy.next, !.rex_used = p.rex_used,
                !.wait_used = p.wait_used, !.has_modrm = FALSE,
                !.disp_offset = NoOffset, !.imm1_offset = NoOffset,
                !.imm2_offset = NoOffset, !.modrm_offset = NoOffset]

\* An opcode of two bytes is numbered from 256, after its escape byte 0x0f.
TwoByte == At(fetcher_copy) = 15
Opcode0 == IF TwoByte THEN 256 + buf[fetcher_copy.next + 2]
                      ELSE At(fetcher_copy)

AddressSize == CASE dsz = 0 -> IF p.op67 THEN 1 ELSE 0
                 [] dsz = 1 -> IF p.op67 THEN 0 ELSE 1
                 [] dsz = 2 -> IF p.op67 THEN 1 ELSE 2

EnterTry ==
  /\ pc = "try"
  /\ Has(fetcher_copy, 1) /\ (TwoByte => Has(fetcher_copy, 2))
  /\ state' = [EnterState EXCEPT !.opcode0 = Opcode0, !.modrm0 = 0]
  /\ dest' = [dest EXCEPT !.asz = AddressSize, !.lockrep = p.lockrep,
                          !.ea = [@ EXCEPT !.sreg = p.sreg, !.scale = 0,
                                           !.disp8 = FALSE],
                          !.rip_relative = FALSE, !.is_nop = (Opcode0 = NOP),
                          !.rex_used = p.rex_used]
  /\ node' = Root
  /\ pc' = "walk"
  /\ UNCHANGED <<caller, fetcher_copy, argi, status>>

\* There is no opcode byte, or only the first byte of a two-byte opcode.
EnterTryTooShort ==
  /\ pc = "try"
  /\ \/ /\ ~Has(fetcher_copy, 1)
        /\ state' = EnterState
        /\ Fail("limit exceeded (zero-case)")
     \/ /\ Has(fetcher_copy, 1) /\ TwoByte /\ ~Has(fetcher_copy, 2)
        /\ state' = [EnterState EXCEPT !.opcode0 = At(fetcher_copy),
                                       !.modrm0 = 0]
        /\ Fail("limit exceeded (2)")
  /\ UNCHANGED <<caller, fetcher_copy, node, argi, dest>>

\* Nodes of type 1 are indexed by the next byte of the opcode.
WalkByte ==
  /\ pc = "walk" /\ Table[node].type = 1
  /\ IF Has(fetcher_copy, 1)
     THEN /\ node' = Table[node].kids[At(fetcher_copy)]
          /\ fetcher_copy' = Advance(fetcher_copy, 1)
          /\ UNCHANGED <<pc, status>>
     ELSE Fail("limit exceeded (3)") /\ UNCHANGED <<node, fetcher_copy>>
  /\ UNCHANGED <<caller, argi, dest, state>>

\* Nodes of type 6 tell 64-bit mode from the others, nodes of type 2 the
\* mandatory prefixes 66, f2 and f3 of a two-byte opcode.
WalkMode ==
  /\ pc = "walk"
  /\ \/ /\ Table[node].type = 6
        /\ node' = Table[node].kids[IF dsz = 2 THEN 1 ELSE 0]
     \/ /\ Table[node].type = 2
        /\ LET rep == IF p.lockrep \in {2, 3} THEN p.lockrep - 1 ELSE 0
           IN  node' = Table[node].kids[(IF p.op66 THEN 1 ELSE 0) + 2 * rep]
  /\ UNCHANGED <<caller, pc, fetcher_copy, argi, dest, state, status>>

-----------------------------------------------------------------------------
(* get_modrm *)

\* How much of the address form at f is there: not even its ModRM byte; that
\* byte, and nothing more is wanted or the SIB byte is missing; all of it but
\* perhaps the displacement.
ModrmHeader(f, asz) == IF HasSib(At(f), dsz, asz) THEN 2 ELSE 1
ModrmStage(f, asz) ==
  IF ~Has(f, 1) THEN "none"
  ELSE IF At(f) < 192 /\ Has(f, ModrmHeader(f, asz)) THEN "address" ELSE "byte"

ModrmFetcher(f, asz, disp) ==
  LET after == Advance(f, ModrmHeader(f, asz))
  IN  CASE ModrmStage(f, asz) = "none" -> f
        [] ModrmStage(f, asz) = "byte" -> Advance(f, 1)
        [] OTHER -> IF Has(after, disp) THEN Advance(after, disp)
                                        ELSE Drained(after)

\* The icode once the address m of a memory operand is known, and once its
\* displacement is read as well.
AddressIcode(ic, c, m, slice) ==
  [ic EXCEPT !.ea = m.ea,
             !.rip_relative = ic.rip_relative \/ (dsz = 2 /\ RipRelative(c)),
             !.has_disp = ic.has_disp \/ m.disp > 0,
             !.disp = slice]

DefaultSegment(ea) ==
  IF p.sreg = NoSeg /\ UsesStackSeg(ea.base) THEN StackSeg ELSE ea.sreg

WholeIcode(ic, c, m, slice) ==
  LET ea == [m.ea EXCEPT !.disp8 = m.ea.disp8 \/ m.disp = 1,
                         !.sreg = DefaultSegment(m.ea)]
  IN  AddressIcode(ic, c, [m EXCEPT !.ea = ea], slice)

\* The effects of reading a ModRM byte and what follows it at f: whether all
\* of it was there, the fetcher afterwards, and the icode and state, of which
\* a read that is cut short has already written a part.
get_modrm(f, ic, st) ==
  LET c     == At(f)
      sib   == IF HasSib(c, dsz, ic.asz) THEN buf[f.next + 2] ELSE 0
      stage == ModrmStage(f, ic.asz)
      after == Advance(f, ModrmHeader(f, ic.asz))
      m     == decode_modrm(ic.ea, c, sib, dsz, ic.asz, p.rex_x, p.rex_b)
      whole == Has(after, m.disp)
      slice == IF m.disp = 0 THEN NoSlice
               ELSE Slice(after, IF whole THEN m.disp ELSE after.left)
      st0   == [st EXCEPT !.modrm_offset = f.next]
      st1   == [st0 EXCEPT !.modrm0 = c, !.has_modrm = TRUE]
  IN  [ok |-> (stage = "byte" /\ c >= 192) \/ (stage = "address" /\ whole),
       f  |-> ModrmFetcher(f, ic.asz, m.disp),
       ic |-> CASE stage = "none"    -> ic
                [] stage = "byte"    -> [ic EXCEPT !.disp = NoSlice]
                [] stage = "address" -> IF whole THEN WholeIcode(ic, c, m, slice)
                                        ELSE AddressIcode(ic, c, m, slice),
       st |-> CASE stage = "none"    -> st0
                [] stage = "byte"    -> st1
                [] stage = "address" -> IF m.disp = 0 THEN st1
                                        ELSE [st1 EXCEPT !.disp_offset = after.next]]

\* Nodes of type 3, 4 and 5 look at the ModRM byte, which is read once.
ModRMIndex(type, c) == CASE type = 3 -> c \div 8
                         [] type = 4 -> RegField(c)
                         [] type = 5 -> Rm(c)

WalkModRM ==
  /\ pc = "walk" /\ Table[node].type \in {3, 4, 5}
  /\ LET r == IF state.has_modrm
              THEN [ok |-> TRUE, f |-> fetcher_copy, ic |-> dest, st |-> state]
              ELSE get_modrm(fetcher_copy, dest, state)
     IN  /\ fetcher_copy' = r.f
         /\ dest' = r.ic
         /\ state' = r.st
         /\ IF r.ok
            THEN /\ node' = Table[node].kids[
                              ModRMIndex(Table[node].type, r.st.modrm0)]
                 /\ UNCHANGED <<pc, status>>
            ELSE Fail("limit exceeded (4)") /\ UNCHANGED node
  /\ UNCHANGED <<caller, argi>>

-----------------------------------------------------------------------------
(* try_decode: the encoding, operand size, arguments, LOCK *)

InvalidOpcode ==
  /\ pc = "walk" /\ Table[node].type = 0 /\ Table[node].encoding = Invalid
  /\ Fail("invalid opcode")
  /\ UNCHANGED <<caller, fetcher_copy, node, argi, dest, state>>

Encoding == Encodings[dest.encoding]

\* REX.W, or an instruction that is 64 bits wide unless 66 says otherwise,
\* selects 64-bit operands; 66 is ignored when REX.W is there.
OperandSize(e) ==
  LET is64 == "is64" \in e.etags
      narrow == IF p.op66 THEN 0 ELSE 1
  IN  CASE dsz = 0 -> IF p.op66 THEN 1 ELSE 0
        [] dsz = 1 -> narrow
        [] dsz = 2 -> IF "no_rex_w" \notin e.etags /\ (p.rex_w = 1 \/ is64)
                      THEN IF p.op66 /\ is64 /\ p.rex_w = 0 THEN 0 ELSE 2
                      ELSE narrow

\* A leaf: the encoding is known, an instruction with a ModRM byte that the
\* table did not need reads it now, and the arguments are copied.
Leaf ==
  /\ pc = "walk" /\ Table[node].type = 0 /\ Table[node].encoding # Invalid
  /\ LET e  == Encodings[Table[node].encoding]
         ic == [dest EXCEPT !.encoding = Table[node].encoding]
         r  == IF state.has_modrm \/ ~e.regop
               THEN [ok |-> TRUE, f |-> fetcher_copy, ic |-> ic, st |-> state]
               ELSE get_modrm(fetcher_copy, ic, state)
     IN  IF dsz = 2 /\ "no64" \in e.etags
         THEN /\ Fail("opcode is invalid in 64bit mode")
              /\ dest' = ic
              /\ UNCHANGED <<fetcher_copy, state, argi>>
         ELSE /\ fetcher_copy' = r.f
              /\ state' = r.st
              /\ IF r.ok
                 THEN /\ dest' = [r.ic EXCEPT !.osz = OperandSize(e),
                                              !.imm64 = FALSE, !.sx = FALSE,
                                              !.args = e.args]
                      /\ argi' = 1
                      /\ pc' = "args"
                      /\ UNCHANGED status
                 ELSE /\ Fail("limit exceeded (6)")
                      /\ dest' = r.ic
                      /\ UNCHANGED argi
  /\ UNCHANGED <<caller, node>>

\* 2 << sz: the bytes an operand or address size of 0, 1 or 2 stands for.
SizeOf(sz) == <<2, 4, 8>>[sz + 1]

intel_specialize_arg_size(size) ==
  LET osz == dest.osz IN
  CASE size >= 0 -> size
    [] size = -1 -> SizeOf(osz)
    [] size = -2 -> SizeOf(dest.asz)
    [] size = -3 -> IF dsz = 2 THEN 8 ELSE 4
    [] size = -4 -> IF osz = 2 THEN 4 ELSE SizeOf(osz)
    [] size = -5 -> IF osz = 0 THEN 4 ELSE SizeOf(osz)
    [] size = -6 -> IF osz = 2 THEN 16 ELSE 8
    [] size = -7 -> IF osz = 2 THEN 8 ELSE 2
    [] size = -8 -> IF dsz = 2 THEN 8 ELSE SizeOf(osz)
    [] OTHER     -> 0

\* The argument as it stands after its size is specialized and a "register
\* or memory" operand has been settled by the ModRM byte.
Arg ==
  LET a == dest.args[argi]
      size == intel_specialize_arg_size(a.size)
  IN  IF a.value # RegOrMem THEN [a EXCEPT !.size = size]
      ELSE [type  |-> IF state.modrm0 < 192 THEN "mem_ea" ELSE a.type,
            size  |-> size,
            value |-> DefaultValue]

AtArg == pc = "args" /\ argi \in 1..4 /\ dest.args[argi].type # "void"
NextArg == argi' = argi + 1 /\ UNCHANGED <<pc, status>>

UnsupportedArgument ==
  /\ AtArg /\ Arg.size <= 0
  /\ dest' = [dest EXCEPT !.args[argi].size = Arg.size]
  /\ Fail("Unsupported argument encountered")
  /\ UNCHANGED <<caller, fetcher_copy, node, argi, state>>

\* Memory at an absolute offset: asz bytes, of which the high half of eight
\* goes to the immediate.
FullDispArg ==
  /\ AtArg /\ Arg.size > 0 /\ Arg.type = "mem_fulldisp"
  /\ LET n == SizeOf(dest.asz)
         f == fetcher_copy
         here == [dest EXCEPT !.has_disp = TRUE, !.args[argi] = Arg]
     IN  /\ state' = [state EXCEPT !.disp_offset = f.next]
         /\ IF Has(f, n)
            THEN /\ fetcher_copy' = Advance(f, n)
                 /\ dest' = [here EXCEPT
                      !.disp = Slice(f, IF n = 8 THEN 4 ELSE n),
                      !.imm = IF n = 8 THEN Slice(Advance(f, 4), 4) ELSE @]
                 /\ NextArg
            ELSE /\ fetcher_copy' = Drained(f)
                 /\ dest' = here
                 /\ Fail("limit exceeded (7)") /\ UNCHANGED argi
  /\ UNCHANGED <<caller, node>>

SxByte == "sx_byte" \in Encoding.etags
Imm64  == Arg.size = 8 /\ "imm64_disp" \in Encoding.etags /\ ~SxByte

\* An implicit immediate takes its value from the table, a fetched one its
\* bytes from the buffer; imm_2nd is kept where the displacement would be.
ImplicitImmArg ==
  /\ AtArg /\ Arg.size > 0 /\ Arg.type = "imm_implict"
  /\ dest' = [dest EXCEPT !.args[argi] = Arg, !.imm = NoSlice]
  /\ NextArg
  /\ UNCHANGED <<caller, fetcher_copy, node, state>>

\* Bytes an immediate has in the instruction, 0 when the encoding table is
\* inconsistent about it.
ImmBytes ==
  CASE SxByte -> IF Arg.size = 1 THEN 0 ELSE 1
    [] Imm64  -> 8
    [] OTHER  -> CASE Arg.size # 8 -> Arg.size
                   [] Arg.size = 8 /\ "imm64_sx32" \in Encoding.etags -> 4
                   [] OTHER -> 0

SecondImm_never == FALSE
SecondImm == Arg.type = "imm_2nd"

ImmArg ==
  /\ AtArg /\ Arg.size > 0 /\ Arg.type \in ImmTypes \ {"imm_implict"}
  /\ LET f      == fetcher_copy
         n      == ImmBytes
         here   == [dest EXCEPT !.args[argi] = Arg,
                                !.sx = IF SxByte /\ n = 1 THEN TRUE ELSE @]
     IN  /\ state' = IF SecondImm THEN [state EXCEPT !.imm2_offset = f.next]
                     ELSE [state EXCEPT !.imm1_offset = f.next]
         /\ IF n > 0 /\ Has(f, n)
            THEN /\ fetcher_copy' = Advance(f, n)
                 /\ dest' =
                      CASE Imm64 -> [here EXCEPT !.imm = Slice(f, 4),
                                       !.disp = Slice(Advance(f, 4), 4),
                                       !.imm64 = TRUE]
                        [] ~Imm64 /\ SecondImm ->
                             [here EXCEPT !.disp = Slice(f, n)]
                        [] OTHER -> [here EXCEPT !.imm = Slice(f, n)]
                 /\ NextArg
            ELSE /\ fetcher_copy' = IF n = 0 THEN f ELSE Drained(f)
                 /\ dest' = here
                 /\ Fail(CASE n = 0 /\ SxByte -> "internal error"
                           [] n = 0 /\ ~SxByte -> "imm64_sx32 missing"
                           [] OTHER -> "limit exceeded (10)")
                 /\ UNCHANGED argi
  /\ UNCHANGED <<caller, node>>

\* The number of a register operand: from the opcode, from the rm field
\* whatever mod is, or from the field of ModRM the operand stands for, with
\* the REX bit that extends it.
RegisterNumber ==
  LET fromRm == dest.args[argi].value = RegOrMem
      etags  == Encoding.etags
  IN  CASE Arg.type = "reg_sr" -> RegField(state.modrm0)
        [] Arg.type # "reg_sr" /\ "reg_base" \in etags ->
             (state.opcode0 % 8)
               + (IF Arg.type = "reg_gr" THEN 8 * p.rex_b ELSE 0)
        [] Arg.type # "reg_sr" /\ "reg_base" \notin etags
             /\ ("reg_rm" \in etags \/ fromRm) ->
             Rm(state.modrm0) + 8 * p.rex_b
        [] OTHER -> RegField(state.modrm0) + 8 * p.rex_r

RegArg ==
  /\ AtArg /\ Arg.size > 0 /\ Arg.type \in RegTypes
  /\ LET n == IF Arg.value = DefaultValue THEN RegisterNumber ELSE Arg.value
     IN  /\ dest' = [dest EXCEPT !.args[argi] = [Arg EXCEPT !.value = n]]
         /\ IF Arg.type = "reg_sr" /\ n > 5
            THEN /\ Fail("invalid opcode: seg reg of 6 or 7 specified")
                 /\ UNCHANGED argi
            ELSE NextArg
  /\ UNCHANGED <<caller, fetcher_copy, node, state>>

MemArg ==
  /\ AtArg /\ Arg.size > 0 /\ Arg.type \in MemTypes \ {"mem_fulldisp"}
  /\ dest' = [dest EXCEPT !.args[argi] = Arg]
  /\ NextArg
  /\ UNCHANGED <<caller, fetcher_copy, node, state>>

LockAllowed_by_tag == Lockable(Encoding)
LockAllowed ==
  /\ Lockable(Encoding)
  /\ dest.args[1].type \in MemTypes

\* All arguments are in: LOCK is checked and the instruction's size known.
EndArgs ==
  /\ pc = "args" /\ ~AtArg
  /\ IF dest.lockrep = 1 /\ ~LockAllowed
     THEN /\ Fail("invalid opcode: lock used with nonlockable instruction")
          /\ UNCHANGED state
     ELSE /\ state' = [state EXCEPT !.insn_size = fetcher_copy.next]
          /\ Fail("")
  /\ UNCHANGED <<caller, fetcher_copy, node, argi, dest>>

-----------------------------------------------------------------------------
(* do_decode: what becomes of the attempt *)

Fwaitable_any == TRUE
Fwaitable == "fwaitable" \in Encoding.itags

\* The first attempt used an FWAIT and did not come to an instruction that
\* takes one.
Rejected == attempt = 1 /\ p.wait_used /\ (status = "" => ~Fwaitable)

\* Go back one byte and decode there without any prefix.
FallBack ==
  /\ pc = "judge" /\ Rejected
  /\ attempt' = 2
  /\ p' = NoPrefix
  /\ fetcher_copy' = GoBack(fetcher)
  /\ dest' = [dest EXCEPT !.fwait = 0]
  /\ pc' = "try"
  /\ UNCHANGED <<inputs, fetcher, got_fwait, node, argi, state, status>>

TooLong_by_one == ~p.wait_used /\ state.insn_size > MaxInsn + 1
TooLong == ~p.wait_used /\ state.insn_size > MaxInsn

\* fwait is 2 for an instruction that used its FWAIT, 1 for one that could
\* have had it, else 0; without FWAIT an instruction has at most 15 bytes.
Return ==
  /\ pc = "judge"
  /\ ~Rejected
  /\ LET ok   == attempt = 1 /\ status = ""
     IN  /\ status' = IF ok /\ TooLong THEN "instruction exceeds 15 bytes" ELSE status
         /\ dest' = [dest EXCEPT !.fwait =
                       CASE ok /\ p.wait_used -> 2
                         [] ok /\ ~p.wait_used /\ ~TooLong /\ Fwaitable -> 1
                         [] OTHER -> 0]
  /\ pc' = "done"
  /\ UNCHANGED <<caller, fetcher_copy, node, argi, state>>

\* The call has returned.
Returned == pc = "done" /\ UNCHANGED vars

TakePrefixes == TakePrefix \/ LimitExceeded \/ EndPrefixes \/ TakeRex \/ NoRex
                  \/ TakeFwait \/ NoFwait
Walk == EnterTry \/ EnterTryTooShort \/ WalkByte \/ WalkMode \/ WalkModRM
          \/ InvalidOpcode \/ Leaf
get_arguments == UnsupportedArgument \/ FullDispArg \/ ImplicitImmArg \/ ImmArg
                   \/ RegArg \/ MemArg \/ EndArgs
Finish == FallBack \/ Return

Step == TakePrefixes \/ Walk \/ get_arguments \/ Finish
Next == Step \/ Returned

\* The decoder is a function call: it runs until it returns.
Spec == Init /\ [][Next]_vars
FairSpec == Spec /\ WF_vars(Step)
=============================================================================
