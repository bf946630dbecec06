---------------------------- MODULE MCIxdecoder ----------------------------
(***************************************************************************)
(* An excerpt of the generated decoder tables (generated/out_intel_*.h),   *)
(* and the buffers of the runs on Ixdecoder.  Every opcode byte that the   *)
(* buffers of a run contain is decoded as the generated table decodes it;  *)
(* encodings that differ only in name and registers are one encoding here. *)
(* Opcodes 10 to 17 (hex) are not decoded as generated: they stand for     *)
(* encodings of an inconsistent script, for each check of get_arguments.   *)
(***************************************************************************)
EXTENDS IxdisasmProps, TLC

A(type, size, value) == [type |-> type, size |-> size, value |-> value]
None == A("void", 0, DefaultValue)

\* The prototype of most instructions has operands of one size only.
Enc(a1, a2, regop, etags, itags) ==
  [args |-> <<a1, a2, None, None>>, regop |-> regop,
   etags |-> etags, itags |-> itags, op66 |-> 0,
   proto |-> [i \in 1..4 |-> IF <<a1, a2, None, None>>[i] = None THEN 0 ELSE -1]]

RegOrMemArg(size) == A("reg_gr", size, RegOrMem)
GrArg(size)       == A("reg_gr", size, DefaultValue)
MemEa(size)       == A("mem_ea", size, DefaultValue)
MemImplicit(size) == A("mem_implict", size, DefaultValue)
Imm1st(size)      == A("imm_1st", size, DefaultValue)
Reg(size, number) == A("reg_gr", size, number)

GeneratedEncodings ==
  [wait           |-> Enc(None, None, FALSE, {}, {}),
   xchg_ax        |-> Enc(Reg(-1, 0), GrArg(-1), FALSE, {"reg_base"},
                          {"lock_always"}),
   incdec         |-> Enc(GrArg(-1), None, FALSE, {"no64", "reg_base"},
                          {"lockable"}),
   add_b          |-> Enc(RegOrMemArg(1), GrArg(1), TRUE, {}, {"lockable"}),
   add            |-> Enc(RegOrMemArg(-1), GrArg(-1), TRUE, {},
                          {"lockable"}),
   cmp_b          |-> Enc(RegOrMemArg(1), GrArg(1), TRUE, {}, {}),
   add_ib         |-> Enc(RegOrMemArg(-1), Imm1st(-1), TRUE,
                          {"sx_byte", "imm64_sx32"}, {"lockable"}),
   cmp_ib         |-> Enc(RegOrMemArg(-1), Imm1st(-1), TRUE,
                          {"sx_byte", "imm64_sx32"}, {}),
   mov_iz         |-> Enc(RegOrMemArg(-1), Imm1st(-1), TRUE, {"imm64_sx32"},
                          {}),
   mov_imm        |-> Enc(GrArg(-1), A("imm_both", -1, DefaultValue), FALSE,
                          {"reg_base", "imm64_disp"}, {}),
   mov_offs       |-> Enc(Reg(1, 0), A("mem_fulldisp", 1, DefaultValue),
                          FALSE, {"imm64_disp"}, {}),
   enter          |-> [Enc(Imm1st(2), A("imm_2nd", 1, DefaultValue), FALSE,
                           {"is64"}, {}) EXCEPT !.proto = <<2, 1, 0, 0>>],
   callfd         |-> [Enc(Imm1st(-1), A("imm_2nd", 2, DefaultValue), FALSE,
                           {"no64"}, {}) EXCEPT !.proto = <<-1, 2, 0, 0>>],
   push_ib        |-> Enc(Imm1st(-1), None, FALSE,
                          {"imm64_sx32", "sx_byte", "is64"}, {}),
   shl_1          |-> [Enc(RegOrMemArg(-1), A("imm_implict", 1, 1), TRUE,
                           {}, {}) EXCEPT !.proto = <<-1, 1, 0, 0>>],
   movs           |-> Enc(MemImplicit(1), MemImplicit(1), FALSE, {}, {}),
   jo_ib          |-> Enc(Imm1st(-8), None, FALSE,
                          {"imm64_sx32", "sx_byte", "relative"}, {}),
   call           |-> Enc(Imm1st(-8), None, FALSE,
                          {"imm64_sx32", "relative"}, {}),
   sldt           |-> Enc(GrArg(-1), None, TRUE, {"reg_rm"}, {}),
   lea            |-> [Enc(GrArg(-1), A("mem_address", -2, DefaultValue),
                           TRUE, {}, {}) EXCEPT !.proto = <<-1, -2, 0, 0>>],
   les            |-> Enc(GrArg(-1), A("mem_ea_seg", -1, DefaultValue),
                          TRUE, {"no64"}, {}),
   arpl           |-> [Enc(RegOrMemArg(2), GrArg(2), TRUE, {}, {})
                    EXCEPT !.proto = <<2, 2, 0, 0>>],
   movsxd         |-> [Enc(GrArg(-1), RegOrMemArg(4), TRUE, {}, {})
                    EXCEPT !.proto = <<-1, 4, 0, 0>>],
   mov_sreg       |-> [Enc(A("reg_sr", 2, 3), RegOrMemArg(2), TRUE, {}, {})
                    EXCEPT !.proto = <<2, 2, 0, 0>>],
   fpu_mem        |-> Enc(MemEa(4), None, TRUE, {}, {}),
   fstcw          |-> [Enc(MemEa(2), None, TRUE, {}, {"fwaitable"})
                    EXCEPT !.proto = <<2, 0, 0, 0>>],
   fpu_st         |-> Enc(A("reg_other", 10, DefaultValue), None, TRUE,
                          {"reg_rm"}, {}),
   fpu_none       |-> Enc(None, None, TRUE, {}, {}),
   int1           |-> Enc(None, None, FALSE, {}, {}),
   syscall        |-> Enc(None, None, FALSE, {}, {}),
   bswap          |-> Enc(GrArg(-5), None, FALSE, {"reg_base"}, {}),
   bt_ib          |-> [Enc(RegOrMemArg(-1), Imm1st(1), TRUE, {},
                           {"lockable"}) EXCEPT !.proto = <<-1, -2, 0, 0>>],
   movdq          |-> [Enc(A("reg_other", 16, DefaultValue),
                           A("reg_other", 16, RegOrMem), TRUE, {}, {})
                    EXCEPT !.op66 = 2],
   phadd          |-> [Enc(A("reg_other", 8, DefaultValue),
                           A("reg_other", 8, RegOrMem), TRUE, {}, {})
                    EXCEPT !.op66 = 1],
   push_r         |-> Enc(GrArg(-1), None, FALSE, {"reg_base", "is64"}, {}),
   push_iz        |-> Enc(Imm1st(-1), None, FALSE, {"imm64_sx32", "is64"},
                          {}),
   push_rm        |-> Enc(RegOrMemArg(-1), None, TRUE, {"is64"}, {}),
   push_es        |-> Enc(A("reg_sr", -1, 0), None, FALSE, {"no64"}, {}),
   pusha          |-> Enc(None, None, FALSE, {"no64"}, {}),
   pushf          |-> Enc(None, None, FALSE, {"is64"}, {}),
   iret           |-> Enc(None, None, FALSE, {}, {"ctrlxfer"}),
   ret            |-> [Enc(A("imm_implict", 2, 0), None, FALSE, {},
                           {"ctrlxfer"}) EXCEPT !.proto = <<2, 0, 0, 0>>],
   loop           |-> [Enc(Imm1st(-8), Reg(-2, 1), FALSE,
                           {"imm64_sx32", "sx_byte", "relative"},
                           {"ctrlxfer"}) EXCEPT !.proto = <<-1, -2, 0, 0>>],
   jrcxz          |-> [Enc(Imm1st(-8), Reg(-2, 1), FALSE,
                           {"imm64_sx32", "sx_byte", "relative"},
                           {"ctrlxfer"}) EXCEPT !.proto = <<-1, -2, 0, 0>>],
   calli          |-> Enc(RegOrMemArg(-8), None, TRUE, {}, {"ctrlxfer"}),
   callfi         |-> Enc(A("mem_ea_seg", -8, DefaultValue), None, TRUE, {},
                          {"ctrlxfer"}),
   cbw            |-> Enc(None, None, FALSE, {}, {}),
   cmps           |-> Enc(MemImplicit(-1), MemImplicit(-1), FALSE, {}, {}),
   lods           |-> Enc(Reg(-1, 0), MemImplicit(-1), FALSE, {}, {}),
   scas           |-> Enc(Reg(-1, 0), MemImplicit(-1), FALSE, {}, {}),
   stos           |-> Enc(MemImplicit(-1), Reg(-1, 0), FALSE, {}, {}),
   ins            |-> [Enc(MemImplicit(-1), Reg(2, 2), FALSE, {"no_rex_w"},
                           {}) EXCEPT !.proto = <<-1, 2, 0, 0>>],
   outs           |-> [Enc(Reg(2, 2), MemImplicit(-1), FALSE, {"no_rex_w"},
                           {}) EXCEPT !.proto = <<2, -2, 0, 0>>],
   xlat           |-> [Enc(MemImplicit(1), None, FALSE, {}, {})
                    EXCEPT !.proto = <<1, 0, 0, 0>>],
   aam            |-> [Enc(Imm1st(1), None, FALSE, {"no64"}, {})
                    EXCEPT !.proto = <<1, 0, 0, 0>>],
   in_dx          |-> [Enc(Reg(-4, 0), Reg(2, 2), FALSE, {}, {})
                    EXCEPT !.proto = <<-1, -2, 0, 0>>],
   divb           |-> [Enc(RegOrMemArg(1), None, TRUE, {}, {})
                    EXCEPT !.proto = <<1, 0, 0, 0>>],
   fxsave         |-> [Enc(A("mem_address", 16, DefaultValue), None, TRUE,
                           {}, {}) EXCEPT !.proto = <<16, 0, 0, 0>>],
   cmpxchgxb      |-> [Enc(MemEa(-6), None, TRUE, {}, {"lockable"})
                    EXCEPT !.op66 = 1]]

\* The first three and the last of these are sound.
ScriptEncodings ==
  [imm64_sx32     |-> Enc(Imm1st(-1), None, FALSE, {"imm64_sx32"}, {}),
   imm64_disp     |-> Enc(GrArg(-1), A("imm_both", -8, DefaultValue), FALSE,
                          {"imm64_disp", "reg_base"}, {}),
   imm64_sx_byte  |-> Enc(GrArg(-1), Imm1st(-1), FALSE,
                          {"reg_base", "sx_byte", "imm64_sx32"}, {}),
   imm64_untagged |-> Enc(Imm1st(-1), None, FALSE, {}, {}),
   byte_sx_byte   |-> Enc(Imm1st(1), None, FALSE, {"sx_byte"}, {}),
   reg_unsized    |-> Enc(GrArg(0), None, FALSE, {"reg_base"}, {}),
   imm_unsized    |-> Enc(Imm1st(-9), None, FALSE, {}, {}),
   any_sreg       |-> Enc(A("reg_sr", 2, DefaultValue), None, TRUE, {}, {})]

MCEncodings == GeneratedEncodings @@ ScriptEncodings

\* The functions that print them.
MCHandlerOf(e) ==
  CASE e \in {"push_r", "push_ib", "push_iz", "push_rm"} -> "push"
    [] e = "push_es"  -> "pushsr"   [] e = "cbw"      -> "sxacc"
    [] e = "xchg_ax"  -> "xchg"     [] e = "mov_sreg" -> "movsrv"
    [] e = "in_dx"    -> "in"       [] e = "int1"     -> "uint1"
    [] e \in {"callfd", "movs", "pusha", "pushf", "iret", "ret", "loop", "jrcxz",
              "calli", "callfi", "cmps", "lods", "scas", "stos", "ins", "outs",
              "xlat", "aam", "divb", "fxsave", "cmpxchgxb"} -> e
    [] OTHER -> "none"

MCInvalid == "invalid"

-----------------------------------------------------------------------------
(* The nodes of the table; a leaf has the name of its encoding. *)

LeafNode(e) == [type |-> 0, encoding |-> e]
Node(type, kids) == [type |-> type, kids |-> kids]
All(type, kid) == Node(type, [i \in NodeKids(type) |-> kid])

RootKid(c) ==
  CASE c = \h00 -> "g00"      [] c = \h01 -> "g01"      [] c = \h0f -> "two"
    [] c = \h38 -> "g38"      [] IsRex(c) -> "incdec"   [] c = \h63 -> "g63"
    [] c = \h6a -> "push_ib"  [] c = \h70 -> "jo_ib"    [] c = \h83 -> "g83"
    [] c = \h8d -> "g8d"      [] c = \h8e -> "g8e"      [] c = \he8 -> "call"
    [] c = \h90 -> "xchg_ax"  [] c = \h9a -> "callfd"   [] c = \h9b -> "wait"
    [] c = \ha0 -> "mov_offs" [] c = \ha4 -> "movs"     [] c = \hb8 -> "mov_imm"
    [] c = \h06 -> "push_es"  [] c = \h50 -> "push_r"   [] c = \h60 -> "pusha"
    [] c = \h68 -> "push_iz"  [] c = \h6d -> "ins"      [] c = \h6f -> "outs"
    [] c = \h98 -> "cbw"      [] c = \h9c -> "pushf"    [] c = \ha7 -> "cmps"
    [] c = \hab -> "stos"     [] c = \had -> "lods"     [] c = \haf -> "scas"
    [] c = \hc3 -> "ret"      [] c = \hcf -> "iret"     [] c = \hd4 -> "aam"
    [] c = \hd7 -> "xlat"     [] c = \he2 -> "loop"     [] c = \he3 -> "jrcxz"
    [] c = \hed -> "in_dx"    [] c = \hf6 -> "gf6"      [] c = \hff -> "gff"
    [] c = \hc4 -> "gc4"      [] c = \hc7 -> "gc7"      [] c = \hc8 -> "enter"
    [] c = \hd1 -> "gd1"      [] c = \hd9 -> "gd9"      [] c = \hf1 -> "int1"
    [] c \in \h10..\h17 ->
         <<"imm64_sx32", "imm64_disp", "imm64_sx_byte", "imm64_untagged",
           "byte_sx_byte", "reg_unsized", "imm_unsized", "sreg">>[c - \h0f]
    [] OTHER -> "invalid"

TwoKid(c) ==
  CASE c = \h00 -> "g200"     [] c = \h05 -> "syscall"
    [] c = \h6f -> "mand"  [] c = \hba -> "gba"
    [] c = \h38 -> "three"
    [] c = \ha2 -> "syscall"  [] c = \hae -> "gae"   [] c = \hc7 -> "g2c7"
    [] c = \hc8 -> "bswap"    [] OTHER -> "invalid"

\* d9 with a memory operand by reg field, with mod 3 by reg and rm field.
FpuKid(i) ==
  CASE i < 24 /\ i % 8 \in {0, 2, 3, 5} -> "fpu_mem"
    [] i < 24 /\ i % 8 = 7  -> "fstcw"
    [] i \in {24, 25}       -> "fpu_st"
    [] i = 30               -> "gd9r6"
    [] i = 31               -> "gd9r7"
    [] OTHER                -> "invalid"

InnerNodes ==
  [root |-> Node(1, [c \in Byte |-> RootKid(c)]),
   two  |-> Node(1, [c \in Byte |-> TwoKid(c)]),
   g00  |-> All(4, "add_b"),
   g01  |-> All(4, "add"),
   g38  |-> All(4, "cmp_b"),
   g63  |-> All(4, "mode"),
   mode |-> Node(6, [i \in 0..1 |-> IF i = 0 THEN "arpl" ELSE "movsxd"]),
   g83  |-> Node(4, [i \in 0..7 |-> IF i = 7 THEN "cmp_ib" ELSE "add_ib"]),
   g8d  |-> Node(3, [i \in 0..31 |-> IF i < 24 THEN "lea" ELSE "invalid"]),
   g8e  |-> Node(4, [i \in 0..7 |-> IF i \in {0, 2, 3, 4, 5}
                                    THEN "mov_sreg" ELSE "invalid"]),
   gc4  |-> Node(3, [i \in 0..31 |-> IF i < 24 THEN "les" ELSE "invalid"]),
   gc7  |-> Node(4, [i \in 0..7 |-> IF i = 0 THEN "mov_iz" ELSE "invalid"]),
   gd1  |-> All(4, "shl_1"),
   gd9  |-> Node(3, [i \in 0..31 |-> FpuKid(i)]),
   gd9r6 |-> Node(5, [i \in 0..7 |-> IF i \in {0, 4} THEN "fpu_none"
                                     ELSE "invalid"]),
   gd9r7 |-> Node(5, [i \in 0..7 |-> IF i = 7 THEN "fpu_none" ELSE "invalid"]),
   gba  |-> Node(4, [i \in 0..7 |-> IF i >= 4 THEN "bt_ib" ELSE "invalid"]),
   gf6  |-> Node(4, [i \in 0..7 |-> IF i = 6 THEN "divb" ELSE "invalid"]),
   gff  |-> Node(3, [i \in 0..31 |-> CASE i % 8 = 2 -> "calli"
                                      [] i < 24 /\ i % 8 = 3 -> "callfi"
                                      [] i % 8 = 6 -> "push_rm"
                                      [] OTHER -> "invalid"]),
   gae  |-> Node(3, [i \in 0..31 |-> IF i < 24 /\ i % 8 = 0 THEN "fxsave"
                                     ELSE "invalid"]),
   g200 |-> Node(3, [i \in 0..31 |-> IF i = 24 THEN "sldt" ELSE "invalid"]),
   g2c7 |-> Node(3, [i \in 0..31 |-> IF i < 24 /\ i % 8 = 1 THEN "cmpxchgxb"
                                     ELSE "invalid"]),
   mand |-> Node(2, [i \in 0..5 |-> IF i \in {1, 4} THEN "gmov" ELSE "invalid"]),
   gmov |-> All(4, "movdq"),
   three |-> Node(1, [c \in Byte |-> IF c = 1 THEN "phadd_" ELSE "invalid"]),
   phadd_ |-> Node(2, [i \in 0..5 |-> IF i % 2 = 1 THEN "gmov" ELSE "gphadd"]),
   gphadd |-> All(4, "phadd"),
   sreg |-> All(4, "any_sreg")]

MCTable ==
  [n \in DOMAIN InnerNodes \cup DOMAIN MCEncodings \cup {MCInvalid} |->
     IF n \in DOMAIN InnerNodes THEN InnerNodes[n] ELSE LeafNode(n)]

-----------------------------------------------------------------------------
(* Buffers *)

UpTo(S, n) == UNION {[1..k -> S] : k \in 0..n}

\* Prefixes, REX, FWAIT, and instructions with and without a ModRM byte.
PrefixBuffers ==
  UpTo({\h26, \h48, \h66, \h90, \h9b, \hd9, \h38, \hf0, \hf3}, 4)
    \cup {pre \o <<op, modrm>> : pre \in UpTo({\h26, \h48, \hf0, \hf3}, 2),
                                op \in {\h00, \h38}, modrm \in {\h00, \hc0}}
    \cup {<<\hf2, \h64>> \o b : b \in UpTo({\h9b, \h48, \h66, \hf0, \hd9, \h38}, 3)}

\* An instruction with an effective address, in all its forms, followed by
\* enough bytes for the displacement.
SibBytes == {64 * ss + 8 * i + b : ss \in {0, 2}, i \in 0..7, b \in 0..7}
AddressBuffers ==
  {pre \o rex \o <<\h01, 64 * mod + 8 + rm>>
     \o (IF rm = 4 THEN <<sib>> ELSE <<>>)
     \o (IF sib < 128 THEN <<0, 0, 0, 0>> ELSE <<\hfe, \h81, 3, \h84>>) :
     pre \in {<<>>, <<\h67>>, <<\h67, \h64>>},
     rex \in {<<>>, <<\h41>>, <<\h42>>, <<\h43>>},
     mod \in 0..3, rm \in 0..7, sib \in SibBytes}

\* Instructions with every kind of argument, whole and cut short anywhere.
Payloads == {<<1, 2, 3, 4, 5, 6, 7, 8>>, [i \in 1..8 |-> 256 - 16 * i]}
Instructions ==
  {<<\h83, \h00>>, <<\h83, \h44, \h24>>, <<\h83, \hf8>>, <<\h83, \h86>>,
   <<\h01, \hc0>>, <<\hb8>>, <<\ha0>>, <<\hc8>>, <<\h9a>>, <<\h6a>>, <<\ha4>>,
   <<\hd1, \h45>>, <<\hc7, \h45>>, <<\hc7, \hc1>>, <<\hc4, \h00>>,
   <<\hc4, \hc0>>, <<\h63, \h00>>, <<\h8e, \hd8>>, <<\h8e, \hf8>>,
   <<\hd9, \hc1>>, <<\hd9, \hf0>>, <<\hf1>>, <<\h9b, \hd9, \h78>>,
   <<\h0f, \h00, \hc1>>, <<\h0f, \h05>>, <<\h0f, \hc8>>, <<\h0f, \h38, 1, \h40>>, <<\h0f, \h6f, \h40>>, <<\h0f, \hba, \h68>>,
   <<\h00, \hec>>, <<\h70>>, <<\he8>>, <<\h8d, \h81>>, <<\h01, \h05>>,
   <<\hd9, \h80>>}
Whole == {pre \o insn \o payload : pre \in {<<>>, <<\h66>>, <<\h67>>, <<\h48>>,
                                         <<\hf0>>, <<\hf3>>, <<\h66, \h49>>},
                                insn \in Instructions, payload \in Payloads}
ArgumentBuffers == UNION {{SubSeq(b, 1, k) : k \in 1..Len(b)} : b \in Whole}

ScriptBuffers == {pre \o <<op>> \o [i \in 1..k |-> x] :
                    pre \in {<<>>, <<\h48>>, <<\h66>>}, op \in \h10..\h17,
                    k \in 0..9, x \in {0, \hf0}}

\* Prefixes and an instruction, up to and over the longest instruction and the
\* number of bytes that the decoder looks at.
LongBuffers == {[i \in 1..n |-> \h66] \o insn : n \in (11..15) \cup (26..30),
                  insn \in {<<\h90>>, <<\h83, \h00, 1>>, <<\h9b>>, <<\h9b, \hd9, \h78>>,
                           <<\h9b, \h66, \h83, \h00, 1>>, <<\h9b, \h38>>, <<\h48, \h9b, \h90>>}}

\* Every group of mnemonics, with the prefixes that a word in the text shows.
WordBuffers ==
  {pre \o insn : pre \in UpTo({\h26, \h41, \h48, \h66, \h67, \hf2, \hf3}, 2),
     insn \in {<<c>> : c \in {\h06, \h50, \h60, \h6d, \h6f, \h90, \h98, \h9b, \h9c,
                             \ha4, \ha7, \hab, \had, \haf, \hc3, \hcf, \hd7, \hed, \hf1}}
       \cup {<<c, \hfe>> : c \in {\h6a, \h70, \hd4, \he2, \he3}}
       \cup {<<\h68, 1, 2, 3, 4>>, <<\hd4, 10>>, <<\hf6, \h30>>, <<\hf6, \hf0>>,
             <<\hff, \h10>>, <<\hff, \hd0>>, <<\hff, \h18>>, <<\hff, \h30>>,
             <<\h0f, \ha2>>, <<\h0f, \hae, 0>>, <<\h0f, \hc7, 8>>, <<\h0f, \hc8>>,
             <<\hc4, 0>>, <<\hd9, \h78, 0>>, <<\h8e, \hd8>>, <<\hc8, 1, 2, 3>>,
             <<\h9a, 1, 2, 3, 4, 5, 6>>, <<\he8, 1, 2, 3, 4>>}}

\* Near the beginning, across 2^32 and just below 2^64.
MCOrigins == {Small(16), [Zero EXCEPT ![0] = 240, ![1] = 255, ![2] = 255, ![3] = 255],
              [k \in 0..7 |-> IF k = 0 THEN 128 ELSE 255]}

\* Short jumps.
JumpBuffers == {pre \o <<\h70, c>> : pre \in {<<>>, <<\h66>>}, c \in {1, \hfe}}

MCBuffers == PrefixBuffers \cup AddressBuffers \cup ArgumentBuffers
               \cup ScriptBuffers \cup LongBuffers \cup WordBuffers
=============================================================================
