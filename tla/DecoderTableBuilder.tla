------------------------ MODULE DecoderTableBuilder ------------------------
(***************************************************************************)
(* IntelDecoderTableBuilder of makecpu/makecpu.cpp: the encodings of the   *)
(* instruction set script are entered one after the other into a tree of   *)
(* opcode tables.  Subtrees are shared, and an encoding that would need a  *)
(* place which is taken ends the build with an error.                      *)
(*                                                                         *)
(* Left out: 3DNow! (tables of type 7), which the script does not have.    *)
(***************************************************************************)
EXTENDS Integers, SequencesExt

CONSTANTS
  ByteCount,  \* 256, the opcode bytes
  RegCount,   \* 8, the values of a reg or rm field
  Escape,     \* the byte 0f
  Scripts     \* the scripts considered: sequences of encodings

Byte == 0..(ByteCount - 1)
Reg == 0..(RegCount - 1)

\* The parts of an encoding's opcode string; "hex" and "&" have a byte, "/"
\* and "rm" a number, "mod" one of 0..3 or ModMem, "op66" and "fx" the code of
\* EncodingInfoT; "other" is what is none of them.
Token(kind, n) == [kind |-> kind, n |-> n]

\* Codes of EncodingInfoT, and what stands for no such field.
RegR == RegCount
NoReg == RegCount + 1
ModMem == 4
NoMod == 7
NoByte == ByteCount

\* An encoding belongs to an instruction, a number here as instructions are
\* processed in the order of their names; its own number is its place in the
\* script. Its tags are those that matter for the table.
Tags == {"reg_base", "like_arpl", "like_movsxd"}
Kinds == {"hex", "&", "/", "mod", "rm", "op66", "fx", "other"}
Encodings ==
  [insn : Nat, tokens : Seq([kind : Kinds, n : Nat]), tags : SUBSET Tags]

ASSUME CountsAssumption ==
  /\ ByteCount \in Nat \ {0} /\ RegCount \in Nat \ {0} /\ Escape \in Byte

\* The array of a table of each type.
Kids(type) ==
  CASE type = 0 -> {}
    [] type = 1 -> Byte
    [] type = 2 -> 0..5
    [] type = 3 -> 0..(4 * RegCount - 1)
    [] type = 6 -> 0..1
    [] OTHER -> Reg

\* What the numbers of the parts are by their form, and what x86iset.ax keeps to
\* and the builder does not check: an encoding has an opcode byte and at most
\* one Escape, and a row of registers ends within its table; it asks for an rm
\* only with mod 3 and for a mode only without a mod, as subtrees are shared
\* between values of mod; and the encodings of an instruction are numbered one
\* after the other.
Numbers(e, kind) ==
  {e.tokens[k].n : k \in {i \in DOMAIN e.tokens : e.tokens[i].kind = kind}}
ASSUME ScriptsAssumption ==
  \A s \in Scripts : s \in Seq(Encodings) /\ \A m \in DOMAIN s :
    LET e == s[m]
    IN  /\ Numbers(e, "hex") \cup Numbers(e, "&") \subseteq Byte
        /\ Numbers(e, "/") \subseteq Reg \cup {RegR} /\ Numbers(e, "rm") \subseteq Reg
        /\ Numbers(e, "mod") \subseteq 0..3 \cup {ModMem}
        /\ Numbers(e, "op66") \subseteq 0..2 /\ Numbers(e, "fx") \subseteq 0..3
        /\ Numbers(e, "hex") \ {Escape} # {}
        /\ Cardinality({i \in DOMAIN e.tokens : e.tokens[i] = Token("hex", Escape)}) <= 1
        /\ "reg_base" \in e.tags =>
             /\ Numbers(e, "&") = {}
             /\ \A b \in Numbers(e, "hex") \ {Escape} : b + RegCount <= ByteCount
        /\ Numbers(e, "rm") # {} => Numbers(e, "mod") = {3}
        /\ e.tags \cap {"like_arpl", "like_movsxd"} # {} => Numbers(e, "mod") = {}
        /\ \A n \in DOMAIN s : s[n].insn = e.insn =>
             \A i \in m..n : s[i].insn = e.insn

VARIABLES
  script,
  done,         \* how many encodings have been begun
  tables,       \* all tables there are; a table is known by its index
  table,        \* where the encoding being processed will be entered:
  offsets,      \*   the table of its last opcode byte, the bytes left to do,
  calls,        \*   and the calls of process_decoder_entry left for a byte
  info,         \* EncodingInfoT of each encoding, in the order of processing
  insn_info,    \* first and last encoding of each instruction
  status,       \* NoError or an error
  pc            \* "build" or "built"

current == <<table, offsets, calls>>
vars == <<script, done, tables, current, info, insn_info, status, pc>>

NULL == 0
Root == 1
Table(type, encoding) ==
  [type |-> type, values |-> [k \in Kids(type) |-> NULL], encoding |-> encoding]

NoError == ""

\* buildTable goes through the instructions by name: the n-th encoding it
\* processes.
Before(i, j) == \/ script[i].insn < script[j].insn
                \/ script[i].insn = script[j].insn /\ i < j
NumberOf(n) ==
  CHOOSE j \in DOMAIN script : Cardinality({i \in DOMAIN script : Before(i, j)}) = n - 1
Number == NumberOf(done)
Building == script[Number]

BuilderInit ==
  /\ script \in Scripts /\ done = 0
  /\ tables = <<Table(1, NULL)>>
  /\ table = Root /\ offsets = <<>> /\ calls = <<>>
  /\ info = <<>> /\ insn_info = <<>>
  /\ status = NoError /\ pc = "build"

Return(error) == status' = error /\ pc' = "built"

-----------------------------------------------------------------------------
(* Entering something into the tables: a place is an entry of a table *)

Place(t, k) == [tables |-> tables, table |-> t, k |-> k, status |-> NoError]
Entry(p) == p.tables[p.table].values[p.k]

Put(p, x) == [p EXCEPT !.tables[p.table].values[p.k] = x]
Conflict(p) == [p EXCEPT !.status = "opcode conflict"]

\* A place that is taken by a table of one of these types is an error.
Refuse(p, types) ==
  IF p.status = NoError /\ Entry(p) # NULL /\ p.tables[Entry(p)].type \in types
  THEN Conflict(p) ELSE p

New(p, t) == Put([p EXCEPT !.tables = Append(@, t)], Len(p.tables) + 1)

\* From a place to entry k of the table there, which is made if there is none.
Descend(p, type, k) ==
  LET q == IF Entry(p) = NULL THEN New(p, Table(type, NULL)) ELSE p
  IN  IF p.status # NoError THEN p
      ELSE IF q.tables[Entry(q)].type # type THEN Conflict(p)
      ELSE [q EXCEPT !.table = Entry(q), !.k = k]

-----------------------------------------------------------------------------
(* process_decoder_encoding *)

NoOpcode == [opcode |-> <<>>, opcode2 |-> NoByte, op66 |-> 0, fx |-> 1,
             regop |-> NoReg, mod |-> NoMod, rm |-> NoReg,
             did |-> FALSE, status |-> NoError]

\* One token of the opcode string. Escape bytes must come before the opcode
\* byte; prefixes, which look like opcode bytes, may stand anywhere.
ParseToken(r, t) ==
  LET error(e) == [r EXCEPT !.status = e]
      field(f) == [r EXCEPT ![f] = t.n]
  IN  IF r.status # NoError THEN r
      ELSE CASE t.kind = "other" -> error("invalid opcode specifier")
             [] t.kind = "&" /\ r.opcode2 # NoByte -> error("too many additional opcode bytes")
             [] t.kind = "&" /\ r.opcode2 = NoByte -> field("opcode2")
             [] t.kind = "hex" /\ r.did -> error("too many opcode bytes")
             [] t.kind = "hex" /\ ~r.did /\ t.n = Escape ->
                  [r EXCEPT !.opcode = Append(@, t.n)]
             [] t.kind = "hex" /\ ~r.did /\ t.n # Escape ->
                  [r EXCEPT !.opcode = Append(@, t.n), !.did = TRUE]
             [] t.kind = "/" -> field("regop")
             [] OTHER -> field(t.kind)

Parse(tokens) ==
  LET parsed[i \in 0..Len(tokens)] ==
        IF i = 0 THEN NoOpcode ELSE ParseToken(parsed[i - 1], tokens[i])
  IN  parsed[Len(tokens)]

OpcodeBytes_first(r) == r.opcode
OpcodeBytes(r) == r.opcode \o (IF r.opcode2 = NoByte THEN <<>> ELSE <<r.opcode2>>)

\* All opcode bytes but the last one lead from a full table to a full table.
StepByte(p, c) == Descend(p, 1, c)
PlaceOf(bytes) ==
  LET place[i \in 1..Len(bytes)] ==
        IF i = 1 THEN Place(Root, bytes[1]) ELSE StepByte(place[i - 1], bytes[i])
  IN  place[Len(bytes)]

Pending == offsets # <<>> \/ calls # <<>>

\* With the tag reg_base, the low bits of the opcode are a register.
BeginEncoding ==
  /\ pc = "build" /\ ~Pending /\ done < Len(script)
  /\ done' = done + 1
  /\ LET enc == script[NumberOf(done + 1)]
         r == Parse(enc.tokens)
         p == PlaceOf(OpcodeBytes(r))
         count == IF "reg_base" \in enc.tags THEN RegCount ELSE 1
     IN  IF r.status # NoError THEN Return(r.status) /\ UNCHANGED <<info, tables, current>>
         ELSE /\ info' = Append(info, r)
              /\ tables' = p.tables
              /\ table' = p.table
              /\ IF p.status # NoError
                 THEN Return(p.status) /\ UNCHANGED offsets
                 ELSE /\ offsets' = [i \in 1..count |-> p.k + i - 1]
                      /\ UNCHANGED <<status, pc>>
              /\ UNCHANGED calls
  /\ UNCHANGED <<script, insn_info>>

\* The entries of a prefix table, in columns of 66 and rows of f2 and f3.
PrefixEntries_swapped(r) ==
  LET op66 == CASE r.op66 = 0 -> <<0, 1>> [] r.op66 = 1 -> <<0>> [] r.op66 = 2 -> <<1>>
      fx == CASE r.fx = 0 -> <<0>> [] r.fx = 1 -> <<0, 1, 2>>
              [] r.fx = 2 -> <<1>> [] r.fx = 3 -> <<2>>
  IN  FlattenSeq([a \in DOMAIN op66 |-> [b \in DOMAIN fx |-> 3 * op66[a] + fx[b]]])
PrefixEntries(r) ==
  LET op66 == CASE r.op66 = 0 -> <<0, 1>> [] r.op66 = 1 -> <<0>> [] r.op66 = 2 -> <<1>>
      fx == CASE r.fx = 0 -> <<0>> [] r.fx = 1 -> <<0, 1, 2>>
              [] r.fx = 2 -> <<1>> [] r.fx = 3 -> <<2>>
  IN  FlattenSeq([a \in DOMAIN op66 |-> [b \in DOMAIN fx |-> op66[a] + 2 * fx[b]]])

\* process_decoder_modrm: a call for each value of the reg field and of mod.
\* Without a mod the four calls of process_decoder_entry for itself follow,
\* in which all values of mod share one entry.
Upto(n) == [i \in 1..n |-> i - 1]
Calls(t, k, r) ==
  LET exts == CASE r.regop = RegR -> Upto(RegCount)
                [] r.regop = NoReg -> <<0>>
                [] OTHER -> <<r.regop>>
      mods == CASE r.mod = ModMem -> <<0, 1, 2>>
                [] r.mod = NoMod /\ r.regop # NoReg -> <<0, 1, 2, 3>>
                [] r.mod = NoMod /\ r.regop = NoReg -> <<0>>
                [] OTHER -> <<r.mod>>
      call(e, m) == [table |-> t, k |-> k, ext |-> e, mod |-> m,
                     shared |-> r.mod = NoMod /\ m # 0]
  IN  FlattenSeq([e \in DOMAIN exts |-> [m \in DOMAIN mods |-> call(exts[e], mods[m])]])

\* An encoding that cares for prefixes goes through a table of them, and one
\* that does not must not meet such a table.
BeginByte ==
  /\ pc = "build" /\ calls = <<>> /\ offsets # <<>>
  /\ LET r == Last(info)
         place == Place(table, Head(offsets))
         any == r.op66 = 0 /\ r.fx = 1
         p == IF any THEN Refuse(place, {0, 1, 2}) ELSE Descend(place, 2, 0)
         entries == PrefixEntries(r)
     IN  IF p.status # NoError THEN Return(p.status) /\ UNCHANGED <<tables, calls, offsets>>
         ELSE /\ tables' = p.tables
              /\ calls' = IF any THEN Calls(table, Head(offsets), r)
                          ELSE FlattenSeq([i \in DOMAIN entries |->
                                             Calls(p.table, entries[i], r)])
              /\ offsets' = Tail(offsets)
              /\ UNCHANGED <<status, pc>>
  /\ UNCHANGED <<script, done, table, info, insn_info>>

-----------------------------------------------------------------------------
(* process_decoder_entry *)

\* The entry of all memory forms serves another value of mod as well.
Share_overwrite(p, ext) == Put(p, p.tables[p.table].values[ext])
Share(p, ext) ==
  LET first == p.tables[p.table].values[ext]
  IN  IF Entry(p) \notin {NULL, first} THEN Conflict(p) ELSE Put(p, first)

\* Where the encoding is entered: below a table of the reg and mod fields if it
\* has a ModRM byte, of the rm field if it asks for one, and of the mode.
AtFields(c, r) ==
  LET p == Place(c.table, c.k)
  IN  IF r.regop = NoReg THEN Refuse(p, 0..4)
      ELSE Descend(p, 3, c.ext + RegCount * c.mod)
AtRm(p, r) == IF r.rm = NoReg THEN Refuse(p, 0..5) ELSE Descend(p, 5, r.rm)
AtMode(p, tags) ==
  IF tags \cap {"like_arpl", "like_movsxd"} = {} THEN p
  ELSE Descend(p, 6, IF "like_movsxd" \in tags THEN 1 ELSE 0)
Vacant(p) == Refuse(p, 0..7)

Entered(c) ==
  LET r == Last(info)
      fields == AtFields(c, r)
      leaf == Vacant(AtMode(AtRm(fields, r), Building.tags))
  IN  IF r.mod # NoMod /\ r.regop = NoReg THEN Conflict(fields)
      ELSE IF fields.status # NoError THEN fields
      ELSE IF c.shared THEN Share(fields, c.ext)
      ELSE IF leaf.status # NoError THEN leaf
      ELSE New(leaf, Table(0, Number))

\* The encodings of an instruction, as far as they have been entered.
Extend(insn, n) ==
  [i \in DOMAIN insn_info \cup {insn} |->
     CASE i # insn -> insn_info[i]
       [] i = insn /\ i \notin DOMAIN insn_info -> [first |-> n, last |-> n]
       [] i = insn /\ i \in DOMAIN insn_info ->
            [first |-> IF n < insn_info[i].first THEN n ELSE insn_info[i].first,
             last |-> IF n > insn_info[i].last THEN n ELSE insn_info[i].last]]

process_decoder_entry ==
  /\ pc = "build" /\ calls # <<>>
  /\ LET c == Head(calls)
         p == Entered(c)
     IN  /\ tables' = p.tables
         /\ IF p.status # NoError THEN Return(p.status) /\ UNCHANGED <<calls, insn_info>>
            ELSE /\ calls' = Tail(calls)
                 /\ insn_info' = IF c.shared THEN insn_info
                                 ELSE Extend(Building.insn, Number)
                 /\ UNCHANGED <<status, pc>>
  /\ UNCHANGED <<script, done, table, offsets, info>>

AllEntered ==
  /\ pc = "build" /\ ~Pending /\ done = Len(script)
  /\ Return(NoError)
  /\ UNCHANGED <<script, done, tables, current, info, insn_info>>

Build == BeginEncoding \/ BeginByte \/ process_decoder_entry \/ AllEntered
=============================================================================
