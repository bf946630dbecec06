------------------------- MODULE DecoderTableProps -------------------------
(***************************************************************************)
(* What the decoder relies on in a generated table.                        *)
(***************************************************************************)
EXTENDS DecoderTable

CONSTANT Streams    \* the beginnings of instructions considered

Places == 0..Len(tables)

\* The types of the variables, a part of the first invariant below.
TypeOK ==
  /\ done \in 0..Len(script)
  /\ \A n \in 1..Len(tables) :
       /\ tables[n].type \in 0..6
       /\ tables[n].values \in [Kids(tables[n].type) -> Places]
       /\ tables[n].encoding \in 0..Len(script)
  /\ table \in 1..Len(tables)
  /\ \A i \in DOMAIN offsets : offsets[i] \in Byte
  /\ \A i \in DOMAIN calls : /\ calls[i].table \in 1..Len(tables)
                             /\ calls[i].k \in Kids(tables[calls[i].table].type)
                             /\ calls[i].ext \in Reg /\ calls[i].mod \in 0..3
  /\ Len(info) \in {done, done - 1}
  /\ pc \in {"build", "built", "written"}

\* What a table may lead to: opcode bytes come first, then prefixes, then the
\* fields of the ModRM byte, then the mode.
Below == <<{0, 1, 2, 3, 5, 6}, {0, 3, 5, 6}, {0, 5, 6}, {0, 5, 6}, {0, 6}, {0}>>

\* Whatever order the encodings come in, every table is reached and lies
\* behind those that lead to it, so the tables can be written in one pass and
\* every walk of the decoder ends; and a walk asks in the order in which the
\* decoder can answer, so that it reads each byte once.
Layered ==
  /\ TypeOK
  /\ \A n \in 1..Len(tables), k \in UNION {Kids(t) : t \in 1..6} :
       k \in DOMAIN tables[n].values =>
         LET kid == tables[n].values[k]
         IN  kid # NULL => kid > n /\ tables[kid].type \in Below[tables[n].type]
  /\ \A n \in 2..Len(tables) : \E m \in 1..(n - 1) :
       \E k \in DOMAIN tables[m].values : tables[m].values[k] = n

-----------------------------------------------------------------------------
(* The reference: which encodings an instruction has by the script alone *)

\* An instruction as far as the table can tell: its opcode bytes and whatever
\* follows, its prefixes, its ModRM byte and the mode.
Instructions ==
  [bytes : Streams, op66 : BOOLEAN, fx : 0..2, mod : 0..3, reg : Reg, rm : Reg,
   mode64 : BOOLEAN]

OfKind(e, kind) ==
  FlattenSeq([i \in DOMAIN e.tokens |->
                IF e.tokens[i].kind = kind THEN <<e.tokens[i].n>> ELSE <<>>])
BytesOf(e) == OfKind(e, "hex") \o OfKind(e, "&")

\* With reg_base the last opcode byte stands for a row of them.
BeginsWith(e, bytes) ==
  LET b == BytesOf(e)
  IN  \A i \in DOMAIN b :
        IF i = Len(b) /\ "reg_base" \in e.tags THEN bytes[i] - b[i] \in Reg
        ELSE bytes[i] = b[i]

Asks(t, i) ==
  CASE t.kind = "op66" -> i.op66 = (t.n = 2)
    [] t.kind = "fx"   -> i.fx = IF t.n = 0 THEN 0 ELSE t.n - 1
    [] t.kind = "/"    -> t.n \in {RegR, i.reg}
    [] t.kind = "mod"  -> IF t.n = ModMem THEN i.mod # 3 ELSE i.mod = t.n
    [] t.kind = "rm"   -> i.rm = t.n
    [] OTHER -> TRUE

Matches(e, i) ==
  /\ BeginsWith(e, i.bytes)
  /\ \A k \in DOMAIN e.tokens : Asks(e.tokens[k], i)
  /\ "like_arpl" \in e.tags => ~i.mode64
  /\ "like_movsxd" \in e.tags => i.mode64

\* The walk of the decoder: from a word of the array to the encoding.
Lookup(i) ==
  LET walk[word \in [type : Nat, at : Nat], bytes \in Seq(Byte)] ==
        LET k == CASE word.type = 1 -> Head(bytes)
                   [] word.type = 2 -> (IF i.op66 THEN 1 ELSE 0) + 2 * i.fx
                   [] word.type = 3 -> RegCount * i.mod + i.reg
                   [] word.type = 4 -> i.reg
                   [] word.type = 5 -> i.rm
                   [] word.type = 6 -> IF i.mode64 THEN 1 ELSE 0
        IN  IF word.type = 0 THEN word.at
            ELSE walk[generated[word.at + k + 2],
                      IF word.type = 1 THEN Tail(bytes) ELSE bytes]
  IN  walk[generated[1], i.bytes]

WrittenWell == pc = "written" /\ status = NoError

\* The decoder finds for every instruction the one encoding of the script that
\* it has, and none if it has none, whatever the order of the encodings is,
\* whatever subtrees they share and whatever tables have been shortened; so
\* two encodings for one instruction always end the build.
DecodesScript ==
  WrittenWell =>
    \A i \in Instructions :
      LET found == Lookup(i)
      IN  {n \in DOMAIN script : Matches(script[n], i)}
            = IF found = Invalid THEN {} ELSE {found}

\* The opcodes of an encoding, and two encodings that cannot be told apart by
\* them: an opcode of one is that of the other, or begins it.
OpcodesOf(e) ==
  LET b == BytesOf(e)
  IN  {[b EXCEPT ![Len(b)] = @ + n] : n \in IF "reg_base" \in e.tags THEN Reg ELSE {0}}
Meet(d, e) ==
  \E v \in OpcodesOf(d), w \in OpcodesOf(e) : IsPrefix(v, w) \/ IsPrefix(w, v)

\* A build fails only for an encoding that is wrong by itself, or for two
\* whose opcodes meet: neither sharing nor a row of registers makes encodings
\* of different opcodes meet, nor one encoding itself.
WrongByItself(e) ==
  \/ Parse(e.tokens).status # NoError
  \/ Parse(e.tokens).mod # NoMod /\ Parse(e.tokens).regop = NoReg
ErrorsHaveReasons ==
  status # NoError =>
    \/ \E n \in DOMAIN script : WrongByItself(script[n])
    \/ \E m, n \in DOMAIN script : m # n /\ Meet(script[m], script[n])

=============================================================================
