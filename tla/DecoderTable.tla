---------------------------- MODULE DecoderTable ----------------------------
(***************************************************************************)
(* From the tree of opcode tables to the array of the decoder: the rest of *)
(* buildTable of makecpu/makecpu.cpp, and what main writes of its result.  *)
(***************************************************************************)
EXTENDS DecoderTableBuilder

VARIABLE generated    \* crudasm_intel_decoder_table, empty if none is written

allVars == <<vars, generated>>

Init == BuilderInit /\ generated = <<>>

Invalid == 2 ^ 24 - 1
Word(type, at) == [type |-> type, at |-> at]

\* A table of the mod and reg fields in which mod makes no difference is
\* written as one of the reg field.
is_level_3_really_level_4_two(t) ==
  t.type = 3 /\ \A i \in Reg : t.values[i + RegCount] = t.values[i]
is_level_3_really_level_4(t) ==
  t.type = 3 /\ \A i \in Reg, j \in 1..3 : t.values[i + RegCount * j] = t.values[i]

WrittenType(t) == IF is_level_3_really_level_4(t) THEN 4 ELSE t.type
WrittenEntries(t) ==
  [k \in 1..Cardinality(Kids(WrittenType(t))) |-> t.values[k - 1]]

\* OpcodeList: each table once, behind all tables it leads to.
process[lst \in Seq(Nat), n \in Nat] ==
  IF n = NULL THEN lst
  ELSE IF tables[n].type = 0 \/ n \in ToSet(lst) THEN lst
  ELSE LET values == [k \in 1..Cardinality(Kids(tables[n].type)) |->
                        tables[n].values[k - 1]]
       IN  Append(FoldLeft(LAMBDA l, m : process[l, m], lst, values), n)

\* The words of a table follow those of the tables before it.
WordOf(m, n) ==
  IF n = NULL THEN Word(0, Invalid)
  ELSE IF tables[n].type = 0 THEN Word(0, tables[n].encoding)
  ELSE Word(WrittenType(tables[n]), m[n])
WriteTable(s, n) ==
  LET entries == WrittenEntries(tables[n])
  IN  [m |-> [i \in DOMAIN s.m \cup {n} |-> IF i = n THEN Len(s.opcodes) ELSE s.m[i]],
       opcodes |-> s.opcodes \o [k \in DOMAIN entries |-> WordOf(s.m, entries[k])]]

Opcodes ==
  LET s == FoldLeft(WriteTable, [m |-> <<>>, opcodes |-> <<>>], process[<<>>, Root])
  IN  Append(s.opcodes, Word(1, s.m[Root]))

\* main writes the word of the root, which is the last one, first.
InFile(t) == <<Last(t)>> \o Front(t)

Write ==
  /\ pc = "built" /\ pc' = "written"
  /\ generated' = IF status = NoError THEN InFile(Opcodes) ELSE <<>>
  /\ UNCHANGED <<script, done, tables, current, info, insn_info, status>>

Written == pc = "written" /\ UNCHANGED allVars

Next ==
  \/ Build /\ UNCHANGED generated
  \/ Write
  \/ Written

Spec == Init /\ [][Next]_allVars
=============================================================================
