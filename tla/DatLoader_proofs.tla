-------------------------- MODULE DatLoader_proofs -------------------------
(***************************************************************************)
(* Proofs about the loader, for load descriptions of every length and      *)
(* images of every size.                                                   *)
(***************************************************************************)
EXTENDS DatLoaderProps, SequenceTheorems, TLAPS

-----------------------------------------------------------------------------
(* The inductive invariant *)

\* How many rows the cursor has left, the header among them.
Read == Len(file) - Len(rows)

\* The rows of a kind it has left; RowsOf once it has left them all.
ReadRows(kind) == {file[i] : i \in {j \in 2..Read : file[j].kind = kind}}

\* The cursor is in the file, behind the header once that was recognised.
Cursor ==
  /\ Len(rows) <= Len(file)
  /\ \A i \in 1..Len(rows) : rows[i] = file[Read + i]
  /\ pc = "header" => rows = file
  /\ pc = "rows" => Read >= 1 /\ file[1].kind = "header"

\* The metadata, and what was changed in front of them, are those of the rows
\* read so far.
Metadata ==
  /\ executable = {o \in Offset : \E r \in ReadRows("mem_attrs") :
                     r.x /\ o - r.at \in 0..(r.size - 1)}
  /\ \A o \in Int : o \in in_front <=>
       o < 0 /\ \E r \in ReadRows("mem_attrs") : o - r.at \in 0..(r.size - 1)
  /\ extended = {o \in Offset :
                   \/ \E r \in ReadRows("entrypoint") : r.at = o
                   \/ \E r \in ReadRows("export") : r.at = o
                   \/ \E r \in ReadRows("import") : r.at = o /\ r.symbol # ""}

\* The flag, the map and the set of imports agree.
InfoAgrees ==
  /\ extended = DOMAIN ext_metadata_map
  /\ import_set = {o \in DOMAIN ext_metadata_map : ext_metadata_map[o].is_import}
  /\ \A o \in import_set : ext_metadata_map[o].symbol # ""

EntrypointMarked ==
  (\E r \in ReadRows("entrypoint") : r.at \in Offset) =>
    entrypoint \in extended /\ ext_metadata_map[entrypoint].is_entrypoint

\* What the outcome depends on.
Completeness ==
  /\ success <=> ReadRows("end") # {}
  /\ actual_bits # 0 <=> \E r \in ReadRows("bits") : r.bits # 0

Outcome ==
  /\ pc = "returned" =>
       \/ /\ rows = <<>> /\ file # <<>> /\ file[1].kind = "header"
          /\ result = 0 <=> Complete
       \/ /\ result = 1
          /\ file = <<>> \/ file[1].kind # "header"
  /\ pc = "crashed" => \E r \in RowsOf("mem_attrs") : r.at < 0 /\ r.size > 0

Inv == /\ TypeOK /\ Cursor /\ Metadata /\ InfoAgrees /\ EntrypointMarked
       /\ Completeness /\ Outcome

-----------------------------------------------------------------------------
(* Reading a row *)

\* A load description is a sequence of rows.
LEMMA FileOfRows == TypeOK => file \in Seq(Rows) /\ Len(file) \in Nat
  <1>1. TypeOK => file \in Files
    BY DEF TypeOK
  <1>2. TypeOK => file \in Seq(Rows)
    BY <1>1, FilesAssumption
  <1>3. file \in Seq(Rows) => Len(file) \in Nat
    BY LenProperties
  <1>4. QED
    BY <1>2, <1>3

\* csv.next() takes the first of the rows that are left: it joins the rows of
\* its kind, and the cursor stays in the file.
LEMMA RowRead ==
  ASSUME Inv, pc = "rows", rows # <<>>, NextRow
  PROVE  /\ row \in Rows
         /\ file' \in Files /\ rows' \in Seq(Rows)
         /\ pc' = "rows" /\ result' = result
         /\ Cursor' /\ Outcome'
         /\ \A k : ReadRows(k)' = IF row.kind = k THEN ReadRows(k) \cup {row}
                                                  ELSE ReadRows(k)
  <1>1. /\ file \in Seq(Rows) /\ Len(file) \in Nat
        /\ rows \in Seq(Rows) /\ Len(rows) \in Nat \ {0}
    BY FileOfRows, EmptySeq DEF Inv, TypeOK
  <1>2. /\ rows' = Tail(rows) /\ file' = file /\ pc' = pc /\ result' = result
    BY DEF NextRow
  <1>3. /\ rows' \in Seq(Rows) /\ Len(rows') = Len(rows) - 1
        /\ \A i \in 1..Len(rows') : rows'[i] = rows[i + 1]
        /\ row = rows[1] /\ row \in Rows
    BY <1>1, <1>2, HeadTailProperties, ElementOfSeq DEF row
  <1>4. /\ Len(rows) <= Len(file) /\ Read \in Nat /\ Read >= 1
        /\ Read' = Read + 1 /\ file[Read + 1] = row
    BY <1>1, <1>2, <1>3 DEF Inv, Cursor, Read
  <1>5. Cursor'
    <2>1. \A i \in 1..Len(rows') : rows'[i] = file[Read' + i]
      <3>1. \A i \in 1..Len(rows) : rows[i] = file[Read + i]
        BY DEF Inv, Cursor
      <3>2. ASSUME NEW i \in 1..Len(rows') PROVE rows'[i] = file[Read' + i]
        <4>1. i + 1 \in 1..Len(rows) /\ Read + (i + 1) = Read' + i
          BY <1>1, <1>3, <1>4
        <4>2. QED
          BY <1>3, <3>1, <4>1
      <3>3. QED
        BY <3>2
    <2>2. file[1].kind = "header"
      BY DEF Inv, Cursor
    <2>3. Len(rows') <= Len(file') /\ Read' >= 1
      BY <1>1, <1>2, <1>3, <1>4
    <2>4. pc' = "rows" /\ file' = file
      BY <1>2
    <2>5. QED
      BY <2>1, <2>2, <2>3, <2>4 DEF Cursor
  <1>6. Outcome'
    BY <1>2 DEF Outcome
  <1>7. ASSUME NEW k
        PROVE  ReadRows(k)' = IF row.kind = k THEN ReadRows(k) \cup {row}
                                              ELSE ReadRows(k)
    <2>1. 2..(Read + 1) = 2..Read \cup {Read + 1}
      BY <1>4
    <2>2. ReadRows(k)' = {file[i] : i \in {j \in 2..(Read + 1) : file[j].kind = k}}
      BY <1>2, <1>4 DEF ReadRows
    <2>3. QED
      BY <1>4, <2>1, <2>2 DEF ReadRows
  <1>8. QED
    BY <1>2, <1>3, <1>5, <1>6, <1>7 DEF Inv, TypeOK

\* The rows of the other kinds stay what they were.
LEMMA OtherRows ==
  ASSUME Inv, pc = "rows", rows # <<>>, NextRow
  PROVE  \A k : row.kind # k => ReadRows(k)' = ReadRows(k)
BY RowRead

-----------------------------------------------------------------------------
(* Information about an offset *)

InfoRecords == [is_entrypoint : BOOLEAN, export : BOOLEAN,
                is_import : BOOLEAN, symbol : Symbols \cup {""}]

\* What is known of an offset before a row says more of it.
LEMMA InfoBefore ==
  ASSUME TypeOK, InfoAgrees, NEW at \in Offset
  PROVE  /\ Info(at) \in InfoRecords
         /\ Info(at).is_import <=> at \in import_set
         /\ Info(at).is_import => Info(at).symbol # ""
  <1>1. CASE at \in DOMAIN ext_metadata_map
    BY <1>1 DEF TypeOK, InfoAgrees, Info, InfoRecords
  <1>2. CASE at \notin DOMAIN ext_metadata_map
    <2>1. Info(at) = NoInfo
      BY <1>2 DEF Info
    <2>2. NoInfo \in InfoRecords /\ ~NoInfo.is_import
      BY DEF NoInfo, InfoRecords
    <2>3. at \notin import_set
      BY <1>2 DEF InfoAgrees
    <2>4. QED
      BY <2>1, <2>2, <2>3
  <1>3. QED
    BY <1>1, <1>2

\* Flagging an offset and setting its information keeps the flags, the map
\* and the imports in agreement, and what is known of the other offsets.
LEMMA InfoWritten ==
  ASSUME TypeOK, InfoAgrees, NEW at \in Offset, NEW info \in InfoRecords,
         Flag(at), SetInfo(at, info),
         info.is_import => info.symbol # "",
         info.is_import => import_set' = import_set \cup {at},
         ~info.is_import => import_set' = import_set /\ at \notin import_set
  PROVE  /\ InfoAgrees'
         /\ extended' \subseteq Offset
         /\ DOMAIN ext_metadata_map' \subseteq Offset
         /\ \A o \in DOMAIN ext_metadata_map' : ext_metadata_map'[o] \in InfoRecords
         /\ import_set' \subseteq Offset
         /\ extended' = extended \cup {at}
         /\ ext_metadata_map'[at] = info
         /\ \A o \in extended \ {at} : ext_metadata_map'[o] = ext_metadata_map[o]
  <1>1. /\ extended = DOMAIN ext_metadata_map /\ extended \subseteq Offset
        /\ \A o \in extended : ext_metadata_map[o] \in InfoRecords
        /\ import_set \subseteq Offset
    BY DEF TypeOK, InfoAgrees, InfoRecords
  <1>2. /\ extended' = extended \cup {at}
        /\ DOMAIN ext_metadata_map' = extended \cup {at}
        /\ ext_metadata_map'[at] = info
        /\ \A o \in extended \ {at} : ext_metadata_map'[o] = ext_metadata_map[o]
    BY <1>1 DEF Flag, SetInfo
  <1>3. \A o \in DOMAIN ext_metadata_map' : ext_metadata_map'[o] \in InfoRecords
    BY <1>1, <1>2
  <1>4. /\ \A o \in extended : o \in import_set <=> ext_metadata_map[o].is_import
        /\ \A o \in import_set : o \in extended /\ ext_metadata_map[o].symbol # ""
    BY <1>1 DEF InfoAgrees
  <1>5. import_set' = {o \in DOMAIN ext_metadata_map' :
                         ext_metadata_map'[o].is_import}
    <2>1. CASE info.is_import
      BY <1>2, <1>4, <2>1
    <2>2. CASE ~info.is_import
      BY <1>2, <1>4, <2>2
    <2>3. QED
      BY <2>1, <2>2
  <1>6. \A o \in import_set' : ext_metadata_map'[o].symbol # ""
    <2>1. CASE info.is_import
      BY <1>2, <1>4, <2>1
    <2>2. CASE ~info.is_import
      BY <1>2, <1>4, <2>2
    <2>3. QED
      BY <2>1, <2>2
  <1>7. import_set' \subseteq Offset
    BY <1>1, <1>2, <1>5
  <1>8. InfoAgrees'
    BY <1>2, <1>5, <1>6 DEF InfoAgrees
  <1>9. QED
    BY <1>1, <1>2, <1>3, <1>7, <1>8

\* A row without information about an offset leaves the information alone.
LEMMA InfoKept ==
  ASSUME InfoAgrees, UNCHANGED <<extended, ext_metadata_map, import_set>>
  PROVE  InfoAgrees'
BY DEF InfoAgrees

-----------------------------------------------------------------------------
(* The steps *)

\* Reading the header.
LEMMA HeaderStep == Inv /\ ReadHeader => Inv'
  <1> SUFFICES ASSUME Inv, ReadHeader PROVE Inv'
    OBVIOUS
  <1>1. /\ file \in Seq(Rows) /\ Len(file) \in Nat
        /\ rows = file /\ rows \in Seq(Rows) /\ Read = 0
        /\ rows = <<>> <=> Len(rows) = 0
    <2>1. file \in Seq(Rows) /\ Len(file) \in Nat
      BY FileOfRows DEF Inv
    <2>2. rows = file
      BY DEF Inv, Cursor, ReadHeader
    <2>3. rows = <<>> <=> Len(rows) = 0
      BY <2>1, <2>2, EmptySeq
    <2>4. QED
      BY <2>1, <2>2, <2>3 DEF Read
  <1>2. CASE rows # <<>> /\ Head(rows).kind = "header"
    <2>1. /\ rows' = Tail(rows) /\ file' = file /\ pc' = "rows"
          /\ result' = result
      BY <1>2 DEF ReadHeader
    <2>2. /\ rows' \in Seq(Rows) /\ Len(rows') = Len(rows) - 1
          /\ \A i \in 1..Len(rows') : rows'[i] = rows[i + 1]
          /\ Head(rows) = rows[1]
      BY <1>1, <1>2, <2>1, HeadTailProperties
    <2>3. Read' = 1
      BY <1>1, <2>1, <2>2 DEF Read
    <2>4. Cursor'
      BY <1>1, <1>2, <2>1, <2>2, <2>3 DEF Cursor
    <2>5. \A k : ReadRows(k)' = ReadRows(k)
      BY <1>1, <2>1, <2>3 DEF ReadRows
    <2>6. TypeOK'
      BY <2>1, <2>2 DEF Inv, TypeOK, ReadHeader, symbols, scalars
    <2>7. Metadata' /\ InfoAgrees' /\ EntrypointMarked'
      BY <2>5 DEF ReadHeader, symbols, scalars, Inv, Metadata, InfoAgrees,
        EntrypointMarked
    <2>8. Completeness' /\ Outcome'
      BY <2>1, <2>5 DEF ReadHeader, scalars, Inv, Completeness, Outcome
    <2>9. QED
      BY <2>4, <2>6, <2>7, <2>8 DEF Inv
  <1>3. CASE ~(rows # <<>> /\ Head(rows).kind = "header")
    <2>1. rows' = rows /\ file' = file /\ pc' = "returned" /\ result' = 1
      BY <1>3 DEF ReadHeader, Return
    <2>2. file = <<>> \/ file[1].kind # "header"
      BY <1>1, <1>3, HeadTailProperties
    <2>3. Read' = Read
      BY <2>1 DEF Read
    <2>4. Cursor'
      BY <2>1, <2>3 DEF Inv, Cursor
    <2>5. \A k : ReadRows(k)' = ReadRows(k)
      BY <2>1, <2>3 DEF ReadRows
    <2>6. TypeOK'
      BY <2>1 DEF Inv, TypeOK, ReadHeader, symbols, scalars
    <2>7. Metadata' /\ InfoAgrees' /\ EntrypointMarked'
      BY <2>5 DEF ReadHeader, symbols, scalars, Inv, Metadata, InfoAgrees,
        EntrypointMarked
    <2>8. Completeness' /\ Outcome'
      BY <2>1, <2>2, <2>5 DEF ReadHeader, scalars, Inv, Completeness, Outcome
    <2>9. QED
      BY <2>4, <2>6, <2>7, <2>8 DEF Inv
  <1>4. QED
    BY <1>2, <1>3

\* The end of the file: the outcome is decided.
LEMMA EndStep == Inv /\ EndRows => Inv'
  <1> SUFFICES ASSUME Inv, EndRows PROVE Inv'
    OBVIOUS
  <1>1. /\ rows = <<>> /\ rows' = rows /\ file' = file /\ pc' = "returned"
        /\ result' = IF Complete THEN 0 ELSE 1
        /\ file[1].kind = "header" /\ Read >= 1
    BY DEF EndRows, Return, Inv, Cursor
  <1>2. file # <<>>
    <2>1. Len(<<>>) = 0
      BY EmptySeq
    <2>2. QED
      BY <1>1, <2>1 DEF Read
  <1>3. Read' = Read /\ \A k : ReadRows(k)' = ReadRows(k)
    BY <1>1 DEF Read, ReadRows
  <1>4. Cursor'
    BY <1>1, <1>3 DEF Inv, Cursor
  <1>5. TypeOK'
    BY <1>1 DEF Inv, TypeOK, EndRows, symbols, scalars
  <1>6. Metadata' /\ InfoAgrees' /\ EntrypointMarked'
    BY <1>3 DEF EndRows, symbols, scalars, Inv, Metadata, InfoAgrees,
      EntrypointMarked
  <1>7. Completeness'
    BY <1>3 DEF EndRows, scalars, Inv, Completeness
  <1>8. Outcome'
    <2>1. Complete' <=> Complete
      BY DEF EndRows, scalars, Complete
    <2>2. result' = 0 <=> Complete'
      BY <1>1, <2>1
    <2>3. QED
      BY <1>1, <1>2, <2>2 DEF Outcome
  <1>9. QED
    BY <1>4, <1>5, <1>6, <1>7, <1>8 DEF Inv

\* Rows without a trace.
LEMMA IgnoredStep == Inv /\ Ignored => Inv'
  <1> SUFFICES ASSUME Inv, Ignored PROVE Inv'
    OBVIOUS
  <1>1. /\ pc = "rows" /\ rows # <<>> /\ NextRow
        /\ row.kind \in {"other", "note", "header"}
    BY DEF Ignored, Row, row
  <1>2. /\ TypeOK' /\ Cursor' /\ Outcome'
    BY <1>1, RowRead DEF Inv, TypeOK, Ignored, symbols, scalars
  <1>3. \A k \in {"mem_attrs", "entrypoint", "export", "import", "end", "bits"} :
          ReadRows(k)' = ReadRows(k)
    BY <1>1, OtherRows
  <1>4. Metadata' /\ InfoAgrees' /\ EntrypointMarked' /\ Completeness'
    BY <1>3, ZenonT(30) DEF Ignored, symbols, scalars, Inv, Metadata, InfoAgrees,
      EntrypointMarked, Completeness
  <1>5. QED
    BY <1>2, <1>4 DEF Inv

\* The row that says the file is complete.
LEMMA EndRowStep == Inv /\ End => Inv'
  <1> SUFFICES ASSUME Inv, End PROVE Inv'
    OBVIOUS
  <1>1. pc = "rows" /\ rows # <<>> /\ NextRow /\ row.kind = "end"
    BY DEF End, Row, row
  <1>2. /\ TypeOK' /\ Cursor' /\ Outcome'
    BY <1>1, RowRead DEF Inv, TypeOK, End, symbols, scalars
  <1>3. /\ \A k \in {"mem_attrs", "entrypoint", "export", "import", "bits"} :
             ReadRows(k)' = ReadRows(k)
        /\ ReadRows("end")' = ReadRows("end") \cup {row}
    BY <1>1, RowRead
  <1>4. Metadata' /\ InfoAgrees' /\ EntrypointMarked'
    BY <1>3, ZenonT(30) DEF End, symbols, scalars, Inv, Metadata, InfoAgrees,
      EntrypointMarked
  <1>5. Completeness'
    BY <1>3 DEF End, scalars, Inv, Completeness
  <1>6. QED
    BY <1>2, <1>4, <1>5 DEF Inv

\* The row that says for which mode the code is.
LEMMA BitsStep == Inv /\ Bits => Inv'
  <1> SUFFICES ASSUME Inv, Bits PROVE Inv'
    OBVIOUS
  <1>1. pc = "rows" /\ rows # <<>> /\ NextRow /\ row.kind = "bits"
    BY DEF Bits, Row, row
  <1>2. row.bits \in {0, 16, 32, 64}
    BY <1>1, RowRead DEF Rows
  <1>3. /\ TypeOK' /\ Cursor' /\ Outcome'
    BY <1>1, <1>2, RowRead DEF Inv, TypeOK, Bits, symbols, scalars
  <1>4. /\ \A k \in {"mem_attrs", "entrypoint", "export", "import", "end"} :
             ReadRows(k)' = ReadRows(k)
        /\ ReadRows("bits")' = ReadRows("bits") \cup {row}
    BY <1>1, RowRead
  <1>5. Metadata' /\ InfoAgrees' /\ EntrypointMarked'
    BY <1>4, ZenonT(30) DEF Bits, symbols, scalars, Inv, Metadata, InfoAgrees,
      EntrypointMarked
  <1>6. Completeness'
    BY <1>4 DEF Bits, Inv, Completeness
  <1>7. QED
    BY <1>3, <1>5, <1>6 DEF Inv

\* Rows that set a number and nothing else.
LEMMA NumberStep == Inv /\ (Origin \/ StartOffset) => Inv'
  <1> SUFFICES ASSUME Inv, Origin \/ StartOffset PROVE Inv'
    OBVIOUS
  <1>1. /\ pc = "rows" /\ rows # <<>> /\ NextRow
        /\ row.kind \in {"origin", "start_offset"}
    BY DEF Origin, StartOffset, Row, row
  <1>2. row.at \in Nat
    BY <1>1, RowRead DEF Rows
  <1>3. /\ TypeOK' /\ Cursor' /\ Outcome'
    BY <1>1, <1>2, RowRead DEF Inv, TypeOK, Origin, StartOffset, symbols, scalars
  <1>4. \A k \in {"mem_attrs", "entrypoint", "export", "import", "end", "bits"} :
          ReadRows(k)' = ReadRows(k)
    BY <1>1, OtherRows
  <1>5. /\ UNCHANGED <<executable, in_front, extended, ext_metadata_map, import_set>>
        /\ UNCHANGED <<entrypoint, actual_bits, success>>
    BY DEF Origin, StartOffset, symbols
  <1>6. Metadata' /\ InfoAgrees' /\ EntrypointMarked' /\ Completeness'
    BY <1>4, <1>5, ZenonT(30) DEF Inv, Metadata, InfoAgrees, EntrypointMarked, Completeness
  <1>7. QED
    BY <1>3, <1>6 DEF Inv

\* The symbol an import was bound to.
LEMMA BoundStep == Inv /\ Bound => Inv'
  <1> SUFFICES ASSUME Inv, Bound PROVE Inv'
    OBVIOUS
  <1>1. pc = "rows" /\ rows # <<>> /\ NextRow /\ row.kind = "bound"
    BY DEF Bound, Row, row
  <1>2. row.symbol \in Symbols \cup {""}
    BY <1>1, RowRead DEF Rows
  <1>3. /\ TypeOK' /\ Cursor' /\ Outcome'
    BY <1>1, <1>2, RowRead DEF Inv, TypeOK, Bound, symbols, scalars
  <1>4. \A k \in {"mem_attrs", "entrypoint", "export", "import", "end", "bits"} :
          ReadRows(k)' = ReadRows(k)
    BY <1>1, OtherRows
  <1>5. Metadata' /\ InfoAgrees' /\ EntrypointMarked' /\ Completeness'
    BY <1>4, ZenonT(30) DEF Bound, symbols, scalars, Inv, Metadata, InfoAgrees,
      EntrypointMarked, Completeness
  <1>6. QED
    BY <1>3, <1>5 DEF Inv

\* The attributes of a range are added to those of its bytes: of the image, and
\* of what lies in front of the metadata.
LEMMA MemAttrsStep == Inv /\ MemAttrs => Inv'
  <1> SUFFICES ASSUME Inv, MemAttrs PROVE Inv'
    OBVIOUS
  <1>1. pc = "rows" /\ rows # <<>> /\ NextRow /\ row.kind = "mem_attrs"
    BY DEF MemAttrs, Row, row
  <1>2. row.x \in BOOLEAN /\ row.at \in Int /\ row.size \in Int
    BY <1>1, RowRead DEF Rows
  <1>3. \A o \in Int : o \in RangeOf(row) <=> o < Size /\ o - row.at \in 0..(row.size - 1)
    BY <1>2, SizeAssumption DEF RangeOf
  <1>4. /\ RangeOf(row) \subseteq Int /\ Offset \subseteq Int
        /\ \A o \in RangeOf(row) \ Offset : o < 0
        /\ \A o \in Int : o < 0 => o < Size /\ o \notin Offset
    BY <1>2, SizeAssumption DEF RangeOf, Offset
  <1>5. /\ executable' \subseteq Offset
        /\ \A o \in in_front' : o \in Int /\ o < 0
    BY <1>4 DEF Inv, TypeOK, MemAttrs
  <1>6. /\ TypeOK' /\ Cursor' /\ Outcome'
    BY <1>1, <1>5, RowRead DEF Inv, TypeOK, MemAttrs, symbols, scalars
  <1>7. /\ \A k \in {"entrypoint", "export", "import", "end", "bits"} :
             ReadRows(k)' = ReadRows(k)
        /\ ReadRows("mem_attrs")' = ReadRows("mem_attrs") \cup {row}
    BY <1>1, RowRead
  <1>8. InfoAgrees' /\ EntrypointMarked' /\ Completeness'
    BY <1>7 DEF MemAttrs, symbols, scalars, Inv, InfoAgrees,
      EntrypointMarked, Completeness
  <1>9. Metadata'
    <2>1. \A o \in Offset : o \in RangeOf(row) <=> o - row.at \in 0..(row.size - 1)
      BY <1>2, SizeAssumption DEF RangeOf, Offset
    <2>2. executable' = {o \in Offset : \E r \in ReadRows("mem_attrs") \cup {row} :
                           r.x /\ o - r.at \in 0..(r.size - 1)}
      BY <1>2, <2>1 DEF MemAttrs, Inv, Metadata
    <2>3. ASSUME NEW o \in Int
          PROVE  o \in in_front' <=>
                   o < 0 /\ \E r \in ReadRows("mem_attrs") \cup {row} :
                               o - r.at \in 0..(r.size - 1)
      <3>1. o \in in_front <=>
              o < 0 /\ \E r \in ReadRows("mem_attrs") : o - r.at \in 0..(r.size - 1)
        BY DEF Inv, Metadata
      <3>2. o \in RangeOf(row) \ Offset <=> o < 0 /\ o - row.at \in 0..(row.size - 1)
        BY <1>3, <1>4
      <3>3. o \in in_front' <=> o \in in_front \/ o \in RangeOf(row) \ Offset
        BY DEF MemAttrs
      <3>4. QED
        BY <3>1, <3>2, <3>3
    <2>4. extended' = extended
      BY DEF MemAttrs
    <2>5. QED
      BY <1>7, <2>2, <2>3, <2>4 DEF Inv, Metadata
  <1>10. QED
    BY <1>6, <1>8, <1>9 DEF Inv

\* A run that ends at a byte in front of the metadata is at a row whose range
\* begins there.
LEMMA CrashStep == Inv /\ Crash => Inv'
  <1> SUFFICES ASSUME Inv, Crash PROVE Inv'
    OBVIOUS
  <1>1. /\ pc = "rows" /\ rows # <<>> /\ row.kind = "mem_attrs"
        /\ ~(RangeOf(row) \subseteq Offset) /\ pc' = "crashed"
        /\ UNCHANGED <<file, rows, executable, in_front, extended, success, result>>
        /\ UNCHANGED <<ext_metadata_map, import_set, actual_symbol_imports>>
        /\ UNCHANGED <<origin, entrypoint, start_offset, actual_bits>>
    BY DEF Crash, Row, row, symbols, scalars
  <1>2. /\ file \in Seq(Rows) /\ Len(file) \in Nat
        /\ rows \in Seq(Rows) /\ Len(rows) \in Nat \ {0}
    BY <1>1, FileOfRows, EmptySeq DEF Inv, TypeOK
  <1>3. /\ Read + 1 \in 2..Len(file) /\ file[Read + 1] = row /\ row \in Rows
    <2>1. row = rows[1] /\ rows[1] \in Rows
      BY <1>1, <1>2, HeadTailProperties, ElementOfSeq DEF row
    <2>2. Len(rows) <= Len(file) /\ Read >= 1 /\ rows[1] = file[Read + 1]
      BY <1>1, <1>2 DEF Inv, Cursor
    <2>3. QED
      BY <1>2, <2>1, <2>2 DEF Read
  <1>4. row \in RowsOf("mem_attrs")
    BY <1>1, <1>3 DEF RowsOf
  <1>5. row.at < 0 /\ row.size > 0
    <2>1. row.at \in Int /\ row.size \in Int
      BY <1>1, <1>3 DEF Rows
    <2>2. QED
      BY <1>1, <2>1, SizeAssumption DEF RangeOf, Offset
  <1>6. RowsOf("mem_attrs")' = RowsOf("mem_attrs")
    BY <1>1 DEF RowsOf
  <1>7. Outcome'
    BY <1>1, <1>4, <1>5, <1>6 DEF Outcome
  <1>8. Read' = Read /\ \A k : ReadRows(k)' = ReadRows(k)
    BY <1>1 DEF Read, ReadRows
  <1>9. TypeOK' /\ Cursor'
    BY <1>1, <1>8 DEF Inv, TypeOK, Cursor
  <1>10. Metadata' /\ InfoAgrees' /\ EntrypointMarked' /\ Completeness'
    BY <1>1, <1>8, ZenonT(30) DEF Inv, Metadata, InfoAgrees, EntrypointMarked,
      Completeness
  <1>11. QED
    BY <1>7, <1>9, <1>10 DEF Inv

\* A row that names an offset of the image flags it.
LEMMA FlaggedRow ==
  ASSUME Metadata, row.at \in Offset,
         NEW k \in {"entrypoint", "export", "import"},
         k = "import" => row.symbol # "",
         ReadRows(k)' = ReadRows(k) \cup {row},
         \A l \in {"mem_attrs", "entrypoint", "export", "import"} \ {k} :
           ReadRows(l)' = ReadRows(l),
         executable' = executable, in_front' = in_front,
         extended' = extended \cup {row.at}
  PROVE  Metadata'
  <1> DEFINE Flagged(o, entrypoints, exports, imports) ==
               \/ \E r \in entrypoints : r.at = o
               \/ \E r \in exports : r.at = o
               \/ \E r \in imports : r.at = o /\ r.symbol # ""
  <1>1. /\ executable' = {o \in Offset : \E r \in ReadRows("mem_attrs")' :
                         r.x /\ o - r.at \in 0..(r.size - 1)}
        /\ \A o \in Int : o \in in_front' <=>
             o < 0 /\ \E r \in ReadRows("mem_attrs")' : o - r.at \in 0..(r.size - 1)
    BY DEF Metadata
  <1>2. extended = {o \in Offset : Flagged(o, ReadRows("entrypoint"),
                      ReadRows("export"), ReadRows("import"))}
    BY DEF Metadata
  <1>3. ASSUME NEW o \in Offset
        PROVE  Flagged(o, ReadRows("entrypoint")', ReadRows("export")',
                       ReadRows("import")')
                 <=> \/ o = row.at
                     \/ Flagged(o, ReadRows("entrypoint"), ReadRows("export"),
                                ReadRows("import"))
    <2>1. CASE k = "entrypoint"
      BY <2>1
    <2>2. CASE k = "export"
      BY <2>2
    <2>3. CASE k = "import"
      BY <2>3
    <2>4. QED
      BY <2>1, <2>2, <2>3
  <1>4. extended' = {o \in Offset : Flagged(o, ReadRows("entrypoint")',
                       ReadRows("export")', ReadRows("import")')}
    <2> HIDE DEF Flagged
    <2>1. QED
      BY <1>2, <1>3
  <1>5. QED
    BY <1>1, <1>4 DEF Metadata

\* The entrypoint, which the last row that names one in the image decides.
LEMMA EntrypointStep == Inv /\ Entrypoint => Inv'
  <1> SUFFICES ASSUME Inv, Entrypoint PROVE Inv'
    OBVIOUS
  <1> DEFINE at == row.at
             info == [Info(at) EXCEPT !.is_entrypoint = TRUE]
  <1>1. pc = "rows" /\ rows # <<>> /\ NextRow /\ row.kind = "entrypoint"
    BY DEF Entrypoint, Row, row
  <1>2. /\ \A k \in {"mem_attrs", "export", "import", "end", "bits"} :
             ReadRows(k)' = ReadRows(k)
        /\ ReadRows("entrypoint")' = ReadRows("entrypoint") \cup {row}
        /\ Cursor' /\ Outcome'
    BY <1>1, RowRead
  <1>3. /\ UNCHANGED <<executable, in_front, import_set, actual_symbol_imports, origin>>
        /\ UNCHANGED <<start_offset, actual_bits, success>>
    BY DEF Entrypoint
  <1>4. Completeness'
    BY <1>2, <1>3 DEF Inv, Completeness
  <1>5. CASE at \notin Offset
    <2>1. UNCHANGED <<entrypoint, extended, ext_metadata_map>>
      BY <1>5 DEF Entrypoint, InImage
    <2>2. TypeOK'
      BY <1>1, <1>3, <2>1, RowRead DEF Inv, TypeOK
    <2>3. Metadata'
      BY <1>2, <1>3, <1>5, <2>1 DEF Inv, Metadata
    <2>4. InfoAgrees' /\ EntrypointMarked'
      BY <1>2, <1>3, <1>5, <2>1 DEF Inv, InfoAgrees, EntrypointMarked
    <2>5. QED
      BY <1>2, <1>4, <2>2, <2>3, <2>4 DEF Inv
  <1>6. CASE at \in Offset
    <2>1. entrypoint' = at /\ Flag(at) /\ SetInfo(at, info)
      BY <1>6 DEF Entrypoint, InImage
    <2>2. /\ Info(at) \in InfoRecords
          /\ Info(at).is_import <=> at \in import_set
          /\ Info(at).is_import => Info(at).symbol # ""
      BY <1>6, InfoBefore DEF Inv
    <2>3. /\ info \in InfoRecords /\ info.is_entrypoint
          /\ info.is_import = Info(at).is_import
          /\ info.symbol = Info(at).symbol
      BY <2>2 DEF InfoRecords
    <2>4. /\ info.is_import => info.symbol # ""
          /\ info.is_import => import_set' = import_set \cup {at}
          /\ ~info.is_import => import_set' = import_set /\ at \notin import_set
      BY <1>3, <2>2, <2>3
    <2>5. /\ InfoAgrees'
          /\ extended' \subseteq Offset
          /\ DOMAIN ext_metadata_map' \subseteq Offset
          /\ \A o \in DOMAIN ext_metadata_map' : ext_metadata_map'[o] \in InfoRecords
          /\ import_set' \subseteq Offset
          /\ extended' = extended \cup {at}
          /\ ext_metadata_map'[at] = info
      BY <1>6, <2>1, <2>3, <2>4, InfoWritten DEF Inv
    <2>6. TypeOK'
      BY <1>1, <1>3, <1>6, <2>1, <2>5, RowRead DEF Inv, TypeOK, InfoRecords
    <2>7. Metadata'
      BY <1>2, <1>3, <1>6, <2>5, FlaggedRow DEF Inv
    <2>8. EntrypointMarked'
      BY <2>1, <2>3, <2>5 DEF EntrypointMarked
    <2>9. QED
      BY <1>2, <1>4, <2>5, <2>6, <2>7, <2>8 DEF Inv
  <1>7. QED
    BY <1>5, <1>6

\* Information that is added at an offset leaves the entrypoint marked.
LEMMA EntrypointStays ==
  ASSUME InfoAgrees, EntrypointMarked, NEW at \in Offset,
         ReadRows("entrypoint")' = ReadRows("entrypoint"),
         entrypoint' = entrypoint,
         extended' = extended \cup {at},
         \A o \in extended \ {at} : ext_metadata_map'[o] = ext_metadata_map[o],
         ext_metadata_map'[at].is_entrypoint = Info(at).is_entrypoint
  PROVE  EntrypointMarked'
  <1> SUFFICES ASSUME \E r \in ReadRows("entrypoint") : r.at \in Offset
               PROVE  /\ entrypoint \in extended'
                      /\ ext_metadata_map'[entrypoint].is_entrypoint
    BY DEF EntrypointMarked
  <1>1. entrypoint \in extended /\ ext_metadata_map[entrypoint].is_entrypoint
    BY DEF EntrypointMarked
  <1>2. CASE entrypoint = at
    BY <1>1, <1>2 DEF InfoAgrees, Info
  <1>3. CASE entrypoint # at
    BY <1>1, <1>3
  <1>4. QED
    BY <1>2, <1>3

\* An exported symbol.
LEMMA ExportStep == Inv /\ Export => Inv'
  <1> SUFFICES ASSUME Inv, Export PROVE Inv'
    OBVIOUS
  <1> DEFINE at == row.at
             info == [Info(at) EXCEPT !.export = TRUE]
  <1>1. pc = "rows" /\ rows # <<>> /\ NextRow /\ row.kind = "export"
    BY DEF Export, Row, row
  <1>2. /\ \A k \in {"mem_attrs", "entrypoint", "import", "end", "bits"} :
             ReadRows(k)' = ReadRows(k)
        /\ ReadRows("export")' = ReadRows("export") \cup {row}
        /\ Cursor' /\ Outcome'
    BY <1>1, RowRead
  <1>3. /\ UNCHANGED <<executable, in_front, import_set, actual_symbol_imports, success>>
        /\ UNCHANGED <<origin, entrypoint, start_offset, actual_bits>>
    BY DEF Export, scalars
  <1>4. Completeness'
    BY <1>2, <1>3 DEF Inv, Completeness
  <1>5. CASE at \notin Offset
    <2>1. UNCHANGED <<extended, ext_metadata_map>>
      BY <1>5 DEF Export, InImage
    <2>2. TypeOK'
      BY <1>1, <1>3, <2>1, RowRead DEF Inv, TypeOK
    <2>3. Metadata'
      BY <1>2, <1>3, <1>5, <2>1 DEF Inv, Metadata
    <2>4. InfoAgrees' /\ EntrypointMarked'
      BY <1>2, <1>3, <2>1 DEF Inv, InfoAgrees, EntrypointMarked
    <2>5. QED
      BY <1>2, <1>4, <2>2, <2>3, <2>4 DEF Inv
  <1>6. CASE at \in Offset
    <2>1. Flag(at) /\ SetInfo(at, info)
      BY <1>6 DEF Export, InImage
    <2>2. /\ Info(at) \in InfoRecords
          /\ Info(at).is_import <=> at \in import_set
          /\ Info(at).is_import => Info(at).symbol # ""
      BY <1>6, InfoBefore DEF Inv
    <2>3. /\ info \in InfoRecords
          /\ info.is_import = Info(at).is_import
          /\ info.symbol = Info(at).symbol
          /\ info.is_entrypoint = Info(at).is_entrypoint
      BY <2>2 DEF InfoRecords
    <2>4. /\ info.is_import => info.symbol # ""
          /\ info.is_import => import_set' = import_set \cup {at}
          /\ ~info.is_import => import_set' = import_set /\ at \notin import_set
      BY <1>3, <2>2, <2>3
    <2>5. /\ InfoAgrees'
          /\ extended' \subseteq Offset
          /\ DOMAIN ext_metadata_map' \subseteq Offset
          /\ \A o \in DOMAIN ext_metadata_map' : ext_metadata_map'[o] \in InfoRecords
          /\ import_set' \subseteq Offset
          /\ extended' = extended \cup {at}
          /\ ext_metadata_map'[at] = info
          /\ \A o \in extended \ {at} : ext_metadata_map'[o] = ext_metadata_map[o]
      BY <1>6, <2>1, <2>3, <2>4, InfoWritten DEF Inv
    <2>6. TypeOK'
      BY <1>1, <1>3, <1>6, <2>5, RowRead DEF Inv, TypeOK, InfoRecords
    <2>7. Metadata'
      BY <1>2, <1>3, <1>6, <2>5, FlaggedRow DEF Inv
    <2>8. EntrypointMarked'
      BY <1>2, <1>3, <1>6, <2>3, <2>5, EntrypointStays DEF Inv
    <2>9. QED
      BY <1>2, <1>4, <2>5, <2>6, <2>7, <2>8 DEF Inv
  <1>7. QED
    BY <1>5, <1>6

\* An imported symbol, which replaces the one of an earlier row.
LEMMA ImportStep == Inv /\ Import => Inv'
  <1> SUFFICES ASSUME Inv, Import PROVE Inv'
    OBVIOUS
  <1> DEFINE at == row.at
             info == [Info(at) EXCEPT !.is_import = TRUE, !.symbol = row.symbol]
  <1>1. pc = "rows" /\ rows # <<>> /\ NextRow /\ row.kind = "import"
    BY DEF Import, Row, row
  <1>2. /\ \A k \in {"mem_attrs", "entrypoint", "export", "end", "bits"} :
             ReadRows(k)' = ReadRows(k)
        /\ ReadRows("import")' = ReadRows("import") \cup {row}
        /\ Cursor' /\ Outcome' /\ row.symbol \in Symbols \cup {""}
    BY <1>1, RowRead DEF Rows
  <1>3. /\ UNCHANGED <<executable, in_front, actual_symbol_imports, success>>
        /\ UNCHANGED <<origin, entrypoint, start_offset, actual_bits>>
    BY DEF Import, scalars
  <1>4. Completeness'
    BY <1>2, <1>3 DEF Inv, Completeness
  <1>5. CASE at \notin Offset \/ row.symbol = ""
    <2>1. UNCHANGED <<extended, ext_metadata_map, import_set>>
      BY <1>5 DEF Import, InImage
    <2>2. TypeOK'
      BY <1>1, <1>3, <2>1, RowRead DEF Inv, TypeOK
    <2>3. Metadata'
      BY <1>2, <1>3, <1>5, <2>1 DEF Inv, Metadata
    <2>4. InfoAgrees' /\ EntrypointMarked'
      BY <1>2, <1>3, <2>1 DEF Inv, InfoAgrees, EntrypointMarked
    <2>5. QED
      BY <1>2, <1>4, <2>2, <2>3, <2>4 DEF Inv
  <1>6. CASE at \in Offset /\ row.symbol # ""
    <2>1. /\ Flag(at) /\ SetInfo(at, info)
          /\ import_set' = import_set \cup {at}
      BY <1>6 DEF Import, InImage
    <2>2. Info(at) \in InfoRecords
      BY <1>6, InfoBefore DEF Inv
    <2>3. /\ info \in InfoRecords
          /\ info.is_import /\ info.symbol # ""
          /\ info.is_entrypoint = Info(at).is_entrypoint
      BY <1>2, <1>6, <2>2 DEF InfoRecords
    <2>4. /\ InfoAgrees'
          /\ extended' \subseteq Offset
          /\ DOMAIN ext_metadata_map' \subseteq Offset
          /\ \A o \in DOMAIN ext_metadata_map' : ext_metadata_map'[o] \in InfoRecords
          /\ import_set' \subseteq Offset
          /\ extended' = extended \cup {at}
          /\ ext_metadata_map'[at] = info
          /\ \A o \in extended \ {at} : ext_metadata_map'[o] = ext_metadata_map[o]
      BY <1>6, <2>1, <2>3, InfoWritten DEF Inv
    <2>5. TypeOK'
      BY <1>1, <1>3, <1>6, <2>4, RowRead DEF Inv, TypeOK, InfoRecords
    <2>6. Metadata'
      BY <1>2, <1>3, <1>6, <2>4, FlaggedRow DEF Inv
    <2>7. EntrypointMarked'
      BY <1>2, <1>3, <1>6, <2>3, <2>4, EntrypointStays DEF Inv
    <2>8. QED
      BY <1>2, <1>4, <2>4, <2>5, <2>6, <2>7 DEF Inv
  <1>7. QED
    BY <1>5, <1>6

\* Every step keeps the invariant.
LEMMA InvStep == Inv /\ [Next]_vars => Inv'
  <1> SUFFICES ASSUME Inv, [Next]_vars PROVE Inv'
    OBVIOUS
  <1>1. CASE Returned \/ UNCHANGED vars
    <2>1. /\ UNCHANGED <<file, rows, executable, in_front, extended, ext_metadata_map>>
          /\ UNCHANGED <<import_set, actual_symbol_imports, origin, entrypoint>>
          /\ UNCHANGED <<start_offset, actual_bits, success, pc, result>>
      BY <1>1 DEF Returned, vars, symbols, scalars
    <2>2. Read' = Read /\ \A k : ReadRows(k)' = ReadRows(k)
      BY <2>1 DEF Read, ReadRows
    <2>3. TypeOK'
      BY <2>1 DEF Inv, TypeOK
    <2>4. Cursor' /\ Outcome'
      BY <2>1, <2>2 DEF Inv, Cursor, Outcome, Complete, RowsOf
    <2>5. Metadata' /\ Completeness'
      BY <2>1, <2>2 DEF Inv, Metadata, Completeness
    <2>6. InfoAgrees' /\ EntrypointMarked'
      BY <2>1, <2>2 DEF Inv, InfoAgrees, EntrypointMarked
    <2>7. QED
      BY <2>3, <2>4, <2>5, <2>6 DEF Inv
  <1>2. CASE Step
    BY <1>2, HeaderStep, EndStep, IgnoredStep, EndRowStep, BitsStep, NumberStep,
      EntrypointStep, ExportStep, ImportStep, BoundStep, MemAttrsStep,
      CrashStep DEF Step
  <1>3. QED
    BY <1>1, <1>2 DEF Next

\* Nothing has been read, and nothing is known of the image, at first.
LEMMA InvInit == Init => Inv
  <1> SUFFICES ASSUME Init PROVE Inv
    OBVIOUS
  <1>1. file \in Files /\ file \in Seq(Rows) /\ Len(file) \in Nat /\ rows = file
    BY FilesAssumption, LenProperties DEF Init
  <1>2. Read = 0
    BY <1>1 DEF Read
  <1>3. \A k : ReadRows(k) = {}
    BY <1>2 DEF ReadRows
  <1>4. DOMAIN ext_metadata_map = {}
    BY DEF Init
  <1>5. 0 \in Offset
    BY SizeAssumption DEF Offset
  <1>6. TypeOK
    BY <1>1, <1>4, <1>5 DEF Init, TypeOK
  <1>7. Cursor /\ Outcome
    BY <1>1, <1>2 DEF Init, Cursor, Outcome
  <1>8. Metadata /\ Completeness
    BY <1>3 DEF Init, Metadata, Completeness
  <1>9. InfoAgrees /\ EntrypointMarked
    BY <1>3, <1>4 DEF Init, InfoAgrees, EntrypointMarked
  <1>10. QED
    BY <1>6, <1>7, <1>8, <1>9 DEF Inv

\* The invariant holds in every state.
LEMMA InvAlways == Spec => []Inv
BY InvInit, InvStep, PTL DEF Spec

-----------------------------------------------------------------------------
(* What the sweep can rely on *)

\* Once the loader is done with a file that has a header, all of its rows
\* have been read.
LEMMA AllRead ==
  ASSUME Inv, pc = "returned", rows = <<>>
  PROVE  \A k : ReadRows(k) = RowsOf(k)
  <1>1. Read = Len(file)
    <2>1. Len(rows) = 0 /\ Len(file) \in Nat
      BY FileOfRows, EmptySeq DEF Inv
    <2>2. QED
      BY <2>1 DEF Read
  <1>2. QED
    BY <1>1 DEF ReadRows, RowsOf

\* Success is returned only when all rows have been read.
LEMMA LoadedAllRead ==
  ASSUME Inv, Loaded
  PROVE  \A k : ReadRows(k) = RowsOf(k)
  <1>1. pc = "returned" /\ rows = <<>>
    BY DEF Inv, Outcome, Loaded
  <1>2. QED
    BY <1>1, AllRead

\* The flag in the metadata, the map of extended information and the set of
\* imports agree, every import has a symbol, and the entrypoint of a loaded
\* image has its remark, whichever rows name the same offset and in whatever
\* order they come, as long as none has written in front of the metadata.
THEOREM InfoAlwaysConsistent == Spec => []InfoConsistent
  <1>1. Inv => InfoConsistent
    <2> SUFFICES ASSUME Inv PROVE InfoConsistent
      OBVIOUS
    <2>1. (Loaded /\ \E r \in RowsOf("entrypoint") : r.at \in Offset) =>
            entrypoint \in extended /\ ext_metadata_map[entrypoint].is_entrypoint
      BY LoadedAllRead DEF Inv, EntrypointMarked
    <2>2. QED
      BY <2>1 DEF InfoConsistent, Inv, InfoAgrees
  <1>2. QED
    BY <1>1, InvAlways, PTL

\* What a mem_attrs row covers of the image, or of what is in front of it.
LEMMA CoversProperty ==
  ASSUME NEW r, r.at \in Int, r.size \in Int
  PROVE  /\ \A o \in Int : o \in Covers(r, 0, Size - 1)
                           <=> o \in Offset /\ o - r.at \in 0..(r.size - 1)
         /\ \A o \in Int : o \in Covers(r, r.at, -1)
                           <=> o < 0 /\ o - r.at \in 0..(r.size - 1)
         /\ Covers(r, 0, Size - 1) \subseteq Int /\ Covers(r, r.at, -1) \subseteq Int
BY SizeAssumption DEF Covers, Offset

\* The mem_attrs rows of a description have numbers.
LEMMA AttrsOfRows ==
  ASSUME TypeOK, NEW r \in RowsOf("mem_attrs")
  PROVE  r.x \in BOOLEAN /\ r.at \in Int /\ r.size \in Int
  <1>1. file \in Seq(Rows) /\ Len(file) \in Nat
    BY FileOfRows
  <1>2. PICK i \in 2..Len(file) : r = file[i] /\ file[i].kind = "mem_attrs"
    BY DEF RowsOf
  <1>3. file[i] \in Rows
    BY <1>1, <1>2, ElementOfSeq
  <1>4. QED
    BY <1>2, <1>3 DEF Rows

\* When a description has been loaded, what was changed in front of the
\* metadata is what its ranges cover there, and if that is nothing, the
\* metadata are what its rows say, wherever in the file they are and however
\* far they run beyond the image. A load ends before that only at a range that
\* begins below 0.
THEOREM MetadataAlwaysOfRows == Spec => []MetadataOfRows
  <1>1. ASSUME Inv, Loaded
        PROVE  in_front = UNION {Covers(r, r.at, -1) : r \in RowsOf("mem_attrs")}
    <2>1. /\ \A o \in in_front : o \in Int /\ o < 0
          /\ \A o \in Int : o \in in_front <=>
               o < 0 /\ \E r \in RowsOf("mem_attrs") : o - r.at \in 0..(r.size - 1)
      <3>1. \A k : ReadRows(k) = RowsOf(k)
        BY <1>1, LoadedAllRead
      <3>2. Metadata /\ \A o \in in_front : o \in Int /\ o < 0
        BY <1>1 DEF Inv, TypeOK
      <3>3. QED
        BY <3>1, <3>2 DEF Metadata
    <2>2. \A r \in RowsOf("mem_attrs") :
            /\ Covers(r, r.at, -1) \subseteq Int
            /\ \A o \in Int : o \in Covers(r, r.at, -1)
                              <=> o < 0 /\ o - r.at \in 0..(r.size - 1)
      BY <1>1, AttrsOfRows, CoversProperty DEF Inv
    <2>3. QED
      BY <2>1, <2>2
  <1>2. ASSUME Inv, Loaded
        PROVE  executable = UNION {Covers(r, 0, Size - 1) :
                                     r \in {q \in RowsOf("mem_attrs") : q.x}}
    <2>1. executable = {o \in Offset : \E r \in RowsOf("mem_attrs") :
                          r.x /\ o - r.at \in 0..(r.size - 1)}
      <3>1. \A k : ReadRows(k) = RowsOf(k)
        BY <1>2, LoadedAllRead
      <3>2. Metadata
        BY <1>2 DEF Inv
      <3>3. QED
        BY <3>1, <3>2 DEF Metadata
    <2>2. \A r \in RowsOf("mem_attrs") :
            /\ Covers(r, 0, Size - 1) \subseteq Int
            /\ \A o \in Int : o \in Covers(r, 0, Size - 1)
                              <=> o \in Offset /\ o - r.at \in 0..(r.size - 1)
      BY <1>2, AttrsOfRows, CoversProperty DEF Inv
    <2>3. Offset \subseteq Int
      BY SizeAssumption DEF Offset
    <2>4. QED
      BY <2>1, <2>2, <2>3
  <1>3. ASSUME Inv, Loaded
        PROVE  extended = {o \in Offset :
                 \/ \E r \in RowsOf("entrypoint") \cup RowsOf("export") : r.at = o
                 \/ \E r \in RowsOf("import") : r.at = o /\ r.symbol # ""}
    <2>1. \A k : ReadRows(k) = RowsOf(k)
      BY <1>3, LoadedAllRead
    <2>2. Metadata
      BY <1>3 DEF Inv
    <2>3. QED
      BY <2>1, <2>2 DEF Metadata
  <1>4. Inv => MetadataOfRows
    BY <1>1, <1>2, <1>3 DEF MetadataOfRows, Inv, Outcome
  <1>5. QED
    BY <1>4, InvAlways, PTL

\* init returns success for exactly the files with a header, a row that ends
\* them and a row with the mode of the code (and no range below 0).
THEOREM AcceptsExactlyComplete == Spec => []AcceptsComplete
  <1>1. Inv => AcceptsComplete
    <2> SUFFICES ASSUME Inv, pc = "returned"
                 PROVE  (result = 0) = (/\ file # <<>> /\ file[1].kind = "header"
                                        /\ RowsOf("end") # {}
                                        /\ \E r \in RowsOf("bits") : r.bits # 0)
      BY DEF AcceptsComplete
    <2>1. CASE /\ rows = <<>> /\ file # <<>> /\ file[1].kind = "header"
               /\ result = 0 <=> Complete
      <3>1. ReadRows("end") = RowsOf("end") /\ ReadRows("bits") = RowsOf("bits")
        BY <2>1, AllRead
      <3>2. Complete <=> /\ RowsOf("end") # {}
                         /\ \E r \in RowsOf("bits") : r.bits # 0
        BY <3>1 DEF Inv, Completeness, Complete
      <3>3. QED
        BY <2>1, <3>2
    <2>2. CASE result = 1 /\ (file = <<>> \/ file[1].kind # "header")
      <3>1. (result = 0) = FALSE
        BY <2>2
      <3>2. ~(file # <<>> /\ file[1].kind = "header")
        BY <2>2
      <3>3. QED
        BY <3>1, <3>2
    <2>3. QED
      BY <2>1, <2>2 DEF Inv, Outcome
  <1>2. QED
    BY <1>1, InvAlways, PTL
=============================================================================
