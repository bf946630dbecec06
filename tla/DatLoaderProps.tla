-------------------------- MODULE DatLoaderProps ---------------------------
(***************************************************************************)
(* What the sweep can rely on once a load description has been read.  The  *)
(* references look at all rows of the file at once, in no order.           *)
(***************************************************************************)
EXTENDS DatLoader

Loaded == pc = "returned" /\ result = 0
RowsOf(kind) == {file[i] : i \in {j \in 2..Len(file) : file[j].kind = kind}}

\* The types of the variables, a part of the first invariant below.
TypeOK ==
  /\ file \in Files /\ rows \in Seq(Rows)
  /\ executable \subseteq Offset /\ extended \subseteq Offset
  /\ \A o \in in_front : o \in Int /\ o < 0
  /\ DOMAIN ext_metadata_map \subseteq Offset
  /\ \A o \in DOMAIN ext_metadata_map :
       ext_metadata_map[o] \in [is_entrypoint : BOOLEAN, export : BOOLEAN,
                                is_import : BOOLEAN, symbol : Symbols \cup {""}]
  /\ import_set \subseteq Offset /\ actual_symbol_imports \subseteq Symbols
  /\ origin \in Nat /\ entrypoint \in Offset /\ start_offset \in Nat
  /\ actual_bits \in {0, 16, 32, 64}
  /\ success \in BOOLEAN
  /\ pc \in {"header", "rows", "returned", "crashed"} /\ result \in {0, 1}

\* No row has made the loader write in front of the metadata. What such a write
\* changes may be of any data of the program, so the properties below claim
\* nothing once there was one, except of the writes themselves.
InBounds == in_front = {}

\* disassemble looks up extended information exactly where the metadata says
\* that there is some, and lists an import from the entry of its offset: the
\* flag, the map and the set of imports never disagree, whatever rows name
\* the same offset, and every import has a symbol to print.  The entrypoint
\* that the header names, if a row gave one of the image, has its remark.
InfoConsistent ==
  TypeOK /\ (InBounds =>
    /\ extended = DOMAIN ext_metadata_map
    /\ import_set = {o \in DOMAIN ext_metadata_map : ext_metadata_map[o].is_import}
    /\ \A o \in import_set : ext_metadata_map[o].symbol # ""
    /\ (Loaded /\ \E r \in RowsOf("entrypoint") : r.at \in Offset) =>
         entrypoint \in extended /\ ext_metadata_map[entrypoint].is_entrypoint)

\* The offsets from lowest to highest that the mem_attrs row r speaks of.
Covers(r, lowest, highest) == {o \in lowest..highest : o - r.at \in 0..(r.size - 1)}

\* A byte of the image is executable if a row says so, wherever in the file the
\* row is, whatever other rows say about the same byte, and however far beyond
\* the end of the image its range runs. The bytes in front of the metadata that
\* are changed are those of ranges that begin below 0, and of no other row, and
\* only such a range can end the run.
MetadataOfRows ==
  /\ Loaded => in_front = UNION {Covers(r, r.at, -1) : r \in RowsOf("mem_attrs")}
  /\ Loaded /\ InBounds =>
       /\ executable = UNION {Covers(r, 0, Size - 1) :
                                r \in {q \in RowsOf("mem_attrs") : q.x}}
       /\ extended = {o \in Offset :
                        \/ \E r \in RowsOf("entrypoint") \cup RowsOf("export") : r.at = o
                        \/ \E r \in RowsOf("import") : r.at = o /\ r.symbol # ""}
  /\ pc = "crashed" => \E r \in RowsOf("mem_attrs") : r.at < 0 /\ r.size > 0

\* A file is accepted if and only if it has a header, is marked as complete,
\* and says for which mode the code is.
AcceptsComplete ==
  (pc = "returned" /\ InBounds) =>
    ((result = 0) = (/\ file # <<>> /\ file[1].kind = "header"
                     /\ RowsOf("end") # {}
                     /\ \E r \in RowsOf("bits") : r.bits # 0))

=============================================================================
