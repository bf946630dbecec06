----------------------------- MODULE DatLoader -----------------------------
(***************************************************************************)
(* quick_disassembler_t::init of util/main/crudasm9.cpp for a load         *)
(* description (a COFFLOAD .dat file): the rows are read one after the     *)
(* other through a RowCursor, which CsvReader implements, and leave their  *)
(* trace in the metadata of the image.                                     *)
(*                                                                         *)
(* A row is a record; its kind stands for the items the code recognises it *)
(* by, its fields for the items it uses.  Rows that only carry text for    *)
(* the header of the listing (hash, filename) are of kind "note".          *)
(***************************************************************************)
EXTENDS Integers, Sequences

CONSTANTS
  Size,      \* metadata_size, the bytes of the image
  Files,     \* the load descriptions considered, sequences of rows
  Symbols    \* names of imported symbols

ASSUME SizeAssumption == Size \in Nat \ {0}

Offset == 0..(Size - 1)

\* Offsets are what strtoll makes of an item, so they may lie anywhere, below 0
\* too; the code keeps origin and start_offset as unsigned numbers.
Rows ==
  [kind : {"header", "note", "end", "other"}]
    \cup [kind : {"bits"}, bits : {0, 16, 32, 64}]
    \cup [kind : {"origin", "start_offset"}, at : Nat]
    \cup [kind : {"entrypoint", "export"}, at : Int]
    \cup [kind : {"import"}, at : Int, symbol : Symbols \cup {""}]
    \cup [kind : {"bound"}, symbol : Symbols \cup {""}]
    \cup [kind : {"mem_attrs"}, x : BOOLEAN, at : Int, size : Int]

ASSUME FilesAssumption == \A f \in Files : f \in Seq(Rows)

VARIABLES
  file,          \* the load description, for the properties
  rows,          \* what the cursor has not left yet
  executable,    \* offsets whose metadata has bit 2
  in_front,      \* offsets below 0 that were written, in front of the metadata
  extended,      \* offsets whose metadata has bit 4
  ext_metadata_map,    \* offset -> what is known of it
  import_set, actual_symbol_imports,
  origin, entrypoint, start_offset, actual_bits,
  success,       \* a row "end,success" has been met
  pc,            \* "header", "rows", "returned", "crashed"
  result         \* what init returned, 0 for success

symbols == <<ext_metadata_map, import_set, actual_symbol_imports>>
scalars == <<origin, entrypoint, start_offset, actual_bits>>
vars == <<file, rows, executable, in_front, extended, symbols, scalars, success,
          pc, result>>

\* A new extended_info_t.
NoInfo == [is_entrypoint |-> FALSE, export |-> FALSE, is_import |-> FALSE,
           symbol |-> ""]

Init ==
  /\ file \in Files /\ rows = file
  /\ executable = {} /\ in_front = {} /\ extended = {}
  /\ ext_metadata_map = <<>> /\ import_set = {} /\ actual_symbol_imports = {}
  /\ origin = 0 /\ entrypoint = 0 /\ start_offset = 0 /\ actual_bits = 0
  /\ success = FALSE
  /\ pc = "header" /\ result = 0

-----------------------------------------------------------------------------
(* The header and the end *)

Return(r) == pc' = "returned" /\ result' = r

ReadHeader ==
  /\ pc = "header"
  /\ IF rows # <<>> /\ Head(rows).kind = "header"
     THEN pc' = "rows" /\ rows' = Tail(rows) /\ UNCHANGED result
     ELSE Return(1) /\ UNCHANGED rows
  /\ UNCHANGED <<file, executable, in_front, extended, symbols, scalars, success>>

Complete_without_end == actual_bits # 0
Complete == success /\ actual_bits # 0

EndRows ==
  /\ pc = "rows" /\ rows = <<>>
  /\ Return(IF Complete THEN 0 ELSE 1)
  /\ UNCHANGED <<file, rows, executable, in_front, extended, symbols, scalars,
                 success>>

-----------------------------------------------------------------------------
(* One action for each kind of row; each ends with csv.next() *)

Row(kind) == pc = "rows" /\ rows # <<>> /\ Head(rows).kind = kind
row == Head(rows)
NextRow == rows' = Tail(rows) /\ UNCHANGED <<file, pc, result>>

\* Rows that are not known, or that name something without a use here.
Ignored ==
  /\ Row("other") \/ Row("note") \/ Row("header")
  /\ NextRow
  /\ UNCHANGED <<executable, in_front, extended, symbols, scalars, success>>

End ==
  /\ Row("end") /\ NextRow
  /\ success' = TRUE
  /\ UNCHANGED <<executable, in_front, extended, symbols, scalars>>

Bits ==
  /\ Row("bits") /\ NextRow
  /\ actual_bits' = IF row.bits = 0 THEN actual_bits ELSE row.bits
  /\ UNCHANGED <<executable, in_front, extended, symbols, origin, entrypoint,
                 start_offset, success>>

Origin ==
  /\ Row("origin") /\ NextRow
  /\ origin' = row.at
  /\ UNCHANGED <<executable, in_front, extended, symbols, entrypoint, start_offset,
                 actual_bits, success>>

StartOffset ==
  /\ Row("start_offset") /\ NextRow
  /\ start_offset' = row.at
  /\ UNCHANGED <<executable, in_front, extended, symbols, origin, entrypoint,
                 actual_bits, success>>

\* Information about an offset of the image: the flag in the metadata, and the
\* entry of the map, which operator[] creates when it is not there.
Info_fresh(at) == NoInfo
Info(at) == IF at \in DOMAIN ext_metadata_map THEN ext_metadata_map[at] ELSE NoInfo
SetInfo(at, info) ==
  ext_metadata_map' = [o \in DOMAIN ext_metadata_map \cup {at} |->
                         IF o = at THEN info ELSE ext_metadata_map[o]]
Flag(at) == extended' = extended \cup {at}

InImage(at) == at \in Offset

Entrypoint ==
  /\ Row("entrypoint") /\ NextRow
  /\ IF InImage(row.at)
     THEN /\ entrypoint' = row.at
          /\ Flag(row.at)
          /\ SetInfo(row.at, [Info(row.at) EXCEPT !.is_entrypoint = TRUE])
     ELSE UNCHANGED <<entrypoint, extended, ext_metadata_map>>
  /\ UNCHANGED <<executable, in_front, import_set, actual_symbol_imports,
                 origin, start_offset, actual_bits, success>>

Export ==
  /\ Row("export") /\ NextRow
  /\ IF InImage(row.at)
     THEN Flag(row.at) /\ SetInfo(row.at, [Info(row.at) EXCEPT !.export = TRUE])
     ELSE UNCHANGED <<extended, ext_metadata_map>>
  /\ UNCHANGED <<executable, in_front, import_set, actual_symbol_imports,
                 scalars, success>>

\* A later import at the same offset replaces the symbol.
Import ==
  /\ Row("import") /\ NextRow
  /\ IF InImage(row.at) /\ row.symbol # ""
     THEN /\ Flag(row.at)
          /\ SetInfo(row.at, [Info(row.at) EXCEPT !.is_import = TRUE,
                                                  !.symbol = row.symbol])
          /\ import_set' = import_set \cup {row.at}
     ELSE UNCHANGED <<extended, ext_metadata_map, import_set>>
  /\ UNCHANGED <<executable, in_front, actual_symbol_imports, scalars, success>>

\* What the import symbol was bound to, known by its name.
Bound ==
  /\ Row("bound") /\ NextRow
  /\ actual_symbol_imports' = actual_symbol_imports \cup ({row.symbol} \ {""})
  /\ UNCHANGED <<executable, in_front, extended, ext_metadata_map, import_set,
                 scalars, success>>

\* The attributes of a range are added to those of its bytes, or of none when
\* the size is negative. The loop stops at the end of the image, but nothing
\* keeps it from beginning below 0: whatever is in memory there is changed.
RangeOf_from_start(r) == {o \in 0..(Size - 1) : o < r.size}
RangeOf(r) == {o \in r.at..(Size - 1) : o < r.at + r.size}
MemAttrs ==
  /\ Row("mem_attrs") /\ NextRow
  /\ executable' = IF row.x THEN executable \cup (RangeOf(row) \cap Offset)
                            ELSE executable
  /\ in_front' = in_front \cup (RangeOf(row) \ Offset)
  /\ UNCHANGED <<extended, symbols, scalars, success>>

\* Or there is no memory there, and the run ends.
Crash ==
  /\ Row("mem_attrs") /\ ~(RangeOf(row) \subseteq Offset)
  /\ pc' = "crashed"
  /\ UNCHANGED <<file, rows, executable, in_front, extended, symbols, scalars,
                 success, result>>

Returned == pc \in {"returned", "crashed"} /\ UNCHANGED vars

Step == \/ ReadHeader \/ EndRows \/ Ignored \/ End \/ Bits
        \/ Origin \/ StartOffset \/ Entrypoint \/ Export
        \/ Import \/ Bound \/ MemAttrs \/ Crash

Next == Step \/ Returned

Spec == Init /\ [][Next]_vars
=============================================================================
