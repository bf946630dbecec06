# A TLA+ model of crudasm9

crudasm9 is an x86 disassembler: an instruction decoder driven by generated
tables, a printer, a command line program that sweeps over a binary and writes
a listing, and `makecpu`, the program that generates the tables from a script
that describes the instruction set. All paths below are relative to
`src/crudasm9src/`.

The program has no threads; what runs side by side are instances of it, which
share the directory for temporary files. What is hard about it is sequential: a decoder that
decodes twice into the same structures, a sweep that decodes ahead of what it
prints, lazily read input, tables built step by step, iterators that cache
pointers, a script whose lists are replaced by their values while others refer to
them, and buffers and images that may end anywhere. These are the hazards
that `PROJECT.json` lists, each with the line where it bites and the properties
that watch it.

## 1. The system

| Component | Code | State it keeps | Operations | Status |
|---|---|---|---|---|
| Instruction decoder | `x86core/ixdecoder.c`, `.h`, `decoder_internal.c` | per call: `code_fetcher_t`, `decode_prefix_state_t`, the icode and the decoder state being filled | `crudasm_intel_decode` | modelled, first invariants proved |
| Linear sweep | `util/main/crudasm9.cpp:346-489`, `750-800` | `offset`, `prev_offset`, the icode last decoded, the output | `disassemble`, `decode_insn`, `do_disassemble` | modelled, all safety properties proved, and that it implements an abstract listing |
| Image loader | `crudasm9.cpp:492-713` | metadata of the image, entrypoint, symbols | `init` | modelled, properties proved |
| CSV reader | `crudasm9.cpp:194-334` | current line, its columns, end of file | `get`, `next`, `at_eof` | modelled, checked to implement a cursor over rows |
| Command line | `crudasm9.cpp:814-1330`, `util/main/winhelpers.h` | kind of input, temporary directory and files | `main`, `read_file` | modelled, properties proved |
| Printer | `x86core/ixdisasm.c`, `intel_disasm_nasm.h` | none (a function of an icode) | `crudasm_intel_disasm` | modelled, compared with the bytes |
| crudbin, test suite | `util/crudbin/crudbin.c`, `util/testsuite/test1.cpp` | offset | `disassemble_buffer` | planned |
| Table builder | `makecpu/makecpu.cpp` | the tree of opcode tables, list of encodings | `process_decoder_entry*`, `buildTable` | modelled, proved: the tables are layered, errors have reasons |
| Growable array | `makecpu/growable_array.h` | levels, size, iterators with a cached range | `push_back`, `pop_back`, `truncate`, `seek` | modelled, proved to implement a sequence |
| Object pool and lists | `makecpu/axiom_lang.h`, `axiom_adt.h` | free items, reference counts, forwarders | `alloc`, `remove`, references, `cons`, `setForwarder` | modelled without arrays, invariants proved, checked to implement a heap without freeing |
| Script parser, evaluator, console | `makecpu/axiom_parser.h`, `axiom_eval.h`, `axiom_lang.h`, `test.cpp`, `axiom_cpu_arch.h` | texts being read and the position in each, calls under way, scopes, functions, lists | reading a line, parsing an item, evaluating it | modelled, compared with an independent meaning; what a `loadcpu` list holds is not |
| Script and generated tables | `makecpu/x86iset.ax`, `generated/` | data | - | an excerpt is a constant of the decoder runs |

How they interact: `makecpu` parses and evaluates the script (or what is typed at
its console), whose value is a description of the instruction set; the table
builder enters its encodings into the tables, which are written once, at build
time; the decoder and the printer read them. `main` finds out what the input file is, may run the
external program COFFLOAD, which leaves a load description (a `.dat` file) and
the raw bytes of the image, and calls `init`, which reads the load description
row by row through the CSV reader and fills in the metadata: which bytes are
executable, which have a symbol, where the first section begins. `disassemble`
then goes over the image, calls the decoder at each executable byte, and the
printer on each icode. The decoder and the sweep share one promise: the size
the decoder returns is positive and lies within the bytes it was given.

What makes each component correct:

* decoder: it reads nothing outside the buffer, a result accounts for each byte
  of the instruction once, prefixes mean what the last one that may count says,
  an abandoned attempt leaves no trace in the next, LOCK only stays on memory
  destinations, and it returns;
* printer: the numbers, names and words it prints, read as an assembler reads
  them, are what the bytes of the instruction mean;
* sweep: every byte of the image is accounted for by one entry, the reason given
  for a byte is true, the line printed for an instruction is made from the
  decoding at its own offset, blank lines mark each break, and it ends;
* loader and CSV reader: each row is read once and in order, a malformed file is
  an error and leaves nothing half loaded, ranges stay inside the image unless they
  begin below 0, which the loader does not check;
* command line: whatever fails, the temporary files and the directory go, except for
  what has been opened or what the system refuses to find or remove, and only a
  complete image from the instance's own loader is disassembled;
* table builder: a lookup in the flattened tables gives the encoding whose
  pattern matches, whatever the order of the script;
* growable array: it is a sequence, and an iterator points at the element its
  index names;
* object pool: an item is free exactly when nothing can reach it, and neither
  removal nor reuse nor forwarders can be noticed by who uses the lists;
* script language: an item has the value it has by itself, however its lists are
  shared and replaced, however bodies are copied, and whatever scopes, namespaces
  and modules its names are found through; recursion is possible only where a module
  declares it, nothing that is only declared can be called, and a command is
  complete for the scans exactly when it is for the parser.

## 2. The modules

    ModRM              addressing forms (decode_modrm_16/32/64), operators only
      Ixdecoder        one call of crudasm_intel_decode, EXTENDS ModRM
        IxdecoderProps   what it promises
          Ixdecoder_proofs   theorems
        Ixdisasm         its result as it is printed: operands and words
          IxdisasmProps    what that says (with IxdecoderProps)
            Ixdisasm_proofs   theorems (with Ixdecoder_proofs)
            MCIxdecoder       excerpt of the generated tables, buffers
    Listing            abstract: bytes are accounted for one after the other
    QuickDisassembler  the sweep
        QuickDisassemblerProps   what its listing says; INSTANCE Listing
          QuickDisassembler_proofs   theorems
    RowCursor          abstract: a cursor over the rows of a text
    CsvReader          the lazy reader of lines and columns
        CsvReaderProps   INSTANCE RowCursor
          MCCsvReader    all short texts
    DatLoader          init over the rows of a load description
        DatLoaderProps
          MCDatLoader    all short load descriptions
          DatLoader_proofs   theorems
    CrudasmMain        main, several instances of it
        CrudasmMainProps
          CrudasmMain_proofs   theorems
    DecoderTableBuilder   encodings of a script to a tree of opcode tables
      DecoderTable        the tree to the array the decoder walks
        DecoderTableProps   lookups in the array against the script
          MCDecoderTable    scripts
          DecoderTable_proofs   theorems
    AppendArray        layout of the levels of an append_array, operators only
      Seek             append_array::seek, the search for the level of an index
      GrowableArray    growable_array and growable_array_iter
        GrowableArrayProps   INSTANCE ElementSequence
          GrowableArray_proofs   theorems (of Seek, too)
    ElementSequence    abstract: a sequence and positions in it
    ItemHeap           abstract: lists that are shared and never freed
    ObjectPool         pooled items, counted references, forwarders
        ObjectPoolProps   INSTANCE ItemHeap
          ObjectPool_proofs   theorems
    AxiomScanner       comments, whitespace, atoms and integers, operators only
    AxiomItems         items, scopes and lookups, operators only
      AxiomParser        doParseInternal and what it calls, EXTENDS both
      AxiomEvaluator     evaluation and substitution, EXTENDS AxiomItems
        AxiomConsole       lines, items and answers, EXTENDS the two
          AxiomConsoleProps   what the language promises
            MCAxiomConsole      sessions; INSTANCE AxiomMeaning
    AxiomMeaning       abstract: what a script means, by environments

### Ixdecoder

The variables are the locals of `do_decode` and `try_decode` that live across
steps: `fetcher` and its copy (bytes left, next offset), the prefix state `p`,
`got_fwait`, the `node` of the table, the operand index `argi`, the results
`dest` (`ix_icode_t`) and `state` (`ix_decoder_state_t`) and the message
`status`. `pc` says which loop or block the call is in:

| `pc` | code | actions |
|---|---|---|
| `prefix` | loop over legacy prefixes, `do_decode` 746-799 | `TakePrefix`, `LimitExceeded`, `EndPrefixes` |
| `rex` | 802-816 | `TakeRex`, `NoRex` |
| `fwait` | 818-851 | `TakeFwait`, `NoFwait` |
| `try` | entry of `try_decode`, 504-559 | `EnterTry`, `EnterTryTooShort` |
| `walk` | the table walk, 560-696 | `WalkByte`, `WalkMode`, `WalkModRM`, `InvalidOpcode`, `Leaf` |
| `args` | `get_arguments` 298-487, one step an operand, then the LOCK check 698-721 | `UnsupportedArgument`, `FullDispArg`, `ImplicitImmArg`, `ImmArg`, `RegArg`, `MemArg`, `EndArgs` |
| `judge` | after `try_decode` returned, 852-899 | `FallBack`, `Return` |
| `done` | the call has returned | stuttering |

Data are abstracted as far as the properties allow: an immediate or a
displacement is the slice of the buffer it is read from (`Ixdisasm` says what
value the code makes of it); the argument types that `get_arguments` does
not tell apart are one type; messages are names. Errors leave what has been
written so far in `dest` and `state`, as in the code. `Table` and `Encodings`
stand for the generated arrays. Nodes of type 7 (3DNow!), for which the script
has no encoding, are left out.

The fallback after an FWAIT (`FallBack`) is modelled as the code has it: it goes
back one byte from the end of the prefixes, which is the FWAIT only if no prefix
follows it. The comment (`ixdecoder.c:836-837`) has it match the `wait` itself;
for 9B 66 and an undecodable byte the second attempt starts at the 66 and fails,
and the sweep then lists the 9B as unrecognized. `FwaitMeaning` speaks of calls
that succeed.

### Ixdisasm

A printer has no state, so this module is a set of operators over the variables
of a finished call. Its first part is what `ixdis4_write_arg` prints for an operand. A number
(`ImmNumber`, `MemNumber`) is a sign and digits, a U8 is eight bytes, and each
conversion of the code (`(U4)(U2)`, `(U8)(S8)(S4)(U4)`, `0x100000000 - ...`) cuts,
extends or negates them. A register (`RegisterName`) is its number in the array
of names; a keyword (`SizeKeyword`, `AddressKeyword`) is the size it names. The
module begins with the fields `imm` and `disp` of the icode as the decoder
computes them from the bytes (`Imm`, `Disp`). `IxdisasmProps` reads the text as an
assembler does (`ReadBack`, `TellsSize`, `AddressSizeRead`) and compares it with the
bytes of the instruction, which it reads by themselves. Two kinds of operands
are not printed as they are meant, and `NumbersReadBack` excepts them by name:
`ShortJumpWith66`, the finding of the run `short_jump`, and `EipRelative`: an
address relative to EIP (prefix 67 in 64-bit mode) is printed with `rel`, but with
the displacement alone, since the printer tests the address size before it
tests `rip_relative` (`ixdisasm.c:496`). No comment speaks of that case.

The second part is the rest of the text, as far as it depends on the icode: `lock`,
`rep` and `o16` (`LockWord`, `RepWord`, `OperandSizeWord`), a segment in front of the
mnemonic (`SegWord`), the letters of a mnemonic that give a size (`SizeSuffix`,
`OperandSizeName`, `WideName`, `AddressSizeName`, `FwaitWord`), which operands are
printed at all (`PrintedOperands`), and the words in front of them (`ImmSizeWord`,
`ImmFormWord`, `PointerWord`). Which of these rules apply is decided by the function
of `intel_disasm_nasm.h` that the encoding table names for the mnemonic
(the constant `HandlerOf`); the definitions group the functions by rule.
`WordsReadBack` takes the text for what an assembler could take it for
(`Readings`: the operand sizes that agree with everything the text names) and demands
that each of these readings is the operation the bytes mean. The text does not have
everything, and the property says what it leaves out: the operand size of a
return, or of a relative jump outside 64-bit mode, if it is not the usual one
(`SizeNotShown`), and the address size of string instructions, `xlat` and `loop`.
No comment promises these.

### QuickDisassembler

One action for each turn of the loops of `disassemble`: `SkipToStart`,
`MeetNonExecutable`, `SkipNonExecutable`, `EndNonExecutable`,
`DecodeExecutable`, `SkipUnrecognized`, `EndUnrecognized`, `PrintInsn` (which
includes the call of `do_disassemble`) and `Finish`. The decoder is the function
`insn_at` from offsets to sizes, any function that the decoder's property
`SizeInBuffer` allows: 0 for bytes that do not decode, else a size within the
image. `icode` is the offset of the last decoding, since the printer formats the
icode that is there and not the bytes at an offset. `Init` gives the images that
`init` can leave: a raw binary, whose metadata stay cleared, and a loaded one,
with any executable bytes, symbols and start offset.

### Listing

The abstract specification: entries adjoin, are not empty, are never withdrawn,
and the listing is finished when no byte is left. `QuickDisassemblerProps`
instantiates it with the extents of the sweep's entries; `ImplementsListing` is
its specification as a property of the sweep.

### CsvReader and RowCursor

`csv_begin`, `ready`, `past_end` and `items` are the members of the class (the
current token is local to one `fetch_line`). A call of `get`, `at_eof` or `next`
is one action with the `fetch_line` it may contain; the lexer is a fold over the
rest of the text (`Lex`, one case for each class of characters, in and out of
quotes). `RowCursor` is what a caller may rely on: questions about a row are
answered from that row, as often as they are asked, and `next` goes to the one
after it. The refinement mapping gives the rows that are left as those the lexer
finds from `csv_begin` on, with the fetched one in front. An answer is part of
both specifications, so the refinement compares answers too.

### DatLoader

The rows are read through a cursor, so `rows` is what the cursor has not left
yet. One action for each kind of row (`Bits`, `Entrypoint`, `Import`, `MemAttrs`
...), each with the `csv.next()` at its end; `Ignored` is every row the code goes
past. Numbers in rows are what `strtoll` may return, so offsets lie in and
outside of the image, on either side. The loop of `mem_attrs` compares an offset
with the end of the image only (`crudasm9.cpp:688`), and its numbers are signed: a
range that begins below 0 makes it write in front of `metadata`. `RangeOf` is the
offsets it writes to, `in_front` those of them that are no offsets of the image, and
such a write goes well or ends the program (`Crash`). What the bytes in front of the
array belong to is not modelled, so after such a write nothing is claimed of the
metadata or of the result; the properties say exactly which files lead to one
(`MetadataOfRows`) and hold without a reserve for all others (`InBounds`). The properties look at the whole file at once and do not
know in what order it was read. What `DatLoader` leaves in `executable`,
`extended` and `start_offset` are the constants of the sweep's initial states.

### CrudasmMain

The locals of `main` that live across its blocks, for each of `Instances`: `ok`,
`temp_location`, `rmdir_onexit`, `remove_onexit`, `exec_result`, the images that
have been read (`loaded`), and the file system as far as `main` uses it: what each
temporary name stands for (`entry`) and the files in each directory, with who
wrote them. Each block `if(ok)` is an action or two, one that succeeds and one
that fails; `pc` names the next block. `GetTempFileNameW`, the removal of the file
and the making of the directory are three actions, so another instance may come
between. `COFFLOAD` is external: one action, which leaves any of the four files,
with or without contents, and any result. The system may refuse any call. Of some
`main` takes notice and gives up (`NoDirectory` also where the name is free). Of others
it does not: the removal of the file that `GetTempFileNameW` made (`crudasm9.cpp:1087`),
the search, which ends early when `FindFirstFileW` or `FindNextFileW` fails (`FindFiles`
lists any of the files then), the removal of each file (`RemoveFiles`) and that of the
directory. These are recorded in `refused`, a history variable that nothing in the
program reads and that the properties need: what stays behind, they say, is explained
by what was refused. `read_file` opens a file and closes it
only if it is empty, so `open` grows until the instance ends; Windows does not
remove an open file, nor a directory with a file in it. The branch for other
systems is not modelled: it does not compile (`std::Cout`), and the file functions
are those of `winhelpers.h`.

### DecoderTableBuilder and DecoderTable

`tables` are all tables that `alloc` has made, a pointer is an index into it and
`NULL` is 0. `BeginEncoding` is `process_decoder_encoding` up to the loop over
the row of opcodes, `BeginByte` one turn of that loop up to its calls of
`process_decoder_modrm`, and `calls` lists the calls of `process_decoder_entry`
that these make, in order; `process_decoder_entry` is one of them, with what it
leaves in the tables when it fails half-way. The four calls that it makes of
itself for an encoding without a mod are in the list as well (`shared` for the
three that only copy a pointer). A pointer to a place is a record (`Place`) of
the tables, a table and an index; `Descend` and `Refuse` are the two forms in
which the code tests what is there. `DecoderTable` adds `OpcodeList` and the loop
that numbers the words (`Write`). An opcode string is a sequence of tokens.
`ScriptsAssumption` names what the instruction set script keeps to and the
builder does not check; without it subtrees that are shared between values of
mod would be changed for all of them. The table type 7 is left out, as in the
decoder.

### AppendArray, Seek, GrowableArray, ElementSequence

`AppendArray` gives the arithmetic of the levels with the width of the machine
word as a parameter, truncation included. `Seek` is the loop of
`append_array::seek`, one action for each branch of its body; the wrap-around of
`max = mid - 1` is modelled. `GrowableArrayProps` puts the two side by side for
one run: first a search for any index, then, for one of them, the array. `GrowableArray` uses its result (`Levels`, the level
that holds an index, which is what `Seek` is proved to find: `SearchIsSeek`) and models an array
with its own end iterator and iterators of a caller: `current` is a pair of a
level and an offset in it, or `NULL`. One action is one call of a member
function, with the `grow` and the dereference inside it. The caller is bound to
what the code takes for granted: no element at or behind the end is
dereferenced, and no iterator goes below 0. `ElementSequence` is a sequence with
positions; what a call answers is part of both specifications.

### ObjectPool and ItemHeap

A slot is where the code has an `AxiomItem`: a variable of the interpreter or the
first or rest of a list; `target`, `refCount` and `forwarder` are the members of
that name. `forwarder` of a free item is the link to the next one, as in the
code. Operations are those the parser and the evaluator use: reading a variable,
which moves it past forwarders (`getTarget`), assigning, `cons`, a new atom,
`setRest`, and replacing a list by its value (`setForwarder`). They wait until the
removal that the one before has started is finished; the recursion of
`removeTarget`, `ObjectPool::remove` and `AxiomItemList::clear` is the stack `todo`,
and its steps are `Drop`, `NextForwarder`, `EndOfForwarders`, `Remove` and `Free`. A
slot has its new pointer when the removal begins, where the code writes it at the
end: nothing reads the slot in between, since it is the slot of a caller or of an
item that is being removed. No list is made to contain itself (`setRest`,
`setForwarder`), which the language cannot express for lists. `ItemHeap` has only
what a script can see: the list in each variable and the parts of the lists that
can be reached; an item that cannot may become a new list. The refinement
mapping goes to the end of each chain of forwarders, so reading a variable,
removals and the list of free items are stuttering steps. What can be reached is
`Closure`, whose recursion (`Within`) is a function over the number of steps taken, so
that it can be proved about. `HandlesAssumption` says that variables are not fields,
and that there are finitely many, without which pointers could not be counted.

### AxiomScanner, AxiomItems, AxiomParser

A text is a sequence of symbols: the characters that one of the scans looks at,
digits, and words that stand for runs of other characters. `AxiomScanner` has the
scans of the code one by one (`hasOpenComment`, `getInfo`, `skipWhitespace`, the ends
of atoms and strings, the conversion of integers), each with its own idea of what a
comment is. `AxiomItems` gives lists, functions and scopes an identity, their index,
since all three change after they have been referred to: a list gets a forwarder, a
function its body, a scope its symbols.

The calls of `doParseInternal`, with `parseList` and `getQuotedList` inside them, are
the frames of `stack`; `ret` is what the last one has returned, `input` the text being
read with those that include it. A frame's `at` says where its call is:

| `at` | code | actions |
|---|---|---|
| `start` | `doParseInternal` up to the atom or parenthesis | `doParseInternal` |
| `first` | the first item that is not void | `FirstItem` |
| `items` | an item has come back; keywords whose header is complete (`fun`, `lambda`, `namespace`, `module`) | `TakeItem` |
| `next` | before the next item or the closing parenthesis | `NextItem`, `FinishList` |
| `quoted`, `reference` | `getQuotedList`, a path through scopes | `QuotedItem` |
| `include`, `text` | `parseIncludeFile`, and the `parse` it calls | `IncludeDone`, `FinishIncluding` |

`Mismatch` is the end of the text inside any of them. What an item does to the scopes
before it fails stays, as in the code. Of several messages the first is kept, as
what it is about and the line it names.

### AxiomEvaluator, AxiomConsole, AxiomMeaning

`evaluate`, `apply` and `substArgs` are the recursive functions of the code, with the
forwarders they set and the table of copies that keeps shared lists shared. An
evaluation that does not end is cut off at `MaxDepth`; the program would run out of
stack. `AxiomConsole` is the loop of `test.cpp`: `ReadLine` collects lines until the
scans say that a command is complete, then `parseInteractive`, the steps of the parser
(`ParseStep`) and `Evaluate` follow for each of its items, or `GiveUp`.

`AxiomMeaning` is the reference: it reads a script to trees and gives them values with
environments and closures. It has no scopes that grow, no forwarders, no copies, no
quoting of the items that follow a keyword, and shares with the program the symbols
and the lists of keywords only. `Meaning` compares values, elements of lists one by
one, and functions by the number of their arguments.

What the language does that a reader may not expect, and that `Meaning` leaves aside
or agrees to, since nothing in the repository says otherwise:

* the scans look for no strings, and after a slash they skip a symbol: `//*` is taken
  for no comment, a string with `(`, `#` or `/*` in it makes the console wait or refuse;
  `ScansAgree` is about texts without these;
* the symbols in front of a string in the same atom are lost;
* an integer that does not fit is noticed only if a digit makes it smaller, so with the
  8 bits of the model 300 is 44; the most negative one is refused;
* what precedes the x of a hexadecimal number may be any digit;
* an argument cannot be called by itself, only what it is passed to; `(e e)` with a
  suitable `e` never ends;
* a function that puts an argument into a list, and names the list, lets an inner
  function see the argument, where the inner function's own argument takes its place
  (`OwnArguments` is false then, and `Meaning` says nothing);
* an included file is read in the global scope, also inside a namespace or module, and
  files that include each other never end (the files of the run do not);
* a list that has been replaced by a name or keyword changes how text after it is
  parsed.

## 3. The runs

| Run | What TLC explores | What it shows |
|---|---|---|
| `decode` | all modes, with the limits of the code; all buffers up to 4 bytes over REX.W, 66, 26, F0, F3, FWAIT, NOP, an FPU opcode and `cmp`, those behind F2 64, and `add` and `cmp` on memory and register behind up to two prefixes; 7 endings behind 11 to 15 and 26 to 30 prefixes; every ModRM byte with one reg field, half of the SIB scales with all bases and indices, REX.B and REX.X, address-size and segment prefixes; every group of mnemonics that the printer treats alike (42 instructions) behind up to two of 26, REX.B, REX.W, 66, 67, F2 and F3; 35 instructions with each kind of operand and 7 prefix choices, cut short at every byte; 8 encodings as an inconsistent script would give them; displacements and immediates with the sign bit set and not; the first byte near address 0, just below 2^32 and just below 2^64 | `FetcherInBuffer`, `SizeInBuffer`, `PrefixMeaning`, `LockOnMemory`, `FwaitMeaning`, `EffectiveAddress`: registers and displacement are those of the architecture's tables; `OperandBytes`: the bytes of an instruction are used once each and no operand overwrites a field another one needs; `NumbersReadBack`, `NamesReadBack`: the printed numbers, registers and sizes are those the bytes mean; `WordsReadBack`: the prefixes of an instruction can be told from the words in its text; `TypeOK`, `Terminates` |
| `sweep` | all images of 4 bytes: executable bytes, at most one symbol, start offsets up to 5 (beyond the image), all decodings with sizes up to 3 | `Contiguous`, `EntriesTellTheTruth`, `SkipsAreMaximal`, `PrintsWhatItDecoded`: each line is made from the decoding at its own offset, and a blank line stands between entries of different kinds; `Terminates`, `ImplementsListing` |
| `csv_reader` | all texts of up to 5 characters over a letter, quote, comma, newline, blank; any order of calls; columns 0 to 2 | `ImplementsRowCursor` |
| `dat_loader` | all descriptions with a header, up to 3 rows out of 29, with and without a proper end, and short ones without a header; an image of 3 bytes; ranges that begin up to two bytes in front of the image, in it and behind it | `InfoConsistent`, `AcceptsComplete`, `MetadataOfRows`: also which files make the loader write in front of the metadata |
| `main` | two instances with each kind of input, two temporary names, COFFLOAD leaving any files; every call that may fail, of those that `main` goes on without one in all (`MaxRefused`) | `LoadsOwnOutput`, `LeavesOnlyWhatItReads` |
| `decoder_table` | scripts of two encodings out of 25, of the same instruction or of two in either order, and of three out of 7 with fields and modes or 5 with prefixes; 4 opcode bytes, 2 registers; every instruction as a choice of three bytes, prefixes, ModRM fields and mode | `DecodesScript`: the walk through the array finds the one encoding the script has for an instruction; `ErrorsHaveReasons`: a build that fails has a reason in the script; `Layered` |
| `growable_array` | a search for every index below 2^8, words and levels of 8 bits; then an array with levels of 2, 4 and 8 elements (3 at most), length up to 7, two values, one iterator of the caller | `FindsTheLevel`, `Terminates`, `PointersRight`, `ImplementsSequence`, `TypeOK` |
| `object_pool` | three interchangeable variables, a pool of at most three items, every sequence of operations | `CountsExact`, `NothingLost`, `ImplementsHeap` |
| `script` | 33 well-formed scripts, the one `test.cpp` types by itself among them; 6 sessions of about a hundred items that are refused; 7 with strings, comments, included files and console commands; all lines of up to 3 of 9 symbols and of up to 5 of parentheses, slash and star, each followed by one that closes what is open | `Meaning`: the answers are the values that `AxiomMeaning` gives; `NoRecursion`, `ForwardsDefined`, `LineNumbers`: the line reported is the line where the text is; `ScansAgree` |

The type invariants of the loader, of `main`, of the table builder and of the pool
are checked as the first conjunct of `InfoConsistent`, `LoadsOwnOutput`, `Layered` and
`CountsExact`, and proved with these; that of the sweep is proved (`TypeCorrect`) and
not run.

Why the bounds are enough. The prefix loop keeps only the last prefix of a group
and flags, so four positions hold two prefixes of a group, an FWAIT between them
and an opcode; every order of these occurs. The limits, 30 and 15, are only
compared with the number of bytes, and are met from both sides. In the sweep, four bytes hold each kind of entry next to
each other kind, an instruction that straddles the end of a range, and an
unrecognized stretch that runs on over non-executable bytes; entries do not
depend on what is more than one entry back. The references of the decoder's
properties read the buffer in one piece and share no definition with the steps.
Those of the printed numbers share the arithmetic of eight bytes (`Add`, `SignExtend`)
with the printer; its decisions are by the sign bit of the last byte shown and by
whether a sum crosses 2^64, and the payloads and origins are on both sides of each.
Five characters hold two rows with an item between quotes, and an item that is
begun, quoted and begun again; three rows hold each pair of kinds that write to
the same offset, in both orders, and one between them. Whether an encoding can
be entered depends on what one other left at its place, and three are needed
for a table with more than one entry below a shared one; two registers tell
`/r` from one register, and all four values of mod are there. With 8-bit words the
starts of the last two levels no longer fit, and every index is tried. Length 7
reaches the third level, so there is a level behind and one before the middle
one, and iterators cross both borders in both directions. Three items hold a
chain of two forwarders, a list whose first and rest are shared, and a removal
that frees other items before the one it started with; three variables hold a
list, its value and one of its parts. A name is contested by two instances at
a time, and with two names one of them can also get out of the other's way; files
that stay behind use up both. One refused call is enough for each reason that a file,
or a name, may stay; what several of them do together is for the proof, which has no
such bound. The scans of a text have two symbols of memory, so
five symbols hold a comment, what opens and closes inside of it and a slash on
either side; 8 bits are enough for each way a literal can overflow. A `MaxDepth` of 6
already gives the same states as 12.

Three more runs show a statement of the repository that the code does not keep
(`findings` in `PROJECT.json`):

* `short_jump` (short jumps behind nothing or a 66): the decoder's comment says that
  an immediate of 64 bits is `imm` sign extended from 32, which is what the printer
  does; the displacement of a short jump with a 66 in 64-bit mode was extended to
  16 bits only, so the target printed for 66 70 FE is 65536 too high;
* `sweep_raw`: the usage message offers raw binaries, but the metadata of one is
  cleared, so the whole file is listed as non-executable bytes;
* `main_leftover`: the comment at the head of the program (`crudasm9.cpp:8-11`) says that
  the load description and "the other temporary files made by COFFLOAD" are deleted,
  but `read_file` leaves those it has read open (`winhelpers.h:251`), so on Windows their
  removal fails: when a listing has been written and nothing has been refused,
  they are all there, and their directory with them (`DeletesTemporaryFiles`).
  `LeavesOnlyWhatItReads` says what does hold.

Fairness: the decoder, the sweep and the search are function calls that compute until they return and
never wait for anything, so a step that is possible is taken: weak fairness on
the disjunction of the steps, no fairness on single actions. `Terminates` of
each, and nothing else, rests on it. The last state stutters (`Returned`), so
deadlock stays checked. The CSV reader, the array, the pool and the console are used from outside;
nothing says that a caller must go on, so they have no fairness. The table
builder, the loader and `main` have none either: each step takes something off a
finite list or goes on to the next block, and that no step is missing is what the
deadlock check says. `main` waits for COFFLOAD without a limit.

## 4. The proofs

`Ixdecoder_proofs` assumes of the constants what the model's named assumptions
say: the limits fit the five bits of `insn_size` (`BytesAssumption`), buffers are
sequences of bytes, the root of the table is indexed by the opcode byte, inner
nodes have a kid for each index, leaves name an encoding or are invalid, operand
records have their types. What it assumes of the contents of the tables is in four
more assumptions, under "What the generated tables hold": `PrefixAssumption`,
`OpcodeAssumption`, `LeafAssumption` and `OperandsAssumption`. A script could be written
that breaks them, but all nodes and the 584 encodings of the generated tables keep them,
and TLC evaluates them on the excerpt of the runs. Proved for all such tables:

* `TypeCorrect`, `FetcherAlwaysInBuffer`, `SizeAlwaysInBuffer`;
* `PrefixesAlwaysMean`: what the prefixes of a decoded instruction are;
* `FwaitAlwaysMeans`: what an FWAIT among the prefixes becomes;
* `LockAlwaysOnMemory`: LOCK is left only where an instruction that may be locked has
  its first operand in memory;
* `AddressesAlwaysRight`: registers and displacement of a memory operand are those its
  ModRM and SIB bytes stand for;
* `OperandsAlwaysAdjoin`: every byte behind the opcode is read once and kept.

The invariant of the first three is `Inv == TypeOK /\ Positions`. The type invariant is not
inductive by itself: that going back a byte after an FWAIT stays in the buffer
needs to know that a byte has been accepted by then (`got_fwait => fetcher.next
> 0`), and that a size is positive needs the walk to have left the root only
past a byte. `Positions` says that both fetchers add up to the length of the
buffer and what each phase has already consumed. One lemma for each action;
the larger ones rest on lemmas on the moves of a fetcher (`FetcherMoves`), on
`get_modrm` (`GetModrmWithin`, `GetModrmType`) and on updates of the records.

The other five need to know what was read. For the next two that is `Attempts`, which
TLC checked on the buffers of `decode` before it was proved. `Collecting` gives the prefix state as a function of
the bytes since the FWAIT, or since the start of the buffer, and says of the FWAIT that it
is the one `FwaitAt` finds in the whole buffer. `Began` is what `try_decode` noted when it
began, `Second` follows the second attempt: it reads the one byte of the FWAIT and comes to
the leaf of `wait`, or has not come to a leaf. `Noted` is about the result. They use of the tables
only what `PrefixAssumption` says: that no prefix is an opcode, so an attempt that came to
an instruction had collected all of them, and that an FWAIT is an instruction without
operands.

The last three follow the first attempt further (`ReadSoFar`, checked by TLC in the same
way), since none of their statements about the finished instruction is inductive. While
the table is walked (`Reading`), the position is that of the opcode bytes seen
(`OnTheWay`) until the ModRM byte has been read, and then right behind the address form,
which is what its bytes stand for (`AddressRead`; `AddressFound` has the lemma for each
address size). While the operands are read (`Filled`), displacement and immediate adjoin,
in one order or the other, from there to the position; and the operands not looked at
yet have their fields to themselves (`Pending`), which is why nothing is overwritten.
`FirstOperand` keeps what the check of LOCK reads from `dest.args[1]` in touch with the
encoding. A second attempt has no ModRM byte at all (`Unaddressed`). Of the tables they
use that only 0f and 0f 38 are followed by another opcode byte (`OpcodeAssumption`), that
an encoding without a ModRM byte is not reached through one, that one which must be in
memory is reached only by the mod bits (`LeafAssumption`), and that the operands of an
encoding ask for different fields (`OperandsAssumption`).

`Ixdisasm_proofs`, of the text that is printed for an instruction:

* `NumbersAlwaysReadBack`: each number that is printed is the one that its bytes stand
  for, at the address size, operand size and position they stand at;
* `NamesAlwaysReadBack`: each register named is the one that ModRM, SIB, REX and opcode
  ask for, and where the size of an operand could be taken for another one, a register
  or a keyword tells it;
* `WordsAlwaysReadBack`: the prefixes can be told from the words: each operand size that
  the text can be taken for is the operation the bytes mean, and the text names the
  repeat prefix, the segment, LOCK and FWAIT that were there.

The first two speak of the whole instruction only, and are about fields of the result that are
shared by all operands and written one operand after the other. So the invariants speak
of the operands read so far. `SourcedSoFar` says of each that the field it was put in
still holds the bytes at the offset where they were read, extended from their size
(`SizeIn`) as the operand says; a later operand keeps it since it asks for another field
(`OperandsAssumption`). `NamedSoFar` says what of the opcode and the REX prefix had been
noted when the walk through the table began: a register may be named by the last opcode
byte or by the first, and `state` keeps only the last. An operand that is left out
(`Missing`) is one that the encoding has not. The arithmetic is in a few lemmas on
vectors of bytes: sums taken with carry (`AddLow`), the complement that is printed
behind a minus (`NegateBack`), displacements in an address space of 2^32
(`TwoGReads`), and that to extend by way of a size between is to extend
(`ExtendTwice`).

For the words, `WordsSoFar` keeps what the decoder notes of the prefixes at the moments
it does: the address size and the segment from the first icode on, the operand size from
the leaf on, FWAIT at the return, and that a 90 never leaves the node of its own leaf, so
that what is printed as `nop` is the exchange of a register with itself. At the return,
the proof goes through the ways to show an operand size. A word or a mnemonic names it
(`NamedSizeRead`); no operand has it (`UnsizedRead`); a jump (`JumpRead`) or a push
(`StackRead`) has rules of its own; or else operands show it. There, what is told of
an operand is right (`ToldRight`), and a size that agrees with all that is told makes
every operand as large as the one meant does (`OperandPinned`): either the operand
itself shows its size, or the prototype ties it to a register that does, or its size is
one for all operand sizes.

Of the tables, they use what `NumbersAssumption`, `NamesAssumption` and
`OriginsAssumption` of `Ixdisasm` say, and for the words `ShownAssumption`
(operands that a handler leaves out are not addresses), `SizedAssumption` (what shows
the operand size of an encoding, by its handler) and `NopAssumption`; all 584 generated encodings keep them, and TLC
evaluates them on the excerpt. The proof attempts found two mistakes in the model, which
no buffer of the run had shown: two guards of the CASE in `ImmBytes` overlapped, and the
reference `RegisterMeant` took the name of a register that is the operand or memory
(`sldt`, `smsw`, `str`) from the wrong field.

`QuickDisassembler_proofs`, for every image size, longest instruction, start
offset and decoder:

* `TypeCorrect`: in particular the offset passes the end of the image only when
  the first section would start there;
* `ContiguousAlways`: entries adjoin from offset 0, none is empty;
* `SweepImplementsListing`: the refinement of `Listing`, by step simulation;
* `TruthAlways`, `MaximalAlways`, `PrintedAlways`: the other safety properties of the
  run `sweep`.

The invariant of the first three is `TypeOK /\ SkipCount /\ Decoded /\ PastStart`: how far the skip
count may have come in each of the inner loops, that the instruction about to
be printed is the one decoded at `offset` and has a positive size, and that
nothing but the first skip happens before the first section. `Contiguous` is
proved with it, not inside it. The last three are inductive only together and with
three facts more (`EntriesInv`): each byte of a skip that is still being counted has
the skip's reason (`SkippedBytes`), the entry listed last ends where its reason ends
(`EndOfSkip`), and `prev_offset` is the end of the listing exactly when the last entry
is an instruction (`PrevOffset`).

`DatLoader_proofs`, for load descriptions of any length, images of any size and any
rows:

* `InfoAlwaysConsistent`: flag, map, set of imports and entrypoint agree;
* `MetadataAlwaysOfRows`: the offsets written in front of the image are those that the
  ranges of the file cover below 0; if there are none, the metadata are those the rows
  give, and what lies behind the image is without effect; and `init` ends the program
  only if there is such a range. Ranges may begin anywhere;
* `AcceptsExactlyComplete`: `init` succeeds for exactly the complete files, as long
  as it has written nothing in front of the metadata; `InfoAlwaysConsistent` has the
  same reserve.

The properties speak of the whole file, and the invariant of the part of it behind
the cursor: `Cursor` says that `rows` is the end of the file, and `Metadata`,
`EntrypointMarked` and `Completeness` give what has been set by the rows read so far.
Reading a row adds it to the rows of its kind (`RowRead`), so each action has to show
only what its own row contributes. When none is left, the rows read are those of the
file (`AllRead`). That a file is a sequence of rows is the assumption
`FilesAssumption` of `DatLoader`; offsets, sizes and bits in a row are any integers that
the row's kind can have.

`CrudasmMain_proofs`, for any number of instances and of temporary names:

* `AlwaysLoadsOwnOutput`: what is disassembled is complete and from one source;
* `AlwaysLeavesOnlyWhatItReads`: whichever calls are refused, what stays behind are
  files that the instance had opened, files whose removal was refused, and files that the
  refused search did not find. If there are none, the name that was given out
  stands for nothing any more, unless the removal of just that file or directory was
  refused, or another instance has been given the name.

The heart of the invariant is `Exclusive`: a directory is used by one instance at a
time, though the file whose name `GetTempFileNameW` gave out is removed and replaced
by a directory in two steps that another instance can come between. An instance uses
a directory from the moment it has made it until nothing of its own is in it
(`Using`), which may be after it has returned. With it the files in a directory are
those of its maker (`Located`), what an instance opened or will remove is its own
(`OpenOwn`, `Remembered`), and the images it has are those of its own COFFLOAD
(`Sourced`). The second half of the property needs that a name just given out is still
that of the file made for it, and of no one else's (`Reserved`), and where main is when it
should have nothing left under the name (`Emptied`, `Vacated`). Steps of one instance leave the rest to the others (`Others`); the cases
that need the invariant of the others are the making and the removal of a directory.

`GrowableArray_proofs`, of the search, for every width and every size of the first
level:

* `SeekTypeCorrect`: `max` never wraps around;
* `AlwaysFindsTheLevel`: a level that is returned holds the index, with the right
  bounds, and none is returned only if none holds it;
* `SearchIsSeek`: so the level that `GrowableArray` takes for an index is the one that
  the search returns.

The invariant is `SeekTypes /\ Narrowing /\ FindsTheLevel`; `Narrowing` says that the
levels outside of `min..max` have been ruled out.

And of the array, for all values, iterators and sizes:

* `TypeCorrect`, `PointersAlwaysRight`, `AlwaysAllocated`: the three are inductive
  together;
* `ArrayImplementsSequence`: by step simulation, where each push is an append,
  each pop, `truncate` and `clear` a truncation, each use of an iterator a read or
  write at its position.

That an allocated index has a level is part of the invariant (`Allocated`), since
its proof from the sizes of the levels alone would be an induction over them.
The search assumes that start offsets do not decrease (`StartsAssumption`), and
the array that each level that can be reached begins where the one before it
ends (`LengthAssumption`); powers of two are beyond the prover, and TLC evaluates
both assumptions in the runs.

`ObjectPool_proofs`, for a pool of any size and any finite set of variables:

* `CountsAlwaysExact`: at every moment, also in the middle of a removal, the count of
  an item is the number of slots, forwarders of items in use and dropped pointers
  that lead to it;
* `NothingEverLost`: when no removal is going on, the items in use are exactly those
  that the interpreter can reach, and the others are empty;
* `PoolImplementsHeap`: with the counts, the reuse of items and the forwarders taken
  away, what the interpreter sees is the heap of `ItemHeap`, in which nothing is freed.

The invariant `Inv` has, besides the types and the counts: the available items are a
chain without a fork (`Chain`) and have no reference to or from them (`Blank`); the
tasks of a removal and the items without a reference correspond: each of these items
is cleared by one task, and a task clears no other (`Condemned`); a walk along
forwarders is the first task, the items it has collected differ, and it goes on at the
last of them (`Walking`); what will be cleared has no forwarder but where the walk is,
and no fields once it waits to be available (`Emptied`); and references do not go
round (`Acyclic`). TLC checked this invariant on the instance of `object_pool` before
it was proved.

`Acyclic` is what `NothingEverLost` rests on: counts alone never free a cycle. It is
stated without paths: any items in use have one that refers to no other of them, and
one that none of them refers to. So if items in use could not be reached, one of them
would have no pointer to it at all, against its count. `setRest` and `setForwarder`
keep it since the item that is changed cannot be reached from the new pointer
(`AcyclicEdge`), an operator `->` since it only shortens a chain (`AcyclicShortcut`),
an allocation since nothing refers to a fresh item (`AcyclicMore`).

What `Closure` gives had to be proved first: it is the least set that has the items
it starts from and everything a member leads to (`ClosureLeast`). That is an induction
over the number of steps; the induction rules of the library cannot be used, but a
set of numbers has a least element (`LeastNumber`, from the well-foundedness of
inclusion between finite sets), and the least number for which a statement about
`Within` failed gives a contradiction. `StageGrows` shows that after `MaxItems` steps
nothing can be added any more. The assumptions are `MaxItemsAssumption` and
`HandlesAssumption`.

`PoolImplementsHeap` is a step simulation from `Inv`, under the mapping of
`ObjectPoolProps`: a slot holds the end of the chain of forwarders it points to, and
an item is on the heap if the interpreter gets to it. Where a chain ends is defined
by recursion along it, and such a recursion has one solution only when the chain
does (`EndUnique`, from `Acyclic`). With it, the steps fall into two kinds:

* those that change no end: a removal works on items without a reference, from
  which no chain that is looked at passes (`RemovalUnseen`), an operator `->` only
  leads past a forwarder (`DereferenceUnseen`);
* those that do: where a forwarder is set, one end is replaced by another
  (`EndReplaced`) in every slot that led to it, which is what `Replace` of the heap says.

That the interpreter sees only items with a reference and without a forwarder is
`SeenInUse`, that the reachability of the heap and the `Closure` of the pool agree is
`ReachedIsSeen`, and `BecomeStep` is the one lemma by which each operation that
changes something is shown to be a step of the heap.

`DecoderTable_proofs`, for every script, any number of opcode bytes and of registers:

* `LayeredAlways`: at every moment of the build, every table is reached from an
  earlier one, leads only to later ones, and asks for what comes after what led to it;
* `ErrorsAlwaysHaveReasons`: the build fails only where an encoding is wrong by itself,
  or where two encodings meet: an opcode of one is an opcode of the other, or begins
  it. So no encoding gets in its own way, for none of its rows, modes and prefixes, and
  what one leaves shared is never in the way of one with another opcode.

What they assume of a script is in `ScriptsAssumption`: `x86iset.ax` keeps to it, the
builder does not check it. Three of its parts matter here: the numbers of the tokens
are what their fields can hold; an encoding has an opcode byte besides the escape; and
a row of registers ends within its table, else the builder would write behind it, and
has no second byte. The others are about the content of what is shared, on which neither
the layers nor the errors depend.

For the layers, the tables alone (`Sound`) are inductive: `Typed`, `Leads` and `Reached` are kept by a new table in an
empty entry (`AddedIsSound`) and by sharing (`SharedIsSound`), the only ways in which an
entry changes. All else is to show that each such write is where it may be. So the
moves of the builder are lemmas on places (`Spot`, `Moves`): to refuse, to make a
table, to descend and to share lead from an entry of a sound table to one, and
tables only grow. The rest of the invariant (`Inv`) says that the bytes and calls left
to do can still be served by the tables there are (`Servable`).

For the errors, the invariant is `ReasonOrSmooth`: `Inv`, and either the script has a
reason or the build has gone smoothly so far. `ErrorsHaveReasons` itself is not
inductive, since it says nothing of the tables before the error. `Smooth` does: there
is a map `path` from the tables that ask for an opcode byte to the strings of bytes
that lead there, such that each entry taken in such a table is for a string that
begins an opcode already entered, and one that leads on to something else is for an
opcode itself (`Led`). The bytes left to do of the encoding being entered are free in
the table they are for (`Clear`), and its calls do not get in each other's way: each
writes an entry of its own (`FreeCalls`, `Distinct`). Then:

* the opcode that the tokens of an encoding name is the one the builder parses out of
  them (`BytesAreNamed`), and if it meets none before it, the way to its last byte can
  be gone and is free at its end (`PlaceClear`);
* the entries of a byte are made in an empty place, from which the calls for
  prefixes, register field and mode are for different entries (`ByteCallsFree`);
* a call that is served leaves the others as free as they were (`CallServed`), though
  the register field leads two of them into one table.

The functions that run through tokens and opcode bytes, and `FlattenSeq`, are
recursive. What the proof needs of them, it gets from two facts: such a
recursion has a solution on an interval (`Recursion`), and a set of numbers that
has the first one, and with each the next, has all (`CountUp`, from the
well-foundedness of inclusion between finite sets). In the same way, that there is an
n-th encoding in the order of the instructions (`NumberFound`) goes up from the first
(`FirstOfSome`) to the next (`NextOne`).

Only model-checked: `Terminates` of all components (liveness under fairness is
beyond the prover); `ImplementsRowCursor`, whose abstract rows are the result of a
fold over the text, an induction over data; of the table builder `DecodesScript`, which
is about a walk through the array and the recursion that writes it, inductions over
data; and all of the script language,
whose evaluator and meaning are recursive operators, out of the prover's reach.

## 5. Plan

Next modules, in this order:

1. `Crudbin`: the loop of `disassemble_buffer` as a second implementation of
   `Listing`.
2. What a `loadcpu` list means (`axiom_cpu_arch.h`), as a fold over its items, so that
   `FinishLoadcpu` accepts and refuses by it, and the encodings it yields as the scripts
   of `DecoderTableBuilder`.
3. `AxiomItemArray` on top of the pool: arrays that share their nodes.
4. `DecoderTableBuilder` composed with the walk of `Ixdecoder`: `Layered` gives
   what the decoder assumes of its table.

Theorems to come: of the table builder, what `DecodesScript` says of the tree of
tables, before it is written to the array.

Not modelled: reading and writing files, the text of messages and of the
listing except what is printed for an instruction, of that text the fixed part of
the mnemonics, the punctuation, the names of MMX, XMM, control and debug registers
and the replacement of numbers by symbols, which no caller asks for; what a `loadcpu` list holds
(its statements only name what the table builder then enters, and the semantics it
may give are not read by anything), generated data beyond the excerpt, and Windows
process handling other than as an external step that may fail.
