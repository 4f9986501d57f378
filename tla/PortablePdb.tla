----------------------------- MODULE PortablePdb -----------------------------
(***************************************************************************)
(* The symbols of a module (portable_pdb_file.cc, metadata_headers.cc,     *)
(* metadata_tables.cc, document_index.cc): ParsePdbFile reads the file     *)
(* beside the module and fills the tables, and one DocumentIndex for each  *)
(* source file, that breakpoints are resolved with.                        *)
(*                                                                         *)
(* ParsePdbFile is called for every breakpoint that is set and for every   *)
(* hit, until a call succeeds; a call that fails keeps what it has read.   *)
(* The file may still be in the middle of being written when a module is   *)
(* loaded: a call sees the first `have` bytes of it.                       *)
(***************************************************************************)
EXTENDS PdbStream, Functions

CONSTANTS
    Files,                              \* what the file may hold when complete
    Cuts,                               \* Cuts[f]: the lengths f may have before
    Contents,                           \* Contents[f]: the documents f describes
    kUInt32,                            \* 2^32: how many values a uint32_t has
    MaxCalls                            \* bound on the calls of ParsePdbFile

ASSUME FilesAssumption ==
    /\ Files \subseteq Seq(Byte)
    /\ Cuts \in [Files -> SUBSET Nat]
    /\ \A f \in Files : \A n \in Cuts[f] : n <= Len(f)
    /\ MaxCalls \in Nat

ASSUME UInt32Assumption == kUInt32 \in Nat \ {0}

VARIABLES
    dll,                                \* module_name_ ends with ".dll"
    file,                               \* the complete file
    have,                               \* how much of it is there
    pc,                                 \* where ParsePdbFile is
    calls,                              \* how often it was called
    turn,                               \* the turn of its loop
    stream,                             \* pdb_file_binary_stream_
    number_streams,                     \* of root_header_
    stream_headers_,
    heap_sizes,                         \* of metadata_table_header_
    rows,                               \* its num_rows, see TableIndexWidth
    tables,                             \* the five tables, without row 0
    document_indices_,
    parsed

vars == <<dll, file, have, pc, calls, turn, stream, number_streams, stream_headers_,
          heap_sizes, rows, tables, document_indices_, parsed>>

-----------------------------------------------------------------------------
(* Headers *)

\* The fields of the given widths, one after the other.
ReadFields(s, widths) ==
    Repeat(LAMBDA r, k : IF r.ok THEN Appended(r, ReadUInt(r.s, widths[k])) ELSE r,
           Result(TRUE, s, <<>>), Len(widths))

\* To the next multiple of four after n bytes.
Pad(s, n) == IF n % 4 = 0 THEN Result(TRUE, s, NoValue)
             ELSE SeekFromCurrent(s, 4 - (n % 4))

\* signature, major_version, minor_version, reserved and the length of the
\* version string, the string, flags and number_streams, which is the result.
ParseRootHeader(s) ==
    LET h == ReadFields(s, <<4, 2, 2, 4, 4>>)
        p == Pad(ReadBytes(h.s, h.v[5]).s, h.v[5])
        t == ReadFields(p.s, <<2, 2>>)
    IN IF /\ h.ok
          /\ h.v[2] = 1 /\ h.v[3] = 1 /\ h.v[4] = 0
          /\ ReadBytes(h.s, h.v[5]).ok
          /\ p.ok
          /\ t.ok
       THEN Result(TRUE, t.s, t.v[2])
       ELSE Fails(s)

\* Faulty variant: the padding does not count the null character.
ParseStreamHeaderShort(s) ==
    LET h == ReadFields(s, <<4, 4>>)
        q == h.s
        nulls == {p \in q.pos..(q.end - 1) : q.b[p + 1] = 0}
        size == (IF nulls = {} THEN q.end ELSE Min(nulls)) - q.pos
        p == Pad([q EXCEPT !.pos = @ + size], size)
    IN IF h.ok /\ size <= 32 /\ p.ok
       THEN Result(TRUE, p.s, [offset |-> h.v[1], size |-> h.v[2],
                               name |-> BytesAt(q, q.pos, size)])
       ELSE Fails(s)

\* A name of more than 32 characters is refused; one that the end of the file
\* cuts off is not.
ParseStreamHeader(s) ==
    LET h == ReadFields(s, <<4, 4>>)
        q == h.s
        nulls == {p \in q.pos..(q.end - 1) : q.b[p + 1] = 0}
        size == (IF nulls = {} THEN q.end ELSE Min(nulls)) - q.pos
        read == IF nulls = {} THEN size ELSE size + 1
        p == Pad([q EXCEPT !.pos = @ + read], read)
    IN IF h.ok /\ size <= 32 /\ p.ok
       THEN Result(TRUE, p.s, [offset |-> h.v[1], size |-> h.v[2],
                               name |-> BytesAt(q, q.pos, size)])
       ELSE Fails(s)

\* The numbers of the bits that are set.
CountAndSetBits(bytes) ==
    {8 * (p[1] - 1) + p[2] : p \in {q \in (1..Len(bytes)) \X (0..7) :
                                        (bytes[q[1]] \div 2^q[2]) % 2 = 1}}

\* As many row counts as bits are set, by the number of the table.
ReadRowCounts(s, bits) ==
    LET r == ReadFields(s, [i \in 1..Cardinality(bits) |-> 4])
    IN IF r.ok
       THEN Result(TRUE, r.s, [t \in bits |-> r.v[Cardinality({u \in bits : u <= t})]])
       ELSE r

\* pdb_id, entry_point, the tables of the assembly that are referred to and
\* their numbers of rows: read and not used.
ParsePdbMetadataHeader(s) ==
    LET id == ReadBytes(s, 20)
        entry == ReadUInt32(id.s)
        bits == ReadBytes(entry.s, 8)
    IN IF id.ok /\ entry.ok /\ bits.ok
       THEN ReadRowCounts(bits.s, CountAndSetBits(bits.v))
       ELSE Fails(s)

\* reserved, major_version, minor_version, heap_sizes, reserved_2, valid_mask,
\* sorted_mask, num_rows.  Whatever values the version fields have, they are
\* accepted.
ParseTableHeader(s) ==
    LET h == ReadFields(s, <<4, 1, 1, 1, 1>>)
        valid == ReadBytes(h.s, 8)
        sorted == ReadBytes(valid.s, 8)
        counts == ReadRowCounts(sorted.s, CountAndSetBits(valid.v))
    IN IF h.ok /\ valid.ok /\ sorted.ok /\ counts.ok
       THEN Result(TRUE, counts.s, [heap_sizes |-> h.v[4], rows |-> counts.v])
       ELSE Fails(s)

-----------------------------------------------------------------------------
(* Tables *)

MetadataTable == [Method |-> 6, Document |-> 48, MethodDebugInformation |-> 49,
                  LocalScope |-> 50, LocalVariable |-> 51, LocalConstant |-> 52,
                  ImportScope |-> 53]

TableNames == <<"Document", "MethodDebugInformation", "LocalScope",
                "LocalVariable", "LocalConstant">>

\* The columns of the tables, and the widths they are read with.
DocumentColumns(heaps) ==
    LET H(heap) == HeapIndexWidth(heap, heaps)
    IN <<H("Blobs"), H("Guids"), H("Blobs"), H("Guids")>>

\* The document of a method is read as if it was an index into the blobs.
MethodDebugInformationColumns(heaps) ==
    <<HeapIndexWidth("Blobs", heaps), HeapIndexWidth("Blobs", heaps)>>

Columns(table, heaps, counts) ==
    LET H(heap) == HeapIndexWidth(heap, heaps)
        T(t) == TableIndexWidth(MetadataTable[t], counts)
    IN CASE table = "Document" -> DocumentColumns(heaps)
         [] table = "MethodDebugInformation" -> MethodDebugInformationColumns(heaps)
         [] table = "LocalScope" ->
                <<T("Method"), T("ImportScope"), T("LocalVariable"),
                  T("LocalConstant"), 4, 4>>
         [] table = "LocalVariable" -> <<2, 2, H("Strings")>>
         [] table = "LocalConstant" -> <<H("Strings"), H("Blobs")>>

\* A row as the record of its fields.
Row(table, v) ==
    CASE table = "Document" ->
            [name |-> v[1], hash_algorithm |-> v[2], hash |-> v[3], language |-> v[4]]
      [] table = "MethodDebugInformation" ->
            [document |-> v[1], sequence_points |-> v[2]]
      [] table = "LocalScope" ->
            [method_def |-> v[1], variable_list |-> v[3], constant_list |-> v[4],
             start_offset |-> v[5], length |-> v[6]]
      [] table = "LocalVariable" ->
            [attributes |-> v[1], index |-> v[2], name |-> v[3]]
      [] table = "LocalConstant" -> [name |-> v[1], signature |-> v[2]]

RowsOf(t, counts) == IF t \in DOMAIN counts THEN counts[t] ELSE 0

\* One table: num_rows rows of its columns.
ParseMetadataTableRow(s, table, header) ==
    LET widths == Columns(table, header.heap_sizes, header.rows)
        n == RowsOf(MetadataTable[table], header.rows)
        Add(r, row) == Result(row.ok, row.s,
                              IF row.ok THEN Append(r.v, Row(table, row.v)) ELSE NoValue)
    IN Repeat(LAMBDA r, k : IF r.ok THEN Add(r, ReadFields(r.s, widths)) ELSE r,
              Result(TRUE, s, <<>>), n)

\* The check that the file has tables of symbols only: it looks at as many tables
\* as there are documents.
OnlyPdbTables(counts) ==
    \A t \in 0..(RowsOf(MetadataTable.Document, counts) - 1) : RowsOf(t, counts) = 0

-----------------------------------------------------------------------------
(* Sequence points *)

kHiddenSequencePointLine == 16707566          \* 0xFEEFEE

kDocumentChangeSequencePointLine == 16637917  \* 0xFDDFDD

SpecialRecord(delta, line) ==
    [il_delta |-> delta, start_line |-> line, end_line |-> line,
     start_col |-> 0, end_col |-> 0]

NewHiddenSequencePoint(delta) == SpecialRecord(delta, kHiddenSequencePointLine)

NewDocumentChangeSequencePoint(document) ==
    SpecialRecord(document, kDocumentChangeSequencePointLine)

IsSpecial(r, line) == /\ r.start_line = line /\ r.end_line = line
                      /\ r.start_col = 0 /\ r.end_col = 0

IsHidden(r) == IsSpecial(r, kHiddenSequencePointLine)

IsDocumentChange(r) == IsSpecial(r, kDocumentChangeSequencePointLine)

SequencePoint(delta, line, col, lines, cols) ==
    [il_delta |-> delta, start_line |-> line, end_line |-> line + lines,
     start_col |-> col, end_col |-> col + cols]

ParseFirstRecord(s) ==
    LET delta == ReadCompressedUInt32(s)
        lines == ReadCompressedUInt32(delta.s)
        cols == ReadCompressedUInt32(lines.s)
        line == ReadCompressedUInt32(cols.s)
        col == ReadCompressedUInt32(line.s)
    IN CASE ~(delta.ok /\ lines.ok /\ cols.ok) -> Fails(s)
         [] delta.ok /\ lines.ok /\ cols.ok /\ lines.v = 0 /\ cols.v = 0 ->
                Result(TRUE, cols.s, NewHiddenSequencePoint(delta.v))
         [] OTHER ->
                IF line.ok /\ col.ok
                THEN Result(TRUE, col.s, SequencePoint(delta.v, line.v, col.v,
                                                       lines.v, cols.v))
                ELSE Fails(s)

\* last is the last record that is not hidden, a sequence of at most one: its
\* position is what the next one is counted from.
ReadPosition(s, last) ==
    IF last = <<>> THEN ReadCompressedUInt32(s) ELSE ReadCompressSignedInt32(s)

ParseNextPosition(last, delta, lines, cols, line, col) ==
    IF ~line.ok \/ ~col.ok THEN Fails(line.s)
    ELSE Result(TRUE, col.s,
                SequencePoint(delta,
                              line.v + IF last = <<>> THEN 0 ELSE last[1].start_line,
                              col.v + IF last = <<>> THEN 0 ELSE last[1].start_col,
                              lines, cols))

ParseNextColumns(last, delta, lines, cols) ==
    IF ~cols.ok THEN cols
    ELSE IF lines = 0 /\ cols.v = 0
    THEN Result(TRUE, cols.s, NewHiddenSequencePoint(delta))
    ELSE LET line == ReadPosition(cols.s, last)
         IN ParseNextPosition(last, delta, lines, cols.v, line, ReadPosition(line.s, last))

ParseNextRecord(s, last) ==
    LET first == ReadCompressedUInt32(s)
        second == ReadCompressedUInt32(first.s)
    IN IF ~first.ok \/ ~second.ok THEN Fails(s)
       ELSE IF first.v = 0
       THEN Result(TRUE, second.s, NewDocumentChangeSequencePoint(second.v))
       ELSE ParseNextColumns(last, first.v, second.v,
                             IF second.v = 0 THEN ReadCompressedUInt32(second.s)
                             ELSE ReadCompressSignedInt32(second.s))

\* Faulty variant: a hidden record counts too.
LastRecord(last, r) == <<r>>

\* The last record that is not hidden, after record r.
LastNonHidden(last, r) == IF IsHidden(r) THEN last ELSE <<r>>

\* The records read so far, r, and the next one, n.
AddRecord(r, n) ==
    [ok |-> n.ok, s |-> n.s,
     v |-> IF n.ok THEN Append(r.v, n.v) ELSE NoValue,
     last |-> IF n.ok THEN LastNonHidden(r.last, n.v) ELSE <<>>]

\* The records of a blob after the first one.  Every record takes at least a
\* byte, so that the loop makes at most as many turns as there are bytes.
ParseRecords(first) ==
    IF ~first.ok THEN first
    ELSE Repeat(LAMBDA r, k : IF r.ok /\ HasNext(r.s)
                              THEN AddRecord(r, ParseNextRecord(r.s, r.last)) ELSE r,
                [ok |-> TRUE, s |-> first.s, v |-> <<first.v>>,
                 last |-> LastNonHidden(<<>>, first.v)],
                first.s.end - first.s.pos)

\* The records behind the document that a method with several of them begins in.
WithInitialDocument(initial, records) ==
    IF ~records.ok THEN Fails(initial.s)
    ELSE Result(TRUE, records.s, <<NewDocumentChangeSequencePoint(initial.v)>> \o records.v)

ParseInitialDocument(initial) ==
    IF initial.ok
    THEN WithInitialDocument(initial, ParseRecords(ParseFirstRecord(initial.s)))
    ELSE initial

\* The signature, the document if the method has more than one, the records.
ParseSequencePoints(s, starting_document) ==
    LET signature == ReadCompressedUInt32(s)
    IN IF ~signature.ok THEN signature
       ELSE IF starting_document = 0
       THEN ParseInitialDocument(ReadCompressedUInt32(signature.s))
       ELSE ParseRecords(ParseFirstRecord(signature.s))

-----------------------------------------------------------------------------
(* Heaps and streams of the file *)

\* GetStream: the headers with a name, of which the first one counts.
StreamsNamed(name) == {k \in DOMAIN stream_headers_ : stream_headers_[k].name = name}

StreamNamed(name) == stream_headers_[Min(StreamsNamed(name))]

\* The names "#Strings", "#Blob", "#GUID", "#Pdb" and "#~".
StreamNames == [Strings |-> <<35, 83, 116, 114, 105, 110, 103, 115>>,
                Blob |-> <<35, 66, 108, 111, 98>>, GUID |-> <<35, 71, 85, 73, 68>>,
                Pdb |-> <<35, 80, 100, 98>>, Tables |-> <<35, 126>>]

\* A position in a heap, as the code computes it in a uint32_t.
HeapPosition(heap, index) == (StreamNamed(StreamNames[heap]).offset + index) % kUInt32

GetHeapString(s, index) == GetString(s, HeapPosition("Strings", index))

\* GUIDs are numbered from 1 and have 16 bytes; 0 reads what is before the heap.
GetHeapGuid(s, index) ==
    ReadBytes(SeekFromOrigin(s, HeapPosition("GUID", (index - 1) * 16)), 16)

GetHash(s, index) == BlobAt(s, HeapPosition("Blob", index))

\* The compressed integers up to the end of the stream.
ReadIndices(s) ==
    Repeat(LAMBDA r, k : IF r.ok /\ HasNext(r.s)
                         THEN Appended(r, ReadCompressedUInt32(r.s)) ELSE r,
           Result(TRUE, s, <<>>), s.end - s.pos)

\* A separator and the blobs of the parts; part 0 is empty.  The names of a file
\* have a part at least.
GetDocumentName(s, index) ==
    LET size == ReadCompressedUInt32(SeekFromOrigin(s, HeapPosition("Blob", index)))
        window == SetStreamLength(size.s, size.v)
        separator == ReadByte(window.s)
        indices == ReadIndices(separator.s)
        whole == ResetStreamLength(indices.s)
        Part(k) == IF k = 0 THEN Result(TRUE, whole, <<>>)
                   ELSE BlobAt(whole, HeapPosition("Blob", k))
        Join(name, k) == name \o <<separator.v>> \o Part(k).v
    IN IF index = 0 \/ ~size.ok \/ ~window.ok THEN Fails(s)
       ELSE IF ~separator.ok \/ ~indices.ok THEN Fails(whole)
       ELSE IF \E k \in DOMAIN indices.v : ~Part(indices.v[k]).ok THEN Fails(whole)
       ELSE Result(TRUE, whole, Tail(FoldLeft(Join, <<>>, indices.v)))

\* Faulty variant: the length is not reset.
GetMethodSeqInfoKeepsLength(s, doc_index, index) ==
    LET size == ReadCompressedUInt32(SeekFromOrigin(s, HeapPosition("Blob", index)))
        window == SetStreamLength(size.s, size.v)
    IN IF ~size.ok \/ ~window.ok THEN Fails(s)
       ELSE ParseSequencePoints(window.s, doc_index)

GetMethodSeqInfo(s, doc_index, index) ==
    LET size == ReadCompressedUInt32(SeekFromOrigin(s, HeapPosition("Blob", index)))
        window == SetStreamLength(size.s, size.v)
    IN IF ~size.ok \/ ~window.ok THEN Fails(s)
       ELSE Unlimited(ParseSequencePoints(window.s, doc_index))

-----------------------------------------------------------------------------
(* DocumentIndex *)

\* Stands for 2^32 - 1: a number greater than every line of a file.
UINT32_MAX == 2147483647

\* A scope owns the variables (and constants) from its own list to the list of
\* the next scope, whatever method that is of, or to the end of the table.
OwnedRows(list, k, table) ==
    LET from == tables.LocalScope[k][list]
        size == Len(tables[table]) + 1
        to == IF k < Len(tables.LocalScope)
              THEN Min({size, tables.LocalScope[k + 1][list]})
              ELSE size
    IN [from |-> from, to |-> to]

LocalVariable(row, name) ==
    [ok |-> name.ok, v |-> [slot |-> row.index, name |-> name.v,
                            debugger_hidden |-> row.attributes = 1]]

LocalConstant(name, signature) ==
    [ok |-> name.ok /\ signature.ok,
     v |-> [name |-> name.v, signature_data |-> signature.v]]

ReadLocal(table, row) ==
    IF table = "LocalVariable" THEN LocalVariable(row, GetHeapString(stream, row.name))
    ELSE LocalConstant(GetHeapString(stream, row.name),
                       GetBlobBytes(stream, HeapPosition("Blob", row.signature)))

\* What was read up to a row that fails is kept.
AddLocal(r, n) == [ok |-> n.ok, v |-> IF n.ok THEN Append(r.v, n.v) ELSE r.v]

\* The rows of a scope in one of its two tables, up to the first one that fails.
ReadRows(k, list, table) ==
    LET owned == OwnedRows(list, k, table)
    IN FoldLeft(LAMBDA r, i : IF r.ok THEN AddLocal(r, ReadLocal(table, tables[table][i]))
                              ELSE r,
                [ok |-> owned.to >= owned.from, v |-> <<>>],
                [i \in 1..(owned.to - owned.from) |-> owned.from + i - 1])

Scope(k, variables, constants) ==
    [start_offset |-> tables.LocalScope[k].start_offset,
     length |-> tables.LocalScope[k].length, index |-> k,
     local_variables |-> variables.v,
     local_constants |-> IF variables.ok THEN constants.v ELSE <<>>]

\* A scope that cannot be read in full is kept as far as it was read.
ParseScope(k) == Scope(k, ReadRows(k, "variable_list", "LocalVariable"),
                       ReadRows(k, "constant_list", "LocalConstant"))

\* The points of a method with their IL offsets instead of differences.
SequencePoints(records) ==
    LET Step(points, r) ==
            Append(points,
                   [il_offset |-> r.il_delta
                                  + IF points = <<>> THEN 0 ELSE Last(points).il_offset,
                    start_line |-> r.start_line, end_line |-> r.end_line,
                    start_col |-> r.start_col, end_col |-> r.end_col,
                    is_hidden |-> IsHidden(r)])
    IN FoldLeft(Step, <<>>, records)

ScopesOf(method_def) ==
    SelectSeq([k \in DOMAIN tables.LocalScope |-> k],
              LAMBDA k : tables.LocalScope[k].method_def = method_def)

\* The method with these points and scopes.
MethodIndex(method_def, points, scopes) ==
    LET shown == {k \in DOMAIN points : ~points[k].is_hidden}
    IN [method_def |-> method_def,
        first_line |-> Min({points[k].start_line : k \in shown} \cup {UINT32_MAX}),
        last_line |-> Max({points[k].end_line : k \in shown} \cup {0}),
        sequence_points |-> points,
        local_scope |-> [k \in DOMAIN scopes |-> ParseScope(scopes[k])]]

\* A method that changes to another document makes the document fail.
MethodOfDocument(method_def, info) ==
    IF ~info.ok THEN info
    ELSE IF \E k \in DOMAIN info.v : IsDocumentChange(info.v[k]) THEN Fails(info.s)
    ELSE Result(TRUE, info.s, MethodIndex(method_def, SequencePoints(info.v),
                                          ScopesOf(method_def)))

ParseMethod(s, method_def, doc_index) ==
    MethodOfDocument(
        method_def,
        GetMethodSeqInfo(s, doc_index,
                         tables.MethodDebugInformation[method_def].sequence_points))

\* The methods that are of this document alone.
ParseMethods(s, doc_index) ==
    Repeat(LAMBDA r, m :
               IF r.ok /\ tables.MethodDebugInformation[m].document = doc_index
               THEN Appended(r, ParseMethod(r.s, m, doc_index))
               ELSE r,
           Result(TRUE, s, <<>>), Len(tables.MethodDebugInformation))

DocumentIndex(name, methods) ==
    IF ~methods.ok THEN methods
    ELSE Result(TRUE, methods.s, [file_path |-> name, methods |-> methods.v])

\* What follows the name.  Language and hash are read and not used.
InitializeNamed(name, doc_index) ==
    LET row == tables.Document[doc_index]
        language == GetHeapGuid(name.s, row.language)
        algorithm == GetHeapGuid(language.s, row.hash_algorithm)
        hash == GetHash(algorithm.s, row.hash)
    IN IF ~name.ok THEN name
       ELSE IF ~language.ok \/ ~algorithm.ok \/ ~hash.ok THEN Fails(name.s)
       ELSE DocumentIndex(name.v, ParseMethods(hash.s, doc_index))

\* DocumentIndex::Initialize.
InitializeDocument(s, doc_index) ==
    InitializeNamed(GetDocumentName(s, tables.Document[doc_index].name), doc_index)

-----------------------------------------------------------------------------
(* ParsePdbFile *)

NoTables == [table \in Range(TableNames) |-> <<>>]

Init ==
    /\ dll \in BOOLEAN
    /\ file \in Files
    /\ have \in Cuts[file] \cup {Len(file)}
    /\ pc = "idle"
    /\ calls = 0
    /\ turn = 0
    /\ stream = ConsumeStream(<<>>)
    /\ number_streams = 0
    /\ stream_headers_ = <<>>
    /\ heap_sizes = 0
    /\ rows = <<>>
    /\ tables = NoTables
    /\ document_indices_ = <<>>
    /\ parsed = FALSE

\* The rest of the file is written.
FileCompleted ==
    /\ have < Len(file)
    /\ have' = Len(file)
    /\ UNCHANGED <<dll, file, pc, calls, turn, stream, number_streams,
                   stream_headers_, heap_sizes, rows, tables, document_indices_,
                   parsed>>

Goto(label) == pc' = label /\ turn' = 1

\* A call that returns false; the stream is s.
GiveUp(s) ==
    /\ Goto("idle")
    /\ stream' = s
    /\ UNCHANGED <<dll, file, have, calls, number_streams, stream_headers_,
                   heap_sizes, rows, tables, document_indices_, parsed>>

ConsumeFile ==
    /\ pc = "idle"
    /\ ~parsed
    /\ dll
    /\ calls < MaxCalls
    /\ calls' = calls + 1
    /\ Goto("root")
    /\ stream' = ConsumeStream(SubSeq(file, 1, have))
    /\ UNCHANGED <<dll, file, have, number_streams, stream_headers_, heap_sizes,
                   rows, tables, document_indices_, parsed>>

\* The module is no .dll, or the file cannot be opened.
ConsumeNothing ==
    /\ pc = "idle"
    /\ ~parsed
    /\ calls < MaxCalls
    /\ calls' = calls + 1
    /\ UNCHANGED <<dll, file, have, pc, turn, stream, number_streams, stream_headers_,
                   heap_sizes, rows, tables, document_indices_, parsed>>

ReadRootHeader ==
    /\ pc = "root"
    /\ \E r \in {ParseRootHeader(stream)} :
         IF r.ok
         THEN /\ number_streams' = r.v
              /\ stream' = r.s
              /\ Goto("streams")
              /\ UNCHANGED <<dll, file, have, calls, stream_headers_, heap_sizes,
                             rows, tables, document_indices_, parsed>>
         ELSE GiveUp(r.s)

\* The headers are appended to the ones an earlier call has left.
ReadStreamHeader ==
    /\ pc = "streams"
    /\ turn <= number_streams
    /\ \E r \in {ParseStreamHeader(stream)} :
         IF r.ok
         THEN /\ stream_headers_' = Append(stream_headers_, r.v)
              /\ stream' = r.s
              /\ turn' = turn + 1
              /\ UNCHANGED <<dll, file, have, pc, calls, number_streams, heap_sizes,
                             rows, tables, document_indices_, parsed>>
         ELSE GiveUp(r.s)

InitializeHeaps ==
    /\ pc = "streams"
    /\ turn > number_streams
    /\ IF \A heap \in {"Strings", "Blob", "GUID"} : StreamsNamed(StreamNames[heap]) # {}
       THEN /\ Goto("header")
            /\ UNCHANGED <<dll, file, have, calls, stream, number_streams,
                           stream_headers_, heap_sizes, rows, tables,
                           document_indices_, parsed>>
       ELSE GiveUp(stream)

\* Positions the stream at the named one, and ends it there.
EnterStream(name) ==
    LET header == StreamNamed(name)
        at == SeekFromOrigin(stream, header.offset)
    IN IF StreamsNamed(name) = {} THEN Fails(stream)
       ELSE SetStreamLength(at, header.size)

\* The first part of ParseCompressedMetadataTableStream.
ReadTableHeader ==
    LET window == EnterStream(StreamNames.Tables)
        r == ParseTableHeader(window.s)
    IN /\ pc = "header"
       /\ IF window.ok /\ r.ok /\ OnlyPdbTables(r.v.rows)
          THEN /\ heap_sizes' = r.v.heap_sizes
               /\ rows' = r.v.rows
               /\ stream' = r.s
               /\ Goto("tables")
               /\ UNCHANGED <<dll, file, have, calls, number_streams,
                              stream_headers_, tables, document_indices_, parsed>>
          ELSE GiveUp(ResetStreamLength(window.s))

\* Its second part, a table at a time.  What is left of a table that fails is
\* read by nobody.
ReadTable ==
    /\ pc = "tables"
    /\ \E r \in {ParseMetadataTableRow(stream, TableNames[turn],
                                       [heap_sizes |-> heap_sizes, rows |-> rows])} :
         IF r.ok
         THEN /\ tables' = [tables EXCEPT ![TableNames[turn]] = r.v]
              /\ IF turn < Len(TableNames)
                 THEN stream' = r.s /\ turn' = turn + 1 /\ pc' = pc
                 ELSE stream' = ResetStreamLength(r.s) /\ Goto("pdb")
              /\ UNCHANGED <<dll, file, have, calls, number_streams,
                             stream_headers_, heap_sizes, rows, document_indices_,
                             parsed>>
         ELSE GiveUp(ResetStreamLength(r.s))

ParsePortablePdbStream ==
    LET window == EnterStream(StreamNames.Pdb)
        r == ParsePdbMetadataHeader(window.s)
    IN /\ pc = "pdb"
       /\ IF window.ok /\ r.ok
          THEN /\ stream' = ResetStreamLength(r.s)
               /\ Goto("documents")
               /\ UNCHANGED <<dll, file, have, calls, number_streams,
                              stream_headers_, heap_sizes, rows, tables,
                              document_indices_, parsed>>
          ELSE GiveUp(ResetStreamLength(window.s))

\* The indices are appended to the ones an earlier call has left.
ReadDocument ==
    /\ pc = "documents"
    /\ turn <= Len(tables.Document)
    /\ \E r \in {InitializeDocument(stream, turn)} :
         IF r.ok
         THEN /\ document_indices_' = Append(document_indices_, r.v)
              /\ stream' = r.s
              /\ turn' = turn + 1
              /\ UNCHANGED <<dll, file, have, pc, calls, number_streams,
                             stream_headers_, heap_sizes, rows, tables, parsed>>
         ELSE GiveUp(r.s)

\* Faulty variant: the loop ends before the last document.
ParsedEarly ==
    /\ pc = "documents"
    /\ turn >= Len(tables.Document)
    /\ parsed' = TRUE
    /\ Goto("idle")
    /\ UNCHANGED <<dll, file, have, calls, stream, number_streams, stream_headers_,
                   heap_sizes, rows, tables, document_indices_>>

Parsed ==
    /\ pc = "documents"
    /\ turn > Len(tables.Document)
    /\ parsed' = TRUE
    /\ Goto("idle")
    /\ UNCHANGED <<dll, file, have, calls, stream, number_streams, stream_headers_,
                   heap_sizes, rows, tables, document_indices_>>

ParsePdbFile ==
    \/ ConsumeFile
    \/ ConsumeNothing
    \/ ReadRootHeader
    \/ ReadStreamHeader
    \/ InitializeHeaps
    \/ ReadTableHeader
    \/ ReadTable
    \/ ParsePortablePdbStream
    \/ ReadDocument
    \/ Parsed

Next == ParsePdbFile \/ FileCompleted

Spec == Init /\ [][Next]_vars

-----------------------------------------------------------------------------
(* Properties *)

Labels == {"idle", "root", "streams", "header", "tables", "pdb", "documents"}

\* The variables of PortablePdbFile and of the call have the types of the code;
\* no limit on the stream is beyond the bytes that were there when it was opened.
TypeOK ==
    /\ dll \in BOOLEAN
    /\ have \in 0..Len(file)
    /\ pc \in Labels
    /\ calls \in 0..MaxCalls
    /\ turn \in Nat
    /\ stream.b = SubSeq(file, 1, Len(stream.b))
    /\ stream.pos \in Nat
    /\ stream.end \in 0..Len(stream.b)
    /\ number_streams \in Nat
    /\ \A k \in DOMAIN stream_headers_ :
            stream_headers_[k].offset \in Nat /\ stream_headers_[k].size \in Nat
    /\ heap_sizes \in Byte
    /\ \A t \in DOMAIN rows : t \in 0..63 /\ rows[t] \in Nat
    /\ DOMAIN tables = Range(TableNames)
    /\ parsed \in BOOLEAN

\* Whatever part of a file fails to be read, the stream ends at the end of the
\* file again when the next part is begun: a limit set by SetStreamLength for one
\* blob or stream never hides what comes behind it.
NoLimitIsLeft == pc # "tables" => stream.end = Len(stream.b)

\* A document without its constants.
WithoutConstants(document) ==
    [document EXCEPT !.methods = [m \in DOMAIN @ |->
        [@[m] EXCEPT !.local_scope = [k \in DOMAIN @ |->
            [@[k] EXCEPT !.local_constants = <<>>]]]]]

\* Every DocumentIndex, also one that a failed call on a part of the file has
\* left, has the name, the methods, the lines, columns and IL offsets and the
\* variables that the file gives to one of its documents.  Only constants may be
\* missing: a scope that cannot be read in full is kept.
IndicesAreExact ==
    \A k \in DOMAIN document_indices_ :
        \E document \in Range(Contents[file]) :
            WithoutConstants(document_indices_[k]) = WithoutConstants(document)

\* The call that ends with parsed set has added every document, in the order of
\* the table, and with every constant if the file was complete.
ParsedHasAllDocuments ==
    parsed =>
        \E documents \in {Contents[file]} :
            LET n == Len(documents)
                added == SubSeq(document_indices_, Len(document_indices_) - n + 1,
                                Len(document_indices_))
            IN /\ Len(document_indices_) >= n
               /\ [d \in 1..n |-> WithoutConstants(added[d])]
                    = [d \in 1..n |-> WithoutConstants(documents[d])]
               /\ Len(stream.b) = Len(file) => added = documents

\* A call that has seen the complete file succeeds: "Confirm the PDB only contains
\* PDB-related metadata tables" refuses no file of symbols with up to 48
\* documents.  The loop of that check ends at the number of documents, and not at
\* the first table of the PDB, so that it reaches the Document table beyond that.
CompleteFileIsParsed ==
    (/\ pc = "idle" /\ Len(stream.b) = Len(file)
     /\ Len(Contents[file]) <= MetadataTable.Document)
    => parsed

-----------------------------------------------------------------------------
(* The inductive invariant *)

StreamHeader == [offset : Nat, size : Nat, name : Seq(Byte)]

DocumentRow == [name : Nat, hash_algorithm : Nat, hash : Nat, language : Nat]

MethodDebugInformationRow == [document : Nat, sequence_points : Nat]

\* Positions are computed from numbers that were read: the offsets of the streams,
\* the heaps among them once they have been looked for, and the rows of tables.
PdbInv ==
    /\ TypeOK
    /\ NoLimitIsLeft
    /\ file \in Files
    /\ stream \in [b : Seq(Byte), pos : Nat, end : Nat]
    /\ stream_headers_ \in Seq(StreamHeader)
    /\ tables.Document \in Seq(DocumentRow)
    /\ tables.MethodDebugInformation \in Seq(MethodDebugInformationRow)
    /\ pc # "idle" => turn >= 1
    /\ pc = "tables" => turn <= Len(TableNames)
    /\ pc \in {"header", "tables", "pdb", "documents"} =>
           \A heap \in {"Strings", "Blob", "GUID"} : StreamsNamed(StreamNames[heap]) # {}
=============================================================================
