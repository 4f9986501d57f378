---------------------------- MODULE MCPortablePdb ----------------------------
(***************************************************************************)
(* Instances of PortablePdb for TLC.  The files are written here from a    *)
(* description of their documents, in the format that the comments of      *)
(* metadata_headers.h and metadata_tables.h describe, so that what is read *)
(* can be compared with what was described.                                *)
(***************************************************************************)
EXTENDS PortablePdb

LE(n, width) == [k \in 1..width |-> (n \div 256^(k - 1)) % 256]

BE(n, width) == Reverse(LE(n, width))

Zeros(n) == [k \in 1..n |-> 0]

Compress(n) ==
    CASE n < 2^7 -> BE(n, 1)
      [] n \in 2^7..(2^14 - 1) -> BE(n + 2^15, 2)
      [] OTHER -> <<192 + (n \div 2^24)>> \o BE(n % 2^24, 3)

CompressSigned(n) ==
    LET Rotate(bits) == IF n >= 0 THEN 2 * n ELSE 2 * (n + 2^bits) + 1
    IN CASE n \in -(2^6)..(2^6 - 1) -> BE(Rotate(6), 1)
         [] n \in (-(2^13)..(2^13 - 1)) \ (-(2^6)..(2^6 - 1)) ->
                BE(Rotate(13) + 2^15, 2)
         [] OTHER -> LET r == Rotate(28)
                     IN <<192 + (r \div 2^24)>> \o BE(r % 2^24, 3)

-----------------------------------------------------------------------------
(* Sequence points: <<IL offset, line, column, end line, end column>>, and    *)
(* <<IL offset>> for a hidden one.                                            *)

Shown(points, k) == {j \in 1..(k - 1) : Len(points[j]) > 1}

EncodePoint(points, k) ==
    LET p == points[k]
        delta == Compress(p[1] - IF k = 1 THEN 0 ELSE points[k - 1][1])
        before == points[Max(Shown(points, k))]
        lines == p[4] - p[2]
        cols == p[5] - p[3]
    IN IF Len(p) = 1 THEN delta \o <<0, 0>>
       ELSE delta \o Compress(lines)
            \o (IF k = 1 \/ lines = 0 THEN Compress(cols) ELSE CompressSigned(cols))
            \o (IF Shown(points, k) = {} THEN Compress(p[2]) \o Compress(p[3])
                ELSE CompressSigned(p[2] - before[2])
                     \o CompressSigned(p[3] - before[3]))

\* The signature is 1, and the points are those of one document.
EncodePoints(points) ==
    <<1>> \o FlattenSeq([k \in DOMAIN points |-> EncodePoint(points, k)])

PointOf(p) ==
    IF Len(p) = 1
    THEN [il_offset |-> p[1], start_line |-> kHiddenSequencePointLine,
          end_line |-> kHiddenSequencePointLine, start_col |-> 0, end_col |-> 0,
          is_hidden |-> TRUE]
    ELSE [il_offset |-> p[1], start_line |-> p[2], end_line |-> p[4],
          start_col |-> p[3], end_col |-> p[5], is_hidden |-> FALSE]

-----------------------------------------------------------------------------
(* Descriptions: the parts of the names of the documents, and methods with   *)
(* the number of their document (0 for none), their points and their scopes: *)
(* <<start, length, variables, constants>>, a variable being <<slot, name,   *)
(* hidden>> and a constant <<name, signature>>.                              *)

Method(doc, points, scopes) == [doc |-> doc, points |-> points, scopes |-> scopes]

Scopes(d) == FlattenSeq([m \in DOMAIN d.methods |->
                [k \in DOMAIN d.methods[m].scopes |->
                    [method |-> m, scope |-> d.methods[m].scopes[k]]]])

Variables(d) == FlattenSeq([k \in DOMAIN Scopes(d) |-> Scopes(d)[k].scope[3]])

Constants(d) == FlattenSeq([k \in DOMAIN Scopes(d) |-> Scopes(d)[k].scope[4]])

\* Where the things of a list begin in a heap, whose first byte is a 0.
Offsets(list) == [k \in DOMAIN list |-> 1 + Len(FlattenSeq(SubSeq(list, 1, k - 1)))]

Blob(bytes) == Compress(Len(bytes)) \o bytes

Names(d) == [k \in DOMAIN Variables(d) |-> Variables(d)[k][2] \o <<0>>]
            \o [k \in DOMAIN Constants(d) |-> Constants(d)[k][1] \o <<0>>]

Hash == [k \in 1..20 |-> k]

\* Roslyn writes the blobs as it meets them: names of documents and their hashes,
\* points, signatures of constants.
Blobs(d) ==
    LET parts == FlattenSeq(d.names)
        partAt == Offsets([k \in DOMAIN parts |-> Blob(parts[k])])
        first(n) == Len(FlattenSeq(SubSeq(d.names, 1, n - 1)))
    IN [k \in DOMAIN parts |-> Blob(parts[k])]
       \o [n \in DOMAIN d.names |->
             Blob(<<47>> \o FlattenSeq([k \in DOMAIN d.names[n] |->
                    IF d.names[n][k] = <<>> THEN <<0>>
                    ELSE Compress(partAt[first(n) + k])]))]
       \o <<Blob(Hash)>>
       \o [m \in DOMAIN d.methods |-> Blob(EncodePoints(d.methods[m].points))]
       \o [k \in DOMAIN Constants(d) |-> Blob(Constants(d)[k][2])]

TablesStream(d, wide) ==
    LET width(heap) == HeapIndexWidth(heap, wide)
        blobs == Offsets(Blobs(d))
        names == Offsets(Names(d))
        parts == Len(FlattenSeq(d.names))
        docs == Len(d.names)
        methods == Len(d.methods)
        Before(list, k) == 1 + Len(FlattenSeq([j \in 1..(k - 1) |->
                                                    Scopes(d)[j].scope[list]]))
        counts == [Document |-> docs, MethodDebugInformation |-> methods,
                   LocalScope |-> Len(Scopes(d)), LocalVariable |-> Len(Variables(d)),
                   LocalConstant |-> Len(Constants(d))]
        present == SelectSeq(TableNames, LAMBDA t : counts[t] > 0)
        mask == [b \in 1..8 |-> IF b # 7 THEN 0
                    ELSE MapThenSumSet(LAMBDA t : 2^(MetadataTable[t] - 48),
                                       Range(present))]
    IN LE(0, 4) \o <<2, 0, wide, 1>> \o mask \o Zeros(8)
       \o FlattenSeq([k \in DOMAIN present |-> LE(counts[present[k]], 4)])
       \o FlattenSeq([n \in 1..docs |->
            LE(blobs[parts + n], width("Blobs")) \o LE(1, width("Guids"))
            \o LE(blobs[parts + docs + 1], width("Blobs")) \o LE(2, width("Guids"))])
       \o FlattenSeq([m \in 1..methods |->
            LE(d.methods[m].doc, 2)
            \o LE(IF d.methods[m].doc = 0 THEN 0 ELSE blobs[parts + docs + 1 + m],
                  width("Blobs"))])
       \o FlattenSeq([k \in DOMAIN Scopes(d) |->
            LE(Scopes(d)[k].method, 2) \o LE(1, 2) \o LE(Before(3, k), 2)
            \o LE(Before(4, k), 2) \o LE(Scopes(d)[k].scope[1], 4)
            \o LE(Scopes(d)[k].scope[2], 4)])
       \o FlattenSeq([k \in DOMAIN Variables(d) |->
            LE(IF Variables(d)[k][3] THEN 1 ELSE 0, 2) \o LE(Variables(d)[k][1], 2)
            \o LE(names[k], width("Strings"))])
       \o FlattenSeq([k \in DOMAIN Constants(d) |->
            LE(names[Len(Variables(d)) + k], width("Strings"))
            \o LE(blobs[parts + docs + 1 + methods + k], width("Blobs"))])

PadTo4(bytes) == bytes \o [k \in 1..((4 - (Len(bytes) % 4)) % 4) |-> 0]

\* #Pdb, #~, #Strings, #GUID and #Blob, in the order the compiler writes them.
StreamsOf(d, wide) ==
    <<[name |-> "Pdb", bytes |-> [k \in 1..20 |-> 9] \o LE(1, 4) \o <<64>>
                                 \o Zeros(7) \o LE(7, 4)],
      [name |-> "Tables", bytes |-> TablesStream(d, wide)],
      [name |-> "Strings", bytes |-> <<0>> \o FlattenSeq(Names(d))],
      [name |-> "GUID", bytes |-> [k \in 1..32 |-> 200 + k]],
      [name |-> "Blob", bytes |-> <<0>> \o FlattenSeq(Blobs(d))]>>

FileOf(streams) ==
    LET body == [k \in DOMAIN streams |-> PadTo4(streams[k].bytes)]
        name == [k \in DOMAIN streams |-> PadTo4(StreamNames[streams[k].name] \o <<0>>)]
        root == <<66, 83, 74, 66>> \o LE(1, 2) \o LE(1, 2) \o LE(0, 4) \o LE(12, 4)
                \o PadTo4(<<80, 68, 66, 32, 118, 49, 46, 48, 0>>) \o LE(0, 2)
                \o LE(Len(streams), 2)
        start == Len(root) + Len(FlattenSeq(name)) + 8 * Len(streams)
        at == [k \in DOMAIN streams |->
                    start + Len(FlattenSeq(SubSeq(body, 1, k - 1)))]
    IN root
       \o FlattenSeq([k \in DOMAIN streams |->
                LE(at[k], 4) \o LE(Len(body[k]), 4) \o name[k]])
       \o FlattenSeq(body)

File(d, wide) == FileOf(StreamsOf(d, wide))

-----------------------------------------------------------------------------
(* What the file says, as DocumentIndex has it. *)

Joined(parts) == Tail(FlattenSeq([k \in DOMAIN parts |-> <<47>> \o parts[k]]))

MethodOf(d, m) ==
    LET points == d.methods[m].points
        shown == {k \in DOMAIN points : Len(points[k]) > 1}
        mine == SelectSeq([k \in DOMAIN Scopes(d) |-> k],
                          LAMBDA k : Scopes(d)[k].method = m)
    IN [method_def |-> m,
        first_line |-> Min({points[k][2] : k \in shown} \cup {UINT32_MAX}),
        last_line |-> Max({points[k][4] : k \in shown} \cup {0}),
        sequence_points |-> [k \in DOMAIN points |-> PointOf(points[k])],
        local_scope |-> [j \in DOMAIN mine |->
            LET scope == Scopes(d)[mine[j]].scope
            IN [start_offset |-> scope[1], length |-> scope[2], index |-> mine[j],
                local_variables |-> [v \in DOMAIN scope[3] |->
                    [slot |-> scope[3][v][1], name |-> scope[3][v][2],
                     debugger_hidden |-> scope[3][v][3]]],
                local_constants |-> [c \in DOMAIN scope[4] |->
                    [name |-> scope[4][c][1], signature_data |-> scope[4][c][2]]]]]]

DocumentsOf(d) ==
    [n \in DOMAIN d.names |->
        LET mine == SelectSeq([m \in DOMAIN d.methods |-> m],
                              LAMBDA m : d.methods[m].doc = n)
        IN [file_path |-> Joined(d.names[n]),
            methods |-> [j \in DOMAIN mine |-> MethodOf(d, mine[j])]]]

-----------------------------------------------------------------------------
(* The instances *)

\* Two documents; differences of lines and columns on both sides of the widths
\* of a compressed integer; loops that go back; methods that begin hidden, that
\* are hidden altogether and that have no document; nested scopes, one without
\* variables, and names longer than the buffer.
Small == [
    names |-> <<<<<<>>, <<115, 114, 99>>, <<97, 46, 99, 115>>>>, <<<<98, 46, 99, 115>>>>>>,
    methods |-> <<
        Method(1, <<<<0, 100, 9, 100, 10>>, <<1>>, <<130, 164, 72, 164, 200>>,
                    <<131, 100, 9, 102, 5>>, <<20000, 8292, 8201, 8292, 8202>>,
                    <<20001, 100, 8, 228, 1>>>>,
               <<<<0, 30000, <<<<0, <<105, 110, 100, 101, 120>>, FALSE>>>>, <<>>>>,
                 <<1, 200, <<<<1, <<120>>, TRUE>>, <<2, <<121>>, FALSE>>>>,
                  <<<<<<107>>, <<8, 1>>>>>>>>>>),
        Method(0, <<>>, <<<<0, 3, <<>>, <<>>>>>>),
        Method(2, <<<<0>>, <<5, 17000, 1, 17000, 2>>>>,
               <<<<0, 9, <<<<0, <<122>>, FALSE>>>>, <<<<<<109>>, <<14, 65>>>>>>>>>>),
        Method(2, <<<<0>>, <<7>>>>, <<>>)>>]

\* No code at all.
Empty == [names |-> <<<<<<99>>>>>>, methods |-> <<>>]

\* A description and heap_sizes.  The file with wide indices is always complete.
Instances == {[d |-> Small, wide |-> 0], [d |-> Small, wide |-> 3],
              [d |-> Empty, wide |-> 0]}

MCFiles == {File(i.d, i.wide) : i \in Instances}

InstanceOf(f) == CHOOSE i \in Instances : File(i.d, i.wide) = f

MCCuts == [f \in MCFiles |-> IF InstanceOf(f).wide # 0 THEN {} ELSE 0..(Len(f) - 1)]

MCContents == [f \in MCFiles |-> DocumentsOf(InstanceOf(f).d)]
=============================================================================
