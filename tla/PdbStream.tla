------------------------------ MODULE PdbStream ------------------------------
(***************************************************************************)
(* CustomBinaryStream (custom_binary_reader.cc): the reader of a symbol    *)
(* file.                                                                   *)
(*                                                                         *)
(* A stream is a record of the bytes of the file, the position and         *)
(* relative_end_, both counted from 0.  A reading operator returns a       *)
(* record: ok, the stream afterwards and the value v.  A read that fails   *)
(* has no value, and its callers give up.  Positions are 64 bits wide, and *)
(* what is read at once has at most 32.                                    *)
(***************************************************************************)
EXTENDS Integers, Sequences, FiniteSets, FiniteSetsExt, SequencesExt

CONSTANT kStringBufferSize              \* 100: GetString reads this much at once

ASSUME BufferAssumption == kStringBufferSize \in Nat \ {0}

Byte == 0..255

\* The value of a read that failed, and the result of such a read.
NoValue == <<>>

\* A name that the metadata does not give.
NoName == ""

Result(ok, s, v) == [ok |-> ok, s |-> s, v |-> v]

Fails(s) == Result(FALSE, s, NoValue)

\* The list that r has, and then what n has read.
Appended(r, n) == Result(n.ok, n.s, IF n.ok THEN Append(r.v, n.v) ELSE NoValue)

\* A loop of n turns.
Repeat(Turn(_, _), before, n) ==
    LET after[k \in 0..n] == IF k = 0 THEN before ELSE Turn(after[k - 1], k)
    IN after[n]

\* The bytes from position p on, n of them.
BytesAt(s, p, n) == SubSeq(s.b, p + 1, p + n)

-----------------------------------------------------------------------------
(* Positions and lengths *)

ConsumeStream(bytes) == [b |-> bytes, pos |-> 0, end |-> Len(bytes)]

HasNext(s) == s.pos < s.end

\* Compares with relative_end_, so that a read stays within the length set.
ReadBytes(s, n) ==
    IF s.end - s.pos < n THEN Fails(s)
    ELSE Result(TRUE, [s EXCEPT !.pos = @ + n], BytesAt(s, s.pos, n))

Peek(s) == IF HasNext(s) THEN Result(TRUE, s, s.b[s.pos + 1]) ELSE Fails(s)

SeekFromCurrent(s, n) ==
    IF s.end - s.pos < n THEN Fails(s)
    ELSE Result(TRUE, [s EXCEPT !.pos = @ + n], NoValue)

\* A file can be positioned behind its end: the next read fails.
SeekFromOrigin(s, p) == [s EXCEPT !.pos = p]

SetStreamLength(s, n) ==
    IF s.pos + n > s.end THEN Fails(s)
    ELSE Result(TRUE, [s EXCEPT !.end = s.pos + n], NoValue)

ResetStreamLength(s) == [s EXCEPT !.end = Len(s.b)]

\* The result of a read, and the length reset.
Unlimited(r) == Result(r.ok, ResetStreamLength(r.s), r.v)

-----------------------------------------------------------------------------
(* Integers *)

\* The integer whose bytes are those of high and then these.
BigEndian(high, bytes) ==
    Repeat(LAMBDA value, k : 256 * value + bytes[k], high, Len(bytes))

\* The integer that memcpy makes of little-endian bytes.
LittleEndian(bytes) == BigEndian(0, Reverse(bytes))

ReadUInt(s, width) ==
    IF s.end - s.pos < width THEN Fails(s)
    ELSE Result(TRUE, [s EXCEPT !.pos = @ + width], LittleEndian(BytesAt(s, s.pos, width)))

ReadByte(s) == ReadUInt(s, 1)

ReadUInt32(s) == ReadUInt(s, 4)

\* How many bytes a compressed integer takes, by the bits its first byte starts
\* with: 0, 10 and 110.  0 stands for 111, which is refused.
CompressedWidth(first) ==
    CASE first < 128 -> 1
      [] first \in 128..191 -> 2
      [] first \in 192..223 -> 4
      [] OTHER -> 0

\* The bits of the first byte that belong to the value.
CompressedBits(width) == CASE width = 1 -> 128 [] width = 2 -> 64 [] width = 4 -> 32

\* An integer of that many bytes.
ReadCompressed(s, width) ==
    LET r == ReadBytes(s, width)
    IN IF width = 0 \/ ~r.ok THEN Fails(s)
       ELSE Result(TRUE, r.s, BigEndian(r.v[1] % CompressedBits(width), Tail(r.v)))

ReadCompressedUInt32(s) ==
    IF HasNext(s) THEN ReadCompressed(s, CompressedWidth(s.b[s.pos + 1])) ELSE Fails(s)

\* The weight of the sign: the value keeps 6, 13 or 28 bits besides it.
SignWeight(width) ==
    CASE width = 1 -> 2^6 [] width = 2 -> 2^13 [] width = 4 -> 2^28

\* The sign is rotated to the lowest bit.
ReadCompressSignedInt32(s) ==
    LET first == Peek(s)
        r == ReadCompressedUInt32(s)
    IN IF ~first.ok \/ ~r.ok THEN Fails(s)
       ELSE Result(TRUE, r.s, r.v \div 2 - IF r.v % 2 = 0 THEN 0
                                           ELSE SignWeight(CompressedWidth(first.v)))

-----------------------------------------------------------------------------
(* Heaps *)

\* From offset to the null character, or to the end of the stream.  The buffer
\* is not cleared between two reads: without a null character, a last read that
\* does not fill it leaves the end of the read before in it, and the whole
\* buffer is appended.
GetString(s, offset) ==
    LET left == s.end - offset
        size == Min({kStringBufferSize, left})
        nulls == {p \in offset..(s.end - 1) : s.b[p + 1] = 0}
        stale == left % size
    IN CASE left < 0 -> Fails(s)
         [] left = 0 -> Result(TRUE, s, <<>>)
         [] left > 0 /\ nulls # {} ->
                Result(TRUE, s, BytesAt(s, offset, Min(nulls) - offset))
         [] left > 0 /\ nulls = {} ->
                Result(TRUE, s,
                       BytesAt(s, offset, left)
                       \o IF stale = 0 THEN <<>>
                          ELSE BytesAt(s, s.end - size, size - stale))

\* The blob at an offset: its length, compressed, and its bytes.
BlobAt(s, offset) ==
    LET size == ReadCompressedUInt32(SeekFromOrigin(s, offset))
    IN IF size.ok THEN ReadBytes(size.s, size.v) ELSE size

\* Does not change the stream.
GetBlobBytes(s, offset) == [BlobAt(s, offset) EXCEPT !.s = s]

-----------------------------------------------------------------------------
(* Indices into heaps and tables *)

\* The bits of heap_sizes.
Heap == [Strings |-> 1, Guids |-> 2, Blobs |-> 4]

HeapIndexWidth(heap, heap_sizes) ==
    IF (heap_sizes \div Heap[heap]) % 2 = 1 THEN 4 ELSE 2

\* The table with the number t.  rows is num_rows as a function from the numbers
\* of the tables that valid_mask has.  A table of the assembly is not in the
\* file, and is taken to be small.
TableIndexWidth(t, rows) ==
    IF t \in DOMAIN rows /\ rows[t] >= 2^16 THEN 4 ELSE 2
=============================================================================
