--------------------------- MODULE PortablePdbProofs ---------------------------
(***************************************************************************)
(* Proofs about PortablePdb, for every set of files, whatever bytes a file *)
(* holds and wherever it is cut off: the reader keeps its types, and has   *)
(* reset the length of its stream whenever it begins with another part.    *)
(*                                                                         *)
(* The lemmas follow the code from the reads of the stream upwards.  Each  *)
(* one says that a read, successful or not, changes the position at most   *)
(* (Kept), and what a successful one returns as far as later positions are *)
(* computed from it.  A loop is a recursive function; every loop lemma     *)
(* first shows that the function exists, turn after turn, and then that    *)
(* each turn keeps the stream (LastTurn).                                  *)
(***************************************************************************)
EXTENDS PortablePdb, SequenceTheorems, FiniteSetTheorems, WellFoundedInduction, TLAPS

-----------------------------------------------------------------------------
(* Loops *)

\* Good has what holds before the first turn, and after a turn if before it.
Turns(Good, n) == 0 \in Good /\ \A k \in 1..n : k - 1 \in Good => k \in Good

\* It has what holds after the last turn.
LEMMA LastTurn ==
    ASSUME NEW n \in Nat, NEW Good, Turns(Good, n)
    PROVE  n \in Good
<1> DEFINE Bad == {k \in 0..n : k \notin Good}
<1>1. SUFFICES ASSUME Bad # {} PROVE FALSE
  OBVIOUS
<1>2. Bad \subseteq Nat
  OBVIOUS
<1>3. PICK k \in Bad : \A j \in Bad : <<j, k>> \notin OpToRel(<, Nat)
  <2> HIDE DEF Bad
  <2> QED
    BY <1>1, <1>2, NatLessThanWellFounded, WFMin
<1>4. k \in 0..n /\ k \notin Good
  BY <1>3
<1>5. k \in 1..n /\ k \in Nat /\ k - 1 \in Nat /\ k - 1 \in 0..n /\ k - 1 < k
  BY <1>4 DEF Turns
<1>6. k - 1 \notin Good
  BY <1>4, <1>5 DEF Turns
<1>7. k - 1 \in Bad
  BY <1>5, <1>6
<1> HIDE DEF Bad
<1>8. <<k - 1, k>> \in OpToRel(<, Nat)
  BY <1>5 DEF OpToRel
<1> QED
  BY <1>3, <1>7, <1>8

\* A set of natural numbers has a least element.
LEMMA LeastOf ==
    ASSUME NEW S, S \subseteq Nat, S # {}
    PROVE  Min(S) \in S
<1>1. PICK i \in S : \A j \in S : <<j, i>> \notin OpToRel(<, Nat)
  BY NatLessThanWellFounded, WFMin
<1>2. \A j \in S : j \in Nat /\ ~(j < i)
  BY <1>1 DEF OpToRel
<1>3. \E x \in S : \A y \in S : x =< y
  BY <1>2
<1> QED
  BY <1>3, Zenon DEF Min

LEMMA ByteIsNatural ==
    ASSUME NEW x \in Byte
    PROVE  x \in Nat
<1>1. \A lo, hi \in Nat : lo..hi \subseteq Nat
  OBVIOUS
<1>2. 0..255 \subseteq Nat
  BY <1>1
<1> QED
  BY <1>2, Zenon DEF Byte

\* Bytes make a natural number.
LEMMA BigEndianIsNatural ==
    ASSUME NEW high \in Nat, NEW bytes \in Seq(Byte)
    PROVE  BigEndian(high, bytes) \in Nat
<1> DEFINE n == Len(bytes)
           Turn(value, k) == 256 * value + bytes[k]
           After(g, m) == g = [k \in 0..m |-> IF k = 0 THEN high ELSE Turn(g[k - 1], k)]
           after == CHOOSE g : After(g, n)
           Exists == {m \in 0..n : \E g : After(g, m)}
<1>1. n \in Nat
  BY LenProperties
<1>2. BigEndian(high, bytes) = after[n]
  BY DEF BigEndian, Repeat
<1>3. \E g : After(g, n)
  <2> HIDE DEF Turn
  <2>1. After([k \in 0..0 |-> high], 0)
    OBVIOUS
  <2>2. ASSUME NEW m \in 1..n, NEW g, After(g, m - 1)
        PROVE  After([k \in 0..m |-> IF k = m THEN Turn(g[m - 1], m) ELSE g[k]], m)
    BY <1>1, <2>2
  <2> HIDE DEF After
  <2>3. 0 \in Exists
    BY <1>1, <2>1
  <2>4. ASSUME NEW m \in 1..n, m - 1 \in Exists
        PROVE  m \in Exists
    <3>1. PICK g : After(g, m - 1)
      BY <2>4
    <3>2. After([k \in 0..m |-> IF k = m THEN Turn(g[m - 1], m) ELSE g[k]], m)
      BY <2>2, <3>1, Zenon
    <3> QED
      BY <1>1, <3>2
  <2> HIDE DEF Exists
  <2>5. n \in Exists
    <3>1. Turns(Exists, n)
      BY <2>3, <2>4, Zenon DEF Turns
    <3> QED
      BY <1>1, <3>1, LastTurn
  <2> QED
    BY <2>5 DEF Exists
<1>4. After(after, n)
  BY <1>3
<1> HIDE DEF after
<1> DEFINE Good == {k \in 0..n : after[k] \in Nat}
<1>5. 0 \in Good
  BY <1>1, <1>4
<1>6. ASSUME NEW k \in 1..n, k - 1 \in Good
      PROVE  k \in Good
  <2>1. after[k] = Turn(after[k - 1], k)
    BY <1>1, <1>4
  <2>2. after[k - 1] \in Nat
    BY <1>6
  <2>3. bytes[k] \in Byte
    BY ElementOfSeq
  <2>4. \A x \in Nat, y \in Byte : 256 * x + y \in Nat
    BY ByteIsNatural
  <2>5. Turn(after[k - 1], k) \in Nat
    BY <2>2, <2>3, <2>4
  <2> QED
    BY <2>1, <2>5
<1> HIDE DEF Good
<1>7. n \in Good
  <2>1. Turns(Good, n)
    BY <1>5, <1>6, Zenon DEF Turns
  <2> QED
    BY <1>1, <2>1, LastTurn
<1> QED
  BY <1>2, <1>7 DEF Good

\* The bytes of an integer in the other order, and a single byte.
LEMMA LittleEndianIsNatural ==
    ASSUME NEW bytes \in Seq(Byte)
    PROVE  /\ LittleEndian(bytes) \in Nat
           /\ Len(bytes) = 1 => LittleEndian(bytes) \in Byte
<1> DEFINE back == [i \in 1..Len(bytes) |-> bytes[(Len(bytes) - i) + 1]]
<1>1. Len(bytes) \in Nat /\ \A i \in 1..Len(bytes) : bytes[i] \in Byte
  BY LenProperties, ElementOfSeq
<1>2. back \in [1..Len(bytes) -> Byte]
  BY <1>1
<1> HIDE DEF back
<1>3. back \in Seq(Byte)
  BY <1>1, <1>2, SeqDef
<1>4. Reverse(bytes) = back
  BY DEF Reverse, back
<1>5. LittleEndian(bytes) = BigEndian(0, back)
  BY <1>4 DEF LittleEndian
<1>6. ASSUME Len(bytes) = 1
      PROVE  BigEndian(0, back) \in Byte
  <2> DEFINE Turn(value, k) == 256 * value + back[k]
             after == CHOOSE g : g = [k \in 0..1 |-> IF k = 0 THEN 0 ELSE Turn(g[k - 1], k)]
             g1 == [k \in 0..1 |-> IF k = 0 THEN 0 ELSE back[1]]
  <2>1. Len(back) = 1 /\ back[1] \in Byte
    BY <1>2, <1>3, <1>6, LenProperties
  <2>2. BigEndian(0, back) = after[1]
    BY <2>1 DEF BigEndian, Repeat
  <2>3. \A x : x \in Byte => 256 * 0 + x = x
    BY ByteIsNatural
  <2>4. g1 = [k \in 0..1 |-> IF k = 0 THEN 0 ELSE Turn(g1[k - 1], k)]
    BY <2>1, <2>3
  <2>5. after = [k \in 0..1 |-> IF k = 0 THEN 0 ELSE Turn(after[k - 1], k)]
    BY <2>4
  <2> HIDE DEF after
  <2>6. after[0] = 0 /\ after[1] = Turn(after[0], 1)
    BY <2>5
  <2> QED
    BY <2>1, <2>2, <2>3, <2>6
<1> QED
  BY <1>3, <1>5, <1>6, BigEndianIsNatural

-----------------------------------------------------------------------------
(* Reads *)

\* The streams with these bytes that end at e.
Streams(b, e) == [b : {b}, pos : Nat, end : {e}]

\* A read that changes the position at most.
Kept(r, b, e) == r.ok \in BOOLEAN /\ r.s \in Streams(b, e)

LEMMA FailsKeeps ==
    ASSUME NEW b, NEW e, NEW s \in Streams(b, e)
    PROVE  Kept(Fails(s), b, e) /\ ~Fails(s).ok
BY DEF Kept, Fails, Result

\* The fields of a stream, and another position.
LEMMA StreamFields ==
    ASSUME NEW b, NEW e, NEW s \in Streams(b, e)
    PROVE  /\ s.b = b /\ s.end = e /\ s.pos \in Nat
           /\ \A p \in Nat : [s EXCEPT !.pos = p] \in Streams(b, e)
           /\ \A p \in Nat : [s EXCEPT !.pos = p].pos = p
BY DEF Streams

LEMMA BytesAtAreBytes ==
    ASSUME NEW b \in Seq(Byte), NEW e \in 0..Len(b), NEW s \in Streams(b, e),
           NEW p \in Nat, NEW n \in Nat, p + n <= e
    PROVE  BytesAt(s, p, n) \in Seq(Byte) /\ Len(BytesAt(s, p, n)) = n
<1>1. Len(b) \in Nat /\ s.b = b
  BY LenProperties, StreamFields
<1>2. p + 1 \in Int /\ p + n \in Int /\ e \in Nat
  BY <1>1
<1>3. \A i \in (p + 1)..(p + n) : b[i] \in Byte
  <2>1. \A i \in (p + 1)..(p + n) : i \in 1..Len(b)
    BY <1>1, <1>2
  <2> QED
    BY <2>1, ElementOfSeq
<1>4. /\ SubSeq(b, p + 1, p + n) \in Seq(Byte)
      /\ Len(SubSeq(b, p + 1, p + n)) = IF p + 1 <= p + n THEN (p + n) - (p + 1) + 1 ELSE 0
  BY <1>2, <1>3, SubSeqProperties
<1>5. (IF p + 1 <= p + n THEN (p + n) - (p + 1) + 1 ELSE 0) = n
  OBVIOUS
<1> QED
  BY <1>1, <1>4, <1>5 DEF BytesAt

\* ReadBytes stays within the end that was set.
LEMMA ReadBytesKeeps ==
    ASSUME NEW b \in Seq(Byte), NEW e \in 0..Len(b), NEW s \in Streams(b, e), NEW n \in Nat
    PROVE  LET r == ReadBytes(s, n)
           IN /\ Kept(r, b, e)
              /\ r.ok => r.v \in Seq(Byte) /\ Len(r.v) = n /\ r.s.pos <= e
<1> DEFINE r == ReadBytes(s, n)
<1>1. Len(b) \in Nat /\ e \in Nat /\ s.end = e /\ s.pos \in Nat
  BY LenProperties, StreamFields
<1>2. CASE e - s.pos < n
  <2>1. r = Fails(s)
    BY <1>1, <1>2 DEF ReadBytes
  <2> QED
    BY <2>1, FailsKeeps
<1>3. CASE ~(e - s.pos < n)
  <2>1. r = Result(TRUE, [s EXCEPT !.pos = s.pos + n], BytesAt(s, s.pos, n))
    BY <1>1, <1>3 DEF ReadBytes
  <2>2. s.pos + n \in Nat /\ s.pos + n <= e
    BY <1>1, <1>3
  <2>3. [s EXCEPT !.pos = s.pos + n] \in Streams(b, e)
        /\ [s EXCEPT !.pos = s.pos + n].pos = s.pos + n
    BY <2>2, StreamFields
  <2>4. BytesAt(s, s.pos, n) \in Seq(Byte) /\ Len(BytesAt(s, s.pos, n)) = n
    BY <1>1, <2>2, BytesAtAreBytes
  <2>5. r.ok = TRUE /\ r.s = [s EXCEPT !.pos = s.pos + n] /\ r.v = BytesAt(s, s.pos, n)
    BY <2>1 DEF Result
  <2> HIDE DEF r
  <2> QED
    BY <2>2, <2>3, <2>4, <2>5 DEF Kept, r
<1> QED
  BY <1>2, <1>3

Widths == {1, 2, 4}

LEMMA ReadUIntKeeps ==
    ASSUME NEW b \in Seq(Byte), NEW e \in 0..Len(b), NEW s \in Streams(b, e),
           NEW width \in Widths
    PROVE  LET r == ReadUInt(s, width)
           IN /\ Kept(r, b, e)
              /\ r.ok => r.v \in Nat /\ r.s.pos <= e
              /\ r.ok /\ width = 1 => r.v \in Byte
<1> DEFINE r == ReadUInt(s, width)
           q == ReadBytes(s, width)
<1>1. width \in Nat
  BY DEF Widths
<1>2. Kept(q, b, e) /\ (q.ok => q.v \in Seq(Byte) /\ Len(q.v) = width /\ q.s.pos <= e)
  BY <1>1, ReadBytesKeeps
<1>3. r.ok = q.ok /\ r.s = q.s /\ (q.ok => r.v = LittleEndian(q.v))
  BY DEF ReadUInt, ReadBytes, Fails, Result
<1> HIDE DEF r, q
<1>4. Kept(r, b, e)
  BY <1>2, <1>3 DEF Kept
<1>5. ASSUME r.ok
      PROVE  r.v \in Nat /\ r.s.pos <= e /\ (width = 1 => r.v \in Byte)
  BY <1>2, <1>3, <1>5, LittleEndianIsNatural
<1> QED
  BY <1>4, <1>5 DEF r

\* An integer of 1, 2 or 4 bytes.
LEMMA ReadWidthKeeps ==
    ASSUME NEW b \in Seq(Byte), NEW e \in 0..Len(b), NEW s \in Streams(b, e),
           NEW width \in {0, 1, 2, 4}
    PROVE  LET r == ReadCompressed(s, width)
           IN Kept(r, b, e) /\ (r.ok => r.v \in Nat /\ r.s.pos <= e)
<1> DEFINE r == ReadCompressed(s, width)
           q == ReadBytes(s, width)
<1>1. CASE width = 0 \/ ~q.ok
  <2>1. r = Fails(s)
    BY <1>1 DEF ReadCompressed
  <2> QED
    BY <2>1, FailsKeeps
<1>2. CASE width # 0 /\ q.ok
  <2>1. width \in {1, 2, 4} /\ width \in Nat
    BY <1>2
  <2>2. Kept(q, b, e) /\ q.v \in Seq(Byte) /\ Len(q.v) = width /\ q.s.pos <= e
    BY <1>2, <2>1, ReadBytesKeeps
  <2>3. r = Result(TRUE, q.s, BigEndian(q.v[1] % CompressedBits(width), Tail(q.v)))
    BY <1>2 DEF ReadCompressed
  <2> HIDE DEF q, r
  <2>4. CompressedBits(width) \in {32, 64, 128}
    BY <2>1 DEF CompressedBits
  <2>5. q.v[1] \in Nat
    <3>1. 1 \in 1..Len(q.v)
      BY <2>1, <2>2
    <3>2. q.v[1] \in Byte
      BY <2>2, <3>1, ElementOfSeq
    <3> QED
      BY <3>2, ByteIsNatural
  <2>6. q.v[1] % CompressedBits(width) \in Nat
    BY <2>4, <2>5
  <2>7. Tail(q.v) \in Seq(Byte)
    <3>1. q.v # <<>>
      BY <2>1, <2>2, EmptySeq
    <3> QED
      BY <2>2, <3>1, HeadTailProperties
  <2>8. BigEndian(q.v[1] % CompressedBits(width), Tail(q.v)) \in Nat
    BY <2>6, <2>7, BigEndianIsNatural
  <2>9. /\ r.ok = TRUE /\ r.s = q.s
        /\ r.v = BigEndian(q.v[1] % CompressedBits(width), Tail(q.v))
    BY <2>3 DEF Result
  <2> QED
    BY <2>2, <2>8, <2>9 DEF Kept, r
<1> QED
  BY <1>1, <1>2

\* The first byte decides how many bytes a compressed integer has.
LEMMA ReadCompressedKeeps ==
    ASSUME NEW b \in Seq(Byte), NEW e \in 0..Len(b), NEW s \in Streams(b, e)
    PROVE  LET r == ReadCompressedUInt32(s)
           IN Kept(r, b, e) /\ (r.ok => r.v \in Nat /\ r.s.pos <= e)
<1>1. CompressedWidth(s.b[s.pos + 1]) \in {0, 1, 2, 4}
  BY DEF CompressedWidth
<1> QED
  BY <1>1, ReadWidthKeeps, FailsKeeps DEF ReadCompressedUInt32

LEMMA ReadSignedKeeps ==
    ASSUME NEW b \in Seq(Byte), NEW e \in 0..Len(b), NEW s \in Streams(b, e)
    PROVE  Kept(ReadCompressSignedInt32(s), b, e)
<1> DEFINE r == ReadCompressSignedInt32(s)
           q == ReadCompressedUInt32(s)
<1>1. Kept(q, b, e)
  BY ReadCompressedKeeps
<1>2. r = Fails(s) \/ \E v : r = Result(TRUE, q.s, v)
  BY DEF ReadCompressSignedInt32
<1> HIDE DEF q
<1>3. \A v : Kept(Result(TRUE, q.s, v), b, e)
  BY <1>1 DEF Kept, Result
<1> QED
  BY <1>2, <1>3, FailsKeeps

\* Seeking keeps the end; setting a length moves it, and resetting it moves it to
\* the end of the file.
LEMMA SeekKeeps ==
    ASSUME NEW b, NEW e, NEW s \in Streams(b, e), NEW p \in Nat
    PROVE  SeekFromOrigin(s, p) \in Streams(b, e)
BY StreamFields DEF SeekFromOrigin

LEMMA SeekFromCurrentKeeps ==
    ASSUME NEW b, NEW e, NEW s \in Streams(b, e), NEW n \in Nat
    PROVE  Kept(SeekFromCurrent(s, n), b, e)
<1>1. s.pos \in Nat /\ s.pos + n \in Nat
  BY StreamFields
<1>2. [s EXCEPT !.pos = s.pos + n] \in Streams(b, e)
  BY <1>1, StreamFields
<1>3. Kept(Result(TRUE, [s EXCEPT !.pos = s.pos + n], NoValue), b, e)
  BY <1>2 DEF Kept, Result
<1> QED
  BY <1>3, FailsKeeps DEF SeekFromCurrent

LEMMA SetStreamLengthLimits ==
    ASSUME NEW b \in Seq(Byte), NEW e \in 0..Len(b), NEW s \in Streams(b, e), NEW n \in Nat
    PROVE  LET r == SetStreamLength(s, n)
           IN /\ r.ok \in BOOLEAN
              /\ ~r.ok => r.s \in Streams(b, e)
              /\ r.ok => r.s.end \in 0..Len(b) /\ r.s \in Streams(b, r.s.end)
<1> DEFINE r == SetStreamLength(s, n)
<1>1. Len(b) \in Nat /\ e \in Nat /\ s.end = e /\ s.pos \in Nat /\ s.pos + n \in Nat
  BY LenProperties, StreamFields
<1>2. CASE s.pos + n > e
  BY <1>1, <1>2, FailsKeeps DEF SetStreamLength, Kept
<1>3. CASE ~(s.pos + n > e)
  <2>1. r.ok = TRUE /\ r.s = [s EXCEPT !.end = s.pos + n]
    BY <1>1, <1>3 DEF SetStreamLength, Result
  <2>2. r.s.end = s.pos + n /\ r.s \in Streams(b, s.pos + n)
    BY <1>1, <2>1 DEF Streams
  <2>3. s.pos + n \in 0..Len(b)
    BY <1>1, <1>3
  <2> HIDE DEF r
  <2> QED
    BY <2>1, <2>2, <2>3 DEF r
<1> QED
  BY <1>2, <1>3

LEMMA ResetEndsAtFile ==
    ASSUME NEW b, NEW e, NEW s \in Streams(b, e), Len(b) \in Nat
    PROVE  ResetStreamLength(s) \in Streams(b, Len(b))
BY DEF ResetStreamLength, Streams

\* What one more value adds to a list.
LEMMA AppendedKeeps ==
    ASSUME NEW b, NEW e, NEW r, NEW n, Kept(n, b, e)
    PROVE  /\ Kept(Appended(r, n), b, e)
           /\ Appended(r, n).ok = n.ok /\ Appended(r, n).s = n.s
           /\ n.ok => Appended(r, n).v = Append(r.v, n.v)
BY DEF Appended, Kept, Result

\* The first k fields.
FieldsRead(r, k, b, e, widths) ==
    /\ Kept(r, b, e)
    /\ r.ok => /\ r.v \in Seq(Nat) /\ Len(r.v) = k
               /\ k > 0 => r.s.pos <= e
               /\ \A i \in 1..k : widths[i] = 1 => r.v[i] \in Byte

LEMMA FieldReadNext ==
    ASSUME NEW b \in Seq(Byte), NEW e \in 0..Len(b), NEW widths \in Seq(Widths),
           NEW k \in 1..Len(widths), NEW r, FieldsRead(r, k - 1, b, e, widths), r.ok
    PROVE  FieldsRead(Appended(r, ReadUInt(r.s, widths[k])), k, b, e, widths)
<1> DEFINE n == ReadUInt(r.s, widths[k])
           a == Appended(r, n)
           longer == Append(r.v, n.v)
<1>1. Len(widths) \in Nat /\ k \in Nat /\ k > 0 /\ widths[k] \in Widths
  BY LenProperties, ElementOfSeq
<1>2. r.s \in Streams(b, e) /\ r.v \in Seq(Nat) /\ Len(r.v) = k - 1
  BY DEF FieldsRead, Kept
<1>3. /\ Kept(n, b, e) /\ (n.ok => n.v \in Nat /\ n.s.pos <= e)
      /\ n.ok /\ widths[k] = 1 => n.v \in Byte
  BY <1>1, <1>2, ReadUIntKeeps
<1> HIDE DEF n
<1>4. Kept(a, b, e) /\ a.ok = n.ok /\ a.s = n.s /\ (n.ok => a.v = longer)
  <2> HIDE DEF longer
  <2> QED
    BY <1>3 DEF Appended, Result, Kept, longer
<1> HIDE DEF a
<1>5. ASSUME n.ok
      PROVE  /\ a.v \in Seq(Nat) /\ Len(a.v) = k
             /\ \A i \in 1..k : widths[i] = 1 => a.v[i] \in Byte
  <2>1. /\ longer \in Seq(Nat) /\ Len(longer) = Len(r.v) + 1
        /\ \A i \in 1..Len(r.v) : longer[i] = r.v[i]
        /\ longer[Len(r.v) + 1] = n.v
    BY <1>2, <1>3, <1>5, AppendProperties
  <2> HIDE DEF longer
  <2>2. a.v \in Seq(Nat) /\ Len(a.v) = k /\ a.v[k] = n.v
        /\ \A i \in 1..(k - 1) : a.v[i] = r.v[i]
    BY <1>1, <1>2, <1>4, <1>5, <2>1
  <2>3. ASSUME NEW i \in 1..k, widths[i] = 1
        PROVE  a.v[i] \in Byte
    <3>1. CASE i = k
      BY <1>3, <1>5, <2>2, <2>3, <3>1
    <3>2. CASE i # k
      <4>1. i \in 1..(k - 1)
        BY <1>1, <3>2
      <4> QED
        BY <2>2, <2>3, <4>1 DEF FieldsRead
    <3> QED
      BY <3>1, <3>2
  <2> QED
    BY <2>2, <2>3
<1> QED
  BY <1>3, <1>4, <1>5 DEF FieldsRead, a, n

\* ReadFields reads all fields or fails, and keeps the end of the stream.
LEMMA ReadFieldsKeeps ==
    ASSUME NEW b \in Seq(Byte), NEW e \in 0..Len(b), NEW s \in Streams(b, e),
           NEW widths \in Seq(Widths)
    PROVE  FieldsRead(ReadFields(s, widths), Len(widths), b, e, widths)
<1> DEFINE n == Len(widths)
           before == Result(TRUE, s, <<>>)
           Turn(r, k) == IF r.ok THEN Appended(r, ReadUInt(r.s, widths[k])) ELSE r
           After(g, m) == g = [k \in 0..m |-> IF k = 0 THEN before ELSE Turn(g[k - 1], k)]
           after == CHOOSE g : After(g, n)
           Exists == {m \in 0..n : \E g : After(g, m)}
<1>1. n \in Nat
  BY LenProperties
<1>2. ReadFields(s, widths) = after[n]
  BY DEF ReadFields, Repeat
<1>3. \E g : After(g, n)
  <2> HIDE DEF Turn, before
  <2>1. After([k \in 0..0 |-> before], 0)
    OBVIOUS
  <2>2. ASSUME NEW m \in 1..n, NEW g, After(g, m - 1)
        PROVE  After([k \in 0..m |-> IF k = m THEN Turn(g[m - 1], m) ELSE g[k]], m)
    BY <1>1, <2>2
  <2> HIDE DEF After
  <2>3. 0 \in Exists
    BY <1>1, <2>1
  <2>4. ASSUME NEW m \in 1..n, m - 1 \in Exists
        PROVE  m \in Exists
    <3>1. PICK g : After(g, m - 1)
      BY <2>4
    <3>2. After([k \in 0..m |-> IF k = m THEN Turn(g[m - 1], m) ELSE g[k]], m)
      BY <2>2, <3>1, Zenon
    <3> QED
      BY <1>1, <3>2
  <2> HIDE DEF Exists
  <2>5. n \in Exists
    <3>1. Turns(Exists, n)
      BY <2>3, <2>4, Zenon DEF Turns
    <3> QED
      BY <1>1, <3>1, LastTurn
  <2> QED
    BY <2>5 DEF Exists
<1>4. After(after, n)
  BY <1>3
<1> HIDE DEF after
<1>5. after[0] = before /\ \A k \in 1..n : after[k] = Turn(after[k - 1], k)
  <2> HIDE DEF Turn, before
  <2> QED
    BY <1>1, <1>4
<1> DEFINE Good == {k \in 0..n : FieldsRead(after[k], k, b, e, widths)}
<1>6. 0 \in Good
  <2>1. Kept(before, b, e) /\ before.v = <<>>
    BY DEF Kept, Result
  <2>2. << >> \in Seq(Nat) /\ Len(<< >>) = 0
    BY EmptySeq
  <2> HIDE DEF before
  <2>3. FieldsRead(before, 0, b, e, widths)
    BY <2>1, <2>2 DEF FieldsRead
  <2> QED
    BY <1>1, <1>5, <2>3
<1>7. ASSUME NEW k \in 1..n, k - 1 \in Good
      PROVE  k \in Good
  <2>1. FieldsRead(after[k - 1], k - 1, b, e, widths)
    BY <1>7
  <2>2. after[k] = Turn(after[k - 1], k)
    BY <1>5
  <2>3. CASE after[k - 1].ok
    BY <1>1, <2>1, <2>2, <2>3, FieldReadNext
  <2>4. CASE ~after[k - 1].ok
    BY <1>1, <2>1, <2>2, <2>4 DEF FieldsRead
  <2> QED
    BY <2>3, <2>4
<1> HIDE DEF Good
<1>8. n \in Good
  <2>1. Turns(Good, n)
    BY <1>6, <1>7, Zenon DEF Turns
  <2> QED
    BY <1>1, <2>1, LastTurn
<1> QED
  BY <1>2, <1>8 DEF Good

-----------------------------------------------------------------------------
(* Headers *)

LEMMA PadKeeps ==
    ASSUME NEW b, NEW e, NEW s \in Streams(b, e), NEW n \in Nat
    PROVE  Kept(Pad(s, n), b, e)
<1>1. n % 4 \in 0..3 /\ 4 - (n % 4) \in Nat
  OBVIOUS
<1>2. Kept(SeekFromCurrent(s, 4 - (n % 4)), b, e)
  BY <1>1, SeekFromCurrentKeeps
<1>3. Kept(Result(TRUE, s, NoValue), b, e)
  BY DEF Kept, Result
<1> QED
  BY <1>2, <1>3 DEF Pad

\* A list of widths is one.
LEMMA WidthLists ==
    /\ <<4, 2, 2, 4, 4>> \in Seq(Widths) /\ Len(<<4, 2, 2, 4, 4>>) = 5
    /\ <<4, 1, 1, 1, 1>> \in Seq(Widths) /\ Len(<<4, 1, 1, 1, 1>>) = 5
    /\ <<4, 1, 1, 1, 1>>[4] = 1
    /\ <<2, 2>> \in Seq(Widths) /\ Len(<<2, 2>>) = 2
    /\ <<4, 4>> \in Seq(Widths) /\ Len(<<4, 4>>) = 2
BY DEF Widths

LEMMA RootHeaderKeeps ==
    ASSUME NEW b \in Seq(Byte), NEW e \in 0..Len(b), NEW s \in Streams(b, e)
    PROVE  LET r == ParseRootHeader(s)
           IN Kept(r, b, e) /\ (r.ok => r.v \in Nat)
<1> DEFINE h == ReadFields(s, <<4, 2, 2, 4, 4>>)
           text == ReadBytes(h.s, h.v[5])
           p == Pad(text.s, h.v[5])
           t == ReadFields(p.s, <<2, 2>>)
           Good == /\ h.ok
                   /\ h.v[2] = 1 /\ h.v[3] = 1 /\ h.v[4] = 0
                   /\ text.ok
                   /\ p.ok
                   /\ t.ok
           r == ParseRootHeader(s)
<1>1. r = IF Good THEN Result(TRUE, t.s, t.v[2]) ELSE Fails(s)
  BY DEF ParseRootHeader
<1>2. CASE ~Good
  <2>1. r = Fails(s)
    BY <1>1, <1>2
  <2> QED
    BY <2>1, FailsKeeps
<1>3. CASE Good
  <2>1. FieldsRead(h, 5, b, e, <<4, 2, 2, 4, 4>>)
    BY ReadFieldsKeeps, WidthLists
  <2>2. h.s \in Streams(b, e) /\ h.v \in Seq(Nat) /\ Len(h.v) = 5
    BY <1>3, <2>1 DEF FieldsRead, Kept
  <2>3. h.v[5] \in Nat
    BY <2>2, ElementOfSeq
  <2>4. Kept(text, b, e)
    BY <2>2, <2>3, ReadBytesKeeps
  <2>5. Kept(p, b, e)
    BY <2>3, <2>4, PadKeeps DEF Kept
  <2>6. p.s \in Streams(b, e)
    BY <2>5 DEF Kept
  <2>7. FieldsRead(t, 2, b, e, <<2, 2>>)
    BY <2>6, ReadFieldsKeeps, WidthLists
  <2>8. t.s \in Streams(b, e) /\ t.v \in Seq(Nat) /\ Len(t.v) = 2
    BY <1>3, <2>7 DEF FieldsRead, Kept
  <2>9. t.v[2] \in Nat
    BY <2>8, ElementOfSeq
  <2>10. r.ok = TRUE /\ r.s = t.s /\ r.v = t.v[2]
    BY <1>1, <1>3 DEF Result
  <2> HIDE DEF r, t
  <2> QED
    BY <2>8, <2>9, <2>10 DEF Kept, r
<1> QED
  BY <1>2, <1>3

LEMMA StreamHeaderKeeps ==
    ASSUME NEW b \in Seq(Byte), NEW e \in 0..Len(b), NEW s \in Streams(b, e)
    PROVE  LET r == ParseStreamHeader(s)
           IN Kept(r, b, e) /\ (r.ok => r.v \in StreamHeader)
<1> DEFINE h == ReadFields(s, <<4, 4>>)
           q == h.s
           nulls == {p \in q.pos..(q.end - 1) : q.b[p + 1] = 0}
           size == (IF nulls = {} THEN q.end ELSE Min(nulls)) - q.pos
           read == IF nulls = {} THEN size ELSE size + 1
           p == Pad([q EXCEPT !.pos = q.pos + read], read)
           r == ParseStreamHeader(s)
<1>1. r = IF h.ok /\ size <= 32 /\ p.ok
          THEN Result(TRUE, p.s, [offset |-> h.v[1], size |-> h.v[2],
                                  name |-> BytesAt(q, q.pos, size)])
          ELSE Fails(s)
  BY DEF ParseStreamHeader
<1>2. CASE ~(h.ok /\ size <= 32 /\ p.ok)
  <2>1. r = Fails(s)
    BY <1>1, <1>2
  <2> QED
    BY <2>1, FailsKeeps
<1>3. CASE h.ok /\ size <= 32 /\ p.ok
  <2>1. FieldsRead(h, 2, b, e, <<4, 4>>)
    BY ReadFieldsKeeps, WidthLists
  <2>2. q \in Streams(b, e) /\ h.v \in Seq(Nat) /\ Len(h.v) = 2 /\ q.pos <= e
    BY <1>3, <2>1 DEF FieldsRead, Kept
  <2>3. h.v[1] \in Nat /\ h.v[2] \in Nat
    BY <2>2, ElementOfSeq
  <2>4. q.end = e /\ q.pos \in Nat /\ e \in Nat /\ Len(b) \in Nat
    BY <2>2, StreamFields, LenProperties
  <2> HIDE DEF h
  <2>5. size \in Nat /\ q.pos + size <= e
    <3>1. CASE nulls = {}
      BY <2>2, <2>4, <3>1
    <3>2. CASE nulls # {}
      <4>1. nulls \subseteq Nat /\ nulls \subseteq q.pos..(e - 1)
        BY <2>4
      <4>2. Min(nulls) \in nulls
        <5> HIDE DEF nulls
        <5> QED
          BY <3>2, <4>1, LeastOf
      <4>3. Min(nulls) \in q.pos..(e - 1)
        BY <4>1, <4>2
      <4>4. size = Min(nulls) - q.pos
        BY <3>2
      <4> HIDE DEF size, nulls
      <4> QED
        BY <2>4, <4>3, <4>4
    <3> QED
      BY <3>1, <3>2
  <2>6. read \in Nat /\ q.pos + read \in Nat
    <3> HIDE DEF size, nulls
    <3> QED
      BY <2>4, <2>5
  <2>7. [q EXCEPT !.pos = q.pos + read] \in Streams(b, e)
    <3> HIDE DEF read, q
    <3> QED
      BY <2>2, <2>6, StreamFields
  <2>8. Kept(p, b, e)
    <3> HIDE DEF read
    <3> QED
      BY <2>6, <2>7, PadKeeps
  <2>9. BytesAt(q, q.pos, size) \in Seq(Byte)
    <3> HIDE DEF size, q
    <3> QED
      BY <2>2, <2>4, <2>5, BytesAtAreBytes
  <2> DEFINE v == [offset |-> h.v[1], size |-> h.v[2], name |-> BytesAt(q, q.pos, size)]
  <2>10. v \in StreamHeader
    <3> HIDE DEF size, q
    <3> QED
      BY <2>3, <2>9 DEF StreamHeader
  <2>11. r.ok = TRUE /\ r.s = p.s /\ r.v = v
    <3> HIDE DEF p, size, q
    <3> QED
      BY <1>1, <1>3 DEF Result
  <2> HIDE DEF r, p, v
  <2> QED
    BY <2>8, <2>10, <2>11 DEF Kept, r
<1> QED
  BY <1>2, <1>3, Zenon

\* The bits of eight bytes are numbered from 0 to 63.
LEMMA BitsOfBytes ==
    ASSUME NEW bytes, Len(bytes) = 8
    PROVE  CountAndSetBits(bytes) \subseteq 0..63
<1>1. \A p \in (1..8) \X (0..7) : 8 * (p[1] - 1) + p[2] \in 0..63
  OBVIOUS
<1> QED
  BY <1>1 DEF CountAndSetBits

\* The row counts by the number of the table.
RowCounts(counts) ==
    DOMAIN counts \subseteq 0..63 /\ \A t \in DOMAIN counts : counts[t] \in Nat

LEMMA ReadRowCountsKeeps ==
    ASSUME NEW b \in Seq(Byte), NEW e \in 0..Len(b), NEW s \in Streams(b, e),
           NEW bits \in SUBSET (0..63)
    PROVE  LET r == ReadRowCounts(s, bits)
           IN Kept(r, b, e) /\ (r.ok => RowCounts(r.v))
<1> DEFINE n == Cardinality(bits)
           widths == [i \in 1..n |-> 4]
           q == ReadFields(s, widths)
           Below(t) == {u \in bits : u <= t}
           counts == [t \in bits |-> q.v[Cardinality(Below(t))]]
           r == ReadRowCounts(s, bits)
<1>1. IsFiniteSet(bits) /\ n \in Nat
  <2>1. IsFiniteSet(0..63)
    <3>1. \A lo, hi \in Int : IsFiniteSet(lo..hi)
      BY FS_Interval
    <3>2. 0 \in Int /\ 63 \in Int
      OBVIOUS
    <3> QED
      BY <3>1, <3>2, Zenon
  <2> QED
    BY <2>1, FS_Subset, FS_CardinalityType
<1>2. widths \in Seq(Widths) /\ Len(widths) = n
  <2>1. widths \in [1..n -> Widths] /\ DOMAIN widths = 1..n
    BY DEF Widths
  <2> HIDE DEF widths, n
  <2>2. widths \in Seq(Widths)
    BY <1>1, <2>1, SeqDef
  <2>3. Len(widths) \in Nat /\ DOMAIN widths = 1..Len(widths)
    BY <2>2, LenProperties
  <2> QED
    BY <1>1, <2>1, <2>2, <2>3
<1> HIDE DEF widths
<1>3. FieldsRead(q, n, b, e, widths)
  BY <1>2, ReadFieldsKeeps
<1> HIDE DEF q
<1>4. r = IF q.ok THEN Result(TRUE, q.s, counts) ELSE q
  BY DEF ReadRowCounts, q, widths
<1>5. CASE ~q.ok
  BY <1>3, <1>4, <1>5 DEF FieldsRead
<1>6. CASE q.ok
  <2>1. q.s \in Streams(b, e) /\ q.v \in Seq(Nat) /\ Len(q.v) = n
    BY <1>3, <1>6 DEF FieldsRead, Kept
  <2>2. ASSUME NEW t \in bits
        PROVE  q.v[Cardinality(Below(t))] \in Nat
    <3>1. Below(t) \in SUBSET bits /\ t \in Below(t)
      OBVIOUS
    <3> HIDE DEF Below
    <3>2. IsFiniteSet(Below(t)) /\ Cardinality(Below(t)) \in Nat
          /\ Cardinality(Below(t)) <= n
      BY <1>1, <3>1, FS_Subset, FS_CardinalityType
    <3>3. Cardinality(Below(t)) # 0
      BY <3>1, <3>2, FS_EmptySet
    <3>4. Cardinality(Below(t)) \in 1..Len(q.v)
      <4> HIDE DEF n
      <4> QED
        BY <1>1, <2>1, <3>2, <3>3
    <3> QED
      BY <2>1, <3>4, ElementOfSeq
  <2>3. RowCounts(counts)
    <3>1. DOMAIN counts = bits /\ \A t \in bits : counts[t] = q.v[Cardinality(Below(t))]
      OBVIOUS
    <3> HIDE DEF counts, Below
    <3> QED
      BY <2>2, <3>1 DEF RowCounts
  <2>4. r.ok = TRUE /\ r.s = q.s /\ r.v = counts
    BY <1>4, <1>6 DEF Result
  <2> HIDE DEF r, counts
  <2> QED
    BY <2>1, <2>3, <2>4 DEF Kept, r
<1> QED
  BY <1>5, <1>6 DEF FieldsRead, Kept

LEMMA PdbMetadataHeaderKeeps ==
    ASSUME NEW b \in Seq(Byte), NEW e \in 0..Len(b), NEW s \in Streams(b, e)
    PROVE  Kept(ParsePdbMetadataHeader(s), b, e)
<1> DEFINE id == ReadBytes(s, 20)
           entry == ReadUInt32(id.s)
           bits == ReadBytes(entry.s, 8)
           r == ParsePdbMetadataHeader(s)
<1>1. r = IF id.ok /\ entry.ok /\ bits.ok
          THEN ReadRowCounts(bits.s, CountAndSetBits(bits.v)) ELSE Fails(s)
  BY DEF ParsePdbMetadataHeader
<1>2. Kept(id, b, e)
  BY ReadBytesKeeps
<1>3. Kept(entry, b, e)
  BY <1>2, ReadUIntKeeps DEF Kept, ReadUInt32, Widths
<1>4. Kept(bits, b, e) /\ (bits.ok => Len(bits.v) = 8)
  BY <1>3, ReadBytesKeeps DEF Kept
<1> HIDE DEF bits, r
<1>5. CASE bits.ok
  <2>1. CountAndSetBits(bits.v) \in SUBSET (0..63)
    BY <1>4, <1>5, BitsOfBytes
  <2>2. Kept(ReadRowCounts(bits.s, CountAndSetBits(bits.v)), b, e)
    BY <1>4, <2>1, ReadRowCountsKeeps DEF Kept
  <2> QED
    BY <1>1, <2>2, FailsKeeps DEF r
<1>6. CASE ~bits.ok
  BY <1>1, <1>6, FailsKeeps DEF r
<1> QED
  BY <1>5, <1>6

LEMMA TableHeaderKeeps ==
    ASSUME NEW b \in Seq(Byte), NEW e \in 0..Len(b), NEW s \in Streams(b, e)
    PROVE  LET r == ParseTableHeader(s)
           IN /\ Kept(r, b, e)
              /\ r.ok => r.v.heap_sizes \in Byte /\ RowCounts(r.v.rows)
<1> DEFINE h == ReadFields(s, <<4, 1, 1, 1, 1>>)
           valid == ReadBytes(h.s, 8)
           sorted == ReadBytes(valid.s, 8)
           counts == ReadRowCounts(sorted.s, CountAndSetBits(valid.v))
           r == ParseTableHeader(s)
<1>1. r = IF h.ok /\ valid.ok /\ sorted.ok /\ counts.ok
          THEN Result(TRUE, counts.s, [heap_sizes |-> h.v[4], rows |-> counts.v])
          ELSE Fails(s)
  BY DEF ParseTableHeader
<1>2. CASE ~(h.ok /\ valid.ok /\ sorted.ok /\ counts.ok)
  <2>1. r = Fails(s)
    BY <1>1, <1>2
  <2> QED
    BY <2>1, FailsKeeps
<1>3. CASE h.ok /\ valid.ok /\ sorted.ok /\ counts.ok
  <2>1. FieldsRead(h, 5, b, e, <<4, 1, 1, 1, 1>>)
    BY ReadFieldsKeeps, WidthLists
  <2>2. h.s \in Streams(b, e) /\ h.v[4] \in Byte
    BY <1>3, <2>1, WidthLists DEF FieldsRead, Kept
  <2>3. Kept(valid, b, e) /\ Len(valid.v) = 8
    BY <1>3, <2>2, ReadBytesKeeps
  <2>4. Kept(sorted, b, e)
    BY <2>3, ReadBytesKeeps DEF Kept
  <2>5. CountAndSetBits(valid.v) \in SUBSET (0..63)
    BY <2>3, BitsOfBytes
  <2>6. Kept(counts, b, e) /\ RowCounts(counts.v)
    BY <1>3, <2>4, <2>5, ReadRowCountsKeeps DEF Kept
  <2> HIDE DEF counts, h
  <2>7. r.ok = TRUE /\ r.s = counts.s /\ r.v.heap_sizes = h.v[4] /\ r.v.rows = counts.v
    BY <1>1, <1>3 DEF Result
  <2> HIDE DEF r
  <2> QED
    BY <2>2, <2>6, <2>7 DEF Kept, r
<1> QED
  BY <1>2, <1>3

-----------------------------------------------------------------------------
(* Tables *)

LEMMA IndexWidths ==
    /\ \A heap, heaps : HeapIndexWidth(heap, heaps) \in Widths
    /\ \A t, counts : TableIndexWidth(t, counts) \in Widths
BY DEF HeapIndexWidth, TableIndexWidth, Widths

\* The columns are read with the widths of an index or of a number.
LEMMA ColumnWidths ==
    ASSUME NEW table \in Range(TableNames), NEW heaps, NEW counts
    PROVE  /\ Columns(table, heaps, counts) \in Seq(Widths)
           /\ table = "Document" => Len(Columns(table, heaps, counts)) = 4
           /\ table = "MethodDebugInformation" => Len(Columns(table, heaps, counts)) = 2
<1> DEFINE H(heap) == HeapIndexWidth(heap, heaps)
           T(t) == TableIndexWidth(MetadataTable[t], counts)
<1>1. (\A heap : H(heap) \in Widths) /\ (\A t : T(t) \in Widths) /\ {2, 4} \subseteq Widths
  BY IndexWidths DEF Widths
<1>2. table \in {"Document", "MethodDebugInformation", "LocalScope", "LocalVariable",
                 "LocalConstant"}
  BY DEF TableNames, Range
<1>3. CASE table = "Document"
  <2>1. Columns(table, heaps, counts) = <<H("Blobs"), H("Guids"), H("Blobs"), H("Guids")>>
    BY <1>3 DEF Columns, DocumentColumns
  <2> HIDE DEF H, T
  <2>2. PICK x \in Widths, y \in Widths : Columns(table, heaps, counts) = <<x, y, x, y>>
    BY <1>1, <2>1, Zenon
  <2>3. <<x, y, x, y>> \in Seq(Widths) /\ Len(<<x, y, x, y>>) = 4
    OBVIOUS
  <2>4. table # "MethodDebugInformation"
    BY <1>3
  <2> QED
    BY <2>2, <2>3, <2>4, Zenon
<1>4. CASE table = "MethodDebugInformation"
  <2>1. Columns(table, heaps, counts) = <<H("Blobs"), H("Blobs")>>
    BY <1>4 DEF Columns, MethodDebugInformationColumns
  <2> HIDE DEF H, T
  <2>2. PICK x \in Widths : Columns(table, heaps, counts) = <<x, x>>
    BY <1>1, <2>1, Zenon
  <2>3. <<x, x>> \in Seq(Widths) /\ Len(<<x, x>>) = 2
    OBVIOUS
  <2>4. table # "Document"
    BY <1>4
  <2> QED
    BY <2>2, <2>3, <2>4, Zenon
<1>5. CASE table = "LocalScope"
  <2>1. Columns(table, heaps, counts) = <<T("Method"), T("ImportScope"), T("LocalVariable"),
                                          T("LocalConstant"), 4, 4>>
    BY <1>5 DEF Columns
  <2> HIDE DEF H, T
  <2>2. PICK x \in Widths, y \in Widths, z \in Widths, u \in Widths :
            Columns(table, heaps, counts) = <<x, y, z, u, 4, 4>>
    BY <1>1, <2>1, Zenon
  <2>3. <<x, y, z, u, 4, 4>> \in Seq(Widths) /\ Len(<<x, y, z, u, 4, 4>>) = 6
    BY <1>1
  <2>4. table # "Document" /\ table # "MethodDebugInformation"
    BY <1>5
  <2> QED
    BY <2>2, <2>3, <2>4, Zenon
<1>6. CASE table = "LocalVariable"
  <2>1. Columns(table, heaps, counts) = <<2, 2, H("Strings")>>
    BY <1>6 DEF Columns
  <2> HIDE DEF H, T
  <2>2. PICK x \in Widths : Columns(table, heaps, counts) = <<2, 2, x>>
    BY <1>1, <2>1, Zenon
  <2>3. <<2, 2, x>> \in Seq(Widths) /\ Len(<<2, 2, x>>) = 3
    BY <1>1
  <2>4. table # "Document" /\ table # "MethodDebugInformation"
    BY <1>6
  <2> QED
    BY <2>2, <2>3, <2>4, Zenon
<1>7. CASE table = "LocalConstant"
  <2>1. Columns(table, heaps, counts) = <<H("Strings"), H("Blobs")>>
    BY <1>7 DEF Columns
  <2> HIDE DEF H, T
  <2>2. PICK x \in Widths, y \in Widths : Columns(table, heaps, counts) = <<x, y>>
    BY <1>1, <2>1, Zenon
  <2>3. <<x, y>> \in Seq(Widths) /\ Len(<<x, y>>) = 2
    OBVIOUS
  <2>4. table # "Document" /\ table # "MethodDebugInformation"
    BY <1>7
  <2> QED
    BY <2>2, <2>3, <2>4, Zenon
<1> QED
  BY <1>2, <1>3, <1>4, <1>5, <1>6, <1>7

\* The rows read so far, in the two tables that positions are computed from.
RowsRead(r, table, b, e) ==
    /\ Kept(r, b, e)
    /\ r.ok /\ table = "Document" => r.v \in Seq(DocumentRow)
    /\ r.ok /\ table = "MethodDebugInformation" => r.v \in Seq(MethodDebugInformationRow)

\* A row of numbers.
LEMMA RowOfNumbers ==
    ASSUME NEW v \in Seq(Nat)
    PROVE  /\ Len(v) = 4 => Row("Document", v) \in DocumentRow
           /\ Len(v) = 2 =>
                 Row("MethodDebugInformation", v) \in MethodDebugInformationRow
<1>1. \A i \in 1..Len(v) : v[i] \in Nat
  BY ElementOfSeq
<1>2. ASSUME Len(v) = 4
      PROVE  Row("Document", v) \in DocumentRow
  BY <1>1, <1>2 DEF Row, DocumentRow
<1>3. ASSUME Len(v) = 2
      PROVE  Row("MethodDebugInformation", v) \in MethodDebugInformationRow
  BY <1>1, <1>3 DEF Row, MethodDebugInformationRow
<1> QED
  BY <1>2, <1>3

\* ParseMetadataTableRow reads all rows or fails, and keeps the end of the stream.
LEMMA TableKeeps ==
    ASSUME NEW b \in Seq(Byte), NEW e \in 0..Len(b), NEW s \in Streams(b, e),
           NEW table \in Range(TableNames), NEW header, RowCounts(header.rows)
    PROVE  RowsRead(ParseMetadataTableRow(s, table, header), table, b, e)
<1> DEFINE widths == Columns(table, header.heap_sizes, header.rows)
           n == RowsOf(MetadataTable[table], header.rows)
           Add(r, row) == Result(row.ok, row.s,
                                 IF row.ok THEN Append(r.v, Row(table, row.v)) ELSE NoValue)
           before == Result(TRUE, s, <<>>)
           Turn(r, k) == IF r.ok THEN Add(r, ReadFields(r.s, widths)) ELSE r
           After(g, m) == g = [k \in 0..m |-> IF k = 0 THEN before ELSE Turn(g[k - 1], k)]
           after == CHOOSE g : After(g, n)
           Exists == {m \in 0..n : \E g : After(g, m)}
<1>1. n \in Nat
  BY DEF RowsOf, RowCounts
<1>2. ParseMetadataTableRow(s, table, header) = after[n]
  BY DEF ParseMetadataTableRow, Repeat
<1> HIDE DEF n
<1>3. \E g : After(g, n)
  <2> HIDE DEF Turn, before
  <2>1. After([k \in 0..0 |-> before], 0)
    OBVIOUS
  <2>2. ASSUME NEW m \in 1..n, NEW g, After(g, m - 1)
        PROVE  After([k \in 0..m |-> IF k = m THEN Turn(g[m - 1], m) ELSE g[k]], m)
    BY <1>1, <2>2
  <2> HIDE DEF After
  <2>3. 0 \in Exists
    BY <1>1, <2>1
  <2>4. ASSUME NEW m \in 1..n, m - 1 \in Exists
        PROVE  m \in Exists
    <3>1. PICK g : After(g, m - 1)
      BY <2>4
    <3>2. After([k \in 0..m |-> IF k = m THEN Turn(g[m - 1], m) ELSE g[k]], m)
      BY <2>2, <3>1, Zenon
    <3> QED
      BY <1>1, <3>2
  <2> HIDE DEF Exists
  <2>5. n \in Exists
    <3>1. Turns(Exists, n)
      BY <2>3, <2>4, Zenon DEF Turns
    <3> QED
      BY <1>1, <3>1, LastTurn
  <2> QED
    BY <2>5 DEF Exists
<1>4. After(after, n)
  BY <1>3
<1> HIDE DEF after
<1>5. after[0] = before /\ \A k \in 1..n : after[k] = Turn(after[k - 1], k)
  <2> HIDE DEF Turn, before
  <2> QED
    BY <1>1, <1>4
<1>6. /\ widths \in Seq(Widths)
      /\ table = "Document" => Len(widths) = 4
      /\ table = "MethodDebugInformation" => Len(widths) = 2
  BY ColumnWidths
<1> HIDE DEF widths
<1> DEFINE Good == {k \in 0..n : RowsRead(after[k], table, b, e)}
<1>7. 0 \in Good
  <2>1. Kept(before, b, e) /\ before.v = <<>>
    BY DEF Kept, Result
  <2>2. << >> \in Seq(DocumentRow) /\ << >> \in Seq(MethodDebugInformationRow)
    BY EmptySeq
  <2> HIDE DEF before
  <2>3. RowsRead(before, table, b, e)
    BY <2>1, <2>2 DEF RowsRead
  <2> QED
    BY <1>1, <1>5, <2>3
<1>8. ASSUME NEW k \in 1..n, k - 1 \in Good
      PROVE  k \in Good
  <2> DEFINE r == after[k - 1]
             row == ReadFields(r.s, widths)
             a == Add(r, row)
  <2>1. RowsRead(r, table, b, e)
    BY <1>8
  <2>2. after[k] = Turn(r, k)
    BY <1>5
  <2> HIDE DEF r
  <2>3. CASE ~r.ok
    BY <1>1, <2>1, <2>2, <2>3
  <2>4. CASE r.ok
    <3>1. FieldsRead(row, Len(widths), b, e, widths)
      BY <1>6, <2>1, ReadFieldsKeeps DEF RowsRead, Kept
    <3> HIDE DEF row
    <3>2. Kept(row, b, e) /\ (row.ok => row.v \in Seq(Nat) /\ Len(row.v) = Len(widths))
      BY <3>1 DEF FieldsRead
    <3>3. a.ok = row.ok /\ a.s = row.s /\ (row.ok => a.v = Append(r.v, Row(table, row.v)))
      BY DEF Result
    <3> HIDE DEF a
    <3>4. ASSUME row.ok, table = "Document"
          PROVE  a.v \in Seq(DocumentRow)
      <4>1. r.v \in Seq(DocumentRow) /\ Row(table, row.v) \in DocumentRow
        BY <1>6, <2>1, <2>4, <3>2, <3>4, RowOfNumbers DEF RowsRead
      <4>2. Append(r.v, Row(table, row.v)) \in Seq(DocumentRow)
        BY <4>1, AppendProperties
      <4> QED
        BY <3>3, <3>4, <4>2
    <3>5. ASSUME row.ok, table = "MethodDebugInformation"
          PROVE  a.v \in Seq(MethodDebugInformationRow)
      <4>1. r.v \in Seq(MethodDebugInformationRow)
            /\ Row(table, row.v) \in MethodDebugInformationRow
        BY <1>6, <2>1, <2>4, <3>2, <3>5, RowOfNumbers DEF RowsRead
      <4>2. Append(r.v, Row(table, row.v)) \in Seq(MethodDebugInformationRow)
        BY <4>1, AppendProperties
      <4> QED
        BY <3>3, <3>5, <4>2
    <3>6. RowsRead(a, table, b, e)
      BY <3>2, <3>3, <3>4, <3>5 DEF RowsRead, Kept
    <3>7. after[k] = a
      BY <2>2, <2>4 DEF a, row
    <3> QED
      BY <1>1, <3>6, <3>7
  <2> QED
    BY <2>3, <2>4
<1> HIDE DEF Good
<1>9. n \in Good
  <2>1. Turns(Good, n)
    BY <1>7, <1>8, Zenon DEF Turns
  <2> QED
    BY <1>1, <2>1, LastTurn
<1> QED
  BY <1>2, <1>9 DEF Good

-----------------------------------------------------------------------------
(* Sequence points *)

\* A read that has taken something: it ended before the end of the stream.
Taken(r, b, e) == Kept(r, b, e) /\ (r.ok => r.s.pos <= e)

LEMMA CompressedTaken ==
    ASSUME NEW b \in Seq(Byte), NEW e \in 0..Len(b), NEW r, Kept(r, b, e)
    PROVE  LET q == ReadCompressedUInt32(r.s)
           IN Taken(q, b, e) /\ Kept(q, b, e)
<1>1. r.s \in Streams(b, e)
  BY DEF Kept
<1> QED
  BY <1>1, ReadCompressedKeeps DEF Taken

LEMMA ResultTaken ==
    ASSUME NEW b, NEW e, NEW r, Taken(r, b, e), r.ok, NEW v
    PROVE  Taken(Result(TRUE, r.s, v), b, e)
BY DEF Taken, Kept, Result

LEMMA FailsTaken ==
    ASSUME NEW b, NEW e, NEW s \in Streams(b, e)
    PROVE  Taken(Fails(s), b, e)
BY FailsKeeps DEF Taken

LEMMA FirstRecordTaken ==
    ASSUME NEW b \in Seq(Byte), NEW e \in 0..Len(b), NEW s \in Streams(b, e)
    PROVE  Taken(ParseFirstRecord(s), b, e)
<1> DEFINE delta == ReadCompressedUInt32(s)
           lines == ReadCompressedUInt32(delta.s)
           cols == ReadCompressedUInt32(lines.s)
           line == ReadCompressedUInt32(cols.s)
           col == ReadCompressedUInt32(line.s)
           hidden == Result(TRUE, cols.s, NewHiddenSequencePoint(delta.v))
           point == Result(TRUE, col.s, SequencePoint(delta.v, line.v, col.v, lines.v, cols.v))
           r == ParseFirstRecord(s)
<1>1. Kept(delta, b, e)
  BY ReadCompressedKeeps
<1>2. Kept(lines, b, e)
  BY <1>1, CompressedTaken
<1> HIDE DEF delta
<1>3. Taken(cols, b, e) /\ Kept(cols, b, e)
  BY <1>2, CompressedTaken
<1> HIDE DEF lines
<1>4. Kept(line, b, e)
  BY <1>3, CompressedTaken
<1> HIDE DEF cols
<1>5. Taken(col, b, e)
  BY <1>4, CompressedTaken
<1> HIDE DEF line
<1>6. cols.ok => Taken(hidden, b, e)
  BY <1>3, ResultTaken
<1>7. col.ok => Taken(point, b, e)
  BY <1>5, ResultTaken
<1>8. \/ r = Fails(s)
      \/ r = hidden /\ cols.ok
      \/ r = point /\ col.ok
  BY DEF ParseFirstRecord, delta, lines, cols, line, col
<1> HIDE DEF r, hidden, point
<1> QED
  BY <1>6, <1>7, <1>8, FailsTaken DEF r

LEMMA PositionKeeps ==
    ASSUME NEW b \in Seq(Byte), NEW e \in 0..Len(b), NEW r, Kept(r, b, e), NEW last
    PROVE  Kept(ReadPosition(r.s, last), b, e)
<1>1. r.s \in Streams(b, e)
  BY DEF Kept
<1> QED
  BY <1>1, ReadCompressedKeeps, ReadSignedKeeps DEF ReadPosition

LEMMA NextColumnsKeeps ==
    ASSUME NEW b \in Seq(Byte), NEW e \in 0..Len(b), NEW last, NEW delta, NEW lines,
           NEW cols, Kept(cols, b, e)
    PROVE  Kept(ParseNextColumns(last, delta, lines, cols), b, e)
<1> DEFINE line == ReadPosition(cols.s, last)
           col == ReadPosition(line.s, last)
           point == ParseNextPosition(last, delta, lines, cols.v, line, col)
           hidden == Result(TRUE, cols.s, NewHiddenSequencePoint(delta))
<1>1. Kept(line, b, e)
  BY PositionKeeps
<1>2. Kept(col, b, e)
  BY <1>1, PositionKeeps
<1> HIDE DEF line, col
<1>3. point.ok \in BOOLEAN /\ point.s \in {line.s, col.s}
  BY DEF ParseNextPosition, Fails, Result
<1>4. Kept(point, b, e)
  BY <1>1, <1>2, <1>3 DEF Kept
<1>5. Kept(hidden, b, e)
  BY DEF Kept, Result
<1> HIDE DEF point, hidden
<1> QED
  BY <1>4, <1>5 DEF ParseNextColumns, point, hidden, line, col

LEMMA NextRecordKeeps ==
    ASSUME NEW b \in Seq(Byte), NEW e \in 0..Len(b), NEW s \in Streams(b, e), NEW last
    PROVE  Kept(ParseNextRecord(s, last), b, e)
<1> DEFINE first == ReadCompressedUInt32(s)
           second == ReadCompressedUInt32(first.s)
           cols == IF second.v = 0 THEN ReadCompressedUInt32(second.s)
                   ELSE ReadCompressSignedInt32(second.s)
           change == Result(TRUE, second.s, NewDocumentChangeSequencePoint(second.v))
           point == ParseNextColumns(last, first.v, second.v, cols)
<1>1. Kept(first, b, e)
  BY ReadCompressedKeeps
<1>2. Kept(second, b, e)
  BY <1>1, CompressedTaken
<1> HIDE DEF first, second
<1>3. second.s \in Streams(b, e)
  BY <1>2 DEF Kept
<1>4. Kept(cols, b, e)
  BY <1>3, ReadCompressedKeeps, ReadSignedKeeps
<1> HIDE DEF cols
<1>5. Kept(point, b, e)
  BY <1>4, NextColumnsKeeps
<1>6. Kept(change, b, e)
  BY <1>3 DEF Kept, Result
<1>7. Kept(Fails(s), b, e)
  BY FailsKeeps
<1> HIDE DEF point, change
<1> QED
  BY <1>5, <1>6, <1>7 DEF ParseNextRecord, point, change, cols, first, second

\* The loop over the records of a blob keeps the end of the blob.
LEMMA RecordsKeep ==
    ASSUME NEW b \in Seq(Byte), NEW e \in 0..Len(b), NEW first, Taken(first, b, e)
    PROVE  Kept(ParseRecords(first), b, e)
<1> DEFINE n == first.s.end - first.s.pos
           before == [ok |-> TRUE, s |-> first.s, v |-> <<first.v>>,
                      last |-> LastNonHidden(<<>>, first.v)]
           Turn(r, k) == IF r.ok /\ HasNext(r.s)
                         THEN AddRecord(r, ParseNextRecord(r.s, r.last)) ELSE r
           After(g, m) == g = [k \in 0..m |-> IF k = 0 THEN before ELSE Turn(g[k - 1], k)]
           after == CHOOSE g : After(g, n)
           Exists == {m \in 0..n : \E g : After(g, m)}
<1> SUFFICES ASSUME first.ok
             PROVE  Kept(ParseRecords(first), b, e)
  BY DEF ParseRecords, Taken
<1>1. n \in Nat
  <2>1. first.s \in Streams(b, e) /\ first.s.pos <= e
    BY DEF Taken, Kept
  <2>2. first.s.end = e /\ first.s.pos \in Nat /\ e \in Nat
    BY <2>1, StreamFields, LenProperties
  <2> QED
    BY <2>1, <2>2
<1>2. ParseRecords(first) = after[n]
  BY DEF ParseRecords, Repeat
<1> HIDE DEF n
<1>3. \E g : After(g, n)
  <2> HIDE DEF Turn, before
  <2>1. After([k \in 0..0 |-> before], 0)
    OBVIOUS
  <2>2. ASSUME NEW m \in 1..n, NEW g, After(g, m - 1)
        PROVE  After([k \in 0..m |-> IF k = m THEN Turn(g[m - 1], m) ELSE g[k]], m)
    BY <1>1, <2>2
  <2> HIDE DEF After
  <2>3. 0 \in Exists
    BY <1>1, <2>1
  <2>4. ASSUME NEW m \in 1..n, m - 1 \in Exists
        PROVE  m \in Exists
    <3>1. PICK g : After(g, m - 1)
      BY <2>4
    <3>2. After([k \in 0..m |-> IF k = m THEN Turn(g[m - 1], m) ELSE g[k]], m)
      BY <2>2, <3>1, Zenon
    <3> QED
      BY <1>1, <3>2
  <2> HIDE DEF Exists
  <2>5. n \in Exists
    <3>1. Turns(Exists, n)
      BY <2>3, <2>4, Zenon DEF Turns
    <3> QED
      BY <1>1, <3>1, LastTurn
  <2> QED
    BY <2>5 DEF Exists
<1>4. After(after, n)
  BY <1>3
<1> HIDE DEF after
<1>5. after[0] = before /\ \A k \in 1..n : after[k] = Turn(after[k - 1], k)
  <2> HIDE DEF Turn, before
  <2> QED
    BY <1>1, <1>4
<1> DEFINE Good == {k \in 0..n : Kept(after[k], b, e)}
<1>6. 0 \in Good
  <2>1. Kept(before, b, e)
    BY DEF Kept, Taken
  <2> HIDE DEF before
  <2> QED
    BY <1>1, <1>5, <2>1
<1>7. ASSUME NEW k \in 1..n, k - 1 \in Good
      PROVE  k \in Good
  <2> DEFINE r == after[k - 1]
             next == ParseNextRecord(r.s, r.last)
  <2>1. Kept(r, b, e)
    BY <1>7
  <2>2. after[k] = Turn(r, k)
    BY <1>5
  <2> HIDE DEF r
  <2>3. r.s \in Streams(b, e)
    BY <2>1 DEF Kept
  <2>4. Kept(next, b, e)
    BY <2>3, NextRecordKeeps
  <2> HIDE DEF next
  <2>5. Kept(AddRecord(r, next), b, e)
    BY <2>4 DEF AddRecord, Kept
  <2>6. Kept(Turn(r, k), b, e)
    BY <2>1, <2>5 DEF next
  <2> QED
    BY <1>1, <2>2, <2>6
<1> HIDE DEF Good
<1>8. n \in Good
  <2>1. Turns(Good, n)
    BY <1>6, <1>7, Zenon DEF Turns
  <2> QED
    BY <1>1, <2>1, LastTurn
<1> QED
  BY <1>2, <1>8 DEF Good

LEMMA SequencePointsKeep ==
    ASSUME NEW b \in Seq(Byte), NEW e \in 0..Len(b), NEW s \in Streams(b, e),
           NEW starting_document
    PROVE  Kept(ParseSequencePoints(s, starting_document), b, e)
<1> DEFINE signature == ReadCompressedUInt32(s)
           initial == ReadCompressedUInt32(signature.s)
           Records(r) == ParseRecords(ParseFirstRecord(r.s))
<1>1. Kept(signature, b, e)
  BY ReadCompressedKeeps
<1>2. Kept(initial, b, e)
  BY <1>1, CompressedTaken
<1> HIDE DEF signature, initial
<1>3. \A r : Kept(r, b, e) => Kept(Records(r), b, e)
  BY FirstRecordTaken, RecordsKeep DEF Kept
<1>4. Kept(Records(signature), b, e) /\ Kept(Records(initial), b, e)
  BY <1>1, <1>2, <1>3
<1> HIDE DEF Records
<1>5. Kept(WithInitialDocument(initial, Records(initial)), b, e)
  BY <1>2, <1>4 DEF WithInitialDocument, Fails, Result, Kept
<1>6. Kept(ParseInitialDocument(initial), b, e)
  BY <1>2, <1>5 DEF ParseInitialDocument, Records
<1> QED
  BY <1>1, <1>4, <1>6 DEF ParseSequencePoints, signature, initial, Records

-----------------------------------------------------------------------------
(* Heaps *)

HeapsFound ==
    /\ stream_headers_ \in Seq(StreamHeader)
    /\ \A heap \in {"Strings", "Blob", "GUID"} : StreamsNamed(StreamNames[heap]) # {}

\* A stream that is there has an offset and a size.
LEMMA StreamNamedIsHeader ==
    ASSUME stream_headers_ \in Seq(StreamHeader), NEW name, StreamsNamed(name) # {}
    PROVE  StreamNamed(name) \in StreamHeader
<1>1. Len(stream_headers_) \in Nat /\ DOMAIN stream_headers_ = 1..Len(stream_headers_)
  BY LenProperties
<1>2. StreamsNamed(name) \subseteq 1..Len(stream_headers_)
  BY <1>1 DEF StreamsNamed
<1>3. StreamsNamed(name) \subseteq Nat
  BY <1>1, <1>2
<1>4. Min(StreamsNamed(name)) \in StreamsNamed(name)
  BY <1>3, LeastOf
<1>5. Min(StreamsNamed(name)) \in 1..Len(stream_headers_)
  BY <1>2, <1>4
<1> QED
  BY <1>5, ElementOfSeq DEF StreamNamed

LEMMA HeapPositionIsNatural ==
    ASSUME HeapsFound, NEW heap \in {"Strings", "Blob", "GUID"}, NEW index \in Int
    PROVE  HeapPosition(heap, index) \in Nat
<1> DEFINE offset == StreamNamed(StreamNames[heap]).offset
<1>1. StreamNamed(StreamNames[heap]) \in StreamHeader
  BY StreamNamedIsHeader DEF HeapsFound
<1>2. offset \in Nat
  BY <1>1 DEF StreamHeader
<1> HIDE DEF offset
<1>3. \A x \in Int, w \in Nat \ {0} : x % w \in Nat
  OBVIOUS
<1>4. offset + index \in Int
  BY <1>2
<1>5. (offset + index) % kUInt32 \in Nat
  BY <1>3, <1>4, UInt32Assumption
<1> QED
  BY <1>5 DEF HeapPosition, offset

LEMMA BlobKeeps ==
    ASSUME NEW b \in Seq(Byte), NEW e \in 0..Len(b), NEW s \in Streams(b, e), NEW p \in Nat
    PROVE  Kept(BlobAt(s, p), b, e)
<1> DEFINE size == ReadCompressedUInt32(SeekFromOrigin(s, p))
<1>1. SeekFromOrigin(s, p) \in Streams(b, e)
  BY SeekKeeps
<1>2. Kept(size, b, e) /\ (size.ok => size.v \in Nat)
  BY <1>1, ReadCompressedKeeps
<1> HIDE DEF size
<1>3. size.ok => Kept(ReadBytes(size.s, size.v), b, e)
  BY <1>2, ReadBytesKeeps DEF Kept
<1> QED
  BY <1>2, <1>3 DEF BlobAt, size

LEMMA HashKeeps ==
    ASSUME HeapsFound, NEW b \in Seq(Byte), NEW e \in 0..Len(b), NEW s \in Streams(b, e),
           NEW index \in Nat
    PROVE  Kept(GetHash(s, index), b, e)
BY HeapPositionIsNatural, BlobKeeps DEF GetHash

LEMMA GuidKeeps ==
    ASSUME HeapsFound, NEW b \in Seq(Byte), NEW e \in 0..Len(b), NEW s \in Streams(b, e),
           NEW index \in Nat
    PROVE  Kept(GetHeapGuid(s, index), b, e)
<1>1. (index - 1) * 16 \in Int
  OBVIOUS
<1>2. HeapPosition("GUID", (index - 1) * 16) \in Nat
  BY <1>1, HeapPositionIsNatural
<1>3. SeekFromOrigin(s, HeapPosition("GUID", (index - 1) * 16)) \in Streams(b, e)
  BY <1>2, SeekKeeps
<1> QED
  BY <1>3, ReadBytesKeeps DEF GetHeapGuid

\* The loop over the parts of a name.
LEMMA IndicesKeep ==
    ASSUME NEW b \in Seq(Byte), NEW e \in 0..Len(b), NEW s \in Streams(b, e), s.pos <= e
    PROVE  Kept(ReadIndices(s), b, e)
<1> DEFINE n == s.end - s.pos
           before == Result(TRUE, s, <<>>)
           Turn(r, k) == IF r.ok /\ HasNext(r.s)
                         THEN Appended(r, ReadCompressedUInt32(r.s)) ELSE r
           After(g, m) == g = [k \in 0..m |-> IF k = 0 THEN before ELSE Turn(g[k - 1], k)]
           after == CHOOSE g : After(g, n)
           Exists == {m \in 0..n : \E g : After(g, m)}
<1>1. n \in Nat
  <2>1. s.end = e /\ s.pos \in Nat /\ e \in Nat
    BY StreamFields, LenProperties
  <2> QED
    BY <2>1
<1>2. ReadIndices(s) = after[n]
  BY DEF ReadIndices, Repeat
<1> HIDE DEF n
<1>3. \E g : After(g, n)
  <2> HIDE DEF Turn, before
  <2>1. After([k \in 0..0 |-> before], 0)
    OBVIOUS
  <2>2. ASSUME NEW m \in 1..n, NEW g, After(g, m - 1)
        PROVE  After([k \in 0..m |-> IF k = m THEN Turn(g[m - 1], m) ELSE g[k]], m)
    BY <1>1, <2>2
  <2> HIDE DEF After
  <2>3. 0 \in Exists
    BY <1>1, <2>1
  <2>4. ASSUME NEW m \in 1..n, m - 1 \in Exists
        PROVE  m \in Exists
    <3>1. PICK g : After(g, m - 1)
      BY <2>4
    <3>2. After([k \in 0..m |-> IF k = m THEN Turn(g[m - 1], m) ELSE g[k]], m)
      BY <2>2, <3>1, Zenon
    <3> QED
      BY <1>1, <3>2
  <2> HIDE DEF Exists
  <2>5. n \in Exists
    <3>1. Turns(Exists, n)
      BY <2>3, <2>4, Zenon DEF Turns
    <3> QED
      BY <1>1, <3>1, LastTurn
  <2> QED
    BY <2>5 DEF Exists
<1>4. After(after, n)
  BY <1>3
<1> HIDE DEF after
<1>5. after[0] = before /\ \A k \in 1..n : after[k] = Turn(after[k - 1], k)
  <2> HIDE DEF Turn, before
  <2> QED
    BY <1>1, <1>4
<1> DEFINE Good == {k \in 0..n : Kept(after[k], b, e)}
<1>6. 0 \in Good
  <2>1. Kept(before, b, e)
    BY DEF Kept, Result
  <2> HIDE DEF before
  <2> QED
    BY <1>1, <1>5, <2>1
<1>7. ASSUME NEW k \in 1..n, k - 1 \in Good
      PROVE  k \in Good
  <2> DEFINE r == after[k - 1]
             next == ReadCompressedUInt32(r.s)
  <2>1. Kept(r, b, e)
    BY <1>7
  <2>2. after[k] = Turn(r, k)
    BY <1>5
  <2> HIDE DEF r
  <2>3. Kept(next, b, e)
    BY <2>1, CompressedTaken
  <2> HIDE DEF next
  <2>4. Kept(Appended(r, next), b, e)
    BY <2>3, AppendedKeeps
  <2>5. Kept(Turn(r, k), b, e)
    BY <2>1, <2>4 DEF next
  <2> QED
    BY <1>1, <2>2, <2>5
<1> HIDE DEF Good
<1>8. n \in Good
  <2>1. Turns(Good, n)
    BY <1>6, <1>7, Zenon DEF Turns
  <2> QED
    BY <1>1, <2>1, LastTurn
<1> QED
  BY <1>2, <1>8 DEF Good

\* The length of a blob, and the stream that ends with the blob.
LEMMA WindowOfBlob ==
    ASSUME HeapsFound, NEW b \in Seq(Byte), NEW s \in Streams(b, Len(b)), NEW index \in Nat
    PROVE  LET size == ReadCompressedUInt32(SeekFromOrigin(s, HeapPosition("Blob", index)))
               window == SetStreamLength(size.s, size.v)
           IN size.ok /\ window.ok =>
                 /\ window.s.end \in 0..Len(b) /\ window.s \in Streams(b, window.s.end)
                 /\ window.s.pos <= window.s.end
<1> DEFINE size == ReadCompressedUInt32(SeekFromOrigin(s, HeapPosition("Blob", index)))
           window == SetStreamLength(size.s, size.v)
<1>1. HeapPosition("Blob", index) \in Nat /\ Len(b) \in Nat /\ Len(b) \in 0..Len(b)
  <2>1. index \in Int
    OBVIOUS
  <2>2. HeapPosition("Blob", index) \in Nat
    BY <2>1, HeapPositionIsNatural
  <2>3. Len(b) \in Nat
    BY LenProperties
  <2> QED
    BY <2>2, <2>3
<1>2. SeekFromOrigin(s, HeapPosition("Blob", index)) \in Streams(b, Len(b))
  BY <1>1, SeekKeeps
<1>3. Kept(size, b, Len(b)) /\ (size.ok => size.v \in Nat)
  BY <1>1, <1>2, ReadCompressedKeeps
<1> HIDE DEF size
<1>4. ASSUME size.ok, window.ok
      PROVE  /\ window.s.end \in 0..Len(b) /\ window.s \in Streams(b, window.s.end)
             /\ window.s.pos <= window.s.end
  <2>1. size.s \in Streams(b, Len(b)) /\ size.v \in Nat
    BY <1>3, <1>4 DEF Kept
  <2>2. window.s.end \in 0..Len(b) /\ window.s \in Streams(b, window.s.end)
    BY <1>1, <1>4, <2>1, SetStreamLengthLimits
  <2>3. window.s = [size.s EXCEPT !.end = size.s.pos + size.v]
    BY <1>4 DEF SetStreamLength, Fails, Result
  <2>4. window.s.pos = size.s.pos /\ window.s.end = size.s.pos + size.v /\ size.s.pos \in Nat
    BY <2>1, <2>3 DEF Streams
  <2> HIDE DEF window
  <2> QED
    BY <2>1, <2>2, <2>4
<1> QED
  BY <1>4 DEF size

\* GetMethodSeqInfo: whatever the blob holds, the length is reset.
LEMMA MethodSeqInfoKeeps ==
    ASSUME HeapsFound, NEW b \in Seq(Byte), NEW s \in Streams(b, Len(b)), NEW index \in Nat,
           NEW doc_index
    PROVE  Kept(GetMethodSeqInfo(s, doc_index, index), b, Len(b))
<1> DEFINE size == ReadCompressedUInt32(SeekFromOrigin(s, HeapPosition("Blob", index)))
           window == SetStreamLength(size.s, size.v)
           points == ParseSequencePoints(window.s, doc_index)
<1>1. size.ok /\ window.ok =>
          window.s.end \in 0..Len(b) /\ window.s \in Streams(b, window.s.end)
  BY WindowOfBlob
<1>2. Len(b) \in Nat
  BY LenProperties
<1>3. CASE ~size.ok \/ ~window.ok
  BY <1>3, FailsKeeps DEF GetMethodSeqInfo
<1>4. CASE size.ok /\ window.ok
  <2>1. GetMethodSeqInfo(s, doc_index, index) = Unlimited(points)
    BY <1>4 DEF GetMethodSeqInfo
  <2> HIDE DEF window
  <2>2. Kept(points, b, window.s.end)
    BY <1>1, <1>4, SequencePointsKeep
  <2> HIDE DEF points
  <2>3. ResetStreamLength(points.s) \in Streams(b, Len(b))
    BY <1>2, <2>2, ResetEndsAtFile DEF Kept
  <2>4. Kept(Unlimited(points), b, Len(b))
    BY <2>2, <2>3 DEF Unlimited, Result, Kept
  <2> QED
    BY <2>1, <2>4
<1> QED
  BY <1>3, <1>4

\* GetDocumentName: the length of the list of parts is reset before they are read.
LEMMA DocumentNameKeeps ==
    ASSUME HeapsFound, NEW b \in Seq(Byte), NEW s \in Streams(b, Len(b)), NEW index \in Nat
    PROVE  Kept(GetDocumentName(s, index), b, Len(b))
<1> DEFINE size == ReadCompressedUInt32(SeekFromOrigin(s, HeapPosition("Blob", index)))
           window == SetStreamLength(size.s, size.v)
           separator == ReadByte(window.s)
           indices == ReadIndices(separator.s)
           whole == ResetStreamLength(indices.s)
           r == GetDocumentName(s, index)
<1>1. size.ok /\ window.ok =>
          /\ window.s.end \in 0..Len(b) /\ window.s \in Streams(b, window.s.end)
          /\ window.s.pos <= window.s.end
  BY WindowOfBlob
<1>2. Len(b) \in Nat
  BY LenProperties
<1>3. CASE index = 0 \/ ~size.ok \/ ~window.ok
  <2>1. r = Fails(s)
    BY <1>3 DEF GetDocumentName
  <2> QED
    BY <2>1, FailsKeeps
<1>4. CASE ~(index = 0 \/ ~size.ok \/ ~window.ok)
  <2>1. r.ok \in BOOLEAN /\ r.s = whole
    BY <1>4 DEF GetDocumentName, Fails, Result
  <2> HIDE DEF r
  <2> DEFINE e == window.s.end
  <2>2. e \in 0..Len(b) /\ window.s \in Streams(b, e) /\ window.s.pos <= e
    BY <1>1, <1>4
  <2> HIDE DEF window, e
  <2>3. Kept(separator, b, e) /\ (separator.ok => separator.s.pos <= e)
    BY <2>2, ReadUIntKeeps DEF ReadByte, Widths
  <2>4. ~separator.ok => separator.s = window.s
    BY DEF ReadByte, ReadUInt, Fails, Result
  <2>5. separator.s \in Streams(b, e) /\ separator.s.pos <= e
    BY <2>2, <2>3, <2>4 DEF Kept
  <2> HIDE DEF separator
  <2>6. Kept(indices, b, e)
    BY <2>2, <2>5, IndicesKeep
  <2>7. whole \in Streams(b, Len(b))
    BY <1>2, <2>6, ResetEndsAtFile DEF Kept
  <2> QED
    BY <2>1, <2>7 DEF Kept, r
<1> QED
  BY <1>3, <1>4

-----------------------------------------------------------------------------
(* Documents *)

\* The two tables that positions are computed from.
TablesRead ==
    /\ tables.Document \in Seq(DocumentRow)
    /\ tables.MethodDebugInformation \in Seq(MethodDebugInformationRow)

LEMMA MethodOfDocumentKeeps ==
    ASSUME NEW b, NEW e, NEW info, Kept(info, b, e), NEW method_def
    PROVE  Kept(MethodOfDocument(method_def, info), b, e)
<1>1. \A v : Kept(Result(TRUE, info.s, v), b, e)
  BY DEF Kept, Result
<1>2. Kept(Fails(info.s), b, e)
  BY FailsKeeps DEF Kept
<1> QED
  BY <1>1, <1>2, Zenon DEF MethodOfDocument

\* A method of the table.
LEMMA MethodKeeps ==
    ASSUME HeapsFound, TablesRead, NEW b \in Seq(Byte), NEW s \in Streams(b, Len(b)),
           NEW m \in 1..Len(tables.MethodDebugInformation), NEW doc_index
    PROVE  Kept(ParseMethod(s, m, doc_index), b, Len(b))
<1> DEFINE index == tables.MethodDebugInformation[m].sequence_points
           info == GetMethodSeqInfo(s, doc_index, index)
<1>1. tables.MethodDebugInformation[m] \in MethodDebugInformationRow
  BY ElementOfSeq DEF TablesRead
<1>2. index \in Nat
  BY <1>1 DEF MethodDebugInformationRow
<1>3. ParseMethod(s, m, doc_index) = MethodOfDocument(m, info)
  BY DEF ParseMethod
<1> HIDE DEF index
<1>4. Kept(info, b, Len(b))
  BY <1>2, MethodSeqInfoKeeps
<1> HIDE DEF info
<1> QED
  BY <1>3, <1>4, MethodOfDocumentKeeps

\* The loop over the methods.
LEMMA MethodsKeep ==
    ASSUME HeapsFound, TablesRead, NEW b \in Seq(Byte), NEW s \in Streams(b, Len(b)),
           NEW doc_index
    PROVE  Kept(ParseMethods(s, doc_index), b, Len(b))
<1> DEFINE e == Len(b)
           n == Len(tables.MethodDebugInformation)
           before == Result(TRUE, s, <<>>)
           Turn(r, m) == IF r.ok /\ tables.MethodDebugInformation[m].document = doc_index
                         THEN Appended(r, ParseMethod(r.s, m, doc_index)) ELSE r
           After(g, m) == g = [k \in 0..m |-> IF k = 0 THEN before ELSE Turn(g[k - 1], k)]
           after == CHOOSE g : After(g, n)
           Exists == {m \in 0..n : \E g : After(g, m)}
<1>1. n \in Nat
  BY LenProperties DEF TablesRead
<1>2. ParseMethods(s, doc_index) = after[n]
  BY DEF ParseMethods, Repeat
<1>9. \A k \in 1..n : k \in 1..Len(tables.MethodDebugInformation)
  OBVIOUS
<1> HIDE DEF n
<1>3. \E g : After(g, n)
  <2> HIDE DEF Turn, before
  <2>1. After([k \in 0..0 |-> before], 0)
    OBVIOUS
  <2>2. ASSUME NEW m \in 1..n, NEW g, After(g, m - 1)
        PROVE  After([k \in 0..m |-> IF k = m THEN Turn(g[m - 1], m) ELSE g[k]], m)
    BY <1>1, <2>2
  <2> HIDE DEF After
  <2>3. 0 \in Exists
    BY <1>1, <2>1
  <2>4. ASSUME NEW m \in 1..n, m - 1 \in Exists
        PROVE  m \in Exists
    <3>1. PICK g : After(g, m - 1)
      BY <2>4
    <3>2. After([k \in 0..m |-> IF k = m THEN Turn(g[m - 1], m) ELSE g[k]], m)
      BY <2>2, <3>1, Zenon
    <3> QED
      BY <1>1, <3>2
  <2> HIDE DEF Exists
  <2>5. n \in Exists
    <3>1. Turns(Exists, n)
      BY <2>3, <2>4, ZenonT(40) DEF Turns
    <3> QED
      BY <1>1, <3>1, LastTurn
  <2> QED
    BY <2>5 DEF Exists
<1>4. After(after, n)
  BY <1>3
<1> HIDE DEF after
<1>5. after[0] = before /\ \A k \in 1..n : after[k] = Turn(after[k - 1], k)
  <2> HIDE DEF Turn, before
  <2> QED
    BY <1>1, <1>4
<1> DEFINE Good == {k \in 0..n : Kept(after[k], b, e)}
<1>6. 0 \in Good
  <2>1. Kept(before, b, e)
    BY DEF Kept, Result
  <2> HIDE DEF before
  <2> QED
    BY <1>1, <1>5, <2>1
<1>7. ASSUME NEW k \in 1..n, k - 1 \in Good
      PROVE  k \in Good
  <2> DEFINE r == after[k - 1]
             next == ParseMethod(r.s, k, doc_index)
  <2>1. Kept(r, b, e)
    BY <1>7
  <2>2. after[k] = Turn(r, k)
    BY <1>5
  <2> HIDE DEF r
  <2>3. Kept(next, b, e)
    BY <1>9, <2>1, MethodKeeps DEF Kept
  <2> HIDE DEF next
  <2>4. Kept(Appended(r, next), b, e)
    BY <2>3, AppendedKeeps
  <2>5. Kept(Turn(r, k), b, e)
    BY <2>1, <2>4, Zenon DEF next
  <2> QED
    BY <1>1, <2>2, <2>5
<1> HIDE DEF Good
<1>8. n \in Good
  <2>1. Turns(Good, n)
    BY <1>6, <1>7, Zenon DEF Turns
  <2> QED
    BY <1>1, <2>1, LastTurn
<1> QED
  BY <1>2, <1>8 DEF Good

\* DocumentIndex::Initialize, for a document of the table.
LEMMA DocumentKeeps ==
    ASSUME HeapsFound, TablesRead, NEW b \in Seq(Byte), NEW s \in Streams(b, Len(b)),
           NEW doc_index \in 1..Len(tables.Document)
    PROVE  Kept(InitializeDocument(s, doc_index), b, Len(b))
<1> DEFINE row == tables.Document[doc_index]
           name == GetDocumentName(s, row.name)
           language == GetHeapGuid(name.s, row.language)
           algorithm == GetHeapGuid(language.s, row.hash_algorithm)
           hash == GetHash(algorithm.s, row.hash)
           methods == ParseMethods(hash.s, doc_index)
           r == InitializeDocument(s, doc_index)
<1>1. row \in DocumentRow
  BY ElementOfSeq DEF TablesRead
<1>2. /\ row.name \in Nat /\ row.language \in Nat
      /\ row.hash_algorithm \in Nat /\ row.hash \in Nat
  BY <1>1 DEF DocumentRow
<1>3. r = IF ~name.ok THEN name
          ELSE IF ~language.ok \/ ~algorithm.ok \/ ~hash.ok THEN Fails(name.s)
          ELSE DocumentIndex(name.v, methods)
  BY DEF InitializeDocument, InitializeNamed
<1> HIDE DEF row
<1>4. Len(b) \in 0..Len(b)
  <2>1. Len(b) \in Nat
    BY LenProperties
  <2> QED
    BY <2>1
<1>5. Kept(name, b, Len(b))
  BY <1>2, DocumentNameKeeps
<1> HIDE DEF name
<1>6. Kept(language, b, Len(b))
  BY <1>2, <1>4, <1>5, GuidKeeps DEF Kept
<1> HIDE DEF language
<1>7. Kept(algorithm, b, Len(b))
  BY <1>2, <1>4, <1>6, GuidKeeps DEF Kept
<1> HIDE DEF algorithm
<1>8. Kept(hash, b, Len(b))
  BY <1>2, <1>4, <1>7, HashKeeps DEF Kept
<1> HIDE DEF hash
<1>9. Kept(methods, b, Len(b))
  BY <1>8, MethodsKeep DEF Kept
<1> HIDE DEF methods
<1>10. Kept(DocumentIndex(name.v, methods), b, Len(b))
  <2>1. \A v : Kept(Result(TRUE, methods.s, v), b, Len(b))
    BY <1>9 DEF Kept, Result
  <2> QED
    BY <1>9, <2>1, Zenon DEF DocumentIndex
<1>11. Kept(Fails(name.s), b, Len(b))
  BY <1>5, FailsKeeps DEF Kept
<1> HIDE DEF r
<1>12. Kept(r, b, Len(b))
  BY <1>3, <1>5, <1>10, <1>11, Zenon
<1> QED
  BY <1>12 DEF r

-----------------------------------------------------------------------------
(* The inductive invariant *)

\* The stream of a call, with its end where it may be.
StreamOfCall(s, ended) ==
    /\ s \in [b : Seq(Byte), pos : Nat, end : Nat]
    /\ s.b = SubSeq(file, 1, Len(s.b))
    /\ s.end \in 0..Len(s.b)
    /\ ended => s.end = Len(s.b)

\* Everything else.
Rest ==
    /\ dll \in BOOLEAN
    /\ file \in Files
    /\ have \in 0..Len(file)
    /\ pc \in Labels
    /\ calls \in 0..MaxCalls
    /\ number_streams \in Nat
    /\ heap_sizes \in Byte
    /\ \A t \in DOMAIN rows : t \in 0..63 /\ rows[t] \in Nat
    /\ DOMAIN tables = Range(TableNames)
    /\ parsed \in BOOLEAN
    /\ stream_headers_ \in Seq(StreamHeader)
    /\ TablesRead

\* Where the call is.
Place ==
    /\ turn \in Nat
    /\ pc # "idle" => turn >= 1
    /\ pc = "tables" => turn <= Len(TableNames)
    /\ pc \in {"header", "tables", "pdb", "documents"} => HeapsFound

LEMMA PartsOfPdbInv ==
    PdbInv <=> StreamOfCall(stream, pc # "tables") /\ Rest /\ Place
<1>1. ASSUME PdbInv PROVE StreamOfCall(stream, pc # "tables") /\ Rest /\ Place
  BY <1>1, Zenon DEF PdbInv, TypeOK, NoLimitIsLeft, StreamOfCall, Rest, Place, TablesRead, HeapsFound
<1>2. ASSUME StreamOfCall(stream, pc # "tables"), Rest, Place PROVE PdbInv
  <2>1. \A k \in DOMAIN stream_headers_ :
            stream_headers_[k].offset \in Nat /\ stream_headers_[k].size \in Nat
    <3>1. stream_headers_ \in Seq(StreamHeader)
      BY <1>2 DEF Rest
    <3>2. ASSUME NEW k \in DOMAIN stream_headers_
          PROVE  stream_headers_[k].offset \in Nat /\ stream_headers_[k].size \in Nat
      <4>1. k \in 1..Len(stream_headers_)
        BY <3>1, LenProperties
      <4>2. stream_headers_[k] \in StreamHeader
        BY <3>1, <4>1, ElementOfSeq
      <4> QED
        BY <4>2 DEF StreamHeader
    <3> QED
      BY <3>2
  <2>2. stream.pos \in Nat
    BY <1>2 DEF StreamOfCall
  <2> QED
    BY <1>2, <2>1, <2>2, Zenon
    DEF PdbInv, TypeOK, NoLimitIsLeft, StreamOfCall, Rest, Place, TablesRead, HeapsFound
<1> QED
  BY <1>1, <1>2

LEMMA NextParts ==
    StreamOfCall(stream, pc # "tables")' /\ Rest' /\ Place' => PdbInv'
BY PartsOfPdbInv, PTL

\* The stream of a call after a read.
LEMMA StreamAfterRead ==
    ASSUME NEW s, NEW ended, StreamOfCall(s, ended), NEW e \in 0..Len(s.b),
           NEW t \in Streams(s.b, e)
    PROVE  /\ StreamOfCall(t, FALSE)
           /\ e = Len(s.b) => StreamOfCall(t, TRUE)
<1>1. s.b \in Seq(Byte) /\ Len(s.b) \in Nat /\ e \in Nat
  <2>1. s.b \in Seq(Byte)
    BY DEF StreamOfCall
  <2>2. Len(s.b) \in Nat
    BY <2>1, LenProperties
  <2> QED
    BY <2>1, <2>2
<1>2. t.b = s.b /\ t.end = e /\ t.pos \in Nat
  BY StreamFields
<1>3. t \in [b : Seq(Byte), pos : Nat, end : Nat]
  BY <1>1 DEF Streams
<1>4. t.b = SubSeq(file, 1, Len(t.b))
  BY <1>2 DEF StreamOfCall
<1> QED
  BY <1>1, <1>2, <1>3, <1>4 DEF StreamOfCall

\* What a read of the stream of a call needs.
LEMMA StreamOfCallFields ==
    ASSUME NEW s, NEW ended, StreamOfCall(s, ended)
    PROVE  /\ s.b \in Seq(Byte) /\ Len(s.b) \in Nat /\ Len(s.b) \in 0..Len(s.b)
           /\ s.end \in 0..Len(s.b) /\ s \in Streams(s.b, s.end)
           /\ ended => s \in Streams(s.b, Len(s.b))
<1>1. s.b \in Seq(Byte) /\ s \in Streams(s.b, s.end)
  BY DEF StreamOfCall, Streams
<1>2. Len(s.b) \in Nat
  BY <1>1, LenProperties
<1>3. Len(s.b) \in 0..Len(s.b)
  BY <1>2
<1> QED
  BY <1>1, <1>2, <1>3 DEF StreamOfCall

\* The named stream is entered, or the stream is left as it was.
LEMMA EnterStreamKeeps ==
    ASSUME stream_headers_ \in Seq(StreamHeader), NEW b \in Seq(Byte),
           stream \in Streams(b, Len(b)), Len(b) \in 0..Len(b), NEW name
    PROVE  \E e \in 0..Len(b) : EnterStream(name).s \in Streams(b, e)
<1> DEFINE header == StreamNamed(name)
           at == SeekFromOrigin(stream, header.offset)
           window == SetStreamLength(at, header.size)
<1>1. CASE StreamsNamed(name) = {}
  <2>1. EnterStream(name).s = stream
    BY <1>1 DEF EnterStream, Fails, Result
  <2> QED
    BY <2>1
<1>2. CASE StreamsNamed(name) # {}
  <2>1. EnterStream(name) = window
    BY <1>2 DEF EnterStream
  <2>2. header \in StreamHeader
    BY <1>2, StreamNamedIsHeader
  <2> HIDE DEF header
  <2>3. header.offset \in Nat /\ header.size \in Nat
    BY <2>2 DEF StreamHeader
  <2>4. at \in Streams(b, Len(b))
    BY <2>3, SeekKeeps
  <2> HIDE DEF at
  <2>5. /\ window.ok \in BOOLEAN
        /\ ~window.ok => window.s \in Streams(b, Len(b))
        /\ window.ok => window.s.end \in 0..Len(b) /\ window.s \in Streams(b, window.s.end)
    BY <2>3, <2>4, SetStreamLengthLimits
  <2> HIDE DEF window
  <2> QED
    BY <2>1, <2>5
<1> QED
  BY <1>1, <1>2

\* A call that gives up leaves the stream with the end of the file.
LEMMA GivesUp ==
    ASSUME Rest, Place, NEW s, StreamOfCall(s, TRUE), GiveUp(s)
    PROVE  PdbInv'
<1>1. StreamOfCall(stream, pc # "tables")'
  BY DEF GiveUp, StreamOfCall
<1>2. Rest'
  BY DEF GiveUp, Goto, Rest, TablesRead, Labels
<1>3. Place'
  BY DEF GiveUp, Goto, Place
<1> QED
  BY <1>1, <1>2, <1>3, NextParts

LEMMA InitEstablishesPdbInv ==
    Init => PdbInv
<1> SUFFICES ASSUME Init PROVE PdbInv
  OBVIOUS
<1>1. << >> \in Seq(Byte) /\ Len(<< >>) = 0 /\ << >> \in Seq(StreamHeader)
      /\ << >> \in Seq(DocumentRow) /\ << >> \in Seq(MethodDebugInformationRow)
  OBVIOUS
<1>2. file \in Files /\ file \in Seq(Byte) /\ Len(file) \in Nat
  BY FilesAssumption, LenProperties DEF Init
<1>3. have \in 0..Len(file)
  <2>1. have \in Cuts[file] \/ have = Len(file)
    BY DEF Init
  <2>2. have \in Cuts[file] => have \in Nat /\ have <= Len(file)
    BY <1>2, FilesAssumption
  <2> QED
    BY <1>2, <2>1, <2>2
<1>4. StreamOfCall(stream, pc # "tables")
  <2>1. stream = [b |-> << >>, pos |-> 0, end |-> 0]
    BY <1>1 DEF Init, ConsumeStream
  <2>2. SubSeq(file, 1, 0) = << >>
    BY <1>2
  <2> QED
    BY <1>1, <2>1, <2>2 DEF StreamOfCall
<1>5. Rest
  <2>1. DOMAIN tables = Range(TableNames) /\ tables.Document = << >>
        /\ tables.MethodDebugInformation = << >>
    <3>1. "Document" \in Range(TableNames) /\ "MethodDebugInformation" \in Range(TableNames)
      BY DEF Range, TableNames
    <3> QED
      BY <3>1 DEF Init, NoTables
  <2>2. 0 \in Byte
    BY DEF Byte
  <2>3. rows = << >> /\ DOMAIN << >> = {}
    BY DEF Init
  <2>4. calls \in 0..MaxCalls
    BY FilesAssumption DEF Init
  <2> QED
    BY <1>1, <1>2, <1>3, <2>1, <2>2, <2>3, <2>4 DEF Init, Rest, TablesRead, Labels
<1>6. Place
  BY DEF Init, Place
<1> QED
  BY <1>4, <1>5, <1>6, PartsOfPdbInv

LEMMA ConsumeFileKeeps ==
    ASSUME Rest, Place, ConsumeFile
    PROVE  PdbInv'
<1> DEFINE part == SubSeq(file, 1, have)
<1>1. file \in Seq(Byte) /\ have \in 0..Len(file) /\ Len(file) \in Nat
  BY FilesAssumption, LenProperties DEF Rest
<1>2. part \in Seq(Byte) /\ Len(part) = have
  <2>1. \A i \in 1..have : file[i] \in Byte
    <3>1. \A i \in 1..have : i \in 1..Len(file)
      BY <1>1
    <3> QED
      BY <1>1, <3>1, ElementOfSeq
  <2>2. have \in Int /\ 1 \in Int /\ have \in Nat
    BY <1>1
  <2>3. part \in Seq(Byte) /\ Len(part) = IF 1 <= have THEN have - 1 + 1 ELSE 0
    BY <2>1, <2>2, SubSeqProperties
  <2>4. (IF 1 <= have THEN have - 1 + 1 ELSE 0) = have
    BY <2>2
  <2> QED
    BY <2>3, <2>4
<1>3. part = SubSeq(file, 1, Len(part))
  BY <1>2, Zenon
<1> HIDE DEF part
<1>4. StreamOfCall(stream, pc # "tables")'
  <2>1. stream' = [b |-> part, pos |-> 0, end |-> Len(part)] /\ file' = file
    BY DEF ConsumeFile, ConsumeStream, part
  <2>2. Len(part) \in Nat
    BY <1>1, <1>2
  <2> QED
    BY <1>2, <1>3, <2>1, <2>2 DEF StreamOfCall
<1>5. Rest'
  BY FilesAssumption DEF ConsumeFile, Goto, Rest, TablesRead, Labels
<1>6. Place'
  BY DEF ConsumeFile, Goto, Place
<1> QED
  BY <1>4, <1>5, <1>6, NextParts

LEMMA ConsumeNothingKeeps ==
    ASSUME StreamOfCall(stream, pc # "tables"), Rest, Place, ConsumeNothing
    PROVE  PdbInv'
<1>1. StreamOfCall(stream, pc # "tables")'
  BY DEF ConsumeNothing, StreamOfCall
<1>2. Rest'
  BY FilesAssumption DEF ConsumeNothing, Rest, TablesRead, Labels
<1>3. Place'
  BY DEF ConsumeNothing, Place
<1> QED
  BY <1>1, <1>2, <1>3, NextParts

LEMMA FileCompletedKeeps ==
    ASSUME StreamOfCall(stream, pc # "tables"), Rest, Place, FileCompleted
    PROVE  PdbInv'
<1>1. StreamOfCall(stream, pc # "tables")'
  BY DEF FileCompleted, StreamOfCall
<1>2. Rest'
  <2>1. Len(file) \in Nat
    BY FilesAssumption, LenProperties DEF Rest
  <2> QED
    BY <2>1 DEF FileCompleted, Rest, TablesRead, Labels
<1>3. Place'
  BY DEF FileCompleted, Place, HeapsFound, StreamsNamed
<1> QED
  BY <1>1, <1>2, <1>3, NextParts

LEMMA ReadRootHeaderKeeps ==
    ASSUME StreamOfCall(stream, pc # "tables"), Rest, Place, ReadRootHeader
    PROVE  PdbInv'
<1> DEFINE b == stream.b
<1>1. pc = "root"
  BY DEF ReadRootHeader
<1>2. b \in Seq(Byte) /\ Len(b) \in 0..Len(b) /\ stream \in Streams(b, Len(b))
  BY <1>1, StreamOfCallFields
<1>3. PICK r \in {ParseRootHeader(stream)} :
         IF r.ok
         THEN /\ number_streams' = r.v
              /\ stream' = r.s
              /\ Goto("streams")
              /\ UNCHANGED <<dll, file, have, calls, stream_headers_, heap_sizes,
                             rows, tables, document_indices_, parsed>>
         ELSE GiveUp(r.s)
  BY DEF ReadRootHeader
<1>4. r = ParseRootHeader(stream)
  BY <1>3
<1>5. Kept(r, b, Len(b)) /\ (r.ok => r.v \in Nat)
  <2> HIDE DEF b
  <2> QED
    BY <1>2, <1>4, RootHeaderKeeps
<1>6. StreamOfCall(r.s, TRUE)
  BY <1>2, <1>5, StreamAfterRead DEF Kept
<1>7. CASE r.ok
  <2>1. StreamOfCall(stream, pc # "tables")'
    BY <1>3, <1>6, <1>7 DEF StreamOfCall
  <2>2. Rest'
    BY <1>3, <1>5, <1>7 DEF Goto, Rest, TablesRead, Labels
  <2>3. Place'
    BY <1>3, <1>7 DEF Goto, Place
  <2> QED
    BY <2>1, <2>2, <2>3, NextParts
<1>8. CASE ~r.ok
  BY <1>3, <1>6, <1>8, GivesUp
<1> QED
  BY <1>7, <1>8

LEMMA ReadStreamHeaderKeeps ==
    ASSUME StreamOfCall(stream, pc # "tables"), Rest, Place, ReadStreamHeader
    PROVE  PdbInv'
<1> DEFINE b == stream.b
<1>1. pc = "streams"
  BY DEF ReadStreamHeader
<1>2. b \in Seq(Byte) /\ Len(b) \in 0..Len(b) /\ stream \in Streams(b, Len(b))
  BY <1>1, StreamOfCallFields
<1>3. PICK r \in {ParseStreamHeader(stream)} :
         IF r.ok
         THEN /\ stream_headers_' = Append(stream_headers_, r.v)
              /\ stream' = r.s
              /\ turn' = turn + 1
              /\ UNCHANGED <<dll, file, have, pc, calls, number_streams, heap_sizes,
                             rows, tables, document_indices_, parsed>>
         ELSE GiveUp(r.s)
  BY DEF ReadStreamHeader
<1>4. r = ParseStreamHeader(stream)
  BY <1>3
<1>5. Kept(r, b, Len(b)) /\ (r.ok => r.v \in StreamHeader)
  <2> HIDE DEF b
  <2> QED
    BY <1>2, <1>4, StreamHeaderKeeps
<1>6. StreamOfCall(r.s, TRUE)
  BY <1>2, <1>5, StreamAfterRead DEF Kept
<1>7. CASE r.ok
  <2>1. StreamOfCall(stream, pc # "tables")'
    BY <1>3, <1>6, <1>7 DEF StreamOfCall
  <2>2. stream_headers_' \in Seq(StreamHeader)
    <3>1. stream_headers_ \in Seq(StreamHeader)
      BY DEF Rest
    <3>2. Append(stream_headers_, r.v) \in Seq(StreamHeader)
      BY <1>5, <1>7, <3>1, AppendProperties
    <3> QED
      BY <1>3, <1>7, <3>2, Zenon
  <2>3. UNCHANGED <<dll, file, have, pc, calls, number_streams, heap_sizes,
                    rows, tables, parsed>> /\ turn' = turn + 1
    BY <1>3, <1>7
  <2>4. Rest'
    BY <2>2, <2>3 DEF Rest, TablesRead, Labels
  <2>5. Place'
    BY <1>1, <2>3 DEF Place
  <2> QED
    BY <2>1, <2>4, <2>5, NextParts
<1>8. CASE ~r.ok
  BY <1>3, <1>6, <1>8, GivesUp
<1> QED
  BY <1>7, <1>8

LEMMA InitializeHeapsKeeps ==
    ASSUME StreamOfCall(stream, pc # "tables"), Rest, Place, InitializeHeaps
    PROVE  PdbInv'
<1> DEFINE Found == \A heap \in {"Strings", "Blob", "GUID"} :
                        StreamsNamed(StreamNames[heap]) # {}
<1>1. pc = "streams"
  BY DEF InitializeHeaps
<1>2. CASE Found
  <2>1. /\ Goto("header")
        /\ UNCHANGED <<dll, file, have, calls, stream, number_streams, stream_headers_,
                       heap_sizes, rows, tables, parsed>>
    BY <1>2 DEF InitializeHeaps
  <2>2. StreamOfCall(stream, pc # "tables")'
    BY <1>1, <2>1 DEF StreamOfCall
  <2>3. Rest'
    BY <2>1 DEF Goto, Rest, TablesRead, Labels
  <2>4. HeapsFound
    BY <1>2 DEF HeapsFound, Rest
  <2>5. Place'
    BY <2>1, <2>4 DEF Goto, Place, HeapsFound, StreamsNamed
  <2> QED
    BY <2>2, <2>3, <2>5, NextParts
<1>3. CASE ~Found
  <2>1. GiveUp(stream)
    BY <1>3 DEF InitializeHeaps
  <2>2. StreamOfCall(stream, TRUE)
    BY <1>1 DEF StreamOfCall
  <2> QED
    BY <2>1, <2>2, GivesUp
<1> QED
  BY <1>2, <1>3

LEMMA ReadTableHeaderKeeps ==
    ASSUME StreamOfCall(stream, pc # "tables"), Rest, Place, ReadTableHeader
    PROVE  PdbInv'
<1> DEFINE b == stream.b
           window == EnterStream(StreamNames.Tables)
           r == ParseTableHeader(window.s)
           Good == window.ok /\ r.ok /\ OnlyPdbTables(r.v.rows)
<1>1. pc = "header" /\ HeapsFound
  BY DEF ReadTableHeader, Place
<1>2. /\ b \in Seq(Byte) /\ Len(b) \in Nat /\ Len(b) \in 0..Len(b)
      /\ stream \in Streams(b, Len(b))
  BY <1>1, StreamOfCallFields
<1>3. PICK e \in 0..Len(b) : window.s \in Streams(b, e)
  BY <1>1, <1>2, EnterStreamKeeps DEF HeapsFound
<1>4. CASE Good
  <2>1. /\ heap_sizes' = r.v.heap_sizes /\ rows' = r.v.rows /\ stream' = r.s
        /\ Goto("tables")
        /\ UNCHANGED <<dll, file, have, calls, number_streams, stream_headers_, tables,
                       parsed>>
    BY <1>4 DEF ReadTableHeader
  <2>2. Kept(r, b, e) /\ r.v.heap_sizes \in Byte /\ RowCounts(r.v.rows)
    <3> HIDE DEF b, window
    <3> QED
      BY <1>2, <1>3, <1>4, TableHeaderKeeps
  <2> HIDE DEF r
  <2>3. StreamOfCall(r.s, FALSE)
    BY <1>2, <1>3, <2>2, StreamAfterRead DEF Kept
  <2>4. StreamOfCall(stream, pc # "tables")'
    BY <2>1, <2>3 DEF StreamOfCall, Goto
  <2>5. Rest'
    BY <2>1, <2>2 DEF Goto, Rest, TablesRead, Labels, RowCounts
  <2>6. Len(TableNames) = 5
    BY DEF TableNames
  <2>7. Place'
    BY <1>1, <2>1, <2>6 DEF Goto, Place, HeapsFound, StreamsNamed
  <2> QED
    BY <2>4, <2>5, <2>7, NextParts
<1>5. CASE ~Good
  <2>1. GiveUp(ResetStreamLength(window.s))
    BY <1>5 DEF ReadTableHeader
  <2>2. ResetStreamLength(window.s) \in Streams(b, Len(b))
    BY <1>2, <1>3, ResetEndsAtFile
  <2>3. StreamOfCall(ResetStreamLength(window.s), TRUE)
    BY <1>2, <2>2, StreamAfterRead
  <2> QED
    BY <2>1, <2>3, GivesUp
<1> QED
  BY <1>4, <1>5

LEMMA ParsePortablePdbStreamKeeps ==
    ASSUME StreamOfCall(stream, pc # "tables"), Rest, Place, ParsePortablePdbStream
    PROVE  PdbInv'
<1> DEFINE b == stream.b
           window == EnterStream(StreamNames.Pdb)
           r == ParsePdbMetadataHeader(window.s)
<1>1. pc = "pdb" /\ HeapsFound
  BY DEF ParsePortablePdbStream, Place
<1>2. /\ b \in Seq(Byte) /\ Len(b) \in Nat /\ Len(b) \in 0..Len(b)
      /\ stream \in Streams(b, Len(b))
  BY <1>1, StreamOfCallFields
<1>3. PICK e \in 0..Len(b) : window.s \in Streams(b, e)
  BY <1>1, <1>2, EnterStreamKeeps DEF HeapsFound
<1>4. CASE window.ok /\ r.ok
  <2>1. /\ stream' = ResetStreamLength(r.s)
        /\ Goto("documents")
        /\ UNCHANGED <<dll, file, have, calls, number_streams, stream_headers_,
                       heap_sizes, rows, tables, parsed>>
    BY <1>4 DEF ParsePortablePdbStream
  <2>2. Kept(r, b, e)
    <3> HIDE DEF b, window
    <3> QED
      BY <1>2, <1>3, PdbMetadataHeaderKeeps
  <2> HIDE DEF r
  <2>3. ResetStreamLength(r.s) \in Streams(b, Len(b))
    BY <1>2, <2>2, ResetEndsAtFile DEF Kept
  <2>4. StreamOfCall(ResetStreamLength(r.s), TRUE)
    BY <1>2, <2>3, StreamAfterRead
  <2>5. StreamOfCall(stream, pc # "tables")'
    BY <2>1, <2>4 DEF StreamOfCall
  <2>6. Rest'
    BY <2>1 DEF Goto, Rest, TablesRead, Labels
  <2>7. Place'
    BY <1>1, <2>1 DEF Goto, Place, HeapsFound, StreamsNamed
  <2> QED
    BY <2>5, <2>6, <2>7, NextParts
<1>5. CASE ~(window.ok /\ r.ok)
  <2>1. GiveUp(ResetStreamLength(window.s))
    BY <1>5 DEF ParsePortablePdbStream
  <2>2. ResetStreamLength(window.s) \in Streams(b, Len(b))
    BY <1>2, <1>3, ResetEndsAtFile
  <2>3. StreamOfCall(ResetStreamLength(window.s), TRUE)
    BY <1>2, <2>2, StreamAfterRead
  <2> QED
    BY <2>1, <2>3, GivesUp
<1> QED
  BY <1>4, <1>5

LEMMA ReadTableKeeps ==
    ASSUME StreamOfCall(stream, pc # "tables"), Rest, Place, ReadTable
    PROVE  PdbInv'
<1> DEFINE b == stream.b
           e == stream.end
           table == TableNames[turn]
           header == [heap_sizes |-> heap_sizes, rows |-> rows]
<1>1. pc = "tables" /\ HeapsFound /\ turn \in 1..5
  <2>1. Len(TableNames) = 5
    BY DEF TableNames
  <2> QED
    BY <2>1 DEF ReadTable, Place
<1>2. /\ b \in Seq(Byte) /\ Len(b) \in Nat /\ e \in 0..Len(b)
      /\ stream \in Streams(b, e)
  BY <1>1, StreamOfCallFields
<1>3. table \in Range(TableNames) /\ Len(TableNames) = 5
  BY <1>1 DEF Range, TableNames
<1>4. PICK r \in {ParseMetadataTableRow(stream, table, header)} :
         IF r.ok
         THEN /\ tables' = [tables EXCEPT ![table] = r.v]
              /\ IF turn < Len(TableNames)
                 THEN stream' = r.s /\ turn' = turn + 1 /\ pc' = pc
                 ELSE stream' = ResetStreamLength(r.s) /\ Goto("pdb")
              /\ UNCHANGED <<dll, file, have, calls, number_streams,
                             stream_headers_, heap_sizes, rows, document_indices_,
                             parsed>>
         ELSE GiveUp(ResetStreamLength(r.s))
  BY DEF ReadTable
<1> HIDE DEF table
<1>5. RowCounts(header.rows)
  BY DEF Rest, RowCounts
<1>6. RowsRead(r, table, b, e)
  <2>1. r = ParseMetadataTableRow(stream, table, header)
    BY <1>4
  <2> HIDE DEF b, e, header
  <2> QED
    BY <1>2, <1>3, <1>5, <2>1, TableKeeps
<1>7. r.s \in Streams(b, e) /\ ResetStreamLength(r.s) \in Streams(b, Len(b))
  <2>1. r.s \in Streams(b, e)
    BY <1>6 DEF RowsRead, Kept
  <2> QED
    BY <1>2, <2>1, ResetEndsAtFile
<1>8. StreamOfCall(r.s, FALSE) /\ StreamOfCall(ResetStreamLength(r.s), TRUE)
  <2>1. Len(b) \in 0..Len(b)
    BY <1>2
  <2> QED
    BY <1>2, <1>7, <2>1, StreamAfterRead
<1>9. CASE r.ok
  <2>1. UNCHANGED <<dll, file, have, calls, number_streams, stream_headers_, heap_sizes,
                    rows, parsed>>
    BY <1>4, <1>9
  <2>2. tables' = [tables EXCEPT ![table] = r.v]
    BY <1>4, <1>9
  <2>3. DOMAIN tables = Range(TableNames) /\ TablesRead
    BY DEF Rest
  <2>4. TablesRead'
    <3>1. /\ tables'.Document = IF table = "Document" THEN r.v ELSE tables.Document
          /\ tables'.MethodDebugInformation = IF table = "MethodDebugInformation"
                                              THEN r.v ELSE tables.MethodDebugInformation
      <4>1. "Document" \in DOMAIN tables /\ "MethodDebugInformation" \in DOMAIN tables
        BY <2>3 DEF Range, TableNames
      <4> QED
        BY <2>2, <4>1
    <3>2. /\ table = "Document" => r.v \in Seq(DocumentRow)
          /\ table = "MethodDebugInformation" => r.v \in Seq(MethodDebugInformationRow)
      BY <1>6, <1>9 DEF RowsRead
    <3>3. tables'.Document \in Seq(DocumentRow)
      BY <2>3, <3>1, <3>2, Zenon DEF TablesRead
    <3>4. tables'.MethodDebugInformation \in Seq(MethodDebugInformationRow)
      BY <2>3, <3>1, <3>2, Zenon DEF TablesRead
    <3> QED
      BY <3>3, <3>4 DEF TablesRead
  <2>5. DOMAIN tables' = Range(TableNames)
    BY <2>2, <2>3
  <2>6. CASE turn < 5
    <3>1. stream' = r.s /\ turn' = turn + 1 /\ pc' = pc
      BY <1>3, <1>4, <1>9, <2>6
    <3>2. StreamOfCall(stream, pc # "tables")'
      BY <1>1, <1>8, <2>1, <3>1 DEF StreamOfCall
    <3>3. Rest'
      BY <2>1, <2>4, <2>5, <3>1 DEF Rest
    <3>4. Place'
      BY <1>1, <1>3, <2>1, <2>6, <3>1 DEF Place, HeapsFound, StreamsNamed
    <3> QED
      BY <3>2, <3>3, <3>4, NextParts
  <2>7. CASE ~(turn < 5)
    <3>1. stream' = ResetStreamLength(r.s) /\ turn' = 1 /\ pc' = "pdb"
      BY <1>3, <1>4, <1>9, <2>7 DEF Goto
    <3>2. StreamOfCall(stream, pc # "tables")'
      BY <1>8, <2>1, <3>1 DEF StreamOfCall
    <3>3. Rest'
      BY <2>1, <2>4, <2>5, <3>1 DEF Rest, Labels
    <3>4. Place'
      BY <1>1, <2>1, <3>1 DEF Place, HeapsFound, StreamsNamed
    <3> QED
      BY <3>2, <3>3, <3>4, NextParts
  <2> QED
    BY <2>6, <2>7
<1>10. CASE ~r.ok
  BY <1>4, <1>8, <1>10, GivesUp
<1> QED
  BY <1>9, <1>10

LEMMA ReadDocumentKeeps ==
    ASSUME StreamOfCall(stream, pc # "tables"), Rest, Place, ReadDocument
    PROVE  PdbInv'
<1> DEFINE b == stream.b
<1>1. pc = "documents" /\ HeapsFound /\ TablesRead /\ turn \in 1..Len(tables.Document)
  <2>1. TablesRead
    BY DEF Rest
  <2>2. Len(tables.Document) \in Nat
    BY <2>1, LenProperties DEF TablesRead
  <2> QED
    BY <2>1, <2>2 DEF ReadDocument, Place
<1>2. b \in Seq(Byte) /\ Len(b) \in 0..Len(b) /\ stream \in Streams(b, Len(b))
  BY <1>1, StreamOfCallFields
<1>3. PICK r \in {InitializeDocument(stream, turn)} :
         IF r.ok
         THEN /\ document_indices_' = Append(document_indices_, r.v)
              /\ stream' = r.s
              /\ turn' = turn + 1
              /\ UNCHANGED <<dll, file, have, pc, calls, number_streams,
                             stream_headers_, heap_sizes, rows, tables, parsed>>
         ELSE GiveUp(r.s)
  BY DEF ReadDocument
<1>4. r = InitializeDocument(stream, turn)
  BY <1>3
<1>5. Kept(r, b, Len(b))
  <2> HIDE DEF b
  <2> QED
    BY <1>1, <1>2, <1>4, DocumentKeeps
<1>6. StreamOfCall(r.s, TRUE)
  BY <1>2, <1>5, StreamAfterRead DEF Kept
<1>7. CASE r.ok
  <2>1. /\ stream' = r.s /\ turn' = turn + 1
        /\ UNCHANGED <<dll, file, have, pc, calls, number_streams, stream_headers_,
                       heap_sizes, rows, tables, parsed>>
    BY <1>3, <1>7
  <2>2. StreamOfCall(stream, pc # "tables")'
    BY <1>6, <2>1 DEF StreamOfCall
  <2>3. Rest'
    BY <2>1 DEF Rest, TablesRead
  <2>4. Place'
    BY <1>1, <2>1 DEF Place, HeapsFound, StreamsNamed
  <2> QED
    BY <2>2, <2>3, <2>4, NextParts
<1>8. CASE ~r.ok
  BY <1>3, <1>6, <1>8, GivesUp
<1> QED
  BY <1>7, <1>8

LEMMA ParsedKeeps ==
    ASSUME StreamOfCall(stream, pc # "tables"), Rest, Place, Parsed
    PROVE  PdbInv'
<1>1. StreamOfCall(stream, pc # "tables")'
  BY DEF Parsed, Goto, StreamOfCall
<1>2. Rest'
  BY DEF Parsed, Goto, Rest, TablesRead, Labels
<1>3. Place'
  BY DEF Parsed, Goto, Place
<1> QED
  BY <1>1, <1>2, <1>3, NextParts

\* ParsePdbFile computes every position it reads at from numbers it has read
\* before, and finds the heaps before it refers to them, whatever bytes the file
\* holds and wherever it is cut off.
THEOREM PdbCorrect == Spec => []PdbInv
<1>1. Init => PdbInv
  BY InitEstablishesPdbInv
<1>2. PdbInv /\ [Next]_vars => PdbInv'
  <2> SUFFICES ASSUME PdbInv, [Next]_vars PROVE PdbInv'
    OBVIOUS
  <2>1. StreamOfCall(stream, pc # "tables") /\ Rest /\ Place
    BY PartsOfPdbInv
  <2>2. CASE ConsumeFile
    BY <2>1, <2>2, ConsumeFileKeeps
  <2>3. CASE ConsumeNothing
    BY <2>1, <2>3, ConsumeNothingKeeps
  <2>4. CASE ReadRootHeader
    BY <2>1, <2>4, ReadRootHeaderKeeps
  <2>5. CASE ReadStreamHeader
    BY <2>1, <2>5, ReadStreamHeaderKeeps
  <2>6. CASE InitializeHeaps
    BY <2>1, <2>6, InitializeHeapsKeeps
  <2>7. CASE ReadTableHeader
    BY <2>1, <2>7, ReadTableHeaderKeeps
  <2>8. CASE ReadTable
    BY <2>1, <2>8, ReadTableKeeps
  <2>9. CASE ParsePortablePdbStream
    BY <2>1, <2>9, ParsePortablePdbStreamKeeps
  <2>10. CASE ReadDocument
    BY <2>1, <2>10, ReadDocumentKeeps
  <2>11. CASE Parsed
    BY <2>1, <2>11, ParsedKeeps
  <2>12. CASE FileCompleted
    BY <2>1, <2>12, FileCompletedKeeps
  <2>13. CASE UNCHANGED vars
    <3>1. StreamOfCall(stream, pc # "tables")'
      BY <2>1, <2>13 DEF vars, StreamOfCall
    <3>2. Rest'
      BY <2>1, <2>13 DEF vars, Rest, TablesRead
    <3>3. Place'
      BY <2>1, <2>13 DEF vars, Place, HeapsFound, StreamsNamed
    <3> QED
      BY <3>1, <3>2, <3>3, NextParts
  <2> QED
    BY <2>2, <2>3, <2>4, <2>5, <2>6, <2>7, <2>8, <2>9, <2>10, <2>11, <2>12, <2>13
    DEF Next, ParsePdbFile
<1> QED
  BY <1>1, <1>2, PTL DEF Spec

\* The types of PortablePdbFile, and no limit beyond the bytes of the file.
THEOREM TypeCorrect == Spec => []TypeOK
<1>1. PdbInv => TypeOK
  BY DEF PdbInv
<1> QED
  BY <1>1, PdbCorrect, PTL

\* Whatever part of a file cannot be read, the length of the stream has been reset
\* when ParsePdbFile goes on or returns.
THEOREM NoLimitIsEverLeft == Spec => []NoLimitIsLeft
<1>1. PdbInv => NoLimitIsLeft
  BY DEF PdbInv
<1> QED
  BY <1>1, PdbCorrect, PTL
=============================================================================
