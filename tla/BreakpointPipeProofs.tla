------------------------- MODULE BreakpointPipeProofs -------------------------
(***************************************************************************)
(* Proofs about BreakpointPipe, for every set of messages of any length    *)
(* and every size of the two buffers: what is in the pipe and the buffers, *)
(* and that messages arrive in order and whole however the bytes are cut   *)
(* into pieces.                                                            *)
(***************************************************************************)
EXTENDS BreakpointPipe, SequenceTheorems, WellFoundedInduction, TLAPS

\* A part of a sequence is a sequence over the same set, whatever the bounds are
\* that the code computes.
LEMMA PartOf ==
    ASSUME NEW S, NEW s \in Seq(S), NEW m \in Nat \ {0}, NEW n \in 0..Len(s)
    PROVE  SubSeq(s, m, n) \in Seq(S)
<1>1. \A i \in m..n : s[i] \in S
  BY ElementOfSeq
<1> QED
  BY <1>1, SubSeqProperties

\* What WriteBreakpoint writes are bytes of the pipe.
LEMMA FrameType ==
    ASSUME NEW m \in Messages
    PROVE  Start \o Body(m) \o End \in Seq(Tokens)
<1>1. Start \in Seq(Tokens) /\ End \in Seq(Tokens)
  BY DEF Start, End, Tokens
<1>2. Body(m) \in Seq(Tokens)
  <2>1. BodyLen[m] \in Nat
    BY BodyLenAssumption
  <2>2. \A i \in 1..BodyLen[m] : <<"B", m, i>> \in Tokens
    BY DEF Tokens
  <2> QED
    BY <2>1, <2>2 DEF Body
<1> QED
  BY <1>1, <1>2

\* What Find returns: the first place of the marker, 0 if there is none.
LEMMA FindMeaning ==
    ASSUME NEW s \in Seq(Tokens), NEW marker
    PROVE  /\ Find(s, marker) = 0 <=>
                 \A i \in 1..(Len(s) - 1) : SubSeq(s, i, i + 1) # marker
           /\ Find(s, marker) # 0 =>
                 /\ Find(s, marker) \in 1..(Len(s) - 1)
                 /\ SubSeq(s, Find(s, marker), Find(s, marker) + 1) = marker
                 /\ \A i \in 1..(Len(s) - 1) :
                       SubSeq(s, i, i + 1) = marker => Find(s, marker) <= i
<1> DEFINE At == {i \in 1..(Len(s) - 1) : SubSeq(s, i, i + 1) = marker}
<1>1. Find(s, marker) = IF At = {} THEN 0 ELSE CHOOSE i \in At : \A j \in At : i <= j
  BY DEF Find
<1>2. Len(s) \in Nat
  OBVIOUS
<1>3. CASE At = {}
  BY <1>1, <1>2, <1>3
<1>4. CASE At # {}
  <2>1. \E i \in At : \A j \in At : i <= j
    <3>1. At \subseteq Nat
      BY <1>2
    <3> HIDE DEF At
    <3>2. PICK i \in At : \A j \in At : <<j, i>> \notin OpToRel(<, Nat)
      BY <1>4, <3>1, NatLessThanWellFounded, WFMin
    <3>3. \A j \in At : j \in Nat /\ ~(j < i)
      BY <3>1, <3>2 DEF OpToRel
    <3> QED
      BY <3>1, <3>3
  <2> DEFINE f == CHOOSE i \in At : \A j \in At : i <= j
  <2>2. f \in At /\ \A j \in At : f <= j
    <3> HIDE DEF At
    <3> QED
      BY <2>1
  <2>3. Find(s, marker) = f
    BY <1>1, <1>4
  <2> HIDE DEF f
  <2>4. f # 0 /\ f \in 1..(Len(s) - 1) /\ SubSeq(s, f, f + 1) = marker
    BY <1>2, <2>2
  <2> QED
    BY <2>2, <2>3, <2>4
<1> QED
  BY <1>3, <1>4

\* Find gives a position of the sequence, or 0.
LEMMA FindType ==
    ASSUME NEW s \in Seq(Tokens), NEW marker
    PROVE  Find(s, marker) \in 0..Len(s)
<1> DEFINE f == Find(s, marker)
<1>1. f = 0 \/ f \in 1..(Len(s) - 1)
  BY FindMeaning
<1> HIDE DEF f
<1>2. f \in 0..Len(s)
  BY <1>1, LenProperties
<1> QED
  BY <1>2 DEF f

-----------------------------------------------------------------------------
\* Only bytes of markers, of messages and of padding are ever in the pipe and in
\* the buffers: no bound that Read, Write or ReadBreakpoint computes from the
\* position of a marker reaches past what a buffer holds.
THEOREM TypeCorrect == Spec => []TypeOK
<1> USE SizesAssumption DEF TypeOK
<1>1. Init => TypeOK
  BY DEF Init
<1>2. TypeOK /\ [Next]_vars => TypeOK'
  <2> SUFFICES ASSUME TypeOK, [Next]_vars PROVE TypeOK'
    OBVIOUS
  <2> USE DEF writerVars, readerVars
  <2>1. ASSUME NEW m \in Messages, WriteBreakpoint(m) PROVE TypeOK'
    <3>1. rest' \in Seq(Tokens) /\ sent' \in Seq(Messages)
      BY <2>1, FrameType DEF WriteBreakpoint
    <3> QED
      BY <2>1, <3>1 DEF WriteBreakpoint
  <2>2. CASE Write
    <3>1. PICK n \in 1..SendSize :
              /\ n <= Len(rest)
              /\ wire' = wire \o SubSeq(rest, 1, n)
              /\ rest' = SubSeq(rest, n + 1, Len(rest))
      BY <2>2 DEF Write
    <3>2. n \in 0..Len(rest) /\ n + 1 \in Nat \ {0} /\ Len(rest) \in 0..Len(rest)
      BY <3>1
    <3>3. /\ SubSeq(rest, 1, n) \in Seq(Tokens)
          /\ SubSeq(rest, n + 1, Len(rest)) \in Seq(Tokens)
      BY <3>2, PartOf
    <3>4. rest' \in Seq(Tokens) /\ wire' \in Seq(Tokens)
      BY <3>1, <3>3
    <3> QED
      BY <2>2, <3>4 DEF Write
  <2>3. CASE Cut
    <3>1. open' \in BOOLEAN
      BY <2>3 DEF Cut
    <3> QED
      BY <2>3, <3>1 DEF Cut
  <2>4. CASE ReadBreakpoint
    BY <2>4 DEF ReadBreakpoint
  <2>5. CASE Read
    <3>1. PICK n \in 1..RecvSize :
              /\ n <= Len(wire)
              /\ work' = work \o SubSeq(wire, 1, n)
              /\ wire' = SubSeq(wire, n + 1, Len(wire))
      BY <2>5 DEF Read
    <3>2. n \in 0..Len(wire) /\ n + 1 \in Nat \ {0} /\ Len(wire) \in 0..Len(wire)
      BY <3>1
    <3>3. /\ SubSeq(wire, 1, n) \in Seq(Tokens)
          /\ SubSeq(wire, n + 1, Len(wire)) \in Seq(Tokens)
      BY <3>2, PartOf
    <3>4. work' \in Seq(Tokens) /\ wire' \in Seq(Tokens)
      BY <3>1, <3>3
    <3> QED
      BY <2>5, <3>4 DEF Read
  <2>6. CASE ReadEndOfStream
    <3>1. Zero \in Tokens
      BY DEF Tokens
    <3>2. work' \in {work, Append(work, Zero)} /\ reader' \in {reader, "failed"}
      BY <2>6 DEF ReadEndOfStream
    <3>3. Append(work, Zero) \in Seq(Tokens)
      BY <3>1, AppendProperties
    <3>4. work' \in Seq(Tokens)
      BY <3>2, <3>3
    <3> QED
      BY <2>6, <3>2, <3>4 DEF ReadEndOfStream
  <2>7. CASE TakeMessage
    <3>1. Find(work, End) + 2 \in Nat \ {0} /\ Len(work) \in 0..Len(work)
      BY FindType
    <3>2. buffer' \in Seq(Tokens) /\ work' \in Seq(Tokens)
      BY <2>7, <3>1, PartOf DEF TakeMessage
    <3>3. /\ reader' \in {"idle", "failed"}
          /\ got' = got \/ \E m \in Messages : got' = Append(got, m)
      BY <2>7 DEF TakeMessage
    <3>4. \A m \in Messages : Append(got, m) \in Seq(Messages)
      BY AppendProperties
    <3>5. got' \in Seq(Messages)
      BY <3>3, <3>4
    <3> QED
      BY <2>7, <3>2, <3>3, <3>5 DEF TakeMessage
  <2>8. CASE UNCHANGED vars
    BY <2>8 DEF vars
  <2> QED
    BY <2>1, <2>2, <2>3, <2>4, <2>5, <2>6, <2>7, <2>8 DEF Next, Reader
<1> QED
  BY <1>1, <1>2, PTL DEF Spec

-----------------------------------------------------------------------------
(* Messages in a stream of bytes.                                          *)

\* Two neighbouring bytes are a marker when they are its two bytes.
LEMMA MarkerAt ==
    ASSUME NEW s \in Seq(Tokens), NEW i \in 1..(Len(s) - 1),
           NEW a \in Tokens, NEW b \in Tokens
    PROVE  SubSeq(s, i, i + 1) = <<a, b>> <=> s[i] = a /\ s[i + 1] = b
<1>1. Len(s) \in Nat /\ i \in Int /\ i + 1 \in Int /\ \A k \in i..(i + 1) : s[k] \in Tokens
  OBVIOUS
<1> DEFINE t == SubSeq(s, i, i + 1)
<1>2. /\ t \in Seq(Tokens) /\ Len(t) = 2
      /\ \A k \in 1..2 : t[k] = s[i + k - 1]
  <2>1. /\ t \in Seq(Tokens)
        /\ Len(t) = IF i <= i + 1 THEN (i + 1) - i + 1 ELSE 0
        /\ \A k \in 1..((i + 1) - i + 1) : t[k] = s[i + k - 1]
    BY ONLY <1>1, SubSeqProperties
  <2>2. i <= i + 1 /\ (i + 1) - i + 1 = 2
    BY <1>1
  <2> HIDE DEF t
  <2> QED
    BY ONLY <2>1, <2>2
<1>3. t[1] = s[i] /\ t[2] = s[i + 1]
  BY <1>1, <1>2
<1> DEFINE c == <<a, b>>
<1>4. c \in Seq(Tokens) /\ Len(c) = 2 /\ c[1] = a /\ c[2] = b
  OBVIOUS
<1> HIDE DEF t, c
<1>5. t[1] = c[1] /\ t[2] = c[2] => t = c
  BY <1>2, <1>4, SeqEqual
<1>6. t = c <=> s[i] = a /\ s[i + 1] = b
  BY <1>3, <1>4, <1>5
<1> QED
  BY <1>6 DEF t, c

\* The bytes of a body.
LEMMA BodyBytes ==
    ASSUME NEW m \in Messages
    PROVE  /\ BodyLen[m] \in Nat
           /\ Body(m) \in Seq(Tokens) /\ Len(Body(m)) = BodyLen[m]
           /\ \A i \in 1..BodyLen[m] : Body(m)[i] = <<"B", m, i>>
<1>1. BodyLen[m] \in Nat
  BY BodyLenAssumption
<1>2. \A i \in 1..BodyLen[m] : <<"B", m, i>> \in Tokens
  BY DEF Tokens
<1> QED
  BY <1>1, <1>2 DEF Body

\* The bytes of a message with its markers, one by one.
LEMMA FrameBytes ==
    ASSUME NEW m \in Messages
    PROVE  /\ Frame(m) \in Seq(Tokens) /\ BodyLen[m] \in Nat
           /\ Len(Frame(m)) = BodyLen[m] + 4
           /\ Frame(m)[1] = <<"S", 0, 1>> /\ Frame(m)[2] = <<"S", 0, 2>>
           /\ \A i \in 1..BodyLen[m] : Frame(m)[i + 2] = <<"B", m, i>>
           /\ Frame(m)[BodyLen[m] + 3] = <<"E", 0, 1>>
           /\ Frame(m)[BodyLen[m] + 4] = <<"E", 0, 2>>
<1>1. Frame(m) \in Seq(Tokens) /\ BodyLen[m] \in Nat
  BY FrameType, BodyLenAssumption DEF Frame
<1>2. /\ Body(m) \in Seq(Tokens) /\ Len(Body(m)) = BodyLen[m]
      /\ \A i \in 1..BodyLen[m] : Body(m)[i] = <<"B", m, i>>
  BY BodyBytes
<1>3. /\ Start \in Seq(Tokens) /\ Len(Start) = 2
      /\ Start[1] = <<"S", 0, 1>> /\ Start[2] = <<"S", 0, 2>>
      /\ End \in Seq(Tokens) /\ Len(End) = 2
      /\ End[1] = <<"E", 0, 1>> /\ End[2] = <<"E", 0, 2>>
  BY DEF Start, End, Tokens
<1> DEFINE b == Body(m)
           u == Start \o b
           n == BodyLen[m]
<1> HIDE DEF b, n
<1>4. b \in Seq(Tokens) /\ Len(b) = n /\ n \in Nat
  BY <1>1, <1>2 DEF b, n
<1>5. /\ u \in Seq(Tokens) /\ Len(u) = Len(Start) + Len(b)
      /\ \A i \in 1..(Len(Start) + Len(b)) :
            u[i] = IF i <= Len(Start) THEN Start[i] ELSE b[i - Len(Start)]
  BY ONLY <1>3, <1>4, ConcatProperties
<1> HIDE DEF u
<1>6. Frame(m) = u \o End
  BY DEF Frame, u, b
<1>7. /\ Len(Frame(m)) = Len(u) + Len(End)
      /\ \A i \in 1..(Len(u) + Len(End)) :
            Frame(m)[i] = IF i <= Len(u) THEN u[i] ELSE End[i - Len(u)]
  <2>1. u \in Seq(Tokens) /\ End \in Seq(Tokens)
    BY <1>3, <1>5
  <2>2. /\ Len(u \o End) = Len(u) + Len(End)
        /\ \A i \in 1..(Len(u) + Len(End)) :
              (u \o End)[i] = IF i <= Len(u) THEN u[i] ELSE End[i - Len(u)]
    BY ONLY <2>1, ConcatProperties
  <2> QED
    BY ONLY <1>6, <2>2
<1>8. Len(u) = n + 2 /\ Len(Frame(m)) = n + 4
  BY <1>3, <1>4, <1>5, <1>7
<1>9. ASSUME NEW i \in 1..n PROVE Frame(m)[i + 2] = b[i]
  <2>1. i \in Nat /\ i >= 1 /\ i <= n
    BY <1>4
  <2>2. u[i + 2] = b[(i + 2) - 2]
    BY <1>3, <1>4, <1>5, <2>1
  <2>3. Frame(m)[i + 2] = u[i + 2]
    BY <1>3, <1>4, <1>7, <1>8, <2>1
  <2> QED
    BY <2>1, <2>2, <2>3
<1>10. Frame(m)[1] = Start[1] /\ Frame(m)[2] = Start[2]
  <2>1. /\ 1 \in 1..(Len(u) + Len(End)) /\ 2 \in 1..(Len(u) + Len(End))
        /\ 1 \in 1..(Len(Start) + Len(b)) /\ 2 \in 1..(Len(Start) + Len(b))
        /\ 1 <= Len(u) /\ 2 <= Len(u) /\ 1 <= Len(Start) /\ 2 <= Len(Start)
    BY <1>3, <1>4, <1>8
  <2>2. Frame(m)[1] = u[1] /\ Frame(m)[2] = u[2]
    BY ONLY <1>7, <2>1
  <2>3. u[1] = Start[1] /\ u[2] = Start[2]
    BY ONLY <1>5, <2>1
  <2> QED
    BY <2>2, <2>3
<1>11. Frame(m)[n + 3] = End[1] /\ Frame(m)[n + 4] = End[2]
  <2>1. /\ n + 3 \in 1..(Len(u) + Len(End)) /\ n + 4 \in 1..(Len(u) + Len(End))
        /\ ~(n + 3 <= Len(u)) /\ ~(n + 4 <= Len(u))
        /\ (n + 3) - Len(u) = 1 /\ (n + 4) - Len(u) = 2
    BY <1>3, <1>4, <1>8
  <2> QED
    BY ONLY <1>7, <2>1
<1> QED
  BY <1>1, <1>2, <1>3, <1>8, <1>9, <1>10, <1>11 DEF b, n

\* The body tells which message it is.
LEMMA BodyInjective ==
    ASSUME NEW m \in Messages, NEW k \in Messages, Body(m) = Body(k)
    PROVE  m = k
<1>1. BodyLen[m] \in Nat /\ BodyLen[k] \in Nat
  BY BodyLenAssumption
<1>2. Len(Body(m)) = BodyLen[m] /\ Len(Body(k)) = BodyLen[k]
  BY <1>1 DEF Body
<1>3. BodyLen[m] = BodyLen[k]
  BY <1>2
<1>4. CASE BodyLen[m] = 0
  BY <1>3, <1>4, BodiesAssumption
<1>5. CASE BodyLen[m] # 0
  <2>1. 1 \in 1..BodyLen[m] /\ 1 \in 1..BodyLen[k]
    BY <1>1, <1>3, <1>5
  <2>2. Body(m)[1] = <<"B", m, 1>> /\ Body(k)[1] = <<"B", k, 1>>
    BY <2>1 DEF Body
  <2> QED
    BY <2>2
<1> QED
  BY <1>4, <1>5

\* Another message is written behind the stream.
LEMMA StreamAppend ==
    ASSUME NEW s \in Seq(Tokens), NEW ms \in Seq(Messages), IsStream(s, ms),
           NEW m \in Messages
    PROVE  IsStream(s \o Frame(m), Append(ms, m))
<1> DEFINE f == Frame(m)
           t == s \o f
           ns == Append(ms, m)
           k == Len(ms)
<1>1. f \in Seq(Tokens) /\ Len(f) \in Nat /\ Len(s) \in Nat /\ k \in Nat
  BY FrameBytes
<1>2. /\ t \in Seq(Tokens) /\ Len(t) = Len(s) + Len(f)
      /\ \A i \in 1..(Len(s) + Len(f)) : t[i] = IF i <= Len(s) THEN s[i] ELSE f[i - Len(s)]
  BY <1>1, ConcatProperties
<1>3. /\ Len(ns) = k + 1 /\ ns[k + 1] = m
      /\ \A j \in 1..k : ns[j] = ms[j]
  BY AppendProperties
<1>4. PICK p \in [0..k -> 0..Len(s)] : Frames(s, ms, p)
  BY DEF IsStream
<1> DEFINE q == [j \in 0..(k + 1) |-> IF j <= k THEN p[j] ELSE Len(t)]
<1>5. \A j \in 0..k : p[j] \in Nat /\ p[j] <= Len(s)
  BY <1>1
<1>6. /\ p[0] = 0 /\ p[k] = Len(s)
      /\ \A i, j \in 0..k : i <= j => p[i] <= p[j]
      /\ \A j \in 1..k :
            /\ p[j] = p[j - 1] + Len(Frame(ms[j]))
            /\ \A i \in 1..Len(Frame(ms[j])) : s[p[j - 1] + i] = Frame(ms[j])[i]
  BY <1>4 DEF Frames
<1> HIDE DEF f, t, ns, k
<1>7. /\ \A j \in 0..k : q[j] = p[j]
      /\ q[k + 1] = Len(t)
      /\ q \in [0..(k + 1) -> 0..Len(t)]
  BY <1>1, <1>2, <1>5
<1> HIDE DEF q
<1>8. q[0] = 0 /\ q[Len(ns)] = Len(t)
  BY <1>1, <1>3, <1>6, <1>7
<1>9. ASSUME NEW i \in 0..(k + 1), NEW j \in 0..(k + 1), i <= j PROVE q[i] <= q[j]
  <2>1. CASE j \in 0..k
    BY <1>1, <1>6, <1>7, <1>9, <2>1
  <2>2. CASE j = k + 1
    BY <1>1, <1>2, <1>5, <1>7, <2>2
  <2> QED
    BY <1>1, <2>1, <2>2
<1>10. ASSUME NEW j \in 1..(k + 1)
       PROVE  /\ q[j] = q[j - 1] + Len(Frame(ns[j]))
              /\ \A i \in 1..Len(Frame(ns[j])) : t[q[j - 1] + i] = Frame(ns[j])[i]
  <2>1. CASE j \in 1..k
    <3>1. j - 1 \in 0..k /\ j \in 0..k /\ ns[j] = ms[j]
      BY <1>1, <1>3, <2>1
    <3>2. q[j] = p[j] /\ q[j - 1] = p[j - 1] /\ p[j - 1] \in Nat /\ p[j] <= Len(s)
      BY <1>5, <1>7, <3>1
    <3>3. p[j] = p[j - 1] + Len(Frame(ns[j]))
      BY <1>6, <2>1, <3>1
    <3>4. Len(Frame(ns[j])) \in Nat
      <4>1. ms[j] \in Messages
        BY <2>1 DEF k
      <4> QED
        BY <3>1, <4>1, FrameBytes
    <3>5. ASSUME NEW i \in 1..Len(Frame(ns[j])) PROVE t[q[j - 1] + i] = Frame(ns[j])[i]
      <4>1. p[j - 1] + i \in 1..Len(s)
        BY <1>1, <3>2, <3>3, <3>4
      <4>2. t[p[j - 1] + i] = s[p[j - 1] + i]
        BY <1>1, <1>2, <4>1
      <4>3. s[p[j - 1] + i] = Frame(ns[j])[i]
        BY <1>6, <2>1, <3>1
      <4> QED
        BY <3>2, <4>2, <4>3
    <3> QED
      BY <3>2, <3>3, <3>5
  <2>2. CASE j = k + 1
    <3>1. q[j] = Len(t) /\ q[j - 1] = Len(s) /\ Frame(ns[j]) = f
      <4>1. j - 1 = k /\ k \in 0..k
        BY <1>1, <2>2
      <4> QED
        BY <1>3, <1>6, <1>7, <2>2, <4>1 DEF f
    <3>2. ASSUME NEW i \in 1..Len(f) PROVE t[Len(s) + i] = f[i]
      <4>1. Len(s) + i \in 1..(Len(s) + Len(f)) /\ ~(Len(s) + i <= Len(s))
            /\ (Len(s) + i) - Len(s) = i
        BY <1>1
      <4> QED
        BY <1>2, <4>1
    <3> QED
      BY <1>2, <3>1, <3>2
  <2> QED
    BY <1>1, <2>1, <2>2
<1>11. Frames(t, ns, q)
  BY <1>3, <1>8, <1>9, <1>10 DEF Frames
<1> QED
  BY <1>3, <1>7, <1>11 DEF IsStream, t, ns, f

\* A stream begins with the bytes of its first message, and without them it is
\* the stream of the others.
LEMMA StreamHead ==
    ASSUME NEW s \in Seq(Tokens), NEW ms \in Seq(Messages), IsStream(s, ms), ms # <<>>
    PROVE  LET f == Frame(ms[1])
           IN  /\ Len(f) <= Len(s)
               /\ \A i \in 1..Len(f) : s[i] = f[i]
               /\ IsStream(SubSeq(s, Len(f) + 1, Len(s)), Tail(ms))
<1> DEFINE f == Frame(ms[1])
           n == Len(f)
           t == SubSeq(s, n + 1, Len(s))
           ns == Tail(ms)
           k == Len(ms)
<1>1. /\ Len(s) \in Nat /\ k \in Nat /\ k >= 1 /\ ms[1] \in Messages
      /\ Len(ns) = k - 1 /\ \A j \in 1..(k - 1) : ns[j] = ms[j + 1]
  BY HeadTailProperties, EmptySeq
<1>2. f \in Seq(Tokens) /\ n \in Nat /\ \A j \in 1..k : Len(Frame(ms[j])) \in Nat
  BY <1>1, FrameBytes
<1>3. PICK p \in [0..k -> 0..Len(s)] : Frames(s, ms, p)
  BY DEF IsStream
<1>4. \A j \in 0..k : p[j] \in Nat /\ p[j] <= Len(s)
  BY <1>1
<1>5. /\ p[0] = 0 /\ p[k] = Len(s)
      /\ \A i, j \in 0..k : i <= j => p[i] <= p[j]
      /\ \A j \in 1..k :
            /\ p[j] = p[j - 1] + Len(Frame(ms[j]))
            /\ \A i \in 1..Len(Frame(ms[j])) : s[p[j - 1] + i] = Frame(ms[j])[i]
  BY <1>3 DEF Frames
<1> HIDE DEF n, f, t, ns, k
<1>6. 1 \in 1..k /\ 1 \in 0..k /\ 1 - 1 = 0
  BY <1>1
<1>7. p[1] = n /\ n <= Len(s)
  <2>1. p[1] = p[0] + Len(Frame(ms[1]))
    BY <1>5, <1>6
  <2>2. p[1] = 0 + n
    BY <1>5, <2>1 DEF n, f
  <2> QED
    BY <1>2, <1>4, <1>6, <2>2
<1>8. ASSUME NEW i \in 1..n PROVE s[i] = f[i]
  <2>1. i \in 1..Len(Frame(ms[1])) /\ i \in Nat /\ 0 + i = i
    BY <1>2 DEF n, f
  <2>2. s[p[1 - 1] + i] = Frame(ms[1])[i]
    BY <1>5, <1>6, <2>1
  <2> QED
    BY <1>5, <1>6, <2>1, <2>2 DEF f
<1>9. /\ t \in Seq(Tokens) /\ Len(t) = Len(s) - n
      /\ \A i \in 1..(Len(s) - n) : t[i] = s[n + i]
  <2>1. \A i \in (n + 1)..Len(s) : s[i] \in Tokens
    BY <1>1, <1>2
  <2>2. /\ t \in Seq(Tokens)
        /\ Len(t) = IF n + 1 <= Len(s) THEN Len(s) - (n + 1) + 1 ELSE 0
        /\ \A i \in 1..(Len(s) - (n + 1) + 1) : t[i] = s[(n + 1) + i - 1]
    <3>1. n + 1 \in Int /\ Len(s) \in Int
      BY <1>1, <1>2
    <3> QED
      BY <2>1, <3>1, SubSeqProperties DEF t
  <2> QED
    BY <1>1, <1>2, <1>7, <2>2
<1> DEFINE q == [j \in 0..(k - 1) |-> p[j + 1] - n]
<1>10. ASSUME NEW j \in 0..(k - 1)
       PROVE  j + 1 \in 1..k /\ j + 1 \in 0..k /\ n <= p[j + 1] /\ q[j] = p[j + 1] - n
  <2>1. j + 1 \in 1..k /\ j + 1 \in 0..k /\ 1 <= j + 1
    BY <1>1
  <2>2. p[1] <= p[j + 1]
    BY <1>5, <1>6, <2>1
  <2> QED
    BY <1>7, <2>1, <2>2
<1>11. q \in [0..(k - 1) -> 0..Len(t)]
  <2>1. ASSUME NEW j \in 0..(k - 1) PROVE p[j + 1] - n \in 0..Len(t)
    <3>1. p[j + 1] \in Nat /\ p[j + 1] <= Len(s) /\ n <= p[j + 1]
      BY <1>4, <1>10
    <3> QED
      BY <1>1, <1>2, <1>7, <1>9, <3>1
  <2> QED
    BY <2>1
<1> HIDE DEF q
<1>12. q[0] = 0 /\ q[Len(ns)] = Len(t)
  <2>1. 0 \in 0..(k - 1) /\ k - 1 \in 0..(k - 1) /\ (k - 1) + 1 = k /\ 0 + 1 = 1
    BY <1>1
  <2>2. q[0] = p[1] - n
    BY <2>1, Zenon DEF q
  <2>3. q[k - 1] = p[k] - n
    BY <2>1, Zenon DEF q
  <2> QED
    BY <1>1, <1>2, <1>5, <1>7, <1>9, <2>2, <2>3
<1>13. ASSUME NEW i \in 0..(k - 1), NEW j \in 0..(k - 1), i <= j PROVE q[i] <= q[j]
  <2>1. p[i + 1] <= p[j + 1]
    BY <1>1, <1>5, <1>10, <1>13
  <2> QED
    BY <1>2, <1>4, <1>10, <2>1
<1>14. ASSUME NEW j \in 1..(k - 1)
       PROVE  /\ q[j] = q[j - 1] + Len(Frame(ns[j]))
              /\ \A i \in 1..Len(Frame(ns[j])) : t[q[j - 1] + i] = Frame(ns[j])[i]
  <2>1. /\ j \in 0..(k - 1) /\ j - 1 \in 0..(k - 1) /\ (j - 1) + 1 = j
        /\ j + 1 \in 1..k /\ (j + 1) - 1 = j /\ j \in 0..k
    BY <1>1
  <2>2. q[j] = p[j + 1] - n /\ q[j - 1] = p[j] - n /\ n <= p[j]
    BY <1>10, <2>1
  <2>3. ns[j] = ms[j + 1] /\ Len(Frame(ns[j])) \in Nat
    BY <1>1, <1>2, <2>1
  <2>4. p[j + 1] = p[j] + Len(Frame(ns[j]))
    BY <1>5, <2>1, <2>3
  <2>5. p[j] \in Nat /\ p[j + 1] \in Nat /\ p[j + 1] <= Len(s)
    BY <1>1, <1>4, <2>1
  <2>6. ASSUME NEW i \in 1..Len(Frame(ns[j])) PROVE t[q[j - 1] + i] = Frame(ns[j])[i]
    <3>1. q[j - 1] + i \in 1..(Len(s) - n) /\ n + (q[j - 1] + i) = p[j] + i
      <4> DEFINE L == Len(Frame(ns[j]))
                 a == p[j]
                 b == p[j + 1]
                 c == q[j - 1]
      <4>1. /\ i \in 1..L /\ L \in Nat /\ a \in Nat /\ n \in Nat /\ Len(s) \in Nat
            /\ b = a + L /\ b <= Len(s) /\ c = a - n /\ n <= a
        BY <1>1, <1>2, <2>2, <2>3, <2>4, <2>5
      <4> HIDE DEF L, a, b, c
      <4>2. c + i \in 1..(Len(s) - n) /\ n + (c + i) = a + i
        BY <4>1
      <4> QED
        BY <4>2 DEF a, c
    <3> DEFINE x == q[j - 1] + i
    <3>2. t[x] = s[p[j] + i]
      <4>1. x \in 1..(Len(s) - n) /\ n + x = p[j] + i
        BY <3>1
      <4> HIDE DEF x
      <4>2. t[x] = s[n + x]
        BY <1>9, <4>1
      <4> QED
        BY <4>1, <4>2
    <3>3. s[p[(j + 1) - 1] + i] = Frame(ms[j + 1])[i]
      BY <1>5, <2>1, <2>3
    <3> QED
      BY <2>1, <2>3, <3>2, <3>3
  <2> QED
    BY <1>2, <2>2, <2>3, <2>4, <2>5, <2>6
<1>15. Frames(t, ns, q)
  BY <1>1, <1>12, <1>13, <1>14 DEF Frames
<1>16. IsStream(t, ns)
  BY <1>1, <1>11, <1>15 DEF IsStream
<1> QED
  BY <1>7, <1>8, <1>16 DEF t, ns, n, f

\* The first end marker in what has been read of a stream is that of its first
\* message, the first start marker is its first byte, and the body is between.
LEMMA FirstMessage ==
    ASSUME NEW w \in Seq(Tokens), NEW z \in Seq(Tokens), NEW ms \in Seq(Messages),
           IsStream(w \o z, ms), Find(w, End) # 0
    PROVE  /\ ms # <<>>
           /\ Find(w, Start) = 1
           /\ Find(w, End) = BodyLen[ms[1]] + 3
           /\ Len(Frame(ms[1])) <= Len(w)
           /\ SubSeq(w, 3, BodyLen[ms[1]] + 2) = Body(ms[1])
<1> DEFINE s == w \o z
           e == Find(w, End)
           m == ms[1]
           n == BodyLen[m]
           f == Frame(m)
<1>1. /\ s \in Seq(Tokens) /\ Len(s) = Len(w) + Len(z) /\ Len(w) \in Nat /\ Len(z) \in Nat
      /\ \A i \in 1..Len(w) : s[i] = w[i]
  <2>1. /\ s \in Seq(Tokens) /\ Len(s) = Len(w) + Len(z) /\ Len(w) \in Nat /\ Len(z) \in Nat
        /\ \A i \in 1..(Len(w) + Len(z)) : s[i] = IF i <= Len(w) THEN w[i] ELSE z[i - Len(w)]
    BY ConcatProperties, LenProperties
  <2> HIDE DEF s
  <2> QED
    BY <2>1
<1>2. /\ <<"E", 0, 1>> \in Tokens /\ <<"E", 0, 2>> \in Tokens
      /\ <<"S", 0, 1>> \in Tokens /\ <<"S", 0, 2>> \in Tokens
  BY DEF Tokens
<1>3. /\ e \in 1..(Len(w) - 1) /\ w[e] = <<"E", 0, 1>> /\ w[e + 1] = <<"E", 0, 2>>
      /\ \A i \in 1..(Len(w) - 1) :
            w[i] = <<"E", 0, 1>> /\ w[i + 1] = <<"E", 0, 2>> => e <= i
  <2>1. /\ e \in 1..(Len(w) - 1) /\ SubSeq(w, e, e + 1) = <<<<"E", 0, 1>>, <<"E", 0, 2>>>>
        /\ \A i \in 1..(Len(w) - 1) :
              SubSeq(w, i, i + 1) = <<<<"E", 0, 1>>, <<"E", 0, 2>>>> => e <= i
    BY FindMeaning DEF End
  <2> DEFINE a == <<"E", 0, 1>>
             b == <<"E", 0, 2>>
  <2>2. /\ a \in Tokens /\ b \in Tokens
        /\ e \in 1..(Len(w) - 1) /\ SubSeq(w, e, e + 1) = <<a, b>>
        /\ \A i \in 1..(Len(w) - 1) : SubSeq(w, i, i + 1) = <<a, b>> => e <= i
    BY <1>2, <2>1
  <2> HIDE DEF e, a, b
  <2>3. \A i \in 1..(Len(w) - 1) :
          SubSeq(w, i, i + 1) = <<a, b>> <=> w[i] = a /\ w[i + 1] = b
    BY ONLY <2>2, MarkerAt, w \in Seq(Tokens)
  <2>4. /\ w[e] = a /\ w[e + 1] = b
        /\ \A i \in 1..(Len(w) - 1) : w[i] = a /\ w[i + 1] = b => e <= i
    BY ONLY <2>2, <2>3
  <2> QED
    BY <2>2, <2>4 DEF a, b
<1> HIDE DEF s, e
<1>4. ms # <<>>
  <2> SUFFICES ASSUME ms = <<>> PROVE FALSE
    OBVIOUS
  <2>1. Len(ms) = 0
    OBVIOUS
  <2>2. PICK p \in [0..Len(ms) -> 0..Len(s)] : Frames(s, ms, p)
    BY DEF IsStream, s
  <2>3. p[0] = 0 /\ p[Len(ms)] = Len(s)
    BY <2>2 DEF Frames
  <2> QED
    BY <1>1, <1>3, <2>1, <2>3
<1>5. m \in Messages
  BY <1>4, EmptySeq
<1>6. /\ f \in Seq(Tokens) /\ n \in Nat /\ Len(f) = n + 4
      /\ f[1] = <<"S", 0, 1>> /\ f[2] = <<"S", 0, 2>>
      /\ \A i \in 1..n : f[i + 2] = <<"B", m, i>>
      /\ f[n + 3] = <<"E", 0, 1>> /\ f[n + 4] = <<"E", 0, 2>>
  BY <1>5, FrameBytes
<1>7. Len(f) <= Len(s) /\ \A i \in 1..Len(f) : s[i] = f[i]
  <2>1. IsStream(s, ms)
    BY DEF s
  <2> QED
    BY <1>1, <1>4, <2>1, StreamHead
<1> HIDE DEF m, n, f
<1>8. \A i \in 1..Len(w) : i <= n + 4 => w[i] = f[i]
  BY <1>1, <1>6, <1>7
<1>9. ~(e < n + 3)
  <2> SUFFICES ASSUME e < n + 3 PROVE FALSE
    OBVIOUS
  <2>1. e \in Nat /\ e >= 1 /\ w[e] = f[e]
    <3>1. e \in Nat /\ e >= 1 /\ e \in 1..Len(w) /\ e <= n + 4
      BY <1>1, <1>3, <1>6
    <3> QED
      BY ONLY <1>8, <3>1
  <2>2. CASE e \in {1, 2}
    BY <1>3, <1>6, <2>1, <2>2
  <2>3. CASE e > 2
    <3>1. e - 2 \in 1..n /\ (e - 2) + 2 = e
      BY <1>6, <2>1, <2>3
    <3>2. f[(e - 2) + 2] = <<"B", m, e - 2>>
      BY <1>6, <3>1
    <3> QED
      BY <1>3, <2>1, <3>1, <3>2
  <2> QED
    BY <2>1, <2>2, <2>3
<1>10. n + 4 <= Len(w)
  BY <1>1, <1>3, <1>6, <1>9
<1>11. e = n + 3
  <2>1. /\ n + 3 \in 1..(Len(w) - 1) /\ n + 3 \in 1..Len(w)
        /\ n + 4 \in 1..Len(w) /\ (n + 3) + 1 = n + 4
    BY <1>1, <1>6, <1>10
  <2>2. w[n + 3] = <<"E", 0, 1>> /\ w[n + 4] = <<"E", 0, 2>>
    BY <1>6, <1>8, <2>1
  <2>3. e <= n + 3
    BY <1>3, <2>1, <2>2
  <2> QED
    BY <1>1, <1>3, <1>6, <1>9, <2>3
<1>12. Find(w, Start) = 1
  <2>1. 1 \in 1..(Len(w) - 1) /\ 1 \in 1..Len(w) /\ 2 \in 1..Len(w) /\ 1 + 1 = 2
    BY <1>1, <1>6, <1>10
  <2>2. w[1] = <<"S", 0, 1>> /\ w[1 + 1] = <<"S", 0, 2>>
    BY <1>6, <1>8, <2>1
  <2>3. SubSeq(w, 1, 1 + 1) = <<<<"S", 0, 1>>, <<"S", 0, 2>>>>
    <3> DEFINE a == <<"S", 0, 1>>
               b == <<"S", 0, 2>>
    <3>1. a \in Tokens /\ b \in Tokens /\ w[1] = a /\ w[1 + 1] = b
      BY <1>2, <2>2
    <3> HIDE DEF a, b
    <3>2. SubSeq(w, 1, 1 + 1) = <<a, b>>
      BY ONLY <2>1, <3>1, MarkerAt, w \in Seq(Tokens)
    <3> QED
      BY <3>2 DEF a, b
  <2>4. SubSeq(w, 1, 1 + 1) = Start
    BY <2>3 DEF Start
  <2> DEFINE g == Find(w, Start)
  <2>5. g # 0 /\ g \in 1..(Len(w) - 1) /\ g <= 1
    BY <2>1, <2>4, FindMeaning
  <2> HIDE DEF g
  <2>6. g = 1
    BY <1>1, <2>5
  <2> QED
    BY <2>6 DEF g
<1>13. SubSeq(w, 3, n + 2) = Body(m)
  <2>1. /\ Body(m) \in Seq(Tokens) /\ Len(Body(m)) = n
        /\ \A i \in 1..n : Body(m)[i] = <<"B", m, i>>
    BY <1>5, BodyBytes DEF n
  <2> DEFINE u == SubSeq(w, 3, n + 2)
  <2>2. /\ u \in Seq(Tokens) /\ Len(u) = IF 3 <= n + 2 THEN (n + 2) - 3 + 1 ELSE 0
        /\ \A i \in 1..((n + 2) - 3 + 1) : u[i] = w[3 + i - 1]
    <3>1. \A i \in 3..(n + 2) : w[i] \in Tokens
      BY <1>1, <1>6, <1>10
    <3>2. 3 \in Int /\ n + 2 \in Int
      BY <1>6
    <3> QED
      BY <3>1, <3>2, SubSeqProperties
  <2> HIDE DEF u
  <2>3. Len(u) = n
    BY <1>6, <2>2
  <2>4. ASSUME NEW i \in 1..n PROVE u[i] = Body(m)[i]
    <3>1. /\ i \in 1..((n + 2) - 3 + 1) /\ 3 + i - 1 = i + 2
          /\ i + 2 \in 1..Len(w) /\ i + 2 <= n + 4
      BY <1>1, <1>6, <1>10
    <3>2. u[i] = w[i + 2]
      BY <2>2, <3>1
    <3>3. w[i + 2] = f[i + 2]
      BY <1>8, <3>1
    <3> QED
      BY <1>6, <2>1, <3>2, <3>3
  <2>5. u = Body(m)
    BY <2>1, <2>2, <2>3, <2>4, SeqEqual
  <2> QED
    BY <2>5 DEF u
<1> QED
  BY <1>4, <1>6, <1>10, <1>11, <1>12, <1>13 DEF e, m, n, f

-----------------------------------------------------------------------------
(* Cutting and joining.                                                    *)

\* A sequence cut in two is the sequence.
LEMMA CutInTwo ==
    ASSUME NEW S, NEW t \in Seq(S), NEW n \in 1..Len(t)
    PROVE  /\ SubSeq(t, 1, n) \in Seq(S) /\ SubSeq(t, n + 1, Len(t)) \in Seq(S)
           /\ SubSeq(t, 1, n) \o SubSeq(t, n + 1, Len(t)) = t
<1>1. /\ 1 \in 1..(Len(t) + 1) /\ n \in (1 - 1)..Len(t) /\ Len(t) \in n..Len(t)
      /\ n \in 0..Len(t) /\ n + 1 \in Nat \ {0} /\ Len(t) \in 0..Len(t)
  OBVIOUS
<1>2. SubSeq(t, 1, n) \o SubSeq(t, n + 1, Len(t)) = SubSeq(t, 1, Len(t))
  BY <1>1, ConcatAdjacentSubSeq
<1> QED
  BY <1>1, <1>2, PartOf, SubSeqFull

\* Without its first bytes, a concatenation is that of the rest.
LEMMA DropFront ==
    ASSUME NEW S, NEW w \in Seq(S), NEW z \in Seq(S), NEW n \in 1..Len(w)
    PROVE  SubSeq(w, n + 1, Len(w)) \o z = SubSeq(w \o z, n + 1, Len(w \o z))
<1> DEFINE c == w \o z
           p == SubSeq(w, 1, n)
           q == SubSeq(w, n + 1, Len(w))
           d == SubSeq(c, 1, n)
           e == SubSeq(c, n + 1, Len(c))
<1>1. /\ c \in Seq(S) /\ Len(c) = Len(w) + Len(z) /\ Len(w) \in Nat /\ Len(z) \in Nat
      /\ \A i \in 1..(Len(w) + Len(z)) : c[i] = IF i <= Len(w) THEN w[i] ELSE z[i - Len(w)]
  BY ConcatProperties, LenProperties
<1> HIDE DEF c
<1>2. n \in 1..Len(c)
  BY <1>1
<1>3. p \in Seq(S) /\ q \in Seq(S) /\ p \o q = w
  BY CutInTwo
<1>4. d \in Seq(S) /\ e \in Seq(S) /\ d \o e = c
  BY <1>1, <1>2, CutInTwo
<1>5. p = d
  <2>1. \A i \in 1..n : w[i] \in S /\ c[i] \in S
    BY <1>1, <1>2
  <2>2. n \in Int /\ 1 \in Int
    OBVIOUS
  <2>3. Len(p) = n /\ \A i \in 1..n : p[i] = w[i]
    <3>1. Len(p) = (IF 1 <= n THEN n - 1 + 1 ELSE 0)
          /\ \A i \in 1..(n - 1 + 1) : p[i] = w[1 + i - 1]
      BY <2>1, <2>2, SubSeqProperties
    <3> HIDE DEF p
    <3> QED
      BY <3>1
  <2>4. Len(d) = n /\ \A i \in 1..n : d[i] = c[i]
    <3>1. Len(d) = (IF 1 <= n THEN n - 1 + 1 ELSE 0)
          /\ \A i \in 1..(n - 1 + 1) : d[i] = c[1 + i - 1]
      BY <2>1, <2>2, SubSeqProperties
    <3> HIDE DEF d
    <3> QED
      BY <3>1
  <2> HIDE DEF p, d
  <2>5. \A i \in 1..n : p[i] = d[i]
    BY <1>1, <2>3, <2>4
  <2> QED
    BY ONLY <1>3, <1>4, <2>3, <2>4, <2>5, SeqEqual
<1> HIDE DEF p, q, d, e
<1>6. p \o (q \o z) = p \o e
  <2>1. (p \o q) \o z = p \o (q \o z)
    <3>1. p \in Seq(S) /\ q \in Seq(S)
      BY <1>3
    <3> QED
      BY <3>1, ConcatAssociative
  <2> QED
    BY <1>3, <1>4, <1>5, <2>1 DEF c
<1>7. q \o z = e
  <2>1. q \o z \in Seq(S)
    BY ONLY <1>3, z \in Seq(S), ConcatProperties
  <2> QED
    BY ONLY <1>3, <1>4, <1>6, <2>1, ConcatSimplifications
<1> QED
  BY <1>7 DEF q, e, c

\* IsPrefix, element by element.
LEMMA PrefixMeaning ==
    ASSUME NEW g \in Seq(Messages), NEW s \in Seq(Messages)
    PROVE  IsPrefix(g, s) <=> /\ Len(g) <= Len(s)
                              /\ \A i \in 1..Len(g) : g[i] = s[i]
<1>1. Len(g) \in Nat /\ Len(s) \in Nat /\ SubSeq(g, 1, Len(g)) = g
  BY SubSeqFull
<1>2. ASSUME Len(g) <= Len(s)
      PROVE  SubSeq(s, 1, Len(g)) = g <=> \A i \in 1..Len(g) : g[i] = s[i]
  <2> DEFINE u == SubSeq(s, 1, Len(g))
  <2>1. \A i \in 1..Len(g) : s[i] \in Messages
    BY <1>1, <1>2
  <2>2. /\ u \in Seq(Messages) /\ Len(u) = IF 1 <= Len(g) THEN Len(g) - 1 + 1 ELSE 0
        /\ \A i \in 1..(Len(g) - 1 + 1) : u[i] = s[1 + i - 1]
    <3>1. 1 \in Int /\ Len(g) \in Int
      BY <1>1
    <3> QED
      BY <2>1, <3>1, SubSeqProperties
  <2> HIDE DEF u
  <2>3. Len(u) = Len(g) /\ \A i \in 1..Len(g) : u[i] = s[i]
    BY <1>1, <2>2
  <2>4. (\A i \in 1..Len(g) : g[i] = s[i]) => u = g
    BY <2>2, <2>3, SeqEqual
  <2>5. u = g => \A i \in 1..Len(g) : g[i] = s[i]
    BY <2>3
  <2> QED
    BY <2>4, <2>5 DEF u
<1> QED
  BY <1>1, <1>2 DEF IsPrefix

\* A marker does not appear when a zero byte is appended.
LEMMA PaddingIsNoEnd ==
    ASSUME NEW w \in Seq(Tokens), Find(w, End) = 0
    PROVE  Find(Append(w, Zero), End) = 0
<1> DEFINE t == Append(w, Zero)
           a == <<"E", 0, 1>>
           b == <<"E", 0, 2>>
<1>1. Zero \in Tokens /\ a \in Tokens /\ b \in Tokens /\ Zero # b
  BY DEF Tokens, Zero
<1>2. /\ t \in Seq(Tokens) /\ Len(t) = Len(w) + 1 /\ Len(w) \in Nat
      /\ \A i \in 1..Len(w) : t[i] = w[i]
      /\ t[Len(w) + 1] = Zero
  BY <1>1, AppendProperties
<1>3. End = <<a, b>>
  BY DEF End
<1> HIDE DEF t, a, b
<1>4. \A i \in 1..(Len(w) - 1) : SubSeq(w, i, i + 1) # <<a, b>>
  BY <1>3, FindMeaning
<1>5. \A i \in 1..(Len(w) - 1) :
          SubSeq(w, i, i + 1) = <<a, b>> <=> w[i] = a /\ w[i + 1] = b
  BY ONLY <1>1, MarkerAt, w \in Seq(Tokens)
<1>6. \A i \in 1..(Len(t) - 1) :
          SubSeq(t, i, i + 1) = <<a, b>> <=> t[i] = a /\ t[i + 1] = b
  BY ONLY <1>1, <1>2, MarkerAt
<1>7. ASSUME NEW i \in 1..(Len(t) - 1) PROVE SubSeq(t, i, i + 1) # <<a, b>>
  <2>1. CASE i \in 1..(Len(w) - 1)
    <3>1. i \in 1..Len(w) /\ i + 1 \in 1..Len(w)
      BY <1>2, <2>1
    <3>2. t[i] = w[i] /\ t[i + 1] = w[i + 1]
      BY <1>2, <3>1
    <3> QED
      BY <1>4, <1>5, <1>6, <2>1, <3>2
  <2>2. CASE i = Len(w)
    BY <1>1, <1>2, <1>6, <2>2
  <2> QED
    BY <1>2, <2>1, <2>2
<1>8. Find(t, <<a, b>>) = 0
  BY <1>2, <1>7, FindMeaning
<1> QED
  BY <1>3, <1>8 DEF t

\* No message is no byte.
LEMMA NoBytes == IsStream(<<>>, <<>>)
<1> DEFINE e == <<>>
           p == [j \in 0..0 |-> 0]
<1>1. Len(e) = 0 /\ 0..0 = {0} /\ 1..0 = {} /\ p[0] = 0
  OBVIOUS
<1>2. Frames(e, e, p)
  BY <1>1 DEF Frames
<1>3. p \in [0..Len(e) -> 0..Len(e)]
  BY <1>1
<1> QED
  BY <1>2, <1>3 DEF IsStream

\* The messages not yet delivered, when one more is sent.
LEMMA UndeliveredSent ==
    ASSUME NEW s \in Seq(Messages), NEW k \in 0..Len(s), NEW m \in Messages
    PROVE  /\ SubSeq(s, k + 1, Len(s)) \in Seq(Messages)
           /\ SubSeq(Append(s, m), k + 1, Len(Append(s, m)))
                = Append(SubSeq(s, k + 1, Len(s)), m)
<1> DEFINE t == Append(s, m)
           u == SubSeq(s, k + 1, Len(s))
           v == SubSeq(t, k + 1, Len(t))
           x == Append(u, m)
<1>1. /\ t \in Seq(Messages) /\ Len(t) = Len(s) + 1 /\ Len(s) \in Nat /\ k \in Nat
      /\ \A i \in 1..Len(s) : t[i] = s[i]
      /\ t[Len(s) + 1] = m
  BY AppendProperties
<1> HIDE DEF t
<1>2. u \in Seq(Messages) /\ Len(u) = Len(s) - k /\ \A i \in 1..(Len(s) - k) : u[i] = s[k + i]
  <2>1. \A i \in (k + 1)..Len(s) : s[i] \in Messages
    BY <1>1
  <2>2. k + 1 \in Int /\ Len(s) \in Int
    BY <1>1
  <2>3. /\ u \in Seq(Messages)
        /\ Len(u) = (IF k + 1 <= Len(s) THEN Len(s) - (k + 1) + 1 ELSE 0)
        /\ \A i \in 1..(Len(s) - (k + 1) + 1) : u[i] = s[(k + 1) + i - 1]
    BY <2>1, <2>2, SubSeqProperties
  <2> HIDE DEF u
  <2> QED
    BY <1>1, <2>3
<1>3. /\ v \in Seq(Messages) /\ Len(v) = (Len(s) - k) + 1
      /\ \A i \in 1..((Len(s) - k) + 1) : v[i] = t[k + i]
  <2>1. \A i \in (k + 1)..Len(t) : t[i] \in Messages
    BY <1>1
  <2>2. k + 1 \in Int /\ Len(t) \in Int
    BY <1>1
  <2>3. /\ v \in Seq(Messages)
        /\ Len(v) = (IF k + 1 <= Len(t) THEN Len(t) - (k + 1) + 1 ELSE 0)
        /\ \A i \in 1..(Len(t) - (k + 1) + 1) : v[i] = t[(k + 1) + i - 1]
    BY <2>1, <2>2, SubSeqProperties
  <2> HIDE DEF v
  <2>4. Len(t) - (k + 1) + 1 = (Len(s) - k) + 1 /\ k + 1 <= Len(t)
    BY <1>1
  <2>5. ASSUME NEW i \in 1..((Len(s) - k) + 1) PROVE v[i] = t[k + i]
    <3>1. (k + 1) + i - 1 = k + i
      BY <1>1
    <3> QED
      BY <2>3, <2>4, <3>1
  <2> QED
    BY <2>3, <2>4, <2>5
<1> HIDE DEF u, v
<1>4. /\ x \in Seq(Messages) /\ Len(x) = Len(u) + 1
      /\ \A i \in 1..Len(u) : x[i] = u[i]
      /\ x[Len(u) + 1] = m
  BY <1>2, AppendProperties
<1> HIDE DEF x
<1>5. ASSUME NEW i \in 1..Len(v) PROVE v[i] = x[i]
  <2>1. CASE i \in 1..(Len(s) - k)
    <3>1. k + i \in 1..Len(s)
      BY <1>1, <2>1
    <3> QED
      BY <1>1, <1>2, <1>3, <1>4, <2>1, <3>1
  <2>2. CASE i = (Len(s) - k) + 1
    <3>1. k + i = Len(s) + 1
      BY <1>1, <2>2
    <3> QED
      BY <1>1, <1>2, <1>3, <1>4, <2>2, <3>1
  <2> QED
    BY <1>1, <1>3, <2>1, <2>2
<1>6. v = x
  BY <1>2, <1>3, <1>4, <1>5, SeqEqual
<1> QED
  BY <1>2, <1>6 DEF t, u, v, x

\* Of the messages not yet delivered, the first one is the next to be returned.
LEMMA UndeliveredGot ==
    ASSUME NEW s \in Seq(Messages), NEW k \in 0..Len(s), SubSeq(s, k + 1, Len(s)) # <<>>
    PROVE  /\ k + 1 \in 1..Len(s)
           /\ SubSeq(s, k + 1, Len(s))[1] = s[k + 1]
           /\ Tail(SubSeq(s, k + 1, Len(s))) = SubSeq(s, k + 2, Len(s))
<1> DEFINE u == SubSeq(s, k + 1, Len(s))
           v == SubSeq(s, k + 2, Len(s))
           x == Tail(u)
<1>1. Len(s) \in Nat /\ k \in Nat
  OBVIOUS
<1>2. u \in Seq(Messages) /\ Len(u) = Len(s) - k /\ \A i \in 1..(Len(s) - k) : u[i] = s[k + i]
  <2>1. \A i \in (k + 1)..Len(s) : s[i] \in Messages
    BY <1>1
  <2>2. k + 1 \in Int /\ Len(s) \in Int
    BY <1>1
  <2>3. /\ u \in Seq(Messages)
        /\ Len(u) = (IF k + 1 <= Len(s) THEN Len(s) - (k + 1) + 1 ELSE 0)
        /\ \A i \in 1..(Len(s) - (k + 1) + 1) : u[i] = s[(k + 1) + i - 1]
    BY <2>1, <2>2, SubSeqProperties
  <2> HIDE DEF u
  <2> QED
    BY <1>1, <2>3
<1>3. u # <<>>
  OBVIOUS
<1> HIDE DEF u
<1>4. Len(u) # 0
  BY <1>2, <1>3, EmptySeq
<1>5. k + 1 \in 1..Len(s) /\ u[1] = s[k + 1]
  BY <1>1, <1>2, <1>4
<1>6. /\ v \in Seq(Messages) /\ Len(v) = (Len(s) - k) - 1
      /\ \A i \in 1..((Len(s) - k) - 1) : v[i] = s[(k + 1) + i]
  <2>1. \A i \in (k + 2)..Len(s) : s[i] \in Messages
    BY <1>1
  <2>2. k + 2 \in Int /\ Len(s) \in Int
    BY <1>1
  <2>3. /\ v \in Seq(Messages)
        /\ Len(v) = (IF k + 2 <= Len(s) THEN Len(s) - (k + 2) + 1 ELSE 0)
        /\ \A i \in 1..(Len(s) - (k + 2) + 1) : v[i] = s[(k + 2) + i - 1]
    BY <2>1, <2>2, SubSeqProperties
  <2> HIDE DEF v
  <2>4. /\ Len(s) - (k + 2) + 1 = (Len(s) - k) - 1
        /\ (IF k + 2 <= Len(s) THEN Len(s) - (k + 2) + 1 ELSE 0) = (Len(s) - k) - 1
    BY <1>1, <1>5
  <2>5. ASSUME NEW i \in 1..((Len(s) - k) - 1) PROVE v[i] = s[(k + 1) + i]
    <3>1. (k + 2) + i - 1 = (k + 1) + i
      BY <1>1
    <3> QED
      BY <2>3, <2>4, <3>1
  <2> QED
    BY <2>3, <2>4, <2>5
<1> HIDE DEF v
<1>7. x \in Seq(Messages) /\ Len(x) = Len(u) - 1 /\ \A i \in 1..(Len(u) - 1) : x[i] = u[i + 1]
  BY <1>2, <1>3, HeadTailProperties
<1> HIDE DEF x
<1>8. ASSUME NEW i \in 1..Len(v) PROVE x[i] = v[i]
  <2>1. i \in 1..(Len(u) - 1) /\ i + 1 \in 1..(Len(s) - k) /\ k + (i + 1) = (k + 1) + i
    BY <1>1, <1>2, <1>6
  <2>2. x[i] = u[i + 1] /\ u[i + 1] = s[k + (i + 1)] /\ v[i] = s[(k + 1) + i]
    BY <1>2, <1>6, <1>7, <2>1
  <2> QED
    BY <2>1, <2>2
<1>9. x = v
  BY <1>2, <1>6, <1>7, <1>8, SeqEqual
<1> QED
  BY <1>5, <1>9 DEF u, v, x

-----------------------------------------------------------------------------
\* The inductive invariant: between the two ends are the bytes of the messages
\* that have been sent and not yet returned, in that order.
THEOREM StreamInvariant == Spec => []StreamInv
<1>1. Init => StreamInv
  <2> SUFFICES ASSUME Init PROVE StreamInv
    OBVIOUS
  <2>1. /\ rest = <<>> /\ wire = <<>> /\ work = <<>> /\ buffer = <<>>
        /\ got = <<>> /\ sent = <<>> /\ reader = "idle"
    BY DEF Init
  <2>2. got \in Seq(Messages) /\ sent \in Seq(Messages) /\ Len(got) = 0 /\ Len(sent) = 0
    BY <2>1
  <2>3. IsPrefix(got, sent)
    <3>1. Len(got) <= Len(sent) /\ \A i \in 1..Len(got) : got[i] = sent[i]
      BY <2>2
    <3> QED
      BY <2>2, <3>1, PrefixMeaning
  <2>4. Stream = <<>> /\ Undelivered = <<>>
    <3>1. Undelivered = <<>>
      BY <2>1, <2>2, SubSeqEmpty DEF Undelivered
    <3>2. Stream = <<>>
      BY <2>1 DEF Stream
    <3> QED
      BY <3>1, <3>2
  <2> QED
    BY <2>1, <2>3, <2>4, NoBytes DEF StreamInv
<1>2. TypeOK /\ StreamInv /\ [Next]_vars => StreamInv'
  <2> SUFFICES ASSUME TypeOK, StreamInv, [Next]_vars PROVE StreamInv'
    OBVIOUS
  <2> USE DEF writerVars, readerVars
  <2>1. /\ rest \in Seq(Tokens) /\ wire \in Seq(Tokens)
        /\ buffer \in Seq(Tokens) /\ work \in Seq(Tokens)
        /\ sent \in Seq(Messages) /\ got \in Seq(Messages)
        /\ reader \in {"idle", "reading", "failed"}
    BY DEF TypeOK
  <2>2. /\ Len(got) <= Len(sent) /\ \A i \in 1..Len(got) : got[i] = sent[i]
        /\ Len(got) \in 0..Len(sent)
    <3>1. Len(got) <= Len(sent) /\ \A i \in 1..Len(got) : got[i] = sent[i]
      BY <2>1, PrefixMeaning DEF StreamInv
    <3> QED
      BY <2>1, <3>1
  <2>3. /\ wire \o rest \in Seq(Tokens) /\ work \o (wire \o rest) \in Seq(Tokens)
        /\ Stream \in Seq(Tokens)
    BY <2>1 DEF Stream
  <2>4. ASSUME NEW m \in Messages, WriteBreakpoint(m) PROVE StreamInv'
    <3>1. /\ open /\ rest = <<>> /\ rest' = Frame(m) /\ sent' = Append(sent, m)
          /\ UNCHANGED <<wire, open, reader, buffer, work, got>>
      BY <2>4 DEF WriteBreakpoint, Frame
    <3>2. IsStream(Stream, Undelivered) /\ reader # "failed"
      BY <3>1 DEF StreamInv, AtEnd
    <3>3. Undelivered \in Seq(Messages) /\ Undelivered' = Append(Undelivered, m)
      BY <2>1, <2>2, <3>1, UndeliveredSent DEF Undelivered
    <3>4. Stream' = Stream \o Frame(m)
      <4> DEFINE f == Frame(m)
      <4>1. f \in Seq(Tokens)
        BY FrameBytes
      <4> HIDE DEF f
      <4>2. Stream = buffer \o (work \o wire)
        BY <2>1, <3>1, ConcatEmptySeq DEF Stream
      <4>3. Stream' = buffer \o (work \o (wire \o f))
        BY <3>1 DEF Stream, f
      <4>4. buffer \in Seq(Tokens) /\ work \in Seq(Tokens) /\ wire \in Seq(Tokens)
        BY <2>1
      <4> DEFINE c == work \o wire
      <4>5. c \in Seq(Tokens) /\ c \o f = work \o (wire \o f)
        BY <4>1, <4>4, ConcatProperties, ConcatAssociative
      <4> HIDE DEF c
      <4>6. (buffer \o c) \o f = buffer \o (c \o f)
        <5>1. buffer \in Seq(Tokens) /\ c \in Seq(Tokens) /\ f \in Seq(Tokens)
          BY <4>1, <4>4, <4>5
        <5> QED
          BY <5>1, ConcatAssociative
      <4> QED
        BY <4>2, <4>3, <4>5, <4>6 DEF f, c
    <3>5. IsStream(Stream', Undelivered')
      BY <2>3, <3>2, <3>3, <3>4, StreamAppend
    <3>6. IsPrefix(got, sent)'
      <4>1. sent' \in Seq(Messages) /\ Len(sent') = Len(sent) + 1
            /\ \A i \in 1..Len(sent) : sent'[i] = sent[i]
        BY <2>1, <3>1, AppendProperties
      <4>2. Len(got) <= Len(sent') /\ \A i \in 1..Len(got) : got[i] = sent'[i]
        BY <2>1, <2>2, <4>1
      <4>3. IsPrefix(got, sent')
        BY <2>1, <4>1, <4>2, PrefixMeaning
      <4> QED
        BY <3>1, <4>3
    <3> QED
      BY <3>1, <3>2, <3>5, <3>6 DEF StreamInv
  <2>5. CASE Write
    <3>1. PICK n \in 1..SendSize :
              /\ n <= Len(rest)
              /\ wire' = wire \o SubSeq(rest, 1, n)
              /\ rest' = SubSeq(rest, n + 1, Len(rest))
      BY <2>5 DEF Write
    <3>2. open /\ UNCHANGED <<sent, open, reader, buffer, work, got>>
      BY <2>5 DEF Write
    <3> DEFINE p == SubSeq(rest, 1, n)
               q == SubSeq(rest, n + 1, Len(rest))
    <3>3. p \in Seq(Tokens) /\ q \in Seq(Tokens) /\ p \o q = rest
      <4>1. n \in 1..Len(rest)
        BY <2>1, <3>1, SizesAssumption
      <4> QED
        BY <2>1, <4>1, CutInTwo
    <3>4. wire' = wire \o p /\ rest' = q
      BY <3>1
    <3> HIDE DEF p, q
    <3>5. (wire \o p) \o q = wire \o (p \o q)
      <4>1. wire \in Seq(Tokens) /\ p \in Seq(Tokens) /\ q \in Seq(Tokens)
        BY <2>1, <3>3
      <4> QED
        BY <4>1, ConcatAssociative
    <3>6. Stream' = Stream
      BY <3>2, <3>3, <3>4, <3>5 DEF Stream
    <3>7. Undelivered' = Undelivered
      BY <3>2 DEF Undelivered
    <3> QED
      BY <3>2, <3>6, <3>7 DEF StreamInv, AtEnd
  <2>6. CASE Cut
    <3>1. open /\ UNCHANGED <<rest, wire, sent, reader, buffer, work, got>>
      BY <2>6 DEF Cut
    <3>2. Stream' = Stream /\ Undelivered' = Undelivered
      BY <3>1 DEF Stream, Undelivered
    <3> QED
      BY <3>1, <3>2 DEF StreamInv, AtEnd
  <2>7. CASE ReadBreakpoint
    <3>1. /\ reader = "idle" /\ reader' = "reading" /\ work' = buffer /\ buffer' = <<>>
          /\ UNCHANGED <<rest, wire, open, sent, got>>
      BY <2>7 DEF ReadBreakpoint
    <3>2. work = <<>> /\ IsStream(Stream, Undelivered)
      BY <3>1 DEF StreamInv, AtEnd
    <3>3. Stream' = Stream
      <4>1. Stream = buffer \o (wire \o rest)
        BY <2>3, <3>2, ConcatEmptySeq DEF Stream
      <4>2. Stream' = <<>> \o (buffer \o (wire \o rest))
        BY <3>1 DEF Stream
      <4> QED
        BY <2>3, <4>1, <4>2, ConcatEmptySeq
    <3>4. Undelivered' = Undelivered
      BY <3>1 DEF Undelivered
    <3> QED
      BY <3>1, <3>2, <3>3, <3>4 DEF StreamInv
  <2>8. CASE Read
    <3>1. PICK n \in 1..RecvSize :
              /\ n <= Len(wire)
              /\ work' = work \o SubSeq(wire, 1, n)
              /\ wire' = SubSeq(wire, n + 1, Len(wire))
      BY <2>8 DEF Read
    <3>2. /\ reader = "reading" /\ wire # <<>>
          /\ UNCHANGED <<rest, open, sent, reader, buffer, got>>
      BY <2>8 DEF Read
    <3> DEFINE p == SubSeq(wire, 1, n)
               q == SubSeq(wire, n + 1, Len(wire))
    <3>3. p \in Seq(Tokens) /\ q \in Seq(Tokens) /\ p \o q = wire
      <4>1. n \in 1..Len(wire)
        BY <2>1, <3>1, SizesAssumption
      <4> QED
        BY <2>1, <4>1, CutInTwo
    <3>4. work' = work \o p /\ wire' = q
      BY <3>1
    <3> HIDE DEF p, q
    <3>5. (work \o p) \o (q \o rest) = work \o ((p \o q) \o rest)
      <4>1. /\ work \in Seq(Tokens) /\ p \in Seq(Tokens) /\ q \in Seq(Tokens)
            /\ rest \in Seq(Tokens)
        BY <2>1, <3>3
      <4> DEFINE c == q \o rest
      <4>2. c \in Seq(Tokens) /\ (p \o q) \o rest = p \o c
        BY <4>1, ConcatProperties, ConcatAssociative
      <4> HIDE DEF c
      <4>3. (work \o p) \o c = work \o (p \o c)
        <5>1. work \in Seq(Tokens) /\ p \in Seq(Tokens) /\ c \in Seq(Tokens)
          BY <4>1, <4>2
        <5> QED
          BY <5>1, ConcatAssociative
      <4> QED
        BY <4>2, <4>3 DEF c
    <3>6. Stream' = Stream
      BY <3>2, <3>3, <3>4, <3>5 DEF Stream
    <3>7. Undelivered' = Undelivered
      BY <3>2 DEF Undelivered
    <3> QED
      BY <3>2, <3>6, <3>7 DEF StreamInv, AtEnd
  <2>9. CASE ReadEndOfStream
    <3>1. /\ reader = "reading" /\ Find(work, End) = 0 /\ wire = <<>> /\ ~open
          /\ reader' \in {"reading", "failed"} /\ work' \in {work, Append(work, Zero)}
          /\ UNCHANGED <<rest, open, wire, sent, buffer, got>>
      BY <2>9 DEF ReadEndOfStream
    <3>2. Find(work', End) = 0
      <4>1. work \in Seq(Tokens) /\ Find(work, End) = 0
        BY <2>1, <3>1
      <4>2. Find(Append(work, Zero), End) = 0
        BY <4>1, PaddingIsNoEnd
      <4> QED
        BY <3>1, <4>2
    <3>3. AtEnd'
      BY <3>1, <3>2 DEF AtEnd
    <3> QED
      BY <3>1, <3>3 DEF StreamInv
  <2>10. CASE TakeMessage
    <3> DEFINE e == Find(work, End)
               z == wire \o rest
               m == Undelivered[1]
               k == Len(got)
    <3>1. /\ reader = "reading" /\ e # 0 /\ work' = <<>>
          /\ buffer' = SubSeq(work, e + 2, Len(work))
          /\ UNCHANGED <<rest, wire, open, sent>>
      BY <2>10 DEF TakeMessage
    <3>2. buffer = <<>> /\ IsStream(Stream, Undelivered) /\ Stream = work \o z
      <4>1. buffer = <<>> /\ IsStream(Stream, Undelivered)
        BY <3>1 DEF StreamInv, AtEnd
      <4> QED
        BY <2>3, <4>1, ConcatEmptySeq DEF Stream
    <3>3. Undelivered \in Seq(Messages)
      <4>1. Len(got) + 1 \in Nat \ {0} /\ Len(sent) \in 0..Len(sent)
        BY <2>1
      <4> QED
        BY <2>1, <4>1, PartOf DEF Undelivered
    <3>4. /\ Undelivered # <<>> /\ Find(work, Start) = 1 /\ e = BodyLen[m] + 3
          /\ Len(Frame(m)) <= Len(work) /\ SubSeq(work, 3, BodyLen[m] + 2) = Body(m)
      BY <2>1, <2>3, <3>1, <3>2, <3>3, FirstMessage
    <3>5. m \in Messages /\ BodyLen[m] \in Nat /\ Len(Frame(m)) = BodyLen[m] + 4
      <4>1. m \in Messages
        BY <3>3, <3>4, EmptySeq
      <4> QED
        BY <4>1, FrameBytes
    <3>6. /\ k + 1 \in 1..Len(sent) /\ m = sent[k + 1]
          /\ Tail(Undelivered) = SubSeq(sent, k + 2, Len(sent))
      BY <2>1, <2>2, <3>4, UndeliveredGot DEF Undelivered
    <3>7. SubSeq(work, Find(work, Start) + 2, e - 1) = Body(m)
      <4>1. Find(work, Start) + 2 = 3 /\ e - 1 = BodyLen[m] + 2
        BY <3>4, <3>5
      <4> QED
        BY <3>4, <4>1
    <3>8. got' = Append(got, m) /\ reader' = "idle"
      <4>1. PICK x \in Messages : Body(m) = Body(x) /\ got' = Append(got, x) /\ reader' = "idle"
        BY <2>10, <3>5, <3>7 DEF TakeMessage
      <4>2. x = m
        BY <3>5, <4>1, BodyInjective
      <4> QED
        BY <4>1, <4>2
    <3>9. /\ got' \in Seq(Messages) /\ Len(got') = k + 1 /\ k \in Nat
          /\ \A i \in 1..k : got'[i] = got[i]
          /\ got'[k + 1] = m
      BY <2>1, <3>5, <3>8, AppendProperties
    <3>10. IsPrefix(got, sent)'
      <4>1. Len(got') <= Len(sent) /\ \A i \in 1..Len(got') : got'[i] = sent[i]
        <5> HIDE DEF m, k
        <5>1. \A i \in 1..k : got[i] = sent[i]
          BY <2>2 DEF k
        <5>2. ASSUME NEW i \in 1..(k + 1) PROVE got'[i] = sent[i]
          <6>1. i \in 1..k \/ i = k + 1
            BY <3>9
          <6> QED
            BY <3>6, <3>9, <5>1, <6>1
        <5>3. k + 1 <= Len(sent)
          BY <2>1, <3>6
        <5> QED
          BY <3>9, <5>2, <5>3
      <4>2. IsPrefix(got', sent)
        BY <2>1, <3>9, <4>1, PrefixMeaning
      <4> QED
        BY <3>1, <4>2
    <3>11. Stream' = SubSeq(Stream, Len(Frame(m)) + 1, Len(Stream))
      <4> DEFINE n == Len(Frame(m))
      <4>1. n \in 1..Len(work) /\ e + 2 = n + 1
        BY <2>1, <3>4, <3>5
      <4> HIDE DEF n
      <4>2. z \in Seq(Tokens) /\ z' = z
        BY <2>3, <3>1
      <4> HIDE DEF z
      <4>3. SubSeq(work, n + 1, Len(work)) \o z = SubSeq(work \o z, n + 1, Len(work \o z))
        BY <2>1, <4>1, <4>2, DropFront
      <4>4. Stream' = buffer' \o z
        <5>1. <<>> \o z = z
          BY <4>2, ConcatEmptySeq
        <5>2. Stream' = buffer' \o (<<>> \o z)
          BY <3>1 DEF Stream, z
        <5> QED
          BY <5>1, <5>2
      <4> QED
        BY <3>1, <3>2, <4>1, <4>3, <4>4 DEF n
    <3>12. Undelivered' = Tail(Undelivered)
      <4>1. (k + 1) + 1 = k + 2
        BY <3>9
      <4> QED
        BY <3>1, <3>6, <3>9, <4>1 DEF Undelivered
    <3>13. IsStream(Stream', Undelivered')
      BY <2>3, <3>2, <3>3, <3>4, <3>11, <3>12, StreamHead
    <3> QED
      BY <3>1, <3>8, <3>10, <3>13 DEF StreamInv
  <2>11. CASE UNCHANGED vars
    BY <2>11 DEF vars, StreamInv, AtEnd, Stream, Undelivered
  <2> QED
    BY <2>4, <2>5, <2>6, <2>7, <2>8, <2>9, <2>10, <2>11 DEF Next, Reader
<1> QED
  BY <1>1, <1>2, TypeCorrect, PTL DEF Spec

\* However the stream is cut into pieces, ReadBreakpoint returns the messages in
\* the order in which WriteBreakpoint was given them, none lost, repeated or
\* garbled, and fails only at the end of the stream.
THEOREM DeliveredInOrderHolds == Spec => []DeliveredInOrder
<1>1. StreamInv => DeliveredInOrder
  BY DEF StreamInv, DeliveredInOrder, AtEnd
<1> QED
  BY <1>1, StreamInvariant, PTL
=============================================================================
