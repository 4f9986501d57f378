--------------------------- MODULE BreakpointPipe ---------------------------
(***************************************************************************)
(* One direction of the pipe between the agent and the debugger: messages  *)
(* framed by a start and an end marker, written in pieces, and read in     *)
(* pieces that need not be the written ones.  The reading end is that of   *)
(* the debugger (BreakpointClient over NamedPipeClient, on Unix or on      *)
(* Windows) or that of the agent (BreakpointServer over NamedPipe).        *)
(*                                                                         *)
(* A byte is a token.  A marker is two tokens, so that a piece can end     *)
(* inside a marker; the body of a message is tokens of its own (a          *)
(* serialised Breakpoint that contains a marker is not modelled).          *)
(***************************************************************************)
EXTENDS Naturals, Sequences, SequencesExt

CONSTANTS
    Messages,    \* the messages, numbers
    BodyLen,     \* the length of each message's body
    SendSize,    \* kBufferSize of Write
    RecvSize,    \* kBufferSize of Read
    ReadingEnds, \* the reading ends considered: "unix", "windows", "agent"
    MaxPadding   \* bound on the zero bytes appended at the end of the stream

ASSUME MessagesAssumption == Messages \subseteq Nat
ASSUME BodyLenAssumption == BodyLen \in [Messages -> Nat]
\* A message is what it is serialised to: at most one has an empty body.
ASSUME BodiesAssumption ==
    \A m, k \in Messages : BodyLen[m] = 0 /\ BodyLen[k] = 0 => m = k
ASSUME SizesAssumption ==
    SendSize \in Nat \ {0} /\ RecvSize \in Nat \ {0} /\ MaxPadding \in Nat
ASSUME ReadingEndsAssumption == ReadingEnds \subseteq {"unix", "windows", "agent"}

VARIABLES
    fresh,       \* messages nobody has started to write
    rest,        \* what has not yet been written of the current message
    sent,        \* history: messages in the order in which their writing began
    wire,        \* bytes in the pipe
    open,        \* the writing end is open
    readingEnd,  \* which code reads: fixed in the initial state
    reader,      \* control point of ReadBreakpoint
    buffer,      \* buffer_ between two calls
    work,        \* the local buffer of a call
    got          \* history: messages returned by ReadBreakpoint

writerVars == <<fresh, rest, sent, open>>
readerVars == <<reader, buffer, work, got>>
vars == <<writerVars, wire, readingEnd, readerVars>>

Start == <<<<"S", 0, 1>>, <<"S", 0, 2>>>>
End   == <<<<"E", 0, 1>>, <<"E", 0, 2>>>>
Zero  == <<"Z", 0, 0>>
Body(m) == [i \in 1..BodyLen[m] |-> <<"B", m, i>>]
Tokens ==
    {Zero} \cup {<<k, 0, i>> : k \in {"S", "E"}, i \in 1..2}
    \cup UNION {{<<"B", m, i>> : i \in 1..BodyLen[m]} : m \in Messages}

\* The type invariant: nothing but bytes of markers, messages and padding is
\* ever in the pipe or in a buffer.
TypeOK ==
    /\ fresh \in SUBSET Messages
    /\ rest \in Seq(Tokens)
    /\ sent \in Seq(Messages) /\ got \in Seq(Messages)
    /\ wire \in Seq(Tokens) /\ buffer \in Seq(Tokens) /\ work \in Seq(Tokens)
    /\ open \in BOOLEAN
    /\ readingEnd \in ReadingEnds
    /\ reader \in {"idle", "reading", "failed"}

Init ==
    /\ fresh = Messages /\ rest = <<>>
    /\ sent = <<>> /\ wire = <<>> /\ open = TRUE
    /\ readingEnd \in ReadingEnds
    /\ reader = "idle" /\ buffer = <<>> /\ work = <<>> /\ got = <<>>

-----------------------------------------------------------------------------
(* Writing.                                                                *)

\* WriteBreakpoint: the serialised breakpoint between the two markers.
WriteBreakpoint(m) ==
    /\ open /\ m \in fresh /\ rest = <<>>
    /\ fresh' = fresh \ {m}
    /\ rest' = Start \o Body(m) \o End
    /\ sent' = Append(sent, m)
    /\ UNCHANGED <<readingEnd, wire, open, readerVars>>

\* One turn of the loop of Write: a piece of at most SendSize bytes, of which
\* the system may take fewer.
Write ==
    /\ open
    /\ \E n \in 1..SendSize :
          /\ n <= Len(rest)
          /\ wire' = wire \o SubSeq(rest, 1, n)
          /\ rest' = SubSeq(rest, n + 1, Len(rest))
    /\ UNCHANGED <<readingEnd, fresh, sent, open, readerVars>>

\* The writing process ends or shuts its end down.
Cut ==
    /\ open
    /\ open' = FALSE
    /\ UNCHANGED <<readingEnd, fresh, rest, sent, wire, readerVars>>

-----------------------------------------------------------------------------
(* Reading.                                                                *)

\* string::find and IndexOfSequence: where the marker first occurs, or 0.
Find(s, marker) ==
    LET At == {i \in 1..(Len(s) - 1) : SubSeq(s, i, i + 1) = marker}
    IN  IF At = {} THEN 0 ELSE CHOOSE i \in At : \A j \in At : i <= j

\* ReadBreakpoint starts with what the last call has left.
ReadBreakpoint ==
    /\ reader = "idle"
    /\ work' = buffer
    /\ buffer' = <<>>
    /\ reader' = "reading"
    /\ UNCHANGED <<readingEnd, writerVars, wire, got>>

\* Faulty variant: a piece replaces the one before it.
ReadReplaces ==
    /\ reader = "reading" /\ Find(work, End) = 0 /\ wire # <<>>
    /\ \E n \in 1..RecvSize :
          /\ n <= Len(wire)
          /\ work' = SubSeq(wire, 1, n)
          /\ wire' = SubSeq(wire, n + 1, Len(wire))
    /\ UNCHANGED <<readingEnd, writerVars, reader, buffer, got>>

\* No end marker yet: read a piece and append it.
Read ==
    /\ reader = "reading" /\ Find(work, End) = 0 /\ wire # <<>>
    /\ \E n \in 1..RecvSize :
          /\ n <= Len(wire)
          /\ work' = work \o SubSeq(wire, 1, n)
          /\ wire' = SubSeq(wire, n + 1, Len(wire))
    /\ UNCHANGED <<readingEnd, writerVars, reader, buffer, got>>

\* Reading at the end of the stream: ReadFile fails; recv returns 0, which is
\* taken for an empty piece; ReadAsync returns 0, which is taken for a buffer
\* full of zero bytes.
ReadEndOfStream ==
    /\ reader = "reading" /\ Find(work, End) = 0 /\ wire = <<>> /\ ~open
    /\ \/ readingEnd = "windows" /\ reader' = "failed" /\ UNCHANGED work
       \/ readingEnd = "unix" /\ UNCHANGED <<reader, work>>
       \/ /\ readingEnd = "agent" /\ reader' = reader
          /\ Len(SelectSeq(work, LAMBDA t : t = Zero)) < MaxPadding
          /\ work' = Append(work, Zero)
    /\ UNCHANGED <<readingEnd, writerVars, wire, buffer, got>>

\* Faulty variant: the end marker itself stays in the buffer.
TakeMessageKeepsMarker ==
    /\ reader = "reading" /\ Find(work, End) # 0
    /\ LET text == SubSeq(work, Find(work, Start) + 2, Find(work, End) - 1)
       IN  \/ \E m \in Messages :
                 /\ text = Body(m)
                 /\ got' = Append(got, m)
                 /\ reader' = "idle"
           \/ /\ \A m \in Messages : text # Body(m)
              /\ reader' = "failed"
              /\ got' = got
    /\ buffer' = SubSeq(work, Find(work, End), Len(work))
    /\ work' = <<>>
    /\ UNCHANGED <<readingEnd, writerVars, wire>>

\* The rest of ReadBreakpoint: what is between the markers is parsed, what
\* follows the end marker is kept.  Text that is not a serialised breakpoint
\* fails the call.
TakeMessage ==
    /\ reader = "reading" /\ Find(work, End) # 0
    /\ LET text == SubSeq(work, Find(work, Start) + 2, Find(work, End) - 1)
       IN  \/ \E m \in Messages :
                 /\ text = Body(m)
                 /\ got' = Append(got, m)
                 /\ reader' = "idle"
           \/ /\ \A m \in Messages : text # Body(m)
              /\ reader' = "failed"
              /\ got' = got
    /\ buffer' = SubSeq(work, Find(work, End) + 2, Len(work))
    /\ work' = <<>>
    /\ UNCHANGED <<readingEnd, writerVars, wire>>

-----------------------------------------------------------------------------
Reader == ReadBreakpoint \/ Read \/ ReadEndOfStream \/ TakeMessage

Next ==
    \/ \E m \in Messages : WriteBreakpoint(m)
    \/ Write \/ Cut
    \/ Reader

Spec == Init /\ [][Next]_vars

\* The reading thread calls ReadBreakpoint again and again, and a write goes
\* on as long as the pipe is open.
FairSpec == Spec /\ WF_vars(Reader) /\ WF_vars(Write)

-----------------------------------------------------------------------------
(* Properties.                                                             *)

\* Messages are returned in the order in which they were written, none lost,
\* repeated or garbled, however the stream is cut into pieces; a call fails
\* only at the end of the stream.
DeliveredInOrder ==
    /\ IsPrefix(got, sent)
    /\ open => reader # "failed"

\* The bytes of a message with its markers.
Frame(m) == Start \o Body(m) \o End

\* The bytes s are those of the messages ms, one after the other; p[j] is where
\* the j-th of them ends.
Frames(s, ms, p) ==
    /\ p[0] = 0 /\ p[Len(ms)] = Len(s)
    /\ \A i, j \in 0..Len(ms) : i <= j => p[i] <= p[j]
    /\ \A j \in 1..Len(ms) :
          /\ p[j] = p[j - 1] + Len(Frame(ms[j]))
          /\ \A i \in 1..Len(Frame(ms[j])) : s[p[j - 1] + i] = Frame(ms[j])[i]

IsStream(s, ms) == \E p \in [0..Len(ms) -> 0..Len(s)] : Frames(s, ms, p)

\* What the reader has not looked at for the last time.
Stream == buffer \o (work \o (wire \o rest))

Undelivered == SubSeq(sent, Len(got) + 1, Len(sent))

\* The end of the stream: no call returns a message any more.
AtEnd == ~open /\ wire = <<>> /\ reader # "idle" /\ Find(work, End) = 0

\* The inductive strengthening of DeliveredInOrder: between the two ends are the
\* bytes of the messages that have been sent and not yet returned.
StreamInv ==
    /\ IsPrefix(got, sent)
    /\ reader = "idle" => work = <<>>
    /\ reader = "reading" => buffer = <<>>
    /\ reader = "failed" => AtEnd
    /\ AtEnd \/ IsStream(Stream, Undelivered)

\* Every message that has been written is returned.
AllDelivered ==
    \A m \in Messages :
        (m \in Range(sent)) ~> (m \in Range(got) \/ ~open)

=============================================================================
