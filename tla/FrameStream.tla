----------------------------- MODULE FrameStream -----------------------------
(***************************************************************************)
(* analyze_stream (drivers/quansheng/stream.py): the scan of everything a  *)
(* serial call collected for frames, echoes of the request and damage, and *)
(* the collection of the bytes that are left over, one turn of either loop *)
(* an action; and the classification it ends with.                         *)
(*                                                                         *)
(* Header, SizeOf and Status are the codec's (module Frame); a stream comes *)
(* with the frames that were really put on the wire whole, which only the  *)
(* properties look at.                                                     *)
(***************************************************************************)
EXTENDS Integers, Sequences, FiniteSets, SequencesExt, FiniteSetsExt

CONSTANTS
    Streams,        \* [raw, sent]: what is collected, what was sent whole in it
    TX,             \* the transmitted frame, empty for a monitor
    Header,         \* FRAME_HEADER
    HeaderSize,     \* HEADER_SIZE
    SizeOf(_),      \* frame_size_from_header, 0 for a FrameError
    Status(_)       \* decode_frame's checksum status, or its error

VARIABLES
    raw,            \* raw_response
    sent,           \* offset and bytes of each frame sent whole
    cursor,         \* offset of the next byte to look at
    candidates,     \* frame candidates, in order
    consumed,       \* where the frames and echoes that were taken lie
    collected,      \* how many of them the second loop has passed
    position,       \* offset up to which it has collected
    unparsed,       \* unparsed_bytes: the bytes outside the consumed frames
    classification  \* none until both loops have ended

collecting == <<collected, position, unparsed>>
vars == <<raw, sent, cursor, candidates, consumed, collecting, classification>>

Accepted == {"valid", "accepted-legacy-ff-ff"}

\* No frame begins with a zero byte. The request, if there is one, is a frame.
\* A frame that was sent whole is there, begins like one, has the size it
\* declares and decodes; two of them lie one after the other.
ASSUME StreamAssumption ==
    /\ Header \in Seq(Nat) /\ HeaderSize \in Nat
    /\ 1 <= Len(Header) /\ Len(Header) <= HeaderSize /\ Header[1] # 0
    /\ TX \in Seq(Nat)
    /\ TX # << >> =>
        /\ HeaderSize <= Len(TX) /\ SubSeq(TX, 1, Len(Header)) = Header
        /\ SizeOf(SubSeq(TX, 1, HeaderSize)) = Len(TX)
    /\ \A s \in Streams :
        /\ s.raw \in Seq(Nat)
        /\ \A o \in 1..(Len(s.raw) + 1 - HeaderSize) :
            SizeOf(SubSeq(s.raw, o, o + HeaderSize - 1)) \in Nat
        /\ \A frame \in s.sent :
            /\ frame.offset \in 1..Len(s.raw) /\ frame.data \in Seq(Nat)
            /\ HeaderSize <= Len(frame.data)
            /\ frame.offset + Len(frame.data) <= Len(s.raw) + 1
            /\ frame.data = SubSeq(s.raw, frame.offset, frame.offset + Len(frame.data) - 1)
            /\ SubSeq(frame.data, 1, Len(Header)) = Header
            /\ SizeOf(SubSeq(frame.data, 1, HeaderSize)) = Len(frame.data)
            /\ Status(frame.data) \in Accepted
        /\ \A f, g \in s.sent :
            f = g \/ f.offset + Len(f.data) <= g.offset \/ g.offset + Len(g.data) <= f.offset

Classifications ==
    {"no-response", "echo-followed-by-response", "framed-response", "echo-only",
     "transmit-echo", "partial-transmit-echo", "null-byte-response",
     "incomplete-response", "invalid-frame", "unframed-binary-response"}

\* A candidate covers the offsets from offset up to and without end.
Taken == {"echo"} \cup Accepted
Kinds == {"incomplete", "invalid"} \cup Taken

TypeOK ==
    /\ cursor \in 1..(Len(raw) + 1)
    /\ \A i \in DOMAIN candidates :
        /\ candidates[i].kind \in Kinds
        /\ candidates[i].offset \in 1..Len(raw)
        /\ candidates[i].end \in (candidates[i].offset + 1)..(Len(raw) + 1)
    /\ \A k \in DOMAIN consumed :
        /\ consumed[k].offset \in 1..Len(raw)
        /\ consumed[k].end \in (consumed[k].offset + 1)..(Len(raw) + 1)
    /\ collected \in 0..Len(consumed)
    /\ position \in 1..(Len(raw) + 1)
    /\ unparsed \in Seq(Nat)
    /\ classification \in Classifications \cup {"none"}

-----------------------------------------------------------------------------
Slice(from, end) == SubSeq(raw, from, end - 1)

HeadersFrom(from) ==
    {i \in from..(Len(raw) - Len(Header) + 1) : Slice(i, i + Len(Header)) = Header}

\* echoes and valid_frames, of which only matters whether there are any.
Echoes == {i \in DOMAIN candidates : candidates[i].kind = "echo"}
Valid == {i \in DOMAIN candidates : candidates[i].kind \in Accepted}

\* _partial_echo_suffix: the unparsed bytes end like the request begins.
PartialEcho(bytes) ==
    \E n \in 1..Min({Len(bytes), Len(TX) - 1}) :
        SubSeq(bytes, Len(bytes) - n + 1, Len(bytes)) = SubSeq(TX, 1, n)

\* Faulty variant of Unparsed: what follows the last frame is left out.
UnparsedBetween == unparsed

\* The bytes outside the consumed frames, once all of these are passed.
Unparsed == unparsed \o Slice(position, Len(raw) + 1)

Classify ==
    IF raw = << >> THEN "no-response"
    ELSE IF Valid # {} /\ Echoes # {} THEN "echo-followed-by-response"
    ELSE IF Valid # {} THEN "framed-response"
    ELSE IF Echoes # {} /\ Unparsed = << >> THEN "echo-only"
    ELSE IF Echoes # {} THEN "transmit-echo"
    ELSE IF PartialEcho(Unparsed) THEN "partial-transmit-echo"
    ELSE IF \A i \in DOMAIN raw : raw[i] = 0 THEN "null-byte-response"
    ELSE IF \E i \in DOMAIN candidates : candidates[i].kind = "incomplete"
         THEN "incomplete-response"
    ELSE IF candidates # << >> THEN "invalid-frame"
    ELSE "unframed-binary-response"

-----------------------------------------------------------------------------
Init ==
    /\ \E s \in Streams : raw = s.raw /\ sent = s.sent
    /\ cursor = 1
    /\ candidates = << >> /\ consumed = << >>
    /\ collected = 0 /\ position = 1 /\ unparsed = << >>
    /\ classification = "none"

\* raw_response.find(FRAME_HEADER, cursor), after which the scan goes on.
Found == {i \in HeadersFrom(cursor) : \A j \in HeadersFrom(cursor) : i <= j}

HeaderCut(offset) == offset + HeaderSize > Len(raw) + 1

size(offset) == SizeOf(Slice(offset, offset + HeaderSize))

\* The frame of the declared size, when there is one and it is there whole.
WholeFrames(offset) ==
    IF HeaderCut(offset) THEN {}
    ELSE {Slice(offset, offset + n) :
            n \in {size(offset)} \cap 1..(Len(raw) + 1 - offset)}

Record(kind, offset, end, next) ==
    /\ classification = "none"
    /\ candidates' = Append(candidates, [kind |-> kind, offset |-> offset, end |-> end])
    /\ consumed' = IF kind \in Taken
                   THEN Append(consumed, [offset |-> offset, end |-> end]) ELSE consumed
    /\ cursor' = next
    /\ UNCHANGED <<raw, sent, collecting, classification>>

\* A candidate that the stream cuts short takes everything that is left.
Cut(offset) ==
    /\ HeaderCut(offset) \/ (size(offset) # 0 /\ WholeFrames(offset) = {})
    /\ Record("incomplete", offset, Len(raw) + 1, Len(raw) + 1)

\* Faulty variant of BadHeader: the scan stays where it is.
BadHeaderAgain(offset) ==
    /\ ~HeaderCut(offset) /\ size(offset) = 0
    /\ UNCHANGED vars

BadHeader(offset) ==
    /\ ~HeaderCut(offset) /\ size(offset) = 0
    /\ Record("invalid", offset, offset + HeaderSize, offset + 1)

\* Faulty variant of Echo: it is taken for a frame like any other.
EchoAsFrame(offset, frame) ==
    /\ frame = TX
    /\ Record(Status(frame), offset, offset + Len(frame), offset + Len(frame))

Echo(offset, frame) ==
    /\ frame = TX
    /\ Record("echo", offset, offset + Len(frame), offset + Len(frame))

\* Faulty variant of BadFrame: the scan goes on after the frame it refused.
BadFrameSkipped(offset, frame) ==
    /\ frame # TX /\ Status(frame) \notin Accepted
    /\ Record("invalid", offset, offset + Len(frame), offset + Len(frame))

\* The scan goes on one byte later: a good frame may begin inside a bad one.
BadFrame(offset, frame) ==
    /\ frame # TX /\ Status(frame) \notin Accepted
    /\ Record("invalid", offset, offset + Len(frame), offset + 1)

GoodFrame(offset, frame) ==
    /\ frame # TX /\ Status(frame) \in Accepted
    /\ Record(Status(frame), offset, offset + Len(frame), offset + Len(frame))

\* The first loop is over.
Scanned == classification = "none" /\ HeadersFrom(cursor) = {}

\* One turn of the loop over consumed.
Collect ==
    /\ Scanned /\ collected < Len(consumed)
    /\ LET taken == consumed[collected + 1]
       IN  /\ unparsed' = unparsed \o Slice(position, taken.offset)
           /\ position' = Max({position, taken.end})
    /\ collected' = collected + 1
    /\ UNCHANGED <<raw, sent, cursor, candidates, consumed, classification>>

Finish ==
    /\ Scanned /\ collected = Len(consumed)
    /\ unparsed' = Unparsed
    /\ classification' = Classify
    /\ UNCHANGED <<raw, sent, cursor, candidates, consumed, collected, position>>

Candidate ==
    \E offset \in Found :
        \/ Cut(offset)
        \/ BadHeader(offset)
        \/ \E frame \in WholeFrames(offset) :
            \/ Echo(offset, frame)
            \/ BadFrame(offset, frame)
            \/ GoodFrame(offset, frame)

Step == Candidate \/ Collect \/ Finish

Finished == classification # "none" /\ UNCHANGED vars

Next == Step \/ Finished

\* The loops of a function that is called run.
Spec == Init /\ [][Next]_vars /\ WF_vars(Step)

-----------------------------------------------------------------------------
(* Safety.                                                                 *)

Covers(c, i) == c.offset <= i /\ i < c.end

Outside == {i \in DOMAIN raw : \A k \in DOMAIN consumed : ~Covers(consumed[k], i)}

\* How many bytes up to n are outside the consumed frames.
Rank(n) == Cardinality({i \in Outside : i <= n})

\* The consumed frames do not overlap, and together with the unparsed bytes,
\* which keep their order, they are the whole response: no byte of evidence is
\* lost, moved or counted twice.
BytesArePartitioned ==
    /\ \A i, j \in DOMAIN consumed : i < j => consumed[i].end <= consumed[j].offset
    /\ classification # "none" =>
        /\ Len(unparsed) = Cardinality(Outside)
        /\ \A i \in Outside : unparsed[Rank(i)] = raw[i]

\* What is taken for an echo, or for a response with a valid checksum, was sent,
\* whole and at that place, and no response is an echo of the request.
ResponsesWereSent ==
    \A c \in ToSet(candidates) :
        /\ c.kind \in Accepted => Slice(c.offset, c.end) # TX
        /\ c.kind \in {"echo", "valid"} =>
                [offset |-> c.offset, data |-> Slice(c.offset, c.end)] \in sent

\* No noise in the stream happens to be a frame: where a copy of the request
\* lies, or bytes of the size they declare with a valid checksum, it was sent.
NoFrameByChance(s) ==
    \A o \in DOMAIN s.raw :
        LET cut(end) == SubSeq(s.raw, o, end - 1)
            end == o + SizeOf(cut(o + HeaderSize))
        IN  /\ o + HeaderSize <= Len(s.raw) + 1 /\ o < end /\ end <= Len(s.raw) + 1
            /\ cut(end) = TX \/ Status(cut(end)) = "valid"
            => [offset |-> o, data |-> cut(end)] \in s.sent

IsFound(f) == \E c \in ToSet(candidates) : c.kind \in Taken /\ c.offset = f.offset

\* Where bytes that belong to no frame that was sent look like the beginning of one.
Strays ==
    {o \in HeadersFrom(1) :
        \A f \in sent : o < f.offset \/ f.offset + Len(f.data) <= o}

\* The frame that the header at o declares reaches over i, and either the
\* stream ends within it or it passes for a frame.
Swallows(o, i) ==
    /\ o < i /\ i < o + size(o)
    /\ \A frame \in WholeFrames(o) : frame = TX \/ Status(frame) \in Accepted

\* Whatever noise and damage lie around it, before it and between the frames
\* before it, a frame that was sent whole is found, if only no stray header
\* swallows its first byte or that of a frame before it.
FramesAreRecovered ==
    classification # "none" => \A f \in sent :
        (\A g \in sent, o \in Strays : g.offset <= f.offset => ~Swallows(o, g.offset))
        => IsFound(f)

\* What protocol.md says of the scan, that it "scans every `ab cd` candidate" and
\* "continues looking for a non-echo response", and so finds every frame that
\* was sent whole.  It does not: behind a stray header that declares more bytes
\* than are left it looks at nothing, a whole response included.
EveryFrameIsFound == classification # "none" => \A f \in sent : IsFound(f)

\* The n-th copy of the request, if the stream is copies of it and no more.
CopyAt(n) == Slice(n * Len(TX) + 1, (n + 1) * Len(TX) + 1)

IsEchoes ==
    \E n \in 1..Len(raw) :
        n * Len(TX) = Len(raw) /\ \A m \in 0..(n - 1) : CopyAt(m) = TX

HoldsEcho == \E i \in DOMAIN raw : Slice(i, i + Len(TX)) = TX

\* What it means of the stream that it is classified as c.
Means(c) ==
    /\ (c = "no-response") <=> (raw = << >>)
    /\ (c = "echo-only") <=> IsEchoes
    /\ (c = "null-byte-response") <=> (raw # << >> /\ \A i \in DOMAIN raw : raw[i] = 0)
    /\ c \in {"transmit-echo", "echo-followed-by-response"} => HoldsEcho
    /\ c \in {"framed-response", "echo-followed-by-response"} <=>
            \E i \in DOMAIN candidates :
                /\ candidates[i].kind \in Accepted
                /\ Slice(candidates[i].offset, candidates[i].end) # TX
    /\ c = "incomplete-response" =>
            candidates[Len(candidates)].kind = "incomplete" /\ cursor = Len(raw) + 1
    /\ c = "unframed-binary-response" => HeadersFrom(1) = {}

\* The classifications mean of the stream what transport-diagnostics.md says:
\* only TX copies, only zero bytes, nothing at all; a stream is called an echo
\* when it holds one, a response when it has one that is none, cut when its
\* last candidate is, and unframed when no frame begins anywhere in it.
ClassificationIsExact == classification # "none" => Means(classification)

-----------------------------------------------------------------------------
(* Liveness.                                                               *)

\* Both loops end on any bytes whatever.
ScanEnds == <>(classification # "none")
=============================================================================
