---------------------------- MODULE MCFrameStream ----------------------------
(* Streams put together from frames, echoes, damage and noise, with the real *)
(* codec; and one frame with every byte replaced by every other.             *)
EXTENDS Frame, Crc, FrameStream

\* IDENTIFY_HANDSHAKE and its known vector (docs/protocol.md).
MCRequest == <<20, 5, 4, 0, 106, 57, 87, 100>>
MCTX == <<171, 205, 8, 0, 2, 105, 16, 230, 68, 168, 90, 36, 185, 169, 220, 186>>

ASSUME KnownVectors ==
    /\ encode_frame(MCRequest) = MCTX
    /\ crc16_xmodem(<<49, 50, 51, 52, 53, 54, 55, 56, 57>>) = 12739

Response == encode_frame(<<21>>)

\* Its protected payload reads AB CD 00 00: a header inside a frame.
Nested == encode_frame(<<189, 161, 20, 230>>)

\* The payload of Response with FF FF for a checksum.
Legacy ==
    FRAME_HEADER \o <<1, 0>> \o xor_transform(<<21, 255, 255>>) \o FRAME_FOOTER

Replaced(bytes, i, octet) == [bytes EXCEPT ![i] = octet]

Pieces ==
    [whole : {TRUE}, data : {MCTX, Response, Nested, Legacy}]
    \cup [whole : {FALSE}, data :
        {<<0>>, <<42>>, <<171>>,                                     \* noise
         SubSeq(MCTX, 1, 7), SubSeq(Response, 1, 7),                 \* cut
         <<171, 205, 8, 7>>,                                         \* reserved byte
         <<171, 205, 2, 0>>, <<171, 205, 9, 0>>, <<171, 205, 40, 0>>,    \* stray headers
         Replaced(Response, 9, 0)}]                                  \* footer

MaxPieces == 3

Joined(pieces) ==
    LET offsets == [i \in DOMAIN pieces |->
            1 + FoldLeft(LAMBDA n, p : n + Len(p.data), 0, SubSeq(pieces, 1, i - 1))]
    IN  [raw  |-> FlattenSeq([i \in DOMAIN pieces |-> pieces[i].data]),
         sent |-> {[offset |-> offsets[i], data |-> pieces[i].data] :
                        i \in {j \in DOMAIN pieces : pieces[j].whole}}]

Damaged == [whole : {FALSE}, data :
    {Replaced(Response, i, octet) : i \in DOMAIN Response, octet \in Octets} \ {Response}]

MCStreams ==
    {Joined(pieces) : pieces \in UNION {[1..n -> Pieces] : n \in 0..MaxPieces}}
        \cup {Joined(<<p, [whole |-> TRUE, data |-> Response]>>) : p \in Damaged}

\* What the scan can find in a stream, decoded once.
FramesIn(bytes) ==
    UNION {LET n == frame_size_from_header(SubSeq(bytes, i, i + HEADER_SIZE - 1))
           IN  IF n \in 1..(Len(bytes) + 1 - i) THEN {SubSeq(bytes, i, i + n - 1)} ELSE {} :
           i \in 1..(Len(bytes) + 1 - HEADER_SIZE)}

Statuses ==
    [frame \in UNION {FramesIn(s.raw) : s \in MCStreams} |-> decode_frame(frame)]

MCStatus(frame) == Statuses[frame]

\* No noise in these streams is a frame by chance.
ASSUME NoiseIsNoise == \A s \in MCStreams : NoFrameByChance(s)
=============================================================================
