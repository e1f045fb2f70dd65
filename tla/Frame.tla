-------------------------------- MODULE Frame --------------------------------
(***************************************************************************)
(* The wire format of a Quansheng frame (drivers/quansheng/frame.py):      *)
(* header, payload length, a reserved zero, the payload and its checksum   *)
(* under a repeating XOR key, footer.  A byte is a number below 256.  The  *)
(* arithmetic of bits is a parameter (module Crc).                         *)
(***************************************************************************)
EXTENDS Integers, Sequences

CONSTANTS
    ExclusiveOr(_, _),      \* a ^ b of two octets
    Checksum(_)     \* crc16_xmodem

FRAME_HEADER == <<171, 205>>
FRAME_FOOTER == <<220, 186>>
XOR_KEY == <<22, 108, 20, 230, 46, 145, 13, 64, 33, 53, 213, 64, 19, 3, 233, 128>>

HEADER_SIZE == 4
CHECKSUM_SIZE == 2
FOOTER_SIZE == 2
MAX_PAYLOAD_SIZE == 255

Octets == 0..255
Words == 0..65535     \* what two octets hold

\* What encode_frame takes; it raises a FrameError for a longer payload.
Payloads == {payload \in Seq(Octets) : Len(payload) \in 0..MAX_PAYLOAD_SIZE}

\* The key is taken off as it was put on.
ASSUME XorAssumption ==
    \A a, b \in Octets : ExclusiveOr(a, b) \in Octets /\ ExclusiveOr(ExclusiveOr(a, b), b) = a

-----------------------------------------------------------------------------
xor_transform(data) ==
    [i \in DOMAIN data |-> ExclusiveOr(data[i], XOR_KEY[((i - 1) % Len(XOR_KEY)) + 1])]

\* int.to_bytes(2, "little")
LittleEndian(n) == <<n % 256, n \div 256>>

encode_frame(payload) ==
    FRAME_HEADER \o <<Len(payload), 0>>
        \o xor_transform(payload \o LittleEndian(Checksum(payload))) \o FRAME_FOOTER

\* frame_size_from_header of a whole header; 0 stands for a FrameError.  A
\* declared length cannot exceed the limit, which is that of its byte.
frame_size_from_header(header) ==
    IF SubSeq(header, 1, 2) = FRAME_HEADER /\ header[4] = 0
    THEN HEADER_SIZE + header[3] + CHECKSUM_SIZE + FOOTER_SIZE
    ELSE 0

\* What decode_frame finds in a frame of its declared size: its payload and its
\* checksum status, or that of the error it raises.
protected(frame) == xor_transform(SubSeq(frame, HEADER_SIZE + 1, Len(frame) - FOOTER_SIZE))

decoded_payload(frame) == SubSeq(protected(frame), 1, frame[3])

decode_frame(frame) ==
    LET checksum == SubSeq(protected(frame), frame[3] + 1, Len(protected(frame)))
    IN  IF SubSeq(frame, Len(frame) - 1, Len(frame)) # FRAME_FOOTER THEN "invalid-footer"
        ELSE IF checksum = <<255, 255>> THEN "accepted-legacy-ff-ff"
        ELSE IF checksum = LittleEndian(Checksum(decoded_payload(frame))) THEN "valid"
        ELSE "mismatch"
=============================================================================
