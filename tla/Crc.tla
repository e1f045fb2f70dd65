--------------------------------- MODULE Crc ---------------------------------
(***************************************************************************)
(* The checksum of a frame, CRC-16/XMODEM (drivers/quansheng/frame.py),    *)
(* and the exclusive or of two octets.                                     *)
(***************************************************************************)
EXTENDS Integers, Sequences, SequencesExt, Bitwise

XorOctets(a, b) == a ^^ b

CrcBit(crc) ==
    IF crc >= 32768 THEN ((crc * 2) % 65536) ^^ 4129 ELSE crc * 2

CrcOctet(crc, octet) ==
    FoldLeft(LAMBDA c, i : CrcBit(c), crc ^^ (octet * 256), [i \in 1..8 |-> i])

crc16_xmodem(data) == FoldLeft(CrcOctet, 0, data)
=============================================================================
