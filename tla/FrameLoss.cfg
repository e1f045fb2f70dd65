SPECIFICATION Spec
CONSTANTS
    Streams <- MCStreams
    TX <- MCTX
    Header <- FRAME_HEADER
    HeaderSize <- HEADER_SIZE
    SizeOf <- frame_size_from_header
    Status <- MCStatus
    ExclusiveOr <- XorOctets
    Checksum <- crc16_xmodem
INVARIANTS
    EveryFrameIsFound
