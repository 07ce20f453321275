SPECIFICATION Spec
CONSTANTS
    total_pieces = 1
    piece_length = 2
    total_size = 2
    PIECE_BLOCK_SIZE = 1
    w1 = w1
    w2 = w2
    Workers = {w1, w2}
    Addrs = {a1}
    AddrOf <- SharedAddress
    StartOf <- FirstPiece
    Bitfields <- Seed
    MAX_PIPELINE_DEPTH = 2
    BATCH_SIZE = 3
    MaxCopies = 2
    a1 = a1
INVARIANT NoOrphan
CHECK_DEADLOCK FALSE
