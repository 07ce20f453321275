SPECIFICATION MCSpec
CONSTANTS
    total_pieces = 2
    piece_length = 2
    total_size = 3
    PIECE_BLOCK_SIZE = 1
    w1 = w1
    w2 = w2
    Workers = {w1, w2}
    Addrs = {w1, w2}
    AddrOf <- OwnAddress
    StartOf <- FirstPiece
    Bitfields <- SeedOrFirst
    MAX_PIPELINE_DEPTH = 2
    BATCH_SIZE = 3
    MaxCopies = 2
    MaxAdversity = 2
SYMMETRY WorkerSymmetry
INVARIANTS TypeOK TaskInv NoOrphan PendingWasSent PipelineBounded
PROPERTIES KeepsPromise
\* Two greetings that fail leave both addresses in the table and no task: the code stops.
CHECK_DEADLOCK FALSE
