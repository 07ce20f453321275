SPECIFICATION PartsSpec
CONSTANTS
    total_pieces = 9
    piece_length = 3
    total_size = 26
    PIECE_BLOCK_SIZE = 2
    Kept = {0, 8}
    Had = {0, 7}
    News = {1, 8}
    Requests <- SomeRequests
    MaxSent = 3
    MaxEager = 1
    MaxInteger = 99
    MaxLength = 99
    METADATA_PIECE_SIZE = 2
    W32 = 8
    W64 = 64
    HashLength = 2
    a1 = a1
    a2 = a2
    a3 = a3
    Addrs = {a1, a2, a3}
    Conns = {c1, c2}
    c1 = c1
    c2 = c2
    Empty = Empty
    MaxSlots = 5
    MaxFragments = 5
    MaxInfoDict = 5
INVARIANTS TypeOK PoolInv IteratorsAgree ReaderFollows BlocksServed ParsesGrammar DictionariesExact MetadataServed SameTorrent
PROPERTIES LeaksOnlyByReinsertion ImplementsMap
SYMMETRY AddrSymmetry
CHECK_DEADLOCK FALSE
