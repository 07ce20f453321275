SPECIFICATION FairSpec
CONSTANTS
    NumPeers = 4
    CONCURRENT = 2
    MAX_RETRIES = 3
    MaxPieces = 2
INVARIANTS TypeOK CountMatches AlwaysAsking PoolFull
PROPERTIES KeepsPromise FetchEnds
\* The fetch returns and stops.
CHECK_DEADLOCK FALSE
