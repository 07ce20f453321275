\* Two tasks, two pieces, the limits of the code.
SPECIFICATION FairSpec
CONSTANTS
    Workers = {w1, w2}
    Pieces = {p1, p2}
    MaxQueue = 16
    BatchSize = 4
INVARIANTS TypeOK LockOrder AnsweredAtOnce
PROPERTIES LocksGranted Answered
