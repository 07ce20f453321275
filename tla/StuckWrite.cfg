\* Two tasks, one piece, the limits of the code.
SPECIFICATION FairSpec
CONSTANTS
    Workers = {w1, w2}
    Pieces = {p1}
    MaxQueue = 16
    BatchSize = 4
PROPERTIES LocksAlwaysGranted
