SPECIFICATION FairSpec
CONSTANTS
    udp = udp
    http = http
    p1 = p1
    p2 = p2
    Trackers = {udp, http}
    Udp = {udp}
    First = udp
    Peers = {p1, p2}
    Pieces = {1, 2}
    EnoughPeers = 2
    DefaultInterval = 60
    Lists <- SomeLists
    Intervals <- NamedIntervals
    MaxUdpPeers = 1
INVARIANTS TypeOK OwnAnswer WritesWhole GivesUpRightly
PROPERTIES QuietAfterAbort SessionWrites KeepsAnnouncing ComesToRest
CHECK_DEADLOCK FALSE
