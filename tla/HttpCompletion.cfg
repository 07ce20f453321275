\* The tracker of the torrent is spoken to over HTTP.
SPECIFICATION FairSpec
CONSTANTS
    http = http
    p1 = p1
    p2 = p2
    Trackers = {http}
    Udp = {}
    First = http
    Peers = {p1, p2}
    Pieces = {1, 2}
    EnoughPeers = 2
    DefaultInterval = 60
    Lists <- SomeLists
    Intervals <- NamedIntervals
    MaxUdpPeers = 1
PROPERTY SessionWrites
CHECK_DEADLOCK FALSE
