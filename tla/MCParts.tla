------------------------------ MODULE MCParts ------------------------------
(***************************************************************************)
(* The parts in which nothing runs concurrently, each a subject of its     *)
(* own: a bencoded source that grows, the bytes of an info dictionary that *)
(* is served, a decoded .torrent file, the stream of a peer, and the table *)
(* of connections with at most MaxSlots slots.                             *)
(***************************************************************************)
EXTENDS ConnectionPool, Wire, MetadataMessages, TorrentFile, TLC

CONSTANTS
    MaxFragments, MaxInfoDict,  \* bound a source and a dictionary
    MaxSlots                    \* bounds the table

VARIABLES subject,
          size  \* of the source, in fragments or bytes

partsVars == <<vars, subject, size, source, metadata, file, wireVars>>

AddrSymmetry == Permutations(Addrs)

Chars(text) == [i \in 1 .. Len(text) |-> SubSeq(text, i, i)]

Request(p, begin, length) == [piece_index |-> p, begin |-> begin, length |-> length]

\* A block; one that exceeds its piece; the last block; a piece that does not exist; a
\* length no block has; a piece that we do not have.
SomeRequests ==
    {Request(0, 1, 2), Request(0, 2, 2), Request(8, 0, 2), Request(9, 0, 1),
     Request(0, 0, 3), Request(1, 0, 1)}

Fragments == {"d", "l", "e", "i", "-", "+", "0", "1", "0:", "1:"}

\* Bytes that look like the end of what they follow.
InfoBytes == {"d", "e", "1", ":"}

AnyInteger == {Integer(n) : n \in {-1, 0, 3, 5, 11}}

Infos ==
    [name : {Absent, Text, Bytes(1)},
     piece_length : {Absent, Integer(-1), Integer(3), Integer(8), Text},
     length : {Absent, Text} \cup AnyInteger,
     pieces : {Absent, Text} \cup {Bytes(n) : n \in {0, 2, 4, 8}} \cup {Bytes(3)},
     files : {Absent, Files(<<>>), Files(<<Integer(3), Integer(2)>>),
              Files(<<Integer(5), Absent>>)}]

TorrentFiles ==
    [announce : {Absent, Text}, creation_date : {Absent, Integer(1)}, info : Infos]

NoTorrent ==
    [announce |-> Absent, creation_date |-> Absent,
     info |-> [name |-> Absent, piece_length |-> Absent, length |-> Absent,
               pieces |-> Absent, files |-> Absent]]

PartsInit ==
    /\ subject \in {"source", "info dictionary", "file", "stream", "table"}
    /\ Init
    /\ size = 0 /\ source = <<>>
    /\ metadata = IF subject = "info dictionary" THEN Some(<<>>) ELSE None
    /\ IF subject = "file" THEN file \in TorrentFiles ELSE file = NoTorrent
    /\ IF subject = "stream" THEN WireInit
       ELSE /\ greeting = <<>> /\ sent = <<>> /\ keepAlives = 0 /\ peerHas = {}
            /\ stream = <<>> /\ broken = TRUE /\ reader = "none" /\ extensions = FALSE
            /\ received = <<>> /\ bitfield = None

Grow ==
    /\ \/ subject = "source" /\ size < MaxFragments
          /\ \E t \in Fragments : source' = source \o Chars(t)
          /\ UNCHANGED metadata
       \/ subject = "info dictionary" /\ size < MaxInfoDict
          /\ \E b \in InfoBytes : metadata' = Some(Append(metadata.it, b))
          /\ UNCHANGED source
    /\ size' = size + 1
    /\ UNCHANGED <<subject, file, wireVars, vars>>

PartsNext ==
    \/ Grow
    \/ /\ subject = "stream" /\ WireNext
       /\ UNCHANGED <<subject, size, source, metadata, file, vars>>
    \/ /\ subject = "table" /\ Next /\ Len(connections') <= MaxSlots
       /\ UNCHANGED <<subject, size, source, metadata, file, wireVars>>

PartsSpec == PartsInit /\ [][PartsNext]_partsVars

=============================================================================
