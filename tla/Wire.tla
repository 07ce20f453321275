-------------------------------- MODULE Wire --------------------------------
(***************************************************************************)
(* The bytes between a peer and its worker: handshakes                     *)
(* (src/peer/handshake.rs), messages and their frames                      *)
(* (src/peer/message.rs), the reader of the worker (read_raw_message),     *)
(* what it learns of the peer's pieces, and the answer to a request.       *)
(*                                                                         *)
(* A stream delivers the bytes it is given in order until it breaks, at    *)
(* any byte.  The peer says what it has as the protocol asks: a Have for   *)
(* every new piece; a Bitfield, if it sends one, says what it has then.    *)
(***************************************************************************)
EXTENDS Integers, Sequences, Options

CONSTANTS
    total_pieces, piece_length, total_size, PIECE_BLOCK_SIZE,
    Kept,       \* the pieces that we have
    Had,        \* pieces that a peer may have at first
    News,       \* and those it may come to have
    Requests,   \* the requests a peer may send: records of piece_index, begin, length
    MaxSent,    \* bounds the frames that a peer sends
    MaxEager    \* and those it sends before its handshake is read

\* What a u32 holds: what the four bytes of U32 do.
IsU32(n) == n \in Nat /\ n \div 16777216 < 256

ASSUME WireAssumption ==
    /\ \A r \in Requests : IsU32(r.piece_index) /\ IsU32(r.begin) /\ IsU32(r.length)
    /\ total_pieces \in Nat \ {0} /\ IsU32(total_pieces)
    /\ piece_length \in Nat /\ total_size \in Nat
    /\ total_size >= (total_pieces - 1) * piece_length
    /\ PIECE_BLOCK_SIZE \in Nat /\ IsU32(PIECE_BLOCK_SIZE + 9)
    /\ Kept \cup Had \cup News \subseteq 0 .. (total_pieces - 1)

VARIABLES
    greeting,   \* what the handshake of the peer says
    sent,       \* what the peer has sent: the message, and the pieces it then had
    keepAlives, \* and how many keep-alives, which say nothing
    peerHas,    \* the pieces of the peer
    stream,     \* the bytes on the way
    broken,     \* no more will come
    reader,     \* "handshake", then "reading", or how it ended
    extensions, \* the peer supports the extension protocol
    received,   \* the messages it has passed on
    bitfield    \* what the connection knows of the peer's pieces

wireVars ==
    <<greeting, sent, keepAlives, peerHas, stream, broken, reader, extensions, received,
      bitfield>>

Torrent == INSTANCE DownloadState WITH
    pieces <- <<>>, piece_blocks <- <<>>, requested_blocks <- {}

-----------------------------------------------------------------------------
(* Numbers and bits *)

U32(n) ==
    <<(n \div 16777216) % 256, (n \div 65536) % 256, (n \div 256) % 256, n % 256>>

FromU32(s, i) == 16777216 * s[i] + 65536 * s[i + 1] + 256 * s[i + 2] + s[i + 3]

\* The most significant bit comes first.
Mask(index) == <<128, 64, 32, 16, 8, 4, 2, 1>>[(index % 8) + 1]

has_piece(bits, index) ==
    index \div 8 < Len(bits) /\ (bits[(index \div 8) + 1] \div Mask(index)) % 2 = 1

\* Mutated: the least significant bit comes first.
SetPieceReversed(bits, index) ==
    IF index \div 8 < Len(bits) /\ ~has_piece(bits, index)
    THEN [bits EXCEPT ![(index \div 8) + 1] = @ + Mask(7 - (index % 8))] ELSE bits

set_piece(bits, index) ==
    IF index \div 8 < Len(bits) /\ ~has_piece(bits, index)
    THEN [bits EXCEPT ![(index \div 8) + 1] = @ + Mask(index)] ELSE bits

from_piece_count(count) == [i \in 1 .. ((count + 7) \div 8) |-> 0]

\* Setting a bit that is not set adds its mask.
build_bitfield(pieces) ==
    LET Bit(p) == IF p \in pieces THEN Mask(p) ELSE 0
    IN  [i \in DOMAIN from_piece_count(total_pieces) |->
            Bit(8 * i - 8) + Bit(8 * i - 7) + Bit(8 * i - 6) + Bit(8 * i - 5)
                + Bit(8 * i - 4) + Bit(8 * i - 3) + Bit(8 * i - 2) + Bit(8 * i - 1)]

-----------------------------------------------------------------------------
(* Handshakes *)

Repeated(byte, n) == [i \in 1 .. n |-> byte]

\* The name of the protocol.
PSTR == Repeated(66, 19)

Infohash == Repeated(1, 20)

\* One that differs in its last byte.
OtherInfohash == [Infohash EXCEPT ![20] = 2]

\* Handshake::serialize, and the bit that perform_handshake sets in byte 25.
Handshake(pstr, infohash, ext) ==
    [i \in 1 .. 68 |-> CASE i = 1 -> 19
                         [] i \in 2 .. 20 -> pstr[i - 1]
                         [] i = 26 -> IF ext THEN 16 ELSE 0
                         [] i \in 21 .. 28 /\ i # 26 -> 0
                         [] i \in 29 .. 48 -> infohash[i - 28]
                         [] i \in 49 .. 68 -> 7]

DeserializeHandshake(buf) ==
    IF Len(buf) = 68 /\ buf[1] = 19 /\ SubSeq(buf, 2, 20) = PSTR
    THEN Some([infohash |-> SubSeq(buf, 29, 48), peer_id |-> SubSeq(buf, 49, 68)])
    ELSE None

\* Mutated: the info hash is not compared.
AcceptsAnyTorrent(response) == DeserializeHandshake(response).some

\* The checks of perform_handshake.
Accepts(response) ==
    LET h == DeserializeHandshake(response) IN h.some /\ h.it.infohash = Infohash

-----------------------------------------------------------------------------
(* Messages *)

MessageId ==
    [Choke |-> 0, Unchoke |-> 1, Interested |-> 2, NotInterested |-> 3, Have |-> 4,
     Bitfield |-> 5, Request |-> 6, Piece |-> 7, Cancel |-> 8, Extended |-> 20]

Message(kind, payload) == [kind |-> kind, payload |-> payload]

serialize(m) == U32(1 + Len(m.payload)) \o (<<MessageId[m.kind]>> \o m.payload)

deserialize(buf) ==
    LET kinds == {k \in DOMAIN MessageId : MessageId[k] = buf[5]}
    IN  IF Len(buf) < 5 \/ Len(buf) < 4 + FromU32(buf, 1) \/ kinds = {} THEN None
        ELSE Some(Message(CHOOSE k \in kinds : TRUE, SubSeq(buf, 6, 4 + FromU32(buf, 1))))

request_block(b) ==
    Message("Request", U32(b.piece_index) \o U32(b.begin) \o U32(b.length))

\* PieceRequest::try_from
PieceRequest(m) ==
    IF m.kind \in {"Request", "Cancel"} /\ Len(m.payload) = 12
    THEN Some([piece_index |-> FromU32(m.payload, 1), begin |-> FromU32(m.payload, 5),
               length |-> FromU32(m.payload, 9)])
    ELSE None

build_piece_response(piece_index, begin, data) ==
    Message("Piece", U32(piece_index) \o U32(begin) \o data)

\* The block that handle_piece_message takes a Piece for; a short one is an error.
PieceBlock(m) ==
    IF Len(m.payload) < 8 THEN None
    ELSE Some([piece_index |-> FromU32(m.payload, 1), begin |-> FromU32(m.payload, 5),
               data |-> SubSeq(m.payload, 9, Len(m.payload))])

-----------------------------------------------------------------------------
(* Serving a request *)

\* The bytes of piece p, all different from those of another.
Content(p) == [i \in 1 .. Torrent!get_actual_piece_length(p) |-> p * piece_length + i]

\* Mutated: a block that reaches the end of its piece is out of bounds.
PieceBlockStrict(p, begin, length) ==
    IF p \notin Kept \/ begin + length >= Len(Content(p)) THEN None
    ELSE Some(SubSeq(Content(p), begin + 1, begin + length))

get_piece_block(p, begin, length) ==
    IF p \notin Kept \/ begin + length > Len(Content(p)) THEN None
    ELSE Some(SubSeq(Content(p), begin + 1, begin + length))

\* handle_piece_request, and the flush that follows it.
Answer(m) ==
    LET r == PieceRequest(m)
        data == get_piece_block(r.it.piece_index, r.it.begin, r.it.length)
    IN  IF r.some /\ r.it.length <= PIECE_BLOCK_SIZE /\ data.some
        THEN Some(build_piece_response(r.it.piece_index, r.it.begin, data.it))
        ELSE None

-----------------------------------------------------------------------------
(* The peer *)

\* A peer may serve another torrent, or not speak this protocol.
Greetings ==
    [pstr : {PSTR}, infohash : {Infohash}, ext : BOOLEAN] \cup
    [pstr : {PSTR}, infohash : {OtherInfohash}, ext : {TRUE}] \cup
    [pstr : {Repeated(67, 19)}, infohash : {Infohash}, ext : {TRUE}]

WireInit ==
    /\ greeting \in Greetings
    /\ extensions = FALSE
    /\ sent = <<>> /\ keepAlives = 0
    /\ peerHas \in {{}, Had}
    /\ stream = Handshake(greeting.pstr, greeting.infohash, greeting.ext)
    /\ broken = FALSE
    /\ reader = "handshake"
    /\ received = <<>>
    /\ bitfield = None

KeepAlive == U32(0)

\* A message that this program does not know, such as Port.
Unknown == Message("unknown", <<>>)

Frame(m) == IF m = Unknown THEN U32(1) \o <<9>> ELSE serialize(m)

MaySend ==
    /\ ~broken
    /\ \/ reader = "reading" /\ Len(sent) + keepAlives < MaxSent
       \/ reader = "handshake" /\ Len(sent) + keepAlives < MaxEager

Send(m, has) ==
    /\ MaySend
    /\ sent' = Append(sent, [message |-> m, has |-> has])
    /\ peerHas' = has
    /\ stream' = stream \o Frame(m)
    /\ UNCHANGED <<greeting, keepAlives, broken, reader, extensions, received, bitfield>>

SendHave == \E p \in News : Send(Message("Have", U32(p)), peerHas \cup {p})

SendBitfield == Send(Message("Bitfield", build_bitfield(peerHas)), peerHas)

SendRequest == \E r \in Requests : Send(request_block(r), peerHas)

SendOther == \E m \in {Message("Unchoke", <<>>), Unknown} : Send(m, peerHas)

SendKeepAlive ==
    /\ MaySend
    /\ keepAlives' = keepAlives + 1
    /\ stream' = stream \o KeepAlive
    /\ UNCHANGED <<greeting, sent, peerHas, broken, reader, extensions, received, bitfield>>

Break ==
    /\ ~broken /\ reader \in {"handshake", "reading"}
    /\ broken' = TRUE
    /\ \E n \in 0 .. Len(stream) : stream' = SubSeq(stream, 1, n)
    /\ UNCHANGED <<greeting, sent, keepAlives, peerHas, reader, extensions, received, bitfield>>

-----------------------------------------------------------------------------
(* The reader, and what the worker makes of a message at once *)

\* perform_handshake, when the whole handshake is there; or the stream ends before.
ReadHandshake ==
    /\ reader = "handshake"
    /\ Len(stream) >= 68 \/ broken
    /\ IF Len(stream) >= 68 /\ Accepts(SubSeq(stream, 1, 68))
       THEN /\ reader' = "reading"
            /\ extensions' = ((stream[26] \div 16) % 2 = 1)
            /\ stream' = SubSeq(stream, 69, Len(stream))
       ELSE reader' = "refused" /\ stream' = <<>> /\ UNCHANGED extensions
    /\ UNCHANGED <<greeting, sent, keepAlives, peerHas, broken, received, bitfield>>

FrameLength == 4 + FromU32(stream, 1)

Complete == Len(stream) >= 4 /\ Len(stream) >= FrameLength

Rest == SubSeq(stream, FrameLength + 1, Len(stream))

SkipKeepAlive ==
    /\ reader = "reading" /\ Complete /\ FrameLength = 4
    /\ stream' = Rest
    /\ UNCHANGED <<greeting, sent, keepAlives, peerHas, broken, reader, extensions,
                   received, bitfield>>

\* process_message on a Bitfield or a Have.
Learned(m) ==
    IF m.kind = "Bitfield" THEN Some(m.payload)
    ELSE IF m.kind = "Have" /\ Len(m.payload) = 4 /\ bitfield.some
    THEN Some(set_piece(bitfield.it, FromU32(m.payload, 1)))
    ELSE bitfield

ReadMessage ==
    /\ reader = "reading" /\ Complete /\ FrameLength > 4
    /\ LET m == deserialize(SubSeq(stream, 1, FrameLength))
       IN  IF m.some
           THEN /\ received' = Append(received, m.it)
                /\ bitfield' = Learned(m.it)
                /\ stream' = Rest
                /\ UNCHANGED reader
           ELSE reader' = "error" /\ stream' = <<>> /\ UNCHANGED <<received, bitfield>>
    /\ UNCHANGED <<greeting, sent, keepAlives, peerHas, broken, extensions>>

ReadEnd ==
    /\ reader = "reading" /\ broken /\ ~Complete
    /\ reader' = "eof"
    /\ stream' = <<>>
    /\ UNCHANGED <<greeting, sent, keepAlives, peerHas, broken, extensions, received, bitfield>>

WireNext ==
    \/ SendHave \/ SendBitfield \/ SendRequest \/ SendOther \/ SendKeepAlive \/ Break
    \/ ReadHandshake \/ SkipKeepAlive \/ ReadMessage \/ ReadEnd

WireSpec == WireInit /\ [][WireNext]_wireVars

-----------------------------------------------------------------------------
(* Properties *)

\* Nothing is read of a peer that serves another torrent or speaks another protocol, and
\* what a peer supports is what its handshake says (src/peer/client.rs:72-100).  From then
\* on the reader never loses the frame: it passes on what the peer sent, in order, all of it
\* when nothing is left to read, and ends only at the end of the stream or at a message it
\* does not know.  Once a Bitfield came, the connection knows exactly the pieces the peer
\* had when it sent the last message read; until then it remembers no Have
\* (src/peer/client.rs:285-318, 1014-1045).
ReaderFollows ==
    LET n == Len(received)
    IN  /\ reader \in {"reading", "error", "eof"} =>
              /\ greeting.pstr = PSTR /\ greeting.infohash = Infohash
              /\ extensions = greeting.ext
        /\ n <= Len(sent)
        /\ \A i \in 1 .. n : received[i] = sent[i].message /\ received[i] # Unknown
        /\ reader = "reading" /\ stream = <<>> /\ ~broken => n = Len(sent)
        /\ reader = "error" => n < Len(sent) /\ sent[n + 1].message = Unknown
        /\ reader = "eof" => broken
        /\ bitfield.some <=> \E i \in 1 .. n : received[i].kind = "Bitfield"
        /\ bitfield.some =>
              \A p \in Torrent!Pieces : has_piece(bitfield.it, p) <=> p \in sent[n].has

\* Every request for a block of a piece that is there, whole or in part, is answered with
\* exactly the bytes asked for, under the piece and offset they were asked for; no other
\* is answered (src/peer/client.rs:969-978, src/peer/state.rs:276-293).
BlocksServed ==
    \A i \in {j \in 1 .. Len(received) : received[j].kind = "Request"} :
        LET r == PieceRequest(received[i]).it
            a == Answer(received[i])
        IN  /\ a.some <=> /\ r.piece_index \in Kept /\ r.length <= PIECE_BLOCK_SIZE
                          /\ r.begin + r.length
                                <= Torrent!get_actual_piece_length(r.piece_index)
            /\ a.some => LET b == PieceBlock(deserialize(serialize(a.it)).it).it
                         IN  /\ b.piece_index = r.piece_index /\ b.begin = r.begin
                             /\ Len(b.data) = r.length
                             /\ \A k \in 1 .. r.length :
                                    b.data[k] = Content(r.piece_index)[r.begin + k]

=============================================================================
