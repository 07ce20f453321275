-------------------------- MODULE MetadataMessages --------------------------
(***************************************************************************)
(* The ut_metadata messages (src/peer/metadata.rs): how the client builds, *)
(* recognises and answers them.  The payload of an Extended message is its *)
(* first byte, id, and the rest, data.                                     *)
(***************************************************************************)
EXTENDS Bencode, Options, Widths, SequencesExt

CONSTANT METADATA_PIECE_SIZE    \* bytes in a piece of the metadata

VARIABLE metadata               \* the info dictionary of a client, if it has it

OUR_UT_METADATA_ID == 1

Extended(id, data) == [id |-> id, data |-> data]

-----------------------------------------------------------------------------
(* Building *)

Key ==
    [m             |-> <<"m">>,
     ut_metadata   |-> <<"u", "t", "_", "m", "e", "t", "a", "d", "a", "t", "a">>,
     metadata_size |-> <<"m", "e", "t", "a", "d", "a", "t", "a", "_", "s", "i", "z", "e">>,
     msg_type      |-> <<"m", "s", "g", "_", "t", "y", "p", "e">>,
     piece         |-> <<"p", "i", "e", "c", "e">>,
     total_size    |-> <<"t", "o", "t", "a", "l", "_", "s", "i", "z", "e">>]

\* The digits that format! puts for a number.
Decimal(n) ==
    LET d[k \in 0 .. n] == IF k < 10 THEN <<Numerals[k + 1]>>
                           ELSE Append(d[k \div 10], Numerals[(k % 10) + 1])
    IN  d[n]

BenString(length, bytes) == length \o <<":">> \o bytes

BenInteger(digits) == <<"i">> \o digits \o <<"e">>

BenDict(fields) == <<"d">> \o fields \o <<"e">>

create_extension_handshake(metadata_size) ==
    LET m == BenDict(BenString(<<"1", "1">>, Key.ut_metadata)
                     \o BenInteger(Decimal(OUR_UT_METADATA_ID)))
        size == BenString(<<"1", "3">>, Key.metadata_size)
                \o BenInteger(Decimal(metadata_size.it))
    IN  Extended(0, BenDict(BenString(<<"1">>, Key.m) \o m
                            \o (IF metadata_size.some THEN size ELSE <<>>)))

\* What every metadata message begins with.
Fields(msg_type, piece) ==
    BenString(<<"8">>, Key.msg_type) \o BenInteger(<<msg_type>>)
    \o BenString(<<"5">>, Key.piece) \o BenInteger(Decimal(piece))

create_metadata_request(id, piece) == Extended(id, BenDict(Fields("0", piece)))

create_metadata_data_response(id, piece, data, size) ==
    Extended(id, BenDict(Fields("1", piece) \o BenString(<<"1", "0">>, Key.total_size)
                                            \o BenInteger(Decimal(size)))
                 \o data)

create_metadata_reject(id, piece) == Extended(id, BenDict(Fields("2", piece)))

-----------------------------------------------------------------------------
(* Recognising *)

\* The entries of the dictionary that a parsed source begins with.
Entries(r) ==
    IF r.ok /\ r.value # <<>> /\ r.value[1].kind = "dict"
    THEN Some(r.value[1].entries) ELSE None

\* What these entries hold under a key, if it is of this kind.
ValueAt(entries, key, kind) ==
    IF entries.some /\ key \in DOMAIN entries.it /\ entries.it[key].kind = kind
    THEN Some(entries.it[key]) ELSE None

IntegerAt(entries, key) ==
    LET v == ValueAt(entries, key, "integer") IN IF v.some THEN Some(v.it.n) ELSE None

AsU8(n) == n % 256

Sub(entries, key) ==
    LET v == ValueAt(entries, key, "dict") IN IF v.some THEN Some(v.it.entries) ELSE None

parse_handshake_ut_metadata_id(m) ==
    LET named(id) == IF m.id = 0 /\ id.some THEN Some(AsU8(id.it)) ELSE None
    IN  named(IntegerAt(Sub(Entries(parse(m.data)), Key.m), Key.ut_metadata))

\* What the fetch needs of a handshake; without either field the attempt fails.
receive_extension_handshake(m) ==
    LET named(id, size) ==
            IF id.some /\ size.some
            THEN Some([ut_metadata |-> AsU8(id.it), metadata_size |-> size.it]) ELSE None
        of(entries) == named(IntegerAt(Sub(entries, Key.m), Key.ut_metadata),
                             IntegerAt(entries, Key.metadata_size))
    IN  of(Entries(parse(m.data)))

\* The end of the dictionary of a metadata message.  When the data begins with a string
\* that is cut short, the end lies behind the data and taking the slice panics.
Panics(m) == find_bencode_end(m.data) > Len(m.data)

Header(m) == Entries(parse(SubSeq(m.data, 1, find_bencode_end(m.data))))

parse_metadata_request(m, expected) ==
    LET asked(type, piece) ==
            IF m.id = expected /\ type = Some(0) /\ piece.some
            THEN Some(piece.it % W32) ELSE None
        of(entries) == asked(IntegerAt(entries, Key.msg_type), IntegerAt(entries, Key.piece))
    IN  of(Header(m))

NoPiece == [is |-> "no piece"]

Failed == [is |-> "error"]

\* A panic ends the attempt as an error does.
parse_metadata_piece(m, expected) ==
    LET made(end, type, piece) ==
            IF type = Some(2) THEN Failed
            ELSE IF type = Some(1) /\ piece.some
            THEN [is |-> "piece", piece |-> piece.it % W64,
                  data |-> SubSeq(m.data, end + 1, Len(m.data))]
            ELSE NoPiece
        of(end, r) ==
            IF ~r.ok THEN Failed
            ELSE made(end, IntegerAt(Entries(r), Key.msg_type), IntegerAt(Entries(r), Key.piece))
        upTo(end) ==
            IF end = NoEnd \/ Panics(m) THEN Failed
            ELSE of(end, parse(SubSeq(m.data, 1, end)))
    IN  IF m.id # expected THEN NoPiece ELSE upTo(find_bencode_end(m.data))

-----------------------------------------------------------------------------
(* Answering *)

\* Mutated: a piece that begins at the end of the dictionary is taken for one of it.
BeyondLate(info_dict, start) == start > Len(info_dict)

Beyond(info_dict, start) == start >= Len(info_dict)

\* The answer to a request for a piece, when the dictionary is there or not.
Response(id, info_dict, piece) ==
    LET start == piece * METADATA_PIECE_SIZE
        end == IF start + METADATA_PIECE_SIZE < Len(info_dict.it)
               THEN start + METADATA_PIECE_SIZE ELSE Len(info_dict.it)
    IN  IF ~info_dict.some \/ Beyond(info_dict.it, start)
        THEN create_metadata_reject(id, piece)
        ELSE create_metadata_data_response(
                id, piece, SubSeq(info_dict.it, start + 1, end), Len(info_dict.it))

\* conn: the id the peer has named, if it has, and the answers not sent yet; panicked, the
\* task of the peer is gone.
handle_extended_message(conn, info_dict, m) ==
    LET learn(id) == IF id.some THEN [conn EXCEPT !.peer_ut_metadata_id = id] ELSE conn
        answer(piece) ==
            IF piece.some /\ conn.peer_ut_metadata_id.some
            THEN [conn EXCEPT !.pending_metadata_responses =
                     Append(@, Response(conn.peer_ut_metadata_id.it, info_dict, piece.it))]
            ELSE conn
    IN  IF m.id = 0 THEN learn(parse_handshake_ut_metadata_id(m))
        ELSE IF m.id # OUR_UT_METADATA_ID THEN conn
        ELSE IF Panics(m) THEN [conn EXCEPT !.panicked = TRUE]
        ELSE answer(parse_metadata_request(m, OUR_UT_METADATA_ID))

-----------------------------------------------------------------------------
(* Properties *)

NewConnection ==
    [peer_ut_metadata_id |-> None, pending_metadata_responses |-> <<>>, panicked |-> FALSE]

\* How many pieces a client would ask for after this handshake.
PiecesOf(extension) ==
    (extension.metadata_size + METADATA_PIECE_SIZE - 1) \div METADATA_PIECE_SIZE

\* What a client answers to the handshake of a fetch and its requests for the pieces
\* 0..n-1, in this order.
Answers(info_dict, n) ==
    LET conn[k \in 0 .. n] ==
            IF k = 0 THEN handle_extended_message(NewConnection, info_dict,
                                                  create_extension_handshake(None))
            ELSE handle_extended_message(conn[k - 1], info_dict,
                                         create_metadata_request(OUR_UT_METADATA_ID, k - 1))
    IN  conn[n].pending_metadata_responses

\* And how the fetch reads the answers.
Read(answers) ==
    [i \in 1 .. Len(answers) |-> parse_metadata_piece(answers[i], OUR_UT_METADATA_ID)]

\* A fetch that asks a client of this program for the pieces its handshake calls for gets
\* exactly the info dictionary, whatever its bytes; one piece more, or any piece from a
\* client without the dictionary, is rejected (src/peer/client.rs:396-427).
MetadataServed ==
    metadata.some =>
        LET named == receive_extension_handshake(
                        create_extension_handshake(Some(Len(metadata.it))))
            n == PiecesOf(named.it)
            got == Read(Answers(metadata, n + 1))
        IN  /\ named.some /\ named.it.ut_metadata = OUR_UT_METADATA_ID
            /\ \A i \in 1 .. n : got[i].is = "piece" /\ got[i].piece = i - 1
            /\ FlattenSeq([i \in 1 .. n |-> got[i].data]) = metadata.it
            /\ got[n + 1] = Failed
            /\ Read(Answers(None, 1)) = <<Failed>>

=============================================================================
