---------------------------- MODULE TorrentFile ----------------------------
(***************************************************************************)
(* From a decoded .torrent file, or from the info dictionary that a magnet *)
(* link's fetch has brought, to the geometry of the download               *)
(* (src/torrent.rs).  A field is absent, an integer, a text, other bytes,  *)
(* or a list of files; of other bytes only the number counts.              *)
(***************************************************************************)
EXTENDS Integers, Sequences, Options, Widths

CONSTANT HashLength     \* bytes of a piece hash

VARIABLE file   \* the decoded .torrent file

Absent == [kind |-> "absent"]

Text == [kind |-> "text"]

Integer(n) == [kind |-> "integer", n |-> n]

Bytes(length) == [kind |-> "bytes", length |-> length]

Files(lengths) == [kind |-> "list", lengths |-> lengths]

-----------------------------------------------------------------------------

get_u32(field) == IF field.kind = "integer" THEN Some(field.n % W32) ELSE None

get_u64(field) == IF field.kind = "integer" THEN Some(field.n % W64) ELSE None

\* The length of a file in the list; one without is passed over.
FileLength(field) == IF get_u64(field).some THEN get_u64(field).it ELSE 0

\* The sum wraps round in a release build.
FilesSize(field) ==
    LET sum[n \in 0 .. Len(field.lengths)] ==
            IF n = 0 THEN 0 ELSE (sum[n - 1] + FileLength(field.lengths[n])) % W64
    IN  sum[Len(field.lengths)]

\* Mutated: the size is taken from the field that has 32 bits.
TotalSizeNarrow(info) ==
    IF get_u32(info.length).some THEN get_u32(info.length)
    ELSE IF info.files.kind = "list" THEN Some(FilesSize(info.files)) ELSE None

\* length, or else the sum of the files.
TotalSize(info) ==
    IF get_u64(info.length).some THEN get_u64(info.length)
    ELSE IF info.files.kind = "list" THEN Some(FilesSize(info.files)) ELSE None

\* What both parsers take from the info dictionary.  Bytes after the last whole hash are
\* passed over.
Geometry(info) ==
    IF /\ info.name.kind = "text"
       /\ get_u32(info.piece_length).some
       /\ info.pieces.kind = "bytes"
       /\ TotalSize(info).some
    THEN Some([piece_length |-> get_u32(info.piece_length).it,
               total_pieces |-> info.pieces.length \div HashLength,
               total_size |-> TotalSize(info).it])
    ELSE None

parse_torrent_bytes ==
    IF /\ file.announce.kind = "text"
       /\ get_u32(file.info.length).some
       /\ get_u32(file.creation_date).some
    THEN Geometry(file.info) ELSE None

parse_info_dict_bytes(info) == Geometry(info)

-----------------------------------------------------------------------------
(* Properties *)

\* The size a well-formed info dictionary describes.
Described(info) ==
    IF info.length.kind = "integer" THEN info.length.n
    ELSE IF info.files.kind = "list"
         THEN LET sum[n \in 0 .. Len(info.files.lengths)] ==
                      IF n = 0 THEN 0 ELSE sum[n - 1] + info.files.lengths[n].n
              IN  sum[Len(info.files.lengths)]
         ELSE 0

\* As the format asks: integers that fit, one hash per piece.
WellFormed(info) ==
    /\ info.name = Text
    /\ info.piece_length.kind = "integer" /\ info.piece_length.n \in 1 .. W32 - 1
    /\ info.files.kind = "list" =>
          \A i \in 1 .. Len(info.files.lengths) :
              info.files.lengths[i].kind = "integer" /\ info.files.lengths[i].n >= 0
    /\ Described(info) \in 1 .. W64 - 1
    /\ LET n == info.piece_length.n
       IN  info.pieces = Bytes(HashLength * ((Described(info) + n - 1) \div n))

\* What the download relies on, see GeometryAssumption of DownloadState.
IsGeometry(g) ==
    /\ g.total_pieces > 0 /\ g.piece_length > 0
    /\ (g.total_pieces - 1) * g.piece_length < g.total_size
    /\ g.total_size <= g.total_pieces * g.piece_length

\* A torrent of one file comes to the same download by file and by magnet link: whatever
\* the first parser accepts the second does, with the same geometry, and the other way
\* round when there are a length, an announce URL and a date; and a well-formed info
\* dictionary, also of a torrent larger than a u32 holds, gives the size it describes and
\* the geometry that the download state subtracts by (src/torrent.rs:69-192,
\* src/peer/state.rs:114-122).  A torrent of several files comes by magnet link only, see
\* FilesParsed.
SameTorrent ==
    LET t == parse_torrent_bytes
        u == parse_info_dict_bytes(file.info)
    IN  /\ t.some => u = t
        /\ WellFormed(file.info) =>
              u.some /\ u.it.total_size = Described(file.info) /\ IsGeometry(u.it)
        /\ /\ u.some /\ file.info.length.kind = "integer"
           /\ file.announce = Text /\ file.creation_date.kind = "integer"
           => t.some

\* "from single- and multi-file torrents" (README.md:8): a .torrent file with a
\* well-formed info dictionary, with one length or the lengths of several files, is
\* parsed.  It does not hold: length is asked for first (src/torrent.rs:87), and only
\* torrents of one file have it.
FilesParsed ==
    /\ WellFormed(file.info) /\ file.info.length.kind \in {"integer", "absent"}
    /\ file.announce = Text /\ file.creation_date.kind = "integer"
    => parse_torrent_bytes.some

=============================================================================
