--------------------------- MODULE DownloadState ---------------------------
(***************************************************************************)
(* The shared download state of src/peer/state.rs: which pieces are kept,  *)
(* which blocks of the others are held, which blocks are marked as         *)
(* requested.  Its operations run under one tokio Mutex, so each of them   *)
(* is one step; the module that composes the peer workers decides when     *)
(* they happen.                                                            *)
(*                                                                         *)
(* Block contents are abstracted to what the SHA-1 check tells apart:      *)
(* the right bytes, wrong bytes of the right length, and an answer whose   *)
(* length is not the requested one (its BlockInfo differs from the one     *)
(* that was requested).                                                    *)
(***************************************************************************)
EXTENDS Integers, FiniteSets

CONSTANTS
    total_pieces,       \* number of pieces of the torrent
    piece_length,       \* bytes in every piece but the last
    total_size,         \* bytes in the whole torrent
    PIECE_BLOCK_SIZE    \* bytes in every block but the last of a piece

ASSUME GeometryAssumption ==
    /\ total_pieces \in Nat \ {0}
    /\ piece_length \in Nat \ {0}
    /\ PIECE_BLOCK_SIZE \in Nat \ {0}
    /\ total_size \in Nat
    /\ (total_pieces - 1) * piece_length < total_size
    /\ total_size <= total_pieces * piece_length

VARIABLES
    pieces,             \* pieces[p]: the content kept for piece p, or "missing"
    piece_blocks,       \* piece_blocks[b]: the data held for block b, or "none"
    requested_blocks    \* the blocks marked as requested from some peer

stateVars == <<pieces, piece_blocks, requested_blocks>>

-----------------------------------------------------------------------------
(* Geometry *)

Pieces == 0 .. (total_pieces - 1)

get_actual_piece_length(p) ==
    IF p = total_pieces - 1 THEN total_size - p * piece_length ELSE piece_length

get_blocks_in_piece(p) ==
    (get_actual_piece_length(p) + PIECE_BLOCK_SIZE - 1) \div PIECE_BLOCK_SIZE

\* A block is named by its piece and its position there (offset / PIECE_BLOCK_SIZE).
BlockInfo ==
    UNION {[piece_index : {p}, block_index : 0 .. (get_blocks_in_piece(p) - 1)] :
              p \in Pieces}

BlocksOf(p) == {b \in BlockInfo : b.piece_index = p}

\* What a piece message can carry: the block's bytes, other bytes of the same
\* length, or bytes of another length.
Data == {"good", "bad", "misfit"}

-----------------------------------------------------------------------------
(* State *)

StateTypeOK ==
    /\ pieces \in [Pieces -> {"missing", "good", "bad"}]
    /\ piece_blocks \in [BlockInfo -> Data \cup {"none"}]
    /\ requested_blocks \subseteq BlockInfo

StateInit ==
    /\ pieces = [p \in Pieces |-> "missing"]
    /\ piece_blocks = [b \in BlockInfo |-> "none"]
    /\ requested_blocks = {}

is_complete == \A p \in Pieces : pieces[p] # "missing"

-----------------------------------------------------------------------------
(* Picking blocks *)

\* Mutated: the loop of find_next_block_in_piece runs one block past the end.
WantedPastEnd(bitfield) ==
    {b \in [piece_index : bitfield, block_index : 0 .. (get_blocks_in_piece(0))] :
        /\ pieces[b.piece_index] = "missing"
        /\ b.block_index <= get_blocks_in_piece(b.piece_index)
        /\ b \notin requested_blocks
        /\ b \in BlockInfo => piece_blocks[b] = "none"}

\* Blocks find_next_block_in_piece may return in a piece that pick_block scans.
Wanted(bitfield) ==
    {b \in BlockInfo : /\ pieces[b.piece_index] = "missing"
                       /\ b.piece_index \in bitfield
                       /\ b \notin requested_blocks
                       /\ piece_blocks[b] = "none"}

\* The position of piece p in a scan that starts at piece `start` and wraps round.
ScanRank(start, p) == (p - start) % total_pieces

Before(start, b, c) ==
    \/ ScanRank(start, b.piece_index) < ScanRank(start, c.piece_index)
    \/ b.piece_index = c.piece_index /\ b.block_index < c.block_index

\* B is what n calls of pick_block, each followed by mark_block_requested, return:
\* the first n wanted blocks in scan order, or all of them if they are fewer.
IsPicked(B, bitfield, start, n) ==
    LET W == Wanted(bitfield)
    IN  /\ B \subseteq W
        /\ Cardinality(B) <= n
        /\ B # W => Cardinality(B) = n
        /\ \A b \in B, c \in W \ B : Before(start, b, c)

mark_requested_blocks(B) == requested_blocks' = requested_blocks \cup B

unmark_requested_blocks(B) == requested_blocks' = requested_blocks \ B

-----------------------------------------------------------------------------
(* Storing a block *)

\* piece_blocks once the data d of block b is stored.
Stored(b, d) == [piece_blocks EXCEPT ![b] = d]

FillsPiece(b, d) == \A c \in BlocksOf(b.piece_index) : Stored(b, d)[c] # "none"

Assembled(b, d) ==
    IF \A c \in BlocksOf(b.piece_index) : Stored(b, d)[c] = "good"
    THEN "good" ELSE "bad"

\* Mutated: the hash is not compared.
Sha1Unchecked(content) == TRUE

\* computed_hash == expected_hash
Sha1Matches(content) == content = "good"

HashFails(b, d) == FillsPiece(b, d) /\ ~Sha1Matches(Assembled(b, d))

\* Mutated: a failed hash discards the piece itself as well as its blocks.
complete_block_discarding(b, d) ==
    /\ requested_blocks' =
          IF d = "misfit" THEN requested_blocks ELSE requested_blocks \ {b}
    /\ piece_blocks' =
          IF FillsPiece(b, d)
          THEN [c \in BlockInfo |->
                   IF c.piece_index = b.piece_index THEN "none" ELSE piece_blocks[c]]
          ELSE Stored(b, d)
    /\ pieces' =
          IF FillsPiece(b, d)
          THEN [pieces EXCEPT ![b.piece_index] =
                   IF Sha1Matches(Assembled(b, d)) THEN "good" ELSE "missing"]
          ELSE pieces

\* complete_block.  A misfit answer names a BlockInfo that was never requested, so
\* the removal from requested_blocks finds nothing.
complete_block(b, d) ==
    /\ requested_blocks' =
          IF d = "misfit" THEN requested_blocks ELSE requested_blocks \ {b}
    /\ piece_blocks' =
          IF FillsPiece(b, d)
          THEN [c \in BlockInfo |->
                   IF c.piece_index = b.piece_index THEN "none" ELSE piece_blocks[c]]
          ELSE Stored(b, d)
    /\ pieces' =
          IF FillsPiece(b, d) /\ Sha1Matches(Assembled(b, d))
          THEN [pieces EXCEPT ![b.piece_index] = Assembled(b, d)]
          ELSE pieces

=============================================================================
