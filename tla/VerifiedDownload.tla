------------------------- MODULE VerifiedDownload -------------------------
(***************************************************************************)
(* What the download promises to its caller (README.md:14): a piece is     *)
(* kept only with the right content, is never lost or replaced once it is  *)
(* kept, and pieces become available one at a time until all are there.    *)
(***************************************************************************)
CONSTANT Pieces

VARIABLE kept   \* kept[p]: the content the download holds for piece p

Init == kept = [p \in Pieces |-> "missing"]

\* A piece whose hash matches is added.
Keep(p) ==
    /\ kept[p] = "missing"
    /\ kept' = [kept EXCEPT ![p] = "good"]

Next == \E p \in Pieces : Keep(p)

Spec == Init /\ [][Next]_kept

=============================================================================
