--------------------------- MODULE MCPeerWorkers ---------------------------
(* Instances of PeerWorkers in which anything adverse may happen any number *)
(* of times.                                                                *)
EXTENDS PeerWorkers

CONSTANT a1     \* the only address, where two tasks serve the same peer

\* Every task serves a peer of its own.
OwnAddress == [w \in Workers |-> w]

\* Every task serves the peer at a1.
SharedAddress == [w \in Workers |-> a1]

FirstPiece == [a \in Addrs |-> 0]

Seed == {Pieces}

=============================================================================
