------------------------ MODULE MCPeerWorkersBudget ------------------------
(* PeerWorkers with a torrent of two pieces, one of them shorter, a         *)
(* pipeline shorter than the batch, and at most MaxAdversity adverse events *)
(* in a behaviour.                                                          *)
EXTENDS PeerWorkers, TLC

CONSTANT MaxAdversity

VARIABLE adversity

OwnAddress == [w \in Workers |-> w]

FirstPiece == [a \in Addrs |-> 0]

\* A peer has everything, or the first piece only (a Have may complete it).
SeedOrFirst == {{0}, Pieces}

mcVars == <<vars, adversity>>

MCInit == Init /\ adversity = 0

MCNext ==
    \/ /\ \E w \in Workers : Smooth(w)
       /\ UNCHANGED adversity
    \/ /\ adversity < MaxAdversity
       /\ \E w \in Workers : Adverse(w)
       /\ adversity' = adversity + 1

MCSpec == MCInit /\ [][MCNext]_mcVars

WorkerSymmetry == Permutations(Workers)

=============================================================================
