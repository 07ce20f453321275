------------------------------ MODULE MCPeerWorkersLive -------------------------
(* PeerWorkers under the fairness of the runtime, with peers that keep      *)
(* serving and at most MaxAdversity recoverable adverse events.             *)
EXTENDS PeerWorkers, TLC

CONSTANT MaxAdversity

VARIABLE adversity

OwnAddress == [w \in Workers |-> w]
FirstPiece == [a \in Addrs |-> 0]
Seed == {Pieces}

liveVars == <<vars, adversity>>

LiveInit == Init /\ adversity = 0

LiveNext ==
    \/ /\ \E w \in Workers : Smooth(w)
       /\ UNCHANGED adversity
    \/ /\ adversity < MaxAdversity
       /\ \E w \in Workers : Recoverable(w)
       /\ adversity' = adversity + 1

Keeping(A) == A /\ UNCHANGED adversity

\* tokio runs every task that is ready, and its timers fire; the tracker goes on
\* listing the peers while the download lasts; a peer that is connected keeps its
\* promises again and again: it unchokes, announces its pieces, answers requests.
LiveFairness ==
    \A w \in Workers :
        /\ WF_liveVars(Keeping(TaskStep(w)))
        /\ WF_liveVars(Keeping(Connect(w)))
        /\ WF_liveVars(Keeping(~is_complete /\ Spawn(w)))
        /\ SF_liveVars(Keeping(RecvUnchoke(w)))
        /\ SF_liveVars(Keeping(RecvBitfield(w, Pieces)))
        /\ \A b \in BlockInfo : SF_liveVars(Keeping(RecvPiece(w, b, "good")))

LiveSpec == LiveInit /\ [][LiveNext]_liveVars /\ LiveFairness

\* The download completes: no block stays requested, held or withdrawn for ever.
Completes == <>is_complete

\* Every task leaves once the download is complete, and its connection with it.
TasksStop ==
    \A w \in Workers : (is_complete /\ pc[w] \in Attached) ~> (pc[w] = "idle")

=============================================================================
