--------------------------- MODULE MetadataFetch ---------------------------
(***************************************************************************)
(* The metadata fetch of src/peer/metadata.rs.  fetch_metadata_from_peers  *)
(* keeps up to CONCURRENT attempts running, one task per peer, starts the  *)
(* next peer when one fails and returns with the first success.  An        *)
(* attempt asks its peer for one metadata piece at a time and asks again   *)
(* after an error, up to MAX_RETRIES errors in a row.                      *)
(*                                                                         *)
(* A peer answers only requests it has received, once each, at any time;   *)
(* one that is asked again after a timeout may answer twice.  What a piece *)
(* contains is not told apart.                                             *)
(***************************************************************************)
EXTENDS Integers, FiniteSets

CONSTANTS
    NumPeers,       \* length of the list of peers
    CONCURRENT,     \* attempts that run at once
    MAX_RETRIES,    \* errors in a row that end an attempt
    MaxPieces       \* bound on the pieces of the metadata a peer announces

ASSUME FetchAssumption ==
    /\ NumPeers \in Nat
    /\ CONCURRENT \in Nat \ {0}
    /\ MAX_RETRIES \in Nat \ {0}
    /\ MaxPieces \in Nat

Peers == 1 .. NumPeers

Indices == 0 .. (MaxPieces - 1)

VARIABLES
    spawned,    \* how many peers have left the iterator
    task,       \* task[p]: where the attempt with p is
    attempt,    \* attempt[p]: its local variables
    stream,     \* stream[p]: "up", or "broken": closed, or left inside a frame by a timeout
    owed,       \* owed[p][i]: requests for piece i that p has not answered
    result      \* what fetch_metadata_from_peers has returned, or "pending"

vars == <<spawned, task, attempt, stream, owed, result>>

\* The attempts under way, and those that have ended and not been joined.
Running == {"connecting", "loop", "receive"}
Ended == {"ok", "failed"}

Fresh ==
    [num_pieces           |-> 0,
     metadata_pieces      |-> {},
     received_pieces      |-> 0,
     requested_pieces     |-> {},
     waiting_for_response |-> FALSE,
     retry_count          |-> 0]

NothingOwed == [i \in Indices |-> 0]

\* The peers of the pool: started and not joined.
InPool == {p \in Peers : task[p] \in Running \cup Ended}

\* The first CONCURRENT peers are spawned without an await in between.
Init ==
    /\ spawned = IF NumPeers < CONCURRENT THEN NumPeers ELSE CONCURRENT
    /\ task = [p \in Peers |-> IF p <= spawned THEN "connecting" ELSE "unspawned"]
    /\ attempt = [p \in Peers |-> Fresh]
    /\ stream = [p \in Peers |-> "up"]
    /\ owed = [p \in Peers |-> NothingOwed]
    /\ result = "pending"

Goto(p, t) == task' = [task EXCEPT ![p] = t]

Update(p, a) == attempt' = [attempt EXCEPT ![p] = a]

\* The attempts of S end: their local variables and their streams are dropped.
Dropped(S) ==
    /\ attempt' = [p \in Peers |-> IF p \in S THEN Fresh ELSE attempt[p]]
    /\ stream' = [p \in Peers |-> IF p \in S THEN "up" ELSE stream[p]]
    /\ owed' = [p \in Peers |-> IF p \in S THEN NothingOwed ELSE owed[p]]

\* The task of p ends in t.
End(p, t) ==
    /\ Goto(p, t)
    /\ Dropped({p})
    /\ UNCHANGED <<spawned, result>>

-----------------------------------------------------------------------------
(* One attempt: fetch_metadata_from_peer *)

\* Connection, handshake and extension handshake, which gives the metadata's size.
Handshake(p, n) ==
    /\ task[p] = "connecting"
    /\ Goto(p, "loop")
    /\ Update(p, [Fresh EXCEPT !.num_pieces = n])
    /\ UNCHANGED <<spawned, stream, owed, result>>

HandshakeFails(p) ==
    /\ task[p] = "connecting"
    /\ End(p, "failed")

Missing(p) ==
    {i \in 0 .. (attempt[p].num_pieces - 1) : i \notin attempt[p].metadata_pieces}

Requestable(p) == Missing(p) \ attempt[p].requested_pieces

\* Mutated: the errors in a row are not looked at.
LoopsOnMissing(p) == attempt[p].received_pieces < attempt[p].num_pieces

\* The condition of the while loop.
Loops(p) ==
    /\ attempt[p].received_pieces < attempt[p].num_pieces
    /\ attempt[p].retry_count < MAX_RETRIES

\* The first missing piece that is not requested is, unless an answer is awaited.
Request(p) ==
    /\ task[p] = "loop"
    /\ Loops(p)
    /\ IF attempt[p].waiting_for_response \/ Requestable(p) = {}
       THEN UNCHANGED <<attempt, owed>>
       ELSE \E i \in Requestable(p) :
               /\ \A j \in Requestable(p) : i <= j
               /\ Update(p, [attempt[p] EXCEPT !.requested_pieces = @ \cup {i},
                                               !.waiting_for_response = TRUE])
               /\ owed' = [owed EXCEPT ![p][i] = @ + 1]
    /\ Goto(p, "receive")
    /\ UNCHANGED <<spawned, stream, result>>

RequestFails(p) ==
    /\ task[p] = "loop"
    /\ Loops(p)
    /\ ~attempt[p].waiting_for_response
    /\ Requestable(p) # {}
    /\ End(p, "failed")

\* Mutated: a piece that is there already counts again.
ReceivePieceAgain(p, i) ==
    /\ task[p] = "receive"
    /\ stream[p] = "up"
    /\ owed[p][i] > 0
    /\ owed' = [owed EXCEPT ![p][i] = @ - 1]
    /\ Update(p, [attempt[p] EXCEPT !.metadata_pieces = @ \cup {i},
                                    !.received_pieces = @ + 1,
                                    !.waiting_for_response = FALSE,
                                    !.retry_count = 0])
    /\ Goto(p, "loop")
    /\ UNCHANGED <<spawned, stream, result>>

\* Piece i arrives; one that is there already changes nothing.
ReceivePiece(p, i) ==
    /\ task[p] = "receive"
    /\ stream[p] = "up"
    /\ owed[p][i] > 0
    /\ owed' = [owed EXCEPT ![p][i] = @ - 1]
    /\ Update(p, IF i \in Missing(p)
                 THEN [attempt[p] EXCEPT !.metadata_pieces = @ \cup {i},
                                         !.received_pieces = @ + 1,
                                         !.waiting_for_response = FALSE,
                                         !.retry_count = 0]
                 ELSE attempt[p])
    /\ Goto(p, "loop")
    /\ UNCHANGED <<spawned, stream, result>>

\* Any other message that can be read.
ReceiveOther(p) ==
    /\ task[p] = "receive"
    /\ Goto(p, "loop")
    /\ UNCHANGED <<spawned, attempt, stream, owed, result>>

\* A reject, or a metadata message that does not parse: `?` ends the attempt.
ReceiveReject(p) ==
    /\ task[p] = "receive"
    /\ End(p, "failed")

\* Mutated: the flags of the pieces requested before the error stay.
ReceiveErrorKeepingFlags(p, s) ==
    /\ task[p] = "receive"
    /\ s = "up" => stream[p] = "up"
    /\ stream' = [stream EXCEPT ![p] = s]
    /\ Update(p, [attempt[p] EXCEPT !.retry_count = @ + 1,
                                    !.waiting_for_response = FALSE])
    /\ Goto(p, "loop")
    /\ UNCHANGED <<spawned, owed, result>>

\* Mutated: the error is logged and the loop goes on waiting.
ReceiveErrorLogged(p, s) ==
    /\ task[p] = "receive"
    /\ s = "up" => stream[p] = "up"
    /\ stream' = [stream EXCEPT ![p] = s]
    /\ Goto(p, "loop")
    /\ UNCHANGED <<spawned, attempt, owed, result>>

\* A read fails or times out; the stream is then s.  Every missing piece may be asked
\* for again.
ReceiveError(p, s) ==
    /\ task[p] = "receive"
    /\ s = "up" => stream[p] = "up"
    /\ stream' = [stream EXCEPT ![p] = s]
    /\ Update(p, [attempt[p] EXCEPT !.retry_count = @ + 1,
                                    !.waiting_for_response = FALSE,
                                    !.requested_pieces = @ \ Missing(p)])
    /\ Goto(p, "loop")
    /\ UNCHANGED <<spawned, owed, result>>

\* All pieces are there, and what they make up is bencode.
Assemble(p) ==
    /\ task[p] = "loop"
    /\ ~Loops(p)
    /\ attempt[p].received_pieces = attempt[p].num_pieces
    /\ Missing(p) = {}
    /\ End(p, "ok")

\* Too many errors, or what was assembled does not parse.
AssembleFails(p) ==
    /\ task[p] = "loop"
    /\ ~Loops(p)
    /\ End(p, "failed")

-----------------------------------------------------------------------------
(* The pool: fetch_metadata_from_peers *)

\* task once p is joined and spawn_next_peer has started the next peer, if any is left.
Replaced(p) ==
    [q \in Peers |-> IF q = p THEN "joined"
                     ELSE IF q = spawned + 1 THEN "connecting" ELSE task[q]]

\* Mutated: an empty pool is given up before the next peer is started.
JoinFailedLast(p) ==
    /\ result = "pending"
    /\ task[p] = "failed"
    /\ IF \A q \in Peers \ {p} : task[q] \notin Running
       THEN result' = "error" /\ UNCHANGED <<spawned, task>>
       ELSE /\ task' = Replaced(p)
            /\ spawned' = IF spawned < NumPeers THEN spawned + 1 ELSE spawned
            /\ UNCHANGED result
    /\ UNCHANGED <<attempt, stream, owed>>

\* Mutated: the next peer is not started.
JoinFailedOnly(p) ==
    /\ result = "pending"
    /\ task[p] = "failed"
    /\ Goto(p, "joined")
    /\ UNCHANGED <<spawned, attempt, stream, owed, result>>

\* A failed attempt is joined (one that panicked as well).
JoinFailed(p) ==
    /\ result = "pending"
    /\ task[p] = "failed"
    /\ task' = Replaced(p)
    /\ spawned' = IF spawned < NumPeers THEN spawned + 1 ELSE spawned
    /\ UNCHANGED <<attempt, stream, owed, result>>

\* A successful one is; the rest are aborted.
JoinOk(p) ==
    /\ result = "pending"
    /\ task[p] = "ok"
    /\ result' = "ok"
    /\ task' = [q \in Peers |-> IF task[q] \in Running THEN "aborted" ELSE task[q]]
    /\ Dropped({q \in Peers : task[q] \in Running})
    /\ UNCHANGED spawned

\* join_next finds the set empty.
JoinNone ==
    /\ result = "pending"
    /\ InPool = {}
    /\ result' = "error"
    /\ UNCHANGED <<spawned, task, attempt, stream, owed>>

-----------------------------------------------------------------------------
(* Specification *)

\* A read ends with something other than an unrelated message.
Answer(p) ==
    \/ \E i \in Indices : ReceivePiece(p, i)
    \/ ReceiveReject(p)
    \/ \E s \in {"up", "broken"} : ReceiveError(p, s)

Start(p) == HandshakeFails(p) \/ \E n \in 0 .. MaxPieces : Handshake(p, n)

Iterate(p) == Request(p) \/ RequestFails(p)

Finish(p) == Assemble(p) \/ AssembleFails(p)

Join(p) == JoinOk(p) \/ JoinFailed(p)

Next ==
    \/ \E p \in Peers :
          Start(p) \/ Iterate(p) \/ Answer(p) \/ ReceiveOther(p) \/ Finish(p) \/ Join(p)
    \/ JoinNone

Spec == Init /\ [][Next]_vars

\* tokio runs every task that is ready; connections and handshakes end by their
\* timeouts; and a peer does not send unrelated messages for ever, so that some read
\* brings an answer or a timeout.
Fairness ==
    /\ \A p \in Peers :
          /\ WF_vars(Start(p)) /\ WF_vars(Iterate(p))
          /\ WF_vars(Finish(p)) /\ WF_vars(Join(p))
          /\ SF_vars(Answer(p))
    /\ WF_vars(JoinNone)

FairSpec == Spec /\ Fairness

-----------------------------------------------------------------------------
(* Properties *)

Attempt ==
    [num_pieces           : 0 .. MaxPieces,
     metadata_pieces      : SUBSET Indices,
     received_pieces      : Nat,
     requested_pieces     : SUBSET Indices,
     waiting_for_response : BOOLEAN,
     retry_count          : 0 .. MAX_RETRIES]

TypeOK ==
    /\ spawned \in 0 .. NumPeers
    /\ task \in [Peers -> Running \cup Ended \cup {"unspawned", "joined", "aborted"}]
    /\ attempt \in [Peers -> Attempt]
    /\ stream \in [Peers -> {"up", "broken"}]
    /\ owed \in [Peers -> [Indices -> Nat]]
    /\ result \in {"pending", "ok", "error"}

\* The counter that ends the loop agrees with the pieces that are there, whichever
\* answers came twice: the loop never ends with a piece missing and calls it complete.
CountMatches ==
    \A p \in Peers :
        attempt[p].received_pieces = Cardinality(attempt[p].metadata_pieces)

\* "Only request one piece at a time, wait for response" (src/peer/metadata.rs:164):
\* an attempt that reads is waiting for exactly one missing piece, which it has asked
\* for since the last error.
AlwaysAsking ==
    \A p \in Peers : task[p] = "receive" =>
        /\ attempt[p].waiting_for_response
        /\ \E i \in Missing(p) : Missing(p) \cap attempt[p].requested_pieces = {i}

\* While peers are left the pool has CONCURRENT attempts, and it never has more.
PoolFull ==
    result = "pending" =>
        /\ Cardinality(InPool) <= CONCURRENT
        /\ spawned < NumPeers => Cardinality(InPool) = CONCURRENT

\* The fetch returns a success of some peer, or an error when all have failed.
Outcome == [p \in Peers |-> IF task[p] = "ok" THEN "ok"
                            ELSE IF task[p] \in {"failed", "joined"} THEN "failed"
                            ELSE "pending"]

Promise == INSTANCE FirstSuccess WITH outcome <- Outcome

KeepsPromise == Promise!Spec

\* The fetch returns.
FetchEnds == <>(result # "pending")

=============================================================================
