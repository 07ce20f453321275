------------------------ MODULE MetadataFetchProofs ------------------------
(***************************************************************************)
(* Theorems about MetadataFetch, for any number of peers, attempts,        *)
(* retries and pieces.                                                     *)
(***************************************************************************)
EXTENDS MetadataFetch, TLAPS, FiniteSetTheorems

\* Missing, of a record of local variables.
MissingOf(a) == {i \in 0 .. (a.num_pieces - 1) : i \notin a.metadata_pieces}

\* What ties the flags of an attempt to what its peer owes: it asks in order, so no
\* answer is owed beyond the first missing piece, and the answer it waits for is for
\* that one.
AttemptOK(t, a, o) ==
    /\ a.metadata_pieces \subseteq 0 .. (a.num_pieces - 1)
    /\ a.received_pieces = Cardinality(a.metadata_pieces)
    /\ t \notin {"loop", "receive"} => a = Fresh /\ o = NothingOwed
    /\ \A i \in Indices : o[i] > 0 => \A j \in MissingOf(a) : i <= j
    /\ a.waiting_for_response =>
          \E i \in MissingOf(a) : /\ MissingOf(a) \cap a.requested_pieces = {i}
                                  /\ \A j \in MissingOf(a) : i <= j
    /\ ~a.waiting_for_response => MissingOf(a) \cap a.requested_pieces = {}
    /\ t = "receive" => a.waiting_for_response /\ a.retry_count < MAX_RETRIES

PoolOK ==
    /\ PoolFull
    /\ \A p \in Peers : task[p] = "unspawned" <=> p > spawned
    /\ \A p \in Peers : task[p] = "aborted" => result # "pending"
    /\ \A p \in Peers : task[p] \in Running => result = "pending"

IInv == TypeOK /\ PoolOK /\ \A p \in Peers : AttemptOK(task[p], attempt[p], owed[p])

-----------------------------------------------------------------------------
(* Facts about the data *)

LEMMA FreshFacts ==
  /\ Fresh \in Attempt
  /\ NothingOwed \in [Indices -> Nat]
  /\ MissingOf(Fresh) = {}
  /\ \A t : t # "receive" => AttemptOK(t, Fresh, NothingOwed)
<1>1. Fresh \in Attempt
  BY FetchAssumption DEF Fresh, Attempt
<1>2. NothingOwed \in [Indices -> Nat] /\ \A i \in Indices : NothingOwed[i] = 0
  BY DEF NothingOwed
<1>3. MissingOf(Fresh) = {}
  BY DEF MissingOf, Fresh
<1>4. Fresh.received_pieces = Cardinality(Fresh.metadata_pieces)
  BY FS_EmptySet DEF Fresh
<1>5. ASSUME NEW t, t # "receive" PROVE AttemptOK(t, Fresh, NothingOwed)
  <2>1. Fresh.metadata_pieces = {} /\ Fresh.waiting_for_response = FALSE
    BY DEF Fresh
  <2>. QED
    BY <1>2, <1>3, <1>4, <1>5, <2>1 DEF AttemptOK
<1>. QED
  BY <1>1, <1>2, <1>3, <1>5

LEMMA PoolFinite ==
  ASSUME NEW S \in SUBSET Peers
  PROVE  IsFiniteSet(S) /\ Cardinality(S) \in Nat
<1>1. IsFiniteSet(Peers)
  BY FetchAssumption, FS_Interval DEF Peers
<1>. QED
  BY <1>1, FS_Subset, FS_CardinalityType

LEMMA PiecesFinite ==
  ASSUME NEW n \in Nat, NEW S \in SUBSET (0 .. (n - 1))
  PROVE  /\ IsFiniteSet(S)
         /\ Cardinality(S) \in Nat
         /\ Cardinality(S) < n => \E i \in 0 .. (n - 1) : i \notin S
<1>1. IsFiniteSet(0 .. (n - 1)) /\ Cardinality(0 .. (n - 1)) = n
  BY FS_Interval
<1>2. IsFiniteSet(S)
  BY <1>1, FS_Subset
<1>3. Cardinality(S) \in Nat
  BY <1>2, FS_CardinalityType
<1>4. ASSUME Cardinality(S) < n PROVE \E i \in 0 .. (n - 1) : i \notin S
  <2>1. S # 0 .. (n - 1)
    BY <1>1, <1>4
  <2>. QED
    BY <2>1
<1>. QED
  BY <1>2, <1>3, <1>4

-----------------------------------------------------------------------------
(* A step of one attempt *)

\* A step that moves a running attempt on leaves the pool and the others alone.
LEMMA LocalStep ==
  ASSUME IInv, NEW p \in Peers, task[p] \in Running,
         NEW t \in {"loop", "receive", "ok", "failed"}, NEW a \in Attempt,
         NEW s \in {"up", "broken"}, NEW o \in [Indices -> Nat],
         task' = [task EXCEPT ![p] = t],
         attempt' = [attempt EXCEPT ![p] = a],
         stream' = [stream EXCEPT ![p] = s],
         owed' = [owed EXCEPT ![p] = o],
         UNCHANGED <<spawned, result>>,
         AttemptOK(t, a, o)
  PROVE  IInv'
<1>1. TypeOK'
  BY DEF IInv, TypeOK, Running, Ended
<1>2. /\ task'[p] = t /\ attempt'[p] = a /\ owed'[p] = o
      /\ \A q \in Peers \ {p} :
            task'[q] = task[q] /\ attempt'[q] = attempt[q] /\ owed'[q] = owed[q]
  BY DEF IInv, TypeOK
<1>3. \A q \in Peers : AttemptOK(task[q], attempt[q], owed[q])'
  <2>. TAKE q \in Peers
  <2>1. CASE q = p
    BY <1>2, <2>1 DEF AttemptOK, MissingOf
  <2>2. CASE q # p
    BY <1>2, <2>2 DEF IInv, AttemptOK, MissingOf
  <2>. QED
    BY <2>1, <2>2
<1>4. InPool' = InPool
  BY <1>2 DEF InPool, Running, Ended
<1>5. PoolOK'
  <2>1. result = "pending" /\ result' = "pending" /\ spawned' = spawned
    BY DEF IInv, PoolOK
  <2>2. PoolFull'
    BY <1>4, <2>1 DEF IInv, PoolOK, PoolFull
  <2>3. \A q \in Peers : /\ task'[q] = "unspawned" <=> q > spawned'
                         /\ task'[q] # "aborted"
    BY <1>2, <2>1 DEF IInv, PoolOK, Running
  <2>. QED
    BY <2>1, <2>2, <2>3 DEF PoolOK
<1>. QED
  BY <1>1, <1>3, <1>5 DEF IInv

\* The end of an attempt, as a step of one attempt.
LEMMA EndStep ==
  ASSUME IInv, NEW p \in Peers, task[p] \in Running, NEW t \in {"ok", "failed"}, End(p, t)
  PROVE  IInv'
<1>1. /\ attempt' = [attempt EXCEPT ![p] = Fresh]
      /\ stream' = [stream EXCEPT ![p] = "up"]
      /\ owed' = [owed EXCEPT ![p] = NothingOwed]
  BY DEF IInv, TypeOK, End, Dropped
<1>2. task' = [task EXCEPT ![p] = t] /\ UNCHANGED <<spawned, result>>
  BY DEF End, Goto
<1>. QED
  BY <1>1, <1>2, LocalStep, FreshFacts

\* The streams and the requests owed, where a step leaves them alone.
LEMMA Untouched ==
  ASSUME TypeOK, NEW p \in Peers
  PROVE  /\ stream = [stream EXCEPT ![p] = stream[p]]
         /\ owed = [owed EXCEPT ![p] = owed[p]]
         /\ attempt = [attempt EXCEPT ![p] = attempt[p]]
         /\ stream[p] \in {"up", "broken"}
         /\ owed[p] \in [Indices -> Nat]
         /\ attempt[p] \in Attempt
  BY DEF TypeOK

LEMMA HandshakeStep ==
  ASSUME IInv, NEW p \in Peers, NEW n \in 0 .. MaxPieces, Handshake(p, n)
  PROVE  IInv'
<1>. DEFINE a == [Fresh EXCEPT !.num_pieces = n]
<1>1. /\ a \in Attempt /\ a.num_pieces = n /\ a.metadata_pieces = {}
      /\ a.received_pieces = 0 /\ a.requested_pieces = {}
      /\ a.waiting_for_response = FALSE
  <2>1. /\ Fresh \in Attempt /\ Fresh.metadata_pieces = {} /\ Fresh.received_pieces = 0
        /\ Fresh.requested_pieces = {} /\ Fresh.waiting_for_response = FALSE
    BY FreshFacts DEF Fresh
  <2>. QED
    BY <2>1 DEF Attempt
<1>2. owed[p] = NothingOwed
  BY DEF IInv, Handshake, AttemptOK
<1>3. AttemptOK("loop", a, owed[p])
  <2>. HIDE DEF a
  <2>1. \A i \in Indices : owed[p][i] = 0
    BY <1>2 DEF NothingOwed
  <2>. QED
    BY <1>1, <2>1, FS_EmptySet DEF AttemptOK
<1>4. task[p] \in Running
  BY DEF Handshake, Running
<1>. HIDE DEF a
<1>5. task' = [task EXCEPT ![p] = "loop"] /\ attempt' = [attempt EXCEPT ![p] = a]
      /\ stream' = stream /\ owed' = owed /\ UNCHANGED <<spawned, result>>
  BY DEF Handshake, Goto, Update, a
<1>. QED
  BY <1>1, <1>3, <1>4, <1>5, Untouched, LocalStep DEF IInv

\* A loop that goes on has a piece missing, which it may ask for unless it waits.
LEMMA LoopsMissing ==
  ASSUME IInv, NEW p \in Peers, Loops(p)
  PROVE  /\ Missing(p) # {}
         /\ ~attempt[p].waiting_for_response => Requestable(p) = Missing(p)
<1>1. /\ attempt[p].num_pieces \in Nat
      /\ attempt[p].metadata_pieces \subseteq 0 .. (attempt[p].num_pieces - 1)
      /\ Cardinality(attempt[p].metadata_pieces) < attempt[p].num_pieces
  BY DEF IInv, TypeOK, Attempt, AttemptOK, Loops
<1>2. Missing(p) # {}
  BY <1>1, PiecesFinite DEF Missing
<1>3. ~attempt[p].waiting_for_response => Missing(p) \cap attempt[p].requested_pieces = {}
  BY DEF IInv, AttemptOK, Missing, MissingOf
<1>. QED
  BY <1>2, <1>3 DEF Requestable

LEMMA RequestStep ==
  ASSUME IInv, NEW p \in Peers, Request(p)
  PROVE  IInv'
<1>1. /\ task[p] = "loop" /\ task[p] \in Running
      /\ task' = [task EXCEPT ![p] = "receive"]
      /\ stream' = stream /\ UNCHANGED <<spawned, result>>
  BY DEF Request, Goto, Running
<1>2. /\ AttemptOK(task[p], attempt[p], owed[p])
      /\ attempt[p].retry_count < MAX_RETRIES
      /\ Missing(p) = MissingOf(attempt[p])
  BY DEF IInv, Request, Loops, Missing, MissingOf
<1>3. CASE attempt[p].waiting_for_response
  <2>1. attempt' = attempt /\ owed' = owed
    BY <1>3 DEF Request
  <2>2. AttemptOK("receive", attempt[p], owed[p])
    BY <1>1, <1>2, <1>3 DEF AttemptOK
  <2>3. /\ attempt' = [attempt EXCEPT ![p] = attempt[p]] /\ attempt[p] \in Attempt
        /\ stream' = [stream EXCEPT ![p] = stream[p]] /\ stream[p] \in {"up", "broken"}
        /\ owed' = [owed EXCEPT ![p] = owed[p]] /\ owed[p] \in [Indices -> Nat]
    BY <1>1, <2>1, Untouched DEF IInv
  <2>. QED
    BY <1>1, <2>2, <2>3, LocalStep
<1>4. CASE ~attempt[p].waiting_for_response
  <2>1. Requestable(p) = Missing(p) /\ Missing(p) # {}
    BY <1>4, LoopsMissing DEF Request
  <2>2. PICK i \in Missing(p) :
          /\ \A j \in Missing(p) : i <= j
          /\ attempt' = [attempt EXCEPT ![p] =
                [attempt[p] EXCEPT !.requested_pieces = @ \cup {i},
                                   !.waiting_for_response = TRUE]]
          /\ owed' = [owed EXCEPT ![p][i] = @ + 1]
    BY <1>4, <2>1, ZenonT(60) DEF Request, Update
  <2>. DEFINE a == [attempt[p] EXCEPT !.requested_pieces = @ \cup {i},
                                      !.waiting_for_response = TRUE]
              o == [owed[p] EXCEPT ![i] = @ + 1]
  <2>3. i \in Indices /\ i \in 0 .. (attempt[p].num_pieces - 1)
    BY FetchAssumption DEF IInv, TypeOK, Attempt, Missing, Indices
  <2>4. /\ a \in Attempt
        /\ a.num_pieces = attempt[p].num_pieces
        /\ a.metadata_pieces = attempt[p].metadata_pieces
        /\ a.received_pieces = attempt[p].received_pieces
        /\ a.retry_count = attempt[p].retry_count
        /\ a.requested_pieces = attempt[p].requested_pieces \cup {i}
        /\ a.waiting_for_response = TRUE
    BY <2>3 DEF IInv, TypeOK, Attempt
  <2>5. /\ o \in [Indices -> Nat]
        /\ \A k \in Indices : o[k] > 0 => k = i \/ owed[p][k] > 0
    BY <2>3 DEF IInv, TypeOK
  <2>6. owed' = [owed EXCEPT ![p] = o]
    BY <2>2 DEF IInv, TypeOK
  <2>7. attempt' = [attempt EXCEPT ![p] = a]
    BY <2>2
  <2>. HIDE DEF a, o
  <2>8. MissingOf(a) = Missing(p)
    BY <2>4 DEF MissingOf, Missing
  <2>9. AttemptOK("receive", a, o)
    <3>1. MissingOf(a) \cap a.requested_pieces = {i}
      BY <1>2, <1>4, <2>4, <2>8 DEF AttemptOK
    <3>2. \A k \in Indices : o[k] > 0 => \A j \in MissingOf(a) : k <= j
      BY <1>2, <2>2, <2>5, <2>8 DEF AttemptOK
    <3>. QED
      BY <1>2, <2>2, <2>4, <2>8, <3>1, <3>2 DEF AttemptOK
  <2>. QED
    BY <1>1, <2>4, <2>5, <2>6, <2>7, <2>9, Untouched, LocalStep DEF IInv
<1>. QED
  BY <1>3, <1>4

\* The piece that arrives is the one that is awaited, or was there already.
LEMMA ReceivePieceStep ==
  ASSUME IInv, NEW p \in Peers, NEW i \in Indices, ReceivePiece(p, i)
  PROVE  IInv'
<1>. DEFINE a == attempt[p]
            o == [owed[p] EXCEPT ![i] = @ - 1]
<1>1. /\ task[p] = "receive" /\ task[p] \in Running
      /\ task' = [task EXCEPT ![p] = "loop"]
      /\ stream' = stream /\ UNCHANGED <<spawned, result>>
  BY DEF ReceivePiece, Goto, Running
<1>2. /\ AttemptOK("receive", a, owed[p]) /\ a \in Attempt
      /\ Missing(p) = MissingOf(a) /\ owed[p][i] > 0
  BY <1>1 DEF IInv, TypeOK, ReceivePiece, Missing, MissingOf
<1>3. /\ o \in [Indices -> Nat]
      /\ \A k \in Indices : o[k] > 0 => owed[p][k] > 0
      /\ owed' = [owed EXCEPT ![p] = o]
  BY <1>2 DEF IInv, TypeOK, ReceivePiece
<1>. HIDE DEF o
<1>4. CASE i \notin MissingOf(a)
  <2>1. attempt' = attempt
    BY <1>2, <1>4, Untouched DEF ReceivePiece, Update, IInv
  <2>2. AttemptOK("loop", a, o)
    BY <1>2, <1>3 DEF AttemptOK
  <2>. QED
    BY <1>1, <1>3, <2>1, <2>2, Untouched, LocalStep DEF IInv
<1>5. CASE i \in MissingOf(a)
  <2>. DEFINE b == [a EXCEPT !.metadata_pieces = @ \cup {i},
                             !.received_pieces = @ + 1,
                             !.waiting_for_response = FALSE,
                             !.retry_count = 0]
  <2>1. attempt' = [attempt EXCEPT ![p] = b]
    BY <1>2, <1>5 DEF ReceivePiece, Update
  <2>2. /\ b \in Attempt
        /\ b.num_pieces = a.num_pieces
        /\ b.metadata_pieces = a.metadata_pieces \cup {i}
        /\ b.received_pieces = a.received_pieces + 1
        /\ b.requested_pieces = a.requested_pieces
        /\ b.waiting_for_response = FALSE
    <3>. HIDE DEF a
    <3>1. 0 \in 0 .. MAX_RETRIES
      BY FetchAssumption
    <3>2. a.received_pieces + 1 \in Nat /\ a.metadata_pieces \cup {i} \in SUBSET Indices
      BY <1>2 DEF Attempt
    <3>. QED
      BY <1>2, <3>1, <3>2 DEF Attempt
  <2>. HIDE DEF b
  <2>3. i \in 0 .. (a.num_pieces - 1) /\ i \notin a.metadata_pieces
    BY <1>5 DEF MissingOf
  <2>4. MissingOf(b) = MissingOf(a) \ {i}
    BY <2>2 DEF MissingOf
  <2>5. b.received_pieces = Cardinality(b.metadata_pieces)
    <3>1. a.num_pieces \in Nat /\ a.metadata_pieces \in SUBSET (0 .. (a.num_pieces - 1))
      BY <1>2 DEF Attempt, AttemptOK
    <3>2. IsFiniteSet(a.metadata_pieces)
      BY <3>1, PiecesFinite
    <3>3. Cardinality(a.metadata_pieces \cup {i}) = Cardinality(a.metadata_pieces) + 1
      BY <2>3, <3>2, FS_AddElement
    <3>. QED
      BY <1>2, <2>2, <3>3 DEF AttemptOK
  <2>6. MissingOf(b) \cap b.requested_pieces = {}
    <3>1. PICK m \in MissingOf(a) : /\ MissingOf(a) \cap a.requested_pieces = {m}
                                    /\ \A j \in MissingOf(a) : m <= j
      BY <1>2 DEF AttemptOK
    <3>2. m <= i /\ i <= m
      BY <1>2, <1>5, <3>1 DEF AttemptOK
    <3>3. m \in Int /\ i \in Int
      BY <1>2, <1>5, <3>1 DEF MissingOf, Attempt
    <3>4. m = i
      BY <3>2, <3>3
    <3>. QED
      BY <2>2, <2>4, <3>1, <3>4
  <2>7. AttemptOK("loop", b, o)
    <3>1. b.metadata_pieces \subseteq 0 .. (b.num_pieces - 1)
      BY <1>2, <2>2, <2>3 DEF AttemptOK
    <3>2. \A k \in Indices : o[k] > 0 => \A j \in MissingOf(b) : k <= j
      BY <1>2, <1>3, <2>4 DEF AttemptOK
    <3>. QED
      BY <2>2, <2>5, <2>6, <3>1, <3>2 DEF AttemptOK
  <2>. QED
    BY <1>1, <1>3, <2>1, <2>2, <2>7, Untouched, LocalStep DEF IInv
<1>. QED
  BY <1>4, <1>5

LEMMA ReceiveOtherStep ==
  ASSUME IInv, NEW p \in Peers, ReceiveOther(p)
  PROVE  IInv'
<1>1. /\ task[p] = "receive" /\ task[p] \in Running
      /\ task' = [task EXCEPT ![p] = "loop"]
      /\ UNCHANGED <<spawned, result>>
  BY DEF ReceiveOther, Goto, Running
<1>2. AttemptOK("loop", attempt[p], owed[p])
  BY <1>1 DEF IInv, AttemptOK
<1>3. /\ attempt' = [attempt EXCEPT ![p] = attempt[p]] /\ attempt[p] \in Attempt
      /\ stream' = [stream EXCEPT ![p] = stream[p]] /\ stream[p] \in {"up", "broken"}
      /\ owed' = [owed EXCEPT ![p] = owed[p]] /\ owed[p] \in [Indices -> Nat]
  BY Untouched DEF IInv, ReceiveOther
<1>. QED
  BY <1>1, <1>2, <1>3, LocalStep

LEMMA ReceiveErrorStep ==
  ASSUME IInv, NEW p \in Peers, NEW s \in {"up", "broken"}, ReceiveError(p, s)
  PROVE  IInv'
<1>. DEFINE a == attempt[p]
            b == [a EXCEPT !.retry_count = @ + 1,
                           !.waiting_for_response = FALSE,
                           !.requested_pieces = @ \ Missing(p)]
<1>1. /\ task[p] = "receive" /\ task[p] \in Running
      /\ task' = [task EXCEPT ![p] = "loop"]
      /\ attempt' = [attempt EXCEPT ![p] = b]
      /\ stream' = [stream EXCEPT ![p] = s]
      /\ owed' = owed /\ UNCHANGED <<spawned, result>>
  BY DEF ReceiveError, Goto, Update, Running
<1>2. AttemptOK("receive", a, owed[p]) /\ a \in Attempt
  BY <1>1 DEF IInv, TypeOK
<1>3. /\ b \in Attempt
      /\ b.num_pieces = a.num_pieces
      /\ b.metadata_pieces = a.metadata_pieces
      /\ b.received_pieces = a.received_pieces
      /\ b.requested_pieces = a.requested_pieces \ Missing(p)
      /\ b.waiting_for_response = FALSE
  <2>1. a.retry_count + 1 \in 0 .. MAX_RETRIES
    BY <1>2, FetchAssumption DEF AttemptOK, Attempt
  <2>. QED
    BY <1>2, <2>1 DEF Attempt
<1>. HIDE DEF b
<1>4. MissingOf(b) = MissingOf(a) /\ MissingOf(b) = Missing(p)
  BY <1>3 DEF MissingOf, Missing
<1>5. AttemptOK("loop", b, owed[p])
  BY <1>2, <1>3, <1>4 DEF AttemptOK
<1>. QED
  BY <1>1, <1>3, <1>5, Untouched, LocalStep DEF IInv

-----------------------------------------------------------------------------
(* A step of the pool *)

\* A pool that loses p and gains the next peer, if there is one, stays as full.
LEMMA JoinFailedStep ==
  ASSUME IInv, NEW p \in Peers, JoinFailed(p)
  PROVE  IInv'
<1>. DEFINE next == spawned + 1
<1>1. /\ result = "pending" /\ result' = "pending" /\ task[p] = "failed"
      /\ task' = Replaced(p)
      /\ attempt' = attempt /\ stream' = stream /\ owed' = owed
      /\ spawned' = IF spawned < NumPeers THEN spawned + 1 ELSE spawned
  BY DEF JoinFailed
<1>2. /\ spawned \in 0 .. NumPeers /\ NumPeers \in Nat
      /\ \A q \in Peers : task[q] = "unspawned" <=> q > spawned
      /\ next \in Peers <=> spawned < NumPeers
      /\ next \in Peers => task[next] = "unspawned" /\ next # p
  BY <1>1, FetchAssumption DEF IInv, TypeOK, PoolOK, Peers
<1>3. /\ task'[p] = "joined"
      /\ next \in Peers => task'[next] = "connecting"
      /\ \A q \in Peers \ {p, next} : task'[q] = task[q]
  BY <1>1, <1>2 DEF Replaced
<1>4. TypeOK'
  <2>1. spawned' \in 0 .. NumPeers
    BY <1>1, <1>2
  <2>2. task' \in [Peers -> Running \cup Ended \cup {"unspawned", "joined", "aborted"}]
    BY <1>1 DEF IInv, TypeOK, Replaced, Running
  <2>. QED
    BY <1>1, <2>1, <2>2 DEF IInv, TypeOK
<1>5. \A q \in Peers : AttemptOK(task[q], attempt[q], owed[q])'
  <2>. TAKE q \in Peers
  <2>1. CASE q \in {p, next}
    <3>1. attempt[q] = Fresh /\ owed[q] = NothingOwed
      BY <1>1, <1>2, <2>1 DEF IInv, AttemptOK
    <3>2. task'[q] # "receive"
      BY <1>3, <2>1
    <3>. QED
      BY <1>1, <3>1, <3>2, FreshFacts DEF AttemptOK, MissingOf
  <2>2. CASE q \notin {p, next}
    BY <1>1, <1>3, <2>2 DEF IInv, AttemptOK, MissingOf
  <2>. QED
    BY <2>1, <2>2
<1>6. /\ p \in InPool /\ InPool \in SUBSET Peers
      /\ InPool' = (InPool \ {p}) \cup (IF next \in Peers THEN {next} ELSE {})
      /\ next \notin InPool
  BY <1>1, <1>2, <1>3 DEF InPool, Running, Ended
<1>7. PoolFull'
  <2>1. IsFiniteSet(InPool) /\ Cardinality(InPool) \in Nat
    BY <1>6, PoolFinite
  <2>2. /\ IsFiniteSet(InPool \ {p})
        /\ Cardinality(InPool \ {p}) = Cardinality(InPool) - 1
    BY <1>6, <2>1, FS_RemoveElement
  <2>3. next \in Peers => Cardinality(InPool') = Cardinality(InPool)
    <3>. SUFFICES ASSUME next \in Peers PROVE Cardinality(InPool') = Cardinality(InPool)
      OBVIOUS
    <3>1. InPool' = (InPool \ {p}) \cup {next} /\ next \notin InPool \ {p}
      BY <1>6
    <3>2. Cardinality((InPool \ {p}) \cup {next}) = Cardinality(InPool \ {p}) + 1
      BY <2>2, <3>1, FS_AddElement
    <3>. QED
      BY <2>1, <2>2, <3>1, <3>2
  <2>4. next \notin Peers => Cardinality(InPool') = Cardinality(InPool) - 1
    BY <1>6, <2>2
  <2>5. /\ Cardinality(InPool) <= CONCURRENT
        /\ spawned < NumPeers => Cardinality(InPool) = CONCURRENT
    BY <1>1 DEF IInv, PoolOK, PoolFull
  <2>. QED
    BY <1>1, <1>2, <2>1, <2>3, <2>4, <2>5, FetchAssumption DEF PoolFull
<1>8. \A q \in Peers : task'[q] = "unspawned" <=> q > spawned'
  BY <1>1, <1>2, <1>3 DEF Peers
<1>9. \A q \in Peers : task'[q] # "aborted"
  BY <1>1, <1>2, <1>3 DEF IInv, PoolOK
<1>. QED
  BY <1>1, <1>4, <1>5, <1>7, <1>8, <1>9 DEF IInv, PoolOK

LEMMA JoinOkStep ==
  ASSUME IInv, NEW p \in Peers, JoinOk(p)
  PROVE  IInv'
<1>1. /\ result' = "ok" /\ spawned' = spawned
      /\ \A q \in Peers : task'[q] = IF task[q] \in Running THEN "aborted" ELSE task[q]
      /\ \A q \in Peers : /\ attempt'[q] = IF task[q] \in Running THEN Fresh ELSE attempt[q]
                          /\ owed'[q] = IF task[q] \in Running THEN NothingOwed ELSE owed[q]
  BY DEF JoinOk, Dropped
<1>2. TypeOK'
  BY FreshFacts DEF JoinOk, Dropped, IInv, TypeOK
<1>3. \A q \in Peers : AttemptOK(task[q], attempt[q], owed[q])'
  <2>. TAKE q \in Peers
  <2>1. CASE task[q] \in Running
    BY <1>1, <2>1, FreshFacts DEF AttemptOK, MissingOf
  <2>2. CASE task[q] \notin Running
    BY <1>1, <2>2 DEF IInv, AttemptOK, MissingOf
  <2>. QED
    BY <2>1, <2>2
<1>4. PoolOK'
  <2>1. PoolFull'
    BY <1>1 DEF PoolFull
  <2>. QED
    BY <1>1, <2>1 DEF IInv, PoolOK, Running
<1>. QED
  BY <1>2, <1>3, <1>4 DEF IInv

LEMMA JoinNoneStep ==
  ASSUME IInv, JoinNone
  PROVE  IInv'
<1>1. /\ result' = "error" /\ UNCHANGED <<spawned, task, attempt, stream, owed>>
      /\ InPool = {}
  BY DEF JoinNone
<1>2. TypeOK'
  BY <1>1 DEF IInv, TypeOK
<1>3. \A q \in Peers : AttemptOK(task[q], attempt[q], owed[q])'
  BY <1>1 DEF IInv, AttemptOK, MissingOf
<1>4. PoolOK'
  BY <1>1 DEF IInv, PoolOK, PoolFull, InPool
<1>. QED
  BY <1>2, <1>3, <1>4 DEF IInv

-----------------------------------------------------------------------------
(* The invariant *)

LEMMA InitIInv == Init => IInv
<1>. SUFFICES ASSUME Init PROVE IInv
  OBVIOUS
<1>1. /\ spawned \in 0 .. NumPeers
      /\ spawned = IF NumPeers < CONCURRENT THEN NumPeers ELSE CONCURRENT
  BY FetchAssumption DEF Init
<1>2. \A p \in Peers : /\ task[p] = IF p <= spawned THEN "connecting" ELSE "unspawned"
                       /\ attempt[p] = Fresh
                       /\ owed[p] = NothingOwed
  BY DEF Init
<1>3. TypeOK
  BY <1>1, FreshFacts DEF Init, TypeOK, Running
<1>4. \A p \in Peers : AttemptOK(task[p], attempt[p], owed[p])
  BY <1>2, FreshFacts
<1>5. InPool = 1 .. spawned
  BY <1>1, <1>2, FetchAssumption DEF InPool, Peers, Running, Ended
<1>6. Cardinality(InPool) = spawned
  BY <1>1, <1>5, FS_Interval
<1>7. PoolOK
  <2>1. PoolFull
    BY <1>1, <1>6, FetchAssumption DEF PoolFull
  <2>2. \A p \in Peers : task[p] = "unspawned" <=> p > spawned
    BY <1>1, <1>2 DEF Peers
  <2>. QED
    BY <1>2, <2>1, <2>2 DEF Init, PoolOK
<1>. QED
  BY <1>3, <1>4, <1>7 DEF IInv

LEMMA NextIInv == IInv /\ [Next]_vars => IInv'
<1>. SUFFICES ASSUME IInv, [Next]_vars PROVE IInv'
  OBVIOUS
<1>1. ASSUME NEW p \in Peers, Start(p) PROVE IInv'
  BY <1>1, HandshakeStep, EndStep DEF Start, HandshakeFails, Running
<1>2. ASSUME NEW p \in Peers, Iterate(p) PROVE IInv'
  BY <1>2, RequestStep, EndStep DEF Iterate, RequestFails, Running
<1>3. ASSUME NEW p \in Peers, Answer(p) PROVE IInv'
  BY <1>3, ReceivePieceStep, ReceiveErrorStep, EndStep DEF Answer, ReceiveReject, Running
<1>4. ASSUME NEW p \in Peers, Finish(p) PROVE IInv'
  BY <1>4, EndStep DEF Finish, Assemble, AssembleFails, Running
<1>5. ASSUME NEW p \in Peers, Join(p) PROVE IInv'
  BY <1>5, JoinOkStep, JoinFailedStep DEF Join
<1>6. CASE UNCHANGED vars
  BY <1>6 DEF vars, IInv, TypeOK, PoolOK, PoolFull, InPool, AttemptOK, MissingOf
<1>. QED
  BY <1>1, <1>2, <1>3, <1>4, <1>5, <1>6, ReceiveOtherStep, JoinNoneStep DEF Next

LEMMA SpecIInv == Spec => []IInv
  BY InitIInv, NextIInv, PTL DEF Spec

\* Every variable of the fetch keeps its type.
THEOREM FetchTypeCorrect == Spec => []TypeOK
<1>1. IInv => TypeOK
  BY DEF IInv
<1>. QED
  BY <1>1, SpecIInv, PTL

\* The loop of an attempt ends with all pieces only when all pieces are there.
THEOREM CounterAgrees == Spec => []CountMatches
<1>1. IInv => CountMatches
  BY DEF IInv, AttemptOK, CountMatches
<1>. QED
  BY <1>1, SpecIInv, PTL

\* An attempt that reads waits for one missing piece it has asked for.
THEOREM AttemptsAlwaysAsk == Spec => []AlwaysAsking
<1>1. IInv => AlwaysAsking
  <2>. SUFFICES ASSUME IInv, NEW p \in Peers, task[p] = "receive"
                PROVE  /\ attempt[p].waiting_for_response
                       /\ \E i \in Missing(p) :
                             Missing(p) \cap attempt[p].requested_pieces = {i}
    BY DEF AlwaysAsking
  <2>1. AttemptOK("receive", attempt[p], owed[p]) /\ Missing(p) = MissingOf(attempt[p])
    BY DEF IInv, Missing, MissingOf
  <2>. QED
    BY <2>1 DEF AttemptOK
<1>. QED
  BY <1>1, SpecIInv, PTL

\* The pool never exceeds CONCURRENT attempts and is full while peers are left.
THEOREM PoolStaysFull == Spec => []PoolFull
<1>1. IInv => PoolFull
  BY DEF IInv, PoolOK
<1>. QED
  BY <1>1, SpecIInv, PTL

-----------------------------------------------------------------------------
(* Refinement *)

LEMMA InitPromise == Init => Promise!Init
<1>. SUFFICES ASSUME Init PROVE Promise!Init
  OBVIOUS
<1>1. \A p \in Peers : task[p] \in {"connecting", "unspawned"}
  BY DEF Init
<1>2. Outcome = [p \in Peers |-> "pending"]
  BY <1>1 DEF Outcome
<1>. QED
  BY <1>2 DEF Init, Promise!Init

\* The end of an attempt settles its outcome.
LEMMA EndSettles ==
  ASSUME IInv, NEW p \in Peers, task[p] \in Running, NEW t \in {"ok", "failed"}, End(p, t)
  PROVE  Promise!Settle(p, t)
<1>1. result = "pending" /\ result' = result
  BY DEF IInv, PoolOK, End
<1>2. Outcome[p] = "pending"
  BY DEF Outcome, Running
<1>3. /\ task'[p] = t
      /\ \A q \in Peers \ {p} : task'[q] = task[q]
  BY DEF End, Goto, IInv, TypeOK
<1>4. Outcome' = [Outcome EXCEPT ![p] = t]
  BY <1>3 DEF Outcome
<1>. QED
  BY <1>1, <1>2, <1>4 DEF Promise!Settle

\* A step that leaves every outcome and the result alone.
LEMMA Stutters ==
  ASSUME NEW p \in Peers, task[p] \in Running, NEW t \in Running,
         IInv, Goto(p, t), UNCHANGED result
  PROVE  UNCHANGED <<Outcome, result>>
<1>1. \A q \in Peers : task'[q] = task[q] \/ (task'[q] \in Running /\ task[q] \in Running)
  BY DEF Goto, IInv, TypeOK
<1>. QED
  BY <1>1 DEF Outcome, Running

LEMMA NextPromise ==
  ASSUME IInv, [Next]_vars
  PROVE  [Promise!Next]_<<Outcome, result>>
<1>. DEFINE Step == [Promise!Next]_<<Outcome, result>>
<1>1. ASSUME NEW p \in Peers, NEW t \in {"ok", "failed"}, task[p] \in Running, End(p, t)
      PROVE  Step
  BY <1>1, EndSettles DEF Promise!Next
<1>2. ASSUME NEW p \in Peers, NEW t \in Running, task[p] \in Running, Goto(p, t),
             UNCHANGED result
      PROVE  Step
  BY <1>2, Stutters
<1>3. ASSUME NEW p \in Peers, JoinFailed(p) PROVE Step
  <2>1. /\ UNCHANGED result /\ result = "pending"
        /\ \A q \in Peers : \/ task'[q] = task[q]
                            \/ task[q] = "failed" /\ task'[q] = "joined"
                            \/ task[q] = "unspawned" /\ task'[q] = "connecting"
    BY <1>3, FetchAssumption DEF JoinFailed, Replaced, IInv, TypeOK, PoolOK, Peers
  <2>. QED
    BY <2>1 DEF Outcome
<1>4. ASSUME NEW p \in Peers, JoinOk(p) PROVE Step
  <2>1. /\ result = "pending" /\ result' = "ok" /\ Outcome[p] = "ok"
        /\ \A q \in Peers : \/ task'[q] = task[q]
                            \/ task[q] \in Running /\ task'[q] = "aborted"
    BY <1>4 DEF JoinOk, Outcome
  <2>2. UNCHANGED Outcome
    BY <2>1 DEF Outcome, Running
  <2>. QED
    BY <2>1, <2>2 DEF Promise!Succeed, Promise!Next
<1>5. ASSUME JoinNone PROVE Step
  <2>1. result = "pending" /\ result' = "error" /\ UNCHANGED task /\ InPool = {}
    BY <1>5 DEF JoinNone
  <2>2. Cardinality(InPool) = 0
    BY <2>1, FS_EmptySet
  <2>3. ~(spawned < NumPeers)
    BY <2>1, <2>2, FetchAssumption DEF IInv, PoolOK, PoolFull
  <2>4. \A q \in Peers : task[q] = "joined"
    <3>. TAKE q \in Peers
    <3>1. task[q] \notin Running \cup Ended
      BY <2>1 DEF InPool
    <3>2. task[q] # "unspawned"
      BY <2>3, FetchAssumption DEF IInv, TypeOK, PoolOK, Peers
    <3>3. task[q] # "aborted"
      BY <2>1 DEF IInv, PoolOK
    <3>. QED
      BY <3>1, <3>2, <3>3 DEF IInv, TypeOK
  <2>5. (\A q \in Peers : Outcome[q] = "failed") /\ UNCHANGED Outcome
    BY <2>1, <2>4 DEF Outcome
  <2>. QED
    BY <2>1, <2>5 DEF Promise!GiveUp, Promise!Next
<1>6. CASE UNCHANGED vars
  BY <1>6 DEF vars, Outcome
<1>7. ASSUME NEW p \in Peers, Start(p) PROVE Step
  BY <1>1, <1>2, <1>7 DEF Start, Handshake, HandshakeFails, Running
<1>8. ASSUME NEW p \in Peers, Iterate(p) PROVE Step
  BY <1>1, <1>2, <1>8 DEF Iterate, Request, RequestFails, Running
<1>9. ASSUME NEW p \in Peers, Answer(p) PROVE Step
  BY <1>1, <1>2, <1>9 DEF Answer, ReceivePiece, ReceiveReject, ReceiveError, Running
<1>10. ASSUME NEW p \in Peers, ReceiveOther(p) PROVE Step
  BY <1>2, <1>10 DEF ReceiveOther, Running
<1>11. ASSUME NEW p \in Peers, Finish(p) PROVE Step
  BY <1>1, <1>11 DEF Finish, Assemble, AssembleFails, Running
<1>. QED
  BY <1>3, <1>4, <1>5, <1>6, <1>7, <1>8, <1>9, <1>10, <1>11 DEF Next, Join

\* The fetch returns the success of some peer, and gives up only when all have failed.
THEOREM FetchKeepsPromise == Spec => KeepsPromise
<1>1. IInv /\ [Next]_vars => [Promise!Next]_<<Outcome, result>>
  BY NextPromise
<1>. QED
  BY <1>1, SpecIInv, InitPromise, PTL DEF Spec, KeepsPromise, Promise!Spec

=============================================================================
