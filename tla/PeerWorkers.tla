---------------------------- MODULE PeerWorkers ----------------------------
(***************************************************************************)
(* The peer workers of src/peer/client.rs: one tokio task per peer, all    *)
(* sharing the download state and the table of connections, each behind a  *)
(* Mutex of its own.  Every action is the code between two points where    *)
(* another task can run: one lock scope, one socket operation, or the      *)
(* receipt of one message.                                                 *)
(*                                                                         *)
(* The peers and the network are the environment: a peer may answer any    *)
(* request it was sent on a connection while that connection lasts, at any *)
(* time and with any data; a request that timed out and was sent again may *)
(* get two answers.                                                        *)
(***************************************************************************)
EXTENDS DownloadState

CONSTANTS
    Workers,            \* tasks that run peer_worker
    Addrs,              \* socket addresses
    AddrOf,             \* AddrOf[w]: the address of the peer that w serves
    StartOf,            \* StartOf[a]: piece_offset, a hash of the address
    Bitfields,          \* the sets of pieces a peer's Bitfield message may announce
    MAX_PIPELINE_DEPTH,
    BATCH_SIZE,
    MaxCopies           \* bound on the unanswered copies of one request that are told apart

ASSUME WorkersAssumption ==
    /\ AddrOf \in [Workers -> Addrs]
    /\ StartOf \in [Addrs -> Pieces]
    /\ Bitfields \subseteq SUBSET Pieces
    /\ MAX_PIPELINE_DEPTH \in Nat
    /\ BATCH_SIZE \in Nat
    /\ MaxCopies \in Nat \ {0}

VARIABLES
    connected,  \* the addresses that have an entry in the connection table
    conn,       \* conn[a]: the PeerConnection of a (a fresh one when a has no entry)
    pc,         \* pc[w]: where task w is
    blocks,     \* blocks[w]: the block list the task holds between two lock scopes
    data,       \* data[w]: the data of the piece message it holds, or "none"
    asked       \* asked[w][b]: how many requests for b are unanswered on w's TCP stream

vars == <<pieces, piece_blocks, requested_blocks, connected, conn, pc, blocks, data, asked>>

workerVars == <<blocks, data, asked>>

NothingAsked == [b \in BlockInfo |-> 0]

NewConnection ==
    [am_interested    |-> FALSE,
     peer_choking     |-> TRUE,
     has_bitfield     |-> FALSE,
     bitfield         |-> {},
     pending_requests |-> {}]

PeerConnection ==
    [am_interested    : BOOLEAN,
     peer_choking     : BOOLEAN,
     has_bitfield     : BOOLEAN,
     bitfield         : SUBSET Pieces,
     pending_requests : SUBSET BlockInfo]

\* The tasks before their connection is in the table, and after it has left it.
Detached == {"idle", "connecting"}

\* The tasks whose connection is in the table.
Attached == {"greeting", "recv", "store", "timeouts", "expire", "download", "pick",
             "add", "send", "unsend", "check", "cleanup"}

can_download(c) == ~c.peer_choking /\ c.am_interested

Init ==
    /\ StateInit
    /\ connected = {}
    /\ conn = [a \in Addrs |-> NewConnection]
    /\ pc = [w \in Workers |-> "idle"]
    /\ blocks = [w \in Workers |-> {}]
    /\ data = [w \in Workers |-> "none"]
    /\ asked = [w \in Workers |-> NothingAsked]

-----------------------------------------------------------------------------
(* Helpers *)

Goto(w, l) == pc' = [pc EXCEPT ![w] = l]

Hold(w, B) == blocks' = [blocks EXCEPT ![w] = B]

Conn(w) == conn[AddrOf[w]]

\* The requests for the blocks of B have gone out on w's stream.
Ask(w, B) ==
    asked' = [asked EXCEPT ![w] =
                 [b \in BlockInfo |->
                     IF b \in B /\ @[b] < MaxCopies THEN @[b] + 1 ELSE @[b]]]

\* One of the requests for b is answered.
Answered(w, b) == asked' = [asked EXCEPT ![w][b] = @ - 1]

\* `if let Some(conn) = connections.get_mut(&addr)` ... store c there.
UpdateConn(w, c) ==
    /\ conn' = IF AddrOf[w] \in connected THEN [conn EXCEPT ![AddrOf[w]] = c] ELSE conn
    /\ UNCHANGED connected

-----------------------------------------------------------------------------
(* Connecting *)

\* connect_to_new_peers: an address with no entry in the table gets a task.
Spawn(w) ==
    /\ pc[w] = "idle"
    /\ AddrOf[w] \notin connected
    /\ Goto(w, "connecting")
    /\ UNCHANGED <<stateVars, connected, conn, workerVars>>

\* connect_to_peer returns an error and peer_worker with it.
ConnectFails(w) ==
    /\ pc[w] = "connecting"
    /\ Goto(w, "idle")
    /\ UNCHANGED <<stateVars, connected, conn, workerVars>>

\* The handshake succeeds and a fresh connection is inserted, over any that is there.
Connect(w) ==
    /\ pc[w] = "connecting"
    /\ connected' = connected \cup {AddrOf[w]}
    /\ conn' = [conn EXCEPT ![AddrOf[w]] = NewConnection]
    /\ Goto(w, "greeting")
    /\ UNCHANGED <<stateVars, workerVars>>

\* Interested, unchoke and the extension handshake are written, the flags are set.
Greet(w) ==
    /\ pc[w] = "greeting"
    /\ UpdateConn(w, [Conn(w) EXCEPT !.am_interested = TRUE])
    /\ Goto(w, "recv")
    /\ UNCHANGED <<stateVars, workerVars>>

\* One of those writes fails: `?` leaves peer_worker before its clean-up.
GreetFails(w) ==
    /\ pc[w] = "greeting"
    /\ Goto(w, "idle")
    /\ UNCHANGED <<stateVars, connected, conn, workerVars>>

-----------------------------------------------------------------------------
(* Receiving one message, or the 100 ms tick *)

\* The tick, or a message that none of the modelled state depends on.
RecvNothing(w) ==
    /\ pc[w] = "recv"
    /\ Goto(w, "timeouts")
    /\ UNCHANGED <<stateVars, connected, conn, workerVars>>

RecvControl(w, c) ==
    /\ pc[w] = "recv"
    /\ UpdateConn(w, c)
    /\ Goto(w, "timeouts")
    /\ UNCHANGED <<stateVars, workerVars>>

RecvChoke(w) == RecvControl(w, [Conn(w) EXCEPT !.peer_choking = TRUE])

RecvUnchoke(w) == RecvControl(w, [Conn(w) EXCEPT !.peer_choking = FALSE])

\* A Bitfield replaces whatever was known of the peer's pieces.
RecvBitfield(w, S) ==
    RecvControl(w, [Conn(w) EXCEPT !.has_bitfield = TRUE, !.bitfield = S])

\* A Have is dropped while the peer has sent no bitfield.
RecvHave(w, p) ==
    RecvControl(w, IF Conn(w).has_bitfield
                   THEN [Conn(w) EXCEPT !.bitfield = @ \cup {p}]
                   ELSE Conn(w))

\* handle_piece_message, first scope: the request is no longer pending.  A misfit
\* answer names another BlockInfo and removes nothing.
RecvPiece(w, b, d) ==
    /\ pc[w] = "recv"
    /\ asked[w][b] > 0
    /\ UpdateConn(w, IF d = "misfit" THEN Conn(w)
                     ELSE [Conn(w) EXCEPT !.pending_requests = @ \ {b}])
    /\ Hold(w, {b})
    /\ data' = [data EXCEPT ![w] = d]
    /\ IF d = "misfit" THEN UNCHANGED asked ELSE Answered(w, b)
    /\ Goto(w, "store")
    /\ UNCHANGED stateVars

\* handle_piece_message, last scope: a piece that fails its hash ends the connection.
StoreBlock(w) ==
    /\ pc[w] = "store"
    /\ \E b \in blocks[w] :
          /\ complete_block(b, data[w])
          /\ Goto(w, IF HashFails(b, data[w]) THEN "cleanup" ELSE "timeouts")
    /\ Hold(w, {})
    /\ data' = [data EXCEPT ![w] = "none"]
    /\ UNCHANGED <<connected, conn, asked>>

\* Mutated: the entry is removed as soon as the stream ends.
RecvClosedRemoving(w) ==
    /\ pc[w] = "recv"
    /\ connected' = connected \ {AddrOf[w]}
    /\ conn' = [conn EXCEPT ![AddrOf[w]] = NewConnection]
    /\ Goto(w, "cleanup")
    /\ UNCHANGED <<stateVars, workerVars>>

\* The reader task has ended: end of stream, an error, or an unknown message id.
RecvClosed(w) ==
    /\ pc[w] = "recv"
    /\ Goto(w, "cleanup")
    /\ UNCHANGED <<stateVars, connected, conn, workerVars>>

-----------------------------------------------------------------------------
(* handle_request_timeouts *)

\* No pending request is older than REQUEST_TIMEOUT.
NoTimeout(w) ==
    /\ pc[w] = "timeouts"
    /\ Goto(w, "download")
    /\ UNCHANGED <<stateVars, connected, conn, workerVars>>

\* The requests of T are; they leave pending_requests.
ClearTimedOut(w, T) ==
    /\ pc[w] = "timeouts"
    /\ AddrOf[w] \in connected
    /\ T # {}
    /\ T \subseteq Conn(w).pending_requests
    /\ UpdateConn(w, [Conn(w) EXCEPT !.pending_requests = @ \ T])
    /\ Hold(w, T)
    /\ Goto(w, "expire")
    /\ UNCHANGED <<stateVars, data, asked>>

\* They leave requested_blocks in a second scope.
ReleaseTimedOut(w) ==
    /\ pc[w] = "expire"
    /\ unmark_requested_blocks(blocks[w])
    /\ Hold(w, {})
    /\ Goto(w, "download")
    /\ UNCHANGED <<pieces, piece_blocks, connected, conn, data, asked>>

-----------------------------------------------------------------------------
(* try_download_blocks *)

CheckCanDownload(w) ==
    /\ pc[w] = "download"
    /\ Goto(w, IF AddrOf[w] \in connected /\ can_download(Conn(w))
               THEN "pick" ELSE "check")
    /\ UNCHANGED <<stateVars, connected, conn, workerVars>>

\* Mutated: the requests already pending are not counted.
MaxBlocksIgnoringPending(w) ==
    IF MAX_PIPELINE_DEPTH < BATCH_SIZE THEN MAX_PIPELINE_DEPTH ELSE BATCH_SIZE

\* The free slots of the pipeline, no more than a batch.
MaxBlocks(w) ==
    LET free == MAX_PIPELINE_DEPTH - Cardinality(Conn(w).pending_requests)
    IN  IF free < 0 THEN 0 ELSE IF free < BATCH_SIZE THEN free ELSE BATCH_SIZE

\* Mutated: with nothing to request the loop goes straight to the next message.
PickBatchOrContinue(w) ==
    /\ pc[w] = "pick"
    /\ \E B \in SUBSET Wanted(Conn(w).bitfield) :
          /\ IF AddrOf[w] \in connected /\ Conn(w).has_bitfield
             THEN IsPicked(B, Conn(w).bitfield, StartOf[AddrOf[w]], MaxBlocks(w))
             ELSE B = {}
          /\ mark_requested_blocks(B)
          /\ Hold(w, B)
          /\ Goto(w, IF B = {} THEN "recv" ELSE "add")
    /\ UNCHANGED <<pieces, piece_blocks, connected, conn, data, asked>>

\* Both locks: pick and mark a batch.
PickBatch(w) ==
    /\ pc[w] = "pick"
    /\ \E B \in SUBSET Wanted(Conn(w).bitfield) :
          /\ IF AddrOf[w] \in connected /\ Conn(w).has_bitfield
             THEN IsPicked(B, Conn(w).bitfield, StartOf[AddrOf[w]], MaxBlocks(w))
             ELSE B = {}
          /\ mark_requested_blocks(B)
          /\ Hold(w, B)
          /\ Goto(w, IF B = {} THEN "check" ELSE "add")
    /\ UNCHANGED <<pieces, piece_blocks, connected, conn, data, asked>>

\* The connections lock alone: the batch becomes pending.
AddPending(w) ==
    /\ pc[w] = "add"
    /\ UpdateConn(w, [Conn(w) EXCEPT !.pending_requests = @ \cup blocks[w]])
    /\ Goto(w, "send")
    /\ UNCHANGED <<stateVars, workerVars>>

\* No lock: every request of the batch is written.
SendAll(w) ==
    /\ pc[w] = "send"
    /\ Ask(w, blocks[w])
    /\ Hold(w, {})
    /\ Goto(w, "check")
    /\ UNCHANGED <<stateVars, connected, conn, data>>

\* The requests of S, the first of the batch, are written and the next one fails.
SendFails(w, S) ==
    /\ pc[w] = "send"
    /\ S \subseteq blocks[w]
    /\ S # blocks[w]
    /\ \A b \in S, c \in blocks[w] \ S : Before(StartOf[AddrOf[w]], b, c)
    /\ Ask(w, S)
    /\ Hold(w, blocks[w] \ S)
    /\ Goto(w, "unsend")
    /\ UNCHANGED <<stateVars, connected, conn, data>>

\* Mutated: the unsent requests leave requested_blocks alone.
WithdrawMarksOnly(w) ==
    /\ pc[w] = "unsend"
    /\ unmark_requested_blocks(IF AddrOf[w] \in connected THEN blocks[w] ELSE {})
    /\ Hold(w, {})
    /\ Goto(w, "check")
    /\ UNCHANGED <<pieces, piece_blocks, connected, conn, data, asked>>

\* Mutated: the unsent requests leave pending_requests alone.
WithdrawPendingOnly(w) ==
    /\ pc[w] = "unsend"
    /\ UpdateConn(w, [Conn(w) EXCEPT !.pending_requests = @ \ blocks[w]])
    /\ Hold(w, {})
    /\ Goto(w, "check")
    /\ UNCHANGED <<stateVars, data, asked>>

\* Both locks: what was not sent is neither pending nor requested any more.
WithdrawUnsent(w) ==
    /\ pc[w] = "unsend"
    /\ UpdateConn(w, [Conn(w) EXCEPT !.pending_requests = @ \ blocks[w]])
    /\ unmark_requested_blocks(IF AddrOf[w] \in connected THEN blocks[w] ELSE {})
    /\ Hold(w, {})
    /\ Goto(w, "check")
    /\ UNCHANGED <<pieces, piece_blocks, data, asked>>

-----------------------------------------------------------------------------
(* The end of an iteration, and of the task *)

CheckComplete(w) ==
    /\ pc[w] = "check"
    /\ Goto(w, IF is_complete THEN "cleanup" ELSE "recv")
    /\ UNCHANGED <<stateVars, connected, conn, workerVars>>

\* An upload, a metadata answer or a keep-alive cannot be written.
WriteFails(w) ==
    /\ pc[w] = "check"
    /\ Goto(w, "cleanup")
    /\ UNCHANGED <<stateVars, connected, conn, workerVars>>

\* Mutated: the entry is removed and its pending requests stay marked.
CleanUpKeepingMarks(w) ==
    /\ pc[w] = "cleanup"
    /\ connected' = connected \ {AddrOf[w]}
    /\ conn' = [conn EXCEPT ![AddrOf[w]] = NewConnection]
    /\ asked' = [asked EXCEPT ![w] = NothingAsked]
    /\ Goto(w, "idle")
    /\ UNCHANGED <<stateVars, blocks, data>>

\* Both locks: whatever is still pending is released and the entry removed.
CleanUp(w) ==
    /\ pc[w] = "cleanup"
    /\ unmark_requested_blocks(IF AddrOf[w] \in connected
                               THEN Conn(w).pending_requests ELSE {})
    /\ connected' = connected \ {AddrOf[w]}
    /\ conn' = [conn EXCEPT ![AddrOf[w]] = NewConnection]
    /\ asked' = [asked EXCEPT ![w] = NothingAsked]
    /\ Goto(w, "idle")
    /\ UNCHANGED <<pieces, piece_blocks, blocks, data>>

-----------------------------------------------------------------------------
(* Specification *)

\* What the runtime alone is enough to carry out: no answer of a peer is awaited.
TaskStep(w) ==
    \/ Greet(w) \/ RecvNothing(w) \/ StoreBlock(w) \/ NoTimeout(w) \/ ReleaseTimedOut(w)
    \/ CheckCanDownload(w) \/ PickBatch(w) \/ AddPending(w) \/ SendAll(w)
    \/ WithdrawUnsent(w) \/ CheckComplete(w) \/ CleanUp(w)

\* What a task and a peer do when nothing goes wrong.
Smooth(w) ==
    \/ Spawn(w) \/ Connect(w) \/ TaskStep(w) \/ RecvUnchoke(w)
    \/ \E S \in Bitfields : RecvBitfield(w, S)
    \/ \E p \in Pieces : RecvHave(w, p)
    \/ \E b \in BlockInfo : RecvPiece(w, b, "good")

\* What the network or the peer may spoil, and the code recovers from.
Recoverable(w) ==
    \/ ConnectFails(w)
    \/ RecvChoke(w) \/ RecvClosed(w)
    \/ \E b \in BlockInfo, d \in Data \ {"good"} : RecvPiece(w, b, d)
    \/ \E T \in SUBSET Conn(w).pending_requests : ClearTimedOut(w, T)
    \/ \E S \in SUBSET blocks[w] : SendFails(w, S)
    \/ WriteFails(w)

Adverse(w) == GreetFails(w) \/ Recoverable(w)

Next == \E w \in Workers : Smooth(w) \/ Adverse(w)

Spec == Init /\ [][Next]_vars

-----------------------------------------------------------------------------
(* Properties *)

TypeOK ==
    /\ StateTypeOK
    /\ connected \subseteq Addrs
    /\ conn \in [Addrs -> PeerConnection]
    /\ pc \in [Workers -> Detached \cup Attached]
    /\ blocks \in [Workers -> SUBSET BlockInfo]
    /\ data \in [Workers -> Data \cup {"none"}]
    /\ asked \in [Workers -> [BlockInfo -> 0 .. MaxCopies]]

\* The requests task w answers for: what it holds between two scopes, and what is
\* pending on its connection.  A misfit answer stands for no request.
Owned(w) ==
    (IF data[w] = "misfit" THEN {} ELSE blocks[w])
        \cup (IF pc[w] \in Attached THEN Conn(w).pending_requests ELSE {})

\* No two tasks ever serve the same address at once.
OneTaskPerAddress == \A v, w \in Workers : AddrOf[v] = AddrOf[w] => v = w

\* No requested block is orphaned: a block marked in requested_blocks, which no peer
\* will be asked for, is always one that some live task will store, time out,
\* withdraw or release (docs/REQUEST_PIPELINING.md:179-184).
NoOrphan == \A b \in requested_blocks : \E w \in Workers : b \in Owned(w)

\* The requests that are waiting for an answer on w's connection.
InFlight(w) ==
    Conn(w).pending_requests \ (IF pc[w] \in {"send", "unsend"} THEN blocks[w] ELSE {})

\* Where a task holds blocks between two lock scopes.
Holding == {"store", "expire", "add", "send", "unsend"}

\* What ties a task's own variables to its connection, wherever the task is.
TaskOK(w) ==
    /\ pc[w] \in Attached => AddrOf[w] \in connected
    /\ pc[w] = "greeting" => Conn(w).pending_requests = {}
    /\ blocks[w] # {} => pc[w] \in Holding
    /\ pc[w] = "store" <=> data[w] # "none"
    /\ pc[w] = "store" => \E b \in BlockInfo : blocks[w] = {b}
    /\ pc[w] \in {"send", "unsend"} => blocks[w] \subseteq Conn(w).pending_requests

\* While a task is between greeting and clean-up the connection under its address is
\* there and is its own: what it holds across an unlocked stretch still describes it.
TaskInv == \A w \in Workers : TaskOK(w)

\* A pending request really went out: a batch that breaks off half-way leaves nothing
\* pending that the peer never saw and could not answer.
PendingWasSent ==
    \A w \in Workers : pc[w] \in Attached => \A b \in InFlight(w) : asked[w][b] > 0

\* A batch picked under one lock and made pending under another never takes the
\* pipeline over its depth.
PipelineBounded ==
    \A w \in Workers :
        pc[w] \in Attached =>
            Cardinality(Conn(w).pending_requests
                          \cup (IF pc[w] = "add" THEN blocks[w] ELSE {}))
                <= MAX_PIPELINE_DEPTH

\* The pieces the download keeps follow the promise of VerifiedDownload: only the
\* right content, one piece at a time, never lost or replaced (README.md:14).
Promise == INSTANCE VerifiedDownload WITH kept <- pieces

KeepsPromise == Promise!Spec

\* An address the table knows is served by a task: otherwise connect_to_new_peers
\* filters it out for ever (src/peer/client.rs:805).
ConnectionHasTask ==
    \A a \in connected : \E w \in Workers : AddrOf[w] = a /\ pc[w] \in Attached

\* Blocks are stored only until their piece is complete (docs/SHA1_VERIFICATION.md:184).
NoResidue ==
    \A b \in BlockInfo : pieces[b.piece_index] # "missing" => piece_blocks[b] = "none"

=============================================================================
