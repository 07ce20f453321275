------------------------------ MODULE Uploads ------------------------------
(***************************************************************************)
(* The two mutexes of src/peer/client.rs and the upload queue they guard.  *)
(* Every task goes round its loop: a message, requests for blocks, the     *)
(* upload queue, the check for completion; each scope that holds a mutex   *)
(* is a step that first has to get it.  flush_upload_queue takes up to     *)
(* BatchSize requests under one mutex and writes the answers to the socket *)
(* while it holds the other.                                               *)
(*                                                                         *)
(* A request is named by the piece it asks for: get_piece_block gives      *)
(* nothing when that piece is not kept or the block exceeds it.  A scope   *)
(* that holds one mutex and changes nothing modelled here is left out: it  *)
(* delays those that wait and nothing else.                                *)
(***************************************************************************)
EXTENDS Naturals, Sequences, Functions

CONSTANTS
    Workers,    \* peer_worker tasks, each with an address of its own
    Pieces,     \* pieces of the torrent
    MaxQueue,   \* MAX_UPLOAD_QUEUE_DEPTH
    BatchSize   \* requests that one flush takes

ASSUME UploadsAssumption ==
    /\ "nothing" \notin Pieces
    /\ MaxQueue \in Nat \ {0}
    /\ BatchSize \in Nat \ {0}

VARIABLES
    pc,                 \* pc[w]: the scope w is in or has to enter next
    mutex,              \* mutex[l]: who holds l, followed by who waits, in order
    message,            \* message[w]: the request that w is processing
    pending_uploads,    \* pending_uploads[w]: the queue in w's PeerConnection
    to_serve,           \* to_serve[w]: what a flush has taken and not answered
    wire,               \* wire[w]: the answer written since w last read, or "nothing"
    kept                \* the pieces that are kept

vars == <<pc, mutex, message, pending_uploads, to_serve, wire, kept>>

Mutexes == {"download_state", "connections"}

\* Mutated: the clean-up takes its mutexes in the other order.
CleanUpSwapped == <<"connections", "download_state">>

CleanUpScope == <<"download_state", "connections">>

\* The mutexes of each scope in the order in which it takes them.
Scope ==
    [recv     |-> <<>>,
     enqueue  |-> <<"connections">>,
     cancel   |-> <<"connections">>,
     answered |-> <<"download_state", "connections">>,
     store    |-> <<"download_state">>,
     download |-> <<"download_state", "connections">>,
     take     |-> <<"connections">>,
     serve    |-> <<"download_state">>,
     check    |-> <<"download_state">>,
     cleanup  |-> CleanUpScope,
     gone     |-> <<>>]

Holds(w, l) == mutex[l] # <<>> /\ Head(mutex[l]) = w

Waits(w, l) == w \in Range(mutex[l]) /\ ~Holds(w, l)

\* w is in its scope, with every mutex of it.
Inside(w) == \A l \in Range(Scope[pc[w]]) : Holds(w, l)

\* w has not begun to enter its scope.
Outside(w) == \A l \in Mutexes : w \notin Range(mutex[l])

Init ==
    /\ pc = [w \in Workers |-> "recv"]
    /\ mutex = [l \in Mutexes |-> <<>>]
    /\ message = [w \in Workers |-> "nothing"]
    /\ pending_uploads = [w \in Workers |-> <<>>]
    /\ to_serve = [w \in Workers |-> <<>>]
    /\ wire = [w \in Workers |-> "nothing"]
    /\ kept \in SUBSET Pieces

Goto(w, s) == pc' = [pc EXCEPT ![w] = s]

\* The guards of w's scope are dropped; the next in each line holds the mutex.
Release(w) ==
    mutex' = [l \in Mutexes |-> IF Holds(w, l) THEN Tail(mutex[l]) ELSE mutex[l]]

Leave(w, s) == Inside(w) /\ Release(w) /\ Goto(w, s)

\* lock().await: w joins the line for the next mutex of its scope.
Ask(w) ==
    /\ \E k \in DOMAIN Scope[pc[w]] :
          LET l == Scope[pc[w]][k] IN
          /\ \A j \in 1 .. (k - 1) : Holds(w, Scope[pc[w]][j])
          /\ w \notin Range(mutex[l])
          /\ mutex' = [mutex EXCEPT ![l] = Append(@, w)]
    /\ UNCHANGED <<pc, message, pending_uploads, to_serve, wire, kept>>

-----------------------------------------------------------------------------
(* A message, or the tick *)

\* The tick, or a message that changes nothing modelled here.
RecvNothing(w) ==
    /\ pc[w] = "recv"
    /\ Goto(w, "download")
    /\ wire' = [wire EXCEPT ![w] = "nothing"]
    /\ UNCHANGED <<mutex, message, pending_uploads, to_serve, kept>>

RecvRequest(w, p) ==
    /\ pc[w] = "recv"
    /\ Goto(w, "enqueue")
    /\ message' = [message EXCEPT ![w] = p]
    /\ wire' = [wire EXCEPT ![w] = "nothing"]
    /\ UNCHANGED <<mutex, pending_uploads, to_serve, kept>>

RecvCancel(w, p) ==
    /\ pc[w] = "recv"
    /\ Goto(w, "cancel")
    /\ message' = [message EXCEPT ![w] = p]
    /\ wire' = [wire EXCEPT ![w] = "nothing"]
    /\ UNCHANGED <<mutex, pending_uploads, to_serve, kept>>

RecvPiece(w) ==
    /\ pc[w] = "recv"
    /\ Goto(w, "answered")
    /\ wire' = [wire EXCEPT ![w] = "nothing"]
    /\ UNCHANGED <<mutex, message, pending_uploads, to_serve, kept>>

\* The stream ends, or a message cannot be processed.
RecvClosed(w) ==
    /\ pc[w] = "recv"
    /\ Goto(w, "cleanup")
    /\ wire' = [wire EXCEPT ![w] = "nothing"]
    /\ UNCHANGED <<mutex, message, pending_uploads, to_serve, kept>>

\* handle_piece_request: a request beyond the limit is ignored.  am_choking is FALSE
\* from the greeting on.
Enqueue(w) ==
    /\ pc[w] = "enqueue"
    /\ Leave(w, "download")
    /\ pending_uploads' =
          IF Len(pending_uploads[w]) < MaxQueue
          THEN [pending_uploads EXCEPT ![w] = Append(@, message[w])]
          ELSE pending_uploads
    /\ message' = [message EXCEPT ![w] = "nothing"]
    /\ UNCHANGED <<to_serve, wire, kept>>

Without(s, p) == IF p \in Range(s) THEN SelectSeq(s, LAMBDA q : q # p) ELSE s

CancelUpload(w) ==
    /\ pc[w] = "cancel"
    /\ Leave(w, "download")
    /\ pending_uploads' = [pending_uploads EXCEPT ![w] = Without(@, message[w])]
    /\ message' = [message EXCEPT ![w] = "nothing"]
    /\ UNCHANGED <<to_serve, wire, kept>>

\* handle_piece_message: the request leaves pending_requests, then the block is stored.
RemovePending(w) ==
    /\ pc[w] = "answered"
    /\ Leave(w, "store")
    /\ UNCHANGED <<message, pending_uploads, to_serve, wire, kept>>

\* The block may complete a piece, or make one fail its hash, which ends the loop.
StoreBlock(w) ==
    /\ pc[w] = "store"
    /\ \/ Leave(w, "cleanup") /\ UNCHANGED kept
       \/ Leave(w, "download") /\ (UNCHANGED kept \/ \E p \in Pieces : kept' = kept \cup {p})
    /\ UNCHANGED <<message, pending_uploads, to_serve, wire>>

-----------------------------------------------------------------------------
(* Requests for blocks *)

\* Mutated: a task with nothing to request goes straight to the end of the loop.
SkipToCheck(w) ==
    /\ pc[w] = "download"
    /\ Outside(w)
    /\ Goto(w, "check")
    /\ UNCHANGED <<mutex, message, pending_uploads, to_serve, wire, kept>>

\* The peer chokes, or has nothing for us.
SkipDownload(w) ==
    /\ pc[w] = "download"
    /\ Outside(w)
    /\ Goto(w, "take")
    /\ UNCHANGED <<mutex, message, pending_uploads, to_serve, wire, kept>>

\* Blocks are picked under both mutexes, and requested after; a write may fail.
Download(w) ==
    /\ pc[w] = "download"
    /\ Leave(w, "take") \/ Leave(w, "cleanup")
    /\ UNCHANGED <<message, pending_uploads, to_serve, wire, kept>>

-----------------------------------------------------------------------------
(* flush_upload_queue *)

\* Mutated: the queue is left alone until there is a full batch.
TakeFullBatch(w) ==
    /\ pc[w] = "take"
    /\ LET n == IF Len(pending_uploads[w]) < BatchSize THEN 0 ELSE BatchSize
       IN  /\ to_serve' = [to_serve EXCEPT ![w] = SubSeq(pending_uploads[w], 1, n)]
           /\ pending_uploads' = [pending_uploads EXCEPT ![w] = SubSeq(@, n + 1, Len(@))]
           /\ Leave(w, IF n = 0 THEN "check" ELSE "serve")
    /\ UNCHANGED <<message, wire, kept>>

\* Mutated: the download state is locked with nothing to serve, too.
TakeAndLock(w) ==
    /\ pc[w] = "take"
    /\ LET n == IF Len(pending_uploads[w]) < BatchSize
                THEN Len(pending_uploads[w]) ELSE BatchSize
       IN  /\ to_serve' = [to_serve EXCEPT ![w] = SubSeq(pending_uploads[w], 1, n)]
           /\ pending_uploads' = [pending_uploads EXCEPT ![w] = SubSeq(@, n + 1, Len(@))]
    /\ Leave(w, "serve")
    /\ UNCHANGED <<message, wire, kept>>

\* Up to BatchSize requests leave the queue; with none the download state is not locked.
Take(w) ==
    /\ pc[w] = "take"
    /\ LET n == IF Len(pending_uploads[w]) < BatchSize
                THEN Len(pending_uploads[w]) ELSE BatchSize
       IN  /\ to_serve' = [to_serve EXCEPT ![w] = SubSeq(pending_uploads[w], 1, n)]
           /\ pending_uploads' = [pending_uploads EXCEPT ![w] = SubSeq(@, n + 1, Len(@))]
    /\ Leave(w, IF pending_uploads[w] = <<>> THEN "check" ELSE "serve")
    /\ UNCHANGED <<message, wire, kept>>

\* Mutated: a request for a piece that is not there is tried until it is.
ServePatiently(w) ==
    /\ pc[w] = "serve"
    /\ Inside(w)
    /\ IF Head(to_serve[w]) \in kept
       THEN /\ wire' = [wire EXCEPT ![w] = Head(to_serve[w])]
            /\ to_serve' = [to_serve EXCEPT ![w] = Tail(@)]
       ELSE UNCHANGED <<wire, to_serve>>
    /\ IF to_serve'[w] = <<>> THEN Leave(w, "check") ELSE UNCHANGED <<pc, mutex>>
    /\ UNCHANGED <<message, pending_uploads, kept>>

\* One answer is written, or its request dropped.  The mutex is held to the last one.
Serve(w) ==
    /\ pc[w] = "serve"
    /\ Inside(w)
    /\ wire' = IF Head(to_serve[w]) \in kept
               THEN [wire EXCEPT ![w] = Head(to_serve[w])] ELSE wire
    /\ to_serve' = [to_serve EXCEPT ![w] = Tail(@)]
    /\ IF to_serve'[w] = <<>> THEN Leave(w, "check") ELSE UNCHANGED <<pc, mutex>>
    /\ UNCHANGED <<message, pending_uploads, kept>>

\* Its write fails: the rest of the batch is forgotten.
ServeFails(w) ==
    /\ pc[w] = "serve"
    /\ Head(to_serve[w]) \in kept
    /\ Leave(w, "cleanup")
    /\ to_serve' = [to_serve EXCEPT ![w] = <<>>]
    /\ UNCHANGED <<message, pending_uploads, wire, kept>>

-----------------------------------------------------------------------------
(* The end of the loop *)

CheckComplete(w) ==
    /\ pc[w] = "check"
    /\ Leave(w, IF kept = Pieces THEN "cleanup" ELSE "recv")
    /\ UNCHANGED <<message, pending_uploads, to_serve, wire, kept>>

\* A metadata answer or a keep-alive cannot be written.
WriteFails(w) ==
    /\ pc[w] = "check"
    /\ Outside(w)
    /\ Goto(w, "cleanup")
    /\ UNCHANGED <<mutex, message, pending_uploads, to_serve, wire, kept>>

\* The entry leaves the table, and the queue with it.
CleanUp(w) ==
    /\ pc[w] = "cleanup"
    /\ Leave(w, "gone")
    /\ pending_uploads' = [pending_uploads EXCEPT ![w] = <<>>]
    /\ wire' = [wire EXCEPT ![w] = "nothing"]
    /\ UNCHANGED <<message, to_serve, kept>>

\* The peer is connected to again, by a reannounce that may find the download complete.
Connect(w) ==
    /\ pc[w] = "gone"
    /\ Goto(w, "recv")
    /\ UNCHANGED <<mutex, message, pending_uploads, to_serve, wire, kept>>

-----------------------------------------------------------------------------
(* Specification *)

Recv(w) ==
    \/ RecvNothing(w) \/ RecvPiece(w) \/ RecvClosed(w)
    \/ \E p \in Pieces : RecvRequest(w, p) \/ RecvCancel(w, p)

\* What w does when it is its turn.
Work(w) ==
    \/ Recv(w)
    \/ Enqueue(w) \/ CancelUpload(w) \/ RemovePending(w) \/ StoreBlock(w)
    \/ SkipDownload(w) \/ Download(w)
    \/ Take(w) \/ Serve(w) \/ ServeFails(w)
    \/ CheckComplete(w) \/ WriteFails(w) \/ CleanUp(w)

Next == \E w \in Workers : Ask(w) \/ Work(w) \/ Connect(w)

Spec == Init /\ [][Next]_vars

\* w may be writing to its peer: an answer, with the download state locked; requests,
\* metadata answers or a keep-alive, with nothing locked.
Writing(w) ==
    \/ pc[w] = "serve" /\ Inside(w) /\ Head(to_serve[w]) \in kept
    \/ pc[w] \in {"take", "check"} /\ Outside(w)

\* tokio runs every task that is ready.  A write has no timeout: while the peer keeps
\* the connection open and does not read, it need not end.
Fairness ==
    \A w \in Workers : WF_vars(Ask(w) /\ ~Writing(w)) /\ WF_vars(Work(w) /\ ~Writing(w))

FairSpec == Spec /\ Fairness

-----------------------------------------------------------------------------
(* Properties *)

TypeOK ==
    /\ pc \in [Workers -> DOMAIN Scope]
    /\ mutex \in [Mutexes -> Seq(Workers)]
    /\ message \in [Workers -> Pieces \cup {"nothing"}]
    /\ pending_uploads \in [Workers -> Seq(Pieces)]
    /\ to_serve \in [Workers -> Seq(Pieces)]
    /\ wire \in [Workers -> Pieces \cup {"nothing"}]
    /\ kept \in SUBSET Pieces
    /\ \A w \in Workers : pc[w] = "serve" <=> to_serve[w] # <<>>

\* "CONSISTENT LOCK ORDER: download_state first, then connections"
\* (src/peer/client.rs:476): no task that holds the connections waits for the download
\* state, so that no two tasks wait for each other.
LockOrder ==
    \A w \in Workers : Holds(w, "connections") => ~Waits(w, "download_state")

\* A task that reads a message has answered or dropped every request it has read
\* before: requests never pile up behind each other, the queue stays far from its
\* limit, and a Cancel finds nothing to cancel.
AnsweredAtOnce ==
    \A w \in Workers : pc[w] \in {"recv", "enqueue", "cancel"} =>
        pending_uploads[w] = <<>> /\ to_serve[w] = <<>>

\* Every write ends, as it does while peers read or close their connections.
WritesEnd == \A w \in Workers : Writing(w) ~> ~Writing(w)

\* A task that waits for a mutex gets it: what the progress of every task and of the
\* monitor rests on.  It does not hold: an answer is written with the download state
\* locked and no timeout (src/peer/client.rs:969-977), so one peer that stops reading
\* stops them all.
LocksAlwaysGranted ==
    \A w \in Workers, l \in Mutexes : Waits(w, l) ~> Holds(w, l)

\* That is all that can keep a task waiting: if the writes of all tasks end, then whoever
\* waits for a mutex gets it (src/peer/client.rs, every lock()).
LocksGranted == WritesEnd => LocksAlwaysGranted

\* If the writes of all tasks end, its own and those it may have to wait for, then a
\* request for a piece that is kept is answered, unless the connection ends.
Answered ==
    WritesEnd =>
        \A w \in Workers, p \in Pieces :
            pc[w] = "enqueue" /\ message[w] = p /\ p \in kept
                ~> wire[w] = p \/ pc[w] = "cleanup"

=============================================================================
