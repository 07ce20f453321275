------------------------- MODULE PeerWorkersProofs -------------------------
(***************************************************************************)
(* Theorems about PeerWorkers, for any torrent, any number of workers and  *)
(* addresses and any pipeline depth.                                       *)
(***************************************************************************)
EXTENDS PeerWorkers, TLAPS, FiniteSetTheorems

-----------------------------------------------------------------------------
(* The data *)

\* A block belongs to a piece of the torrent.
LEMMA BlockPiece == \A b \in BlockInfo : b.piece_index \in Pieces
  BY DEF BlockInfo

\* Storing a block keeps the download state well formed.
LEMMA CompleteBlockType ==
  ASSUME StateTypeOK, NEW b \in BlockInfo, NEW d \in Data, complete_block(b, d)
  PROVE  StateTypeOK'
<1>1. Stored(b, d) \in [BlockInfo -> Data \cup {"none"}]
  BY DEF StateTypeOK, Stored
<1>2. piece_blocks' \in [BlockInfo -> Data \cup {"none"}]
  <2>1. CASE FillsPiece(b, d)
    BY <2>1 DEF StateTypeOK, complete_block
  <2>2. CASE ~FillsPiece(b, d)
    BY <1>1, <2>2 DEF complete_block
  <2>. QED
    BY <2>1, <2>2
<1>3. Assembled(b, d) \in {"good", "bad"}
  BY DEF Assembled
<1>4. pieces' \in [Pieces -> {"missing", "good", "bad"}]
  BY <1>3, BlockPiece DEF StateTypeOK, complete_block
<1>5. requested_blocks' \subseteq BlockInfo
  BY DEF StateTypeOK, complete_block
<1>. QED
  BY <1>2, <1>4, <1>5 DEF StateTypeOK

\* The connection a task works on is well formed.
LEMMA ConnType ==
  ASSUME TypeOK, NEW w \in Workers
  PROVE  AddrOf[w] \in Addrs /\ Conn(w) \in PeerConnection
  BY WorkersAssumption DEF TypeOK, Conn

\* Changing one connection keeps the table well formed.
LEMMA UpdateConnType ==
  ASSUME TypeOK, NEW w \in Workers, NEW c \in PeerConnection, UpdateConn(w, c)
  PROVE  connected' \subseteq Addrs /\ conn' \in [Addrs -> PeerConnection]
  BY ConnType DEF TypeOK, UpdateConn

LEMMA NewConnectionType == NewConnection \in PeerConnection
  BY DEF NewConnection, PeerConnection

LEMMA NothingAskedType == NothingAsked \in [BlockInfo -> 0 .. MaxCopies]
  BY WorkersAssumption DEF NothingAsked

LEMMA AskType ==
  ASSUME TypeOK, NEW w \in Workers, NEW B, Ask(w, B)
  PROVE  asked' \in [Workers -> [BlockInfo -> 0 .. MaxCopies]]
<1>. DEFINE f == [b \in BlockInfo |->
                    IF b \in B /\ asked[w][b] < MaxCopies
                    THEN asked[w][b] + 1 ELSE asked[w][b]]
<1>1. asked[w] \in [BlockInfo -> 0 .. MaxCopies]
  BY DEF TypeOK
<1>2. f \in [BlockInfo -> 0 .. MaxCopies]
  BY <1>1, WorkersAssumption
<1>3. asked' = [asked EXCEPT ![w] = f]
  BY DEF Ask
<1>. HIDE DEF f
<1>. QED
  BY <1>2, <1>3 DEF TypeOK

LEMMA AnsweredType ==
  ASSUME TypeOK, NEW w \in Workers, NEW b \in BlockInfo, asked[w][b] > 0, Answered(w, b)
  PROVE  asked' \in [Workers -> [BlockInfo -> 0 .. MaxCopies]]
<1>1. asked[w] \in [BlockInfo -> 0 .. MaxCopies]
  BY DEF TypeOK
<1>2. [asked[w] EXCEPT ![b] = asked[w][b] - 1] \in [BlockInfo -> 0 .. MaxCopies]
  BY <1>1, WorkersAssumption
<1>3. asked' = [asked EXCEPT ![w] = [asked[w] EXCEPT ![b] = asked[w][b] - 1]]
  BY DEF Answered
<1>. QED
  BY <1>2, <1>3 DEF TypeOK

-----------------------------------------------------------------------------
(* Type correctness *)

LEMMA InitTypeOK == Init => TypeOK
  BY NewConnectionType, NothingAskedType
  DEF Init, StateInit, TypeOK, StateTypeOK, Detached

\* A step of a task that changes only its place, and possibly a connection.
LEMMA PlainStepType ==
  ASSUME TypeOK, NEW w \in Workers, NEW l \in Detached \cup Attached, Goto(w, l),
         UNCHANGED <<stateVars, workerVars>>,
         connected' \subseteq Addrs, conn' \in [Addrs -> PeerConnection]
  PROVE  TypeOK'
  BY DEF TypeOK, StateTypeOK, Goto, stateVars, workerVars

LEMMA SpawnType ==
  ASSUME TypeOK, NEW w \in Workers,
         Spawn(w) \/ ConnectFails(w) \/ GreetFails(w) \/ RecvNothing(w) \/ RecvClosed(w)
           \/ NoTimeout(w) \/ CheckCanDownload(w) \/ CheckComplete(w) \/ WriteFails(w)
  PROVE  TypeOK'
<1>1. PICK l \in Detached \cup Attached : Goto(w, l)
  BY DEF Spawn, ConnectFails, GreetFails, RecvNothing, RecvClosed, NoTimeout,
         CheckCanDownload, CheckComplete, WriteFails, Detached, Attached
<1>2. UNCHANGED <<stateVars, connected, conn, workerVars>>
  BY DEF Spawn, ConnectFails, GreetFails, RecvNothing, RecvClosed, NoTimeout,
         CheckCanDownload, CheckComplete, WriteFails
<1>3. connected' \subseteq Addrs /\ conn' \in [Addrs -> PeerConnection]
  BY <1>2 DEF TypeOK
<1>. QED
  BY <1>1, <1>2, <1>3, PlainStepType

LEMMA ConnectType ==
  ASSUME TypeOK, NEW w \in Workers, Connect(w)
  PROVE  TypeOK'
<1>1. connected' \subseteq Addrs /\ conn' \in [Addrs -> PeerConnection]
  BY ConnType, NewConnectionType DEF TypeOK, Connect
<1>. QED
  BY <1>1, PlainStepType DEF Connect, Attached

\* A step that stores a new value of the task's own connection.
LEMMA ControlType ==
  ASSUME TypeOK, NEW w \in Workers, NEW c \in PeerConnection, UpdateConn(w, c),
         NEW l \in Detached \cup Attached, Goto(w, l), UNCHANGED <<stateVars, workerVars>>
  PROVE  TypeOK'
  BY UpdateConnType, PlainStepType

LEMMA GreetType ==
  ASSUME TypeOK, NEW w \in Workers, Greet(w)
  PROVE  TypeOK'
<1>1. [Conn(w) EXCEPT !.am_interested = TRUE] \in PeerConnection
  BY ConnType DEF PeerConnection
<1>. QED
  BY <1>1, ControlType DEF Greet, Attached

LEMMA RecvControlType ==
  ASSUME TypeOK, NEW w \in Workers, NEW c \in PeerConnection, RecvControl(w, c)
  PROVE  TypeOK'
  BY ControlType DEF RecvControl, Attached

LEMMA RecvMessageType ==
  ASSUME TypeOK, NEW w \in Workers,
         \/ RecvChoke(w) \/ RecvUnchoke(w)
         \/ \E S \in Bitfields : RecvBitfield(w, S)
         \/ \E p \in Pieces : RecvHave(w, p)
  PROVE  TypeOK'
<1>1. Conn(w) \in PeerConnection
  BY ConnType
<1>2. CASE RecvChoke(w)
  <2>1. [Conn(w) EXCEPT !.peer_choking = TRUE] \in PeerConnection
    BY <1>1 DEF PeerConnection
  <2>. QED
    BY <1>2, <2>1, RecvControlType DEF RecvChoke
<1>3. CASE RecvUnchoke(w)
  <2>1. [Conn(w) EXCEPT !.peer_choking = FALSE] \in PeerConnection
    BY <1>1 DEF PeerConnection
  <2>. QED
    BY <1>3, <2>1, RecvControlType DEF RecvUnchoke
<1>4. ASSUME NEW S \in Bitfields, RecvBitfield(w, S)
      PROVE  TypeOK'
  <2>1. [Conn(w) EXCEPT !.has_bitfield = TRUE, !.bitfield = S] \in PeerConnection
    BY <1>1, WorkersAssumption DEF PeerConnection
  <2>. QED
    BY <1>4, <2>1, RecvControlType DEF RecvBitfield
<1>5. ASSUME NEW p \in Pieces, RecvHave(w, p)
      PROVE  TypeOK'
  <2>. DEFINE c == IF Conn(w).has_bitfield
                   THEN [Conn(w) EXCEPT !.bitfield = @ \cup {p}] ELSE Conn(w)
  <2>1. c \in PeerConnection
    BY <1>1 DEF PeerConnection
  <2>2. RecvControl(w, c)
    BY <1>5 DEF RecvHave
  <2>. QED
    BY <2>1, <2>2, RecvControlType
<1>. QED
  BY <1>2, <1>3, <1>4, <1>5

LEMMA RecvPieceType ==
  ASSUME TypeOK, NEW w \in Workers, NEW b \in BlockInfo, NEW d \in Data, RecvPiece(w, b, d)
  PROVE  TypeOK'
<1>. DEFINE c == IF d = "misfit" THEN Conn(w)
                 ELSE [Conn(w) EXCEPT !.pending_requests = @ \ {b}]
<1>1. c \in PeerConnection
  BY ConnType DEF PeerConnection
<1>2. UpdateConn(w, c)
  BY DEF RecvPiece
<1>. HIDE DEF c
<1>3. connected' \subseteq Addrs /\ conn' \in [Addrs -> PeerConnection]
  BY <1>1, <1>2, UpdateConnType
<1>4. asked' \in [Workers -> [BlockInfo -> 0 .. MaxCopies]]
  BY AnsweredType DEF RecvPiece, TypeOK
<1>. QED
  BY <1>3, <1>4
  DEF RecvPiece, TypeOK, StateTypeOK, stateVars, Goto, Hold, Attached

LEMMA StoreBlockType ==
  ASSUME TypeOK, NEW w \in Workers, data[w] \in Data, StoreBlock(w)
  PROVE  TypeOK'
<1>1. PICK b \in BlockInfo :
         /\ complete_block(b, data[w])
         /\ Goto(w, IF HashFails(b, data[w]) THEN "cleanup" ELSE "timeouts")
  BY DEF StoreBlock, TypeOK
<1>2. StateTypeOK'
  BY <1>1, CompleteBlockType DEF TypeOK
<1>3. pc' \in [Workers -> Detached \cup Attached]
  BY <1>1 DEF TypeOK, Goto, Attached
<1>. QED
  BY <1>2, <1>3 DEF StoreBlock, TypeOK, Hold

LEMMA ClearTimedOutType ==
  ASSUME TypeOK, NEW w \in Workers, NEW T, ClearTimedOut(w, T)
  PROVE  TypeOK'
<1>. DEFINE c == [Conn(w) EXCEPT !.pending_requests = @ \ T]
<1>1. c \in PeerConnection /\ T \in SUBSET BlockInfo
  BY ConnType DEF PeerConnection, ClearTimedOut
<1>2. UpdateConn(w, c)
  BY DEF ClearTimedOut
<1>. HIDE DEF c
<1>3. connected' \subseteq Addrs /\ conn' \in [Addrs -> PeerConnection]
  BY <1>1, <1>2, UpdateConnType
<1>. QED
  BY <1>1, <1>3
  DEF ClearTimedOut, TypeOK, StateTypeOK, stateVars, Goto, Hold, Attached

LEMMA ReleaseTimedOutType ==
  ASSUME TypeOK, NEW w \in Workers, ReleaseTimedOut(w)
  PROVE  TypeOK'
  BY DEF ReleaseTimedOut, unmark_requested_blocks, TypeOK, StateTypeOK, Goto, Hold, Attached

LEMMA PickBatchType ==
  ASSUME TypeOK, NEW w \in Workers, PickBatch(w)
  PROVE  TypeOK'
<1>1. PICK B \in SUBSET BlockInfo :
         /\ mark_requested_blocks(B)
         /\ Hold(w, B)
         /\ Goto(w, IF B = {} THEN "check" ELSE "add")
  BY DEF PickBatch, Wanted
<1>. QED
  BY <1>1
  DEF PickBatch, mark_requested_blocks, TypeOK, StateTypeOK, Goto, Hold, Attached

LEMMA AddPendingType ==
  ASSUME TypeOK, NEW w \in Workers, AddPending(w)
  PROVE  TypeOK'
<1>1. [Conn(w) EXCEPT !.pending_requests = @ \cup blocks[w]] \in PeerConnection
  BY ConnType DEF PeerConnection, TypeOK
<1>. QED
  BY <1>1, ControlType DEF AddPending, Attached

LEMMA SendType ==
  ASSUME TypeOK, NEW w \in Workers, SendAll(w) \/ \E S \in SUBSET blocks[w] : SendFails(w, S)
  PROVE  TypeOK'
<1>1. asked' \in [Workers -> [BlockInfo -> 0 .. MaxCopies]]
  BY AskType DEF SendAll, SendFails
<1>2. PICK B \in SUBSET BlockInfo, l \in Attached : Hold(w, B) /\ Goto(w, l)
  <2>1. blocks[w] \subseteq BlockInfo
    BY DEF TypeOK
  <2>2. {} \in SUBSET BlockInfo /\ \A S : blocks[w] \ S \in SUBSET BlockInfo
    BY <2>1
  <2>. QED
    BY <2>2 DEF SendAll, SendFails, Attached
<1>3. UNCHANGED <<stateVars, connected, conn, data>>
  BY DEF SendAll, SendFails
<1>. QED
  BY <1>1, <1>2, <1>3 DEF TypeOK, StateTypeOK, stateVars, Goto, Hold

LEMMA WithdrawUnsentType ==
  ASSUME TypeOK, NEW w \in Workers, WithdrawUnsent(w)
  PROVE  TypeOK'
<1>. DEFINE c == [Conn(w) EXCEPT !.pending_requests = @ \ blocks[w]]
<1>1. c \in PeerConnection
  BY ConnType DEF PeerConnection
<1>2. UpdateConn(w, c)
  BY DEF WithdrawUnsent
<1>. HIDE DEF c
<1>3. connected' \subseteq Addrs /\ conn' \in [Addrs -> PeerConnection]
  BY <1>1, <1>2, UpdateConnType
<1>. QED
  BY <1>3
  DEF WithdrawUnsent, unmark_requested_blocks, TypeOK, StateTypeOK, Goto, Hold, Attached

LEMMA CleanUpType ==
  ASSUME TypeOK, NEW w \in Workers, CleanUp(w)
  PROVE  TypeOK'
<1>1. connected' \subseteq Addrs /\ conn' \in [Addrs -> PeerConnection]
  BY ConnType, NewConnectionType DEF TypeOK, CleanUp
<1>2. asked' \in [Workers -> [BlockInfo -> 0 .. MaxCopies]]
  BY NothingAskedType DEF TypeOK, CleanUp
<1>. QED
  BY <1>1, <1>2
  DEF CleanUp, unmark_requested_blocks, TypeOK, StateTypeOK, Goto, Detached

\* A task carries the data of a piece message exactly while it is about to store it.
CarriesData(w) == pc[w] = "store" <=> data[w] # "none"

\* A step of one task keeps the variables well formed.
LEMMA StepTypeOK ==
  ASSUME TypeOK, NEW w \in Workers, CarriesData(w), Smooth(w) \/ Adverse(w)
  PROVE  TypeOK'
<1>1. CASE Smooth(w)
  <2>1. CASE Spawn(w) \/ RecvNothing(w) \/ NoTimeout(w) \/ CheckCanDownload(w)
               \/ CheckComplete(w)
    BY <2>1, SpawnType
  <2>2. CASE Connect(w)
    BY <2>2, ConnectType
  <2>3. CASE Greet(w)
    BY <2>3, GreetType
  <2>4. CASE RecvUnchoke(w) \/ (\E S \in Bitfields : RecvBitfield(w, S))
               \/ (\E p \in Pieces : RecvHave(w, p))
    BY <2>4, RecvMessageType
  <2>5. CASE \E b \in BlockInfo : RecvPiece(w, b, "good")
    BY <2>5, RecvPieceType DEF Data
  <2>6. CASE StoreBlock(w)
    <3>1. data[w] \in Data
      BY <2>6 DEF TypeOK, CarriesData, StoreBlock
    <3>. QED
      BY <2>6, <3>1, StoreBlockType
  <2>7. CASE ReleaseTimedOut(w)
    BY <2>7, ReleaseTimedOutType
  <2>8. CASE PickBatch(w)
    BY <2>8, PickBatchType
  <2>9. CASE AddPending(w)
    BY <2>9, AddPendingType
  <2>10. CASE SendAll(w)
    BY <2>10, SendType
  <2>11. CASE WithdrawUnsent(w)
    BY <2>11, WithdrawUnsentType
  <2>12. CASE CleanUp(w)
    BY <2>12, CleanUpType
  <2>. QED
    BY <1>1, <2>1, <2>2, <2>3, <2>4, <2>5, <2>6, <2>7, <2>8, <2>9, <2>10, <2>11, <2>12
    DEF Smooth, TaskStep
<1>2. CASE Adverse(w)
  <2>1. CASE ConnectFails(w) \/ GreetFails(w) \/ RecvClosed(w) \/ WriteFails(w)
    BY <2>1, SpawnType
  <2>2. CASE RecvChoke(w)
    BY <2>2, RecvMessageType
  <2>3. CASE \E b \in BlockInfo, d \in Data \ {"good"} : RecvPiece(w, b, d)
    BY <2>3, RecvPieceType
  <2>4. CASE \E T \in SUBSET Conn(w).pending_requests : ClearTimedOut(w, T)
    BY <2>4, ClearTimedOutType
  <2>5. CASE \E S \in SUBSET blocks[w] : SendFails(w, S)
    BY <2>5, SendType
  <2>. QED
    BY <1>2, <2>1, <2>2, <2>3, <2>4, <2>5 DEF Adverse, Recoverable
<1>. QED
  BY <1>1, <1>2

\* No step breaks CarriesData, of the task that takes it or of another.
LEMMA StepCarriesData ==
  ASSUME TypeOK, NEW w \in Workers, Smooth(w) \/ Adverse(w),
         NEW v \in Workers, CarriesData(w), CarriesData(v)
  PROVE  CarriesData(v)'
<1>. USE DEF CarriesData, TypeOK, Goto
<1>1. CASE Spawn(w) \/ ConnectFails(w) \/ GreetFails(w) \/ RecvNothing(w) \/ RecvClosed(w)
             \/ NoTimeout(w) \/ CheckCanDownload(w) \/ CheckComplete(w) \/ WriteFails(w)
             \/ Connect(w) \/ Greet(w)
  BY <1>1
  DEF Spawn, ConnectFails, GreetFails, RecvNothing, RecvClosed, NoTimeout,
      CheckCanDownload, CheckComplete, WriteFails, Connect, Greet, workerVars
<1>2. ASSUME NEW c, RecvControl(w, c)
      PROVE  CarriesData(v)'
  BY <1>2 DEF RecvControl, workerVars
<1>3. CASE RecvChoke(w) \/ RecvUnchoke(w) \/ (\E S \in Bitfields : RecvBitfield(w, S))
             \/ (\E p \in Pieces : RecvHave(w, p))
  BY <1>2, <1>3 DEF RecvChoke, RecvUnchoke, RecvBitfield, RecvHave
<1>4. CASE \E b \in BlockInfo, d \in Data : RecvPiece(w, b, d)
  BY <1>4 DEF RecvPiece, Data
<1>5. CASE StoreBlock(w) \/ ReleaseTimedOut(w) \/ PickBatch(w) \/ AddPending(w)
  BY <1>5 DEF StoreBlock, ReleaseTimedOut, PickBatch, AddPending, workerVars
<1>6. CASE \E T \in SUBSET Conn(w).pending_requests : ClearTimedOut(w, T)
  BY <1>6 DEF ClearTimedOut
<1>7. CASE SendAll(w) \/ \E S \in SUBSET blocks[w] : SendFails(w, S)
  BY <1>7 DEF SendAll, SendFails
<1>8. CASE WithdrawUnsent(w) \/ CleanUp(w)
  BY <1>8 DEF WithdrawUnsent, CleanUp
<1>. QED
  BY <1>1, <1>3, <1>4, <1>5, <1>6, <1>7, <1>8
  DEF Smooth, TaskStep, Adverse, Recoverable, Data

-----------------------------------------------------------------------------
(* One task's step leaves the others alone *)

\* Nothing another task relies on has changed.
Untouched(w) ==
  \A v \in Workers \ {w} :
    /\ pc'[v] = pc[v]
    /\ blocks'[v] = blocks[v]
    /\ data'[v] = data[v]
    /\ asked'[v] = asked[v]
    /\ conn'[AddrOf[v]] = conn[AddrOf[v]]
    /\ AddrOf[v] \in connected' <=> AddrOf[v] \in connected

LEMMA UpdateConnUntouched ==
  ASSUME OneTaskPerAddress, TypeOK, NEW w \in Workers, NEW c, UpdateConn(w, c),
         NEW v \in Workers \ {w}
  PROVE  /\ conn'[AddrOf[v]] = conn[AddrOf[v]]
         /\ AddrOf[v] \in connected' <=> AddrOf[v] \in connected
  BY WorkersAssumption DEF OneTaskPerAddress, TypeOK, UpdateConn

LEMMA StepUntouched ==
  ASSUME OneTaskPerAddress, TypeOK, NEW w \in Workers, Smooth(w) \/ Adverse(w)
  PROVE  Untouched(w)
<1>. SUFFICES ASSUME NEW v \in Workers \ {w}
              PROVE  /\ pc'[v] = pc[v]
                     /\ blocks'[v] = blocks[v]
                     /\ data'[v] = data[v]
                     /\ asked'[v] = asked[v]
                     /\ conn'[AddrOf[v]] = conn[AddrOf[v]]
                     /\ AddrOf[v] \in connected' <=> AddrOf[v] \in connected
  BY DEF Untouched
<1>0. AddrOf[v] # AddrOf[w]
  BY DEF OneTaskPerAddress
<1>. USE <1>0 DEF Goto, Hold
<1>1. CASE Spawn(w) \/ ConnectFails(w) \/ GreetFails(w) \/ RecvNothing(w) \/ RecvClosed(w)
             \/ NoTimeout(w) \/ CheckCanDownload(w) \/ CheckComplete(w) \/ WriteFails(w)
  BY <1>1
  DEF Spawn, ConnectFails, GreetFails, RecvNothing, RecvClosed, NoTimeout,
      CheckCanDownload, CheckComplete, WriteFails, workerVars, TypeOK
<1>2. CASE Connect(w)
  BY <1>2, WorkersAssumption DEF Connect, workerVars, TypeOK
<1>3. CASE CleanUp(w)
  BY <1>3, WorkersAssumption DEF CleanUp, TypeOK
<1>4. CASE Greet(w)
  BY <1>4, UpdateConnUntouched DEF Greet, workerVars, TypeOK
<1>5. ASSUME NEW c, RecvControl(w, c)
      PROVE  /\ pc'[v] = pc[v]
             /\ UNCHANGED workerVars
             /\ conn'[AddrOf[v]] = conn[AddrOf[v]]
             /\ AddrOf[v] \in connected' <=> AddrOf[v] \in connected
  BY <1>5, UpdateConnUntouched DEF RecvControl, TypeOK
<1>6. CASE RecvChoke(w) \/ RecvUnchoke(w) \/ (\E S \in Bitfields : RecvBitfield(w, S))
             \/ (\E p \in Pieces : RecvHave(w, p))
  BY <1>5, <1>6 DEF RecvChoke, RecvUnchoke, RecvBitfield, RecvHave, workerVars
<1>7. ASSUME NEW b \in BlockInfo, NEW d \in Data, RecvPiece(w, b, d)
      PROVE  /\ pc'[v] = pc[v]
             /\ blocks'[v] = blocks[v]
             /\ data'[v] = data[v]
             /\ asked'[v] = asked[v]
             /\ conn'[AddrOf[v]] = conn[AddrOf[v]]
             /\ AddrOf[v] \in connected' <=> AddrOf[v] \in connected
  BY <1>7, UpdateConnUntouched DEF RecvPiece, Answered, TypeOK
<1>8. CASE StoreBlock(w) \/ ReleaseTimedOut(w) \/ PickBatch(w)
  BY <1>8 DEF StoreBlock, ReleaseTimedOut, PickBatch, TypeOK
<1>9. CASE \E T \in SUBSET Conn(w).pending_requests : ClearTimedOut(w, T)
  BY <1>9, UpdateConnUntouched DEF ClearTimedOut, TypeOK
<1>10. CASE AddPending(w)
  BY <1>10, UpdateConnUntouched DEF AddPending, workerVars, TypeOK
<1>11. CASE SendAll(w) \/ \E S \in SUBSET blocks[w] : SendFails(w, S)
  BY <1>11 DEF SendAll, SendFails, Ask, TypeOK
<1>12. CASE WithdrawUnsent(w)
  BY <1>12, UpdateConnUntouched DEF WithdrawUnsent, TypeOK
<1>. QED
  BY <1>1, <1>2, <1>3, <1>4, <1>6, <1>7, <1>8, <1>9, <1>10, <1>11, <1>12
  DEF Smooth, TaskStep, Adverse, Recoverable, Data

-----------------------------------------------------------------------------
(* What a step does to the task that takes it *)

\* PendingWasSent, of one task.
Sent(w) == pc[w] \in Attached => \A b \in InFlight(w) : asked[w][b] > 0

\* What counts against the pipeline of w.
Load(w) == Conn(w).pending_requests \cup (IF pc[w] = "add" THEN blocks[w] ELSE {})

\* Every new mark is owned by w, and w gives up no block that stays marked.
Accounts(w) ==
  /\ requested_blocks' \ requested_blocks \subseteq Owned(w)'
  /\ Owned(w) \cap requested_blocks' \subseteq Owned(w)'

\* A task that has just got a connection has an empty pipeline, and a batch is the
\* only thing that adds to it.
Grows(w) ==
  pc'[w] \in Attached =>
    \/ pc[w] \in Attached /\ Load(w)' \subseteq Load(w)
    \/ Load(w)' = {}

\* What every step of w keeps of its own bookkeeping.
Kept(w) == TaskOK(w)' /\ Sent(w)' /\ Accounts(w) /\ Grows(w)

\* A step that moves a task that holds nothing, and changes nothing else.
LEMMA MoveStep ==
  ASSUME TypeOK, NEW w \in Workers, TaskOK(w), Sent(w),
         NEW l, Goto(w, l), l \notin Holding, pc[w] \notin Holding,
         l \in Attached => pc[w] \in Attached,
         l = "greeting" => pc[w] = "greeting",
         pc[w] \in Attached /\ l \notin Attached => pc[w] = "greeting",
         UNCHANGED <<stateVars, connected, conn, workerVars>>
  PROVE  Kept(w)
<1>1. pc'[w] = l
  BY DEF Goto, TypeOK
<1>2. TaskOK(w)'
  BY <1>1 DEF TaskOK, Conn, Holding, workerVars
<1>3. Sent(w)'
  BY <1>1 DEF Sent, InFlight, Conn, Holding, workerVars
<1>4. Accounts(w)
  BY <1>1 DEF TaskOK, Accounts, Owned, Conn, Holding, workerVars, stateVars
<1>5. Grows(w)
  BY <1>1 DEF Grows, Load, Conn, Holding, workerVars
<1>. QED
  BY <1>2, <1>3, <1>4, <1>5 DEF Kept

\* A step that stores new flags or a new bitfield and moves on.
LEMMA ControlStep ==
  ASSUME TypeOK, NEW w \in Workers, TaskOK(w), Sent(w),
         NEW c, UpdateConn(w, c), c.pending_requests = Conn(w).pending_requests,
         NEW l \in Attached, Goto(w, l), l \notin Holding, l # "greeting",
         pc[w] \in Attached \ Holding,
         UNCHANGED <<stateVars, workerVars>>
  PROVE  Kept(w)
<1>1. pc'[w] = l /\ Conn(w)'.pending_requests = Conn(w).pending_requests
  BY ConnType DEF Goto, TypeOK, UpdateConn, Conn
<1>2. TaskOK(w)'
  BY <1>1 DEF TaskOK, UpdateConn, Holding, workerVars
<1>3. Sent(w)'
  BY <1>1 DEF Sent, InFlight, Holding, workerVars
<1>4. Accounts(w)
  BY <1>1 DEF TaskOK, Accounts, Owned, Holding, workerVars, stateVars
<1>5. Grows(w)
  BY <1>1 DEF Grows, Load, Holding, workerVars
<1>. QED
  BY <1>2, <1>3, <1>4, <1>5 DEF Kept

\* Spawning, failing to connect or to greet, the tick, the ways out of an iteration.
LEMMA MoveKept ==
  ASSUME TypeOK, NEW w \in Workers, TaskOK(w), Sent(w),
         Spawn(w) \/ ConnectFails(w) \/ GreetFails(w) \/ RecvNothing(w) \/ RecvClosed(w)
           \/ NoTimeout(w) \/ CheckCanDownload(w) \/ CheckComplete(w) \/ WriteFails(w)
  PROVE  Kept(w)
<1>1. PICK l : /\ Goto(w, l)
               /\ l \notin Holding /\ pc[w] \notin Holding
               /\ l \in Attached => pc[w] \in Attached
               /\ l = "greeting" => pc[w] = "greeting"
               /\ pc[w] \in Attached /\ l \notin Attached => pc[w] = "greeting"
  BY DEF Spawn, ConnectFails, GreetFails, RecvNothing, RecvClosed, NoTimeout,
         CheckCanDownload, CheckComplete, WriteFails, Attached, Holding
<1>2. UNCHANGED <<stateVars, connected, conn, workerVars>>
  BY DEF Spawn, ConnectFails, GreetFails, RecvNothing, RecvClosed, NoTimeout,
         CheckCanDownload, CheckComplete, WriteFails
<1>. QED
  BY <1>1, <1>2, MoveStep

LEMMA ConnectKept ==
  ASSUME TypeOK, NEW w \in Workers, TaskOK(w), Connect(w)
  PROVE  Kept(w)
<1>1. /\ pc[w] = "connecting" /\ pc'[w] = "greeting"
      /\ Conn(w)'.pending_requests = {}
      /\ AddrOf[w] \in connected'
      /\ blocks[w] = {} /\ blocks' = blocks /\ data' = data
      /\ requested_blocks' = requested_blocks
  BY ConnType DEF Connect, Goto, TypeOK, TaskOK, Conn, NewConnection, Holding, workerVars,
                  stateVars
<1>2. TaskOK(w)'
  BY <1>1 DEF TaskOK
<1>3. Sent(w)'
  BY <1>1 DEF Sent, InFlight
<1>4. Accounts(w)
  BY <1>1 DEF Accounts, Owned, Attached
<1>5. Grows(w)
  BY <1>1 DEF Grows, Load
<1>. QED
  BY <1>2, <1>3, <1>4, <1>5 DEF Kept

LEMMA ControlKept ==
  ASSUME TypeOK, NEW w \in Workers, TaskOK(w), Sent(w),
         \/ Greet(w) \/ RecvChoke(w) \/ RecvUnchoke(w)
         \/ \E S \in Bitfields : RecvBitfield(w, S)
         \/ \E p \in Pieces : RecvHave(w, p)
  PROVE  Kept(w)
<1>1. Conn(w) \in PeerConnection
  BY ConnType
<1>2. ASSUME NEW c, c.pending_requests = Conn(w).pending_requests, RecvControl(w, c)
      PROVE  Kept(w)
  BY <1>2, ControlStep DEF RecvControl, Attached, Holding
<1>3. CASE Greet(w)
  <2>1. [Conn(w) EXCEPT !.am_interested = TRUE].pending_requests = Conn(w).pending_requests
    BY <1>1 DEF PeerConnection
  <2>. QED
    BY <1>3, <2>1, ControlStep DEF Greet, Attached, Holding
<1>4. CASE RecvChoke(w)
  <2>1. [Conn(w) EXCEPT !.peer_choking = TRUE].pending_requests = Conn(w).pending_requests
    BY <1>1 DEF PeerConnection
  <2>. QED
    BY <1>2, <1>4, <2>1 DEF RecvChoke
<1>5. CASE RecvUnchoke(w)
  <2>1. [Conn(w) EXCEPT !.peer_choking = FALSE].pending_requests = Conn(w).pending_requests
    BY <1>1 DEF PeerConnection
  <2>. QED
    BY <1>2, <1>5, <2>1 DEF RecvUnchoke
<1>6. ASSUME NEW S \in Bitfields, RecvBitfield(w, S)
      PROVE  Kept(w)
  <2>1. [Conn(w) EXCEPT !.has_bitfield = TRUE, !.bitfield = S].pending_requests
          = Conn(w).pending_requests
    BY <1>1 DEF PeerConnection
  <2>. QED
    BY <1>2, <1>6, <2>1 DEF RecvBitfield
<1>7. ASSUME NEW p \in Pieces, RecvHave(w, p)
      PROVE  Kept(w)
  <2>. DEFINE c == IF Conn(w).has_bitfield
                   THEN [Conn(w) EXCEPT !.bitfield = @ \cup {p}] ELSE Conn(w)
  <2>1. c.pending_requests = Conn(w).pending_requests
    BY <1>1 DEF PeerConnection
  <2>2. RecvControl(w, c)
    BY <1>7 DEF RecvHave
  <2>. HIDE DEF c
  <2>. QED
    BY <1>2, <2>1, <2>2
<1>. QED
  BY <1>3, <1>4, <1>5, <1>6, <1>7

\* What a piece message does: the request leaves the pipeline and the task holds the
\* block, unless the answer was a misfit.
LEMMA RecvPieceKept ==
  ASSUME TypeOK, NEW w \in Workers, TaskOK(w), Sent(w),
         NEW b \in BlockInfo, NEW d \in Data, RecvPiece(w, b, d)
  PROVE  Kept(w)
<1>. DEFINE c == IF d = "misfit" THEN Conn(w)
                 ELSE [Conn(w) EXCEPT !.pending_requests = @ \ {b}]
<1>1. /\ pc[w] = "recv" /\ pc'[w] = "store"
      /\ blocks[w] = {} /\ blocks'[w] = {b}
      /\ data[w] = "none" /\ data'[w] = d /\ d # "none"
      /\ requested_blocks' = requested_blocks
      /\ AddrOf[w] \in connected /\ AddrOf[w] \in connected'
  BY DEF RecvPiece, Goto, Hold, TypeOK, TaskOK, Holding, Attached, UpdateConn, stateVars, Data
<1>2. Conn(w)' = c
  BY <1>1, ConnType DEF RecvPiece, UpdateConn, TypeOK, Conn
<1>3. c.pending_requests =
         IF d = "misfit" THEN Conn(w).pending_requests ELSE Conn(w).pending_requests \ {b}
  BY ConnType DEF PeerConnection
<1>. HIDE DEF c
<1>4. TaskOK(w)'
  BY <1>1 DEF TaskOK, Holding
<1>5. Sent(w)'
  <2>1. CASE d = "misfit"
    BY <1>1, <1>2, <1>3, <2>1 DEF RecvPiece, Sent, InFlight, Attached
  <2>2. CASE d # "misfit"
    <3>1. \A x \in BlockInfo \ {b} : asked'[w][x] = asked[w][x]
      BY <2>2 DEF RecvPiece, Answered, TypeOK
    <3>2. Conn(w).pending_requests \subseteq BlockInfo
      BY ConnType DEF PeerConnection
    <3>. QED
      BY <1>1, <1>2, <1>3, <2>2, <3>1, <3>2 DEF Sent, InFlight, Attached
  <2>. QED
    BY <2>1, <2>2
<1>6. Accounts(w)
  BY <1>1, <1>2, <1>3 DEF Accounts, Owned, Attached
<1>7. Grows(w)
  BY <1>1, <1>2, <1>3 DEF Grows, Load, Attached
<1>. QED
  BY <1>4, <1>5, <1>6, <1>7 DEF Kept

\* Storing a block takes its mark away, except for a misfit's.
LEMMA StoreBlockKept ==
  ASSUME TypeOK, NEW w \in Workers, TaskOK(w), Sent(w), StoreBlock(w)
  PROVE  Kept(w)
<1>1. PICK b \in BlockInfo :
         /\ blocks[w] = {b}
         /\ complete_block(b, data[w])
         /\ Goto(w, IF HashFails(b, data[w]) THEN "cleanup" ELSE "timeouts")
  BY DEF StoreBlock, TaskOK
<1>2. requested_blocks' =
         IF data[w] = "misfit" THEN requested_blocks ELSE requested_blocks \ {b}
  BY <1>1 DEF complete_block
<1>3. /\ pc[w] = "store" /\ pc'[w] \in {"cleanup", "timeouts"}
      /\ blocks'[w] = {} /\ data'[w] = "none"
      /\ asked' = asked /\ Conn(w)' = Conn(w) /\ connected' = connected
  BY <1>1 DEF StoreBlock, Goto, Hold, TypeOK, Conn
<1>4. TaskOK(w)'
  BY <1>3 DEF TaskOK, Attached
<1>5. Sent(w)'
  BY <1>3 DEF Sent, InFlight, Attached
<1>6. Accounts(w)
  BY <1>1, <1>2, <1>3 DEF Accounts, Owned, Attached
<1>7. Grows(w)
  BY <1>3 DEF Grows, Load, Attached
<1>. QED
  BY <1>4, <1>5, <1>6, <1>7 DEF Kept

\* The requests that timed out leave the pipeline and are held.
LEMMA ClearTimedOutKept ==
  ASSUME TypeOK, NEW w \in Workers, TaskOK(w), Sent(w), NEW T, ClearTimedOut(w, T)
  PROVE  Kept(w)
<1>. DEFINE c == [Conn(w) EXCEPT !.pending_requests = @ \ T]
<1>1. /\ pc[w] = "timeouts" /\ pc'[w] = "expire"
      /\ blocks[w] = {} /\ blocks'[w] = T /\ T \subseteq Conn(w).pending_requests
      /\ data' = data /\ asked' = asked /\ data[w] = "none"
      /\ requested_blocks' = requested_blocks
      /\ AddrOf[w] \in connected'
  BY DEF ClearTimedOut, Goto, Hold, TypeOK, TaskOK, Holding, UpdateConn, stateVars
<1>2. Conn(w)' = c
  BY <1>1, ConnType DEF ClearTimedOut, UpdateConn, TypeOK, Conn
<1>3. c.pending_requests = Conn(w).pending_requests \ T
  BY ConnType DEF PeerConnection
<1>. HIDE DEF c
<1>4. TaskOK(w)'
  BY <1>1 DEF TaskOK, Holding
<1>5. Sent(w)'
  BY <1>1, <1>2, <1>3 DEF Sent, InFlight, Attached
<1>6. Accounts(w)
  BY <1>1, <1>2, <1>3 DEF Accounts, Owned, Attached
<1>7. Grows(w)
  BY <1>1, <1>2, <1>3 DEF Grows, Load, Attached
<1>. QED
  BY <1>4, <1>5, <1>6, <1>7 DEF Kept

\* Their marks go, and the task holds them no longer.
LEMMA ReleaseTimedOutKept ==
  ASSUME TypeOK, NEW w \in Workers, TaskOK(w), Sent(w), ReleaseTimedOut(w)
  PROVE  Kept(w)
<1>1. /\ pc[w] = "expire" /\ pc'[w] = "download"
      /\ blocks'[w] = {} /\ data'[w] = data[w] /\ asked' = asked
      /\ requested_blocks' = requested_blocks \ blocks[w]
      /\ Conn(w)' = Conn(w) /\ connected' = connected
  BY DEF ReleaseTimedOut, unmark_requested_blocks, Goto, Hold, TypeOK, Conn
<1>2. TaskOK(w)'
  BY <1>1 DEF TaskOK, Attached
<1>3. Sent(w)'
  BY <1>1 DEF Sent, InFlight, Attached
<1>4. Accounts(w)
  BY <1>1 DEF Accounts, Owned, Attached
<1>5. Grows(w)
  BY <1>1 DEF Grows, Load, Attached
<1>. QED
  BY <1>2, <1>3, <1>4, <1>5 DEF Kept

\* A batch becomes pending: what the task held it now holds as pending.
LEMMA AddPendingKept ==
  ASSUME TypeOK, NEW w \in Workers, TaskOK(w), Sent(w), AddPending(w)
  PROVE  Kept(w)
<1>. DEFINE c == [Conn(w) EXCEPT !.pending_requests = @ \cup blocks[w]]
<1>1. /\ pc[w] = "add" /\ pc'[w] = "send"
      /\ blocks' = blocks /\ data' = data /\ asked' = asked /\ data[w] = "none"
      /\ requested_blocks' = requested_blocks
      /\ AddrOf[w] \in connected /\ AddrOf[w] \in connected'
  BY DEF AddPending, Goto, TypeOK, TaskOK, UpdateConn, Attached, stateVars, workerVars
<1>2. Conn(w)' = c
  BY <1>1, ConnType DEF AddPending, UpdateConn, TypeOK, Conn
<1>3. c.pending_requests = Conn(w).pending_requests \cup blocks[w]
  BY ConnType DEF PeerConnection
<1>. HIDE DEF c
<1>4. TaskOK(w)'
  BY <1>1, <1>2, <1>3 DEF TaskOK, Holding
<1>5. Sent(w)'
  BY <1>1, <1>2, <1>3 DEF Sent, InFlight, Attached
<1>6. Accounts(w)
  BY <1>1, <1>2, <1>3 DEF Accounts, Owned, Attached
<1>7. Grows(w)
  BY <1>1, <1>2, <1>3 DEF Grows, Load, Attached
<1>. QED
  BY <1>4, <1>5, <1>6, <1>7 DEF Kept

\* Writing some requests of a batch only adds to what the peer was asked.
LEMMA AskCounts ==
  ASSUME TypeOK, NEW w \in Workers, NEW B, Ask(w, B), NEW b \in BlockInfo,
         b \in B \/ asked[w][b] > 0
  PROVE  asked'[w][b] > 0
<1>1. asked'[w][b] = IF b \in B /\ asked[w][b] < MaxCopies
                     THEN asked[w][b] + 1 ELSE asked[w][b]
  BY DEF Ask, TypeOK
<1>2. asked[w][b] \in 0 .. MaxCopies
  BY DEF TypeOK
<1>. QED
  BY <1>1, <1>2, WorkersAssumption

\* The requests of a batch are written, all of them or the first ones.
LEMMA SendKept ==
  ASSUME TypeOK, NEW w \in Workers, TaskOK(w), Sent(w),
         SendAll(w) \/ \E S \in SUBSET blocks[w] : SendFails(w, S)
  PROVE  Kept(w)
<1>1. PICK S \in SUBSET blocks[w] :
         /\ Ask(w, S) /\ blocks'[w] = blocks[w] \ S
         /\ \/ pc'[w] = "unsend"
            \/ pc'[w] = "check" /\ S = blocks[w]
  BY DEF SendAll, SendFails, Goto, Hold, TypeOK
<1>2. /\ pc[w] = "send" /\ data' = data /\ data[w] = "none"
      /\ requested_blocks' = requested_blocks
      /\ Conn(w)' = Conn(w) /\ connected' = connected
      /\ AddrOf[w] \in connected
      /\ blocks[w] \subseteq Conn(w).pending_requests
  BY DEF SendAll, SendFails, stateVars, Conn, TypeOK, TaskOK, Attached
<1>3. TaskOK(w)'
  BY <1>1, <1>2 DEF TaskOK, Holding
<1>4. Sent(w)'
  <2>. SUFFICES ASSUME NEW b \in InFlight(w)'
                PROVE  asked'[w][b] > 0
    BY DEF Sent
  <2>1. b \in BlockInfo /\ b \in Conn(w).pending_requests
    BY <1>2, ConnType DEF InFlight, PeerConnection
  <2>2. b \in S \/ b \notin blocks[w]
    BY <1>1, <1>2 DEF InFlight
  <2>3. b \in S \/ asked[w][b] > 0
    BY <1>2, <2>1, <2>2 DEF Sent, InFlight, Attached
  <2>. QED
    BY <1>1, <2>1, <2>3, AskCounts
<1>5. Accounts(w)
  BY <1>1, <1>2 DEF Accounts, Owned, Attached
<1>6. Grows(w)
  BY <1>1, <1>2 DEF Grows, Load, Attached
<1>. QED
  BY <1>3, <1>4, <1>5, <1>6 DEF Kept

\* What was not sent loses its mark and its place in the pipeline together.
LEMMA WithdrawUnsentKept ==
  ASSUME TypeOK, NEW w \in Workers, TaskOK(w), Sent(w), WithdrawUnsent(w)
  PROVE  Kept(w)
<1>. DEFINE c == [Conn(w) EXCEPT !.pending_requests = @ \ blocks[w]]
<1>1. /\ pc[w] = "unsend" /\ pc'[w] = "check"
      /\ blocks'[w] = {} /\ data' = data /\ asked' = asked /\ data[w] = "none"
      /\ AddrOf[w] \in connected /\ AddrOf[w] \in connected'
  BY DEF WithdrawUnsent, Goto, Hold, TypeOK, TaskOK, UpdateConn, Attached
<1>2. Conn(w)' = c
  BY <1>1, ConnType DEF WithdrawUnsent, UpdateConn, TypeOK, Conn
<1>3. c.pending_requests = Conn(w).pending_requests \ blocks[w]
  BY ConnType DEF PeerConnection
<1>4. requested_blocks' = requested_blocks \ blocks[w]
  BY <1>1 DEF WithdrawUnsent, unmark_requested_blocks
<1>. HIDE DEF c
<1>5. TaskOK(w)'
  BY <1>1 DEF TaskOK
<1>6. Sent(w)'
  BY <1>1, <1>2, <1>3 DEF Sent, InFlight, Attached
<1>7. Accounts(w)
  BY <1>1, <1>2, <1>3, <1>4 DEF Accounts, Owned, Attached
<1>8. Grows(w)
  BY <1>1, <1>2, <1>3 DEF Grows, Load, Attached
<1>. QED
  BY <1>5, <1>6, <1>7, <1>8 DEF Kept

\* A task that ends releases everything it still answered for.
LEMMA CleanUpKept ==
  ASSUME TypeOK, NEW w \in Workers, TaskOK(w), CleanUp(w)
  PROVE  Kept(w)
<1>1. /\ pc[w] = "cleanup" /\ pc'[w] = "idle"
      /\ blocks[w] = {} /\ blocks'[w] = {} /\ data' = data /\ data[w] = "none"
      /\ requested_blocks' = requested_blocks \ Conn(w).pending_requests
  BY DEF CleanUp, unmark_requested_blocks, Goto, TypeOK, TaskOK, Attached, Holding
<1>. QED
  BY <1>1 DEF Kept, TaskOK, Sent, Accounts, Owned, Grows, Attached

-----------------------------------------------------------------------------
(* Batches and the pipeline *)

\* A piece has finitely many blocks, so a torrent has.
LEMMA BlockInfoFinite == IsFiniteSet(BlockInfo)
<1>. DEFINE In(p) == [piece_index : {p}, block_index : 0 .. (get_blocks_in_piece(p) - 1)]
            F == [p \in Pieces |-> In(p)]
            Sets == {In(p) : p \in Pieces}
<1>1. IsFiniteSet(Pieces)
  BY GeometryAssumption, FS_Interval DEF Pieces
<1>2. F \in Surjection(Pieces, Sets)
  BY DEF Surjection
<1>3. IsFiniteSet(Sets)
  <2>. HIDE DEF F, Sets
  <2>. QED
    BY <1>1, <1>2, FS_Surjection
<1>4. ASSUME NEW p \in Pieces
      PROVE  IsFiniteSet(In(p))
  <2>. DEFINE n == get_blocks_in_piece(p) - 1
              g == [i \in 0 .. n |-> [piece_index |-> p, block_index |-> i]]
  <2>1. n \in Int
    <3>1. get_actual_piece_length(p) \in Int
      BY GeometryAssumption DEF get_actual_piece_length, Pieces
    <3>. QED
      BY <3>1, GeometryAssumption DEF get_blocks_in_piece
  <2>2. g \in Surjection(0 .. n, In(p))
    <3>1. g \in [0 .. n -> In(p)]
      OBVIOUS
    <3>2. \A b \in In(p) : b.block_index \in 0 .. n /\ b = g[b.block_index]
      OBVIOUS
    <3>. HIDE DEF g, In, n
    <3>. QED
      BY <3>1, <3>2 DEF Surjection
  <2>3. IsFiniteSet(0 .. n)
    <3>. HIDE DEF n
    <3>. QED
      BY <2>1, FS_Interval
  <2>. HIDE DEF n, g
  <2>. QED
    BY <2>2, <2>3, FS_Surjection
<1>5. \A T \in Sets : IsFiniteSet(T)
  BY <1>4
<1>6. BlockInfo = UNION Sets
  BY DEF BlockInfo
<1>. HIDE DEF Sets
<1>. QED
  BY <1>3, <1>5, <1>6, FS_UNION

\* PipelineBounded, of one task.
Bounded(w) == pc[w] \in Attached => Cardinality(Load(w)) <= MAX_PIPELINE_DEPTH

\* A pipeline that does not grow stays within its bound.
LEMMA GrowsBounded ==
  ASSUME TypeOK, NEW w \in Workers, Bounded(w), Grows(w)
  PROVE  Bounded(w)'
<1>. SUFFICES ASSUME pc'[w] \in Attached
              PROVE  Cardinality(Load(w)') <= MAX_PIPELINE_DEPTH
  BY DEF Bounded, Load, Conn
<1>1. CASE pc[w] \in Attached /\ Load(w)' \subseteq Load(w)
  <2>1. Load(w) \subseteq BlockInfo
    BY ConnType DEF Load, TypeOK, PeerConnection
  <2>2. IsFiniteSet(Load(w))
    BY <2>1, BlockInfoFinite, FS_Subset
  <2>3. Cardinality(Load(w)) \in Nat
    BY <2>2, FS_CardinalityType
  <2>4. Cardinality(Load(w)') \in Nat /\ Cardinality(Load(w)') <= Cardinality(Load(w))
    BY <1>1, <2>2, FS_Subset, FS_CardinalityType
  <2>. QED
    BY <1>1, <2>3, <2>4, WorkersAssumption DEF Bounded
<1>2. CASE Load(w)' = {}
  BY <1>2, FS_EmptySet, WorkersAssumption
<1>. QED
  BY <1>1, <1>2 DEF Grows

\* A batch is marked and held together, and fits in the free slots of the pipeline.
LEMMA PickBatchKept ==
  ASSUME TypeOK, NEW w \in Workers, TaskOK(w), Sent(w), Bounded(w), PickBatch(w)
  PROVE  TaskOK(w)' /\ Sent(w)' /\ Accounts(w) /\ Bounded(w)'
<1>1. PICK B \in SUBSET BlockInfo :
         /\ \/ IsPicked(B, Conn(w).bitfield, StartOf[AddrOf[w]], MaxBlocks(w))
            \/ B = {}
         /\ mark_requested_blocks(B)
         /\ Hold(w, B)
         /\ Goto(w, IF B = {} THEN "check" ELSE "add")
  BY DEF PickBatch, Wanted
<1>2. /\ pc[w] = "pick" /\ pc'[w] = IF B = {} THEN "check" ELSE "add"
      /\ blocks[w] = {} /\ blocks'[w] = B
      /\ data' = data /\ data[w] = "none" /\ asked' = asked
      /\ requested_blocks' = requested_blocks \cup B
      /\ Conn(w)' = Conn(w) /\ connected' = connected
  BY <1>1 DEF PickBatch, mark_requested_blocks, Goto, Hold, TypeOK, TaskOK, Holding, Conn
<1>3. TaskOK(w)'
  BY <1>2 DEF TaskOK, Holding, Attached
<1>4. Sent(w)'
  BY <1>2 DEF Sent, InFlight, Attached
<1>5. Accounts(w)
  BY <1>2 DEF Accounts, Owned, Attached
<1>6. Bounded(w)'
  <2>. DEFINE P == Conn(w).pending_requests
  <2>1. P \subseteq BlockInfo
    BY ConnType DEF PeerConnection
  <2>2. IsFiniteSet(P) /\ IsFiniteSet(B)
    BY <2>1, BlockInfoFinite, FS_Subset
  <2>3. Cardinality(P) \in Nat /\ Cardinality(B) \in Nat
    BY <2>2, FS_CardinalityType
  <2>4. Cardinality(P) <= MAX_PIPELINE_DEPTH
    BY <1>2 DEF Bounded, Load, Attached
  <2>5. CASE B = {}
    BY <1>2, <2>4, <2>5 DEF Bounded, Load
  <2>6. CASE B # {}
    <3>1. Cardinality(B) <= MaxBlocks(w)
      BY <1>1, <2>6 DEF IsPicked
    <3>2. Cardinality(B) <= MAX_PIPELINE_DEPTH - Cardinality(P)
      BY <2>3, <2>4, <3>1, WorkersAssumption DEF MaxBlocks
    <3>3. /\ IsFiniteSet(P \cap B)
          /\ Cardinality(P \cup B) = Cardinality(P) + Cardinality(B) - Cardinality(P \cap B)
      BY <2>2, FS_Union, FS_Intersection
    <3>4. Cardinality(P \cap B) \in Nat
      BY <3>3, FS_CardinalityType
    <3>5. Cardinality(P \cup B) <= MAX_PIPELINE_DEPTH
      BY <2>3, <3>2, <3>3, <3>4, WorkersAssumption
    <3>6. Load(w)' = P \cup B
      BY <1>2, <2>6 DEF Load
    <3>. HIDE DEF P
    <3>. QED
      BY <3>5, <3>6 DEF Bounded
  <2>. QED
    BY <2>5, <2>6
<1>. QED
  BY <1>3, <1>4, <1>5, <1>6

-----------------------------------------------------------------------------
(* The inductive invariant *)

\* What every step of w establishes about w.
Tracked(w) == TaskOK(w)' /\ Sent(w)' /\ Bounded(w)' /\ Accounts(w)

LEMMA KeptTracked ==
  ASSUME TypeOK, NEW w \in Workers, Bounded(w), Kept(w)
  PROVE  Tracked(w)
  BY GrowsBounded DEF Kept, Tracked

LEMMA StepTracked ==
  ASSUME TypeOK, NEW w \in Workers, TaskOK(w), Sent(w), Bounded(w), Smooth(w) \/ Adverse(w)
  PROVE  Tracked(w)
<1>1. CASE Spawn(w) \/ ConnectFails(w) \/ GreetFails(w) \/ RecvNothing(w) \/ RecvClosed(w)
             \/ NoTimeout(w) \/ CheckCanDownload(w) \/ CheckComplete(w) \/ WriteFails(w)
  BY <1>1, MoveKept, KeptTracked
<1>2. CASE Connect(w)
  BY <1>2, ConnectKept, KeptTracked
<1>3. CASE Greet(w) \/ RecvChoke(w) \/ RecvUnchoke(w)
             \/ (\E S \in Bitfields : RecvBitfield(w, S))
             \/ (\E p \in Pieces : RecvHave(w, p))
  BY <1>3, ControlKept, KeptTracked
<1>4. CASE \E b \in BlockInfo, d \in Data : RecvPiece(w, b, d)
  BY <1>4, RecvPieceKept, KeptTracked
<1>5. CASE StoreBlock(w)
  BY <1>5, StoreBlockKept, KeptTracked
<1>6. CASE \E T \in SUBSET Conn(w).pending_requests : ClearTimedOut(w, T)
  BY <1>6, ClearTimedOutKept, KeptTracked
<1>7. CASE ReleaseTimedOut(w)
  BY <1>7, ReleaseTimedOutKept, KeptTracked
<1>8. CASE PickBatch(w)
  BY <1>8, PickBatchKept DEF Tracked
<1>9. CASE AddPending(w)
  BY <1>9, AddPendingKept, KeptTracked
<1>10. CASE SendAll(w) \/ \E S \in SUBSET blocks[w] : SendFails(w, S)
  BY <1>10, SendKept, KeptTracked
<1>11. CASE WithdrawUnsent(w)
  BY <1>11, WithdrawUnsentKept, KeptTracked
<1>12. CASE CleanUp(w)
  BY <1>12, CleanUpKept, KeptTracked
<1>. QED
  BY <1>1, <1>2, <1>3, <1>4, <1>5, <1>6, <1>7, <1>8, <1>9, <1>10, <1>11, <1>12
  DEF Smooth, TaskStep, Adverse, Recoverable, Data

\* A task whose variables a step leaves alone is where it was.
LEMMA UntouchedKept ==
  ASSUME NEW w \in Workers, Untouched(w), NEW v \in Workers \ {w},
         TaskOK(v), Sent(v), Bounded(v)
  PROVE  TaskOK(v)' /\ Sent(v)' /\ Bounded(v)' /\ Owned(v)' = Owned(v)
<1>1. /\ pc'[v] = pc[v] /\ blocks'[v] = blocks[v] /\ data'[v] = data[v]
      /\ asked'[v] = asked[v] /\ Conn(v)' = Conn(v)
      /\ AddrOf[v] \in connected' <=> AddrOf[v] \in connected
  BY DEF Untouched, Conn
<1>2. TaskOK(v)'
  BY <1>1 DEF TaskOK
<1>3. Sent(v)'
  BY <1>1 DEF Sent, InFlight
<1>4. Bounded(v)'
  BY <1>1 DEF Bounded, Load
<1>5. Owned(v)' = Owned(v)
  BY <1>1 DEF Owned
<1>. QED
  BY <1>2, <1>3, <1>4, <1>5

\* NoOrphan follows from each task's accounts, but only together with what ties a
\* task to its connection (TaskOK); PendingWasSent and PipelineBounded are, task by
\* task, parts of the same bookkeeping.
IInv == TypeOK /\ NoOrphan /\ \A w \in Workers : TaskOK(w) /\ Sent(w) /\ Bounded(w)

LEMMA InitIInv == Init => IInv
<1>. SUFFICES ASSUME Init PROVE IInv
  OBVIOUS
<1>1. TypeOK
  BY InitTypeOK
<1>2. NoOrphan
  BY DEF Init, StateInit, NoOrphan
<1>3. ASSUME NEW w \in Workers
      PROVE  TaskOK(w) /\ Sent(w) /\ Bounded(w)
  BY DEF Init, TaskOK, Sent, Bounded, Attached
<1>. QED
  BY <1>1, <1>2, <1>3 DEF IInv

LEMMA NextIInv ==
  ASSUME OneTaskPerAddress, IInv, [Next]_vars
  PROVE  IInv'
<1>1. ASSUME NEW w \in Workers, Smooth(w) \/ Adverse(w)
      PROVE  IInv'
  <2>1. TypeOK'
    BY <1>1, StepTypeOK DEF IInv, TaskOK, CarriesData
  <2>2. Untouched(w)
    BY <1>1, StepUntouched DEF IInv
  <2>3. Tracked(w)
    BY <1>1, StepTracked DEF IInv
  <2>4. \A v \in Workers \ {w} :
           TaskOK(v)' /\ Sent(v)' /\ Bounded(v)' /\ Owned(v)' = Owned(v)
    BY <2>2, UntouchedKept DEF IInv
  <2>5. \A v \in Workers : TaskOK(v)' /\ Sent(v)' /\ Bounded(v)'
    BY <2>3, <2>4 DEF Tracked
  <2>6. NoOrphan'
    <3>. SUFFICES ASSUME NEW b \in requested_blocks'
                  PROVE  \E v \in Workers : b \in Owned(v)'
      BY DEF NoOrphan
    <3>1. CASE b \notin requested_blocks
      BY <2>3, <3>1 DEF Tracked, Accounts
    <3>2. CASE b \in requested_blocks
      <4>1. PICK v \in Workers : b \in Owned(v)
        BY <3>2 DEF IInv, NoOrphan
      <4>2. CASE v = w
        BY <2>3, <4>1, <4>2 DEF Tracked, Accounts
      <4>3. CASE v # w
        BY <2>4, <4>1, <4>3
      <4>. QED
        BY <4>2, <4>3
    <3>. QED
      BY <3>1, <3>2
  <2>. QED
    BY <2>1, <2>5, <2>6 DEF IInv
<1>2. CASE UNCHANGED vars
  BY <1>2
  DEF IInv, vars, TypeOK, StateTypeOK, NoOrphan, Owned, TaskOK, Sent, InFlight, Bounded,
      Load, Conn
<1>. QED
  BY <1>1, <1>2 DEF Next

\* The invariant holds of every behaviour in which no two tasks serve one address.
LEMMA Invariance ==
  ASSUME OneTaskPerAddress
  PROVE  Spec => []IInv
<1>1. Init => IInv
  BY InitIInv
<1>2. IInv /\ [Next]_vars => IInv'
  BY NextIInv
<1>. QED
  BY <1>1, <1>2, PTL DEF Spec

-----------------------------------------------------------------------------
(* Theorems about tasks that serve an address each *)

\* Between greeting and clean-up the entry a task finds under its address is its own,
\* and what it holds across an unlocked stretch still describes it (client.rs:103-250).
THEOREM TasksKeepTheirConnection ==
  ASSUME OneTaskPerAddress
  PROVE  Spec => []TaskInv
<1>1. IInv => TaskInv
  BY DEF IInv, TaskInv
<1>. QED
  BY <1>1, Invariance, PTL

\* A block marked as requested is always one some task will store, time out,
\* withdraw or release, whatever the other tasks do between its lock scopes.
THEOREM NothingOrphaned ==
  ASSUME OneTaskPerAddress
  PROVE  Spec => []NoOrphan
<1>1. IInv => NoOrphan
  BY DEF IInv
<1>. QED
  BY <1>1, Invariance, PTL

\* A pending request that is not in the hands of its task was written to the peer and
\* can still be answered (client.rs:663-698).
THEOREM PendingRequestsWereSent ==
  ASSUME OneTaskPerAddress
  PROVE  Spec => []PendingWasSent
<1>1. IInv => PendingWasSent
  BY DEF IInv, Sent, PendingWasSent
<1>. QED
  BY <1>1, Invariance, PTL

\* The pipeline of a connection, the batch on its way into it included, never exceeds
\* MAX_PIPELINE_DEPTH (client.rs:631-661).
THEOREM PipelineStaysBounded ==
  ASSUME OneTaskPerAddress
  PROVE  Spec => []PipelineBounded
<1>1. IInv => PipelineBounded
  BY DEF IInv, Bounded, Load, PipelineBounded
<1>. QED
  BY <1>1, Invariance, PTL

-----------------------------------------------------------------------------
(* Refinement of VerifiedDownload, whoever serves which address *)

\* Only verified content is kept.
Verified == \A p \in Pieces : pieces[p] \in {"missing", "good"}

\* What holds even when two tasks serve one address.
SharedInv == TypeOK /\ Verified /\ \A w \in Workers : CarriesData(w)

\* Storing a block keeps one missing piece, or nothing.
LEMMA CompleteBlockKeeps ==
  ASSUME StateTypeOK, Verified, NEW b \in BlockInfo, NEW d, complete_block(b, d)
  PROVE  [Promise!Next]_pieces
<1>. DEFINE p == b.piece_index
<1>1. p \in Pieces
  BY BlockPiece
<1>2. pieces' = pieces \/ pieces' = [pieces EXCEPT ![p] = "good"]
  BY DEF complete_block, Sha1Matches
<1>3. CASE pieces[p] = "missing"
  BY <1>1, <1>2, <1>3 DEF Promise!Next, Promise!Keep
<1>4. CASE pieces[p] = "good"
  BY <1>1, <1>2, <1>4 DEF StateTypeOK
<1>. QED
  BY <1>1, <1>3, <1>4 DEF Verified

\* Nothing but complete_block touches the pieces.
LEMMA StepKeeps ==
  ASSUME TypeOK, Verified, NEW w \in Workers, Smooth(w) \/ Adverse(w)
  PROVE  [Promise!Next]_pieces
<1>1. CASE StoreBlock(w)
  <2>1. PICK b \in BlockInfo : complete_block(b, data[w])
    BY <1>1 DEF StoreBlock, TypeOK
  <2>. QED
    BY <2>1, CompleteBlockKeeps DEF TypeOK
<1>2. CASE ~StoreBlock(w)
  <2>1. pieces' = pieces
    BY <1>2
    DEF Smooth, TaskStep, Adverse, Recoverable, stateVars, RecvControl,
        Spawn, ConnectFails, GreetFails, RecvNothing, RecvClosed, NoTimeout,
        CheckCanDownload, CheckComplete, WriteFails, Connect, Greet, RecvChoke,
        RecvUnchoke, RecvBitfield, RecvHave, RecvPiece, ClearTimedOut, ReleaseTimedOut,
        PickBatch, AddPending, SendAll, SendFails, WithdrawUnsent, CleanUp
  <2>. QED
    BY <2>1
<1>. QED
  BY <1>1, <1>2

LEMMA PromiseKeepsVerified ==
  ASSUME StateTypeOK, Verified, [Promise!Next]_pieces
  PROVE  Verified'
  BY DEF StateTypeOK, Verified, Promise!Next, Promise!Keep

LEMMA InitSharedInv == Init => SharedInv
<1>1. Init => Verified /\ \A w \in Workers : CarriesData(w)
  BY DEF Init, StateInit, Verified, CarriesData
<1>. QED
  BY <1>1, InitTypeOK DEF SharedInv

LEMMA NextSharedInv ==
  ASSUME SharedInv, [Next]_vars
  PROVE  SharedInv' /\ [Promise!Next]_pieces
<1>1. ASSUME NEW w \in Workers, Smooth(w) \/ Adverse(w)
      PROVE  SharedInv' /\ [Promise!Next]_pieces
  <2>1. TypeOK'
    BY <1>1, StepTypeOK DEF SharedInv
  <2>2. \A v \in Workers : CarriesData(v)'
    BY <1>1, StepCarriesData DEF SharedInv
  <2>3. [Promise!Next]_pieces
    BY <1>1, StepKeeps DEF SharedInv
  <2>4. Verified'
    BY <2>3, PromiseKeepsVerified DEF SharedInv, TypeOK
  <2>. QED
    BY <2>1, <2>2, <2>3, <2>4 DEF SharedInv
<1>2. CASE UNCHANGED vars
  BY <1>2 DEF SharedInv, vars, TypeOK, StateTypeOK, Verified, CarriesData
<1>. QED
  BY <1>1, <1>2 DEF Next

\* Every variable keeps its type: no operation of client.rs takes a task, the
\* connection table or the download state out of its domain, even when two tasks
\* serve one address.
THEOREM TypeCorrect == Spec => []TypeOK
<1>1. SharedInv /\ [Next]_vars => SharedInv'
  BY NextSharedInv
<1>2. SharedInv => TypeOK
  BY DEF SharedInv
<1>. QED
  BY InitSharedInv, <1>1, <1>2, PTL DEF Spec

\* The download keeps the promise of VerifiedDownload: whatever the peers send,
\* whichever connections fail and even when two tasks share an address, a piece is
\* kept only after its hash matched, is never lost or replaced, and pieces appear one
\* at a time (state.rs:152-200).
THEOREM DownloadKeepsPromise == Spec => KeepsPromise
<1>1. Init => Promise!Init
  BY DEF Init, StateInit, Promise!Init
<1>2. SharedInv /\ [Next]_vars => SharedInv' /\ [Promise!Next]_pieces
  BY NextSharedInv
<1>. QED
  BY InitSharedInv, <1>1, <1>2, PTL DEF Spec, KeepsPromise, Promise!Spec

=============================================================================
