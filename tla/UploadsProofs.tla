--------------------------- MODULE UploadsProofs ---------------------------
(***************************************************************************)
(* Theorems about Uploads, for any number of tasks and pieces and any      *)
(* limits.                                                                 *)
(***************************************************************************)
EXTENDS Uploads, TLAPS

NoDuplicates(s) == \A i, j \in 1 .. Len(s) : s[i] = s[j] => i = j

\* A task is in line once, only for a mutex of its scope, and for the connections only
\* with the download state in hand if its scope needs both.
LinesOK ==
    \A l \in Mutexes :
        /\ NoDuplicates(mutex[l])
        /\ \A w \in Workers : w \in Range(mutex[l]) =>
              /\ l \in Range(Scope[pc[w]])
              /\ l = "connections" /\ "download_state" \in Range(Scope[pc[w]])
                    => Holds(w, "download_state")

-----------------------------------------------------------------------------
(* Facts about lines and scopes *)

LEMMA Appended ==
  ASSUME NEW S, NEW s \in Seq(S), NEW x \in S, x \notin Range(s), NoDuplicates(s)
  PROVE  /\ Append(s, x) \in Seq(S)
         /\ NoDuplicates(Append(s, x))
         /\ Range(Append(s, x)) = Range(s) \cup {x}
         /\ s # <<>> => Head(Append(s, x)) = Head(s)
         /\ Append(s, x) # <<>>
  BY DEF NoDuplicates, Range

LEMMA HeadGone ==
  ASSUME NEW S, NEW s \in Seq(S), s # <<>>, NoDuplicates(s)
  PROVE  /\ Tail(s) \in Seq(S)
         /\ NoDuplicates(Tail(s))
         /\ Range(Tail(s)) = Range(s) \ {Head(s)}
<1>1. /\ Tail(s) \in Seq(S) /\ Len(Tail(s)) = Len(s) - 1 /\ Len(s) \in Nat /\ Len(s) > 0
      /\ DOMAIN Tail(s) = 1 .. (Len(s) - 1)
  OBVIOUS
<1>2. \A i \in 1 .. (Len(s) - 1) : Tail(s)[i] = s[i + 1]
  OBVIOUS
<1>3. NoDuplicates(Tail(s))
  BY <1>1, <1>2 DEF NoDuplicates
<1>4. ASSUME NEW x \in Range(s), x # Head(s) PROVE x \in Range(Tail(s))
  <2>1. PICK i \in 1 .. Len(s) : s[i] = x
    BY <1>4 DEF Range
  <2>2. i # 1
    BY <1>4, <2>1
  <2>3. i - 1 \in 1 .. (Len(s) - 1) /\ Tail(s)[i - 1] = x
    BY <1>1, <1>2, <2>1, <2>2
  <2>. QED
    BY <1>1, <2>3 DEF Range
<1>5. ASSUME NEW x \in Range(Tail(s)) PROVE x \in Range(s) /\ x # Head(s)
  <2>1. PICK i \in 1 .. (Len(s) - 1) : Tail(s)[i] = x
    BY <1>1 DEF Range
  <2>2. i + 1 \in 1 .. Len(s) /\ s[i + 1] = x /\ Head(s) = s[1] /\ 1 \in 1 .. Len(s)
    BY <1>1, <1>2, <2>1
  <2>3. i + 1 # 1 /\ s[i + 1] # s[1]
    BY <2>1, <2>2 DEF NoDuplicates
  <2>. QED
    BY <2>2, <2>3 DEF Range
<1>. QED
  BY <1>1, <1>3, <1>4, <1>5

LEMMA InLine ==
  ASSUME NEW S, NEW s \in Seq(S), s # <<>>
  PROVE  Head(s) \in Range(s) /\ Head(s) \in S
  BY DEF Range

LEMMA ScopeFacts ==
  /\ DOMAIN Scope = {"recv", "enqueue", "cancel", "answered", "store", "download",
                     "take", "serve", "check", "cleanup", "gone"}
  /\ Scope["recv"] = <<>> /\ Scope["gone"] = <<>>
  /\ \A s \in DOMAIN Scope :
        Scope[s] \in {<<>>, <<"connections">>, <<"download_state">>,
                      <<"download_state", "connections">>}
  BY DEF Scope, CleanUpScope

LEMMA ScopeOrder ==
  ASSUME NEW s \in DOMAIN Scope, NEW k \in DOMAIN Scope[s]
  PROVE  /\ Scope[s][k] \in Mutexes
         /\ Scope[s][k] \in Range(Scope[s])
         /\ Scope[s][k] = "connections" /\ "download_state" \in Range(Scope[s])
               => 1 \in 1 .. (k - 1) /\ Scope[s][1] = "download_state"
<1>1. CASE Scope[s] = <<>>
  BY <1>1
<1>2. CASE Scope[s] = <<"connections">>
  BY <1>2 DEF Mutexes, Range
<1>3. CASE Scope[s] = <<"download_state">>
  BY <1>3 DEF Mutexes, Range
<1>4. CASE Scope[s] = <<"download_state", "connections">>
  BY <1>4 DEF Mutexes, Range
<1>. QED
  BY <1>1, <1>2, <1>3, <1>4, ScopeFacts

LEMMA NoScope == Range(<<>>) = {}
  BY DEF Range

-----------------------------------------------------------------------------
(* The lines *)

Lines ==
    /\ pc \in [Workers -> DOMAIN Scope]
    /\ mutex \in [Mutexes -> Seq(Workers)]
    /\ LinesOK

LEMMA AskLines ==
  ASSUME Lines, NEW w \in Workers, Ask(w)
  PROVE  Lines'
<1>1. PICK k \in DOMAIN Scope[pc[w]] :
        /\ \A j \in 1 .. (k - 1) : Holds(w, Scope[pc[w]][j])
        /\ w \notin Range(mutex[Scope[pc[w]][k]])
        /\ mutex' = [mutex EXCEPT ![Scope[pc[w]][k]] = Append(@, w)]
  BY DEF Ask
<1>. DEFINE l == Scope[pc[w]][k]
<1>2. /\ pc' = pc /\ pc[w] \in DOMAIN Scope
      /\ l \in Mutexes /\ l \in Range(Scope[pc[w]])
      /\ l = "connections" /\ "download_state" \in Range(Scope[pc[w]])
            => Holds(w, "download_state")
  BY <1>1, ScopeOrder DEF Ask, Lines
<1>. HIDE DEF l
<1>3. /\ mutex' \in [Mutexes -> Seq(Workers)]
      /\ mutex'[l] = Append(mutex[l], w)
      /\ \A m \in Mutexes \ {l} : mutex'[m] = mutex[m]
  BY <1>1, <1>2 DEF Lines, l
<1>4. /\ mutex[l] \in Seq(Workers) /\ NoDuplicates(mutex[l]) /\ w \notin Range(mutex[l])
      /\ \A m \in Mutexes : NoDuplicates(mutex[m])
  BY <1>1, <1>2 DEF Lines, LinesOK, l
<1>5. /\ NoDuplicates(mutex'[l])
      /\ Range(mutex'[l]) = Range(mutex[l]) \cup {w}
      /\ mutex[l] # <<>> => Head(mutex'[l]) = Head(mutex[l])
      /\ mutex'[l] # <<>>
  BY <1>3, <1>4, Appended
<1>6. \A m \in Mutexes, v \in Workers : Holds(v, m) => Holds(v, m)'
  BY <1>3, <1>5 DEF Holds
<1>7. ASSUME NEW m \in Mutexes, NEW v \in Workers, v \in Range(mutex'[m])
      PROVE  /\ m \in Range(Scope[pc[v]])
             /\ m = "connections" /\ "download_state" \in Range(Scope[pc[v]])
                   => Holds(v, "download_state")
  <2>1. CASE v \in Range(mutex[m])
    BY <2>1 DEF Lines, LinesOK
  <2>2. CASE v \notin Range(mutex[m])
    <3>1. m = l /\ v = w
      BY <1>3, <1>5, <1>7, <2>2
    <3>. QED
      BY <1>2, <3>1
  <2>. QED
    BY <2>1, <2>2
<1>8. \A m \in Mutexes : NoDuplicates(mutex'[m])
  BY <1>3, <1>4, <1>5
<1>9. "download_state" \in Mutexes
  BY DEF Mutexes
<1>10. LinesOK'
  BY <1>2, <1>6, <1>7, <1>8, <1>9 DEF LinesOK
<1>. QED
  BY <1>2, <1>3, <1>10 DEF Lines

\* A task that leaves its scope is in no line any more.
LEMMA LeaveLines ==
  ASSUME Lines, NEW w \in Workers, NEW s \in DOMAIN Scope, Leave(w, s)
  PROVE  Lines'
<1>1. /\ pc' = [pc EXCEPT ![w] = s]
      /\ mutex' = [m \in Mutexes |-> IF Holds(w, m) THEN Tail(mutex[m]) ELSE mutex[m]]
      /\ Inside(w)
  BY DEF Leave, Goto, Release
<1>2. /\ pc' \in [Workers -> DOMAIN Scope]
      /\ \A v \in Workers \ {w} : pc'[v] = pc[v]
  BY <1>1 DEF Lines
<1>3. ASSUME NEW m \in Mutexes
      PROVE  /\ mutex'[m] \in Seq(Workers) /\ NoDuplicates(mutex'[m])
             /\ w \notin Range(mutex'[m])
             /\ Range(mutex'[m]) \subseteq Range(mutex[m])
             /\ ~Holds(w, m) => mutex'[m] = mutex[m]
  <2>1. mutex[m] \in Seq(Workers) /\ NoDuplicates(mutex[m])
    BY DEF Lines, LinesOK
  <2>2. CASE Holds(w, m)
    <3>1. mutex'[m] = Tail(mutex[m]) /\ mutex[m] # <<>> /\ Head(mutex[m]) = w
      BY <1>1, <2>2 DEF Holds
    <3>. QED
      BY <2>1, <2>2, <3>1, HeadGone
  <2>3. CASE ~Holds(w, m)
    <3>1. w \notin Range(mutex[m])
      BY <1>1, <2>3 DEF Lines, LinesOK, Inside
    <3>. QED
      BY <1>1, <2>1, <2>3, <3>1
  <2>. QED
    BY <2>2, <2>3
<1>4. ASSUME NEW v \in Workers \ {w}, Holds(v, "download_state")
      PROVE  Holds(v, "download_state")'
  <2>1. ~Holds(w, "download_state") /\ "download_state" \in Mutexes
    BY <1>4 DEF Holds, Mutexes
  <2>. QED
    BY <1>3, <1>4, <2>1 DEF Holds
<1>5. ASSUME NEW m \in Mutexes, NEW v \in Workers, v \in Range(mutex'[m])
      PROVE  /\ m \in Range(Scope[pc'[v]])
             /\ m = "connections" /\ "download_state" \in Range(Scope[pc'[v]])
                   => Holds(v, "download_state")'
  <2>1. v # w /\ v \in Range(mutex[m]) /\ pc'[v] = pc[v]
    BY <1>2, <1>3, <1>5
  <2>. QED
    BY <1>4, <2>1 DEF Lines, LinesOK
<1>6. LinesOK'
  BY <1>3, <1>5 DEF LinesOK
<1>7. mutex' \in [Mutexes -> Seq(Workers)]
  BY <1>1, <1>3
<1>. QED
  BY <1>2, <1>6, <1>7 DEF Lines

\* A step between scopes leaves the lines alone.
LEMMA GotoLines ==
  ASSUME Lines, NEW w \in Workers, NEW s \in DOMAIN Scope, Goto(w, s), mutex' = mutex,
         Outside(w) \/ Scope[pc[w]] = <<>>
  PROVE  Lines'
<1>1. \A m \in Mutexes : w \notin Range(mutex[m])
  BY NoScope DEF Outside, Lines, LinesOK
<1>2. /\ pc' \in [Workers -> DOMAIN Scope]
      /\ \A v \in Workers \ {w} : pc'[v] = pc[v]
  BY DEF Goto, Lines
<1>3. LinesOK'
  BY <1>1, <1>2 DEF Lines, LinesOK, Holds
<1>. QED
  BY <1>2, <1>3 DEF Lines

-----------------------------------------------------------------------------
(* The invariant *)

\* A queue has at most the request of the round, and what is processed is a request.
QueueOK ==
    \A w \in Workers :
        /\ Len(pending_uploads[w]) <= 1
        /\ pc[w] \notin {"download", "take", "cleanup"} => pending_uploads[w] = <<>>
        /\ pc[w] = "serve" <=> to_serve[w] # <<>>
        /\ pc[w] = "enqueue" => message[w] \in Pieces

DataOK ==
    /\ message \in [Workers -> Pieces \cup {"nothing"}]
    /\ pending_uploads \in [Workers -> Seq(Pieces)]
    /\ to_serve \in [Workers -> Seq(Pieces)]
    /\ wire \in [Workers -> Pieces \cup {"nothing"}]
    /\ kept \in SUBSET Pieces
    /\ QueueOK

IInv == Lines /\ DataOK

LEMMA InitIInv == Init => IInv
<1>. SUFFICES ASSUME Init PROVE IInv
  OBVIOUS
<1>1. Lines
  BY ScopeFacts, NoScope DEF Init, Lines, LinesOK, NoDuplicates
<1>2. DataOK
  BY DEF Init, DataOK, QueueOK
<1>. QED
  BY <1>1, <1>2 DEF IInv

LEMMA RecvStep ==
  ASSUME IInv, NEW w \in Workers, Recv(w)
  PROVE  IInv'
<1>1. PICK s \in {"download", "enqueue", "cancel", "answered", "cleanup"} :
        /\ pc[w] = "recv" /\ Goto(w, s) /\ mutex' = mutex
        /\ pending_uploads' = pending_uploads /\ to_serve' = to_serve /\ kept' = kept
        /\ wire' = [wire EXCEPT ![w] = "nothing"]
        /\ \/ message' = message /\ s # "enqueue"
           \/ \E p \in Pieces : message' = [message EXCEPT ![w] = p]
  BY DEF Recv, RecvNothing, RecvRequest, RecvCancel, RecvPiece, RecvClosed
<1>2. Lines'
  BY <1>1, GotoLines, ScopeFacts DEF IInv
<1>3. pc' = [pc EXCEPT ![w] = s] /\ pc \in [Workers -> DOMAIN Scope]
  BY <1>1 DEF Goto, IInv, Lines
<1>4. DataOK'
  BY <1>1, <1>3 DEF IInv, DataOK, QueueOK
<1>. QED
  BY <1>2, <1>4 DEF IInv

LEMMA EnqueueStep ==
  ASSUME IInv, NEW w \in Workers, Enqueue(w)
  PROVE  IInv'
<1>1. Lines'
  BY LeaveLines, ScopeFacts DEF Enqueue, IInv
<1>2. /\ pc' = [pc EXCEPT ![w] = "download"] /\ pc \in [Workers -> DOMAIN Scope]
      /\ pending_uploads[w] = <<>> /\ message[w] \in Pieces /\ to_serve[w] = <<>>
  BY DEF Enqueue, Leave, Goto, IInv, Lines, DataOK, QueueOK
<1>3. \/ pending_uploads' = pending_uploads
      \/ pending_uploads' = [pending_uploads EXCEPT ![w] = <<message[w]>>]
  BY <1>2 DEF Enqueue
<1>4. <<message[w]>> \in Seq(Pieces) /\ Len(<<message[w]>>) = 1
  BY <1>2
<1>5. DataOK'
  BY <1>2, <1>3, <1>4 DEF Enqueue, IInv, DataOK, QueueOK
<1>. QED
  BY <1>1, <1>5 DEF IInv

LEMMA CancelStep ==
  ASSUME IInv, NEW w \in Workers, CancelUpload(w)
  PROVE  IInv'
<1>1. Lines'
  BY LeaveLines, ScopeFacts DEF CancelUpload, IInv
<1>2. /\ pc' = [pc EXCEPT ![w] = "download"] /\ pc \in [Workers -> DOMAIN Scope]
      /\ pending_uploads[w] = <<>> /\ to_serve[w] = <<>>
  BY DEF CancelUpload, Leave, Goto, IInv, Lines, DataOK, QueueOK
<1>3. Without(<<>>, message[w]) = <<>>
  BY NoScope DEF Without
<1>4. pending_uploads' = [pending_uploads EXCEPT ![w] = <<>>]
  BY <1>2, <1>3 DEF CancelUpload
<1>5. DataOK'
  BY <1>2, <1>4 DEF CancelUpload, IInv, DataOK, QueueOK
<1>. QED
  BY <1>1, <1>5 DEF IInv

\* Steps that leave the queues alone.
LEMMA QuietStep ==
  ASSUME IInv, NEW w \in Workers,
         RemovePending(w) \/ StoreBlock(w) \/ SkipDownload(w) \/ Download(w)
            \/ CheckComplete(w) \/ WriteFails(w) \/ Connect(w)
  PROVE  IInv'
<1>1. PICK s \in DOMAIN Scope :
        /\ pc' = [pc EXCEPT ![w] = s]
        /\ \/ Inside(w) /\ Release(w)
           \/ mutex' = mutex /\ (Outside(w) \/ pc[w] = "gone")
        /\ s \notin {"serve", "enqueue"} /\ pc[w] # "serve"
        /\ pc[w] = "download" => s \in {"take", "cleanup"}
        /\ pc[w] \notin {"take", "cleanup"}
  <2>1. CASE RemovePending(w)
    BY <2>1, ScopeFacts DEF RemovePending, Leave, Goto
  <2>2. CASE StoreBlock(w)
    BY <2>2, ScopeFacts DEF StoreBlock, Leave, Goto
  <2>3. CASE SkipDownload(w)
    BY <2>3, ScopeFacts DEF SkipDownload, Leave, Goto
  <2>4. CASE Download(w)
    BY <2>4, ScopeFacts DEF Download, Leave, Goto
  <2>5. CASE CheckComplete(w)
    BY <2>5, ScopeFacts DEF CheckComplete, Leave, Goto
  <2>6. CASE WriteFails(w)
    BY <2>6, ScopeFacts DEF WriteFails, Leave, Goto
  <2>7. CASE Connect(w)
    BY <2>7, ScopeFacts DEF Connect, Leave, Goto
  <2>. QED
    BY <2>1, <2>2, <2>3, <2>4, <2>5, <2>6, <2>7
<1>2. Lines'
  BY <1>1, LeaveLines, GotoLines, ScopeFacts DEF IInv, Leave, Goto
<1>3. pc \in [Workers -> DOMAIN Scope]
  BY DEF IInv, Lines
<1>4. /\ UNCHANGED <<message, pending_uploads, to_serve, wire>>
      /\ kept' \in SUBSET Pieces
  BY DEF RemovePending, StoreBlock, SkipDownload, Download, CheckComplete, WriteFails,
         Connect, IInv, DataOK
<1>5. DataOK'
  BY <1>1, <1>3, <1>4 DEF IInv, DataOK, QueueOK
<1>. QED
  BY <1>2, <1>5 DEF IInv

LEMMA TakeStep ==
  ASSUME IInv, NEW w \in Workers, Take(w)
  PROVE  IInv'
<1>1. Lines'
  BY LeaveLines, ScopeFacts DEF Take, IInv
<1>2. /\ pc[w] = "take" /\ pc \in [Workers -> DOMAIN Scope]
      /\ pc' = [pc EXCEPT ![w] = IF pending_uploads[w] = <<>> THEN "check" ELSE "serve"]
      /\ pending_uploads[w] \in Seq(Pieces) /\ Len(pending_uploads[w]) <= 1
  BY DEF Take, Leave, Goto, IInv, Lines, DataOK, QueueOK
<1>. DEFINE q == pending_uploads[w]
<1>3. SubSeq(q, 1, Len(q)) = q /\ SubSeq(q, Len(q) + 1, Len(q)) = <<>>
  BY <1>2
<1>4. (IF Len(q) < BatchSize THEN Len(q) ELSE BatchSize) = Len(q)
  BY <1>2, UploadsAssumption
<1>5. /\ to_serve' = [to_serve EXCEPT ![w] = q]
      /\ pending_uploads' = [pending_uploads EXCEPT ![w] = <<>>]
  BY <1>3, <1>4 DEF Take
<1>6. UNCHANGED <<message, wire, kept>>
  BY DEF Take
<1>7. Len(<<>>) = 0 /\ <<>> \in Seq(Pieces)
  OBVIOUS
<1>. HIDE DEF q
<1>8. DataOK'
  BY <1>2, <1>5, <1>6, <1>7 DEF IInv, DataOK, QueueOK, q
<1>. QED
  BY <1>1, <1>8 DEF IInv

LEMMA ServeStep ==
  ASSUME IInv, NEW w \in Workers, Serve(w)
  PROVE  IInv'
<1>1. /\ pc[w] = "serve" /\ pc \in [Workers -> DOMAIN Scope]
      /\ to_serve[w] # <<>> /\ to_serve[w] \in Seq(Pieces) /\ pending_uploads[w] = <<>>
  BY DEF Serve, IInv, Lines, DataOK, QueueOK
<1>2. Tail(to_serve[w]) \in Seq(Pieces) /\ Head(to_serve[w]) \in Pieces
  BY <1>1
<1>3. /\ to_serve' = [to_serve EXCEPT ![w] = Tail(to_serve[w])]
      /\ to_serve'[w] = Tail(to_serve[w])
  BY <1>1 DEF Serve, IInv, DataOK
<1>4. \/ Leave(w, "check") /\ Tail(to_serve[w]) = <<>>
      \/ UNCHANGED <<pc, mutex>> /\ Tail(to_serve[w]) # <<>>
  BY <1>3 DEF Serve
<1>5. Lines'
  BY <1>4, LeaveLines, ScopeFacts DEF IInv, Lines, LinesOK, Holds
<1>6. pc' = [pc EXCEPT ![w] = IF Tail(to_serve[w]) = <<>> THEN "check" ELSE "serve"]
  BY <1>1, <1>4 DEF Leave, Goto
<1>7. DataOK'
  BY <1>1, <1>2, <1>3, <1>6 DEF Serve, IInv, DataOK, QueueOK
<1>. QED
  BY <1>5, <1>7 DEF IInv

LEMMA EndStep ==
  ASSUME IInv, NEW w \in Workers, ServeFails(w) \/ CleanUp(w)
  PROVE  IInv'
<1>1. Lines'
  BY LeaveLines, ScopeFacts DEF ServeFails, CleanUp, IInv
<1>2. pc \in [Workers -> DOMAIN Scope] /\ <<>> \in Seq(Pieces) /\ Len(<<>>) = 0
  BY DEF IInv, Lines
<1>3. CASE ServeFails(w)
  <2>1. /\ pc' = [pc EXCEPT ![w] = "cleanup"] /\ pc[w] = "serve"
        /\ to_serve' = [to_serve EXCEPT ![w] = <<>>]
        /\ UNCHANGED <<message, pending_uploads, wire, kept>>
    BY <1>3 DEF ServeFails, Leave, Goto
  <2>. QED
    BY <1>1, <1>2, <2>1 DEF IInv, DataOK, QueueOK
<1>4. CASE CleanUp(w)
  <2>1. /\ pc' = [pc EXCEPT ![w] = "gone"] /\ pc[w] = "cleanup"
        /\ pending_uploads' = [pending_uploads EXCEPT ![w] = <<>>]
        /\ wire' = [wire EXCEPT ![w] = "nothing"]
        /\ UNCHANGED <<message, to_serve, kept>>
    BY <1>4 DEF CleanUp, Leave, Goto
  <2>. QED
    BY <1>1, <1>2, <2>1 DEF IInv, DataOK, QueueOK
<1>. QED
  BY <1>1, <1>3, <1>4 DEF IInv

LEMMA NextIInv == IInv /\ [Next]_vars => IInv'
<1>. SUFFICES ASSUME IInv, [Next]_vars PROVE IInv'
  OBVIOUS
<1>1. ASSUME NEW w \in Workers, Ask(w) PROVE IInv'
  BY <1>1, AskLines DEF Ask, IInv, DataOK, QueueOK
<1>2. ASSUME NEW w \in Workers, Work(w) PROVE IInv'
  BY <1>2, RecvStep, EnqueueStep, CancelStep, QuietStep, TakeStep, ServeStep, EndStep
     DEF Work
<1>3. ASSUME NEW w \in Workers, Connect(w) PROVE IInv'
  BY <1>3, QuietStep
<1>4. CASE UNCHANGED vars
  BY <1>4 DEF vars, IInv, Lines, LinesOK, Holds, DataOK, QueueOK
<1>. QED
  BY <1>1, <1>2, <1>3, <1>4 DEF Next

LEMMA SpecIInv == Spec => []IInv
  BY InitIInv, NextIInv, PTL DEF Spec

-----------------------------------------------------------------------------
(* Theorems *)

\* Every variable keeps its type, and a task serves exactly while it has taken requests.
THEOREM UploadsTypeCorrect == Spec => []TypeOK
<1>1. IInv => TypeOK
  BY DEF IInv, Lines, DataOK, QueueOK, TypeOK
<1>. QED
  BY <1>1, SpecIInv, PTL

\* No task that holds the connections waits for the download state: with two mutexes, no
\* tasks wait for each other.
THEOREM LocksAreOrdered == Spec => []LockOrder
<1>1. IInv => LockOrder
  <2>. SUFFICES ASSUME IInv, NEW w \in Workers, Holds(w, "connections"),
                       Waits(w, "download_state")
                PROVE  FALSE
    BY DEF LockOrder
  <2>1. {"connections", "download_state"} \subseteq Mutexes
    BY DEF Mutexes
  <2>2. w \in Range(mutex["connections"])
    BY <2>1, InLine DEF Holds, IInv, Lines
  <2>3. "download_state" \in Range(Scope[pc[w]])
    BY <2>1 DEF Waits, IInv, Lines, LinesOK
  <2>4. Holds(w, "download_state")
    BY <2>1, <2>2, <2>3 DEF IInv, Lines, LinesOK
  <2>. QED
    BY <2>4 DEF Waits
<1>. QED
  BY <1>1, SpecIInv, PTL

\* A task that reads a message has dealt with every request it has read before.
THEOREM RequestsAnsweredAtOnce == Spec => []AnsweredAtOnce
<1>1. IInv => AnsweredAtOnce
  BY DEF IInv, DataOK, QueueOK, AnsweredAtOnce
<1>. QED
  BY <1>1, SpecIInv, PTL

=============================================================================
