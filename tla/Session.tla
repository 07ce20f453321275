------------------------------ MODULE Session ------------------------------
(***************************************************************************)
(* A download from beginning to end (src/lib.rs): announce to the tracker  *)
(* or, for a magnet link, to all trackers at once; fetch the metadata;     *)
(* connect; a task that announces again at every interval beside a loop    *)
(* that watches for completion, announces it, aborts the task and writes   *)
(* the file.                                                               *)
(*                                                                         *)
(* The workers and the metadata fetch have modules of their own; here a    *)
(* peer that is worked on may deliver a piece or be lost, and the fetch    *)
(* has one of its two outcomes.                                            *)
(***************************************************************************)
EXTENDS Trackers

CONSTANTS
    First,              \* the tracker of the torrent; of a magnet link, its first
    Pieces,             \* the pieces of the torrent
    EnoughPeers,        \* peers at which a magnet link stops announcing
    DefaultInterval     \* between announces, until a tracker names another

ASSUME SessionAssumption ==
    /\ First \in Trackers
    /\ EnoughPeers \in Nat \ {0}
    /\ DefaultInterval \in Nat \ {0}

VARIABLES
    main,       \* where the session is
    result,     \* what it returns
    tasks,      \* the trackers in the JoinSet of a magnet link
    found,      \* the peers to begin with
    re,         \* where the reannounce task is
    interval,   \* how long it sleeps
    aborted,    \* it has been told to stop
    working,    \* the peers with a worker
    kept        \* kept[p]: the content the download holds for piece p

vars == <<announce, main, result, tasks, found, re, interval, aborted, working, kept>>

mainVars == <<main, result, tasks, found>>
reVars == <<re, interval>>

Download == INSTANCE VerifiedDownload

is_complete == \A p \in Pieces : kept[p] # "missing"

Init ==
    /\ announce = [t \in Trackers |-> Idle]
    /\ main \in {"file", "magnet"}
    /\ result = "none"
    /\ tasks = {}
    /\ found = {}
    /\ re = "none"
    /\ interval = DefaultInterval
    /\ aborted = FALSE
    /\ working = {}
    /\ kept = [p \in Pieces |-> "missing"]

Return(r) == main' = "returned" /\ result' = r

-----------------------------------------------------------------------------
(* From a .torrent file *)

AnnounceFile ==
    /\ main = "file"
    /\ Update(First, Begun(First, {}, TRUE))
    /\ main' = "announce"
    /\ UNCHANGED <<result, tasks, found, reVars, aborted, working, kept>>

\* The first announce has to succeed.
AnnouncedFile ==
    /\ main = "announce"
    /\ Finished(First)
    /\ IF announce[First].st = "ok"
       THEN /\ main' = "connect"
            /\ found' = announce[First].answer.peers
            /\ interval' = announce[First].answer.interval
            /\ UNCHANGED result
       ELSE Return("announce failed") /\ UNCHANGED <<found, interval>>
    /\ UNCHANGED <<announce, tasks, re, aborted, working, kept>>

-----------------------------------------------------------------------------
(* From a magnet link *)

AnnounceMagnet ==
    /\ main = "magnet"
    /\ announce' = [t \in Trackers |-> Begun(t, {}, TRUE)]
    /\ tasks' = Trackers
    /\ main' = "collect"
    /\ UNCHANGED <<result, found, reVars, aborted, working, kept>>

\* Mutated: the peers of a tracker replace those found before.
JoinReplacing(t) ==
    LET x == announce[t] IN
    /\ main = "collect"
    /\ t \in tasks
    /\ Finished(t)
    /\ found' = IF x.st = "ok" THEN x.answer.peers ELSE found
    /\ interval' = IF x.st = "ok" /\ x.answer.peers # {} THEN x.answer.interval ELSE interval
    /\ IF Cardinality(found') >= EnoughPeers
       THEN /\ main' = "fetch"
            /\ tasks' = {}
            /\ announce' = [s \in Trackers |->
                               IF s \in tasks \ {t} THEN Closed(announce[s]) ELSE announce[s]]
       ELSE tasks' = tasks \ {t} /\ UNCHANGED <<main, announce>>
    /\ UNCHANGED <<result, re, aborted, working, kept>>

\* join_next: the peers of t are added; with enough of them the other tasks are aborted.
Join(t) ==
    LET x == announce[t] IN
    /\ main = "collect"
    /\ t \in tasks
    /\ Finished(t)
    /\ found' = IF x.st = "ok" THEN found \cup x.answer.peers ELSE found
    /\ interval' = IF x.st = "ok" /\ x.answer.peers # {} THEN x.answer.interval ELSE interval
    /\ IF Cardinality(found') >= EnoughPeers
       THEN /\ main' = "fetch"
            /\ tasks' = {}
            /\ announce' = [s \in Trackers |->
                               IF s \in tasks \ {t} THEN Closed(announce[s]) ELSE announce[s]]
       ELSE tasks' = tasks \ {t} /\ UNCHANGED <<main, announce>>
    /\ UNCHANGED <<result, re, aborted, working, kept>>

JoinNone ==
    /\ main = "collect"
    /\ tasks = {}
    /\ IF found = {} THEN Return("no peers") ELSE main' = "fetch" /\ UNCHANGED result
    /\ UNCHANGED <<announce, tasks, found, reVars, aborted, working, kept>>

\* fetch_metadata_from_peers, then parse_info_dict_bytes.
FetchMetadata ==
    /\ main = "fetch"
    /\ \/ main' = "connect" /\ UNCHANGED result
       \/ Return("no metadata")
    /\ UNCHANGED <<announce, tasks, found, reVars, aborted, working, kept>>

-----------------------------------------------------------------------------
(* The download *)

\* connect_to_new_peers, and the reannounce task is spawned.
ConnectInitial ==
    /\ main = "connect"
    /\ announce' = [t \in Trackers |-> Closed(announce[t])]
    /\ working' = working \cup found
    /\ found' = {}
    /\ re' = "sleep"
    /\ main' = "monitor"
    /\ UNCHANGED <<result, tasks, interval, aborted, kept>>

\* Mutated: progress is taken for completion.
SeeSomePiece ==
    /\ main = "monitor"
    /\ \E p \in Pieces : kept[p] # "missing"
    /\ main' = "completing"
    /\ UNCHANGED <<announce, result, tasks, found, reVars, aborted, working, kept>>

\* The monitor looks every three seconds.
SeeComplete ==
    /\ main = "monitor"
    /\ is_complete
    /\ main' = "completing"
    /\ UNCHANGED <<announce, result, tasks, found, reVars, aborted, working, kept>>

\* Mutated: the reannounce task is left running.
CompleteWithoutAbort ==
    /\ main = "completing"
    /\ main' = "write"
    /\ UNCHANGED <<announce, result, tasks, found, reVars, aborted, working, kept>>

\* Mutated: an error of the tracker is passed on.
CompletePassingError ==
    /\ main = "completing"
    /\ \/ main' = "write" /\ UNCHANGED result
       \/ Return("announce failed")
    /\ aborted' = TRUE
    /\ UNCHANGED <<announce, tasks, found, reVars, working, kept>>

\* announce_completion_to_tracker returns, with an answer or an error that are only
\* printed; then the task is aborted.  The request goes through the HTTP client: a udp://
\* URL is refused at once, an http:// tracker may never answer.
AnnounceCompletion ==
    /\ main = "completing"
    /\ main' = "write"
    /\ aborted' = TRUE
    /\ UNCHANGED <<announce, result, tasks, found, reVars, working, kept>>

\* write_to_file fails on a missing piece, and may fail on any write.
WriteFile ==
    /\ main = "write"
    /\ \/ is_complete /\ Return("ok")
       \/ Return("not written")
    /\ UNCHANGED <<announce, tasks, found, reVars, aborted, working, kept>>

-----------------------------------------------------------------------------
(* The reannounce task.  Once it is aborted it does not go on from an await that has  *)
(* nothing yet, but what it runs at that moment runs to the next await: an aborted    *)
(* task does not wake again, and may finish what it does or be dropped at any step.   *)

\* The interval is an i64 taken as u64: a negative one is longer than any download.
Wake ==
    /\ re = "sleep" /\ ~aborted
    /\ interval >= 0
    /\ re' = "check"
    /\ UNCHANGED <<announce, mainVars, interval, aborted, working, kept>>

\* Mutated: the task does not check for completion.
CheckNothing ==
    /\ re = "check"
    /\ re' = "begin"
    /\ UNCHANGED <<announce, mainVars, interval, aborted, working, kept>>

CheckComplete ==
    /\ re = "check"
    /\ re' = IF is_complete THEN "ended" ELSE "begin"
    /\ UNCHANGED <<announce, mainVars, interval, aborted, working, kept>>

\* The state is unlocked since the check.  Only a sleep of no time lets the request fall
\* into the second of the one before.
Reannounce ==
    /\ re = "begin"
    /\ re' = "announce"
    /\ \E late \in Late, later \in (IF interval = 0 THEN BOOLEAN ELSE {TRUE}) :
          Send(First, Begun(First, late, later), later)
    /\ UNCHANGED <<mainVars, interval, aborted, working, kept>>

\* Mutated: the task ends when an announce fails.
GiveUp ==
    /\ re = "announce"
    /\ Finished(First)
    /\ IF announce[First].st = "ok"
       THEN re' = "connect" /\ interval' = announce[First].answer.interval /\ UNCHANGED announce
       ELSE re' = "ended" /\ Update(First, Closed(announce[First])) /\ UNCHANGED interval
    /\ UNCHANGED <<mainVars, aborted, working, kept>>

\* Mutated: every failure doubles the interval, without a bound.
ReannouncedBackingOff ==
    /\ re = "announce"
    /\ Finished(First)
    /\ IF announce[First].st = "ok"
       THEN re' = "connect" /\ interval' = announce[First].answer.interval /\ UNCHANGED announce
       ELSE re' = "sleep" /\ Update(First, Closed(announce[First])) /\ interval' = 2 * interval
    /\ UNCHANGED <<mainVars, aborted, working, kept>>

\* After a failure the interval stays.
Reannounced ==
    /\ re = "announce"
    /\ Finished(First)
    /\ IF announce[First].st = "ok"
       THEN re' = "connect" /\ interval' = announce[First].answer.interval /\ UNCHANGED announce
       ELSE re' = "sleep" /\ Update(First, Closed(announce[First])) /\ UNCHANGED interval
    /\ UNCHANGED <<mainVars, aborted, working, kept>>

ConnectNew ==
    /\ re = "connect"
    /\ working' = working \cup announce[First].answer.peers
    /\ re' = "sleep"
    /\ Update(First, Closed(announce[First]))
    /\ UNCHANGED <<mainVars, interval, aborted, kept>>

\* The task is dropped at an await.
Dropped ==
    /\ aborted
    /\ re \notin {"none", "ended"}
    /\ re' = "ended"
    /\ Update(First, Closed(announce[First]))
    /\ UNCHANGED <<mainVars, interval, aborted, working, kept>>

-----------------------------------------------------------------------------
(* The workers *)

PieceArrives ==
    /\ working # {}
    /\ \E p \in Pieces : Download!Keep(p)
    /\ UNCHANGED <<announce, mainVars, reVars, aborted, working>>

\* The peer is lost; or its worker sees that the download is complete.
PeerLeaves(q) ==
    /\ q \in working
    /\ working' = working \ {q}
    /\ UNCHANGED <<announce, mainVars, reVars, aborted, kept>>

-----------------------------------------------------------------------------
(* Specification *)

TrackerStep(t) == Exchange(t) /\ UNCHANGED <<mainVars, reVars, aborted, working, kept>>

MainStep ==
    \/ AnnounceFile \/ AnnouncedFile
    \/ AnnounceMagnet \/ JoinNone \/ FetchMetadata
    \/ \E t \in Trackers : Join(t)
    \/ ConnectInitial \/ SeeComplete \/ AnnounceCompletion \/ WriteFile

ReStep == Wake \/ CheckComplete \/ Reannounce \/ Reannounced \/ ConnectNew \/ Dropped

Next ==
    \/ MainStep \/ ReStep \/ PieceArrives
    \/ \E t \in Trackers : TrackerStep(t)
    \/ \E q \in Peers : PeerLeaves(q)

Spec == Init /\ [][Next]_vars

\* tokio runs what is ready and its timers fire, also the timeout of a read over UDP; a
\* worker looks for completion in every round.  A request over HTTP has no timeout: it
\* need not end, neither an announce nor the one of completion.
Fairness ==
    /\ WF_vars(MainStep /\ (main = "completing" => First \in Udp))
    /\ WF_vars(ReStep)
    /\ \A t \in Udp : WF_vars(TrackerStep(t) /\ announce'[t].st \in {"ok", "err"})
    /\ \A q \in Peers : WF_vars(is_complete /\ PeerLeaves(q))

FairSpec == Spec /\ Fairness

-----------------------------------------------------------------------------
(* Properties *)

TypeOK ==
    /\ announce \in [Trackers -> Exchanges]
    /\ main \in {"file", "magnet", "announce", "collect", "fetch", "connect",
                 "monitor", "completing", "write", "returned"}
    /\ result \in {"none", "ok", "announce failed", "no peers", "no metadata", "not written"}
    /\ tasks \subseteq Trackers
    /\ found \subseteq Peers
    /\ re \in {"none", "sleep", "check", "begin", "announce", "connect", "ended"}
    /\ interval \in Intervals \cup {DefaultInterval}
    /\ aborted \in BOOLEAN
    /\ working \subseteq Peers
    /\ kept \in [Pieces -> {"missing", "good"}]

\* What a UDP announce returns is what the tracker has answered in this exchange, down to
\* the peers that fit into the buffer: an error message, an answer that is too short and a
\* datagram of an earlier exchange are never taken for it (src/tracker/udp.rs:122-158).
\* That needs an id of its own; the id is the second, and two exchanges may fall into one
\* when a tracker names an interval of 0.
OwnAnswer ==
    \A t \in Udp :
        announce[t].st = "ok" /\ ~announce[t].same =>
            \E d \in announce[t].inbox :
                /\ d.own /\ d.action = "announce"
                /\ announce[t].answer.interval = d.answer.interval
                /\ announce[t].answer.peers \in Cut(d.answer.peers)

\* Between the check of the monitor and the write there is an announce that may take any
\* time; when the file is written the download is still complete (src/lib.rs:160-179).
WritesWhole ==
    main \in {"completing", "write"} \/ result = "ok" => is_complete

\* A magnet link gives up for lack of peers only when every tracker has answered, and
\* none of them with a peer (src/lib.rs:209-229).
GivesUpRightly ==
    result = "no peers" =>
        \A t \in Trackers : Finished(t) /\ announce[t].answer.peers = {}

\* From the abort on at most one announce begins: one whose check came before the last
\* piece, as the state is unlocked between the two.  No check lets another one begin
\* (src/lib.rs:70-121 and 177).
QuietAfterAbort ==
    [][aborted =>
          /\ re' = "begin" => re = "begin"
          /\ \A t \in Trackers :
                Active(t)' => Active(t) \/ (t = First /\ re = "begin" /\ re' = "announce")]_vars

\* A complete download gets to the write (src/lib.rs:160-180).  It does with a UDP
\* tracker; with an HTTP tracker the announce of completion, made before the write and
\* without a timeout (src/lib.rs:165, src/tracker/http.rs:10-15), may keep it from it.
SessionWrites == is_complete ~> result \in {"ok", "not written"}

\* While the session waits the task announces again and again to a UDP tracker, through
\* any failures, unless a tracker has named a negative interval (src/lib.rs:70-121).
KeepsAnnouncing ==
    main = "monitor" ~> re = "announce" \/ is_complete \/ interval < 0

\* Once the download is complete everything comes to rest, with a UDP tracker: a
\* reannounce under way may still start workers, which leave.
ComesToRest ==
    is_complete ~> [](working = {} /\ re \in {"none", "ended"})

=============================================================================
