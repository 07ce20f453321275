------------------------------ MODULE Trackers ------------------------------
(***************************************************************************)
(* An announce to a tracker (src/tracker/): over HTTP one request and its  *)
(* answer; over UDP a connect and an announce, one datagram and one read   *)
(* each, with a timeout and no retry.                                      *)
(*                                                                         *)
(* inbox is what the network may still deliver to the socket.  A datagram  *)
(* that is delivered stays there, so it may come again; one that is lost   *)
(* is never delivered; one that is late meets a later exchange, with the   *)
(* same tracker or another (its sender is not looked at), when the system  *)
(* gives the new socket the same port.                                     *)
(*                                                                         *)
(* The transaction id of a request is the second in which it is sent.      *)
(* Seconds are kept relative to the latest request: a datagram carries     *)
(* that second or an earlier one, and before each request the clock may    *)
(* have moved on or not.                                                   *)
(***************************************************************************)
EXTENDS Integers, FiniteSets

CONSTANTS
    Trackers,   \* the announce URLs
    Udp,        \* those that start with udp://
    Peers,      \* the addresses of peers
    Lists,      \* the lists of peers a tracker may send, as sets
    Intervals,  \* the intervals a tracker may name, in seconds
    MaxUdpPeers \* how many peers fit into the buffer for an answer over UDP

ASSUME TrackersAssumption ==
    /\ Udp \subseteq Trackers
    /\ Lists \subseteq SUBSET Peers
    /\ Intervals \subseteq Int
    /\ MaxUdpPeers \in Nat

VARIABLE announce   \* announce[t]: the latest exchange with t

Answers == [interval : Intervals, peers : Lists]

NoAnswer == [interval |-> 0, peers |-> {}]

\* own: it answers a request of this exchange; now: it carries the second of the latest
\* request.  It is whole if what is read of it is long enough for what it should be (16
\* bytes, or 20) and holds whole peers, as it always does when the list fills the buffer:
\* what comes behind 2048 bytes, 20 and a multiple of six, is cut off.
Datagrams ==
    [own : BOOLEAN, now : BOOLEAN, to : {"connecting", "announcing"},
     action : {"connect", "announce", "error"}, whole : BOOLEAN,
     answer : Answers \cup {NoAnswer}]

\* same: it began in the second of the exchange before it.
Exchanges ==
    [st : {"idle", "connecting", "announcing", "http", "ok", "err"}, same : BOOLEAN,
     inbox : SUBSET Datagrams, answer : [interval : Intervals \cup {0}, peers : SUBSET Peers]]

Idle == [st |-> "idle", same |-> FALSE, inbox |-> {}, answer |-> NoAnswer]

\* The datagrams in box when the next request is sent; later: the clock has moved on.
Before(box, later) == {[d EXCEPT !.now = @ /\ ~later] : d \in box}

\* An exchange with t, with these datagrams of others under way.
Begun(t, late, later) ==
    [st |-> IF t \in Udp THEN "connecting" ELSE "http", same |-> ~later,
     inbox |-> {[d EXCEPT !.own = FALSE] : d \in Before(late, later)}, answer |-> NoAnswer]

\* The exchange is over: its answer has been taken, or the future that runs it is dropped.
Closed(x) ==
    [x EXCEPT !.st = "idle", !.same = FALSE, !.answer = NoAnswer, !.inbox = {d \in @ : d.own}]

Active(t) == announce[t].st \in {"connecting", "announcing", "http"}

Finished(t) == announce[t].st \in {"ok", "err"}

\* What a socket may still receive of an exchange that is over: nothing, or all of it.
Late == {{}} \cup {{d \in announce[t].inbox : d.own} : t \in {u \in Udp : ~Active(u)}}

Update(t, x) == announce' = [announce EXCEPT ![t] = x]

\* A request of t is sent; x is its exchange from then on.
Send(t, x, later) ==
    announce' = [u \in Trackers |->
                    IF u = t THEN x
                    ELSE IF Active(u) THEN announce[u]
                    ELSE [announce[u] EXCEPT !.inbox = Before(@, later)]]

-----------------------------------------------------------------------------
(* The tracker *)

\* A datagram that t may send for the request it has received.
Replies(t) ==
    LET reply(action, whole, a) ==
            [own |-> TRUE, now |-> TRUE, to |-> announce[t].st, action |-> action,
             whole |-> whole, answer |-> a]
    IN  {reply("error", TRUE, NoAnswer)} \cup
        IF announce[t].st = "connecting"
        THEN {reply("connect", w, NoAnswer) : w \in BOOLEAN}
        ELSE {reply("announce", FALSE, NoAnswer)} \cup
             {reply("announce", TRUE, a) : a \in Answers}

\* A request is answered once; a repetition of the answer is up to the network.
Reply(t) ==
    /\ announce[t].st \in {"connecting", "announcing"}
    /\ \A d \in announce[t].inbox : d.own => d.to # announce[t].st
    /\ \E d \in Replies(t) : Update(t, [announce[t] EXCEPT !.inbox = @ \cup {d}])

-----------------------------------------------------------------------------
(* The client *)

\* Mutated: the transaction id of a reply is not compared.
ValidIgnoringId(d, action) == d.whole /\ d.action = action

\* The checks of a reply.
Valid(d, action) == d.whole /\ d.action = action /\ d.now

\* udp_connect takes the first datagram that comes, whatever it is.
UdpConnect(t) ==
    LET x == announce[t] IN
    /\ x.st = "connecting"
    /\ \E d \in x.inbox, later \in BOOLEAN :
          IF Valid(d, "connect")
          THEN Send(t, [x EXCEPT !.st = "announcing", !.inbox = Before(@, later)], later)
          ELSE Update(t, [x EXCEPT !.st = "err"])

\* What the buffer takes of a list.
Cut(list) ==
    IF Cardinality(list) <= MaxUdpPeers THEN {list}
    ELSE {few \in SUBSET list : Cardinality(few) = MaxUdpPeers}

\* udp_announce, likewise.
UdpAnnounce(t) ==
    /\ announce[t].st = "announcing"
    /\ \E d \in announce[t].inbox :
          IF Valid(d, "announce")
          THEN \E few \in Cut(d.answer.peers) :
                  Update(t, [announce[t] EXCEPT
                                !.st = "ok", !.answer = [d.answer EXCEPT !.peers = few]])
          ELSE Update(t, [announce[t] EXCEPT !.st = "err"])

\* TIMEOUT has passed; or the name does not resolve, or a socket operation fails.
UdpFails(t) ==
    /\ announce[t].st \in {"connecting", "announcing"}
    /\ Update(t, [announce[t] EXCEPT !.st = "err"])

HttpResponses ==
    [success : BOOLEAN, dict : BOOLEAN, interval : BOOLEAN,
     peers : {"compact", "ragged", "list"}]

\* A successful status, a dictionary with an integer and a compact list of peers.
Understood(r) == r.success /\ r.dict /\ r.interval /\ r.peers = "compact"

HttpAnswer(t) ==
    /\ announce[t].st = "http"
    /\ \E r \in HttpResponses, a \in Answers :
          Update(t, IF Understood(r)
                    THEN [announce[t] EXCEPT !.st = "ok", !.answer = a]
                    ELSE [announce[t] EXCEPT !.st = "err"])

\* The URL does not parse, or the request fails.
HttpFails(t) ==
    /\ announce[t].st = "http"
    /\ Update(t, [announce[t] EXCEPT !.st = "err"])

Exchange(t) ==
    Reply(t) \/ UdpConnect(t) \/ UdpAnnounce(t) \/ UdpFails(t) \/ HttpAnswer(t) \/ HttpFails(t)

=============================================================================
