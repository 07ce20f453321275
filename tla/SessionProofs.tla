---------------------------- MODULE SessionProofs ----------------------------
(***************************************************************************)
(* Theorems about Session, for any trackers, peers, pieces and lists.      *)
(***************************************************************************)
EXTENDS Session, TLAPS

\* What an announce over UDP returns the tracker has answered in this exchange.
OwnAnswered(x) ==
    \E d \in x.inbox : /\ d.own /\ d.action = "announce"
                       /\ x.answer.interval = d.answer.interval
                       /\ x.answer.peers \in Cut(d.answer.peers)

\* A datagram that may pass for a list of peers holds one, and if the exchange began in a
\* second of its own only its own datagrams carry the second of its latest request.
ExchangeOK(t, x) ==
    /\ t \in Udp => x.st # "http"
    /\ \A d \in x.inbox : d.action = "announce" /\ d.whole => d.answer \in Answers
    /\ ~x.same => \A d \in x.inbox : d.now => d.own
    /\ x.st = "ok" => x.answer.interval \in Intervals
    /\ x.st # "ok" => x.answer = NoAnswer
    /\ t \in Udp /\ x.st = "ok" /\ ~x.same => OwnAnswered(x)

ExchangesOK ==
    /\ announce \in [Trackers -> Exchanges]
    /\ \A t \in Trackers : ExchangeOK(t, announce[t])

\* The reannounce task begins with the monitor, and the abort comes with the write.
TaskOK ==
    /\ aborted => main \in {"write", "returned"} /\ is_complete
    /\ re # "none" =>
          /\ main \in {"monitor", "completing", "write", "returned"}
          /\ result \in {"none", "ok", "not written"}
    /\ result # "none" => main = "returned"

\* A tracker that has been joined has answered, and its peers are among those found.
JoinedOK ==
    main = "collect" =>
        \A t \in Trackers \ tasks : Finished(t) /\ announce[t].answer.peers \subseteq found

IInv ==
    /\ TypeOK
    /\ ExchangesOK
    /\ WritesWhole
    /\ TaskOK
    /\ JoinedOK
    /\ GivesUpRightly

-----------------------------------------------------------------------------
(* Facts about exchanges *)

LEMMA AnswerFacts ==
  /\ NoAnswer.peers = {}
  /\ \A a \in Answers : a.peers \in SUBSET Peers /\ a.interval \in Intervals
  /\ \A x \in Exchanges : x.answer.peers \in SUBSET Peers
<1>. QED
  BY TrackersAssumption DEF NoAnswer, Answers, Exchanges

LEMMA IdleOK ==
  ASSUME NEW t \in Trackers
  PROVE  Idle \in Exchanges /\ ExchangeOK(t, Idle)
<1>1. NoAnswer \in [interval : Intervals \cup {0}, peers : SUBSET Peers]
  BY DEF NoAnswer
<1>. QED
  BY <1>1 DEF Idle, Exchanges, ExchangeOK

\* The clock moving on changes nothing but what carries its second.
LEMMA BeforeFacts ==
  ASSUME NEW box \in SUBSET Datagrams, NEW later \in BOOLEAN
  PROVE  /\ Before(box, later) \in SUBSET Datagrams
         /\ \A d \in Before(box, later) : \E e \in box :
               /\ d.own = e.own /\ d.action = e.action /\ d.whole = e.whole
               /\ d.answer = e.answer /\ (d.now => e.now /\ ~later)
         /\ \A e \in box : \E d \in Before(box, later) :
               d.own = e.own /\ d.action = e.action /\ d.answer = e.answer
<1>. DEFINE aged(e) == [e EXCEPT !.now = @ /\ ~later]
<1>1. Before(box, later) = {aged(e) : e \in box}
  BY DEF Before
<1>2. ASSUME NEW e \in box
      PROVE  /\ aged(e) \in Datagrams
             /\ aged(e).own = e.own /\ aged(e).action = e.action /\ aged(e).whole = e.whole
             /\ aged(e).answer = e.answer /\ (aged(e).now => e.now /\ ~later)
  BY <1>2 DEF Datagrams
<1>. HIDE DEF aged
<1>. QED
  BY <1>1, <1>2

LEMMA BeforeOK ==
  ASSUME NEW t \in Trackers, NEW x \in Exchanges, ExchangeOK(t, x), NEW later \in BOOLEAN
  PROVE  LET y == [x EXCEPT !.inbox = Before(@, later)]
         IN  /\ y \in Exchanges /\ ExchangeOK(t, y)
             /\ y.st = x.st /\ y.answer = x.answer
<1>. DEFINE y == [x EXCEPT !.inbox = Before(@, later)]
<1>1. x.inbox \in SUBSET Datagrams
  BY DEF Exchanges
<1>2. /\ Before(x.inbox, later) \in SUBSET Datagrams
      /\ \A d \in Before(x.inbox, later) : \E e \in x.inbox :
            /\ d.own = e.own /\ d.action = e.action /\ d.whole = e.whole
            /\ d.answer = e.answer /\ (d.now => e.now /\ ~later)
      /\ \A e \in x.inbox : \E d \in Before(x.inbox, later) :
            d.own = e.own /\ d.action = e.action /\ d.answer = e.answer
  BY <1>1, BeforeFacts
<1>3. /\ y \in Exchanges /\ y.inbox = Before(x.inbox, later)
      /\ y.st = x.st /\ y.same = x.same /\ y.answer = x.answer
  BY <1>2 DEF Exchanges
<1>. HIDE DEF y
<1>4. OwnAnswered(x) => OwnAnswered(y)
  BY <1>2, <1>3 DEF OwnAnswered
<1>5. ExchangeOK(t, y)
  BY <1>2, <1>3, <1>4 DEF ExchangeOK
<1>. QED
  BY <1>3, <1>5 DEF y

\* An exchange that begins in a later second owes nothing to the datagrams of others.
LEMMA BegunOK ==
  ASSUME ExchangesOK, NEW t \in Trackers, NEW late \in Late, NEW later \in BOOLEAN
  PROVE  Begun(t, late, later) \in Exchanges /\ ExchangeOK(t, Begun(t, late, later))
<1>. DEFINE y == Begun(t, late, later)
            box == {[d EXCEPT !.own = FALSE] : d \in Before(late, later)}
<1>1. /\ late \in SUBSET Datagrams
      /\ \A d \in late : d.action = "announce" /\ d.whole => d.answer \in Answers
  <2>1. CASE late = {}
    BY <2>1
  <2>2. CASE late # {}
    <3>1. PICK u \in Trackers : late = {d \in announce[u].inbox : d.own}
      BY <2>2, TrackersAssumption DEF Late
    <3>2. announce[u] \in Exchanges /\ ExchangeOK(u, announce[u])
      BY DEF ExchangesOK
    <3>. QED
      BY <3>1, <3>2 DEF Exchanges, ExchangeOK
  <2>. QED
    BY <2>1, <2>2
<1>2. /\ Before(late, later) \in SUBSET Datagrams
      /\ \A d \in Before(late, later) :
            /\ d.action = "announce" /\ d.whole => d.answer \in Answers
            /\ d.now => ~later
  <2>1. /\ Before(late, later) \in SUBSET Datagrams
        /\ \A d \in Before(late, later) : \E e \in late :
              /\ d.action = e.action /\ d.whole = e.whole
              /\ d.answer = e.answer /\ (d.now => e.now /\ ~later)
    BY <1>1, BeforeFacts
  <2>. QED
    BY <1>1, <2>1
<1>3. ASSUME NEW e \in Before(late, later)
      PROVE  LET d == [e EXCEPT !.own = FALSE]
             IN  /\ d \in Datagrams
                 /\ d.action = "announce" /\ d.whole => d.answer \in Answers
                 /\ d.now => ~later
  BY <1>2, <1>3 DEF Datagrams
<1>4. /\ box \in SUBSET Datagrams
      /\ \A d \in box : d.action = "announce" /\ d.whole => d.answer \in Answers
      /\ \A d \in box : d.now => ~later
  BY <1>3
<1>. HIDE DEF box
<1>5. /\ y.st = (IF t \in Udp THEN "connecting" ELSE "http")
      /\ y.same = ~later /\ y.inbox = box /\ y.answer = NoAnswer
  BY DEF Begun, box
<1>6. y \in Exchanges
  BY <1>4 DEF Begun, Exchanges, NoAnswer, box
<1>7. ExchangeOK(t, y)
  BY <1>4, <1>5 DEF ExchangeOK
<1>. QED
  BY <1>6, <1>7

LEMMA ClosedOK ==
  ASSUME NEW t \in Trackers, NEW x \in Exchanges, ExchangeOK(t, x)
  PROVE  /\ Closed(x) \in Exchanges /\ ExchangeOK(t, Closed(x))
         /\ Closed(x).st = "idle"
<1>1. /\ Closed(x).st = "idle" /\ Closed(x).answer = NoAnswer
      /\ Closed(x).inbox = {d \in x.inbox : d.own}
  BY DEF Closed, Exchanges
<1>2. Closed(x) \in Exchanges
  <2>1. NoAnswer \in [interval : Intervals \cup {0}, peers : SUBSET Peers]
    BY DEF NoAnswer
  <2>. QED
    BY <2>1 DEF Closed, Exchanges
<1>. QED
  BY <1>1, <1>2 DEF ExchangeOK

\* An exchange changes, and with it what others carry of the second, if a request is sent.
LEMMA UpdateOK ==
  ASSUME ExchangesOK, NEW t \in Trackers, NEW y \in Exchanges, ExchangeOK(t, y),
         Update(t, y) \/ \E later \in BOOLEAN : Send(t, y, later)
  PROVE  /\ ExchangesOK' /\ announce'[t] = y
         /\ \A u \in Trackers \ {t} : /\ announce'[u].st = announce[u].st
                                     /\ announce'[u].answer = announce[u].answer
<1>1. announce \in [Trackers -> Exchanges] /\ \A u \in Trackers : ExchangeOK(u, announce[u])
  BY DEF ExchangesOK
<1>2. CASE Update(t, y)
  BY <1>1, <1>2 DEF Update, ExchangesOK
<1>3. ASSUME NEW later \in BOOLEAN, Send(t, y, later)
      PROVE  /\ ExchangesOK' /\ announce'[t] = y
             /\ \A u \in Trackers \ {t} : /\ announce'[u].st = announce[u].st
                                         /\ announce'[u].answer = announce[u].answer
  <2>. DEFINE aged(u) == [announce[u] EXCEPT !.inbox = Before(@, later)]
  <2>1. announce' = [u \in Trackers |-> IF u = t THEN y
                                        ELSE IF Active(u) THEN announce[u] ELSE aged(u)]
    BY <1>3 DEF Send
  <2>2. \A u \in Trackers : /\ aged(u) \in Exchanges /\ ExchangeOK(u, aged(u))
                            /\ aged(u).st = announce[u].st
                            /\ aged(u).answer = announce[u].answer
    BY <1>1, BeforeOK
  <2>. HIDE DEF aged
  <2>3. /\ announce' \in [Trackers -> Exchanges]
        /\ \A u \in Trackers : ExchangeOK(u, announce'[u])
    BY <1>1, <2>1, <2>2
  <2>. QED
    BY <2>1, <2>2, <2>3 DEF ExchangesOK
<1>. QED
  BY <1>2, <1>3

\* x becomes y in a step of an exchange with t.
Follows(t, x, y) ==
    /\ y \in Exchanges
    /\ ExchangeOK(t, y)
    /\ x.st \in {"connecting", "announcing", "http"}

LEMMA ReplyOK ==
  ASSUME NEW t \in Trackers, NEW x \in Exchanges, ExchangeOK(t, x),
         x.st \in {"connecting", "announcing"},
         NEW d \in Datagrams, d.own,
         d.action = "announce" /\ d.whole => d.answer \in Answers
  PROVE  Follows(t, x, [x EXCEPT !.inbox = @ \cup {d}])
<1>. DEFINE y == [x EXCEPT !.inbox = @ \cup {d}]
<1>1. /\ y \in Exchanges /\ y.st = x.st /\ y.same = x.same
      /\ y.inbox = x.inbox \cup {d} /\ y.answer = x.answer
  BY DEF Exchanges
<1>2. ExchangeOK(t, y)
  BY <1>1 DEF ExchangeOK
<1>. QED
  BY <1>1, <1>2 DEF Follows

LEMMA FailsOK ==
  ASSUME NEW t \in Trackers, NEW x \in Exchanges, ExchangeOK(t, x),
         x.st \in {"connecting", "announcing", "http"}
  PROVE  Follows(t, x, [x EXCEPT !.st = "err"])
<1>. DEFINE y == [x EXCEPT !.st = "err"]
<1>1. /\ y \in Exchanges /\ y.st = "err" /\ y.same = x.same
      /\ y.inbox = x.inbox /\ y.answer = x.answer
  BY DEF Exchanges
<1>. QED
  BY <1>1 DEF Follows, ExchangeOK

LEMMA ConnectOK ==
  ASSUME NEW t \in Trackers, NEW x \in Exchanges, ExchangeOK(t, x), x.st = "connecting",
         NEW later \in BOOLEAN
  PROVE  Follows(t, x, [x EXCEPT !.st = "announcing", !.inbox = Before(@, later)])
<1>. DEFINE y == [x EXCEPT !.inbox = Before(@, later)]
            z == [x EXCEPT !.st = "announcing", !.inbox = Before(@, later)]
<1>1. y \in Exchanges /\ ExchangeOK(t, y) /\ y.st = "connecting"
  BY BeforeOK
<1>2. z = [y EXCEPT !.st = "announcing"]
  BY DEF Exchanges
<1>. HIDE DEF y, z
<1>3. /\ z \in Exchanges /\ z.st = "announcing" /\ z.same = y.same
      /\ z.inbox = y.inbox /\ z.answer = y.answer
  BY <1>1, <1>2 DEF Exchanges
<1>4. ExchangeOK(t, z)
  BY <1>1, <1>3 DEF ExchangeOK
<1>. QED
  BY <1>3, <1>4 DEF Follows, z

\* The datagram that passes for the answer is the tracker's.
LEMMA AnswerOK ==
  ASSUME NEW t \in Trackers, NEW x \in Exchanges, ExchangeOK(t, x), x.st = "announcing",
         NEW d \in x.inbox, Valid(d, "announce"), NEW few \in Cut(d.answer.peers)
  PROVE  Follows(t, x, [x EXCEPT !.st = "ok", !.answer = [d.answer EXCEPT !.peers = few]])
<1>. DEFINE a == [d.answer EXCEPT !.peers = few]
            y == [x EXCEPT !.st = "ok", !.answer = a]
<1>1. d.answer \in Answers /\ (~x.same => d.own) /\ d.action = "announce"
  BY DEF ExchangeOK, Valid
<1>2. few \in SUBSET d.answer.peers
  BY DEF Cut
<1>3. d.answer.interval \in Intervals /\ d.answer.peers \in SUBSET Peers
  BY <1>1, AnswerFacts
<1>4. a.interval = d.answer.interval /\ a.peers = few /\ DOMAIN a = {"interval", "peers"}
      /\ a \in [interval : Intervals \cup {0}, peers : SUBSET Peers]
  BY <1>1, <1>2, <1>3 DEF Answers
<1>. HIDE DEF a
<1>5. /\ y \in Exchanges /\ y.st = "ok" /\ y.same = x.same
      /\ y.inbox = x.inbox /\ y.answer = a
  BY <1>4 DEF Exchanges
<1>. HIDE DEF y
<1>6. ~x.same => OwnAnswered(y)
  BY <1>1, <1>4, <1>5 DEF OwnAnswered
<1>7. ExchangeOK(t, y)
  BY <1>3, <1>4, <1>5, <1>6 DEF ExchangeOK
<1>. QED
  BY <1>5, <1>7 DEF Follows, a, y

LEMMA HttpOK ==
  ASSUME NEW t \in Trackers, NEW x \in Exchanges, ExchangeOK(t, x), x.st = "http",
         NEW a \in Answers
  PROVE  Follows(t, x, [x EXCEPT !.st = "ok", !.answer = a])
<1>. DEFINE y == [x EXCEPT !.st = "ok", !.answer = a]
<1>1. a \in [interval : Intervals \cup {0}, peers : SUBSET Peers] /\ a.interval \in Intervals
  BY TrackersAssumption DEF Answers
<1>2. /\ y \in Exchanges /\ y.st = "ok" /\ y.same = x.same
      /\ y.inbox = x.inbox /\ y.answer = a
  BY <1>1 DEF Exchanges
<1>. QED
  BY <1>1, <1>2 DEF Follows, ExchangeOK

\* Every step of an exchange.
LEMMA ExchangeStep ==
  ASSUME ExchangesOK, NEW t \in Trackers, Exchange(t)
  PROVE  \E y : /\ Follows(t, announce[t], y)
                /\ Update(t, y) \/ \E later \in BOOLEAN : Send(t, y, later)
<1>. DEFINE x == announce[t]
<1>0. x \in Exchanges /\ ExchangeOK(t, x)
  BY DEF ExchangesOK
<1>1. CASE Reply(t)
  <2>1. PICK d \in Replies(t) : Update(t, [x EXCEPT !.inbox = @ \cup {d}])
    BY <1>1 DEF Reply
  <2>2. x.st \in {"connecting", "announcing"}
    BY <1>1 DEF Reply
  <2>3. /\ d \in Datagrams /\ d.own
        /\ d.action = "announce" /\ d.whole => d.answer \in Answers
    <3>. DEFINE reply(action, whole, a) ==
                  [own |-> TRUE, now |-> TRUE, to |-> x.st, action |-> action,
                   whole |-> whole, answer |-> a]
    <3>1. \/ d = reply("error", TRUE, NoAnswer)
          \/ \E w \in BOOLEAN : d = reply("connect", w, NoAnswer)
          \/ d = reply("announce", FALSE, NoAnswer)
          \/ \E a \in Answers : d = reply("announce", TRUE, a)
      BY <2>1, <2>2 DEF Replies
    <3>2. CASE \E a \in Answers : d = reply("announce", TRUE, a)
      BY <2>2, <3>2 DEF Datagrams
    <3>3. CASE \E w \in BOOLEAN : d = reply("connect", w, NoAnswer)
      BY <2>2, <3>3 DEF Datagrams
    <3>4. CASE d = reply("error", TRUE, NoAnswer)
      BY <2>2, <3>4 DEF Datagrams
    <3>5. CASE d = reply("announce", FALSE, NoAnswer)
      BY <2>2, <3>5 DEF Datagrams
    <3>. QED
      BY <3>1, <3>2, <3>3, <3>4, <3>5
  <2>. QED
    BY <1>0, <2>1, <2>2, <2>3, ReplyOK
<1>2. CASE UdpConnect(t)
  <2>1. PICK d \in x.inbox, later \in BOOLEAN :
           IF Valid(d, "connect")
           THEN Send(t, [x EXCEPT !.st = "announcing", !.inbox = Before(@, later)], later)
           ELSE Update(t, [x EXCEPT !.st = "err"])
    BY <1>2 DEF UdpConnect
  <2>2. x.st = "connecting"
    BY <1>2 DEF UdpConnect
  <2>. QED
    BY <1>0, <2>1, <2>2, ConnectOK, FailsOK
<1>3. CASE UdpAnnounce(t)
  <2>1. x.st = "announcing"
    BY <1>3 DEF UdpAnnounce
  <2>2. PICK d \in x.inbox :
           IF Valid(d, "announce")
           THEN \E few \in Cut(d.answer.peers) :
                   Update(t, [x EXCEPT !.st = "ok", !.answer = [d.answer EXCEPT !.peers = few]])
           ELSE Update(t, [x EXCEPT !.st = "err"])
    BY <1>3 DEF UdpAnnounce
  <2>3. CASE Valid(d, "announce")
    BY <1>0, <2>1, <2>2, <2>3, AnswerOK
  <2>4. CASE ~Valid(d, "announce")
    BY <1>0, <2>1, <2>2, <2>4, FailsOK
  <2>. QED
    BY <2>3, <2>4
<1>4. CASE UdpFails(t) \/ HttpFails(t)
  BY <1>0, <1>4, FailsOK DEF UdpFails, HttpFails
<1>5. CASE HttpAnswer(t)
  <2>1. x.st = "http"
    BY <1>5 DEF HttpAnswer
  <2>2. PICK r \in HttpResponses, a \in Answers :
           Update(t, IF Understood(r)
                     THEN [x EXCEPT !.st = "ok", !.answer = a]
                     ELSE [x EXCEPT !.st = "err"])
    BY <1>5 DEF HttpAnswer
  <2>. QED
    BY <1>0, <2>1, <2>2, HttpOK, FailsOK
<1>. QED
  BY <1>1, <1>2, <1>3, <1>4, <1>5 DEF Exchange

-----------------------------------------------------------------------------
(* The invariant *)

LEMMA InitIInv == Init => IInv
<1>. SUFFICES ASSUME Init PROVE IInv
  OBVIOUS
<1>1. ExchangesOK
  BY IdleOK DEF Init, ExchangesOK
<1>2. TypeOK
  BY <1>1 DEF Init, TypeOK, ExchangesOK
<1>. QED
  BY <1>1, <1>2 DEF Init, IInv, WritesWhole, TaskOK, JoinedOK, GivesUpRightly

\* The invariant depends on the exchanges only through their states and answers.
LEMMA SameAnnounce ==
  ASSUME IInv, UNCHANGED announce
  PROVE  /\ ExchangesOK'
         /\ \A t \in Trackers : Finished(t)' <=> Finished(t)
<1>. QED
  BY DEF IInv, ExchangesOK, Finished

\* A step of an exchange changes only an exchange that is under way.
LEMMA TrackerStepIInv ==
  ASSUME IInv, NEW t \in Trackers, TrackerStep(t)
  PROVE  IInv'
<1>1. ExchangesOK
  BY DEF IInv
<1>2. PICK y : /\ Follows(t, announce[t], y)
               /\ Update(t, y) \/ \E later \in BOOLEAN : Send(t, y, later)
  BY <1>1, ExchangeStep DEF TrackerStep
<1>3. UNCHANGED <<main, result, tasks, found, re, interval, aborted, working, kept>>
  BY DEF TrackerStep, mainVars, reVars
<1>4. /\ ExchangesOK'
      /\ \A s \in Trackers \ {t} : /\ announce'[s].st = announce[s].st
                                  /\ announce'[s].answer = announce[s].answer
  BY <1>1, <1>2, UpdateOK DEF Follows
<1>5. \A s \in Trackers : Finished(s) => Finished(s)' /\ announce'[s].answer = announce[s].answer
  BY <1>2, <1>4 DEF Finished, Follows
<1>6. TypeOK' /\ WritesWhole' /\ TaskOK'
  BY <1>3, <1>4 DEF IInv, ExchangesOK, TypeOK, WritesWhole, TaskOK, is_complete
<1>7. JoinedOK' /\ GivesUpRightly'
  BY <1>3, <1>5 DEF IInv, JoinedOK, GivesUpRightly
<1>. QED
  BY <1>4, <1>6, <1>7 DEF IInv

\* The steps of the session that begin no exchange and end none.
LEMMA MainIInv ==
  ASSUME IInv,
         \/ AnnouncedFile \/ JoinNone \/ FetchMetadata
         \/ SeeComplete \/ AnnounceCompletion \/ WriteFile
  PROVE  IInv'
<1>1. UNCHANGED <<announce, tasks, re, working, kept>>
  BY DEF AnnouncedFile, JoinNone, FetchMetadata, SeeComplete, AnnounceCompletion, WriteFile,
         reVars
<1>2. ExchangesOK' /\ \A t \in Trackers : Finished(t)' <=> Finished(t)
  BY <1>1, SameAnnounce
<1>3. CASE AnnouncedFile
  <2>1. announce[First] \in Exchanges /\ ExchangeOK(First, announce[First])
    BY SessionAssumption DEF IInv, ExchangesOK
  <2>2. announce[First].st = "ok" =>
           /\ announce[First].answer.peers \subseteq Peers
           /\ announce[First].answer.interval \in Intervals
    BY <2>1, AnswerFacts DEF ExchangeOK
  <2>3. UNCHANGED aborted /\ main = "announce"
    BY <1>3 DEF AnnouncedFile
  <2>4. \/ announce[First].st = "ok" /\ main' = "connect" /\ result' = result
           /\ found' = announce[First].answer.peers
           /\ interval' = announce[First].answer.interval
        \/ main' = "returned" /\ result' = "announce failed" /\ UNCHANGED <<found, interval>>
    BY <1>3 DEF AnnouncedFile, Return
  <2>. QED
    BY <1>1, <1>2, <2>2, <2>3, <2>4
    DEF IInv, TypeOK, WritesWhole, TaskOK, JoinedOK, GivesUpRightly, is_complete
<1>4. CASE JoinNone
  <2>1. /\ main = "collect" /\ tasks = {}
        /\ UNCHANGED <<found, interval, aborted>>
        /\ \/ found = {} /\ main' = "returned" /\ result' = "no peers"
           \/ main' = "fetch" /\ result' = result
    BY <1>4 DEF JoinNone, Return, reVars
  <2>2. found = {} => \A t \in Trackers : Finished(t) /\ announce[t].answer.peers = {}
    BY <2>1 DEF IInv, JoinedOK
  <2>. QED
    BY <1>1, <1>2, <2>1, <2>2
    DEF IInv, TypeOK, WritesWhole, TaskOK, JoinedOK, GivesUpRightly, is_complete
<1>5. CASE FetchMetadata
  BY <1>1, <1>2, <1>5
  DEF FetchMetadata, Return, reVars,
      IInv, TypeOK, WritesWhole, TaskOK, JoinedOK, GivesUpRightly, is_complete
<1>6. CASE SeeComplete
  BY <1>1, <1>2, <1>6
  DEF SeeComplete, reVars,
      IInv, TypeOK, WritesWhole, TaskOK, JoinedOK, GivesUpRightly, is_complete
<1>7. CASE AnnounceCompletion
  BY <1>1, <1>2, <1>7
  DEF AnnounceCompletion, reVars,
      IInv, TypeOK, WritesWhole, TaskOK, JoinedOK, GivesUpRightly, is_complete
<1>8. CASE WriteFile
  BY <1>1, <1>2, <1>8
  DEF WriteFile, Return, reVars,
      IInv, TypeOK, WritesWhole, TaskOK, JoinedOK, GivesUpRightly, is_complete
<1>. QED
  BY <1>3, <1>4, <1>5, <1>6, <1>7, <1>8

\* The session announces, and goes on to connect.
LEMMA BeginIInv ==
  ASSUME IInv, AnnounceFile \/ AnnounceMagnet \/ ConnectInitial
  PROVE  IInv'
<1>1. /\ ExchangesOK /\ First \in Trackers /\ {} \in Late
      /\ \A t \in Trackers : announce[t] \in Exchanges /\ ExchangeOK(t, announce[t])
  BY SessionAssumption DEF IInv, ExchangesOK, Late
<1>2. CASE AnnounceFile
  <2>1. Update(First, Begun(First, {}, TRUE))
    BY <1>2 DEF AnnounceFile
  <2>2. ExchangesOK'
    BY <1>1, <2>1, BegunOK, UpdateOK
  <2>. QED
    BY <1>2, <2>2
    DEF AnnounceFile, reVars, ExchangesOK,
        IInv, TypeOK, WritesWhole, TaskOK, JoinedOK, GivesUpRightly, is_complete
<1>3. CASE AnnounceMagnet
  <2>1. announce' = [t \in Trackers |-> Begun(t, {}, TRUE)]
    BY <1>3 DEF AnnounceMagnet
  <2>2. ExchangesOK'
    BY <1>1, <2>1, BegunOK DEF ExchangesOK
  <2>. QED
    BY <1>3, <2>2
    DEF AnnounceMagnet, reVars, ExchangesOK,
        IInv, TypeOK, WritesWhole, TaskOK, JoinedOK, GivesUpRightly, is_complete
<1>4. CASE ConnectInitial
  <2>1. announce' = [t \in Trackers |-> Closed(announce[t])]
    BY <1>4 DEF ConnectInitial
  <2>2. ExchangesOK'
    BY <1>1, <2>1, ClosedOK DEF ExchangesOK
  <2>. QED
    BY <1>4, <2>2
    DEF ConnectInitial, ExchangesOK,
        IInv, TypeOK, WritesWhole, TaskOK, JoinedOK, GivesUpRightly, is_complete
<1>. QED
  BY <1>2, <1>3, <1>4

LEMMA JoinIInv ==
  ASSUME IInv, NEW t \in Trackers, Join(t)
  PROVE  IInv'
<1>. DEFINE x == announce[t]
<1>1. /\ announce \in [Trackers -> Exchanges]
      /\ \A s \in Trackers : announce[s] \in Exchanges /\ ExchangeOK(s, announce[s])
  BY DEF IInv, ExchangesOK
<1>2. /\ main = "collect" /\ t \in tasks /\ Finished(t)
      /\ found' = IF x.st = "ok" THEN found \cup x.answer.peers ELSE found
      /\ interval' = IF x.st = "ok" /\ x.answer.peers # {} THEN x.answer.interval ELSE interval
      /\ UNCHANGED <<result, re, aborted, working, kept>>
  BY DEF Join
<1>3. \/ /\ main' = "fetch" /\ tasks' = {}
         /\ announce' = [s \in Trackers |->
                            IF s \in tasks \ {t} THEN Closed(announce[s]) ELSE announce[s]]
      \/ main' = "collect" /\ tasks' = tasks \ {t} /\ announce' = announce
  BY <1>2 DEF Join
<1>4. ExchangesOK'
  <2>1. \A s \in Trackers : Closed(announce[s]) \in Exchanges /\ ExchangeOK(s, Closed(announce[s]))
    BY <1>1, ClosedOK
  <2>. QED
    BY <1>1, <1>3, <2>1 DEF ExchangesOK
<1>5. /\ x.answer.peers \subseteq found'
      /\ x.answer.peers \subseteq Peers
      /\ x.st = "ok" => x.answer.interval \in Intervals
  BY <1>1, <1>2, AnswerFacts DEF ExchangeOK
<1>6. TypeOK'
  BY <1>2, <1>3, <1>4, <1>5 DEF IInv, TypeOK, ExchangesOK
<1>7. WritesWhole' /\ TaskOK' /\ GivesUpRightly'
  BY <1>2, <1>3 DEF IInv, WritesWhole, TaskOK, GivesUpRightly, is_complete
<1>8. JoinedOK'
  <2>. SUFFICES ASSUME main' = "collect", NEW s \in Trackers, s \notin tasks'
                PROVE  Finished(s)' /\ announce'[s].answer.peers \subseteq found'
    BY DEF JoinedOK
  <2>1. announce' = announce /\ tasks' = tasks \ {t} /\ found \subseteq found'
    BY <1>2, <1>3
  <2>2. CASE s = t
    BY <1>2, <1>5, <2>1, <2>2 DEF Finished
  <2>3. CASE s # t
    BY <1>2, <2>1, <2>3 DEF IInv, JoinedOK, Finished
  <2>. QED
    BY <2>2, <2>3
<1>. QED
  BY <1>4, <1>6, <1>7, <1>8 DEF IInv

\* What a step of the reannounce task does to the exchanges.
LEMMA ReAnnounce ==
  ASSUME IInv, ReStep
  PROVE  \/ announce' = announce
         \/ Update(First, Closed(announce[First]))
         \/ /\ re = "begin" /\ re' = "announce"
            /\ \E late \in Late, later \in BOOLEAN : Send(First, Begun(First, late, later), later)
<1>1. CASE Wake \/ CheckComplete
  BY <1>1 DEF Wake, CheckComplete
<1>2. CASE Reannounce
  BY <1>2 DEF Reannounce
<1>3. CASE Reannounced \/ ConnectNew \/ Dropped
  BY <1>3 DEF Reannounced, ConnectNew, Dropped
<1>. QED
  BY <1>1, <1>2, <1>3 DEF ReStep

LEMMA ReIInv ==
  ASSUME IInv, ReStep
  PROVE  IInv'
<1>. DEFINE x == announce[First]
<1>1. ExchangesOK /\ First \in Trackers /\ x \in Exchanges /\ ExchangeOK(First, x)
  BY SessionAssumption DEF IInv, ExchangesOK
<1>2. UNCHANGED <<main, result, tasks, found, aborted, kept>> /\ re # "none"
  BY DEF ReStep, Wake, CheckComplete, Reannounce, Reannounced, ConnectNew, Dropped, mainVars
<1>3. ExchangesOK'
  <2>1. CASE announce' = announce
    BY <2>1, SameAnnounce
  <2>2. CASE Update(First, Closed(x))
    BY <1>1, <2>2, ClosedOK, UpdateOK
  <2>3. ASSUME NEW late \in Late, NEW later \in BOOLEAN,
               Send(First, Begun(First, late, later), later)
        PROVE  ExchangesOK'
    BY <1>1, <2>3, BegunOK, UpdateOK
  <2>. QED
    BY <2>1, <2>2, <2>3, ReAnnounce
<1>4. x.answer.peers \subseteq Peers /\ (x.st = "ok" => x.answer.interval \in Intervals)
  BY <1>1, AnswerFacts DEF ExchangeOK
<1>5. interval' \in Intervals \cup {DefaultInterval}
  BY <1>4
  DEF ReStep, Wake, CheckComplete, Reannounce, Reannounced, ConnectNew, Dropped, IInv, TypeOK
<1>6. working' \subseteq Peers
  BY <1>4
  DEF ReStep, Wake, CheckComplete, Reannounce, Reannounced, ConnectNew, Dropped, IInv, TypeOK
<1>7. re' \in {"sleep", "check", "begin", "announce", "connect", "ended"}
  BY DEF ReStep, Wake, CheckComplete, Reannounce, Reannounced, ConnectNew, Dropped
<1>8. TypeOK'
  BY <1>2, <1>3, <1>5, <1>6, <1>7 DEF IInv, TypeOK, ExchangesOK
<1>9. WritesWhole' /\ TaskOK' /\ JoinedOK' /\ GivesUpRightly'
  BY <1>2 DEF IInv, WritesWhole, TaskOK, JoinedOK, GivesUpRightly, is_complete
<1>. QED
  BY <1>3, <1>8, <1>9 DEF IInv

LEMMA WorkersIInv ==
  ASSUME IInv, PieceArrives \/ \E q \in Peers : PeerLeaves(q)
  PROVE  IInv'
<1>1. /\ UNCHANGED <<announce, main, result, tasks, found, re, interval, aborted>>
      /\ working' \subseteq working
  BY DEF PieceArrives, PeerLeaves, mainVars, reVars
<1>2. /\ kept' \in [Pieces -> {"missing", "good"}]
      /\ is_complete => is_complete'
  <2>1. CASE PieceArrives
    <3>1. PICK p \in Pieces : kept' = [kept EXCEPT ![p] = "good"]
      BY <2>1 DEF PieceArrives, Download!Keep
    <3>. QED
      BY <3>1 DEF IInv, TypeOK, is_complete
  <2>2. CASE UNCHANGED kept
    BY <2>2 DEF IInv, TypeOK, is_complete
  <2>. QED
    BY <2>1, <2>2 DEF PeerLeaves
<1>3. ExchangesOK' /\ \A t \in Trackers : Finished(t)' <=> Finished(t)
  BY <1>1, SameAnnounce
<1>. QED
  BY <1>1, <1>2, <1>3 DEF IInv, TypeOK, WritesWhole, TaskOK, JoinedOK, GivesUpRightly

LEMMA NextIInv == IInv /\ [Next]_vars => IInv'
<1>. SUFFICES ASSUME IInv, [Next]_vars PROVE IInv'
  OBVIOUS
<1>1. CASE MainStep
  BY <1>1, MainIInv, BeginIInv, JoinIInv DEF MainStep
<1>2. CASE ReStep
  BY <1>2, ReIInv
<1>3. CASE PieceArrives \/ \E q \in Peers : PeerLeaves(q)
  BY <1>3, WorkersIInv
<1>4. CASE \E t \in Trackers : TrackerStep(t)
  BY <1>4, TrackerStepIInv
<1>5. CASE UNCHANGED vars
  <2>1. ExchangesOK' /\ \A t \in Trackers : Finished(t)' <=> Finished(t)
    BY <1>5, SameAnnounce DEF vars
  <2>. QED
    BY <1>5, <2>1
    DEF vars, IInv, TypeOK, WritesWhole, TaskOK, JoinedOK, GivesUpRightly, is_complete
<1>. QED
  BY <1>1, <1>2, <1>3, <1>4, <1>5 DEF Next

LEMMA SpecIInv == Spec => []IInv
<1>. QED
  BY InitIInv, NextIInv, PTL DEF Spec

-----------------------------------------------------------------------------
(* Theorems *)

\* Every variable keeps its type, for any trackers, peers, pieces and intervals.
THEOREM SessionTypeCorrect == Spec => []TypeOK
<1>1. IInv => TypeOK
  BY DEF IInv
<1>. QED
  BY <1>1, SpecIInv, PTL

\* An announce over UDP that begins in a second of its own returns what the tracker has
\* answered in the same exchange, as far as it fits into the buffer, whatever datagrams
\* are lost, late, repeated, too short or errors, for any trackers, intervals and lists.
THEOREM AnswersAreOwn == Spec => []OwnAnswer
<1>1. IInv => OwnAnswer
  BY TrackersAssumption DEF IInv, ExchangesOK, ExchangeOK, OwnAnswered, OwnAnswer
<1>. QED
  BY <1>1, SpecIInv, PTL

\* From the end of the monitor to the write the download stays complete.
THEOREM WritesWholeDownload == Spec => []WritesWhole
<1>1. IInv => WritesWhole
  BY DEF IInv
<1>. QED
  BY <1>1, SpecIInv, PTL

\* A magnet link gives up only when every tracker has answered, none with a peer.
THEOREM MagnetGivesUpRightly == Spec => []GivesUpRightly
<1>1. IInv => GivesUpRightly
  BY DEF IInv
<1>. QED
  BY <1>1, SpecIInv, PTL

\* After the abort the download is complete, so that no check lets an announce begin.
LEMMA QuietTask ==
  ASSUME IInv, Next, aborted, re' = "begin"
  PROVE  re = "begin"
<1>1. main \in {"write", "returned"} /\ is_complete
  BY DEF IInv, TaskOK
<1>2. CASE MainStep
  BY <1>1, <1>2
  DEF MainStep, AnnounceFile, AnnouncedFile, AnnounceMagnet, JoinNone, FetchMetadata, Join,
      ConnectInitial, SeeComplete, AnnounceCompletion, WriteFile, reVars
<1>3. CASE ReStep
  BY <1>1, <1>3
  DEF ReStep, Wake, CheckComplete, Reannounce, Reannounced, ConnectNew, Dropped
<1>4. CASE PieceArrives \/ \E q \in Peers : PeerLeaves(q)
  BY <1>4 DEF PieceArrives, PeerLeaves, reVars
<1>5. CASE \E t \in Trackers : TrackerStep(t)
  BY <1>5 DEF TrackerStep, reVars
<1>. QED
  BY <1>2, <1>3, <1>4, <1>5 DEF Next

\* The only announce that may begin is that of a task that has passed its check.
LEMMA QuietExchange ==
  ASSUME IInv, Next, aborted, NEW t \in Trackers, Active(t)'
  PROVE  Active(t) \/ (t = First /\ re = "begin" /\ re' = "announce")
<1>1. /\ main \in {"write", "returned"} /\ ExchangesOK /\ First \in Trackers
      /\ \A u \in Trackers : announce[u] \in Exchanges /\ ExchangeOK(u, announce[u])
  BY SessionAssumption DEF IInv, TaskOK, ExchangesOK
<1>2. CASE UNCHANGED announce
  BY <1>2 DEF Active
<1>3. CASE MainStep
  <2>1. UNCHANGED announce
    BY <1>1, <1>3
    DEF MainStep, AnnounceFile, AnnouncedFile, AnnounceMagnet, JoinNone, FetchMetadata, Join,
        ConnectInitial, SeeComplete, AnnounceCompletion, WriteFile
  <2>. QED
    BY <1>2, <2>1
<1>4. CASE ReStep
  <2>1. CASE Update(First, Closed(announce[First]))
    <3>1. /\ announce'[First].st = "idle"
          /\ \A u \in Trackers \ {First} : announce'[u].st = announce[u].st
      BY <1>1, <2>1, ClosedOK, UpdateOK
    <3>. QED
      BY <3>1 DEF Active
  <2>2. ASSUME re = "begin", re' = "announce",
               NEW late \in Late, NEW later \in BOOLEAN,
               Send(First, Begun(First, late, later), later)
        PROVE  Active(t) \/ (t = First /\ re = "begin" /\ re' = "announce")
    <3>1. \A u \in Trackers \ {First} : announce'[u].st = announce[u].st
      BY <1>1, <2>2, BegunOK, UpdateOK
    <3>. QED
      BY <2>2, <3>1 DEF Active
  <2>. QED
    BY <1>2, <1>4, <2>1, <2>2, ReAnnounce
<1>5. CASE PieceArrives \/ \E q \in Peers : PeerLeaves(q)
  BY <1>2, <1>5 DEF PieceArrives, PeerLeaves
<1>6. ASSUME NEW s \in Trackers, TrackerStep(s)
      PROVE  Active(t)
  <2>1. PICK y : /\ Follows(s, announce[s], y)
                 /\ Update(s, y) \/ \E later \in BOOLEAN : Send(s, y, later)
    BY <1>1, <1>6, ExchangeStep DEF TrackerStep
  <2>2. \A u \in Trackers \ {s} : announce'[u].st = announce[u].st
    BY <1>1, <2>1, UpdateOK DEF Follows
  <2>. QED
    BY <2>1, <2>2 DEF Follows, Active
<1>. QED
  BY <1>3, <1>4, <1>5, <1>6 DEF Next

\* From the abort on no check lets an announce begin, and none begins but one whose check
\* came before, for any trackers and wherever the task is when it is aborted.
THEOREM QuietAfterAbortHolds == Spec => QuietAfterAbort
<1>1. IInv /\ [Next]_vars =>
         [aborted =>
             /\ re' = "begin" => re = "begin"
             /\ \A t \in Trackers :
                   Active(t)' =>
                      Active(t) \/ (t = First /\ re = "begin" /\ re' = "announce")]_vars
  BY QuietTask, QuietExchange
<1>. QED
  BY <1>1, SpecIInv, PTL DEF Spec, QuietAfterAbort

=============================================================================
