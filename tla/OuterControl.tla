---------------------------- MODULE OuterControl ----------------------------
(***************************************************************************)
(* The control connection of the outer bridge (src/src/bridge.rs): the     *)
(* bridge worker that pipelines requests and awaits their replies in order *)
(* with a deadline, the reader that routes what the presenter sends, and   *)
(* the heartbeat that probes a quiet or stalled connection.  The three     *)
(* share ControlState under one lock.                                      *)
(*                                                                         *)
(* The presenter is external and honest: it answers a request at most      *)
(* once, in any order, at any time.  It may stop answering and still send  *)
(* events and PONGs, or fall silent.  An Instant is modelled by whether    *)
(* HEARTBEAT_INTERVAL has passed since; the 5 s deadline of a wait may     *)
(* pass at any point of it.                                                *)
(***************************************************************************)
EXTENDS Naturals, Sequences, FiniteSets

CONSTANTS
    MaxPending,    \* MAX_PENDING_CONTROL_REPLIES
    MaxProbes,     \* unanswered probes before the connection is given up
    MaxRequests,   \* bound: requests issued
    MaxBatch,      \* bound: requests written before the first wait
    None           \* no value

ASSUME OuterControlAssumption ==
    /\ {MaxPending, MaxProbes, MaxRequests, MaxBatch} \subseteq Nat \ {0}
    /\ None \notin Nat
    /\ None \notin {"read", "write", "unknown", "overflow", "heartbeat"}

VARIABLES
    pending,     \* pending_requests
    abandoned,   \* abandoned_requests
    replies,     \* replies, by request
    oldest,      \* the request at whose issue oldest_pending_request was set
    closed,      \* closed: why, or None
    quiet,       \* last_inbound is HEARTBEAT_INTERVAL ago
    probe,       \* last_probe_sent: none, fresh or old
    unanswered,  \* unanswered_probes
    worker,      \* the bridge worker: where it is and what it has still to await
    next,        \* next_request
    hand,        \* the record the reader has read and not routed
    reader,      \* TRUE while the reader's thread runs
    heartbeat,   \* the heartbeat's thread
    sent,        \* external: requests the presenter has not answered
    presenter,   \* external: how the presenter behaves
    old,         \* requests issued HEARTBEAT_INTERVAL ago
    forgot       \* history: a wait was given up with abandoned_requests full

state == <<pending, abandoned, replies, oldest>>
health == <<quiet, probe, unanswered>>
world == <<sent, presenter, old>>
vars == <<state, closed, health, worker, next, hand, reader, heartbeat, world, forgot>>

Requests == 1 .. MaxRequests

\* closed.get_or_insert_with(why).
ClosedWith(why) == IF closed = None THEN why ELSE closed

\* oldest_pending_request is forgotten only with the last pending request.
OldestAfter(left) == IF left = {} THEN None ELSE oldest

----------------------------------------------------------------------------
(* The bridge worker. *)

Ready == [at |-> "ready", request |-> None, batch |-> <<>>]

\* write_record: the request is registered before it is written.
Register ==
    /\ worker.at = "ready" /\ Len(worker.batch) < MaxBatch /\ next < MaxRequests
    /\ Cardinality(pending) < MaxPending
    /\ next' = next + 1
    /\ pending' = pending \cup {next + 1}
    /\ oldest' = IF oldest = None THEN next + 1 ELSE oldest
    /\ worker' = [worker EXCEPT !.at = "send", !.request = next + 1]
    /\ UNCHANGED <<abandoned, replies, closed, health, hand, reader, heartbeat, world, forgot>>

\* write_record at the bound: the caller fails and awaits none of its batch.
RegisterRefused ==
    /\ worker.at = "ready" /\ Len(worker.batch) < MaxBatch /\ next < MaxRequests
    /\ Cardinality(pending) >= MaxPending
    /\ next' = next + 1
    /\ worker' = Ready
    /\ UNCHANGED <<state, closed, health, hand, reader, heartbeat, world, forgot>>

Send ==
    /\ worker.at = "send"
    /\ sent' = sent \cup {worker.request}
    /\ worker' = [at |-> "ready", request |-> None,
                  batch |-> Append(worker.batch, worker.request)]
    /\ UNCHANGED <<state, closed, health, next, hand, reader, heartbeat, presenter, old, forgot>>

\* The write fails: the request is no longer pending.
SendFails ==
    /\ worker.at = "send"
    /\ pending' = pending \ {worker.request}
    /\ worker' = Ready
    /\ UNCHANGED <<abandoned, replies, oldest, closed, health, next, hand, reader,
                   heartbeat, world, forgot>>

\* The batch is written and its replies are awaited in order.
Await ==
    /\ worker.at = "ready" /\ worker.batch # <<>>
    /\ worker' = [worker EXCEPT !.at = "wait"]
    /\ UNCHANGED <<state, closed, health, next, hand, reader, heartbeat, world, forgot>>

\* wait_reply_on: the reply is there.  An ERROR, or the last reply, ends the batch.
TakeReply ==
    /\ worker.at = "wait" /\ Head(worker.batch) \in replies
    /\ replies' = replies \ {Head(worker.batch)}
    /\ \/ worker' = Ready
       \/ /\ Len(worker.batch) > 1
          /\ worker' = [worker EXCEPT !.batch = Tail(@)]
    /\ UNCHANGED <<pending, abandoned, oldest, closed, health, next, hand, reader,
                   heartbeat, world, forgot>>

WaitClosed ==
    /\ worker.at = "wait" /\ Head(worker.batch) \notin replies /\ closed # None
    /\ worker' = Ready
    /\ UNCHANGED <<state, closed, health, next, hand, reader, heartbeat, world, forgot>>

\* Mutant: the request is not remembered.
WaitTimeoutForgetting ==
    /\ worker.at = "wait" /\ Head(worker.batch) \notin replies /\ closed = None
    /\ pending' = pending \ {Head(worker.batch)}
    /\ oldest' = OldestAfter(pending')
    /\ worker' = Ready
    /\ UNCHANGED <<abandoned, replies, closed, health, next, hand, reader, heartbeat,
                   world, forgot>>

\* Mutant: the request is remembered and stays pending too.
WaitTimeoutPending ==
    /\ worker.at = "wait" /\ Head(worker.batch) \notin replies /\ closed = None
    /\ Cardinality(abandoned) < MaxPending
    /\ abandoned' = abandoned \cup {Head(worker.batch)}
    /\ worker' = Ready
    /\ UNCHANGED <<pending, oldest, replies, closed, health, next, hand, reader,
                   heartbeat, world, forgot>>

\* Mutant: the wait has no deadline.
WaitTimeoutNever == FALSE /\ UNCHANGED vars

\* CONTROL_REPLY_TIMEOUT: the request is abandoned, and the batch with it.
WaitTimeout ==
    /\ worker.at = "wait" /\ Head(worker.batch) \notin replies /\ closed = None
    /\ pending' = pending \ {Head(worker.batch)}
    /\ LET room == Cardinality(abandoned) < MaxPending
       IN /\ abandoned' = IF room THEN abandoned \cup {Head(worker.batch)} ELSE abandoned
          /\ forgot' = (forgot \/ ~room)
    /\ oldest' = OldestAfter(pending')
    /\ worker' = Ready
    /\ UNCHANGED <<replies, closed, health, next, hand, reader, heartbeat, world>>

----------------------------------------------------------------------------
(* The reader. *)

\* A record is read, and in the first of two lock sections the connection is
\* found alive.
Read(record) ==
    /\ reader /\ hand = None
    /\ hand' = record
    /\ quiet' = FALSE /\ probe' = "none" /\ unanswered' = 0
    /\ UNCHANGED <<state, closed, worker, next, reader, heartbeat, presenter, old, forgot>>

\* A PONG, CREDIT or another event.
ReadEvent ==
    /\ presenter # "silent"
    /\ Read([kind |-> "event", request |-> None])
    /\ UNCHANGED sent

ReadPing ==
    /\ presenter # "silent"
    /\ Read([kind |-> "ping", request |-> None])
    /\ UNCHANGED sent

ReadReply ==
    \E r \in sent :
        /\ presenter = "answering"
        /\ Read([kind |-> "reply", request |-> r])
        /\ sent' = sent \ {r}

ReadFails ==
    /\ reader /\ hand = None
    /\ reader' = FALSE
    /\ closed' = ClosedWith("read")
    /\ UNCHANGED <<state, health, worker, next, hand, heartbeat, world, forgot>>

Routed(why) ==
    /\ hand' = None
    /\ closed' = IF why = None THEN closed ELSE ClosedWith(why)
    /\ reader' = (closed' = None)
    /\ UNCHANGED <<health, worker, next, heartbeat, world, forgot>>

RouteEvent ==
    /\ hand # None /\ hand.kind = "event"
    /\ Routed(None)
    /\ UNCHANGED state

\* PING is answered without a look at closed.
AnswerPing ==
    /\ hand # None /\ hand.kind = "ping"
    /\ hand' = None
    /\ UNCHANGED <<state, closed, health, worker, next, reader, heartbeat, world, forgot>>

AnswerPingFails ==
    /\ hand # None /\ hand.kind = "ping"
    /\ Routed("write")
    /\ UNCHANGED state

Late == hand # None /\ hand.kind = "reply" /\ hand.request \in abandoned
Expected == hand # None /\ hand.kind = "reply" /\ hand.request \in pending \ abandoned

RouteLateReply ==
    /\ Late
    /\ abandoned' = abandoned \ {hand.request}
    /\ Routed(None)
    /\ UNCHANGED <<pending, replies, oldest>>

RouteReply ==
    /\ Expected
    /\ pending' = pending \ {hand.request}
    /\ oldest' = OldestAfter(pending')
    /\ LET room == Cardinality(replies) < MaxPending
       IN /\ replies' = IF room THEN replies \cup {hand.request} ELSE replies
          /\ Routed(IF room THEN None ELSE "overflow")
    /\ UNCHANGED abandoned

\* A reply to a request nobody knows.
RouteUnknownReply ==
    /\ hand # None /\ hand.kind = "reply" /\ ~Late /\ ~Expected
    /\ Routed("unknown")
    /\ UNCHANGED state

----------------------------------------------------------------------------
(* The heartbeat. *)

Stalled == oldest # None /\ oldest \in old
Due == heartbeat = "tick" /\ closed = None /\ (quiet \/ Stalled) /\ probe # "fresh"

Probe ==
    /\ Due /\ unanswered < MaxProbes
    /\ probe' = "fresh"
    /\ unanswered' = unanswered + 1
    /\ heartbeat' = "ping"
    /\ UNCHANGED <<state, closed, quiet, worker, next, hand, reader, world, forgot>>

WritePing ==
    /\ heartbeat = "ping"
    /\ heartbeat' = "tick"
    /\ UNCHANGED <<state, closed, health, worker, next, hand, reader, world, forgot>>

WritePingFails ==
    /\ heartbeat = "ping"
    /\ heartbeat' = "gone"
    /\ closed' = ClosedWith("write")
    /\ UNCHANGED <<state, health, worker, next, hand, reader, world, forgot>>

\* Mutant: the last probe is not the last.
GiveUpNever == FALSE /\ UNCHANGED vars

GiveUp ==
    /\ Due /\ unanswered >= MaxProbes
    /\ closed' = "heartbeat"
    /\ heartbeat' = "gone"
    /\ UNCHANGED <<state, health, worker, next, hand, reader, world, forgot>>

HeartbeatEnds ==
    /\ heartbeat = "tick" /\ closed # None
    /\ heartbeat' = "gone"
    /\ UNCHANGED <<state, closed, health, worker, next, hand, reader, world, forgot>>

----------------------------------------------------------------------------
(* The presenter and the clock. *)

\* The presenter stops answering requests, or sending anything.
Degrade ==
    \E to \in {"mute", "silent"} :
        /\ presenter # "silent" /\ presenter # to
        /\ presenter' = to
        /\ UNCHANGED <<state, closed, health, worker, next, hand, reader, heartbeat, sent,
                       old, forgot>>

\* HEARTBEAT_INTERVAL has passed since the oldest request that was not yet old.
RequestAges ==
    \E r \in 1 .. next :
        /\ old = 1 .. r - 1
        /\ old' = 1 .. r
        /\ UNCHANGED <<state, closed, health, worker, next, hand, reader, heartbeat, sent,
                       presenter, forgot>>

InboundAges ==
    /\ ~quiet
    /\ quiet' = TRUE
    /\ UNCHANGED <<state, closed, probe, unanswered, worker, next, hand, reader, heartbeat,
                   world, forgot>>

\* A probe is sent after the last record was read.
ProbeAges ==
    /\ probe = "fresh" /\ quiet
    /\ probe' = "old"
    /\ UNCHANGED <<state, closed, quiet, unanswered, worker, next, hand, reader, heartbeat,
                   world, forgot>>

----------------------------------------------------------------------------

Init ==
    /\ pending = {} /\ abandoned = {} /\ replies = {} /\ oldest = None
    /\ closed = None
    /\ quiet = FALSE /\ probe = "none" /\ unanswered = 0
    /\ worker = Ready /\ next = 0
    /\ hand = None /\ reader = TRUE
    /\ heartbeat = "tick"
    /\ sent = {} /\ presenter = "answering" /\ old = {}
    /\ forgot = FALSE

WorkerWaits == Send \/ SendFails \/ Await \/ TakeReply \/ WaitClosed \/ WaitTimeout
Worker == Register \/ RegisterRefused \/ WorkerWaits
Routes ==
    \/ RouteEvent \/ AnswerPing \/ AnswerPingFails
    \/ RouteLateReply \/ RouteReply \/ RouteUnknownReply
Reader == ReadEvent \/ ReadPing \/ ReadReply \/ ReadFails \/ Routes
Heartbeat == Probe \/ WritePing \/ WritePingFails \/ GiveUp \/ HeartbeatEnds
Clock == RequestAges \/ InboundAges \/ ProbeAges

Next == Worker \/ Reader \/ Heartbeat \/ Degrade \/ Clock

Spec == Init /\ [][Next]_vars

\* The three threads run, their writes return, and time passes.  Nothing is
\* assumed of the presenter.
LiveSpec ==
    /\ Spec
    /\ WF_vars(WorkerWaits) /\ WF_vars(Routes) /\ WF_vars(Heartbeat)
    /\ WF_vars(RequestAges) /\ WF_vars(InboundAges) /\ WF_vars(ProbeAges)

----------------------------------------------------------------------------
(* Properties *)

\* Type correctness: the three tables of requests stay within their bound, and no
\* more probes go unanswered than the heartbeat allows.
TypeOK ==
    /\ \A table \in {pending, abandoned, replies} :
           table \subseteq Requests /\ Cardinality(table) <= MaxPending
    /\ oldest \in Requests \cup {None}
    /\ closed \in {None, "read", "write", "unknown", "overflow", "heartbeat"}
    /\ quiet \in BOOLEAN /\ probe \in {"none", "fresh", "old"}
    /\ unanswered \in 0 .. MaxProbes
    /\ worker.at \in {"ready", "send", "wait"}
    /\ worker.batch \in Seq(Requests) /\ Len(worker.batch) <= MaxBatch
    /\ next \in 0 .. MaxRequests /\ sent \subseteq Requests /\ old \subseteq Requests
    /\ reader \in BOOLEAN /\ heartbeat \in {"tick", "ping", "gone"} /\ forgot \in BOOLEAN
    /\ presenter \in {"answering", "mute", "silent"}

\* A presenter that answers each request once, however late, never has its
\* connection closed for a reply to a request never sent, unless more waits were
\* given up than abandoned_requests can remember.
HonestNeverClosed == closed = "unknown" => forgot

\* A request is in at most one table, and the ones the worker has still to await
\* are each pending or replied: no reply can be lost between the deadline of a
\* wait and the reader, and none is awaited that can no longer come.
RequestsAccounted ==
    /\ TypeOK
    /\ pending \cap abandoned = {} /\ pending \cap replies = {} /\ abandoned \cap replies = {}
    /\ closed = None =>
           \A i \in DOMAIN worker.batch : worker.batch[i] \in pending \cup replies

\* The bridge worker never waits for a reply for ever, whatever the presenter does.
WaitEnds == worker.at = "wait" ~> worker.at = "ready"

\* A connection on which nothing arrives any more is given up.
SilentIsClosed == presenter = "silent" ~> closed # None

\* What oldest_pending_request holds is the age of a request that is outstanding.
\* The code does not meet this: README, section 3.
OldestIsOutstanding == oldest # None => oldest \in pending

\* Liveness is per request: a connection is given up when the presenter no longer
\* answers, even if it goes on sending events.
\* The code does not meet this: README, section 3.
StalledIsClosed ==
    presenter # "answering" /\ pending # {} ~> closed # None \/ pending = {}
=============================================================================
