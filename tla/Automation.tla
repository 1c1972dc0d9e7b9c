----------------------------- MODULE Automation -----------------------------
(***************************************************************************)
(* Automation requests (vvmux msg) from the moment a connection's reader   *)
(* thread hands one to the session actor until its answer is written:      *)
(* admission, the waits that stay open, the input that a worker thread     *)
(* watches, deadlines, lost connections, and the bounded response queue    *)
(* with its writer threads (src/src/session.rs, src/src/server.rs).        *)
(*                                                                         *)
(* Abstractions.  A method is its kind: "quick" is answered by its         *)
(* handler, "close" too after it closed the pane, "input" waits for the    *)
(* pane's PTY writer, "screen" stands for the waits on a pane's screen,    *)
(* "exit" for the wait for its process, and "free" for the waits that do   *)
(* not depend on the pane being alive (media, media trace, rendered).      *)
(* Whether a condition holds yet, and whether a deadline has passed, is    *)
(* chosen freely; that a pane is gone is not.  Every request carries the   *)
(* number it was sent as, which the code does not have: it tells apart two *)
(* uses of one identifier.  Pane identifiers are never reused and the      *)
(* session keeps another pane, so that its actor goes on.                  *)
(***************************************************************************)
EXTENDS Integers, Sequences, FiniteSets

CONSTANTS
    Conns,          \* connections
    Ids,            \* request identifiers, chosen by the client
    Panes,
    Responders,     \* response writer threads
    MaxPerClient,   \* MAX_AUTOMATION_REQUESTS_PER_CLIENT
    MaxWaiters,     \* MAX_AUTOMATION_WAITERS
    MaxPending,     \* MAX_PENDING_ACTOR_WORK
    ResponseCap,    \* AUTOMATION_RESPONSE_QUEUE
    MaxRequests     \* bound: requests ever sent

ASSUME AutomationAssumption ==
    /\ MaxPerClient \in Nat \ {0}
    /\ MaxWaiters \in Nat
    /\ MaxPending \in Nat
    /\ ResponseCap \in Nat \ {0}
    /\ MaxRequests \in Nat

VARIABLES
    conn,                 \* state of each connection
    sent,                 \* requests sent so far
    events,               \* the actor's event queue
    panes,                \* live panes
    procs,                \* panes whose process exit was not reported yet
    exit_tombstones,      \* panes whose exit status is retained
    automation_inflight,  \* {<<connection, id>>}
    automation_waiters,   \* open waits, oldest first
    pending_actor_work,   \* {<<connection, id>>}
    workers,              \* requests that a worker thread watches
    outbox,               \* answers the current handler has still to queue
    response_queue,
    responder,            \* the answer each writer thread holds
    answers,              \* answers made, per request
    delivered             \* requests whose answer was written

vars == <<conn, sent, events, panes, procs, exit_tombstones, automation_inflight,
          automation_waiters, pending_actor_work, workers, outbox, response_queue,
          responder, answers, delivered>>

Kinds == {"quick", "close", "input", "screen", "exit", "free"}
Requests == [type : {"request"}, conn : Conns, id : Ids, kind : Kinds, pane : Panes,
             serial : 1 .. MaxRequests]
Events == Requests
          \cup [type : {"input_complete"}, request : Requests]
          \cup [type : {"disconnected"}, conn : Conns]
          \cup [type : {"pty_exit"}, pane : Panes]
Answers == [conn : Conns, serial : 1 .. MaxRequests]
NoJob == [serial |-> 0]

Key(r) == <<r.conn, r.id>>
Answer(r) == [conn |-> r.conn, serial |-> r.serial]

----------------------------------------------------------------------------
(* Connections: the reader thread of server::handle_client. *)

\* A request reaches the actor's queue.  Bytes that arrived before a cancelled
\* connection was shut down are still read.
Send(c, id, kind, p) ==
    /\ conn[c] \in {"open", "cancelled"}
    /\ sent < MaxRequests
    /\ sent' = sent + 1
    /\ events' = Append(events, [type |-> "request", conn |-> c, id |-> id, kind |-> kind,
                                 pane |-> p, serial |-> sent + 1])
    /\ UNCHANGED <<conn, panes, procs, exit_tombstones, automation_inflight,
                   automation_waiters, pending_actor_work, workers, outbox,
                   response_queue, responder, answers, delivered>>

CloseConn(c) ==
    /\ conn[c] = "open"
    /\ conn' = [conn EXCEPT ![c] = "closed"]
    /\ UNCHANGED <<sent, events, panes, procs, exit_tombstones, automation_inflight,
                   automation_waiters, pending_actor_work, workers, outbox,
                   response_queue, responder, answers, delivered>>

\* The reader's loop ends; Disconnected is the last event it sends.
ReaderEnds(c) ==
    /\ conn[c] \in {"closed", "cancelled"}
    /\ conn' = [conn EXCEPT ![c] = "gone"]
    /\ events' = Append(events, [type |-> "disconnected", conn |-> c])
    /\ UNCHANGED <<sent, panes, procs, exit_tombstones, automation_inflight,
                   automation_waiters, pending_actor_work, workers, outbox,
                   response_queue, responder, answers, delivered>>

\* The thread that waits for a pane's process.
ProcessExits(p) ==
    /\ p \in procs
    /\ procs' = procs \ {p}
    /\ events' = Append(events, [type |-> "pty_exit", pane |-> p])
    /\ UNCHANGED <<conn, sent, panes, exit_tombstones, automation_inflight,
                   automation_waiters, pending_actor_work, workers, outbox,
                   response_queue, responder, answers, delivered>>

\* The worker of an input request: the PTY writer answered, failed, closed, or
\* five seconds went by.
WorkerDone(r) ==
    /\ r \in workers
    /\ workers' = workers \ {r}
    /\ events' = Append(events, [type |-> "input_complete", request |-> r])
    /\ UNCHANGED <<conn, sent, panes, procs, exit_tombstones, automation_inflight,
                   automation_waiters, pending_actor_work, outbox, response_queue,
                   responder, answers, delivered>>

----------------------------------------------------------------------------
(* The actor.  A handler ends with check_automation_waiters and then queues *)
(* its answers, before the next event is looked at.                         *)

Keys(rs) == {Key(r) : r \in rs}

WaiterSet(ws) == {ws[i] : i \in DOMAIN ws}

\* The waits of ws that are in S, in their order: a loop takes the list and pushes
\* back what it keeps.
Only(ws, S) ==
    LET kept[i \in 0 .. Len(ws)] ==
            IF i = 0 THEN <<>>
            ELSE IF ws[i] \in S THEN Append(kept[i - 1], ws[i]) ELSE kept[i - 1]
    IN  kept[Len(ws)]

\* automation_waiter_result answers these when their pane is gone, an exit wait
\* with the retained status or an error.
NeedsPane(w) == w.kind \in {"screen", "exit"}

\* The answers made so far, those of this event included.
Counted(out) ==
    [s \in DOMAIN answers |-> answers[s] + Cardinality({i \in DOMAIN out : out[i].serial = s})]

\* Mutant: a wait stays in the list after its answer.
EndEventKeeping(ws, inflight, finished, first, live) ==
    \E ready \in SUBSET WaiterSet(ws) :
        LET done == Only(ws, ready)
        IN  /\ \A w \in WaiterSet(ws) : NeedsPane(w) /\ w.pane \notin live => w \in ready
            /\ automation_waiters' = ws
            /\ automation_inflight' = inflight \ Keys(finished)
            /\ outbox' = first \o [i \in DOMAIN done |-> Answer(done[i])]
            /\ answers' = Counted(outbox')

\* The end of every event: of the waits ws, those on a pane that is not live are
\* answered, and any others whose condition holds or whose deadline passed.
\* finish_automation_request releases the identifiers of all that is answered.
\* first are the answers the handler itself made, to the requests finished.
EndEvent(ws, inflight, finished, first, live) ==
    \E ready \in SUBSET WaiterSet(ws) :
        LET done == Only(ws, ready)
        IN  /\ \A w \in WaiterSet(ws) : NeedsPane(w) /\ w.pane \notin live => w \in ready
            /\ automation_waiters' = Only(ws, WaiterSet(ws) \ ready)
            /\ automation_inflight' = inflight \ (Keys(finished) \cup Keys(ready))
            /\ outbox' = first \o [i \in DOMAIN done |-> Answer(done[i])]
            /\ answers' = Counted(outbox')

Handling(type) == outbox = <<>> /\ events # <<>> /\ Head(events).type = type

\* Answered by its handler: a result, a refusal, or limit_exceeded.
Answered(r) ==
    /\ EndEvent(automation_waiters, automation_inflight \cup {Key(r)}, {r},
                <<Answer(r)>>, panes)
    /\ UNCHANGED <<panes, exit_tombstones, pending_actor_work, workers>>

\* Mutant: a duplicate releases the identifier of the request in flight.
DuplicateReleasing(r) == Answered(r)

\* A duplicate is answered without releasing the identifier, which belongs to
\* the request still in flight.
Duplicate(r) ==
    /\ EndEvent(automation_waiters, automation_inflight, {},
                <<Answer(r)>>, panes)
    /\ UNCHANGED <<panes, exit_tombstones, pending_actor_work, workers>>

\* close_pane, then the answer.
CloseRequest(r) ==
    /\ panes' = panes \ {r.pane}
    /\ EndEvent(automation_waiters, automation_inflight \cup {Key(r)}, {r},
                <<Answer(r)>>, panes \ {r.pane})
    /\ UNCHANGED <<exit_tombstones, pending_actor_work, workers>>

\* automation_input.  A full or closed input queue, or a worker that cannot be
\* started, gives the pending key back before the answer.
InputRequest(r) ==
    /\ Cardinality(pending_actor_work) < MaxPending
    /\ Key(r) \notin pending_actor_work
    /\ pending_actor_work' = pending_actor_work \cup {Key(r)}
    /\ workers' = workers \cup {r}
    /\ EndEvent(automation_waiters, automation_inflight \cup {Key(r)}, {}, <<>>, panes)
    /\ UNCHANGED <<panes, exit_tombstones>>

\* add_automation_waiter.
WaitRequest(r) ==
    /\ Len(automation_waiters) < MaxWaiters
    /\ EndEvent(Append(automation_waiters, r), automation_inflight \cup {Key(r)}, {}, <<>>,
                panes)
    /\ UNCHANGED <<panes, exit_tombstones, pending_actor_work, workers>>

OpenFor(c) == Cardinality({k \in automation_inflight : k[1] = c})

\* resolve_automation_pane, and the exception for a process that already exited.
Resolves(r) ==
    \/ r.pane \in panes
    \/ r.kind = "free"
    \/ r.kind = "exit" /\ r.pane \in exit_tombstones

\* Invalid parameters, a pane that does not resolve, or a PTY queue that refuses
\* the input: these are answers of the handler, like every quick method.
Admitted(r) ==
    \/ (r.kind = "close" => ~Resolves(r)) /\ Answered(r)
    \/ r.kind = "close" /\ Resolves(r) /\ CloseRequest(r)
    \/ r.kind = "input" /\ Resolves(r) /\ InputRequest(r)
    \/ r.kind \in {"screen", "exit", "free"} /\ Resolves(r) /\ WaitRequest(r)

\* handle_automation.
HandleRequest ==
    /\ Handling("request")
    /\ LET r == Head(events)
       IN  \/ Key(r) \in automation_inflight /\ Duplicate(r)
           \/ Key(r) \notin automation_inflight /\ OpenFor(r.conn) >= MaxPerClient /\ Answered(r)
           \/ Key(r) \notin automation_inflight /\ OpenFor(r.conn) < MaxPerClient /\ Admitted(r)
    /\ events' = Tail(events)
    /\ UNCHANGED <<conn, sent, procs, response_queue, responder, delivered>>

\* AutomationInputComplete.  It also comes after the connection is gone.
HandleInputComplete ==
    /\ Handling("input_complete")
    /\ LET r == Head(events).request
       IN  /\ pending_actor_work' = pending_actor_work \ {Key(r)}
           /\ EndEvent(automation_waiters, automation_inflight, {r}, <<Answer(r)>>,
                       panes)
    /\ events' = Tail(events)
    /\ UNCHANGED <<conn, sent, panes, procs, exit_tombstones, workers, response_queue,
                   responder, delivered>>

\* Disconnected drops everything of the connection but its worker threads.
HandleDisconnected ==
    /\ Handling("disconnected")
    /\ LET c == Head(events).conn
           others == {w \in WaiterSet(automation_waiters) : w.conn # c}
       IN  /\ pending_actor_work' = {k \in pending_actor_work : k[1] # c}
           /\ EndEvent(Only(automation_waiters, others),
                       {k \in automation_inflight : k[1] # c}, {}, <<>>, panes)
    /\ events' = Tail(events)
    /\ UNCHANGED <<conn, sent, panes, procs, exit_tombstones, workers, response_queue,
                   responder, delivered>>

\* PtyExit: complete_exit_waiters, the tombstone, close_pane.
HandlePtyExit ==
    /\ Handling("pty_exit")
    /\ LET p == Head(events).pane
       IN  /\ panes' = panes \ {p}
           /\ exit_tombstones' = exit_tombstones \cup {p}
           /\ EndEvent(automation_waiters, automation_inflight, {}, <<>>, panes \ {p})
    /\ events' = Tail(events)
    /\ UNCHANGED <<conn, sent, procs, pending_actor_work, workers, response_queue,
                   responder, delivered>>

\* Pane output, a render acknowledgement, a media event, or the loop's timeout
\* when a deadline passes: nothing changes here but the waits that are done.
Tick ==
    /\ outbox = <<>>
    /\ automation_waiters # <<>>
    /\ EndEvent(automation_waiters, automation_inflight, {}, <<>>, panes)
    /\ automation_waiters' # automation_waiters
    /\ UNCHANGED <<conn, sent, events, panes, procs, exit_tombstones, pending_actor_work,
                   workers, response_queue, responder, delivered>>

\* The oldest exit tombstone is evicted by the exits of other panes.
EvictTombstone(p) ==
    /\ outbox = <<>>
    /\ p \in exit_tombstones
    /\ exit_tombstones' = exit_tombstones \ {p}
    /\ UNCHANGED <<conn, sent, events, panes, procs, automation_inflight,
                   automation_waiters, pending_actor_work, workers, outbox,
                   response_queue, responder, answers, delivered>>

\* Mutant: an answer that does not fit is dropped.
QueueAnswerDropping ==
    /\ outbox # <<>>
    /\ outbox' = Tail(outbox)
    /\ response_queue' = IF Len(response_queue) < ResponseCap
                         THEN Append(response_queue, Head(outbox)) ELSE response_queue
    /\ UNCHANGED <<conn, sent, events, panes, procs, exit_tombstones, automation_inflight,
                   automation_waiters, pending_actor_work, workers, responder, answers,
                   delivered>>

\* send_automation_response: an answer that does not fit cancels its connection.
QueueAnswer ==
    /\ outbox # <<>>
    /\ outbox' = Tail(outbox)
    /\ \/ /\ Len(response_queue) < ResponseCap
          /\ response_queue' = Append(response_queue, Head(outbox))
          /\ UNCHANGED conn
       \/ /\ Len(response_queue) >= ResponseCap
          /\ conn' = [conn EXCEPT ![Head(outbox).conn] = IF @ = "open" THEN "cancelled" ELSE @]
          /\ UNCHANGED response_queue
    /\ UNCHANGED <<sent, events, panes, procs, exit_tombstones, automation_inflight,
                   automation_waiters, pending_actor_work, workers, responder, answers,
                   delivered>>

----------------------------------------------------------------------------
(* The response writer threads. *)

TakeAnswer(t) ==
    /\ responder[t] = NoJob
    /\ response_queue # <<>>
    /\ responder' = [responder EXCEPT ![t] = Head(response_queue)]
    /\ response_queue' = Tail(response_queue)
    /\ UNCHANGED <<conn, sent, events, panes, procs, exit_tombstones, automation_inflight,
                   automation_waiters, pending_actor_work, workers, outbox, answers,
                   delivered>>

\* send_automation; a write to a connection that is down fails and is ignored.
WriteAnswer(t) ==
    /\ responder[t] # NoJob
    /\ responder' = [responder EXCEPT ![t] = NoJob]
    /\ delivered' = IF conn[responder[t].conn] = "open"
                    THEN delivered \cup {responder[t].serial} ELSE delivered
    /\ UNCHANGED <<conn, sent, events, panes, procs, exit_tombstones, automation_inflight,
                   automation_waiters, pending_actor_work, workers, outbox,
                   response_queue, answers>>

----------------------------------------------------------------------------
Init ==
    /\ conn = [c \in Conns |-> "open"]
    /\ sent = 0
    /\ events = <<>>
    /\ panes = Panes
    /\ procs = Panes
    /\ exit_tombstones = {}
    /\ automation_inflight = {}
    /\ automation_waiters = <<>>
    /\ pending_actor_work = {}
    /\ workers = {}
    /\ outbox = <<>>
    /\ response_queue = <<>>
    /\ responder = [t \in Responders |-> NoJob]
    /\ answers = [s \in 1 .. MaxRequests |-> 0]
    /\ delivered = {}

Handle == HandleRequest \/ HandleInputComplete \/ HandleDisconnected \/ HandlePtyExit

Responding == \E t \in Responders : TakeAnswer(t) \/ WriteAnswer(t)

Next ==
    \/ \E c \in Conns, id \in Ids, kind \in Kinds, p \in Panes : Send(c, id, kind, p)
    \/ \E c \in Conns : CloseConn(c) \/ ReaderEnds(c)
    \/ \E p \in Panes : ProcessExits(p) \/ EvictTombstone(p)
    \/ \E r \in workers : WorkerDone(r)
    \/ Handle \/ Tick \/ QueueAnswer \/ Responding

Spec == Init /\ [][Next]_vars

\* The wait of request s reaches its deadline: the loop wakes up for it.
Waiting(ws, s) == \E i \in DOMAIN ws : ws[i].serial = s

DeadlineOf(s) ==
    Tick /\ Waiting(automation_waiters, s) /\ ~Waiting(automation_waiters', s)

\* Threads run, every wait has a deadline, every worker a five second limit, and
\* clients read their answers.
Fairness ==
    /\ WF_vars(Handle) /\ WF_vars(QueueAnswer)
    /\ \A t \in Responders : WF_vars(TakeAnswer(t)) /\ WF_vars(WriteAnswer(t))
    /\ \A c \in Conns : WF_vars(ReaderEnds(c))
    /\ \A s \in 1 .. MaxRequests :
         /\ SF_vars(DeadlineOf(s))
         /\ WF_vars(\E r \in workers : r.serial = s /\ WorkerDone(r))

FairSpec == Spec /\ Fairness

----------------------------------------------------------------------------
(* What must hold. *)

\* Every variable has its type, and the quotas hold: waits, pending work, requests
\* of one connection, and queued answers.
TypeOK ==
    /\ conn \in [Conns -> {"open", "closed", "cancelled", "gone"}]
    /\ sent \in 0 .. MaxRequests
    /\ events \in Seq(Events)
    /\ panes \subseteq Panes
    /\ procs \subseteq Panes
    /\ exit_tombstones \subseteq Panes
    /\ automation_inflight \subseteq Conns \X Ids
    /\ automation_waiters \in Seq(Requests)
    /\ pending_actor_work \subseteq Conns \X Ids
    /\ workers \subseteq Requests
    /\ outbox \in Seq(Answers)
    /\ response_queue \in Seq(Answers)
    /\ responder \in [Responders -> Answers \cup {NoJob}]
    /\ answers \in [1 .. MaxRequests -> Nat]
    /\ delivered \subseteq 1 .. MaxRequests
    /\ Len(automation_waiters) <= MaxWaiters
    /\ Cardinality(pending_actor_work) <= MaxPending
    /\ Len(response_queue) <= ResponseCap
    /\ \A c \in Conns : OpenFor(c) <= MaxPerClient

\* Where the request sent as number s is: with the actor or one of its workers,
\* among the answers, written, or gone.
Serial(r, s) == r.serial = s

OpenAt(s) ==
    {r \in WaiterSet(automation_waiters) \cup workers : Serial(r, s)}
    \cup {events[i] : i \in {j \in DOMAIN events :
                              events[j].type = "request" /\ Serial(events[j], s)}}
    \cup {events[i].request : i \in {j \in DOMAIN events :
                  events[j].type = "input_complete" /\ Serial(events[j].request, s)}}

AnswerAt(s) ==
    {a \in WaiterSet(outbox) \cup WaiterSet(response_queue)
           \cup {responder[t] : t \in Responders} : Serial(a, s)}

FateOf(s) ==
    IF s > sent THEN [at |-> "unsent"]
    ELSE IF answers[s] > 1 THEN [at |-> "answered twice"]
    ELSE IF OpenAt(s) # {} THEN [at |-> "open", conn |-> (CHOOSE r \in OpenAt(s) : TRUE).conn]
    ELSE IF AnswerAt(s) # {}
         THEN [at |-> "answered", conn |-> (CHOOSE a \in AnswerAt(s) : TRUE).conn]
    ELSE IF s \in delivered THEN [at |-> "delivered"] ELSE [at |-> "dropped"]

fates == [s \in 1 .. MaxRequests |-> FateOf(s)]
staying == {c \in Conns : conn[c] = "open"}

Fate == INSTANCE RequestFate
            WITH Requests <- 1 .. MaxRequests, fate <- fates, there <- staying

\* The session keeps what RequestFate promises: no request is answered twice, or
\* dropped while its connection stays, also when its identifier is used again,
\* other connections are lost, a worker finishes late or the response queue is
\* full (handle_automation, check_automation_waiters, the Disconnected event and
\* send_automation_response in session.rs).
FatesKept == Fate!Spec

\* Nothing is kept for a connection once its Disconnected was handled, although
\* its workers may report later; and no screen or exit wait outlives its pane:
\* whoever closed the pane, the wait is answered before the next event.
NothingKeptForGone ==
    /\ \A c \in Conns :
         conn[c] = "gone" /\ (\A i \in DOMAIN events : events[i].type = "disconnected" => events[i].conn # c)
         => /\ OpenFor(c) = 0
            /\ \A k \in pending_actor_work : k[1] # c
            /\ \A w \in WaiterSet(automation_waiters) : w.conn # c
    /\ \A w \in WaiterSet(automation_waiters) : NeedsPane(w) => w.pane \in panes

\* Every pending key has a worker thread or its completion under way.
PendingHasWorker ==
    \A k \in pending_actor_work :
        \/ k \in Keys(workers)
        \/ \E i \in DOMAIN events : events[i].type = "input_complete" /\ Key(events[i].request) = k

\* The identifiers in flight are exactly those of the open waits and of the
\* inputs being written, each once: no path of handle_automation leaks one, which
\* would refuse the identifier and eat the quota for good.  An input that is
\* pending will be reported, so that the pending-work quota is given back too, and
\* nothing of a connection or a pane that is gone is among them.
InflightAccounted ==
    /\ TypeOK /\ NothingKeptForGone
    /\ automation_inflight = Keys(WaiterSet(automation_waiters)) \cup pending_actor_work
    /\ Keys(WaiterSet(automation_waiters)) \cap pending_actor_work = {}
    /\ Cardinality(Keys(WaiterSet(automation_waiters))) = Len(automation_waiters)
    /\ PendingHasWorker

\* Under fairness every request of a connection that stays is answered.
EveryRequestAnswered ==
    \A s \in 1 .. MaxRequests, c \in Conns :
        (\E i \in DOMAIN events : events[i].type = "request" /\ events[i].serial = s /\ events[i].conn = c)
        ~> (s \in delivered \/ conn[c] # "open")
=============================================================================
