----------------------------- MODULE MediaRelay -----------------------------
(***************************************************************************)
(* One video source on its way from a producer in a pane to the outer      *)
(* presenter: the virtual presenter's ingest, credits, deliveries and      *)
(* keyframe recovery (src/src/media.rs), the session actor that publishes  *)
(* projections and forwards records (src/src/session.rs), and the          *)
(* foreground client's reader and bridge worker (src/src/client.rs).       *)
(*                                                                         *)
(* Abstractions.  Every record has the size of one packet credit and one   *)
(* unit of the bridge budget, and travels as one chunk; a record's number  *)
(* stands for its delivery identifier.  The outer presenter is external:   *)
(* it decodes a keyframe, or a record whose predecessor it decoded.  What  *)
(* the outer session does with a snapshot or a record succeeds or fails by *)
(* free choice, a bounded number of times.  Clocks are left out.           *)
(***************************************************************************)
EXTENDS Naturals, Sequences, FiniteSets

CONSTANTS
    InitialCredits,   \* INITIAL_PACKET_CREDITS
    RollingCredits,   \* ROLLING_PACKET_CREDITS
    QueueBudget,      \* ipc_queue_bytes, in records
    EventQueue,       \* capacity of the actor's media channel
    ClientQueue,      \* capacity of the bridge worker's channel
    WriterQueue,      \* MEDIA_WRITER_QUEUE, of the outer source's writer
    MaxPackets,       \* bound: records the producer sends
    MaxEpoch,         \* the largest epoch
    MaxChanges,       \* bound: layout changes, attaches and detaches
    MaxControls,      \* bound: playback controls of the producer
    MaxFaults,        \* bound: failures of the outer session
    None              \* an absent value

ASSUME RelayAssumption ==
    /\ InitialCredits \in Nat \ {0}
    /\ RollingCredits \in Nat /\ RollingCredits >= InitialCredits
    /\ {QueueBudget, EventQueue, ClientQueue, WriterQueue} \subseteq Nat \ {0}
    /\ {MaxPackets, MaxEpoch, MaxChanges, MaxControls, MaxFaults} \subseteq Nat
    /\ None \notin Nat \cup {"initial", "error", "loss"}

\* The absent value is no snapshot and no record that the client holds.
ASSUME AbsentAssumption ==
    None \notin [gen : Nat, body : [type : {"snapshot"}, present : BOOLEAN, playing : BOOLEAN,
                                   need : BOOLEAN]]
              \cup [gen : Nat, packet : [n : Nat, epoch : Nat, key : BOOLEAN]]

VARIABLES
    producer,   \* the producer: credits held, records sent, keyframe asked for
    wire,       \* records on the media connection
    srv,        \* the virtual presenter's state and the session's projection
    ingest,     \* what the media connection's thread has still to do
    control,    \* the control connection's handler
    actor,      \* what the session actor's handler has still to do
    events,     \* the actor's media channel
    to_client,  \* the attached client's connection, server to client
    client,     \* what the client's reader shares with its worker
    worker,     \* the worker's own state
    outer,      \* the outer session: the source, its writer and its decoder
    to_server,  \* the attached client's connection, client to server
    left        \* what the bounds still allow

vars == <<producer, wire, srv, ingest, control, actor, events, to_client, client,
          worker, outer, to_server, left>>

Idle == [do |-> "idle"]
Reasons == {"initial", "error", "loss"}
Packets == [n : 1 .. MaxPackets, epoch : 0 .. MaxEpoch, key : BOOLEAN]
Larger(a, b) == IF a >= b THEN a ELSE b
Smaller(a, b) == IF a <= b THEN a ELSE b

----------------------------------------------------------------------------
(* The virtual presenter under its lock: functions of srv. *)

\* Mutant: the top-up counts only the credit that is outstanding.
prepare_credit_returnUncharged(s, n) ==
    LET out == s.out + n
        top_up == IF s.projected /\ out < RollingCredits THEN RollingCredits - out ELSE 0
    IN [s EXCEPT !.out = out + top_up, !.charged = @ - n, !.grants = @ + n + top_up]

\* prepare_credit_return: n charged packets become credit again, topped up to
\* the rolling window while the source is projected.
prepare_credit_return(s, n) ==
    LET out == s.out + n
        charged == s.charged - n
        top_up == IF s.projected /\ out + charged < RollingCredits
                  THEN RollingCredits - (out + charged) ELSE 0
    IN [s EXCEPT !.out = out + top_up, !.charged = charged,
                 !.grants = @ + n + top_up]

\* take_deliveries: forget deliveries and return their credit.
take_deliveries(s) ==
    IF s.deliveries = {} THEN s
    ELSE prepare_credit_return([s EXCEPT !.deliveries = {}], Cardinality(s.deliveries))

\* The producer is asked for a keyframe of at least s.min.
Ask(s) == [s EXCEPT !.asked = s.min]

\* request_keyframe_recoveries for this source; None is an absent minimum.
request_keyframe(s, minimum, reason) ==
    LET m == CASE reason = "loss" -> s.epoch
               [] reason # "loss" /\ minimum # None -> Larger(minimum, s.epoch)
               [] reason = "initial" /\ minimum = None -> s.epoch
               [] OTHER -> Smaller(s.epoch + 1, MaxEpoch)
        damped == /\ s.pending # None
                  /\ m <= s.min
                  /\ ~(s.pending = "loss" /\ reason # "loss")
        emitted == IF s.pending \in {None, reason, "loss"} THEN reason
                   ELSE IF reason = "loss" THEN s.pending ELSE "error"
    IN IF s.ended \/ damped THEN s
       ELSE Ask([s EXCEPT !.min = Larger(s.min, m), !.pending = emitted, !.desync = TRUE])

\* complete_bridge_delivery, up to the request that may follow it.
Loses(s, n, delivered) ==
    n \in s.deliveries /\ ~delivered /\ s.projected /\ ~s.ended
complete_bridge_delivery(s, n, delivered) ==
    IF n \notin s.deliveries THEN s
    ELSE prepare_credit_return(
           [s EXCEPT !.deliveries = @ \ {n},
                     !.desync = @ \/ Loses(s, n, delivered)], 1)

\* deactivate_bridge.
deactivate_bridge(s) ==
    take_deliveries([s EXCEPT !.projected = FALSE, !.desync = @ \/ s.playing])

\* projection_snapshot_with_viewports: the source is projected when its pane is.
projection_snapshot(s) ==
    LET p == [s EXCEPT !.projected = s.visible, !.synced = TRUE]
    IN IF s.visible THEN p ELSE take_deliveries(p)
Snapshot(s) ==
    [type |-> "snapshot", present |-> s.visible, playing |-> s.playing,
     need |-> s.visible /\ s.playing /\ ~s.ended /\ s.desync]

\* sync_media_inner: what it does to the presenter and what it sends.
SyncSends(s, force) == s.attached /\ (force \/ ~s.synced)
sync_media(s, force) ==
    IF ~s.attached THEN deactivate_bridge(s)
    ELSE IF SyncSends(s, force) THEN projection_snapshot(s) ELSE s
SyncMessages(s, force) ==
    IF SyncSends(s, force) THEN <<Snapshot(s)>> ELSE <<>>

----------------------------------------------------------------------------
(* The producer in the pane (external), as far as the protocol binds it: it *)
(* spends credit it was granted, starts an epoch with a keyframe, and       *)
(* answers NEED_KEYFRAME with a keyframe of an epoch at least as large.     *)

ProducerSend(p) ==
    /\ producer.held > 0
    /\ p.n = producer.sent + 1
    /\ p.epoch >= producer.epoch
    /\ ~p.key => ~producer.fresh /\ p.epoch = producer.epoch
    /\ wire' = Append(wire, p)
    /\ producer' = [producer EXCEPT !.held = @ - 1, !.sent = p.n, !.epoch = p.epoch,
                                    !.fresh = FALSE]
    /\ srv' = IF p.key /\ srv.asked # None /\ p.epoch >= srv.asked
              THEN [srv EXCEPT !.asked = None] ELSE srv
    /\ UNCHANGED <<ingest, control, actor, events, to_client, client, worker, outer,
                   to_server, left>>

ReceiveCredit ==
    /\ srv.grants > 0
    /\ producer' = [producer EXCEPT !.held = @ + srv.grants]
    /\ srv' = [srv EXCEPT !.grants = 0]
    /\ UNCHANGED <<wire, ingest, control, actor, events, to_client, client, worker,
                   outer, to_server, left>>

----------------------------------------------------------------------------
(* The media connection's thread: ingest_record. *)

\* The section under the lock: charge the record, update recovery, and either
\* register a delivery or return the credit at once.
IngestRecord ==
    LET p == Head(wire)
        recovered == srv.desync /\ p.epoch >= srv.min /\ p.key
        forward == srv.projected /\ (recovered \/ ~srv.desync)
        queued == /\ forward
                  /\ \/ srv.deliveries = {}
                     \/ Cardinality(srv.deliveries) < QueueBudget
        charged == [srv EXCEPT
            !.out = @ - 1, !.charged = @ + 1, !.epoch = p.epoch, !.last = p.n,
            !.pending = IF recovered THEN None ELSE @,
            !.flushed = @ /\ ~recovered,
            !.desync = (~recovered /\ (@ \/ ~srv.projected)) \/ (forward /\ ~queued),
            !.deliveries = IF queued THEN @ \cup {p.n} ELSE @]
    IN /\ ingest = Idle
       /\ wire # <<>>
       /\ srv.out > 0
       /\ p.epoch >= srv.epoch
       /\ wire' = Tail(wire)
       /\ srv' = IF queued THEN charged ELSE prepare_credit_return(charged, 1)
       /\ ingest' = IF queued THEN [do |-> "send", packet |-> p]
                    ELSE IF forward THEN [do |-> "request"] ELSE Idle
       /\ UNCHANGED <<producer, control, actor, events, to_client, client, worker,
                      outer, to_server, left>>

\* Mutant: a record that finds the actor's queue full is forgotten.
IngestSendForgetting ==
    LET p == ingest.packet
        sent == Len(events) < EventQueue
    IN /\ ingest.do = "send"
       /\ events' = IF sent THEN Append(events, p) ELSE events
       /\ srv' = IF sent \/ p.n \notin srv.deliveries THEN srv
                 ELSE prepare_credit_return([srv EXCEPT !.deliveries = @ \ {p.n}], 1)
       /\ ingest' = Idle
       /\ UNCHANGED <<producer, wire, control, actor, to_client, client, worker, outer,
                      to_server, left>>

\* After the lock: hand the record to the actor, or undo the delivery.
IngestSend ==
    LET p == ingest.packet
        undone == IF p.n \in srv.deliveries
                  THEN prepare_credit_return([srv EXCEPT !.deliveries = @ \ {p.n}], 1)
                  ELSE srv
        sent == Len(events) < EventQueue
    IN /\ ingest.do = "send"
       /\ events' = IF sent THEN Append(events, p) ELSE events
       /\ srv' = IF sent THEN srv ELSE [undone EXCEPT !.desync = TRUE]
       /\ ingest' = IF sent THEN Idle ELSE [do |-> "request"]
       /\ UNCHANGED <<producer, wire, control, actor, to_client, client, worker, outer,
                      to_server, left>>

\* A record that found no room in a queue asks for a keyframe, under a new lock.
IngestRequest ==
    /\ ingest.do = "request"
    /\ srv' = request_keyframe(srv, None, "loss")
    /\ ingest' = Idle
    /\ UNCHANGED <<producer, wire, control, actor, events, to_client, client, worker,
                   outer, to_server, left>>

----------------------------------------------------------------------------
(* The control connection's thread: PLAY, PAUSE, FLUSH and EOS. *)

\* PLAY takes the lock once.
Play ==
    /\ control = Idle /\ left.controls > 0 /\ ~srv.playing
    /\ srv' = [srv EXCEPT !.playing = TRUE, !.synced = FALSE]
    /\ left' = [left EXCEPT !.controls = @ - 1]
    /\ UNCHANGED <<producer, wire, ingest, control, actor, events, to_client, client,
                   worker, outer, to_server>>

\* PAUSE and FLUSH first cancel the source's deliveries under a lock of their own.
CancelDeliveries(next) ==
    /\ control = Idle /\ left.controls > 0
    /\ next.do = "pause" => srv.playing
    /\ next.do = "flush" => next.epoch > producer.epoch
    /\ srv' = take_deliveries(srv)
    /\ control' = next
    /\ left' = [left EXCEPT !.controls = @ - 1]
    /\ UNCHANGED <<producer, wire, ingest, actor, events, to_client, client, worker,
                   outer, to_server>>

Pause ==
    /\ control.do = "pause"
    /\ srv' = [srv EXCEPT !.playing = FALSE, !.synced = FALSE]
    /\ control' = Idle
    /\ UNCHANGED <<producer, wire, ingest, actor, events, to_client, client, worker,
                   outer, to_server, left>>

\* Mutant: a flush does not wait for a keyframe of the new epoch.
FlushInStep ==
    /\ control.do = "flush"
    /\ srv' = [srv EXCEPT !.epoch = 0, !.min = control.epoch, !.ended = FALSE,
                          !.flushed = TRUE]
    /\ producer' = [producer EXCEPT !.epoch = control.epoch, !.fresh = TRUE]
    /\ control' = Idle
    /\ UNCHANGED <<wire, ingest, actor, events, to_client, client, worker, outer,
                   to_server, left>>

Flush ==
    /\ control.do = "flush"
    /\ srv' = [srv EXCEPT !.epoch = 0, !.min = control.epoch, !.ended = FALSE,
                          !.desync = TRUE, !.flushed = TRUE]
    /\ producer' = [producer EXCEPT !.epoch = control.epoch, !.fresh = TRUE]
    /\ control' = Idle
    /\ UNCHANGED <<wire, ingest, actor, events, to_client, client, worker, outer,
                   to_server, left>>

\* EOS without a barrier: wait_for_source_deliveries, then apply_inner_eos under
\* a new lock.
EosWaits ==
    /\ control = Idle /\ left.controls > 0 /\ ~srv.ended
    /\ srv.deliveries = {}
    /\ control' = [do |-> "eos"]
    /\ left' = [left EXCEPT !.controls = @ - 1]
    /\ UNCHANGED <<producer, wire, srv, ingest, actor, events, to_client, client, worker,
                   outer, to_server>>

Eos ==
    /\ control.do = "eos"
    /\ srv' = [srv EXCEPT !.ended = TRUE, !.synced = FALSE]
    /\ control' = Idle
    /\ UNCHANGED <<producer, wire, ingest, actor, events, to_client, client, worker,
                   outer, to_server, left>>

----------------------------------------------------------------------------
(* The session actor. *)

NoSource == [has |-> FALSE, alive |-> FALSE, ok |-> FALSE, last |-> 0,
             queue |-> <<>>, done |-> <<>>]

FreshClient == [gen |-> 0, snapshot |-> None, queue |-> <<>>, dropped |-> {}]
FreshWorker == [active |-> FALSE, playing |-> FALSE, gen |-> 0, min_gen |-> 0,
                started |-> FALSE, force |-> FALSE, replace |-> FALSE,
                lost |-> FALSE, deferred |-> None]

NewClient ==
    /\ client' = FreshClient
    /\ worker' = FreshWorker
    /\ outer' = NoSource
    /\ to_server' = <<>>

\* The pane becomes visible or hidden; the projection follows later.
ChangeLayout ==
    /\ actor = Idle /\ left.changes > 0
    /\ srv' = [srv EXCEPT !.visible = ~@, !.synced = FALSE]
    /\ left' = [left EXCEPT !.changes = @ - 1]
    /\ UNCHANGED <<producer, wire, ingest, control, actor, events, to_client, client,
                   worker, outer, to_server>>

\* The synchronisation after a render and on an idle timeout.
IdleSync ==
    /\ actor = Idle
    /\ srv' = sync_media(srv, FALSE)
    /\ srv' # srv
    /\ to_client' = to_client \o SyncMessages(srv, FALSE)
    /\ UNCHANGED <<producer, wire, ingest, control, actor, events, client, worker, outer,
                   to_server, left>>

\* Attach, in place of the attached client if there is one, whose messages are
\* no longer heard.
Attach ==
    LET s == [srv EXCEPT !.attached = TRUE]
    IN /\ actor = Idle /\ left.changes > 0
       /\ srv' = sync_media(s, TRUE)
       /\ to_client' = SyncMessages(s, TRUE)
       /\ left' = [left EXCEPT !.changes = @ - 1]
       /\ NewClient
       /\ UNCHANGED <<producer, wire, ingest, control, actor, events>>

Gone ==
    /\ actor = Idle /\ srv.attached
    /\ to_client' = <<>>
    /\ NewClient
    /\ UNCHANGED <<producer, wire, ingest, control, actor, events, left>>

\* ClientMessage::Detach.
Detach == Gone /\ srv' = deactivate_bridge([srv EXCEPT !.attached = FALSE])

\* ActorEvent::Disconnected of the attached client.
ClientLost == Gone /\ srv' = [srv EXCEPT !.attached = FALSE]

\* forward_media: publish a newer projection first, then pass the record on.  It
\* is not sent when no client is attached or the connection fails.
ForwardMedia(sent) ==
    LET p == Head(events)
        s == sync_media(srv, FALSE)
    IN /\ actor = Idle /\ events # <<>>
       /\ sent => srv.attached
       /\ ~sent /\ srv.attached => left.faults > 0
       /\ left' = [left EXCEPT !.faults = IF sent \/ ~srv.attached THEN @ ELSE @ - 1]
       /\ events' = Tail(events)
       /\ srv' = IF sent THEN s ELSE complete_bridge_delivery(s, p.n, FALSE)
       /\ to_client' = to_client \o SyncMessages(srv, FALSE)
                        \o (IF sent THEN <<[type |-> "media", packet |-> p]>> ELSE <<>>)
       /\ actor' = IF ~sent /\ Loses(s, p.n, FALSE)
                   THEN [do |-> "request", resync |-> FALSE] ELSE Idle
       /\ UNCHANGED <<producer, wire, ingest, control, client, worker, outer, to_server>>

\* A message of the attached client.
HandleMessage ==
    LET m == Head(to_server)
        resync == m.type = "ack" /\ Loses(srv, m.n, m.delivered)
    IN /\ actor = Idle /\ to_server # <<>>
       /\ to_server' = Tail(to_server)
       /\ srv' = CASE m.type = "ack" -> complete_bridge_delivery(srv, m.n, m.delivered)
                   [] m.type = "need" -> request_keyframe(srv, m.min, m.reason)
                   [] m.type = "retry" -> sync_media(srv, TRUE)
       /\ to_client' = IF m.type = "retry" THEN to_client \o SyncMessages(srv, TRUE)
                       ELSE to_client
       /\ actor' = IF resync THEN [do |-> "request", resync |-> TRUE] ELSE Idle
       /\ UNCHANGED <<producer, wire, ingest, control, events, client, worker, outer,
                      left>>

\* complete_bridge_delivery asks for a keyframe under a lock of its own.
ActorRequest ==
    /\ actor.do = "request"
    /\ srv' = request_keyframe(srv, None, "loss")
    /\ actor' = IF actor.resync THEN [do |-> "sync"] ELSE Idle
    /\ UNCHANGED <<producer, wire, ingest, control, events, to_client, client, worker,
                   outer, to_server, left>>

ActorResync ==
    /\ actor.do = "sync"
    /\ srv' = sync_media(srv, TRUE)
    /\ to_client' = to_client \o SyncMessages(srv, TRUE)
    /\ actor' = Idle
    /\ UNCHANGED <<producer, wire, ingest, control, events, client, worker, outer,
                   to_server, left>>

----------------------------------------------------------------------------
(* The client's reader thread: replace_snapshot and queue_media. *)

ClientReads ==
    LET m == Head(to_client)
    IN /\ to_client # <<>>
       /\ to_client' = Tail(to_client)
       /\ client' =
            IF m.type = "snapshot"
            THEN [client EXCEPT !.gen = @ + 1,
                                !.snapshot = [gen |-> client.gen + 1, body |-> m]]
            ELSE IF Len(client.queue) < ClientQueue
            THEN [client EXCEPT !.queue = Append(@, [gen |-> client.gen,
                                                     packet |-> m.packet])]
            ELSE [client EXCEPT !.dropped = @ \cup {m.packet.n}]
       /\ UNCHANGED <<producer, wire, srv, ingest, control, actor, events, worker, outer,
                      to_server, left>>

----------------------------------------------------------------------------
(* The bridge worker. *)

Ack(n, delivered) == [type |-> "ack", n |-> n, delivered |-> delivered]
Need(min, reason) == [type |-> "need", min |-> min, reason |-> reason]
Retry == [type |-> "retry"]

\* The newest snapshot is applied: the source is created, kept, or removed, and
\* keyframes are requested for what cannot be decoded from here on.  A failed
\* reconciliation is rebuilt at once in a replacement session (rebuilt), which
\* leaves the old session's writer and its completions behind.
WorkerApplies(rebuilt) ==
    LET body == client.snapshot.body
        gen == client.snapshot.gen
        sources == worker.force \/ body.present # worker.active
        replaced == sources /\ (worker.replace \/ rebuilt)
        recreated == sources /\ body.present /\ (replaced \/ ~outer.has)
        requests == IF recreated /\ body.playing THEN <<Need(None, "initial")>>
                    ELSE IF worker.lost THEN <<Need(None, "error")>>
                    ELSE IF body.need THEN <<Need(None, "loss")>>
                    ELSE <<>>
    IN /\ client.snapshot # None
       /\ rebuilt => sources /\ ~worker.replace /\ left.faults > 0
       /\ left' = [left EXCEPT !.faults = IF rebuilt THEN @ - 1 ELSE @]
       /\ client' = [client EXCEPT !.snapshot = None]
       /\ worker' = [worker EXCEPT
            !.active = body.present, !.playing = body.present /\ body.playing,
            !.gen = gen,
            !.min_gen = IF recreated THEN gen
                        ELSE IF sources /\ ~body.present THEN 0 ELSE @,
            !.started = \/ @ /\ ~recreated /\ body.present
                        \/ body.present /\ body.playing,
            !.force = FALSE, !.replace = FALSE, !.lost = FALSE]
       /\ outer' = IF recreated \/ (sources /\ ~body.present)
                   THEN [NoSource EXCEPT
                            !.has = body.present, !.alive = body.present,
                            !.done = IF replaced THEN <<>> ELSE outer.done]
                   ELSE outer
       /\ to_server' = to_server \o requests
       /\ UNCHANGED <<producer, wire, srv, ingest, control, actor, events, to_client>>

\* The outer session could not apply it: a replacement is built from the next
\* one.  A failed reconciliation may have removed the source already.
WorkerApplyFails ==
    /\ client.snapshot # None /\ left.faults > 0
    /\ client' = [client EXCEPT !.snapshot = None]
    /\ worker' = [worker EXCEPT !.force = TRUE, !.replace = TRUE]
    /\ \/ outer' = outer
       \/ ~client.snapshot.body.present /\ outer' = [NoSource EXCEPT !.done = outer.done]
    /\ to_server' = Append(to_server, Retry)
    /\ left' = [left EXCEPT !.faults = @ - 1]
    /\ UNCHANGED <<producer, wire, srv, ingest, control, actor, events, to_client>>

\* take_media_completions.
WorkerCompletes ==
    /\ outer.done # <<>>
    /\ outer' = [outer EXCEPT !.done = <<>>]
    /\ to_server' = to_server \o outer.done
    /\ UNCHANGED <<producer, wire, srv, ingest, control, actor, events, to_client, client,
                   worker, left>>

\* complete_dropped_deliveries.
WorkerDropped ==
    \E n \in client.dropped :
        /\ client.snapshot = None
        /\ client' = [client EXCEPT !.dropped = @ \ {n}]
        /\ to_server' = Append(to_server, Ack(n, FALSE))
        /\ UNCHANGED <<producer, wire, srv, ingest, control, actor, events, to_client,
                       worker, outer, left>>

\* A record is taken from the channel and held while a snapshot waits.
WorkerTakes ==
    /\ worker.deferred = None /\ client.queue # <<>>
    /\ worker' = [worker EXCEPT !.deferred = Head(client.queue)]
    /\ client' = [client EXCEPT !.queue = Tail(@)]
    /\ UNCHANGED <<producer, wire, srv, ingest, control, actor, events, to_client, outer,
                   to_server, left>>

\* The record belongs to an older or unapplied projection, to a source that is
\* not there, or to one that was stopped.
Rejected(m) ==
    \/ m.gen < worker.min_gen \/ m.gen > worker.gen
    \/ ~worker.active
    \/ ~worker.playing /\ worker.started

WorkerRejects ==
    /\ worker.deferred # None /\ client.snapshot = None
    /\ Rejected(worker.deferred)
    /\ worker' = [worker EXCEPT !.deferred = None]
    /\ to_server' = Append(to_server, Ack(worker.deferred.packet.n, FALSE))
    /\ UNCHANGED <<producer, wire, srv, ingest, control, actor, events, to_client, client,
                   outer, left>>

\* media_chunk: to the source's writer, or dropped when the source or its writer
\* is gone or the writer's queue is full.
WorkerForwards ==
    LET p == worker.deferred.packet
        room == outer.has /\ outer.alive /\ Len(outer.queue) < WriterQueue
    IN /\ worker.deferred # None /\ client.snapshot = None
       /\ ~Rejected(worker.deferred)
       /\ worker' = [worker EXCEPT !.deferred = None]
       /\ outer' = IF room THEN [outer EXCEPT !.queue = Append(@, p)] ELSE outer
       /\ client' = IF room THEN client ELSE [client EXCEPT !.dropped = @ \cup {p.n}]
       /\ UNCHANGED <<producer, wire, srv, ingest, control, actor, events, to_client,
                      to_server, left>>

----------------------------------------------------------------------------
(* The outer source's writer (run_media_writer) and the outer presenter. *)

\* The presenter decodes a keyframe, or the record after the one it decoded.
Decodes(p) == p.key \/ (outer.ok /\ p.n = outer.last + 1)

OuterWrites ==
    LET p == Head(outer.queue)
    IN /\ outer.queue # <<>>
       /\ outer' = [outer EXCEPT !.queue = Tail(@), !.ok = Decodes(p), !.last = p.n,
                                 !.done = Append(@, Ack(p.n, TRUE))]
       /\ UNCHANGED <<producer, wire, srv, ingest, control, actor, events, to_client,
                      client, worker, to_server, left>>

\* A failed write completes and ends the writer, with what is queued behind it.
WriterStops ==
    [outer EXCEPT !.alive = FALSE, !.queue = <<>>,
                  !.done = IF outer.queue = <<>> THEN @
                           ELSE Append(@, Ack(Head(outer.queue).n, FALSE))]
OuterWriteFails ==
    /\ outer.queue # <<>> /\ left.faults > 0
    /\ outer' = WriterStops
    /\ left' = [left EXCEPT !.faults = @ - 1]
    /\ UNCHANGED <<producer, wire, srv, ingest, control, actor, events, to_client, client,
                   worker, to_server>>

\* The outer presenter reports the source lost, as it does when its media
\* connection ends: the next snapshot creates it again.
OuterLosesSource ==
    /\ outer.has
    /\ outer.alive => left.faults > 0
    /\ worker' = [worker EXCEPT !.lost = TRUE, !.force = TRUE]
    /\ outer' = [WriterStops EXCEPT !.has = FALSE, !.ok = FALSE]
    /\ to_server' = Append(to_server, Retry)
    /\ left' = [left EXCEPT !.faults = IF outer.alive THEN @ - 1 ELSE @]
    /\ UNCHANGED <<producer, wire, srv, ingest, control, actor, events, to_client, client>>

\* The outer presenter asks for a keyframe (keyframe_requests).
OuterNeedsKeyframe ==
    \E min \in 0 .. MaxEpoch, reason \in {"initial", "error"} :
        /\ outer.has /\ left.faults > 0
        /\ to_server' = Append(to_server, Need(min, reason))
        /\ left' = [left EXCEPT !.faults = @ - 1]
        /\ UNCHANGED <<producer, wire, srv, ingest, control, actor, events, to_client,
                       client, worker, outer>>

----------------------------------------------------------------------------

\* A source just created in a visible pane of an attached session (create_source).
Init ==
    /\ producer = [held |-> InitialCredits, sent |-> 0, epoch |-> 0, fresh |-> TRUE]
    /\ srv = [out |-> InitialCredits, charged |-> 0, grants |-> 0, desync |-> FALSE,
              pending |-> None, min |-> 0, epoch |-> 0, playing |-> FALSE,
              ended |-> FALSE, flushed |-> FALSE, last |-> 0, projected |-> TRUE,
              deliveries |-> {}, asked |-> None, attached |-> TRUE,
              visible |-> TRUE, synced |-> FALSE]
    /\ client = FreshClient /\ worker = FreshWorker /\ outer = NoSource
    /\ wire = <<>> /\ events = <<>> /\ to_client = <<>> /\ to_server = <<>>
    /\ ingest = Idle /\ control = Idle /\ actor = Idle
    /\ left = [changes |-> MaxChanges, controls |-> MaxControls, faults |-> MaxFaults]

Control ==
    \/ Play \/ Pause \/ Flush \/ EosWaits \/ Eos
    \/ CancelDeliveries([do |-> "pause"])
    \/ \E e \in 0 .. MaxEpoch : CancelDeliveries([do |-> "flush", epoch |-> e])

Actor ==
    \/ ChangeLayout \/ IdleSync \/ Attach \/ Detach \/ ClientLost
    \/ \E sent \in BOOLEAN : ForwardMedia(sent)
    \/ HandleMessage \/ ActorRequest \/ ActorResync

Worker ==
    \/ \E rebuilt \in BOOLEAN : WorkerApplies(rebuilt)
    \/ WorkerApplyFails \/ WorkerCompletes \/ WorkerDropped \/ WorkerTakes
    \/ WorkerRejects \/ WorkerForwards

Next ==
    \/ \E p \in Packets : ProducerSend(p)
    \/ ReceiveCredit
    \/ IngestRecord \/ IngestSend \/ IngestRequest
    \/ Control \/ Actor \/ ClientReads \/ Worker
    \/ OuterWrites \/ OuterWriteFails \/ OuterLosesSource \/ OuterNeedsKeyframe

Spec == Init /\ [][Next]_vars

----------------------------------------------------------------------------
(* Properties *)

\* Type correctness of the presenter's accounting and of the queues.
TypeOK ==
    /\ producer \in [held : Nat, sent : Nat, epoch : Nat, fresh : BOOLEAN]
    /\ wire \in Seq(Packets)
    /\ {srv.out, srv.charged, srv.grants, srv.min, srv.epoch, srv.last} \subseteq Nat
    /\ {srv.desync, srv.playing, srv.ended, srv.flushed, srv.projected, srv.attached,
        srv.visible, srv.synced} \subseteq BOOLEAN
    /\ srv.pending \in {None} \cup Reasons
    /\ srv.deliveries \subseteq 1 .. MaxPackets
    /\ Len(events) <= EventQueue
    /\ Len(client.queue) <= ClientQueue /\ Len(outer.queue) <= WriterQueue

\* Packet credit is conserved through ingest, delivery, cancellation, failed
\* acknowledgement, detach and attach: what the producer may still send, what
\* is on its way to it and what it has sent add up to the credit the presenter
\* counts as outstanding; what is charged is exactly what is being delivered;
\* and the two never exceed the rolling window.
CreditExact ==
    /\ TypeOK
    /\ producer.held + srv.grants + Len(wire) = srv.out
    /\ srv.charged = Cardinality(srv.deliveries)
    /\ srv.out + srv.charged <= RollingCredits

\* A source that is not waiting for a keyframe is in an epoch at least as large
\* as the one it was last asked for, so that no record of an epoch abandoned by
\* a flush or a decoder reset is ever eligible for forwarding.
EligibleEpoch ==
    /\ ~srv.desync => srv.epoch >= srv.min
    /\ ingest.do = "send" /\ ~srv.desync => ingest.packet.epoch >= srv.min

\* Nothing is on its way anywhere.
Quiet ==
    /\ wire = <<>> /\ events = <<>> /\ to_client = <<>> /\ to_server = <<>>
    /\ ingest = Idle /\ control = Idle /\ actor = Idle
    /\ client.snapshot = None /\ client.queue = <<>> /\ client.dropped = {}
    /\ worker.deferred = None /\ outer.queue = <<>> /\ outer.done = <<>>
    /\ srv.synced

\* However records, snapshots, acknowledgements, drops and recoveries were
\* interleaved: when everything has come to rest and the source plays in a
\* visible pane of an attached client, either the outer decoder is in step with
\* the last record ingested, or the presenter holds records back and the
\* producer knows that a keyframe is due.  No loss is forgotten on the way.
QuietRepaired ==
    Quiet /\ srv.attached /\ srv.visible /\ srv.playing /\ ~srv.ended
          /\ outer.has /\ outer.alive /\ srv.last > 0
    => \/ outer.ok /\ outer.last = srv.last
       \/ srv.desync /\ (srv.pending # None \/ srv.flushed)

\* The grant of a forwarded record comes back once its fate is known: every
\* delivery the presenter counts is still in a queue, in a hand or in an
\* acknowledgement on its way.
\* The code does not meet this: README, section 3.
DeliveryAccounted ==
    \A n \in srv.deliveries :
        \/ ingest.do = "send" /\ ingest.packet.n = n
        \/ \E i \in DOMAIN events : events[i].n = n
        \/ \E i \in DOMAIN to_client :
              to_client[i].type = "media" /\ to_client[i].packet.n = n
        \/ \E i \in DOMAIN client.queue : client.queue[i].packet.n = n
        \/ n \in client.dropped
        \/ worker.deferred # None /\ worker.deferred.packet.n = n
        \/ \E i \in DOMAIN outer.queue : outer.queue[i].n = n
        \/ \E i \in DOMAIN outer.done : outer.done[i].n = n
        \/ \E i \in DOMAIN to_server : to_server[i].type = "ack" /\ to_server[i].n = n
=============================================================================
