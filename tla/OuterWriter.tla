---------------------------- MODULE OuterWriter -----------------------------
(***************************************************************************)
(* The writer of one outer media connection (src/src/bridge.rs): a thread  *)
(* with a bounded queue of commands, the source's credit ledger in the     *)
(* shared control state, and the bridge worker that queues records, asks   *)
(* for the sequence at the end of a stream, and retires the source.        *)
(*                                                                         *)
(* A record costs one credit.  A deadline is an action that is possible    *)
(* while its wait has not ended.                                           *)
(***************************************************************************)
EXTENDS Naturals, Sequences, FiniteSets

CONSTANTS
    WriterQueue,   \* MEDIA_WRITER_QUEUE
    MaxWrites,     \* bound: records forwarded
    MaxGrants,     \* bound: credits granted
    MaxBarriers,   \* bound: ends of stream
    None           \* no value

ASSUME OuterWriterAssumption ==
    /\ WriterQueue \in Nat \ {0}
    /\ {MaxWrites, MaxGrants, MaxBarriers} \subseteq Nat
    /\ None \notin Nat

VARIABLES
    queue,      \* the commands between the worker and the writer
    sender,     \* TRUE while the worker holds the sending end
    session,    \* TRUE while completions_rx is read: until the session is replaced
    writer,     \* the writer's thread: where it is and its record
    sequence,   \* last_record_sequence
    ledger,     \* the source's credits in ControlState
    closed,     \* ControlState.closed
    worker,     \* the bridge worker: where it is and the sequence it was told
    done,       \* what became of each record
    left        \* what the bounds still allow

vars == <<queue, sender, session, writer, sequence, ledger, closed, worker, done, left>>

Records == 1 .. MaxWrites
Barrier == 0
Idle == [at |-> "idle", told |-> None]

----------------------------------------------------------------------------
(* The bridge worker. *)

\* media_chunk: a record that finds the queue full or the writer gone is dropped.
Forward ==
    \E n \in Records :
        LET room == writer.at # "gone" /\ Len(queue) < WriterQueue
        IN /\ worker = Idle /\ sender
           /\ n = MaxWrites - left.writes + 1
           /\ left' = [left EXCEPT !.writes = @ - 1]
           /\ queue' = IF room THEN Append(queue, n) ELSE queue
           /\ done' = [done EXCEPT ![n] = IF room THEN "queued" ELSE "failed"]
           /\ UNCHANGED <<sender, session, writer, sequence, ledger, closed, worker>>

\* end_source: the barrier is sent, which waits for room, and then awaited.
EndSource ==
    /\ worker = Idle /\ sender /\ left.barriers > 0
    /\ worker' = [worker EXCEPT !.at = "send"]
    /\ left' = [left EXCEPT !.barriers = @ - 1]
    /\ UNCHANGED <<queue, sender, session, writer, sequence, ledger, closed, done>>

SendBarrier ==
    /\ worker.at = "send" /\ writer.at # "gone"
    /\ Len(queue) < WriterQueue
    /\ queue' = Append(queue, Barrier)
    /\ worker' = [worker EXCEPT !.at = "recv"]
    /\ UNCHANGED <<sender, session, writer, sequence, ledger, closed, done, left>>

\* The writer is gone: the reconciliation fails.
BarrierFails ==
    /\ worker.at \in {"send", "recv"} /\ writer.at = "gone"
    /\ worker' = Idle
    /\ UNCHANGED <<queue, sender, session, writer, sequence, ledger, closed, done, left>>

\* EOS is written with the sequence.
WriteEos ==
    /\ worker.at = "eos"
    /\ worker' = Idle
    /\ UNCHANGED <<queue, sender, session, writer, sequence, ledger, closed, done, left>>

\* The source was destroyed: retire_source, and then its writer is dropped.
RetireSource ==
    /\ worker = Idle /\ sender
    /\ worker' = [worker EXCEPT !.at = "retired"]
    /\ ledger' = [ledger EXCEPT !.present = FALSE, !.credit = 0, !.lost = FALSE]
    /\ UNCHANGED <<queue, sender, session, writer, sequence, closed, done, left>>

DropWriter ==
    /\ worker.at = "retired"
    /\ worker' = Idle
    /\ sender' = FALSE
    /\ UNCHANGED <<session, queue, writer, sequence, ledger, closed, done, left>>

\* take_source_losses: the writer of a lost source is dropped.
TakeLoss ==
    /\ worker = Idle /\ sender /\ ledger.lost
    /\ sender' = FALSE
    /\ UNCHANGED <<session, queue, writer, sequence, ledger, closed, worker, done, left>>

\* The session is replaced: every writer is dropped, and the receiver of the
\* completions with them.
ReplaceSession ==
    /\ worker = Idle /\ session
    /\ sender' = FALSE /\ session' = FALSE
    /\ UNCHANGED <<queue, writer, sequence, ledger, closed, worker, done, left>>

----------------------------------------------------------------------------
(* The control connection's reader. *)

\* CREDIT, of a source that may have been retired.
Grant ==
    /\ ~closed /\ left.grants > 0
    /\ ledger' = [ledger EXCEPT !.present = TRUE, !.credit = @ + 1]
    /\ left' = [left EXCEPT !.grants = @ - 1]
    /\ UNCHANGED <<queue, sender, session, writer, sequence, closed, worker, done>>

SourceLost ==
    /\ ~closed /\ ledger.present /\ ~ledger.lost
    /\ ledger' = [ledger EXCEPT !.lost = TRUE]
    /\ UNCHANGED <<queue, sender, session, writer, sequence, closed, worker, done, left>>

\* The connection ends, or the heartbeat gives it up.
Close ==
    /\ ~closed
    /\ closed' = TRUE
    /\ UNCHANGED <<queue, sender, session, writer, sequence, ledger, worker, done, left>>

----------------------------------------------------------------------------
(* run_media_writer. *)

Ends(n) ==
    /\ writer' = [at |-> "gone", job |-> None]
    /\ queue' = <<>>
    /\ done' = [done EXCEPT ![n] = "failed"]
    /\ UNCHANGED <<sender, session, sequence, ledger, closed, worker, left>>

\* The next command is a record.
TakeWrite ==
    /\ writer.at = "recv" /\ queue # <<>> /\ Head(queue) # Barrier
    /\ writer' = [at |-> "credit", job |-> Head(queue)]
    /\ queue' = Tail(queue)
    /\ UNCHANGED <<sender, session, sequence, ledger, closed, worker, done, left>>

\* Mutant: a barrier is answered while records are still before it.
TakeBarrierEarly ==
    /\ writer.at # "gone" /\ \E i \in DOMAIN queue : queue[i] = Barrier
    /\ queue' = SelectSeq(queue, LAMBDA c : c # Barrier)
    /\ worker' = [at |-> "eos", told |-> sequence]
    /\ UNCHANGED <<sender, session, writer, sequence, ledger, closed, done, left>>

TakeBarrier ==
    /\ writer.at = "recv" /\ queue # <<>> /\ Head(queue) = Barrier
    /\ queue' = Tail(queue)
    /\ worker' = [at |-> "eos", told |-> sequence]
    /\ UNCHANGED <<sender, session, writer, sequence, ledger, closed, done, left>>

\* Mutant: the thread holds a sender of its own, and is never disconnected.
DisconnectedNever == FALSE /\ UNCHANGED vars

\* No sender is left.
Disconnected ==
    /\ writer.at = "recv" /\ queue = <<>> /\ ~sender
    /\ writer' = [at |-> "gone", job |-> None]
    /\ UNCHANGED <<queue, sender, session, sequence, ledger, closed, worker, done, left>>

\* reserve_outer_credit.
Reserve ==
    /\ writer.at = "credit"
    /\ ledger.present /\ ~ledger.lost /\ ledger.credit > 0
    /\ ledger' = [ledger EXCEPT !.credit = @ - 1]
    /\ writer' = [writer EXCEPT !.at = "socket"]
    /\ UNCHANGED <<queue, sender, session, sequence, closed, worker, done, left>>

\* The ledger is gone, its source lost, or no credit will come.
ReserveFails ==
    /\ writer.at = "credit"
    /\ ~ledger.present \/ ledger.lost \/ (ledger.credit = 0 /\ closed)
    /\ Ends(writer.job)

\* Mutant: the wait for credit has no deadline.
CreditTimeoutNever == FALSE /\ Ends(writer.job)

\* OUTER_CREDIT_TIMEOUT.
CreditTimeout ==
    /\ writer.at = "credit"
    /\ ledger.present /\ ~ledger.lost /\ ledger.credit = 0 /\ ~closed
    /\ Ends(writer.job)

\* The record is written.  With nobody to report it to, the thread ends.
SocketWrites ==
    /\ writer.at = "socket"
    /\ sequence' = sequence + 1
    /\ done' = [done EXCEPT ![writer.job] = "delivered"]
    /\ writer' = [at |-> IF session THEN "recv" ELSE "gone", job |-> None]
    /\ queue' = IF session THEN queue ELSE <<>>
    /\ UNCHANGED <<sender, session, ledger, closed, worker, left>>

SocketFails ==
    /\ writer.at = "socket"
    /\ Ends(writer.job)

----------------------------------------------------------------------------

Init ==
    /\ queue = <<>> /\ sender = TRUE /\ session = TRUE
    /\ writer = [at |-> "recv", job |-> None]
    /\ sequence = 1
    /\ ledger = [present |-> TRUE, lost |-> FALSE, credit |-> 1]
    /\ closed = FALSE
    /\ worker = Idle
    /\ done = [n \in Records |-> "new"]
    /\ left = [writes |-> MaxWrites, grants |-> MaxGrants, barriers |-> MaxBarriers]

WorkerStarts == Forward \/ EndSource \/ RetireSource \/ TakeLoss \/ ReplaceSession
WorkerGoesOn == SendBarrier \/ BarrierFails \/ WriteEos \/ DropWriter
Reader == Grant \/ SourceLost \/ Close
Thread ==
    \/ TakeWrite \/ TakeBarrier \/ Disconnected
    \/ Reserve \/ ReserveFails \/ CreditTimeout
Socket == SocketWrites \/ SocketFails

Next == WorkerStarts \/ WorkerGoesOn \/ Reader \/ Thread \/ Socket

Spec == Init /\ [][Next]_vars

\* The threads run and their deadlines pass; the presenter's socket need not take
\* anything.
BlockedSpec == Spec /\ WF_vars(WorkerGoesOn) /\ WF_vars(Thread)

\* The presenter reads its media connections, or closes them.
FlowingSpec == BlockedSpec /\ WF_vars(Socket)

----------------------------------------------------------------------------
(* Properties *)

\* Type correctness: the queue never holds more than MEDIA_WRITER_QUEUE commands,
\* and the threads are at one of the places where run_media_writer and the bridge
\* worker can wait.
TypeOK ==
    /\ queue \in Seq(Records \cup {Barrier}) /\ Len(queue) <= WriterQueue
    /\ writer.at \in {"recv", "credit", "socket", "gone"}
    /\ writer.job \in Records \cup {None} /\ session \in BOOLEAN
    /\ sequence \in 1 .. MaxWrites + 1
    /\ ledger \in [present : BOOLEAN, lost : BOOLEAN, credit : 0 .. MaxGrants + 1]
    /\ worker.at \in {"idle", "send", "recv", "eos", "retired"}
    /\ done \in [Records -> {"new", "queued", "delivered", "failed"}]

\* The sequence that closes an outer stream is the last one the presenter will
\* see: every record forwarded before the end of stream has been written by then,
\* and is counted.
BarrierCovers ==
    /\ TypeOK
    /\ worker.at = "eos" =>
        /\ \A n \in Records : done[n] # "queued"
        /\ worker.told = 1 + Cardinality({n \in Records : done[n] = "delivered"})

\* The bridge worker, which also serves every other source and the control
\* connection, is never held by one source's writer for ever.
WorkerReturns == worker # Idle ~> worker = Idle

\* The thread of a source that was destroyed, lost or left behind ends.
WriterExits == ~sender ~> writer.at = "gone"

\* No record is stranded: what a writer has accepted is reported as written or as
\* failed, and its delivery given back.
\* The code does not meet this: README, section 3.
EveryWriteCompletes == \A n \in Records : done[n] = "queued" ~> done[n] # "queued"
=============================================================================
