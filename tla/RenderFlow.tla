----------------------------- MODULE RenderFlow -----------------------------
(***************************************************************************)
(* How a composed screen gets from the session actor to the outer          *)
(* terminal: SessionActor::render and its acknowledgements                 *)
(* (src/src/session.rs), the chunked render records (src/src/ipc.rs), and  *)
(* the foreground client's reader thread and terminal writer thread with   *)
(* the byte-bounded queue between them (src/src/client.rs).                *)
(*                                                                         *)
(* Abstractions.  A screen is the frame it was sent as.  The bytes of a    *)
(* frame are 1 .. ChunksPerFrame chunks of one unit, each carrying the     *)
(* frame its diff was taken against (0: a full repaint, valid on any       *)
(* screen); a title, bell or clipboard write is one unit.  The connection  *)
(* is two FIFO channels.  The actor's inbox is shared by all connections,  *)
(* so the messages of a replaced client can still be in it.                *)
(***************************************************************************)
EXTENDS Integers, Sequences, FiniteSets

CONSTANTS
    Window,          \* MAX_UNACKNOWLEDGED_FRAMES
    SequenceCap,     \* cap on frame_sequences
    QueueLimit,      \* OUTPUT_QUEUE_BYTES, in chunks
    ChunksPerFrame,  \* bound: chunks of one frame
    MaxSequence,     \* bound: session changes
    MaxClient,       \* bound: clients that attach one after the other
    MaxControl       \* bound: control writes

\* A full repaint fits the client's queue.
ASSUME FlowAssumption ==
    /\ Window \in Nat \ {0}
    /\ SequenceCap \in Nat /\ Window <= SequenceCap
    /\ QueueLimit \in Nat
    /\ ChunksPerFrame \in 1 .. QueueLimit
    /\ MaxSequence \in Nat /\ MaxClient \in Nat /\ MaxControl \in Nat

VARIABLES
    \* the actor
    session_sequence,
    frame_id,
    pending_render,
    force_full,
    last_screen,                \* frame the next diff is taken against, 0 for None
    attached,                   \* identifier of the attached client, 0 for None
    clients,                    \* clients that attached so far
    acknowledged_frame,
    frame_sequences,            \* frames sent and not acknowledged, oldest first
    rendered_session_sequence,
    inbox,                      \* messages of clients to the actor
    \* the attached client
    to_client,                  \* records on their way to the reader thread
    overflowed,                 \* the reader owes the server a RenderResync
    jobs,                       \* OutputQueue.jobs
    queue_bytes,                \* OutputQueue.bytes
    writer,                     \* what the writer thread holds
    \* the outer terminal
    screen,
    shown,                      \* newest session sequence ever shown intact
    controls                    \* control writes sent so far

actor == <<session_sequence, frame_id, pending_render, force_full, last_screen,
           attached, clients, acknowledged_frame, frame_sequences,
           rendered_session_sequence>>
client == <<overflowed, jobs, queue_bytes, writer>>
terminal == <<screen, shown>>
vars == <<actor, inbox, to_client, client, terminal, controls>>

Chunks == [kind : {"frame"}, frame : Nat, sequence : Nat, full : BOOLEAN,
           base : Nat, index : Nat, last : BOOLEAN]
Control == [kind |-> "control"]
Records == Chunks \cup {Control}
Messages == [client : Nat, kind : {"ack"}, frame : Nat]
            \cup [client : Nat, kind : {"resync"}]
Idle == [kind |-> "idle"]
Acks == [kind : {"ack"}, frame : Nat]

\* What the outer terminal shows: the frame written last, how many of its
\* chunks are written (0 once it is complete), and whether every chunk landed
\* on the screen it was computed for.
Screens == [frame : Nat, part : Nat, intact : BOOLEAN]
Blank == [frame |-> 0, part |-> 0, intact |-> FALSE]

----------------------------------------------------------------------------
(* The actor. *)

\* Any handler that changes the session; some of them force a full repaint.
Change(full) ==
    /\ session_sequence < MaxSequence
    /\ session_sequence' = session_sequence + 1
    /\ pending_render' = TRUE
    /\ force_full' = (force_full \/ full)
    /\ UNCHANGED <<frame_id, last_screen, attached, clients, acknowledged_frame,
                   frame_sequences, rendered_session_sequence, inbox, to_client,
                   client, terminal, controls>>

\* Mutant: the window is one frame too wide.
GatedLate == frame_id - acknowledged_frame > Window

Gated == frame_id - acknowledged_frame >= Window

\* send_render_record: the full flag is on the first chunk only.
FrameChunks(n) ==
    [i \in 1 .. n |->
        [kind |-> "frame", frame |-> frame_id + 1, sequence |-> session_sequence,
         full |-> force_full /\ i = 1,
         base |-> IF force_full THEN 0 ELSE last_screen,
         index |-> i, last |-> (i = n)]]

Recorded(fs) == IF Len(fs) > SequenceCap THEN Tail(fs) ELSE fs

\* render with a client whose window is open.
Render(n) ==
    /\ pending_render
    /\ attached # 0
    /\ ~Gated
    /\ pending_render' = FALSE
    /\ frame_id' = frame_id + 1
    /\ to_client' = to_client \o FrameChunks(n)
    /\ last_screen' = frame_id + 1
    /\ frame_sequences' = Recorded(Append(frame_sequences,
                            [frame |-> frame_id + 1, sequence |-> session_sequence]))
    /\ force_full' = FALSE
    /\ UNCHANGED <<session_sequence, attached, clients, acknowledged_frame,
                   rendered_session_sequence, inbox, client, terminal, controls>>

\* render with nobody attached.
RenderNobody ==
    /\ pending_render
    /\ attached = 0
    /\ pending_render' = FALSE
    /\ UNCHANGED <<session_sequence, frame_id, force_full, last_screen, attached, clients,
                   acknowledged_frame, frame_sequences, rendered_session_sequence, inbox,
                   to_client, client, terminal, controls>>

\* attached = None: the client's record goes, its window with it.
ForgetClient ==
    /\ attached' = 0
    /\ acknowledged_frame' = 0
    /\ frame_sequences' = <<>>
    /\ rendered_session_sequence' = 0
    /\ last_screen' = 0

\* render when the frame cannot be sent.
FrameDeliveryFails ==
    /\ pending_render
    /\ attached # 0
    /\ ~Gated
    /\ pending_render' = FALSE
    /\ frame_id' = frame_id + 1
    /\ force_full' = FALSE
    /\ ForgetClient
    /\ UNCHANGED <<session_sequence, clients, inbox, to_client, client, terminal, controls>>

\* Detach, or the connection is lost, which also forces a full repaint.
Leave(lost) ==
    /\ attached # 0
    /\ force_full' = (force_full \/ lost)
    /\ ForgetClient
    /\ UNCHANGED <<session_sequence, frame_id, pending_render, clients, inbox, to_client,
                   client, terminal, controls>>

\* A handler that cannot send its answer returns early, as Detach does, and the
\* event loop asks for a full repaint.
HandlerFails ==
    /\ attached # 0
    /\ force_full' = TRUE
    /\ UNCHANGED <<session_sequence, frame_id, pending_render, last_screen, attached, clients,
                   acknowledged_frame, frame_sequences, rendered_session_sequence, inbox,
                   to_client, client, terminal, controls>>

\* A client attaches, replacing the one that is there.  Its window starts at the
\* current frame and its terminal shows nothing of the session.
Attach ==
    /\ clients < MaxClient
    /\ clients' = clients + 1
    /\ attached' = clients + 1
    /\ acknowledged_frame' = frame_id
    /\ rendered_session_sequence' = 0
    /\ frame_sequences' = <<>>
    /\ last_screen' = 0
    /\ force_full' = TRUE
    /\ pending_render' = TRUE
    /\ to_client' = <<>>
    /\ overflowed' = FALSE
    /\ jobs' = <<>>
    /\ queue_bytes' = 0
    /\ writer' = Idle
    /\ screen' = Blank
    /\ shown' = 0
    /\ UNCHANGED <<session_sequence, frame_id, inbox, controls>>

\* Title, bell, clipboard and status writes.
SendControl ==
    /\ attached # 0
    /\ controls < MaxControl
    /\ controls' = controls + 1
    /\ to_client' = Append(to_client, Control)
    /\ UNCHANGED <<actor, inbox, client, terminal>>

\* Mutant: the acknowledged frame itself keeps its entry.
AckedPrefixStrict(fs, f, k) ==
    /\ \A i \in 1 .. k : fs[i].frame < f
    /\ k < Len(fs) => fs[k + 1].frame >= f

\* The acknowledgement loop stops at the first frame that is newer.
AckedPrefix(fs, f, k) ==
    /\ \A i \in 1 .. k : fs[i].frame <= f
    /\ k < Len(fs) => fs[k + 1].frame > f

\* An acknowledgement within the window records what it shows; any other one
\* only asks for a full repaint at the next render.
Acknowledge(f) ==
    \/ /\ f < acknowledged_frame \/ f > frame_id
       /\ force_full' = TRUE
       /\ UNCHANGED <<acknowledged_frame, frame_sequences, rendered_session_sequence>>
    \/ /\ f >= acknowledged_frame /\ f <= frame_id
       /\ acknowledged_frame' = f
       /\ \E k \in 0 .. Len(frame_sequences) :
            LET seen == {rendered_session_sequence}
                        \cup {frame_sequences[i].sequence : i \in 1 .. k}
            IN  /\ AckedPrefix(frame_sequences, f, k)
                /\ frame_sequences' = SubSeq(frame_sequences, k + 1, Len(frame_sequences))
                /\ \E s \in seen :
                      /\ \A t \in seen : s >= t
                      /\ rendered_session_sequence' = s
       /\ UNCHANGED force_full

RenderAck ==
    /\ inbox # <<>>
    /\ Head(inbox).kind = "ack"
    /\ Head(inbox).client = attached
    /\ inbox' = Tail(inbox)
    /\ Acknowledge(Head(inbox).frame)
    /\ UNCHANGED <<session_sequence, frame_id, pending_render, last_screen, attached,
                   clients, to_client, client, terminal, controls>>

\* Mutant: the evidence of discarded frames stays.
RenderResyncKeepingFrames ==
    /\ inbox # <<>>
    /\ Head(inbox).kind = "resync"
    /\ Head(inbox).client = attached
    /\ inbox' = Tail(inbox)
    /\ acknowledged_frame' = frame_id
    /\ force_full' = TRUE
    /\ last_screen' = 0
    /\ pending_render' = TRUE
    /\ UNCHANGED <<session_sequence, frame_id, attached, clients, frame_sequences,
                   rendered_session_sequence, to_client, client, terminal, controls>>

\* Mutant: the discarded backlog still fills the window.
RenderResyncKeepingWindow ==
    /\ inbox # <<>>
    /\ Head(inbox).kind = "resync"
    /\ Head(inbox).client = attached
    /\ inbox' = Tail(inbox)
    /\ frame_sequences' = <<>>
    /\ force_full' = TRUE
    /\ last_screen' = 0
    /\ pending_render' = TRUE
    /\ UNCHANGED <<session_sequence, frame_id, attached, clients, acknowledged_frame,
                   rendered_session_sequence, to_client, client, terminal, controls>>

\* Mutant: no render is scheduled for the full repaint.
RenderResyncUnscheduled ==
    /\ inbox # <<>>
    /\ Head(inbox).kind = "resync"
    /\ Head(inbox).client = attached
    /\ inbox' = Tail(inbox)
    /\ acknowledged_frame' = frame_id
    /\ frame_sequences' = <<>>
    /\ force_full' = TRUE
    /\ last_screen' = 0
    /\ UNCHANGED <<session_sequence, frame_id, pending_render, attached, clients,
                   rendered_session_sequence, to_client, client, terminal, controls>>

\* The discarded backlog counts as acknowledged.
RenderResync ==
    /\ inbox # <<>>
    /\ Head(inbox).kind = "resync"
    /\ Head(inbox).client = attached
    /\ inbox' = Tail(inbox)
    /\ acknowledged_frame' = frame_id
    /\ frame_sequences' = <<>>
    /\ force_full' = TRUE
    /\ last_screen' = 0
    /\ pending_render' = TRUE
    /\ UNCHANGED <<session_sequence, frame_id, attached, clients,
                   rendered_session_sequence, to_client, client, terminal, controls>>

\* A message of a client that is not attached any more is ignored.
StaleMessage ==
    /\ inbox # <<>>
    /\ Head(inbox).client # attached
    /\ inbox' = Tail(inbox)
    /\ UNCHANGED <<actor, to_client, client, terminal, controls>>

----------------------------------------------------------------------------
(* The client's reader thread.  It goes on after the actor dropped it, until *)
(* another client attaches.                                                  *)

IsControl(record) == record.kind = "control"

\* retain(Control): the queued control writes, which are all alike here.
ControlsOf(js) ==
    [i \in 1 .. Cardinality({j \in 1 .. Len(js) : IsControl(js[j])}) |-> Control]

\* Mutant: the queue is discarded without telling the server.
enqueue_frameSilently(chunk) ==
    LET kept  == IF chunk.full THEN ControlsOf(jobs) ELSE jobs
        bytes == IF chunk.full THEN 0 ELSE queue_bytes
    IN  /\ jobs' = IF bytes + 1 > QueueLimit THEN <<>> ELSE Append(kept, chunk)
        /\ queue_bytes' = IF bytes + 1 > QueueLimit THEN 0 ELSE bytes + 1
        /\ UNCHANGED overflowed

\* enqueue_frame: a full repaint discards the queued frames, and the queue is
\* discarded when the chunk does not fit.
enqueue_frame(chunk) ==
    LET kept  == IF chunk.full THEN ControlsOf(jobs) ELSE jobs
        bytes == IF chunk.full THEN 0 ELSE queue_bytes
    IN  \/ /\ bytes + 1 > QueueLimit
           /\ jobs' = <<>>
           /\ queue_bytes' = 0
           /\ overflowed' = TRUE
        \/ /\ bytes + 1 <= QueueLimit
           /\ jobs' = Append(kept, chunk)
           /\ queue_bytes' = bytes + 1
           /\ UNCHANGED overflowed

ReadFrame ==
    /\ ~overflowed
    /\ to_client # <<>>
    /\ ~IsControl(Head(to_client))
    /\ to_client' = Tail(to_client)
    /\ enqueue_frame(Head(to_client))
    /\ UNCHANGED <<actor, inbox, writer, terminal, controls>>

ReadControl ==
    /\ ~overflowed
    /\ to_client # <<>>
    /\ IsControl(Head(to_client))
    /\ to_client' = Tail(to_client)
    /\ jobs' = Append(jobs, Control)
    /\ queue_bytes' = queue_bytes + 1
    /\ UNCHANGED <<actor, inbox, overflowed, writer, terminal, controls>>

\* The reader asks for a full redraw before it reads on.
SendResync ==
    /\ overflowed
    /\ overflowed' = FALSE
    /\ inbox' = Append(inbox, [client |-> clients, kind |-> "resync"])
    /\ UNCHANGED <<actor, to_client, jobs, queue_bytes, writer, terminal, controls>>

----------------------------------------------------------------------------
(* The client's writer thread and the outer terminal. *)

TakeJob ==
    /\ writer = Idle
    /\ jobs # <<>>
    /\ writer' = Head(jobs)
    /\ jobs' = Tail(jobs)
    /\ queue_bytes' = IF queue_bytes = 0 THEN 0 ELSE queue_bytes - 1
    /\ UNCHANGED <<actor, inbox, to_client, overflowed, terminal, controls>>

\* A chunk lands intact when the screen is the one its diff was taken against,
\* and the earlier chunks of its frame are all there.
LandsIntact(chunk) ==
    IF chunk.index = 1
    THEN \/ chunk.base = 0
         \/ screen.intact /\ screen.part = 0 /\ screen.frame = chunk.base
    ELSE screen.intact /\ screen.frame = chunk.frame /\ screen.part = chunk.index - 1

WriteFrame ==
    /\ writer.kind = "frame"
    /\ screen' = [frame |-> writer.frame,
                  part |-> IF writer.last THEN 0 ELSE writer.index,
                  intact |-> LandsIntact(writer)]
    /\ shown' = IF writer.last /\ LandsIntact(writer) /\ writer.sequence > shown
                THEN writer.sequence ELSE shown
    /\ writer' = IF writer.last THEN [kind |-> "ack", frame |-> writer.frame] ELSE Idle
    /\ UNCHANGED <<actor, inbox, to_client, overflowed, jobs, queue_bytes, controls>>

WriteControl ==
    /\ writer = Control
    /\ writer' = Idle
    /\ UNCHANGED <<actor, inbox, to_client, overflowed, jobs, queue_bytes, terminal, controls>>

\* Only once the bytes of the last chunk reached the terminal.
SendAck ==
    /\ writer.kind = "ack"
    /\ writer' = Idle
    /\ inbox' = Append(inbox, [client |-> clients, kind |-> "ack", frame |-> writer.frame])
    /\ UNCHANGED <<actor, to_client, overflowed, jobs, queue_bytes, terminal, controls>>

----------------------------------------------------------------------------
Init ==
    /\ session_sequence = 0
    /\ frame_id = 0
    /\ pending_render = FALSE
    /\ force_full = TRUE
    /\ last_screen = 0
    /\ attached = 0
    /\ clients = 0
    /\ acknowledged_frame = 0
    /\ frame_sequences = <<>>
    /\ rendered_session_sequence = 0
    /\ inbox = <<>>
    /\ to_client = <<>>
    /\ overflowed = FALSE
    /\ jobs = <<>>
    /\ queue_bytes = 0
    /\ writer = Idle
    /\ screen = Blank
    /\ shown = 0
    /\ controls = 0

Rendering == \E n \in 1 .. ChunksPerFrame : Render(n)

Handling == RenderAck \/ RenderResync \/ StaleMessage

Reading == ReadFrame \/ ReadControl \/ SendResync

Writing == TakeJob \/ WriteFrame \/ WriteControl \/ SendAck

Next ==
    \/ \E full \in BOOLEAN : Change(full)
    \/ \E lost \in BOOLEAN : Leave(lost)
    \/ RenderNobody \/ FrameDeliveryFails \/ HandlerFails \/ Attach \/ SendControl
    \/ Rendering \/ Handling \/ Reading \/ Writing

Spec == Init /\ [][Next]_vars

\* The actor keeps serving its inbox and its render deadline, the client's
\* threads run, and the outer terminal takes what is written to it.
Fairness == WF_vars(Rendering) /\ WF_vars(Handling) /\ WF_vars(Reading) /\ WF_vars(Writing)

FairSpec == Spec /\ Fairness

----------------------------------------------------------------------------
(* What must hold. *)

FrameSequences == [frame : Nat, sequence : Nat]

\* Every variable has its type.
TypeOK ==
    /\ session_sequence \in Nat
    /\ frame_id \in Nat
    /\ pending_render \in BOOLEAN
    /\ force_full \in BOOLEAN
    /\ last_screen \in Nat
    /\ attached \in Nat
    /\ clients \in Nat
    /\ acknowledged_frame \in Nat
    /\ frame_sequences \in Seq(FrameSequences)
    /\ rendered_session_sequence \in Nat
    /\ inbox \in Seq(Messages)
    /\ to_client \in Seq(Records)
    /\ overflowed \in BOOLEAN
    /\ jobs \in Seq(Records)
    /\ queue_bytes \in Nat
    /\ writer \in Records \cup Acks \cup {Idle}
    /\ screen \in Screens
    /\ shown \in Nat
    /\ controls \in Nat

\* At most Window frames are sent and not acknowledged, whatever stale or
\* duplicated acknowledgements, resyncs and replaced clients do to the window.
WindowRespected ==
    attached # 0 =>
    /\ acknowledged_frame <= frame_id
    /\ frame_id - acknowledged_frame <= Window

\* Every unacknowledged frame since the window was last reset has its entry in
\* frame_sequences: the list is the newest frames without a hole, never longer
\* than the window, so that the cap never drops the evidence a wait for a
\* rendered sequence is waiting for.
NoEvidenceLost ==
    attached # 0 =>
    /\ Len(frame_sequences) <= frame_id - acknowledged_frame
    /\ \A i \in 1 .. Len(frame_sequences) :
          frame_sequences[i].frame = frame_id - Len(frame_sequences) + i

\* The sequence reported as rendered was on the screen of the attached client,
\* in an intact frame: no acknowledgement of a discarded, superseded, half
\* written or foreign frame counts (RenderAck against RenderResync and Attach).
RenderedWasShown == attached # 0 => rendered_session_sequence <= shown

\* Nothing is on its way to the terminal or asked for.
Quiet ==
    /\ attached # 0
    /\ to_client = <<>>
    /\ ~overflowed
    /\ \A i \in 1 .. Len(jobs) : IsControl(jobs[i])
    /\ writer.kind # "frame"
    /\ ~force_full
    /\ \A i \in 1 .. Len(inbox) : inbox[i].kind = "resync" => inbox[i].client # attached

\* Whenever nothing is under way the terminal shows exactly the screen that the
\* next diff will be taken against: a discarded backlog never leaves the two
\* sides silently disagreeing (enqueue_frame, RenderResync, ansi_diff).
QuietScreenAgrees ==
    TypeOK /\ (Quiet => screen.intact /\ screen.part = 0 /\ screen.frame = last_screen)

\* The frame bytes queued for the terminal stay within OUTPUT_QUEUE_BYTES.
\* The code does not meet this: README, section 3.
QueueBounded ==
    Cardinality({i \in 1 .. Len(jobs) : ~IsControl(jobs[i])}) <= QueueLimit

\* Under fairness a scheduled render is sent, or the client leaves: the gate
\* never closes for good.
RenderNotStuck == (pending_render /\ attached # 0) ~> (~pending_render \/ attached = 0)

\* Under fairness every session change is eventually on the attached client's
\* screen, through overflows and resyncs.
ChangeIsShown ==
    \A s \in 1 .. MaxSequence, c \in 1 .. MaxClient :
        (session_sequence >= s /\ attached = c) ~> (shown >= s \/ attached # c)
=============================================================================
