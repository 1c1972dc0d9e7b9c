-------------------------- MODULE RenderFlowProofs --------------------------
(***************************************************************************)
(* Proofs about RenderFlow, for every window, queue limit, chunk count and *)
(* number of clients, changes and control writes.                          *)
(***************************************************************************)
EXTENDS RenderFlow, SequenceTheorems, FiniteSetTheorems, TLAPS

USE FlowAssumption

\* The chunks of a frame are a sequence of records.
LEMMA FrameChunksType ==
    ASSUME TypeOK, NEW n \in 1 .. ChunksPerFrame
    PROVE  FrameChunks(n) \in Seq(Records)
<1>1. n \in Nat
    OBVIOUS
<1>2. FrameChunks(n) \in [1 .. n -> Records]
    BY <1>1 DEF TypeOK, FrameChunks, Records, Chunks
<1>. QED
    BY <1>1, <1>2, SeqDef

\* What a full repaint keeps of the queue is a sequence of records.
LEMMA ControlsOfType ==
    ASSUME NEW js \in Seq(Records)
    PROVE  ControlsOf(js) \in Seq(Records)
<1>. DEFINE held == {j \in 1 .. Len(js) : IsControl(js[j])}
<1>0. IsFiniteSet(1 .. Len(js))
    BY FS_Interval, LenProperties
<1>1. IsFiniteSet(held)
    BY <1>0, FS_Subset
<1>2. Cardinality(held) \in Nat
    BY <1>1, FS_CardinalityType
<1>3. ControlsOf(js) \in [1 .. Cardinality(held) -> Records]
    BY DEF ControlsOf, Records
<1>. QED
    BY <1>2, <1>3, SeqDef

\* Empty lists, queues and channels have their types.
LEMMA EmptyTypes ==
    /\ <<>> \in Seq(FrameSequences)
    /\ <<>> \in Seq(Messages)
    /\ <<>> \in Seq(Records)
    /\ Blank \in Screens
BY EmptySeq DEF Blank, Screens

\* The initial state has the right types.
LEMMA InitType == Init => TypeOK
<1>. SUFFICES ASSUME Init PROVE TypeOK
    OBVIOUS
<1>1. pending_render \in BOOLEAN /\ force_full \in BOOLEAN /\ overflowed \in BOOLEAN
    BY Zenon DEF Init
<1>. QED
    BY <1>1, EmptyTypes DEF Init, TypeOK

\* Every step of the actor, the reader and the writer keeps the types.
LEMMA StepType == TypeOK /\ [Next]_vars => TypeOK'
<1>. SUFFICES ASSUME TypeOK, [Next]_vars PROVE TypeOK'
    OBVIOUS
<1>. USE DEF TypeOK
<1>1. CASE UNCHANGED vars
    BY <1>1 DEF vars, actor, client, terminal
<1>2. ASSUME NEW full \in BOOLEAN, Change(full) PROVE TypeOK'
    BY <1>2 DEF Change, client, terminal
<1>3. ASSUME NEW lost \in BOOLEAN, Leave(lost) PROVE TypeOK'
    BY <1>3, EmptyTypes DEF Leave, ForgetClient, client, terminal
<1>4. CASE RenderNobody
    BY <1>4 DEF RenderNobody, client, terminal
<1>5. CASE FrameDeliveryFails
  <2>1. pending_render' \in BOOLEAN /\ force_full' \in BOOLEAN
    BY <1>5, Zenon DEF FrameDeliveryFails
  <2>. QED
    BY <1>5, <2>1, EmptyTypes DEF FrameDeliveryFails, ForgetClient, client, terminal
<1>6. CASE Attach
  <2>1. pending_render' \in BOOLEAN /\ force_full' \in BOOLEAN /\ overflowed' \in BOOLEAN
    BY <1>6, Zenon DEF Attach
  <2>. QED
    BY <1>6, <2>1, EmptyTypes DEF Attach
<1>7. CASE SendControl
    BY <1>7, AppendProperties DEF SendControl, Records, actor, client, terminal
<1>8. ASSUME NEW n \in 1 .. ChunksPerFrame, Render(n) PROVE TypeOK'
  <2>1. to_client' \in Seq(Records)
    BY <1>8, FrameChunksType, ConcatProperties DEF Render
  <2>. DEFINE entry == [frame |-> frame_id + 1, sequence |-> session_sequence]
  <2>2. entry \in FrameSequences
    BY DEF FrameSequences
  <2>3. /\ Append(frame_sequences, entry) \in Seq(FrameSequences)
        /\ Append(frame_sequences, entry) # <<>>
    BY <2>2, AppendProperties
  <2>4. frame_sequences' \in Seq(FrameSequences)
    BY <1>8, <2>3, HeadTailProperties DEF Render, Recorded
  <2>5. pending_render' \in BOOLEAN /\ force_full' \in BOOLEAN
    BY <1>8, Zenon DEF Render
  <2>. QED
    BY <1>8, <2>1, <2>4, <2>5 DEF Render, client, terminal
<1>9. CASE RenderAck
  <2>1. Head(inbox) \in Messages /\ inbox' \in Seq(Messages)
    BY <1>9, HeadTailProperties DEF RenderAck
  <2>2. Head(inbox).frame \in Nat
    BY <1>9, <2>1 DEF RenderAck, Messages
  <2>. DEFINE AckTypes ==
                /\ acknowledged_frame' \in Nat
                /\ frame_sequences' \in Seq(FrameSequences)
                /\ rendered_session_sequence' \in Nat
                /\ force_full' \in BOOLEAN
  <2>3. AckTypes
    <3>. DEFINE fs == frame_sequences
                seen(k) == {rendered_session_sequence} \cup {fs[i].sequence : i \in 1 .. k}
    <3>1. CASE /\ force_full' = TRUE
               /\ UNCHANGED <<acknowledged_frame, frame_sequences, rendered_session_sequence>>
      BY <3>1, Zenon
    <3>2. ASSUME /\ acknowledged_frame' = Head(inbox).frame
                 /\ UNCHANGED force_full,
                 NEW k \in 0 .. Len(fs),
                 fs' = SubSeq(fs, k + 1, Len(fs)),
                 NEW s \in seen(k),
                 rendered_session_sequence' = s
          PROVE  AckTypes
      <4>1. \A i \in 1 .. Len(fs) : fs[i] \in FrameSequences
        BY ElementOfSeq
      <4>0. \A i \in 1 .. k : fs[i].sequence \in Nat
        <5>1. \A e \in FrameSequences : e.sequence \in Nat
          BY Zenon DEF FrameSequences
        <5>2. Len(fs) \in Nat
          BY LenProperties
        <5>3. \A i \in 1 .. k : i \in 1 .. Len(fs)
          BY <5>2
        <5>. QED
          BY <4>1, <5>1, <5>3, Zenon
      <4>2. s \in Nat
        BY <4>0, <3>2
      <4>3. fs' \in Seq(FrameSequences)
        BY <3>2, <4>1, SubSeqProperties, LenProperties
      <4>. QED
        BY <2>2, <3>2, <4>2, <4>3
    <3>. QED
      BY <1>9, <3>1, <3>2, Zenon DEF RenderAck, Acknowledge
  <2>. QED
    BY <1>9, <2>1, <2>3 DEF RenderAck, client, terminal
<1>10. CASE RenderResync
    BY <1>10, HeadTailProperties, EmptyTypes DEF RenderResync, client, terminal
<1>11. CASE StaleMessage
    BY <1>11, HeadTailProperties DEF StaleMessage, actor, client, terminal
<1>12. CASE ReadFrame
  <2>1. Head(to_client) \in Records /\ to_client' \in Seq(Records)
    BY <1>12, HeadTailProperties DEF ReadFrame
  <2>. DEFINE chunk == Head(to_client)
              kept == IF chunk.full THEN ControlsOf(jobs) ELSE jobs
              bytes == IF chunk.full THEN 0 ELSE queue_bytes
              QueueTypes == /\ jobs' \in Seq(Records)
                            /\ queue_bytes' \in Nat
                            /\ overflowed' \in BOOLEAN
  <2>2. QueueTypes
    <3>1. kept \in Seq(Records) /\ bytes \in Nat
      BY ControlsOfType
    <3>2. CASE jobs' = <<>> /\ queue_bytes' = 0 /\ overflowed' = TRUE
      BY <3>2, EmptyTypes
    <3>3. CASE /\ jobs' = Append(kept, chunk)
               /\ queue_bytes' = bytes + 1
               /\ UNCHANGED overflowed
      BY <2>1, <3>1, <3>3, AppendProperties
    <3>. QED
      BY <1>12, <3>2, <3>3, Zenon DEF ReadFrame, enqueue_frame
  <2>. QED
    BY <1>12, <2>1, <2>2 DEF ReadFrame, actor, terminal
<1>13. CASE ReadControl
  <2>1. to_client' \in Seq(Records)
    BY <1>13, HeadTailProperties DEF ReadControl
  <2>2. jobs' \in Seq(Records)
    BY <1>13, AppendProperties DEF ReadControl, Records
  <2>. QED
    BY <1>13, <2>1, <2>2 DEF ReadControl, actor, terminal
<1>14. CASE SendResync
  <2>1. [client |-> clients, kind |-> "resync"] \in Messages
    BY DEF Messages
  <2>. QED
    BY <1>14, <2>1, AppendProperties DEF SendResync, actor, terminal
<1>15. CASE TakeJob
    BY <1>15, HeadTailProperties DEF TakeJob, actor, terminal
<1>16. CASE WriteFrame
  <2>1. writer \in Chunks
    BY <1>16 DEF WriteFrame, Records, Control, Acks, Idle
  <2>2. /\ screen' \in Screens
        /\ shown' \in Nat
        /\ writer' \in Acks \cup {Idle}
    BY <1>16, <2>1 DEF WriteFrame, Chunks, Screens, Acks, LandsIntact
  <2>. QED
    BY <1>16, <2>2 DEF WriteFrame, actor
<1>17. CASE WriteControl
    BY <1>17 DEF WriteControl, actor, terminal
<1>18. CASE SendAck
  <2>1. writer \in Acks
    BY <1>18 DEF SendAck, Records, Chunks, Control, Idle
  <2>2. [client |-> clients, kind |-> "ack", frame |-> writer.frame] \in Messages
    BY <2>1 DEF Messages, Acks
  <2>. QED
    BY <1>18, <2>2, AppendProperties DEF SendAck, actor, terminal
<1>19. CASE HandlerFails
    BY <1>19, Zenon DEF HandlerFails, client, terminal, TypeOK
<1>. QED
    BY <1>1, <1>2, <1>3, <1>4, <1>5, <1>6, <1>7, <1>8, <1>9, <1>10, <1>11, <1>12,
       <1>13, <1>14, <1>15, <1>16, <1>17, <1>18, <1>19
    DEF Next, Rendering, Handling, Reading, Writing

\* The variables of the actor, the client and the terminal keep their types,
\* in particular the byte count of the queue never goes below zero.
THEOREM TypeCorrect == Spec => []TypeOK
BY InitType, StepType, PTL DEF Spec

----------------------------------------------------------------------------
\* What the render gate, the acknowledgements and the two ways of resetting the
\* window keep together.  Neither half is inductive alone: that the list is no
\* longer than the window follows from the gate, and an acknowledgement shortens
\* both by the same number only because the list has no hole.
FlowInv == TypeOK /\ WindowRespected /\ NoEvidenceLost

\* The entries of the list that a valid acknowledgement of frame f leaves are
\* the frames after f.
LEMMA AckKeepsNewer ==
    ASSUME FlowInv, attached # 0,
           NEW f \in Nat, f >= acknowledged_frame, f <= frame_id,
           NEW k \in 0 .. Len(frame_sequences),
           AckedPrefix(frame_sequences, f, k)
    PROVE  LET rest == SubSeq(frame_sequences, k + 1, Len(frame_sequences))
           IN  /\ Len(rest) <= frame_id - f
               /\ \A i \in 1 .. Len(rest) : rest[i].frame = frame_id - Len(rest) + i
<1>. DEFINE fs == frame_sequences
            n == Len(fs)
            rest == SubSeq(fs, k + 1, n)
<1>1. n \in Nat /\ fs \in Seq(FrameSequences)
    BY LenProperties DEF FlowInv, TypeOK
<1>2. \A i \in 1 .. n : fs[i].frame = frame_id - n + i
    BY DEF FlowInv, NoEvidenceLost
<1>3. /\ Len(rest) = IF k + 1 <= n THEN n - k ELSE 0
      /\ \A i \in 1 .. n - k : rest[i] = fs[k + i]
  <2>1. \A i \in k + 1 .. n : fs[i] \in FrameSequences
    BY <1>1, ElementOfSeq
  <2>2. /\ Len(rest) = IF k + 1 <= n THEN n - (k + 1) + 1 ELSE 0
        /\ \A i \in 1 .. n - (k + 1) + 1 : rest[i] = fs[(k + 1) + i - 1]
    BY <1>1, <2>1, SubSeqProperties
  <2>. QED
    BY <1>1, <2>2
<1>4. Len(rest) = n - k
    BY <1>1, <1>3
<1>5. k < n => frame_id - n + (k + 1) > f
    BY <1>1, <1>2 DEF AckedPrefix
<1>6. Len(rest) <= frame_id - f
    BY <1>1, <1>4, <1>5 DEF FlowInv, TypeOK
<1>7. \A i \in 1 .. Len(rest) : rest[i].frame = frame_id - Len(rest) + i
  <2>. SUFFICES ASSUME NEW i \in 1 .. Len(rest)
                PROVE  rest[i].frame = frame_id - Len(rest) + i
    OBVIOUS
  <2>1. i \in 1 .. n - k /\ k + i \in 1 .. n
    BY <1>1, <1>4
  <2>2. rest[i].frame = frame_id - n + (k + i)
    BY <1>2, <1>3, <2>1
  <2>. HIDE DEF rest
  <2>. QED
    BY <1>1, <1>4, <2>1, <2>2 DEF FlowInv, TypeOK
<1>. QED
    BY <1>6, <1>7

\* Sending a frame extends the list by the newest frame, and the cap drops
\* nothing.
LEMMA RenderKeepsFlow ==
    ASSUME FlowInv, NEW n \in 1 .. ChunksPerFrame, Render(n)
    PROVE  WindowRespected' /\ NoEvidenceLost'
<1>. DEFINE fs == frame_sequences
            entry == [frame |-> frame_id + 1, sequence |-> session_sequence]
<1>1. fs \in Seq(FrameSequences) /\ Len(fs) \in Nat /\ entry \in FrameSequences
    BY LenProperties DEF FlowInv, TypeOK, FrameSequences
<1>2. /\ Len(Append(fs, entry)) = Len(fs) + 1
      /\ \A i \in 1 .. Len(fs) : Append(fs, entry)[i] = fs[i]
      /\ Append(fs, entry)[Len(fs) + 1] = entry
    BY <1>1, AppendProperties
<1>3. /\ attached # 0 /\ attached' = attached
      /\ frame_id' = frame_id + 1
      /\ acknowledged_frame' = acknowledged_frame
      /\ frame_id - acknowledged_frame < Window
    BY DEF Render, Gated, FlowInv, TypeOK
<1>4. Len(fs) + 1 <= SequenceCap
    BY <1>1, <1>3, SMTT(30) DEF FlowInv, NoEvidenceLost, TypeOK
<1>5. frame_sequences' = Append(fs, entry)
    BY <1>1, <1>2, <1>4 DEF Render, Recorded
<1>6. WindowRespected'
    BY <1>3 DEF FlowInv, TypeOK, WindowRespected
<1>7. NoEvidenceLost'
  <2>1. Len(fs)' = Len(fs) + 1 /\ frame_id \in Nat /\ acknowledged_frame \in Nat
    BY <1>2, <1>5 DEF FlowInv, TypeOK
  <2>2. Len(fs) <= frame_id - acknowledged_frame
    BY <1>3 DEF FlowInv, NoEvidenceLost
  <2>3. ASSUME NEW i \in 1 .. Len(fs) + 1
        PROVE  fs'[i].frame = (frame_id + 1) - (Len(fs) + 1) + i
    <3>1. CASE i = Len(fs) + 1
      BY <1>1, <1>2, <1>5, <2>1, <3>1
    <3>2. CASE i \in 1 .. Len(fs)
      <4>1. fs'[i] = fs[i] /\ fs[i].frame = frame_id - Len(fs) + i
        BY <1>2, <1>3, <1>5, <3>2 DEF FlowInv, NoEvidenceLost
      <4>. QED
        BY <1>1, <2>1, <4>1
    <3>. QED
      BY <1>1, <3>1, <3>2
  <2>. QED
    BY <1>1, <1>3, <2>1, <2>2, <2>3 DEF NoEvidenceLost
<1>. QED
    BY <1>6, <1>7

\* Every step keeps the window and the list of its frames together.
LEMMA StepFlow == FlowInv /\ [Next]_vars => FlowInv'
<1>. SUFFICES ASSUME FlowInv, [Next]_vars PROVE WindowRespected' /\ NoEvidenceLost'
    BY StepType DEF FlowInv
<1>. DEFINE window == <<attached, frame_id, acknowledged_frame, frame_sequences>>
<1>1. ASSUME UNCHANGED window PROVE WindowRespected' /\ NoEvidenceLost'
    BY <1>1 DEF FlowInv, WindowRespected, NoEvidenceLost
<1>2. ASSUME attached' = 0 PROVE WindowRespected' /\ NoEvidenceLost'
    BY <1>2 DEF WindowRespected, NoEvidenceLost
<1>3. ASSUME frame_id' = frame_id, acknowledged_frame' = frame_id, frame_sequences' = <<>>
      PROVE  WindowRespected' /\ NoEvidenceLost'
    BY <1>3, EmptySeq DEF FlowInv, TypeOK, WindowRespected, NoEvidenceLost
<1>4. CASE RenderAck
  <2>1. Head(inbox).frame \in Nat
    BY <1>4, HeadTailProperties DEF RenderAck, FlowInv, TypeOK, Messages
  <2>2. CASE UNCHANGED <<acknowledged_frame, frame_sequences>>
    BY <1>1, <1>4, <2>2 DEF RenderAck
  <2>3. ASSUME Head(inbox).frame >= acknowledged_frame, Head(inbox).frame <= frame_id,
               acknowledged_frame' = Head(inbox).frame,
               NEW k \in 0 .. Len(frame_sequences),
               AckedPrefix(frame_sequences, Head(inbox).frame, k),
               frame_sequences' = SubSeq(frame_sequences, k + 1, Len(frame_sequences))
        PROVE  WindowRespected' /\ NoEvidenceLost'
    <3>1. attached' = attached /\ frame_id' = frame_id
      BY <1>4 DEF RenderAck
    <3>2. attached # 0 => NoEvidenceLost'
      BY <2>1, <2>3, <3>1, AckKeepsNewer DEF NoEvidenceLost
    <3>3. WindowRespected'
      BY <2>1, <2>3, <3>1 DEF FlowInv, TypeOK, WindowRespected
    <3>. QED
      BY <3>1, <3>2, <3>3 DEF NoEvidenceLost
  <2>. QED
    BY <1>4, <2>2, <2>3, Zenon DEF RenderAck, Acknowledge
<1>5. CASE UNCHANGED vars
    BY <1>1, <1>5 DEF vars, actor
<1>6. ASSUME NEW full \in BOOLEAN, Change(full) PROVE WindowRespected' /\ NoEvidenceLost'
    BY <1>1, <1>6 DEF Change
<1>7. ASSUME NEW lost \in BOOLEAN, Leave(lost) PROVE WindowRespected' /\ NoEvidenceLost'
    BY <1>2, <1>7 DEF Leave, ForgetClient
<1>8. CASE RenderNobody \/ HandlerFails
    BY <1>1, <1>8 DEF RenderNobody, HandlerFails
<1>9. CASE FrameDeliveryFails
    BY <1>2, <1>9 DEF FrameDeliveryFails, ForgetClient
<1>10. CASE Attach
    BY <1>3, <1>10 DEF Attach
<1>11. CASE RenderResync
    BY <1>3, <1>11 DEF RenderResync
<1>12. CASE SendControl \/ StaleMessage \/ Reading \/ Writing
    BY <1>1, <1>12 DEF SendControl, StaleMessage, Reading, ReadFrame, ReadControl, SendResync,
                       Writing, TakeJob, WriteFrame, WriteControl, SendAck, actor
<1>. QED
    BY <1>4, <1>5, <1>6, <1>7, <1>8, <1>9, <1>10, <1>11, <1>12, RenderKeepsFlow
    DEF Next, Rendering, Handling

\* The strengthening holds in every reachable state.
LEMMA FlowInvariant == Spec => []FlowInv
<1>1. Init => FlowInv
    BY InitType DEF Init, FlowInv, WindowRespected, NoEvidenceLost
<1>. QED
    BY <1>1, StepFlow, PTL DEF Spec

\* For every window size the actor never has more than Window frames out to the
\* attached client (the gate of SessionActor::render).
THEOREM WindowAlwaysRespected == Spec => []WindowRespected
BY FlowInvariant, PTL DEF FlowInv

\* For every window size the list of unacknowledged frames has no hole and the
\* cap of frame_sequences never drops an entry.
THEOREM EvidenceNeverLost == Spec => []NoEvidenceLost
BY FlowInvariant, PTL DEF FlowInv

----------------------------------------------------------------------------
(* What keeps the reports of rendered frames honest. *)

\* The chunks of frames in a queue.
Frames(records) == {r \in {records[i] : i \in 1 .. Len(records)} : r.kind = "frame"}

\* The chunk in the writer's hands, and those in the two queues before it.
Held == IF writer.kind = "frame" THEN {writer} ELSE {}
Waiting == Frames(jobs) \cup Frames(to_client)

\* The order in which chunks are sent.
Before(c, d) == c.frame < d.frame \/ (c.frame = d.frame /\ c.index < d.index /\ ~c.last)

Ordered(records) ==
    \A i, j \in 1 .. Len(records) :
        i < j /\ records[i].kind = "frame" /\ records[j].kind = "frame" => Before(records[i], records[j])

\* A chunk still to be written comes after what the screen shows.
Ahead(d) ==
    \/ screen.frame < d.frame
    \/ screen.frame = d.frame /\ 0 < screen.part /\ screen.part < d.index

\* A frame that is acknowledged has been written to its end.
Passed(f) == f < screen.frame \/ (f = screen.frame /\ screen.part = 0)

\* An acknowledgement, or a resync, of the attached client.
Acked(i) == inbox[i].kind = "ack" /\ inbox[i].client = attached
Resync(i) == inbox[i].kind = "resync" /\ inbox[i].client = attached
Told == \E i \in 1 .. Len(inbox) : Resync(i)

\* Everything sent up to frame f was on the screen.
ShownUpTo(f) ==
    \A i \in 1 .. Len(frame_sequences) :
        frame_sequences[i].frame <= f => frame_sequences[i].sequence <= shown

\* The frame b will be on the screen, intact, when what waits has been written.
Based(b) ==
    \/ b > acknowledged_frame /\ \E c \in Held \cup Waiting : c.frame = b /\ c.last
    \/ screen.intact /\ screen.part = 0 /\ screen.frame = b

\* A chunk will land intact when everything before it has been written.
Supported(d) ==
    IF d.index = 1
    THEN d.base = 0 \/ Based(d.base)
    ELSE \/ \E c \in Held \cup Waiting : c.frame = d.frame /\ c.index = d.index - 1
         \/ screen.intact /\ screen.frame = d.frame /\ screen.part = d.index - 1

\* Messages come from clients that attached; only the last of them is served.
Clients == attached \in {0, clients} /\ \A i \in 1 .. Len(inbox) : inbox[i].client <= clients

\* A diff is taken against the frame before, or is a full repaint.
ChunksFormed ==
    \A d \in Held \cup Waiting :
        /\ 1 <= d.index /\ d.frame <= frame_id
        /\ d.base \in {0, d.frame - 1}
        /\ d.full => d.index = 1 /\ d.base = 0

\* The queues are in the order of sending.
Lined ==
    /\ Ordered(jobs) /\ Ordered(to_client)
    /\ \A c \in Held, d \in Waiting : Before(c, d)
    /\ \A c \in Frames(jobs), d \in Frames(to_client) : Before(c, d)

\* What is acknowledged is behind the screen, what waits is ahead of it.
Behind ==
    /\ \A d \in Held \cup Waiting : Ahead(d)
    /\ screen.frame <= frame_id
    /\ writer.kind = "ack" => Passed(writer.frame)
    /\ \A i \in 1 .. Len(inbox) : Acked(i) => Passed(inbox[i].frame)

\* The sessions shown by later frames are later.
Evidence ==
    \A i \in 1 .. Len(frame_sequences) :
        /\ frame_sequences[i].sequence <= session_sequence
        /\ \A d \in Held \cup Waiting :
              frame_sequences[i].frame <= d.frame => frame_sequences[i].sequence <= d.sequence

\* An acknowledgement that no resync precedes stands for what is on the screen.
AcksHonest ==
    /\ ~Told /\ writer.kind = "ack" => ShownUpTo(writer.frame)
    /\ \A i \in 1 .. Len(inbox) :
          Acked(i) /\ (\A j \in 1 .. i - 1 : ~Resync(j)) => ShownUpTo(inbox[i].frame)

\* Until the client discards its backlog, every unacknowledged chunk will land intact,
\* and so would a diff against the last screen.
Lands ==
    /\ ~Told => \A d \in Held : d.frame > acknowledged_frame => LandsIntact(d)
    /\ ~Told /\ ~overflowed =>
          /\ \A d \in Waiting : d.frame > acknowledged_frame => Supported(d)
          /\ ~force_full => Based(last_screen)
    /\ overflowed => Frames(jobs) = {}

\* The next diff is taken against the newest frame, or none is.
Tip == last_screen \in {0, frame_id} /\ (last_screen = 0 => force_full)

Honest ==
    /\ ChunksFormed /\ Lined /\ Behind /\ Evidence /\ AcksHonest /\ Lands /\ Tip
    /\ RenderedWasShown

\* Neither theorem is inductive alone: an acknowledgement counts because the chunks it
\* stands for landed one on the other, which is so because none was discarded before it
\* without a resync that precedes it in the inbox.
ShownInv == FlowInv /\ Clients /\ (attached # 0 => Honest)

----------------------------------------------------------------------------
(* The chunks in a queue. *)

\* A record is a chunk of a frame or a control write.
LEMMA RecordKinds ==
    /\ Control \in Records /\ Control.kind # "frame"
    /\ \A r \in Records : /\ r.kind = "frame" <=> r \in Chunks
                          /\ IsControl(r) <=> r.kind # "frame"
BY DEF Records, Chunks, Control, IsControl

\* An empty queue has none.
LEMMA EmptyFrames == Frames(<<>>) = {} /\ Ordered(<<>>)
BY EmptySeq DEF Frames, Ordered

\* A record appended to a queue.
LEMMA AppendFrames ==
    ASSUME NEW s \in Seq(Records), NEW r \in Records
    PROVE  /\ Frames(Append(s, r)) = Frames(s) \cup (IF r.kind = "frame" THEN {r} ELSE {})
           /\ Ordered(s) /\ (r.kind = "frame" => \A c \in Frames(s) : Before(c, r))
              => Ordered(Append(s, r))
<1>. DEFINE t == Append(s, r)
<1>1. /\ Len(s) \in Nat /\ Len(t) = Len(s) + 1
      /\ \A i \in 1 .. Len(s) : t[i] = s[i]
      /\ t[Len(s) + 1] = r
    BY AppendProperties, LenProperties
<1>. HIDE DEF t
<1>2. Frames(t) = Frames(s) \cup (IF r.kind = "frame" THEN {r} ELSE {})
  <2>1. {t[i] : i \in 1 .. Len(t)} = {s[i] : i \in 1 .. Len(s)} \cup {r}
    <3>1. 1 .. Len(t) = (1 .. Len(s)) \cup {Len(s) + 1}
      BY <1>1
    <3>. QED
      BY <1>1, <3>1
  <2>. QED
    BY <2>1 DEF Frames
<1>3. ASSUME Ordered(s), r.kind = "frame" => \A c \in Frames(s) : Before(c, r)
      PROVE  Ordered(t)
  <2>. SUFFICES ASSUME NEW i \in 1 .. Len(t), NEW j \in 1 .. Len(t), i < j,
                       t[i].kind = "frame", t[j].kind = "frame"
                PROVE  Before(t[i], t[j])
    BY DEF Ordered
  <2>1. CASE j = Len(s) + 1
    <3>1. i \in 1 .. Len(s) /\ t[i] \in Frames(s)
      BY <1>1, <2>1 DEF Frames
    <3>. QED
      BY <1>1, <1>3, <2>1, <3>1
  <2>2. CASE j \in 1 .. Len(s)
    <3>1. i \in 1 .. Len(s)
      BY <1>1, <2>2
    <3>. QED
      BY <1>1, <1>3, <2>2, <3>1 DEF Ordered
  <2>. QED
    BY <1>1, <2>1, <2>2
<1>. QED
    BY <1>2, <1>3 DEF t

\* The record at the head of a queue leaves it.
LEMMA TailFrames ==
    ASSUME NEW s \in Seq(Records), s # <<>>
    PROVE  /\ Head(s) \in Records /\ Tail(s) \in Seq(Records)
           /\ Frames(s) = Frames(Tail(s)) \cup (IF Head(s).kind = "frame" THEN {Head(s)} ELSE {})
           /\ Ordered(s) =>
                /\ Ordered(Tail(s))
                /\ Head(s).kind = "frame" => \A d \in Frames(Tail(s)) : Before(Head(s), d)
<1>. DEFINE t == Tail(s)
            h == Head(s)
<1>1. /\ Len(s) \in Nat \ {0} /\ Len(t) = Len(s) - 1
      /\ \A i \in 1 .. Len(t) : t[i] = s[i + 1]
      /\ h = s[1] /\ h \in Records /\ t \in Seq(Records)
    BY HeadTailProperties, LenProperties, EmptySeq
<1>. HIDE DEF t, h
<1>2. Frames(s) = Frames(t) \cup (IF h.kind = "frame" THEN {h} ELSE {})
  <2>1. {s[i] : i \in 1 .. Len(s)} = {t[i] : i \in 1 .. Len(t)} \cup {h}
    <3>1. ASSUME NEW i \in 1 .. Len(s)
          PROVE  s[i] \in {t[k] : k \in 1 .. Len(t)} \cup {h}
      <4>1. i = 1 \/ (i - 1 \in 1 .. Len(t) /\ s[i] = t[i - 1])
        BY <1>1
      <4>. QED
        BY <1>1, <4>1
    <3>2. ASSUME NEW i \in 1 .. Len(t)
          PROVE  t[i] \in {s[k] : k \in 1 .. Len(s)}
      BY <1>1
    <3>. QED
      BY <1>1, <3>1, <3>2
  <2>. QED
    BY <2>1 DEF Frames
<1>3. ASSUME Ordered(s)
      PROVE  Ordered(t) /\ (h.kind = "frame" => \A d \in Frames(t) : Before(h, d))
  <2>1. Ordered(t)
    <3>. SUFFICES ASSUME NEW i \in 1 .. Len(t), NEW j \in 1 .. Len(t), i < j,
                         t[i].kind = "frame", t[j].kind = "frame"
                  PROVE  Before(t[i], t[j])
      BY DEF Ordered
    <3>1. i + 1 \in 1 .. Len(s) /\ j + 1 \in 1 .. Len(s) /\ i + 1 < j + 1
      BY <1>1
    <3>. QED
      BY <1>1, <1>3, <3>1 DEF Ordered
  <2>2. ASSUME h.kind = "frame", NEW d \in Frames(t) PROVE Before(h, d)
    <3>1. PICK i \in 1 .. Len(t) : d = t[i] /\ d.kind = "frame"
      BY DEF Frames
    <3>2. i + 1 \in 1 .. Len(s) /\ 1 \in 1 .. Len(s) /\ 1 < i + 1
      BY <1>1
    <3>. QED
      BY <1>1, <1>3, <2>2, <3>1, <3>2 DEF Ordered
  <2>. QED
    BY <2>1, <2>2
<1>. QED
    BY <1>1, <1>2, <1>3 DEF t, h

\* A frame's chunks appended to a queue.
LEMMA RenderFrames ==
    ASSUME TypeOK, NEW n \in 1 .. ChunksPerFrame, NEW s \in Seq(Records)
    PROVE  LET new == {FrameChunks(n)[i] : i \in 1 .. n}
           IN  /\ Frames(s \o FrameChunks(n)) = Frames(s) \cup new
               /\ Ordered(s) /\ (\A c \in Frames(s) : c.frame <= frame_id)
                  => Ordered(s \o FrameChunks(n))
<1>. DEFINE f == FrameChunks(n)
            t == s \o f
            new == {f[i] : i \in 1 .. n}
<1>0. n \in Nat /\ frame_id \in Nat
    BY DEF TypeOK
<1>1. /\ f \in Seq(Records) /\ Len(f) = n
      /\ \A i \in 1 .. n : f[i].kind = "frame" /\ f[i].frame = frame_id + 1
                           /\ f[i].index = i /\ f[i].last = (i = n)
  <2>1. f \in [1 .. n -> Records]
    BY <1>0 DEF FrameChunks, Records, Chunks, TypeOK
  <2>2. \A i \in 1 .. n : f[i].kind = "frame" /\ f[i].frame = frame_id + 1
                           /\ f[i].index = i /\ f[i].last = (i = n)
    BY DEF FrameChunks
  <2>. QED
    BY <1>0, <2>1, <2>2, FrameChunksType, LenProperties
<1>. HIDE DEF f
<1>2. /\ Len(s) \in Nat /\ Len(t) = Len(s) + n
      /\ \A i \in 1 .. Len(s) : t[i] = s[i]
      /\ \A i \in 1 .. n : t[Len(s) + i] = f[i]
      /\ \A k \in 1 .. Len(t) : k \in 1 .. Len(s) \/ (k - Len(s) \in 1 .. n /\ t[k] = f[k - Len(s)])
  <2>1. /\ Len(s) \in Nat /\ Len(t) = Len(s) + n
        /\ \A k \in 1 .. Len(s) + n : t[k] = IF k <= Len(s) THEN s[k] ELSE f[k - Len(s)]
    <3>1. /\ Len(t) = Len(s) + Len(f) /\ Len(s) \in Nat
          /\ \A k \in 1 .. Len(s) + Len(f) : t[k] = IF k <= Len(s) THEN s[k] ELSE f[k - Len(s)]
      <4>1. f \in Seq(Records)
        BY <1>1
      <4>. QED
        BY <4>1, ConcatProperties, LenProperties, Zenon
    <3>. QED
      BY <1>1, <3>1
  <2>. HIDE DEF t
  <2>. QED
    BY <1>0, <2>1
<1>. HIDE DEF t
<1>3. Frames(t) = Frames(s) \cup new
  <2>1. {t[k] : k \in 1 .. Len(t)} = {s[i] : i \in 1 .. Len(s)} \cup new
    <3>1. ASSUME NEW k \in 1 .. Len(t)
          PROVE  t[k] \in {s[i] : i \in 1 .. Len(s)} \cup new
      BY <1>2
    <3>2. ASSUME NEW i \in 1 .. Len(s) PROVE s[i] \in {t[k] : k \in 1 .. Len(t)}
      BY <1>0, <1>2
    <3>3. ASSUME NEW i \in 1 .. n PROVE f[i] \in {t[k] : k \in 1 .. Len(t)}
      <4>1. Len(s) + i \in 1 .. Len(t)
        BY <1>0, <1>2
      <4>. QED
        BY <1>2, <4>1
    <3>. QED
      BY <3>1, <3>2, <3>3
  <2>2. \A r \in new : r.kind = "frame"
    BY <1>1
  <2>. HIDE DEF new
  <2>. QED
    BY <2>1, <2>2 DEF Frames
<1>4. ASSUME Ordered(s), \A c \in Frames(s) : c.frame <= frame_id
      PROVE  Ordered(t)
  <2>. SUFFICES ASSUME NEW i \in 1 .. Len(t), NEW j \in 1 .. Len(t), i < j,
                       t[i].kind = "frame", t[j].kind = "frame"
                PROVE  Before(t[i], t[j])
    BY DEF Ordered
  <2>1. CASE j \in 1 .. Len(s)
    <3>1. i \in 1 .. Len(s)
      BY <1>2, <2>1
    <3>. QED
      BY <1>2, <1>4, <2>1, <3>1 DEF Ordered
  <2>2. CASE i \in 1 .. Len(s) /\ j - Len(s) \in 1 .. n /\ t[j] = f[j - Len(s)]
    <3>1. t[i] \in Frames(s) /\ t[i] \in Chunks
      <4>1. t[i] = s[i] /\ t[i] \in Records
        BY <1>2, <2>2, ElementOfSeq
      <4>. QED
        BY <2>2, <4>1, RecordKinds DEF Frames
    <3>2. t[i].frame <= frame_id /\ t[i].frame \in Nat
      BY <1>4, <3>1 DEF Chunks
    <3>. QED
      BY <1>0, <1>1, <2>2, <3>2 DEF Before
  <2>3. CASE i - Len(s) \in 1 .. n /\ t[i] = f[i - Len(s)] /\ j - Len(s) \in 1 .. n /\ t[j] = f[j - Len(s)]
    <3>. DEFINE a == i - Len(s)
                b == j - Len(s)
    <3>1. a \in 1 .. n /\ b \in 1 .. n /\ a < b /\ a # n
      BY <1>0, <1>2, <2>3
    <3>. HIDE DEF a, b
    <3>2. f[a].frame = f[b].frame /\ f[a].index < f[b].index /\ ~f[a].last
      BY <1>1, <3>1
    <3>. QED
      BY <2>3, <3>2 DEF Before, a, b
  <2>4. CASE i - Len(s) \in 1 .. n /\ j \in 1 .. Len(s)
    BY <1>2, <2>4
  <2>. QED
    BY <1>2, <2>1, <2>2, <2>3, <2>4
<1>. QED
    BY <1>3, <1>4 DEF t, f

\* What a full repaint keeps of the queue are control writes.
LEMMA ControlsFrames ==
    ASSUME NEW s \in Seq(Records)
    PROVE  /\ ControlsOf(s) \in Seq(Records)
           /\ Frames(ControlsOf(s)) = {} /\ Ordered(ControlsOf(s))
<1>. DEFINE t == ControlsOf(s)
<1>1. t \in Seq(Records)
    BY ControlsOfType
<1>2. \A i \in 1 .. Len(t) : t[i] = Control
  <2>1. DOMAIN t = 1 .. Len(t)
    BY <1>1, LenProperties
  <2>2. \A i \in DOMAIN t : t[i] = Control
    BY DEF ControlsOf
  <2>. QED
    BY <2>1, <2>2
<1>. HIDE DEF t
<1>3. \A i \in 1 .. Len(t) : t[i].kind # "frame"
    BY <1>2, RecordKinds
<1>. QED
    BY <1>1, <1>3 DEF Frames, Ordered, t

----------------------------------------------------------------------------
(* Chunks on their way. *)

\* Chunks and their fields have their types.
LEMMA ChunkTypes ==
    /\ \A s \in Seq(Records) : Frames(s) \subseteq Chunks
    /\ TypeOK => Held \cup Waiting \subseteq Chunks
    /\ \A d \in Chunks : /\ {d.frame, d.sequence, d.base, d.index} \subseteq Nat
                         /\ d.kind = "frame" /\ d.last \in BOOLEAN /\ d.full \in BOOLEAN
<1>1. \A s \in Seq(Records) : Frames(s) \subseteq Chunks
  <2>. SUFFICES ASSUME NEW s \in Seq(Records), NEW r \in Frames(s) PROVE r \in Chunks
    OBVIOUS
  <2>1. PICK i \in 1 .. Len(s) : r = s[i] /\ r.kind = "frame"
    BY DEF Frames
  <2>. QED
    BY <2>1, ElementOfSeq, RecordKinds
<1>2. ASSUME TypeOK PROVE Held \subseteq Chunks
  <2>1. writer.kind = "frame" => writer \in Chunks
    BY <1>2 DEF TypeOK, Records, Control, Acks, Idle
  <2>. QED
    BY <2>1 DEF Held
<1>3. \A d \in Chunks : /\ {d.frame, d.sequence, d.base, d.index} \subseteq Nat
                        /\ d.kind = "frame" /\ d.last \in BOOLEAN /\ d.full \in BOOLEAN
  <2>1. \A d \in Chunks : d.last \in BOOLEAN /\ d.full \in BOOLEAN
    BY Zenon DEF Chunks
  <2>. QED
    BY <2>1 DEF Chunks
<1>. QED
  <2>1. ASSUME TypeOK PROVE Held \cup Waiting \subseteq Chunks
    BY <1>1, <1>2, <2>1 DEF Waiting, TypeOK
  <2>. QED
    BY <1>1, <1>3, <2>1

\* The next chunk to be written lands intact if it is supported: what would support
\* it has been written.
LEMMA NextLands ==
    ASSUME TypeOK, NEW w \in Chunks, w.base \in {0, w.frame - 1}, 1 <= w.index,
           \A c \in Held \cup Waiting : c = w \/ Before(w, c),
           Supported(w)
    PROVE  LandsIntact(w)
<1>1. \A c \in Held \cup Waiting : c.frame >= w.frame /\ (c.frame = w.frame => c.index >= w.index)
    BY ChunkTypes DEF Before
<1>2. ~\E c \in Held \cup Waiting : c.frame = w.frame /\ c.index = w.index - 1
    BY <1>1, ChunkTypes
<1>3. w.base # 0 => ~\E c \in Held \cup Waiting : c.frame = w.base
    BY <1>1, ChunkTypes
<1>. QED
    BY <1>2, <1>3 DEF Supported, Based, LandsIntact

\* Chunks that are only moved, or dropped, keep their form and their place behind
\* the screen, as do the acknowledgements.
Moves ==
    /\ UNCHANGED <<actor, inbox, terminal>>
    /\ (Held \cup Waiting)' \subseteq Held \cup Waiting
    /\ writer'.kind = "ack" => writer' = writer

LEMMA MovesKeep ==
    ASSUME ShownInv, attached # 0, Moves
    PROVE  ChunksFormed' /\ Behind' /\ Evidence' /\ AcksHonest' /\ Tip' /\ RenderedWasShown'
<1>. USE DEF ShownInv, Honest, Moves, actor, terminal
<1>1. ChunksFormed'
    BY DEF ChunksFormed
<1>2. Behind'
    BY DEF Behind, Ahead, Passed, Acked
<1>3. Evidence'
    BY DEF Evidence
<1>4. AcksHonest'
    BY DEF AcksHonest, ShownUpTo, Acked, Resync, Told
<1>5. Tip' /\ RenderedWasShown'
    BY DEF Tip, RenderedWasShown
<1>. QED
    BY <1>1, <1>2, <1>3, <1>4, <1>5

\* If none is dropped they support what they supported.
LEMMA MovesSupport ==
    ASSUME UNCHANGED <<acknowledged_frame, screen>>, (Held \cup Waiting)' = Held \cup Waiting
    PROVE  /\ \A b : Based(b)' <=> Based(b)
           /\ \A d : Supported(d)' <=> Supported(d)
           /\ \A d : LandsIntact(d)' <=> LandsIntact(d)
<1>1. \A b : Based(b)' <=> Based(b)
    BY DEF Based
<1>. QED
    BY <1>1 DEF Supported, LandsIntact

----------------------------------------------------------------------------
(* The reader and the writer. *)

\* A control write goes through the queues without moving a chunk.
LEMMA ReadControlKeeps == ShownInv /\ attached # 0 /\ ReadControl => Honest'
<1>. SUFFICES ASSUME ShownInv, attached # 0, ReadControl PROVE Honest'
    OBVIOUS
<1>. USE DEF ShownInv, FlowInv, Honest
<1>1. /\ to_client \in Seq(Records) /\ jobs \in Seq(Records) /\ to_client # <<>>
      /\ Head(to_client).kind # "frame"
    BY RecordKinds, TailFrames DEF TypeOK, ReadControl
<1>2. /\ Frames(to_client') = Frames(to_client) /\ Frames(jobs') = Frames(jobs)
      /\ Ordered(to_client') /\ Ordered(jobs')
  <2>1. Frames(to_client') = Frames(to_client) /\ Ordered(to_client')
    <3>1. to_client' = Tail(to_client) /\ Ordered(to_client)
      BY DEF ReadControl, Lined
    <3>2. /\ Frames(to_client)
                = Frames(Tail(to_client)) \cup (IF Head(to_client).kind = "frame" THEN {Head(to_client)} ELSE {})
          /\ Ordered(Tail(to_client))
      BY <1>1, <3>1, TailFrames, Zenon
    <3>. QED
      BY <1>1, <3>1, <3>2
  <2>2. Frames(jobs') = Frames(jobs) /\ Ordered(jobs')
    <3>1. Control \in Records /\ Control.kind # "frame"
      BY RecordKinds
    <3>2. Frames(Append(jobs, Control)) = Frames(jobs) /\ Ordered(Append(jobs, Control))
      BY <1>1, <3>1, AppendFrames DEF Lined
    <3>. QED
      BY <3>2 DEF ReadControl
  <2>. QED
    BY <2>1, <2>2
<1>3. Held' = Held /\ Waiting' = Waiting
    BY <1>2 DEF ReadControl, Held, Waiting
<1>4. Moves
    BY <1>3 DEF Moves, ReadControl
<1>5. Lined'
    BY <1>2, <1>3 DEF Lined
<1>6. Lands'
    BY <1>2, <1>3, MovesSupport DEF Lands, ReadControl, Told, Resync, actor, terminal
<1>. QED
    BY <1>4, <1>5, <1>6, MovesKeep

\* A control write is sent.
LEMMA SendControlKeeps == ShownInv /\ attached # 0 /\ SendControl => Honest'
<1>. SUFFICES ASSUME ShownInv, attached # 0, SendControl PROVE Honest'
    OBVIOUS
<1>. USE DEF ShownInv, FlowInv, Honest
<1>1. Frames(to_client') = Frames(to_client) /\ Ordered(to_client')
    BY AppendFrames, RecordKinds DEF SendControl, TypeOK, Lined
<1>2. Held' = Held /\ Waiting' = Waiting
    BY <1>1 DEF SendControl, client, Held, Waiting
<1>3. Moves
    BY <1>2 DEF Moves, SendControl, client
<1>4. Lined'
    BY <1>1, <1>2 DEF Lined, SendControl, client
<1>5. Lands'
    BY <1>2, MovesSupport DEF Lands, SendControl, client, Told, Resync, actor, terminal
<1>. QED
    BY <1>3, <1>4, <1>5, MovesKeep

\* A chunk is read: it moves to the other queue, or takes what was queued with it.
LEMMA ReadFrameKeeps == ShownInv /\ attached # 0 /\ ReadFrame => Honest'
<1>. SUFFICES ASSUME ShownInv, attached # 0, ReadFrame PROVE Honest'
    OBVIOUS
<1>. USE DEF ShownInv, FlowInv, Honest
<1>. DEFINE h == Head(to_client)
<1>1. /\ to_client \in Seq(Records) /\ jobs \in Seq(Records) /\ to_client # <<>>
      /\ h \in Records /\ h.kind = "frame" /\ h \in Chunks
    BY RecordKinds, TailFrames DEF TypeOK, ReadFrame
<1>2. /\ to_client' = Tail(to_client) /\ Ordered(to_client')
      /\ Frames(to_client) = Frames(to_client') \cup {h}
      /\ \A d \in Frames(to_client') : Before(h, d)
    BY <1>1, TailFrames DEF ReadFrame, Lined
<1>3. Held' = Held /\ UNCHANGED <<actor, inbox, terminal, writer>>
    BY DEF ReadFrame, Held
<1>4. h \in Waiting /\ Held \cup Waiting \subseteq Chunks
    BY <1>2, ChunkTypes DEF Waiting
<1>. HIDE DEF h
<1>5. CASE jobs' = <<>> /\ overflowed' = TRUE
  <2>1. Frames(jobs') = {} /\ Ordered(jobs')
    BY <1>5, EmptyFrames
  <2>2. Waiting' \subseteq Waiting
    BY <1>2, <2>1 DEF Waiting
  <2>3. Moves
    BY <1>3, <2>2 DEF Moves
  <2>4. Lined'
    BY <1>2, <1>3, <2>1, <2>2 DEF Lined
  <2>5. Lands'
    BY <1>3, <1>5, <2>1 DEF Lands, LandsIntact, Told, Resync, actor, terminal
  <2>. QED
    BY <2>3, <2>4, <2>5, MovesKeep
<1>6. CASE jobs' = Append(jobs, h) /\ UNCHANGED overflowed
  <2>1. \A c \in Frames(jobs) : Before(c, h)
    BY <1>2 DEF Lined
  <2>2. Frames(jobs') = Frames(jobs) \cup {h} /\ Ordered(jobs')
    BY <1>1, <1>6, <2>1, AppendFrames DEF Lined
  <2>3. Waiting' = Waiting
    BY <1>2, <2>2 DEF Waiting
  <2>4. Moves
    BY <1>3, <2>3 DEF Moves
  <2>5. Lined'
    BY <1>2, <1>3, <2>2, <2>3 DEF Lined
  <2>6. Lands'
    <3>1. ~overflowed /\ ~overflowed'
      BY <1>6 DEF ReadFrame
    <3>. QED
      BY <1>3, <2>3, <3>1, MovesSupport DEF Lands, Told, Resync, actor, terminal
  <2>. QED
    BY <2>4, <2>5, <2>6, MovesKeep
<1>7. CASE h.full /\ jobs' = Append(ControlsOf(jobs), h) /\ UNCHANGED overflowed
  <2>1. Frames(jobs') = {h} /\ Ordered(jobs')
    BY <1>1, <1>7, ControlsFrames, AppendFrames
  <2>2. Waiting' = Frames(to_client) /\ h.index = 1 /\ h.base = 0
    BY <1>2, <1>4, <1>7, <2>1 DEF Waiting, ChunksFormed
  <2>3. Moves
    BY <1>3, <2>2 DEF Moves, Waiting
  <2>4. Lined'
    BY <1>2, <1>3, <2>1, <2>2 DEF Lined, Waiting
  <2>6. \A c \in (Held \cup Waiting) \ (Held \cup Waiting)' :
            c.frame \in Nat /\ c.frame < h.frame
    <3>1. \A c \in (Held \cup Waiting) \ (Held \cup Waiting)' : c \in Frames(jobs)
      BY <1>3, <2>2 DEF Waiting
    <3>2. \A c \in Frames(jobs) :
              Before(c, h) /\ 1 <= c.index /\ c.index \in Nat /\ c.frame \in Nat
      <4>1. h \in Frames(to_client)
        BY <1>2
      <4>. QED
        BY <1>4, <4>1, ChunkTypes DEF Lined, Waiting, ChunksFormed
    <3>3. h.frame \in Nat
      BY <1>1, ChunkTypes
    <3>. QED
      BY <2>2, <3>1, <3>2, <3>3 DEF Before
  <2>5. Lands'
    <3>1. ~overflowed /\ ~overflowed' /\ Told' = Told
      BY <1>3, <1>7 DEF ReadFrame, Told, Resync, actor
    <3>2. \A d \in Held' : LandsIntact(d)' <=> LandsIntact(d)
      BY <1>3 DEF LandsIntact, terminal
    <3>3. ASSUME NEW d \in Waiting', Supported(d) PROVE Supported(d)'
      <4>1. CASE d = h
        BY <2>2, <4>1 DEF Supported
      <4>2. CASE d # h
        <5>1. d \in Frames(to_client') /\ Before(h, d)
          BY <1>2, <2>2, <4>2
        <5>2. d \in Chunks /\ 1 <= d.index /\ d.base \in {0, d.frame - 1} /\ d.index # 0
          BY <1>2, <1>4, <5>1, ChunkTypes DEF Waiting, ChunksFormed
        <5>3. \A c \in (Held \cup Waiting) \ (Held \cup Waiting)' :
                  /\ ~(c.frame = d.frame /\ c.index = d.index - 1)
                  /\ d.index = 1 /\ d.base # 0 => ~(c.frame = d.base /\ c.last)
          <6>. SUFFICES ASSUME NEW c \in (Held \cup Waiting) \ (Held \cup Waiting)'
                        PROVE  /\ ~(c.frame = d.frame /\ c.index = d.index - 1)
                               /\ d.index = 1 /\ d.base # 0 => ~(c.frame = d.base /\ c.last)
            OBVIOUS
          <6>1. c.frame \in Nat /\ c.frame < h.frame
            BY <2>6
          <6>2. /\ h.frame \in Nat /\ d.frame \in Nat /\ h.frame <= d.frame
                /\ d.index = 1 => h.frame < d.frame
            BY <1>1, <2>2, <5>1, <5>2, ChunkTypes DEF Before
          <6>. QED
            BY <5>2, <6>1, <6>2
        <5>4. (Held \cup Waiting)' \subseteq Held \cup Waiting
          BY <2>3 DEF Moves
        <5>. QED
          BY <1>3, <3>3, <5>3, <5>4 DEF Supported, Based, actor, terminal
      <4>. QED
        BY <4>1, <4>2
    <3>4. ASSUME Based(last_screen), last_screen # 0 PROVE Based(last_screen)'
      <4>1. last_screen = frame_id /\ frame_id \in Nat /\ h.frame <= frame_id
        BY <1>4, <3>4 DEF Tip, TypeOK, ChunksFormed
      <4>2. \A c \in (Held \cup Waiting) \ (Held \cup Waiting)' : c.frame # last_screen
        BY <1>1, <2>6, <4>1, ChunkTypes
      <4>3. UNCHANGED <<acknowledged_frame, screen, last_screen>>
        BY <1>3 DEF actor, terminal
      <4>. QED
        BY <3>4, <4>2, <4>3 DEF Based
    <3>5. ~Told => \A d \in Held' : d.frame > acknowledged_frame => LandsIntact(d)'
      BY <1>3, <3>2 DEF Lands
    <3>6. ~Told /\ ~overflowed =>
              \A d \in Waiting' : d.frame > acknowledged_frame => Supported(d)'
      BY <2>2, <3>3 DEF Lands, Waiting
    <3>7. ~Told /\ ~overflowed /\ ~force_full => Based(last_screen)'
      BY <3>4 DEF Lands, Tip
    <3>. QED
      BY <1>3, <3>1, <3>5, <3>6, <3>7 DEF Lands, actor
  <2>. QED
    BY <2>3, <2>4, <2>5, MovesKeep
<1>. QED
  <2>1. \/ jobs' = <<>> /\ overflowed' = TRUE
        \/ jobs' = Append(IF h.full THEN ControlsOf(jobs) ELSE jobs, h) /\ UNCHANGED overflowed
    BY DEF ReadFrame, enqueue_frame, h
  <2>. QED
    BY <1>5, <1>6, <1>7, <2>1

\* A chunk is taken from the queue by the writer.
LEMMA TakeJobKeeps == ShownInv /\ attached # 0 /\ TakeJob => Honest'
<1>. SUFFICES ASSUME ShownInv, attached # 0, TakeJob PROVE Honest'
    OBVIOUS
<1>. USE DEF ShownInv, FlowInv, Honest
<1>. DEFINE h == Head(jobs)
<1>1. /\ to_client \in Seq(Records) /\ jobs \in Seq(Records) /\ jobs # <<>> /\ h \in Records
    BY TailFrames DEF TypeOK, TakeJob
<1>2. /\ jobs' = Tail(jobs) /\ Ordered(jobs')
      /\ Frames(jobs) = Frames(jobs') \cup (IF h.kind = "frame" THEN {h} ELSE {})
      /\ h.kind = "frame" => \A d \in Frames(jobs') : Before(h, d)
  <2>1. jobs' = Tail(jobs) /\ Ordered(jobs)
    BY DEF TakeJob, Lined
  <2>. QED
    BY <1>1, <2>1, TailFrames, Zenon
<1>3. /\ UNCHANGED <<actor, inbox, terminal, to_client, overflowed>>
      /\ writer' = h /\ Held = {}
    BY DEF TakeJob, Held, Idle
<1>. HIDE DEF h
<1>4. Held' = (IF h.kind = "frame" THEN {h} ELSE {})
    BY <1>3 DEF Held
<1>5. (Held \cup Waiting)' = Held \cup Waiting /\ Waiting' \subseteq Waiting
    BY <1>2, <1>3, <1>4 DEF Waiting
<1>6. Moves
    BY <1>1, <1>3, <1>5, RecordKinds DEF Moves, Records, Chunks, Control
<1>7. Lined'
  <2>1. \A c \in Held', d \in Waiting' : Before(c, d)
    BY <1>2, <1>3, <1>4 DEF Lined, Waiting
  <2>2. \A c \in Frames(jobs'), d \in Frames(to_client') : Before(c, d)
    BY <1>2, <1>3 DEF Lined
  <2>. QED
    BY <1>2, <1>3, <2>1, <2>2 DEF Lined
<1>8. Lands'
  <2>1. Told' = Told /\ UNCHANGED <<acknowledged_frame, screen, last_screen, force_full>>
    BY <1>3 DEF Told, Resync, actor, terminal
  <2>2. ASSUME ~Told, NEW d \in Held', d.frame > acknowledged_frame PROVE LandsIntact(d)
    <3>1. d = h /\ h.kind = "frame" /\ h \in Chunks /\ h \in Waiting
      BY <1>1, <1>2, <1>4, <2>2, RecordKinds DEF Waiting
    <3>2. Supported(h)
      BY <1>2, <2>2, <3>1 DEF Lands
    <3>3. \A c \in Held \cup Waiting : c = h \/ Before(h, c)
      BY <1>2, <1>3, <3>1 DEF Lined, Waiting
    <3>4. h.base \in {0, h.frame - 1} /\ 1 <= h.index
      BY <3>1 DEF ChunksFormed
    <3>. QED
      BY <3>1, <3>2, <3>3, <3>4, NextLands
  <2>3. overflowed => Frames(jobs') = {}
    BY <1>2 DEF Lands
  <2>. QED
    BY <1>3, <1>5, <2>1, <2>2, <2>3, MovesSupport DEF Lands
<1>. QED
    BY <1>6, <1>7, <1>8, MovesKeep

\* A control write is written.
LEMMA WriteControlKeeps == ShownInv /\ attached # 0 /\ WriteControl => Honest'
<1>. SUFFICES ASSUME ShownInv, attached # 0, WriteControl PROVE Honest'
    OBVIOUS
<1>. USE DEF ShownInv, FlowInv, Honest
<1>1. Held' = Held /\ Waiting' = Waiting
    BY DEF WriteControl, Held, Waiting, Idle, Control
<1>2. Moves
    BY <1>1 DEF Moves, WriteControl, Idle
<1>3. Lined'
    BY <1>1 DEF Lined, WriteControl
<1>4. Lands'
    BY <1>1, MovesSupport DEF Lands, WriteControl, Told, Resync, actor, terminal
<1>. QED
    BY <1>2, <1>3, <1>4, MovesKeep

\* A chunk is written: the chunks that it supported are supported by the screen.
LEMMA WriteFrameSupports ==
    ASSUME ShownInv, attached # 0, WriteFrame
    PROVE  /\ Held = {writer} /\ writer \in Chunks /\ Held' = {} /\ Waiting' = Waiting
           /\ ~Told /\ ~overflowed =>
                /\ \A d \in Waiting : d.frame > acknowledged_frame => Supported(d)'
                /\ ~force_full => Based(last_screen)'
<1>. USE DEF ShownInv, FlowInv, Honest
<1>1. Held = {writer} /\ Held' = {} /\ Waiting' = Waiting
    BY DEF WriteFrame, Held, Waiting, Idle
<1>2. Held \cup Waiting \subseteq Chunks /\ writer \in Chunks
    BY <1>1, ChunkTypes
<1>. DEFINE w == writer
<1>3. /\ screen'.frame = w.frame /\ screen'.intact = LandsIntact(w)
      /\ screen'.part = IF w.last THEN 0 ELSE w.index
      /\ UNCHANGED <<acknowledged_frame, last_screen>>
    BY DEF WriteFrame, actor
<1>4. /\ w.frame \in Nat /\ w.index \in Nat /\ 1 <= w.index /\ w.frame <= frame_id
      /\ screen.frame \in Nat /\ screen.part \in Nat /\ frame_id \in Nat
      /\ acknowledged_frame \in Nat /\ Ahead(w)
    BY <1>1, <1>2, ChunkTypes DEF ChunksFormed, Behind, TypeOK, Screens
<1>5. ~Told /\ w.frame > acknowledged_frame => LandsIntact(w)
    BY <1>1 DEF Lands
<1>. HIDE DEF w
<1>6. ASSUME ~Told, NEW b \in Nat, Based(b), b >= w.frame PROVE Based(b)'
  <2>1. CASE screen.intact /\ screen.part = 0 /\ screen.frame = b
    BY <1>4, <1>6, <2>1 DEF Ahead
  <2>2. ASSUME b > acknowledged_frame, NEW c \in Held \cup Waiting, c.frame = b, c.last PROVE Based(b)'
    <3>1. CASE c \in Waiting
      BY <1>1, <1>3, <2>2, <3>1 DEF Based
    <3>2. CASE c = w
      BY <1>3, <1>5, <1>6, <2>2, <3>2 DEF Based
    <3>. QED
      BY <1>1, <2>2, <3>1, <3>2 DEF w
  <2>. QED
    BY <1>6, <2>1, <2>2 DEF Based
<1>7. ASSUME ~Told, NEW d \in Waiting, d.frame > acknowledged_frame, Supported(d) PROVE Supported(d)'
  <2>1. /\ d.frame \in Nat /\ d.index \in Nat /\ 1 <= d.index /\ d.base \in {0, d.frame - 1}
        /\ d.base \in Nat /\ Before(w, d)
    BY <1>1, <1>2, ChunkTypes DEF ChunksFormed, Lined, w
  <2>2. CASE d.index = 1
    <3>1. d.base # 0 => d.base >= w.frame
      BY <1>4, <2>1, <2>2 DEF Before
    <3>. QED
      BY <1>6, <1>7, <2>1, <2>2, <3>1 DEF Supported
  <2>3. ASSUME d.index # 1, NEW c \in Held \cup Waiting, c.frame = d.frame, c.index = d.index - 1
        PROVE  Supported(d)'
    <3>1. CASE c \in Waiting
      BY <1>1, <2>3, <3>1 DEF Supported
    <3>2. CASE c = w
      <4>1. ~w.last /\ LandsIntact(w)
        BY <1>4, <1>5, <1>7, <2>1, <2>3, <3>2 DEF Before
      <4>. QED
        BY <1>3, <2>3, <3>2, <4>1 DEF Supported
    <3>. QED
      BY <1>1, <2>3, <3>1, <3>2 DEF w
  <2>4. CASE d.index # 1 /\ screen.intact /\ screen.frame = d.frame /\ screen.part = d.index - 1
    BY <1>4, <2>1, <2>4 DEF Ahead, Before
  <2>. QED
    BY <1>7, <2>2, <2>3, <2>4 DEF Supported
<1>8. ~Told /\ ~overflowed /\ ~force_full => Based(last_screen)'
  <2>1. ~force_full => last_screen = frame_id
    BY DEF Tip
  <2>2. \A b \in Nat : ~Told /\ b >= w.frame /\ Based(b) => Based(b)'
    BY <1>6
  <2>3. ~Told /\ ~overflowed /\ ~force_full => Based(frame_id)
    BY <2>1 DEF Lands
  <2>4. frame_id >= w.frame /\ frame_id \in Nat
    BY <1>4
  <2>. QED
    BY <1>3, <2>1, <2>2, <2>3, <2>4 DEF Based
<1>. QED
    BY <1>1, <1>2, <1>7, <1>8 DEF Lands

\* Everything sent up to the frame of a last chunk is on the screen once it is written.
LEMMA WriteFrameShows ==
    ASSUME ShownInv, attached # 0, WriteFrame
    PROVE  /\ shown \in Nat /\ shown' \in Nat /\ shown <= shown'
           /\ \A f : ShownUpTo(f) => ShownUpTo(f)'
           /\ ~Told /\ writer.last => ShownUpTo(writer.frame)'
<1>. USE DEF ShownInv, FlowInv, Honest
<1>. DEFINE w == writer
            fs == frame_sequences
<1>1. /\ Held = {w} /\ w \in Chunks
      /\ w.sequence \in Nat /\ w.frame \in Nat
      /\ shown \in Nat /\ frame_id \in Nat /\ acknowledged_frame \in Nat /\ Len(fs) \in Nat
      /\ \A i \in 1 .. Len(fs) : fs[i].sequence \in Nat /\ fs[i].frame \in Nat
  <2>1. \A i \in 1 .. Len(fs) : fs[i] \in FrameSequences
    BY ElementOfSeq DEF TypeOK
  <2>2. Held = {w} /\ w \in Chunks
    BY WriteFrameSupports
  <2>. QED
    BY <2>1, <2>2, ChunkTypes, LenProperties DEF TypeOK, FrameSequences
<1>2. fs' = fs /\ shown' = (IF w.last /\ LandsIntact(w) /\ w.sequence > shown THEN w.sequence ELSE shown)
    BY DEF WriteFrame, actor
<1>. HIDE DEF w, fs
<1>3. shown <= shown' /\ shown' \in Nat
    BY <1>1, <1>2
<1>4. \A f : ShownUpTo(f) => ShownUpTo(f)'
    BY <1>1, <1>2, <1>3 DEF ShownUpTo, fs
<1>5. ASSUME ~Told, w.last PROVE ShownUpTo(w.frame)'
  <2>1. ASSUME NEW i \in 1 .. Len(fs), fs[i].frame <= w.frame PROVE fs[i].sequence <= shown'
    <3>1. w.frame > acknowledged_frame
      <4>1. Len(fs) <= frame_id - acknowledged_frame /\ fs[i].frame = frame_id - Len(fs) + i
        BY DEF NoEvidenceLost, fs
      <4>2. fs[i].frame > acknowledged_frame
        BY <1>1, <4>1
      <4>. QED
        BY <1>1, <2>1, <4>2
    <3>2. LandsIntact(w)
      BY <1>1, <1>5, <3>1 DEF Lands
    <3>3. fs[i].sequence <= w.sequence
      BY <1>1, <2>1 DEF Evidence, fs
    <3>4. w.sequence <= shown'
      BY <1>1, <1>2, <1>5, <3>2
    <3>. QED
      BY <1>1, <1>3, <3>3, <3>4
  <2>2. writer'.frame = writer.frame
    BY <1>5 DEF WriteFrame, w
  <2>. QED
    BY <1>2, <2>1, <2>2 DEF ShownUpTo, fs, w
<1>. QED
    BY <1>1, <1>3, <1>4, <1>5 DEF w

\* A chunk is written.
LEMMA WriteFrameKeeps == ShownInv /\ attached # 0 /\ WriteFrame => Honest'
<1>. SUFFICES ASSUME ShownInv, attached # 0, WriteFrame PROVE Honest'
    OBVIOUS
<1>. USE DEF ShownInv, FlowInv, Honest
<1>. DEFINE w == writer
<1>1. /\ Held = {w} /\ w \in Chunks /\ Held' = {} /\ Waiting' = Waiting
      /\ Held \cup Waiting \subseteq Chunks
    BY WriteFrameSupports, ChunkTypes
<1>2. /\ UNCHANGED <<actor, inbox, to_client, overflowed, jobs>>
      /\ screen'.frame = w.frame
      /\ screen'.part = IF w.last THEN 0 ELSE w.index
      /\ writer' = IF w.last THEN [kind |-> "ack", frame |-> w.frame] ELSE Idle
    BY DEF WriteFrame
<1>3. /\ w.frame \in Nat /\ w.index \in Nat /\ 1 <= w.index /\ w.frame <= frame_id
      /\ screen.frame \in Nat /\ screen.part \in Nat /\ Ahead(w)
    BY <1>1, ChunkTypes DEF ChunksFormed, Behind, TypeOK, Screens
<1>. HIDE DEF w
<1>5. ChunksFormed' /\ Evidence' /\ Tip'
    BY <1>1, <1>2 DEF ChunksFormed, Evidence, Tip, actor
<1>6. Lined'
    BY <1>1, <1>2 DEF Lined
<1>7. Behind'
  <2>1. ASSUME NEW d \in Waiting PROVE Ahead(d)'
    <3>1. Before(w, d) /\ d.frame \in Nat /\ d.index \in Nat
      BY <1>1, ChunkTypes DEF Lined
    <3>. QED
      BY <1>2, <1>3, <3>1 DEF Ahead, Before
  <2>2. \A f \in Nat : Passed(f) => Passed(f)'
    BY <1>2, <1>3 DEF Passed, Ahead
  <2>4. \A i \in 1 .. Len(inbox) : Acked(i)' <=> Acked(i)
    BY <1>2 DEF Acked, actor
  <2>5. \A i \in 1 .. Len(inbox) : Acked(i) => inbox[i].frame \in Nat
    <3>1. \A i \in 1 .. Len(inbox) : inbox[i] \in Messages
      BY ElementOfSeq DEF TypeOK
    <3>. QED
      BY <3>1 DEF Acked, Messages
  <2>6. \A i \in 1 .. Len(inbox) : Acked(i)' => Passed(inbox[i].frame)'
    BY <1>2, <2>2, <2>4, <2>5 DEF Behind, Passed, actor
  <2>3. writer'.kind = "ack" => Passed(writer.frame)'
    BY <1>2 DEF Passed, Idle
  <2>. QED
    BY <1>1, <1>2, <1>3, <2>1, <2>3, <2>6 DEF Behind, actor
<1>8. AcksHonest'
  <2>1. \A i : (Acked(i)' <=> Acked(i)) /\ (Resync(i)' <=> Resync(i))
    BY <1>2 DEF Acked, Resync, actor
  <2>2. Told' <=> Told
    BY <1>2, <2>1 DEF Told
  <2>3. ~Told /\ w.last => ShownUpTo(writer.frame)'
    BY WriteFrameShows DEF w
  <2>4. \A f : ShownUpTo(f) => ShownUpTo(f)'
    BY WriteFrameShows
  <2>. QED
    BY <1>2, <2>1, <2>2, <2>3, <2>4 DEF AcksHonest, Idle
<1>9. Lands'
  <2>1. Told' = Told /\ UNCHANGED <<acknowledged_frame, force_full, last_screen>>
    BY <1>2 DEF Told, Resync, actor
  <2>. QED
    BY <1>1, <1>2, <2>1, WriteFrameSupports DEF Lands
<1>10. RenderedWasShown'
    BY <1>2, WriteFrameShows DEF RenderedWasShown, actor, TypeOK
<1>. QED
    BY <1>5, <1>6, <1>7, <1>8, <1>9, <1>10

\* A message that is sent to the actor.
LEMMA Sends ==
    ASSUME TypeOK, UNCHANGED attached, NEW m \in Messages, inbox' = Append(inbox, m)
    PROVE  /\ Len(inbox) \in Nat /\ Len(inbox') = Len(inbox) + 1
           /\ inbox'[Len(inbox) + 1] = m
           /\ \A i \in 1 .. Len(inbox) : /\ inbox'[i] = inbox[i]
                                         /\ Acked(i)' <=> Acked(i)
                                         /\ Resync(i)' <=> Resync(i)
<1>1. /\ Len(inbox) \in Nat /\ Len(inbox') = Len(inbox) + 1
      /\ inbox'[Len(inbox) + 1] = m
      /\ \A i \in 1 .. Len(inbox) : inbox'[i] = inbox[i]
    BY AppendProperties, LenProperties DEF TypeOK
<1>. QED
    BY <1>1 DEF Acked, Resync

\* A message that the actor handles.
LEMMA Handles ==
    ASSUME TypeOK, UNCHANGED attached, inbox # <<>>, inbox' = Tail(inbox)
    PROVE  /\ Len(inbox) \in Nat \ {0} /\ Len(inbox') = Len(inbox) - 1
           /\ Head(inbox) = inbox[1] /\ Head(inbox) \in Messages
           /\ \A i \in 1 .. Len(inbox') : /\ inbox'[i] = inbox[i + 1]
                                          /\ Acked(i)' <=> Acked(i + 1)
                                          /\ Resync(i)' <=> Resync(i + 1)
<1>1. /\ Len(inbox) \in Nat \ {0} /\ Len(inbox') = Len(inbox) - 1
      /\ Head(inbox) = inbox[1] /\ Head(inbox) \in Messages
      /\ \A i \in 1 .. Len(inbox') : inbox'[i] = inbox[i + 1]
    BY HeadTailProperties, LenProperties, EmptySeq DEF TypeOK
<1>. QED
    BY <1>1 DEF Acked, Resync

\* The client acknowledges a frame that it has written.
LEMMA SendAckKeeps == ShownInv /\ attached # 0 /\ SendAck => Honest'
<1>. SUFFICES ASSUME ShownInv, attached # 0, SendAck PROVE Honest'
    OBVIOUS
<1>. USE DEF ShownInv, FlowInv, Honest
<1>. DEFINE m == [client |-> clients, kind |-> "ack", frame |-> writer.frame]
<1>. PICK n \in Nat : n = Len(inbox)
    BY LenProperties DEF TypeOK
<1>1. /\ UNCHANGED <<actor, to_client, overflowed, jobs, terminal>>
      /\ writer.kind = "ack" /\ writer' = Idle /\ clients = attached
      /\ inbox' = Append(inbox, m)
    BY DEF SendAck, Clients
<1>2. m \in Messages
    BY <1>1 DEF TypeOK, Records, Chunks, Control, Idle, Acks, Messages
<1>3. /\ n \in Nat /\ Len(inbox') = n + 1 /\ inbox'[n + 1] = m
      /\ \A i \in 1 .. n : /\ inbox'[i] = inbox[i]
                           /\ Acked(i)' <=> Acked(i)
                           /\ Resync(i)' <=> Resync(i)
    BY <1>1, <1>2, Sends, Zenon DEF actor
<1>4. m.kind = "ack" /\ m.frame = writer.frame /\ m.client = attached
    BY <1>1
<1>5. Held' = Held /\ Waiting' = Waiting
    BY <1>1 DEF Held, Waiting, Idle
<1>. HIDE DEF m
<1>6. ~Resync(n + 1)'
    BY <1>3, <1>4 DEF Resync
<1>7. Told' <=> Told
  <2>1. \A i \in 1 .. Len(inbox') : i = n + 1 \/ i \in 1 .. n
    BY <1>3
  <2>2. \A i \in 1 .. n : i \in 1 .. Len(inbox')
    BY <1>3
  <2>. QED
    BY <1>3, <1>6, <2>1, <2>2 DEF Told
<1>8. ChunksFormed' /\ Evidence' /\ Tip' /\ RenderedWasShown'
    BY <1>1, <1>5 DEF ChunksFormed, Evidence, Tip, RenderedWasShown, actor, terminal
<1>9. Lined'
    BY <1>1, <1>5 DEF Lined
<1>10. Behind'
  <2>1. \A d \in (Held \cup Waiting)' : Ahead(d)'
    BY <1>1, <1>5 DEF Behind, Ahead, terminal
  <2>2. ASSUME NEW i \in 1 .. Len(inbox'), Acked(i)' PROVE Passed(inbox[i].frame)'
    <3>1. CASE i \in 1 .. n
      BY <1>1, <1>3, <2>2, <3>1 DEF Behind, Passed, terminal
    <3>2. CASE i = n + 1
      BY <1>1, <1>3, <1>4, <3>2 DEF Behind, Passed, terminal
    <3>. QED
      BY <1>3, <3>1, <3>2
  <2>. QED
    BY <1>1, <2>1, <2>2 DEF Behind, actor, terminal, Idle
<1>11. AcksHonest'
  <2>1. \A f : ShownUpTo(f)' <=> ShownUpTo(f)
    BY <1>1 DEF ShownUpTo, actor, terminal
  <2>2. ASSUME NEW i \in 1 .. Len(inbox'), Acked(i)', \A j \in 1 .. i - 1 : ~Resync(j)'
        PROVE  ShownUpTo(inbox[i].frame)'
    <3>1. CASE i \in 1 .. n
      <4>1. \A j \in 1 .. i - 1 : ~Resync(j)
        BY <1>3, <2>2, <3>1
      <4>2. ShownUpTo(inbox[i].frame)
        BY <1>3, <2>2, <3>1, <4>1 DEF AcksHonest
      <4>. QED
        BY <1>1, <1>3, <3>1, <4>2 DEF ShownUpTo, actor, terminal
    <3>2. CASE i = n + 1
      <4>1. \A j \in 1 .. n : ~Resync(j)
        BY <1>3, <2>2, <3>2
      <4>2. ~Told
        BY <4>1 DEF Told
      <4>3. ShownUpTo(writer.frame)
        BY <1>1, <4>2 DEF AcksHonest
      <4>. QED
        BY <1>1, <1>3, <1>4, <3>2, <4>3 DEF ShownUpTo, actor, terminal
    <3>. QED
      BY <1>3, <3>1, <3>2
  <2>. QED
    BY <1>1, <2>1, <2>2 DEF AcksHonest, Idle
<1>12. Lands'
    BY <1>1, <1>5, <1>7, MovesSupport DEF Lands, actor, terminal
<1>. QED
    BY <1>8, <1>9, <1>10, <1>11, <1>12

\* The client asks for a full redraw: from here to the end of the inbox no
\* acknowledgement counts.
LEMMA SendResyncKeeps == ShownInv /\ attached # 0 /\ SendResync => Honest'
<1>. SUFFICES ASSUME ShownInv, attached # 0, SendResync PROVE Honest'
    OBVIOUS
<1>. USE DEF ShownInv, FlowInv, Honest
<1>. DEFINE m == [client |-> clients, kind |-> "resync"]
<1>. PICK n \in Nat : n = Len(inbox)
    BY LenProperties DEF TypeOK
<1>1. /\ UNCHANGED <<actor, to_client, jobs, writer, terminal>>
      /\ overflowed' = FALSE /\ clients = attached
      /\ inbox' = Append(inbox, m)
    BY DEF SendResync, Clients
<1>2. m \in Messages
    BY DEF TypeOK, Messages
<1>3. /\ n \in Nat /\ Len(inbox') = n + 1 /\ inbox'[n + 1] = m
      /\ \A i \in 1 .. n : /\ inbox'[i] = inbox[i]
                           /\ Acked(i)' <=> Acked(i)
                           /\ Resync(i)' <=> Resync(i)
    BY <1>1, <1>2, Sends, Zenon DEF actor
<1>4. m.kind = "resync" /\ m.client = attached
    BY <1>1
<1>5. Held' = Held /\ Waiting' = Waiting
    BY <1>1 DEF Held, Waiting
<1>. HIDE DEF m
<1>6. Resync(n + 1)' /\ ~Acked(n + 1)' /\ n + 1 \in 1 .. Len(inbox')
    BY <1>1, <1>3, <1>4 DEF Resync, Acked, actor
<1>7. Told'
    BY <1>6 DEF Told
<1>8. ChunksFormed' /\ Evidence' /\ Tip' /\ RenderedWasShown'
    BY <1>1, <1>5 DEF ChunksFormed, Evidence, Tip, RenderedWasShown, actor, terminal
<1>9. Lined'
    BY <1>1, <1>5 DEF Lined
<1>10. \A i \in 1 .. Len(inbox') : Acked(i)' => i \in 1 .. n
    BY <1>3, <1>6
<1>11. Behind'
  <2>1. \A d \in (Held \cup Waiting)' : Ahead(d)'
    BY <1>1, <1>5 DEF Behind, Ahead, terminal
  <2>2. \A i \in 1 .. Len(inbox') : Acked(i)' => Passed(inbox[i].frame)'
    BY <1>1, <1>3, <1>10 DEF Behind, Passed, terminal
  <2>3. writer'.kind = "ack" => Passed(writer.frame)'
    BY <1>1 DEF Behind, Passed, terminal
  <2>. QED
    BY <1>1, <2>1, <2>2, <2>3 DEF Behind, actor, terminal
<1>12. AcksHonest'
  <2>1. \A f : ShownUpTo(f)' <=> ShownUpTo(f)
    BY <1>1 DEF ShownUpTo, actor, terminal
  <2>2. ASSUME NEW i \in 1 .. Len(inbox'), Acked(i)', \A j \in 1 .. i - 1 : ~Resync(j)'
        PROVE  ShownUpTo(inbox[i].frame)'
    <3>1. i \in 1 .. n /\ \A j \in 1 .. i - 1 : ~Resync(j)
      BY <1>3, <1>10, <2>2
    <3>2. ShownUpTo(inbox[i].frame)
      BY <1>3, <2>2, <3>1 DEF AcksHonest
    <3>. QED
      BY <1>1, <1>3, <3>1, <3>2 DEF ShownUpTo, actor, terminal
  <2>. QED
    BY <1>7, <2>1, <2>2 DEF AcksHonest
<1>13. Lands'
    BY <1>1, <1>7 DEF Lands
<1>. QED
    BY <1>8, <1>9, <1>11, <1>12, <1>13

----------------------------------------------------------------------------
(* The actor. *)

\* The session changes, or a handler fails: a full repaint can only become due.
LEMMA ChangeKeeps ==
    ASSUME ShownInv, attached # 0,
           \/ \E full \in BOOLEAN : Change(full)
           \/ RenderNobody \/ HandlerFails
    PROVE  Honest'
<1>. USE DEF ShownInv, FlowInv, Honest
<1>1. /\ UNCHANGED <<frame_id, last_screen, attached, acknowledged_frame, frame_sequences,
                     rendered_session_sequence, inbox, to_client, overflowed, jobs, writer,
                     screen, shown>>
      /\ session_sequence \in Nat /\ session_sequence' \in {session_sequence, session_sequence + 1}
      /\ force_full => force_full'
    BY DEF Change, RenderNobody, HandlerFails, client, terminal, TypeOK
<1>2. Held' = Held /\ Waiting' = Waiting
    BY <1>1 DEF Held, Waiting
<1>3. ChunksFormed' /\ Lined' /\ Behind' /\ Tip' /\ RenderedWasShown'
    BY <1>1, <1>2 DEF ChunksFormed, Lined, Behind, Ahead, Passed, Acked, Tip, RenderedWasShown
<1>4. Evidence'
  <2>1. \A i \in 1 .. Len(frame_sequences) : frame_sequences[i].sequence \in Nat
    <3>1. \A i \in 1 .. Len(frame_sequences) : frame_sequences[i] \in FrameSequences
      BY ElementOfSeq DEF TypeOK
    <3>. QED
      BY <3>1 DEF FrameSequences
  <2>. QED
    BY <1>1, <1>2, <2>1 DEF Evidence
<1>5. AcksHonest'
    BY <1>1 DEF AcksHonest, ShownUpTo, Acked, Resync, Told
<1>6. Lands'
    BY <1>1, <1>2, MovesSupport DEF Lands, Told, Resync
<1>. QED
    BY <1>3, <1>4, <1>5, <1>6

\* The chunks of a new frame are sent: each lands on the one before it, the first
\* on the screen the diff was taken against.
LEMMA RenderKeeps ==
    ASSUME ShownInv, attached # 0, NEW n \in 1 .. ChunksPerFrame, Render(n)
    PROVE  Honest'
<1>. USE DEF ShownInv, FlowInv, Honest
<1>. DEFINE new == {FrameChunks(n)[i] : i \in 1 .. n}
            entry == [frame |-> frame_id + 1, sequence |-> session_sequence]
            fs == frame_sequences
<1>1. /\ UNCHANGED <<session_sequence, attached, acknowledged_frame, rendered_session_sequence,
                     inbox, overflowed, jobs, writer, screen, shown>>
      /\ frame_id' = frame_id + 1 /\ last_screen' = frame_id + 1 /\ force_full' = FALSE
      /\ to_client' = to_client \o FrameChunks(n)
      /\ attached # 0
    BY DEF Render, client, terminal
<1>2. /\ n \in Nat \ {0} /\ frame_id \in Nat /\ acknowledged_frame \in Nat
      /\ session_sequence \in Nat /\ acknowledged_frame <= frame_id
      /\ to_client \in Seq(Records)
    BY <1>1 DEF TypeOK, WindowRespected
<1>3. \A d \in new :
        /\ d.frame = frame_id + 1 /\ d.sequence = session_sequence
        /\ d.index \in 1 .. n
        /\ d.base = (IF force_full THEN 0 ELSE last_screen)
        /\ d.full => d.index = 1 /\ d.base = 0
        /\ d.index # 1 => \E c \in new : c.index = d.index - 1
  <2>. SUFFICES ASSUME NEW i \in 1 .. n
                PROVE  LET d == FrameChunks(n)[i]
                       IN  /\ d.frame = frame_id + 1 /\ d.sequence = session_sequence
                           /\ d.index \in 1 .. n
                           /\ d.base = (IF force_full THEN 0 ELSE last_screen)
                           /\ d.full => d.index = 1 /\ d.base = 0
                           /\ d.index # 1 => \E c \in new : c.index = d.index - 1
    OBVIOUS
  <2>1. FrameChunks(n)[i].index = i
    BY DEF FrameChunks
  <2>2. i # 1 => i - 1 \in 1 .. n /\ FrameChunks(n)[i - 1].index = i - 1
    BY <1>2 DEF FrameChunks
  <2>3. i # 1 => \E c \in new : c.index = i - 1
    BY <2>2
  <2>. HIDE DEF new
  <2>. QED
    BY <2>1, <2>3 DEF FrameChunks
<1>4. \E c \in new : c.last
  <2>1. n \in 1 .. n
    BY <1>2
  <2>2. FrameChunks(n)[n].last
    BY <2>1, Zenon DEF FrameChunks
  <2>. QED
    BY <2>1, <2>2
<1>. HIDE DEF new
<1>5. \A c \in Held \cup Waiting : c.frame \in Nat /\ c.frame <= frame_id /\ c.sequence \in Nat
    BY ChunkTypes DEF ChunksFormed
<1>0. /\ screen.frame \in Nat /\ screen.frame <= frame_id
    BY DEF Behind, TypeOK, Screens
<1>6. Held' = Held /\ Waiting' = Waiting \cup new /\ Ordered(to_client')
      /\ Frames(to_client') = Frames(to_client) \cup new
  <2>1. \A c \in Frames(to_client) : c.frame <= frame_id
    BY <1>5 DEF Waiting
  <2>2. Frames(to_client') = Frames(to_client) \cup new /\ Ordered(to_client')
    BY <1>1, <1>2, <2>1, RenderFrames DEF Lined, new
  <2>. QED
    BY <1>1, <2>2 DEF Held, Waiting
<1>7. ChunksFormed'
    BY <1>1, <1>2, <1>3, <1>6, <1>5 DEF ChunksFormed, Tip
<1>8. Lined'
  <2>1. \A c \in Held \cup Waiting, d \in new : Before(c, d)
    BY <1>2, <1>3, <1>5 DEF Before
  <2>2. Frames(jobs) \subseteq Waiting
    BY DEF Waiting
  <2>3. \A c \in Held', d \in Waiting' : Before(c, d)
    BY <1>6, <2>1 DEF Lined
  <2>4. \A c \in Frames(jobs'), d \in Frames(to_client') : Before(c, d)
    BY <1>1, <1>6, <2>1, <2>2 DEF Lined
  <2>. QED
    BY <1>1, <1>6, <2>3, <2>4 DEF Lined
<1>9. Behind'
  <2>1. \A d \in new : Ahead(d)'
    BY <1>0, <1>1, <1>2, <1>3 DEF Ahead
  <2>2. \A d \in Held \cup Waiting : Ahead(d)'
    BY <1>1 DEF Behind, Ahead
  <2>. QED
    BY <1>0, <1>1, <1>2, <1>6, <2>1, <2>2 DEF Behind, Passed, Acked
<1>10. \A i \in 1 .. Len(fs') : fs'[i] = entry \/ \E k \in 1 .. Len(fs) : fs'[i] = fs[k]
  <2>1. fs \in Seq(FrameSequences) /\ entry \in FrameSequences /\ Len(fs) \in Nat
    BY <1>2, LenProperties DEF TypeOK, FrameSequences
  <2>. DEFINE t == Append(fs, entry)
  <2>2. /\ t \in Seq(FrameSequences) /\ t # <<>> /\ Len(t) = Len(fs) + 1
        /\ \A i \in 1 .. Len(fs) : t[i] = fs[i]
        /\ t[Len(fs) + 1] = entry
    BY <2>1, AppendProperties
  <2>. HIDE DEF t
  <2>3. \A i \in 1 .. Len(t) : t[i] = entry \/ \E k \in 1 .. Len(fs) : t[i] = fs[k]
    <3>1. \A i \in 1 .. Len(t) : i \in 1 .. Len(fs) \/ i = Len(fs) + 1
      BY <2>1, <2>2
    <3>. QED
      BY <2>2, <3>1
  <2>4. fs' = t \/ fs' = Tail(t)
    BY DEF Render, Recorded, t
  <2>5. CASE fs' = Tail(t)
    <3>1. \A i \in 1 .. Len(fs') : i + 1 \in 1 .. Len(t) /\ fs'[i] = t[i + 1]
      <4>1. Len(Tail(t)) = Len(t) - 1 /\ \A i \in 1 .. Len(Tail(t)) : Tail(t)[i] = t[i + 1]
        BY <2>2, HeadTailProperties
      <4>. QED
        BY <2>1, <2>2, <2>5, <4>1
    <3>. QED
      BY <2>3, <3>1
  <2>. QED
    BY <2>3, <2>4, <2>5
<1>11. entry.frame = frame_id + 1 /\ entry.sequence = session_sequence
    OBVIOUS
<1>. HIDE DEF entry, fs
<1>12. Evidence'
  <2>. SUFFICES ASSUME NEW i \in 1 .. Len(fs')
                PROVE  /\ fs'[i].sequence <= session_sequence
                       /\ \A d \in Held \cup Waiting \cup new :
                             fs'[i].frame <= d.frame => fs'[i].sequence <= d.sequence
    BY <1>1, <1>6 DEF Evidence, fs
  <2>1. CASE fs'[i] = entry
    BY <1>2, <1>3, <1>5, <1>11, <2>1
  <2>2. ASSUME NEW k \in 1 .. Len(fs), fs'[i] = fs[k]
        PROVE  /\ fs'[i].sequence <= session_sequence
               /\ \A d \in Held \cup Waiting \cup new :
                     fs'[i].frame <= d.frame => fs'[i].sequence <= d.sequence
    <3>1. /\ fs[k].sequence <= session_sequence
          /\ \A d \in Held \cup Waiting :
                fs[k].frame <= d.frame => fs[k].sequence <= d.sequence
      BY <2>2 DEF Evidence, fs
    <3>. QED
      BY <1>3, <2>2, <3>1
  <2>. QED
    BY <1>10, <2>1, <2>2
<1>13. AcksHonest'
  <2>1. ASSUME NEW f \in Nat, ShownUpTo(f), Passed(f) PROVE ShownUpTo(f)'
    <3>1. f <= frame_id
      BY <1>0, <1>2, <2>1 DEF Passed
    <3>2. ASSUME NEW i \in 1 .. Len(fs'), fs'[i].frame <= f PROVE fs'[i].sequence <= shown
      <4>1. fs'[i] # entry
        BY <1>2, <1>11, <3>1, <3>2
      <4>. QED
        BY <1>10, <2>1, <3>2, <4>1 DEF ShownUpTo, fs
    <3>. QED
      BY <1>1, <3>2 DEF ShownUpTo, fs
  <2>2. Told' = Told /\ \A i : Acked(i)' = Acked(i) /\ Resync(i)' = Resync(i)
    BY <1>1 DEF Told, Resync, Acked
  <2>3. writer.kind = "ack" => writer.frame \in Nat
    BY DEF TypeOK, Records, Chunks, Control, Idle, Acks
  <2>4. \A i \in 1 .. Len(inbox) : Acked(i) => inbox[i].frame \in Nat
    <3>1. \A i \in 1 .. Len(inbox) : inbox[i] \in Messages
      BY ElementOfSeq DEF TypeOK
    <3>. QED
      BY <3>1 DEF Acked, Messages
  <2>5. ~Told /\ writer.kind = "ack" => ShownUpTo(writer.frame)'
    BY <1>1, <2>1, <2>3 DEF AcksHonest, Behind, ShownUpTo
  <2>6. \A i \in 1 .. Len(inbox) :
           Acked(i) /\ (\A j \in 1 .. i - 1 : ~Resync(j)) => ShownUpTo(inbox[i].frame)'
    BY <1>1, <2>1, <2>4 DEF AcksHonest, Behind, ShownUpTo
  <2>. QED
    BY <1>1, <2>2, <2>5, <2>6 DEF AcksHonest
<1>14. Lands'
  <2>1. Told' = Told
    BY <1>1 DEF Told, Resync
  <2>2. \A d \in Held : LandsIntact(d)' <=> LandsIntact(d)
    BY <1>1 DEF LandsIntact
  <2>3. \A b : Based(b) => Based(b)'
    BY <1>1, <1>6 DEF Based
  <2>4. \A d \in Waiting : Supported(d) => Supported(d)'
    BY <1>1, <1>6, <2>3 DEF Supported
  <2>5. ASSUME ~Told, ~overflowed, NEW d \in new PROVE Supported(d)'
    <3>1. CASE d.index = 1
      <4>1. CASE force_full
        <5>1. d.base = 0
          BY <1>3, <4>1
        <5>. QED
          BY <3>1, <5>1 DEF Supported
      <4>2. CASE ~force_full
        <5>1. d.base = last_screen /\ Based(last_screen)
          BY <1>3, <2>5, <4>2 DEF Lands
        <5>2. Based(d.base)'
          BY <2>3, <5>1
        <5>. QED
          BY <3>1, <5>2 DEF Supported
      <4>. QED
        BY <4>1, <4>2
    <3>2. CASE d.index # 1
      <4>1. PICK c \in new : c.index = d.index - 1
        BY <1>3, <3>2
      <4>2. c.frame = d.frame /\ c \in (Held \cup Waiting)'
        BY <1>3, <1>6
      <4>. QED
        BY <3>2, <4>1, <4>2 DEF Supported
    <3>. QED
      BY <3>1, <3>2
  <2>6. Based(last_screen)'
    <3>1. PICK c \in new : c.last
      BY <1>4
    <3>2. c \in (Held \cup Waiting)' /\ c.frame = last_screen' /\ last_screen' > acknowledged_frame'
      BY <1>1, <1>2, <1>3, <1>6
    <3>. QED
      BY <3>1, <3>2 DEF Based
  <2>. QED
    BY <1>1, <1>6, <2>1, <2>2, <2>4, <2>5, <2>6 DEF Lands
<1>15. Tip' /\ RenderedWasShown'
    BY <1>1, <1>2 DEF Tip, RenderedWasShown
<1>. QED
    BY <1>7, <1>8, <1>9, <1>12, <1>13, <1>14, <1>15

\* What the handling of a message leaves alone.
LEMMA HandlesKeep ==
    ASSUME ShownInv, attached # 0, inbox # <<>>, inbox' = Tail(inbox),
           UNCHANGED <<session_sequence, frame_id, attached, to_client, client, terminal>>
    PROVE  /\ Held' = Held /\ Waiting' = Waiting
           /\ ChunksFormed' /\ Lined' /\ Behind'
<1>. USE DEF ShownInv, FlowInv, Honest, client, terminal
<1>1. Held' = Held /\ Waiting' = Waiting
    BY DEF Held, Waiting
<1>2. ChunksFormed' /\ Lined'
    BY <1>1 DEF ChunksFormed, Lined
<1>3. \A i \in 1 .. Len(inbox') : /\ i + 1 \in 1 .. Len(inbox) /\ inbox'[i] = inbox[i + 1]
                                  /\ Acked(i)' => Acked(i + 1)
    BY Handles
<1>4. \A i \in 1 .. Len(inbox') : Acked(i)' => Passed(inbox[i].frame)'
    BY <1>3 DEF Behind, Passed
<1>. QED
    BY <1>1, <1>2, <1>4 DEF Behind, Ahead, Passed

\* A message that is not a resync of the attached client does not hide a resync
\* behind it, nor an acknowledgement that counts.
LEMMA HandlesAcks ==
    ASSUME ShownInv, attached # 0, inbox # <<>>, inbox' = Tail(inbox), ~Resync(1),
           UNCHANGED <<attached, writer>>,
           \A f : ShownUpTo(f) => ShownUpTo(f)'
    PROVE  (Told' <=> Told) /\ AcksHonest'
<1>. USE DEF ShownInv, FlowInv, Honest
<1>. PICK n \in Nat \ {0} : n = Len(inbox)
    BY LenProperties, EmptySeq DEF TypeOK
<1>1. /\ Len(inbox') = n - 1
      /\ \A i \in 1 .. n - 1 : /\ inbox'[i] = inbox[i + 1]
                               /\ Acked(i)' <=> Acked(i + 1)
                               /\ Resync(i)' <=> Resync(i + 1)
    BY Handles
<1>2. Told' <=> Told
  <2>1. ASSUME Told PROVE Told'
    <3>1. PICK i \in 1 .. n : Resync(i)
      BY <2>1 DEF Told
    <3>2. i - 1 \in 1 .. n - 1 /\ (i - 1) + 1 = i
      BY <3>1
    <3>3. Resync(i - 1)'
      BY <1>1, <3>1, <3>2
    <3>. QED
      BY <1>1, <3>2, <3>3 DEF Told
  <2>2. ASSUME Told' PROVE Told
    <3>1. PICK i \in 1 .. n - 1 : Resync(i)'
      BY <1>1, <2>2 DEF Told
    <3>2. i + 1 \in 1 .. n /\ Resync(i + 1)
      BY <1>1, <3>1
    <3>. QED
      BY <3>2 DEF Told
  <2>. QED
    BY <2>1, <2>2
<1>3. ASSUME NEW i \in 1 .. n - 1, Acked(i)', \A j \in 1 .. i - 1 : ~Resync(j)'
      PROVE  ShownUpTo(inbox[i].frame)'
  <2>1. i + 1 \in 1 .. n /\ Acked(i + 1) /\ inbox'[i] = inbox[i + 1]
    BY <1>1, <1>3
  <2>2. ASSUME NEW j \in 1 .. (i + 1) - 1 PROVE ~Resync(j)
    <3>1. j = 1 \/ (j - 1 \in 1 .. i - 1 /\ j - 1 \in 1 .. n - 1 /\ (j - 1) + 1 = j)
      BY <1>3
    <3>. QED
      BY <1>1, <1>3, <3>1
  <2>3. ShownUpTo(inbox[i + 1].frame)
    BY <2>1, <2>2 DEF AcksHonest
  <2>4. PICK f : f = inbox[i + 1].frame
    OBVIOUS
  <2>5. ShownUpTo(f)'
    BY <2>3, <2>4
  <2>. QED
    BY <2>1, <2>4, <2>5 DEF ShownUpTo
<1>4. ~Told /\ writer.kind = "ack" => ShownUpTo(writer.frame)'
  <2>1. PICK f : f = writer.frame
    OBVIOUS
  <2>2. ~Told /\ writer.kind = "ack" => ShownUpTo(f)'
    BY <2>1 DEF AcksHonest
  <2>. QED
    BY <2>1, <2>2 DEF ShownUpTo
<1>. QED
    BY <1>1, <1>2, <1>3, <1>4 DEF AcksHonest

\* A message of a client that is not attached any more.
LEMMA StaleMessageKeeps == ShownInv /\ attached # 0 /\ StaleMessage => Honest'
<1>. SUFFICES ASSUME ShownInv, attached # 0, StaleMessage PROVE Honest'
    OBVIOUS
<1>. USE DEF ShownInv, FlowInv, Honest
<1>1. /\ inbox # <<>> /\ inbox' = Tail(inbox) /\ Head(inbox).client # attached
      /\ UNCHANGED <<actor, to_client, client, terminal>>
    BY DEF StaleMessage
<1>2. ~Resync(1)
    BY <1>1, Handles DEF Resync, actor
<1>3. /\ Held' = Held /\ Waiting' = Waiting
      /\ ChunksFormed' /\ Lined' /\ Behind'
    BY <1>1, HandlesKeep DEF actor
<1>4. (Told' <=> Told) /\ AcksHonest'
  <2>1. \A f : ShownUpTo(f) => ShownUpTo(f)'
    BY <1>1 DEF ShownUpTo, actor, terminal
  <2>. QED
    BY <1>1, <1>2, <2>1, HandlesAcks DEF actor, client
<1>5. Evidence' /\ Tip' /\ RenderedWasShown'
    BY <1>1, <1>3 DEF Evidence, Tip, RenderedWasShown, actor, terminal
<1>6. Lands'
    BY <1>1, <1>3, <1>4, MovesSupport DEF Lands, actor, client, terminal
<1>. QED
    BY <1>3, <1>4, <1>5, <1>6

\* The actor is told that the backlog is discarded: nothing that is out needs to
\* land any more, and the next frame is a full repaint.
LEMMA RenderResyncKeeps == ShownInv /\ attached # 0 /\ RenderResync => Honest'
<1>. SUFFICES ASSUME ShownInv, attached # 0, RenderResync PROVE Honest'
    OBVIOUS
<1>. USE DEF ShownInv, FlowInv, Honest
<1>1. /\ inbox # <<>> /\ inbox' = Tail(inbox)
      /\ UNCHANGED <<session_sequence, frame_id, attached, rendered_session_sequence,
                     to_client, client, terminal>>
      /\ acknowledged_frame' = frame_id /\ frame_sequences' = <<>>
      /\ force_full' = TRUE /\ last_screen' = 0
    BY DEF RenderResync
<1>2. /\ Held' = Held /\ Waiting' = Waiting
      /\ ChunksFormed' /\ Lined' /\ Behind'
    BY <1>1, HandlesKeep
<1>3. Evidence' /\ AcksHonest'
    BY <1>1, EmptySeq DEF Evidence, AcksHonest, ShownUpTo
<1>4. Tip' /\ RenderedWasShown'
    BY <1>1 DEF Tip, RenderedWasShown, terminal
<1>5. Lands'
  <2>1. \A d \in Held \cup Waiting : ~(d.frame > acknowledged_frame')
    BY <1>1, ChunkTypes DEF ChunksFormed, TypeOK
  <2>2. overflowed' => Frames(jobs') = {}
    BY <1>1 DEF Lands, client
  <2>. QED
    BY <1>1, <1>2, <2>1, <2>2 DEF Lands
<1>. QED
    BY <1>2, <1>3, <1>4, <1>5

\* An acknowledgement: what it reports was shown, and what still waits is newer.
LEMMA RenderAckKeeps == ShownInv /\ attached # 0 /\ RenderAck => Honest'
<1>. SUFFICES ASSUME ShownInv, attached # 0, RenderAck PROVE Honest'
    OBVIOUS
<1>. USE DEF ShownInv, FlowInv, Honest
<1>. DEFINE fs == frame_sequences
<1>. PICK f : f = Head(inbox).frame
    OBVIOUS
<1>1. /\ inbox # <<>> /\ inbox' = Tail(inbox) /\ Acknowledge(f)
      /\ Head(inbox).kind = "ack" /\ Head(inbox).client = attached
      /\ UNCHANGED <<session_sequence, frame_id, last_screen, attached,
                     to_client, client, terminal>>
    BY DEF RenderAck
<1>2. Acked(1) /\ ~Resync(1) /\ f \in Nat /\ inbox[1].frame = f /\ 1 \in 1 .. Len(inbox)
    BY <1>1, Handles DEF Acked, Resync, Messages
<1>3. /\ Held' = Held /\ Waiting' = Waiting
      /\ ChunksFormed' /\ Lined' /\ Behind'
    BY <1>1, HandlesKeep
<1>4. /\ \A i \in 1 .. Len(fs') : \E k \in 1 .. Len(fs) : fs'[i] = fs[k]
      /\ rendered_session_sequence' <= shown
      /\ \/ force_full' /\ acknowledged_frame' = acknowledged_frame
         \/ acknowledged_frame' = f /\ force_full' = force_full /\ f >= acknowledged_frame
  <2>1. CASE /\ force_full' = TRUE
             /\ UNCHANGED <<acknowledged_frame, frame_sequences, rendered_session_sequence>>
    BY <2>1 DEF RenderedWasShown
  <2>2. ASSUME acknowledged_frame' = f, UNCHANGED force_full,
               NEW k \in 0 .. Len(fs), AckedPrefix(fs, f, k),
               fs' = SubSeq(fs, k + 1, Len(fs)),
               rendered_session_sequence'
                   \in {rendered_session_sequence} \cup {fs[i].sequence : i \in 1 .. k}
        PROVE  /\ \A i \in 1 .. Len(fs') : \E j \in 1 .. Len(fs) : fs'[i] = fs[j]
               /\ rendered_session_sequence' <= shown
    <3>1. fs \in Seq(FrameSequences) /\ Len(fs) \in Nat
      BY LenProperties DEF TypeOK
    <3>2. /\ Len(fs') = IF k + 1 <= Len(fs) THEN Len(fs) - (k + 1) + 1 ELSE 0
          /\ \A i \in 1 .. Len(fs) - (k + 1) + 1 : fs'[i] = fs[(k + 1) + i - 1]
      <4>1. \A i \in k + 1 .. Len(fs) : fs[i] \in FrameSequences
        BY <3>1, ElementOfSeq
      <4>. QED
        BY <2>2, <3>1, <4>1, SubSeqProperties
    <3>3. \A i \in 1 .. Len(fs') : /\ k + i \in 1 .. Len(fs)
                                   /\ fs'[i] = fs[k + i]
      BY <3>1, <3>2
    <3>4. ShownUpTo(f)
      BY <1>2 DEF AcksHonest
    <3>5. \A i \in 1 .. k : fs[i].sequence <= shown
      BY <2>2, <3>1, <3>4 DEF AckedPrefix, ShownUpTo
    <3>. QED
      BY <1>1, <2>2, <3>3, <3>5 DEF RenderedWasShown
  <2>. QED
    BY <1>1, <2>1, <2>2, Zenon DEF Acknowledge
<1>. HIDE DEF fs
<1>5. RenderedWasShown' /\ Tip'
    BY <1>1, <1>4 DEF RenderedWasShown, Tip, terminal
<1>6. Evidence'
    BY <1>1, <1>3, <1>4 DEF Evidence, fs
<1>7. (Told' <=> Told) /\ AcksHonest'
  <2>1. \A g : ShownUpTo(g) => ShownUpTo(g)'
    BY <1>1, <1>4 DEF ShownUpTo, fs, terminal
  <2>. QED
    BY <1>1, <1>2, <2>1, HandlesAcks DEF client
<1>8. Lands'
  <2>1. CASE force_full' /\ acknowledged_frame' = acknowledged_frame
    BY <1>1, <1>3, <1>7, <2>1, MovesSupport DEF Lands, client, terminal
  <2>2. CASE acknowledged_frame' = f /\ force_full' = force_full /\ f >= acknowledged_frame
    <3>1. Passed(f) /\ acknowledged_frame \in Nat /\ screen.frame \in Nat
      BY <1>2 DEF Behind, TypeOK, Screens
    <3>2. \A c \in Held \cup Waiting : c.frame > f /\ c.frame > acknowledged_frame
      <4>1. \A c \in Held \cup Waiting : Ahead(c) /\ c.frame \in Nat
        BY ChunkTypes DEF Behind
      <4>. QED
        BY <1>2, <2>2, <3>1, <4>1 DEF Ahead, Passed
    <3>3. \A b : Based(b) => Based(b)'
      BY <1>1, <1>3, <2>2, <3>2 DEF Based, terminal
    <3>4. \A d \in Waiting : Supported(d) => Supported(d)'
      BY <1>1, <1>3, <3>3 DEF Supported, terminal
    <3>5. \A d \in Held : LandsIntact(d) => LandsIntact(d)'
      BY <1>1 DEF LandsIntact, terminal
    <3>6. ~force_full /\ Based(last_screen) => Based(last_screen)'
      BY <1>1, <1>3, <2>2, <3>2 DEF Based, terminal
    <3>7. ~Told => \A d \in Held' : d.frame > acknowledged_frame' => LandsIntact(d)'
      BY <1>3, <3>2, <3>5 DEF Lands
    <3>8. ~Told /\ ~overflowed =>
              /\ \A d \in Waiting' : Supported(d)'
              /\ ~force_full => Based(last_screen)'
      BY <1>3, <3>2, <3>4, <3>6 DEF Lands
    <3>9. overflowed' => Frames(jobs') = {}
      BY <1>1 DEF Lands, client
    <3>. QED
      BY <1>1, <1>7, <2>2, <3>7, <3>8, <3>9 DEF Lands, client
  <2>. QED
    BY <1>4, <2>1, <2>2
<1>. QED
    BY <1>3, <1>5, <1>6, <1>7, <1>8

\* A client attaches: nothing of the one before it counts.
LEMMA AttachKeeps == ShownInv /\ Attach => Honest'
<1>. SUFFICES ASSUME ShownInv, Attach PROVE Honest'
    OBVIOUS
<1>. USE DEF ShownInv, FlowInv
<1>1. /\ attached' = clients + 1 /\ clients \in Nat /\ frame_id \in Nat
      /\ UNCHANGED <<frame_id, inbox, session_sequence>>
      /\ rendered_session_sequence' = 0 /\ shown' = 0
      /\ frame_sequences' = <<>> /\ last_screen' = 0 /\ force_full' = TRUE
      /\ to_client' = <<>> /\ overflowed' = FALSE /\ jobs' = <<>>
      /\ writer' = Idle /\ screen' = Blank
    BY DEF Attach, TypeOK
<1>2. Held' = {} /\ Waiting' = {} /\ Frames(jobs') = {} /\ Ordered(jobs') /\ Ordered(to_client')
  <2>1. Frames(to_client') = {} /\ Frames(jobs') = {} /\ Ordered(jobs') /\ Ordered(to_client')
    BY <1>1, EmptyFrames
  <2>. QED
    BY <1>1, <2>1 DEF Held, Waiting, Idle
<1>3. \A i \in 1 .. Len(inbox') : ~Acked(i)' /\ ~Resync(i)'
  <2>1. \A i \in 1 .. Len(inbox) : inbox[i].client \in Nat /\ inbox[i].client <= clients
    <3>1. \A i \in 1 .. Len(inbox) : inbox[i] \in Messages
      BY ElementOfSeq DEF TypeOK
    <3>. QED
      BY <3>1 DEF Clients, Messages
  <2>. QED
    BY <1>1, <2>1 DEF Acked, Resync
<1>4. ChunksFormed' /\ Lined' /\ Tip' /\ RenderedWasShown'
    BY <1>1, <1>2 DEF ChunksFormed, Lined, Tip, RenderedWasShown
<1>5. Behind'
    BY <1>1, <1>2, <1>3 DEF Behind, Blank, Idle
<1>6. Evidence' /\ AcksHonest'
    BY <1>1, <1>3, EmptySeq DEF Evidence, AcksHonest, Idle
<1>7. Lands'
    BY <1>1, <1>2 DEF Lands
<1>. QED
    BY <1>4, <1>5, <1>6, <1>7 DEF Honest

\* Messages come from clients that attached.
LEMMA ClientsKeep == ShownInv /\ [Next]_vars => Clients'
<1>. SUFFICES ASSUME ShownInv, [Next]_vars PROVE Clients'
    OBVIOUS
<1>. USE DEF ShownInv, FlowInv
<1>1. /\ clients \in Nat /\ attached \in {0, clients} /\ Len(inbox) \in Nat
      /\ \A i \in 1 .. Len(inbox) : inbox[i].client \in Nat /\ inbox[i].client <= clients
  <2>1. \A i \in 1 .. Len(inbox) : inbox[i] \in Messages
    BY ElementOfSeq DEF TypeOK
  <2>. QED
    BY <2>1, LenProperties DEF TypeOK, Clients, Messages
<1>2. \/ attached' = attached /\ clients' = clients
      \/ attached' = 0 /\ clients' = clients
      \/ attached' = clients + 1 /\ clients' = clients + 1
    BY DEF Next, Change, Leave, RenderNobody, FrameDeliveryFails, HandlerFails, Attach, SendControl,
           Rendering, Render, Handling, RenderAck, RenderResync, StaleMessage,
           Reading, ReadFrame, ReadControl, SendResync, Writing, TakeJob, WriteFrame,
           WriteControl, SendAck, ForgetClient, vars, actor
<1>3. \/ inbox' = inbox
      \/ inbox # <<>> /\ inbox' = Tail(inbox)
      \/ /\ clients' = clients
         /\ \E m \in Messages : m.client = clients /\ inbox' = Append(inbox, m)
  <2>1. CASE SendResync
    <3>1. [client |-> clients, kind |-> "resync"] \in Messages
      BY <1>1 DEF Messages
    <3>. QED
      BY <2>1, <3>1 DEF SendResync, actor
  <2>2. CASE SendAck
    <3>1. [client |-> clients, kind |-> "ack", frame |-> writer.frame] \in Messages
      BY <1>1, <2>2 DEF SendAck, TypeOK, Records, Chunks, Control, Idle, Acks, Messages
    <3>. QED
      BY <2>2, <3>1 DEF SendAck, actor
  <2>. QED
    BY <2>1, <2>2
    DEF Next, Change, Leave, RenderNobody, FrameDeliveryFails, HandlerFails, Attach, SendControl,
        Rendering, Render, Handling, RenderAck, RenderResync, StaleMessage,
        Reading, ReadFrame, ReadControl, Writing, TakeJob, WriteFrame, WriteControl, vars
<1>4. \A i \in 1 .. Len(inbox') : inbox'[i].client \in Nat /\ inbox'[i].client <= clients'
  <2>1. CASE inbox' = inbox
    BY <1>1, <1>2, <2>1
  <2>2. CASE inbox # <<>> /\ inbox' = Tail(inbox)
    <3>1. \A i \in 1 .. Len(inbox') : i + 1 \in 1 .. Len(inbox) /\ inbox'[i] = inbox[i + 1]
      <4>1. Len(inbox') = Len(inbox) - 1 /\ \A i \in 1 .. Len(inbox') : inbox'[i] = inbox[i + 1]
        BY <2>2, HeadTailProperties DEF TypeOK
      <4>. QED
        BY <1>1, <4>1
    <3>. QED
      BY <1>1, <1>2, <3>1
  <2>3. ASSUME clients' = clients, NEW m \in Messages, m.client = clients, inbox' = Append(inbox, m)
        PROVE  \A i \in 1 .. Len(inbox') : inbox'[i].client \in Nat /\ inbox'[i].client <= clients'
    <3>1. /\ Len(inbox') = Len(inbox) + 1
          /\ \A i \in 1 .. Len(inbox) : inbox'[i] = inbox[i]
          /\ inbox'[Len(inbox) + 1] = m
      BY <2>3, AppendProperties DEF TypeOK
    <3>2. \A i \in 1 .. Len(inbox') : i \in 1 .. Len(inbox) \/ i = Len(inbox) + 1
      BY <1>1, <3>1
    <3>. QED
      BY <1>1, <2>3, <3>1, <3>2
  <2>. QED
    BY <1>3, <2>1, <2>2, <2>3
<1>. QED
    BY <1>1, <1>2, <1>4 DEF Clients

\* Every step keeps the evidence honest.
LEMMA StepShown == ShownInv /\ [Next]_vars => ShownInv'
<1>. SUFFICES ASSUME ShownInv, [Next]_vars, attached' # 0 PROVE Honest'
    BY StepFlow, ClientsKeep DEF ShownInv
<1>1. CASE Attach
    BY <1>1, AttachKeeps
<1>2. ASSUME NEW lost \in BOOLEAN PROVE ~Leave(lost)
    BY DEF Leave, ForgetClient
<1>3. ~FrameDeliveryFails
    BY DEF FrameDeliveryFails, ForgetClient
<1>4. ASSUME ~Attach PROVE attached # 0
    BY <1>2, <1>3, <1>4
    DEF Next, Change, RenderNobody, HandlerFails, SendControl,
        Rendering, Render, Handling, RenderAck, RenderResync, StaleMessage,
        Reading, ReadFrame, ReadControl, SendResync, Writing, TakeJob, WriteFrame,
        WriteControl, SendAck, vars, actor
<1>5. CASE attached # 0 /\ UNCHANGED vars
  <2>1. UNCHANGED <<actor, inbox, to_client, overflowed, jobs, writer, terminal>>
    BY <1>5 DEF vars, client
  <2>2. Held' = Held /\ Waiting' = Waiting
    BY <2>1 DEF Held, Waiting
  <2>3. Moves /\ Told' = Told
    BY <2>1, <2>2 DEF Moves, Told, Resync, actor
  <2>4. Lined'
    BY <1>5, <2>1, <2>2 DEF ShownInv, Honest, Lined
  <2>5. Lands'
    BY <1>5, <2>1, <2>2, <2>3, MovesSupport DEF ShownInv, Honest, Lands, actor, terminal
  <2>. QED
    BY <1>5, <2>3, <2>4, <2>5, MovesKeep DEF Honest
<1>6. ASSUME attached # 0, \/ \E full \in BOOLEAN : Change(full)
                           \/ RenderNobody \/ HandlerFails
      PROVE Honest'
    BY <1>6, ChangeKeeps
<1>7. ASSUME attached # 0, Rendering PROVE Honest'
    BY <1>7, RenderKeeps DEF Rendering
<1>8. ASSUME attached # 0, SendControl \/ Handling \/ Reading \/ Writing PROVE Honest'
    BY <1>8, SendControlKeeps, RenderAckKeeps, RenderResyncKeeps, StaleMessageKeeps,
       ReadFrameKeeps, ReadControlKeeps, SendResyncKeeps, TakeJobKeeps, WriteFrameKeeps,
       WriteControlKeeps, SendAckKeeps DEF Handling, Reading, Writing
<1>. QED
    BY <1>1, <1>2, <1>3, <1>4, <1>5, <1>6, <1>7, <1>8 DEF Next

\* The strengthening holds in every reachable state.
LEMMA ShownInvariant == Spec => []ShownInv
<1>1. Init => FlowInv
    BY InitType DEF Init, FlowInv, WindowRespected, NoEvidenceLost
<1>2. Init => Clients /\ attached = 0
    BY EmptySeq DEF Init, Clients
<1>3. Init => ShownInv
    BY <1>1, <1>2 DEF ShownInv
<1>. QED
    BY <1>3, StepShown, PTL DEF Spec

\* For every window, queue limit and number of clients, what the actor reports as
\* rendered was on the attached client's screen in an intact frame: whatever was
\* discarded, superseded or acknowledged by a replaced client does not count.
THEOREM RenderedOnlyIfShown == Spec => []RenderedWasShown
<1>1. ShownInv => RenderedWasShown
    BY DEF ShownInv, Honest, RenderedWasShown
<1>. QED
    BY <1>1, ShownInvariant, PTL

\* For every window and queue limit, when nothing is under way the attached client's
\* terminal shows exactly the screen that the next diff is taken against.
THEOREM QuietScreensAgree == Spec => []QuietScreenAgrees
<1>1. ASSUME ShownInv, Quiet
      PROVE  screen.intact /\ screen.part = 0 /\ screen.frame = last_screen
  <2>. USE DEF Quiet, ShownInv, FlowInv, Honest
  <2>1. Held \cup Waiting = {}
    <3>1. Frames(jobs) = {}
      <4>1. \A i \in 1 .. Len(jobs) : jobs[i].kind # "frame"
        BY <1>1 DEF IsControl, Control
      <4>. QED
        BY <4>1 DEF Frames
    <3>2. Frames(to_client) = {}
      BY <1>1, EmptyFrames
    <3>. QED
      BY <1>1, <3>1, <3>2 DEF Held, Waiting
  <2>2. ~Told /\ ~overflowed /\ ~force_full
    BY <1>1 DEF Told, Resync
  <2>3. Based(last_screen)
    BY <1>1, <2>2 DEF Lands
  <2>. QED
    BY <2>1, <2>3 DEF Based
<1>2. ShownInv => QuietScreenAgrees
    BY <1>1 DEF QuietScreenAgrees, ShownInv, FlowInv
<1>. QED
    BY <1>2, ShownInvariant, PTL
=============================================================================
