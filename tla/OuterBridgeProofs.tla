------------------------- MODULE OuterBridgeProofs -------------------------
(***************************************************************************)
(* Proofs about the outer bridge.  The first part is about OuterControl,   *)
(* for every bound on the tables, number of requests, length of a batch    *)
(* and number of probes.  The second part is about OuterSession, for every *)
(* finite set of sources, every set of nodes and kinds, and every number   *)
(* of snapshots, failures and losses.                                      *)
(***************************************************************************)
EXTENDS OuterControl, OuterSession, SequenceTheorems, FunctionTheorems,
        FiniteSetTheorems, TLAPS

----------------------------------------------------------------------------
(* Queues of distinct jobs. *)

\* A job appended to a queue that does not have it keeps the jobs distinct.
LEMMA AppendRange ==
    ASSUME NEW S, NEW queue \in Seq(S), NEW item \in S
    PROVE  /\ Range(Append(queue, item)) = Range(queue) \cup {item}
           /\ IsInjective(queue) /\ item \notin Range(queue) => IsInjective(Append(queue, item))
<1>. DEFINE longer == Append(queue, item)
<1>1. /\ Len(queue) \in Nat /\ DOMAIN queue = 1 .. Len(queue)
      /\ DOMAIN longer = 1 .. Len(queue) + 1
      /\ \A i \in 1 .. Len(queue) : longer[i] = queue[i]
      /\ longer[Len(queue) + 1] = item
    BY AppendProperties, LenProperties
<1>. HIDE DEF longer
<1>2. Range(longer) = Range(queue) \cup {item}
    BY <1>1 DEF Range
<1>3. ASSUME IsInjective(queue), item \notin Range(queue) PROVE IsInjective(longer)
  <2>. SUFFICES ASSUME NEW i \in 1 .. Len(queue) + 1, NEW j \in 1 .. Len(queue) + 1, i # j
                PROVE  longer[i] # longer[j]
    BY <1>1 DEF IsInjective
  <2>1. CASE i \in 1 .. Len(queue) /\ j \in 1 .. Len(queue)
    BY <2>1, <1>1, <1>3 DEF IsInjective
  <2>2. CASE i = Len(queue) + 1 \/ j = Len(queue) + 1
    BY <2>2, <1>1, <1>3 DEF Range
  <2>. QED
    BY <2>1, <2>2, <1>1
<1>. QED
    BY <1>2, <1>3 DEF longer

\* What is left of a queue of distinct jobs does not have the job at its head.
LEMMA TailRange ==
    ASSUME NEW S, NEW queue \in Seq(S), queue # <<>>, IsInjective(queue)
    PROVE  /\ Head(queue) \in Range(queue) /\ Head(queue) \in S
           /\ Tail(queue) \in Seq(S) /\ Len(Tail(queue)) = Len(queue) - 1
           /\ Range(Tail(queue)) \subseteq Range(queue) \ {Head(queue)}
           /\ IsInjective(Tail(queue))
<1>. DEFINE rest == Tail(queue)
<1>1. /\ Len(queue) \in Nat \ {0} /\ DOMAIN queue = 1 .. Len(queue)
      /\ rest \in Seq(S) /\ Len(rest) = Len(queue) - 1
      /\ DOMAIN rest = 1 .. Len(queue) - 1
      /\ \A i \in 1 .. Len(queue) - 1 : rest[i] = queue[i + 1]
      /\ Head(queue) = queue[1] /\ Head(queue) \in S
    BY HeadTailProperties, LenProperties, EmptySeq
<1>. HIDE DEF rest
<1>2. Head(queue) \in Range(queue)
    BY <1>1 DEF Range
<1>3. Range(rest) \subseteq Range(queue) \ {Head(queue)}
  <2>. SUFFICES ASSUME NEW i \in 1 .. Len(queue) - 1
                PROVE  rest[i] \in Range(queue) \ {Head(queue)}
    BY <1>1 DEF Range
  <2>. QED
    BY <1>1 DEF Range, IsInjective
<1>4. IsInjective(rest)
  <2>. SUFFICES ASSUME NEW i \in 1 .. Len(queue) - 1, NEW j \in 1 .. Len(queue) - 1, i # j
                PROVE  rest[i] # rest[j]
    BY <1>1 DEF IsInjective
  <2>1. i + 1 \in DOMAIN queue /\ j + 1 \in DOMAIN queue /\ i + 1 # j + 1
    BY <1>1
  <2>. QED
    BY <1>1, <2>1 DEF IsInjective
<1>. QED
    BY <1>1, <1>2, <1>3, <1>4 DEF rest

----------------------------------------------------------------------------
(* Constants. *)

\* The bounds are positive numbers, and no request is one of the marks the dispatcher uses.
LEMMA Constants ==
    /\ MaxPending \in Nat \ {0} /\ MaxProbes \in Nat \ {0}
    /\ MaxRequests \in Nat \ {0} /\ MaxBatch \in Nat \ {0}
    /\ None \notin Nat
    /\ None \notin {"read", "write", "unknown", "overflow", "heartbeat"}
BY OuterControlAssumption

USE Constants

----------------------------------------------------------------------------
(* The inductive invariant. *)

\* A set of requests within the bound of the tables.
IsTable(table) == table \subseteq Requests /\ Cardinality(table) <= MaxPending

Workers == [at : {"ready", "send", "wait"}, request : Requests \cup {None},
            batch : Seq(Requests)]

\* Type correctness with the shape of the records, and the heads that are taken.
Typed ==
    /\ IsTable(pending) /\ IsTable(abandoned) /\ IsTable(replies)
    /\ oldest \in Requests \cup {None}
    /\ closed \in {None, "read", "write", "unknown", "overflow", "heartbeat"}
    /\ quiet \in BOOLEAN /\ probe \in {"none", "fresh", "old"}
    /\ unanswered \in 0 .. MaxProbes
    /\ worker \in Workers /\ Len(worker.batch) <= MaxBatch
    /\ worker.at = "send" => Len(worker.batch) < MaxBatch
    /\ worker.at = "wait" => worker.batch # <<>>
    /\ next \in 0 .. MaxRequests /\ sent \subseteq Requests /\ old \subseteq Requests
    /\ reader \in BOOLEAN /\ heartbeat \in {"tick", "ping", "gone"} /\ forgot \in BOOLEAN
    /\ presenter \in {"answering", "mute", "silent"}

Batch == Range(worker.batch)

\* The request whose reply the reader holds.
Held == IF hand # None /\ hand.kind = "reply" THEN {hand.request} ELSE {}

\* Nothing is known of a request before write_record has given it its number.
Numbered ==
    pending \cup abandoned \cup replies \cup sent \cup Held \cup Batch \subseteq 1 .. next

\* A request is in one table at most, and its reply is with the presenter or with
\* the reader.
Disjoint ==
    /\ pending \cap abandoned = {} /\ pending \cap replies = {} /\ abandoned \cap replies = {}
    /\ sent \cap Held = {}

\* The request being written is pending, and nobody else has seen it.
SendingIsNew ==
    worker.at = "send" =>
        /\ worker.request \in pending
        /\ worker.request \notin sent \cup Held \cup Batch

\* The requests the worker awaits are distinct, and each can still be answered.
BatchAnswerable ==
    /\ IsInjective(worker.batch)
    /\ closed = None => Batch \subseteq pending \cup replies

\* A reply to come is expected, unless its request was forgotten.
RepliesKnown ==
    /\ forgot \/ sent \cup Held \subseteq pending \cup abandoned
    /\ HonestNeverClosed

ControlInv == Typed /\ Numbered /\ Disjoint /\ SendingIsNew /\ BatchAnswerable /\ RepliesKnown

----------------------------------------------------------------------------
(* Tables and batches. *)

\* A table of requests is finite.
LEMMA TableFinite ==
    ASSUME NEW table, IsTable(table)
    PROVE  IsFiniteSet(table) /\ Cardinality(table) \in Nat
<1>0. MaxRequests \in Int /\ 1 \in Int
    BY Constants
<1>1. IsFiniteSet(Requests)
    BY <1>0, FS_Interval DEF Requests
<1>. QED
    BY <1>1, FS_Subset, FS_CardinalityType DEF IsTable

\* A table that has room takes another request.
LEMMA TableAdd ==
    ASSUME NEW table, IsTable(table), NEW r \in Requests, Cardinality(table) < MaxPending
    PROVE  IsTable(table \cup {r})
BY TableFinite, FS_AddElement DEF IsTable

\* A table that loses a request is a table.
LEMMA TableRemove ==
    ASSUME NEW table, IsTable(table), NEW r
    PROVE  IsTable(table \ {r})
<1>1. Cardinality(table \ {r}) <= Cardinality(table)
    BY TableFinite, FS_Subset
<1>2. Cardinality(table \ {r}) \in Nat
    BY TableFinite, FS_RemoveElement, FS_CardinalityType
<1>. QED
    BY <1>1, <1>2, TableFinite DEF IsTable

\* The empty table is a table.
LEMMA EmptyTable == IsTable({})
BY FS_EmptySet DEF IsTable

\* The empty batch is a batch.
LEMMA EmptyBatch ==
    /\ Ready \in Workers /\ Len(Ready.batch) = 0
    /\ Ready.at = "ready"
    /\ Range(Ready.batch) = {} /\ IsInjective(Ready.batch)
BY EmptySeq DEF Ready, Workers, Range, IsInjective

----------------------------------------------------------------------------
(* Types. *)

\* At first, everything has its type.
LEMMA InitTyped == Init => Typed
<1>. SUFFICES ASSUME Init PROVE Typed
    OBVIOUS
<1>1. quiet \in BOOLEAN /\ reader \in BOOLEAN /\ forgot \in BOOLEAN
    BY Zenon DEF Init
<1>. QED
    BY <1>1, EmptyTable, EmptyBatch DEF Init, Typed

\* Every step of the worker, the reader, the heartbeat, the presenter and the clock
\* keeps the types and the bounds.
LEMMA StepTyped == ControlInv /\ [Next]_vars => Typed'
<1>. SUFFICES ASSUME ControlInv, [Next]_vars PROVE Typed'
    OBVIOUS
<1>. USE DEF Typed, ControlInv
<1>. /\ worker.at \in {"ready", "send", "wait"} /\ worker.request \in Requests \cup {None}
     /\ worker.batch \in Seq(Requests)
    BY DEF Workers
<1>1. CASE UNCHANGED vars
    BY <1>1 DEF vars, state, health, world
<1>2. CASE Register
  <2>1. next + 1 \in Requests
    BY <1>2 DEF Register, Requests
  <2>2. IsTable(pending')
    BY <1>2, <2>1, TableAdd DEF Register
  <2>3. /\ worker' \in Workers /\ worker'.batch = worker.batch /\ worker'.at = "send"
    BY <1>2, <2>1 DEF Register, Workers
  <2>. QED
    BY <1>2, <2>1, <2>2, <2>3 DEF Register, health, world, Requests
<1>3. CASE RegisterRefused
    BY <1>3, EmptyBatch DEF RegisterRefused, state, health, world, Ready
<1>4. CASE Send
  <2>1. worker.request \in Requests
    BY <1>4 DEF Send, SendingIsNew, IsTable
  <2>2. worker'.at = "ready" /\ worker' \in Workers
    BY <1>4, <2>1, AppendProperties DEF Send, Workers
  <2>3. Len(worker'.batch) <= MaxBatch
    BY <1>4, <2>1, AppendProperties DEF Send
  <2>. QED
    BY <1>4, <2>1, <2>2, <2>3 DEF Send, state, health
<1>5. CASE SendFails
  <2>1. IsTable(pending')
    BY <1>5, TableRemove DEF SendFails
  <2>. QED
    BY <1>5, <2>1, EmptyBatch DEF SendFails, health, world
<1>6. CASE Await
    BY <1>6 DEF Await, Workers, state, health, world
<1>7. CASE TakeReply
  <2>1. IsTable(replies')
    BY <1>7, TableRemove DEF TakeReply
  <2>2. CASE worker' = Ready
    BY <1>7, <2>1, <2>2, EmptyBatch DEF TakeReply, health, world
  <2>3. CASE Len(worker.batch) > 1 /\ worker' = [worker EXCEPT !.batch = Tail(@)]
    <3>1. /\ Tail(worker.batch) \in Seq(Requests)
          /\ Len(Tail(worker.batch)) = Len(worker.batch) - 1
      BY <1>7, TailRange DEF TakeReply, BatchAnswerable
    <3>2. Len(worker.batch) \in Nat
      BY LenProperties
    <3>3. worker'.batch = Tail(worker.batch) /\ worker' \in Workers
      BY <2>3, <3>1 DEF Workers
    <3>4. Len(worker'.batch) <= MaxBatch
      BY <3>1, <3>2, <3>3
    <3>5. worker'.batch # <<>>
      <4>1. Len(worker'.batch) > 0
        BY <2>3, <3>1, <3>2, <3>3
      <4>2. Len(<<>>) = 0
        OBVIOUS
      <4>. QED
        BY <4>1, <4>2
    <3>6. worker'.at = "wait"
      BY <1>7, <2>3 DEF TakeReply
    <3>. QED
      BY <1>7, <2>1, <3>3, <3>4, <3>5, <3>6 DEF TakeReply, health, world
  <2>. QED
    BY <1>7, <2>2, <2>3 DEF TakeReply
<1>8. CASE WaitClosed
    BY <1>8, EmptyBatch DEF WaitClosed, state, health, world, Ready
<1>9. CASE WaitTimeout
  <2>1. Head(worker.batch) \in Requests
    BY <1>9, TailRange DEF WaitTimeout, BatchAnswerable
  <2>2. IsTable(pending')
    BY <1>9, TableRemove DEF WaitTimeout
  <2>3. IsTable(abandoned') /\ forgot' \in BOOLEAN
    BY <1>9, <2>1, TableAdd DEF WaitTimeout
  <2>. QED
    BY <1>9, <2>2, <2>3, EmptyBatch DEF WaitTimeout, OldestAfter, health, world
<1>10. ASSUME NEW record, Read(record), sent' \subseteq sent PROVE Typed'
  <2>1. quiet' \in BOOLEAN
    BY <1>10, Zenon DEF Read
  <2>. QED
    BY <1>10, <2>1 DEF Read, state
<1>11. CASE ReadFails
    BY <1>11 DEF ReadFails, ClosedWith, state, health, world
<1>12. CASE RouteEvent \/ AnswerPing \/ AnswerPingFails
  <2>1. reader' \in BOOLEAN
    BY <1>12, Zenon DEF RouteEvent, AnswerPing, AnswerPingFails, Routed
  <2>. QED
    BY <1>12, <2>1
    DEF RouteEvent, AnswerPing, AnswerPingFails, Routed, ClosedWith, state, health, world
<1>13. CASE RouteLateReply
    BY <1>13, TableRemove DEF RouteLateReply, Routed, ClosedWith, health, world
<1>14. CASE RouteReply
  <2>1. hand.request \in Requests
    BY <1>14 DEF RouteReply, Expected, IsTable
  <2>2. IsTable(pending') /\ IsTable(replies')
    BY <1>14, <2>1, TableAdd, TableRemove DEF RouteReply
  <2>3. /\ closed' \in {None, "read", "write", "unknown", "overflow", "heartbeat"}
        /\ reader' \in BOOLEAN
    BY <1>14 DEF RouteReply, Routed, ClosedWith
  <2>. QED
    BY <1>14, <2>2, <2>3 DEF RouteReply, Routed, OldestAfter, health, world
<1>15. CASE RouteUnknownReply
    BY <1>15 DEF RouteUnknownReply, Routed, ClosedWith, state, health, world
<1>16. CASE Probe
    BY <1>16 DEF Probe, state, world
<1>17. CASE WritePing \/ WritePingFails \/ GiveUp \/ HeartbeatEnds
    BY <1>17 DEF WritePing, WritePingFails, GiveUp, HeartbeatEnds, ClosedWith, state, health, world
<1>18. CASE Degrade
    BY <1>18 DEF Degrade, state, health
<1>19. CASE RequestAges
    BY <1>19 DEF RequestAges, Requests, state, health
<1>20. CASE InboundAges \/ ProbeAges
  <2>1. quiet' \in BOOLEAN
    BY <1>20, Zenon DEF InboundAges, ProbeAges
  <2>. QED
    BY <1>20, <2>1 DEF InboundAges, ProbeAges, state, world
<1>. QED
    BY <1>1, <1>2, <1>3, <1>4, <1>5, <1>6, <1>7, <1>8, <1>9, <1>10, <1>11, <1>12, <1>13,
       <1>14, <1>15, <1>16, <1>17, <1>18, <1>19, <1>20
    DEF Next, Worker, WorkerWaits, Reader, Routes, Heartbeat, Clock, ReadEvent, ReadPing, ReadReply

----------------------------------------------------------------------------
(* The accounting. *)

Accounted == Numbered /\ Disjoint /\ SendingIsNew /\ BatchAnswerable /\ RepliesKnown

\* At first, no request has been made.
LEMMA InitAccounted == Init => Accounted
<1>. SUFFICES ASSUME Init PROVE Accounted
    OBVIOUS
<1>1. Batch = {} /\ IsInjective(worker.batch) /\ worker.at = "ready" /\ Held = {}
    BY EmptyBatch DEF Init, Batch, Held
<1>2. closed # "unknown"
    BY DEF Init
<1>. QED
    BY <1>1, <1>2 DEF Init, Accounted, Numbered, Disjoint, SendingIsNew, BatchAnswerable,
        RepliesKnown, HonestNeverClosed

\* A step that leaves the requests where they are, and closes the connection at
\* most for another reason than a reply, keeps the accounting.
Aside ==
    /\ UNCHANGED <<pending, abandoned, replies, sent, forgot>>
    /\ next' \in {next, next + 1}
    /\ Held' = Held
    /\ closed' # closed => closed' \in {"read", "write", "overflow", "heartbeat"}

\* A step that moves no request keeps every request where it is known.
LEMMA AsideKeeps ==
    ASSUME ControlInv, Aside, worker' = worker \/ worker' = Ready \/ Await
    PROVE  Accounted'
<1>. USE DEF ControlInv, Accounted, Aside
<1>1. /\ Range(worker'.batch) \subseteq Range(worker.batch) /\ IsInjective(worker'.batch)
      /\ worker'.at # "send" \/ worker' = worker
    BY EmptyBatch DEF Await, Typed, Workers, BatchAnswerable, Range
<1>2. Numbered'
  <2>1. 1 .. next \subseteq 1 .. next'
    BY DEF Typed
  <2>. QED
    BY <1>1, <2>1 DEF Numbered, Batch
<1>3. Disjoint'
    BY DEF Disjoint
<1>4. SendingIsNew'
    BY <1>1 DEF SendingIsNew, Batch
<1>5. BatchAnswerable'
    BY <1>1 DEF BatchAnswerable, Batch
<1>6. RepliesKnown'
    BY DEF RepliesKnown, HonestNeverClosed
<1>. QED
    BY <1>2, <1>3, <1>4, <1>5, <1>6

\* A new request is in no table, and with nobody.
LEMMA RegisterKeeps == ControlInv /\ Register => Accounted'
<1>. SUFFICES ASSUME ControlInv, Register PROVE Accounted'
    OBVIOUS
<1>. USE DEF ControlInv, Accounted
<1>1. /\ next' = next + 1 /\ next + 1 \notin 1 .. next
      /\ 1 .. next \subseteq 1 .. next' /\ next' \in 1 .. next'
    BY DEF Register, Typed
<1>2. /\ worker'.at = "send" /\ worker'.request = next + 1 /\ worker'.batch = worker.batch
      /\ pending' = pending \cup {next + 1}
      /\ UNCHANGED <<abandoned, replies, closed, hand, sent, forgot>>
    BY DEF Register, Typed, Workers, world
<1>3. Batch' = Batch /\ Held' = Held
    BY <1>2 DEF Batch, Held
<1>4. Numbered'
    BY <1>1, <1>2, <1>3 DEF Numbered
<1>5. Disjoint'
    BY <1>1, <1>2, <1>3 DEF Disjoint, Numbered
<1>6. SendingIsNew'
    BY <1>1, <1>2, <1>3 DEF SendingIsNew, Numbered
<1>7. BatchAnswerable'
    BY <1>2, <1>3 DEF BatchAnswerable
<1>8. RepliesKnown'
    BY <1>2, <1>3 DEF RepliesKnown, HonestNeverClosed
<1>. QED
    BY <1>4, <1>5, <1>6, <1>7, <1>8

\* The request that is sent joins the batch: it is pending, and was not in it.
LEMMA SendKeeps == ControlInv /\ Send => Accounted'
<1>. SUFFICES ASSUME ControlInv, Send PROVE Accounted'
    OBVIOUS
<1>. USE DEF ControlInv, Accounted
<1>1. /\ worker.request \in pending /\ worker.request \in Requests
      /\ worker.request \notin sent \cup Held \cup Batch
      /\ worker.batch \in Seq(Requests)
    BY DEF Send, SendingIsNew, Typed, IsTable, Workers
<1>2. /\ worker'.at = "ready" /\ worker'.batch = Append(worker.batch, worker.request)
      /\ sent' = sent \cup {worker.request}
      /\ UNCHANGED <<pending, abandoned, replies, closed, next, hand, forgot>>
    BY DEF Send, state
<1>3. Batch' = Batch \cup {worker.request} /\ IsInjective(worker'.batch) /\ Held' = Held
    BY <1>1, <1>2, AppendRange DEF Batch, Held, BatchAnswerable
<1>4. Numbered'
    BY <1>1, <1>2, <1>3 DEF Numbered
<1>5. Disjoint'
    BY <1>1, <1>2, <1>3 DEF Disjoint
<1>6. SendingIsNew'
    BY <1>2 DEF SendingIsNew
<1>7. BatchAnswerable'
    BY <1>1, <1>2, <1>3 DEF BatchAnswerable
<1>8. RepliesKnown'
    BY <1>1, <1>2, <1>3 DEF RepliesKnown, HonestNeverClosed
<1>. QED
    BY <1>4, <1>5, <1>6, <1>7, <1>8

\* A request whose write failed is nowhere else.
LEMMA SendFailsKeeps == ControlInv /\ SendFails => Accounted'
<1>. SUFFICES ASSUME ControlInv, SendFails PROVE Accounted'
    OBVIOUS
<1>. USE DEF ControlInv, Accounted
<1>1. /\ pending' = pending \ {worker.request}
      /\ UNCHANGED <<abandoned, replies, closed, next, sent, hand, forgot>>
      /\ Batch' = {} /\ IsInjective(worker'.batch) /\ worker'.at = "ready" /\ Held' = Held
      /\ worker.request \notin sent \cup Held
    BY EmptyBatch DEF SendFails, SendingIsNew, Batch, Held, world
<1>. QED
    BY <1>1 DEF Numbered, Disjoint, SendingIsNew, BatchAnswerable, RepliesKnown, HonestNeverClosed

\* The reply at the head is taken.  What is left of the batch does not have its
\* request, and can still be answered.
LEMMA TakeReplyKeeps == ControlInv /\ TakeReply => Accounted'
<1>. SUFFICES ASSUME ControlInv, TakeReply PROVE Accounted'
    OBVIOUS
<1>. USE DEF ControlInv, Accounted
<1>. DEFINE r == Head(worker.batch)
<1>1. /\ replies' = replies \ {r}
      /\ UNCHANGED <<pending, abandoned, closed, next, sent, hand, forgot>>
      /\ worker.at = "wait" /\ worker.batch # <<>> /\ worker.batch \in Seq(Requests)
      /\ IsInjective(worker.batch)
    BY DEF TakeReply, Typed, Workers, BatchAnswerable, world
<1>2. Batch' \subseteq Batch \ {r} /\ IsInjective(worker'.batch) /\ worker'.at # "send"
  <2>1. CASE worker' = Ready
    BY <2>1, EmptyBatch DEF Batch
  <2>2. CASE worker' = [worker EXCEPT !.batch = Tail(@)]
    <3>1. worker'.batch = Tail(worker.batch) /\ worker'.at = "wait"
      BY <1>1, <2>2 DEF Typed, Workers
    <3>. QED
      BY <1>1, <3>1, TailRange DEF Batch
  <2>. QED
    BY <2>1, <2>2 DEF TakeReply
<1>3. Held' = Held
    BY <1>1 DEF Held
<1>. HIDE DEF r
<1>. QED
    BY <1>1, <1>2, <1>3
    DEF Numbered, Disjoint, SendingIsNew, BatchAnswerable, RepliesKnown, HonestNeverClosed

\* A wait that is given up moves its request from the pending to the abandoned
\* ones, or says that it was forgotten.
LEMMA WaitTimeoutKeeps == ControlInv /\ WaitTimeout => Accounted'
<1>. SUFFICES ASSUME ControlInv, WaitTimeout PROVE Accounted'
    OBVIOUS
<1>. USE DEF ControlInv, Accounted
<1>. DEFINE r == Head(worker.batch)
<1>1. /\ pending' = pending \ {r} /\ closed = None /\ r \notin replies
      /\ UNCHANGED <<replies, closed, next, sent, hand>>
      /\ worker.at = "wait" /\ worker.batch # <<>> /\ worker.batch \in Seq(Requests)
      /\ IsInjective(worker.batch)
      /\ \/ abandoned' = abandoned \cup {r} /\ forgot' = forgot
         \/ abandoned' = abandoned /\ forgot' = TRUE
    BY DEF WaitTimeout, Typed, Workers, BatchAnswerable, world
<1>2. r \in Batch /\ r \in 1 .. next
    BY <1>1, TailRange DEF Batch, Numbered
<1>3. Batch' = {} /\ IsInjective(worker'.batch) /\ worker'.at = "ready" /\ Held' = Held
    BY <1>1, EmptyBatch DEF WaitTimeout, Batch, Held
<1>. HIDE DEF r
<1>4. Numbered'
    BY <1>1, <1>2, <1>3 DEF Numbered
<1>5. Disjoint'
    BY <1>1, <1>3 DEF Disjoint
<1>6. SendingIsNew' /\ BatchAnswerable'
    BY <1>3 DEF SendingIsNew, BatchAnswerable
<1>7. RepliesKnown'
    BY <1>1, <1>3 DEF RepliesKnown, HonestNeverClosed
<1>. QED
    BY <1>4, <1>5, <1>6, <1>7

\* A reply that is read was with the presenter, and is now with the reader.
LEMMA ReadReplyKeeps == ControlInv /\ ReadReply => Accounted'
<1>. SUFFICES ASSUME ControlInv, ReadReply PROVE Accounted'
    OBVIOUS
<1>. USE DEF ControlInv, Accounted
<1>1. PICK r \in sent : /\ Read([kind |-> "reply", request |-> r])
                        /\ sent' = sent \ {r}
    BY DEF ReadReply
<1>2. /\ Held' \subseteq {r} /\ Batch' = Batch
      /\ UNCHANGED <<pending, abandoned, replies, closed, next, worker, forgot>>
    BY <1>1 DEF Read, Held, Batch, state
<1>. QED
    BY <1>1, <1>2
    DEF Numbered, Disjoint, SendingIsNew, BatchAnswerable, RepliesKnown, HonestNeverClosed

\* The reply to a request whose wait ended is dropped, and the request with it.
LEMMA RouteLateReplyKeeps == ControlInv /\ RouteLateReply => Accounted'
<1>. SUFFICES ASSUME ControlInv, RouteLateReply PROVE Accounted'
    OBVIOUS
<1>. USE DEF ControlInv, Accounted
<1>1. /\ abandoned' = abandoned \ {hand.request} /\ Held = {hand.request}
      /\ UNCHANGED <<pending, replies, closed, next, sent, worker, forgot>>
      /\ Held' = {} /\ Batch' = Batch
    BY DEF RouteLateReply, Late, Routed, Held, Batch, world
<1>. QED
    BY <1>1
    DEF Numbered, Disjoint, SendingIsNew, BatchAnswerable, RepliesKnown, HonestNeverClosed

\* An expected reply moves its request from the pending ones to the replies; with
\* no room for it the connection is closed.
LEMMA RouteReplyKeeps == ControlInv /\ RouteReply => Accounted'
<1>. SUFFICES ASSUME ControlInv, RouteReply PROVE Accounted'
    OBVIOUS
<1>. USE DEF ControlInv, Accounted
<1>. DEFINE r == hand.request
<1>1. /\ Held = {r} /\ r \in pending \ abandoned /\ pending' = pending \ {r}
      /\ UNCHANGED <<abandoned, next, sent, worker, forgot>>
      /\ Held' = {} /\ Batch' = Batch
    BY DEF RouteReply, Expected, Routed, Held, Batch, world
<1>2. \/ replies' = replies \cup {r} /\ closed' = closed
      \/ replies' = replies /\ closed' # None /\ (closed' = "unknown" => closed = "unknown")
    BY DEF RouteReply, Routed, ClosedWith
<1>. HIDE DEF r
<1>3. Numbered'
    BY <1>1, <1>2 DEF Numbered
<1>4. Disjoint'
    BY <1>1, <1>2 DEF Disjoint
<1>5. SendingIsNew'
    BY <1>1 DEF SendingIsNew
<1>6. BatchAnswerable'
    BY <1>1, <1>2 DEF BatchAnswerable
<1>7. RepliesKnown'
    BY <1>1, <1>2 DEF RepliesKnown, HonestNeverClosed, Disjoint
<1>. QED
    BY <1>3, <1>4, <1>5, <1>6, <1>7

\* A reply that the reader does not know was forgotten.
LEMMA RouteUnknownReplyKeeps == ControlInv /\ RouteUnknownReply => Accounted'
<1>. SUFFICES ASSUME ControlInv, RouteUnknownReply PROVE Accounted'
    OBVIOUS
<1>. USE DEF ControlInv, Accounted
<1>1. /\ Held = {hand.request} /\ hand.request \notin pending \cup abandoned
      /\ UNCHANGED <<pending, abandoned, replies, next, sent, worker, forgot>>
      /\ Held' = {} /\ Batch' = Batch
    BY DEF RouteUnknownReply, Late, Expected, Routed, Held, Batch, state, world
<1>2. closed' # None
    BY DEF RouteUnknownReply, Routed, ClosedWith
<1>3. forgot
    BY <1>1 DEF RepliesKnown
<1>. QED
    BY <1>1, <1>2, <1>3
    DEF Numbered, Disjoint, SendingIsNew, BatchAnswerable, RepliesKnown, HonestNeverClosed

\* Every step keeps every request where it is known.
LEMMA StepAccounted == ControlInv /\ [Next]_vars => Accounted'
<1>. SUFFICES ASSUME ControlInv, [Next]_vars PROVE Accounted'
    OBVIOUS
<1>1. CASE UNCHANGED vars
    BY <1>1, AsideKeeps DEF Aside, Held, vars, state, world
<1>2. CASE Register
    BY <1>2, RegisterKeeps
<1>3. CASE RegisterRefused
    BY <1>3, AsideKeeps DEF RegisterRefused, Aside, Held, state, world
<1>4. CASE Send
    BY <1>4, SendKeeps
<1>5. CASE SendFails
    BY <1>5, SendFailsKeeps
<1>6. CASE Await
    BY <1>6, AsideKeeps DEF Await, Aside, Held, state, world
<1>7. CASE TakeReply
    BY <1>7, TakeReplyKeeps
<1>8. CASE WaitClosed
    BY <1>8, AsideKeeps DEF WaitClosed, Aside, Held, state, world
<1>9. CASE WaitTimeout
    BY <1>9, WaitTimeoutKeeps
<1>10. CASE ReadEvent \/ ReadPing
    BY <1>10, AsideKeeps DEF ReadEvent, ReadPing, Read, Aside, Held, state
<1>11. CASE ReadReply
    BY <1>11, ReadReplyKeeps
<1>12. CASE ReadFails
    BY <1>12, AsideKeeps DEF ReadFails, ClosedWith, Aside, Held, state, world
<1>13. CASE RouteEvent \/ AnswerPing \/ AnswerPingFails
    BY <1>13, AsideKeeps
    DEF RouteEvent, AnswerPing, AnswerPingFails, Routed, ClosedWith, Aside, Held, state, world
<1>14. CASE RouteLateReply
    BY <1>14, RouteLateReplyKeeps
<1>15. CASE RouteReply
    BY <1>15, RouteReplyKeeps
<1>16. CASE RouteUnknownReply
    BY <1>16, RouteUnknownReplyKeeps
<1>17. CASE Heartbeat
    BY <1>17, AsideKeeps DEF Heartbeat, Probe, WritePing, WritePingFails, GiveUp, HeartbeatEnds,
        ClosedWith, Aside, Held, state, world
<1>18. CASE Degrade \/ Clock
    BY <1>18, AsideKeeps
    DEF Degrade, Clock, RequestAges, InboundAges, ProbeAges, Aside, Held, state, world
<1>. QED
    BY <1>1, <1>2, <1>3, <1>4, <1>5, <1>6, <1>7, <1>8, <1>9, <1>10, <1>11, <1>12, <1>13,
       <1>14, <1>15, <1>16, <1>17, <1>18
    DEF Next, Worker, WorkerWaits, Reader, Routes

----------------------------------------------------------------------------
(* The theorems. *)

\* The strengthening holds in every reachable state.
LEMMA ControlIsInvariant == Spec => []ControlInv
<1>1. Init => ControlInv
    BY InitTyped, InitAccounted DEF ControlInv, Accounted
<1>2. ControlInv /\ [Next]_vars => ControlInv'
    BY StepTyped, StepAccounted DEF ControlInv, Accounted
<1>. QED
    BY <1>1, <1>2, PTL DEF Spec

\* Whatever the deadlines, the reader and the heartbeat do, in any order, a request
\* is in one of pending_requests, abandoned_requests and replies at most, within
\* their bounds, and the batch that the bridge worker awaits can still be answered
\* while the connection is open.
THEOREM EveryRequestAccounted == Spec => []RequestsAccounted
<1>1. ControlInv => RequestsAccounted
  <2>. SUFFICES ASSUME ControlInv PROVE RequestsAccounted
    OBVIOUS
  <2>1. TypeOK
    BY DEF ControlInv, Typed, TypeOK, IsTable, Workers
  <2>. QED
    BY <2>1 DEF ControlInv, Disjoint, BatchAnswerable, Batch, Range, RequestsAccounted
<1>. QED
    BY <1>1, ControlIsInvariant, PTL

\* A presenter that answers each request at most once is never taken for one that
\* answers what was not asked, unless abandoned_requests was full when a wait ended.
THEOREM HonestKeptOpen == Spec => []HonestNeverClosed
<1>1. ControlInv => HonestNeverClosed
    BY DEF ControlInv, RepliesKnown
<1>. QED
    BY <1>1, ControlIsInvariant, PTL

HIDE Constants

----------------------------------------------------------------------------
(* The sessions of the bridge worker: the inductive invariant. *)

SessionFields == {"ids", "kinds", "nodes", "active", "contexts", "next", "live", "scene", "losses"}
EntryFields == {"kind", "meta", "playing", "eos", "link", "lost"}
JobFields == {"snap", "change", "phase", "made", "gone"}

\* The tables of a session are about sources of the scene and IDs it has given.
SessionTyped(T) ==
    /\ T = [field \in SessionFields |-> T[field]]
    /\ T.next \in Nat
    /\ T.ids \in [Keys -> 1 .. T.next \cup {Nil}]
    /\ T.kinds = [k \in Keys |-> T.kinds[k]] /\ \A k \in Keys : T.kinds[k] \in Kinds[k] \cup {Nil}
    /\ T.live = [i \in DOMAIN T.live |-> T.live[i]] /\ DOMAIN T.live \subseteq 1 .. T.next
    /\ \A i \in DOMAIN T.live : /\ T.live[i] = [field \in EntryFields |-> T.live[i][field]]
                                /\ T.live[i].lost \in BOOLEAN
    /\ DOMAIN T.active \subseteq Keys /\ T.nodes \subseteq NodeKeys

\* A snapshot of the inner scene.
Whole(snap) ==
    /\ DOMAIN snap.sources \subseteq Keys /\ snap.nodes \subseteq NodeKeys
    /\ \A k \in DOMAIN snap.sources : /\ snap.sources[k].kind \in Kinds[k]
                                      /\ LinkOf[k] \in DOMAIN snap.sources \cup {Nil}
    /\ \A n \in snap.nodes : Of[n] \in DOMAIN snap.sources

\* The presenter has the sources S, each under its ID, and the ones in gone, which
\* are to be destroyed.  A source it has lost has been reported, or forgotten.
Matches(T, S, gone) ==
    /\ \A k \in Keys : T.ids[k] # Nil <=> k \in DOMAIN S
    /\ \A k, l \in DOMAIN S : T.ids[k] = T.ids[l] => k = l
    /\ DOMAIN T.live = {T.ids[k] : k \in DOMAIN S} \cup gone
    /\ \A k \in DOMAIN S : T.ids[k] \notin gone
    /\ \A k \in Keys : T.kinds[k] # Nil => k \in DOMAIN S
    /\ \A k \in DOMAIN S :
         /\ T.kinds[k] \in {S[k].kind, Nil} /\ T.live[T.ids[k]].kind = S[k].kind
         /\ T.live[T.ids[k]].lost => T.ids[k] \in T.losses \/ T.kinds[k] = Nil
         /\ LinkOf[k] # Nil => T.live[T.ids[k]].link = T.ids[LinkOf[k]]

\* No source of S is one the bridge means to make again.
Kept(T, S) == \A k \in DOMAIN S : T.kinds[k] = S[k].kind

\* The nodes are shown on their sources, but for those of lost sources.
Displays(T, nodes) ==
    T.scene = [n \in {n \in nodes : ~T.live[T.ids[Of[n]]].lost} |-> T.ids[Of[n]]]

Base == IF fresh = Nothing THEN applied.sources ELSE <<>>

\* Between two snapshots the session shows the last one, or is to be replaced.
BetweenJobs ==
    job = Nothing =>
        /\ fresh = Nothing
        /\ ~slot /\ ~force => applied = wanted
        /\ ~replace => /\ Matches(bridge, applied.sources, {})
                       /\ Displays(bridge, applied.nodes)
                       /\ ~force => Kept(bridge, applied.sources)

\* What the phases of a snapshot have done so far.
InJob ==
    job # Nothing =>
        LET S == job.snap.sources
        IN /\ job = [field \in JobFields |-> job[field]]
           /\ Whole(job.snap)
           /\ ~slot => job.snap = wanted
           /\ job.change # "sources" =>
                fresh = Nothing /\ job.gone = {} /\ job.phase \in {"nodes", "playback", "applied"}
           /\ job.phase \in {"pause", "connect"} => fresh = Nothing
           /\ job.phase \in {"contexts", "create"} => Matches(Target, Base, {})
           /\ job.phase \in {"meta", "nodes", "playback", "destroy", "applied"} =>
                Matches(Target, S, job.gone) /\ Kept(Target, S)
           /\ job.phase \in {"playback", "destroy", "applied"} => Displays(Target, job.snap.nodes)
           /\ job.phase = "applied" => job.gone = {}

SessionInv ==
    /\ {slot, retry, force, replace} \subseteq BOOLEAN
    /\ replace => force
    /\ SessionTyped(bridge) /\ (fresh # Nothing => SessionTyped(fresh))
    /\ Whole(wanted) /\ Whole(applied)
    /\ BetweenJobs /\ InJob

----------------------------------------------------------------------------
(* The IDs of sources. *)

\* A finite set can be numbered.
LEMMA Numbering ==
    ASSUME NEW S, IsFiniteSet(S)
    PROVE  /\ Cardinality(S) \in Nat
           /\ \E p \in [S -> 1 .. Cardinality(S)] : \A a, b \in S : p[a] = p[b] => a = b
<1>1. Cardinality(S) \in Nat /\ ExistsBijection(1 .. Cardinality(S), S)
    BY FS_CardinalityType
<1>2. ExistsBijection(S, 1 .. Cardinality(S))
    BY <1>1, Fun_ExistsBijSymmetric
<1>3. PICK p \in Bijection(S, 1 .. Cardinality(S)) : TRUE
    BY <1>2 DEF ExistsBijection
<1>4. p \in [S -> 1 .. Cardinality(S)] /\ \A a, b \in S : p[a] = p[b] => a = b
    BY <1>3 DEF Bijection, Injection, IsInjective
<1>. QED
    BY <1>1, <1>4

\* create_sources can give the videos the first of the new IDs, and it gives each
\* source one of its own.
LEMMA IdsAreFresh ==
    ASSUME NEW T, T.next \in Nat, NEW ks \in SUBSET Keys
    PROVE  /\ Cardinality(ks) \in Nat
           /\ FreshIds(T, ks) \in [ks -> T.next + 1 .. T.next + Cardinality(ks)]
           /\ \A a, b \in ks : FreshIds(T, ks)[a] = FreshIds(T, ks)[b] => a = b
<1>. DEFINE videos == {k \in ks : LinkOf[k] = Nil}
            others == ks \ videos
            v == Cardinality(videos)
            o == Cardinality(others)
            top == T.next + Cardinality(ks)
            Orders(f) == \A a, b \in ks : /\ f[a] = f[b] => a = b
                                          /\ LinkOf[a] = b => f[b] < f[a]
<1>1. IsFiniteSet(ks) /\ IsFiniteSet(videos) /\ IsFiniteSet(others)
    BY FS_Subset, OuterSessionAssumption
<1>2. PICK p \in [videos -> 1 .. v] : \A a, b \in videos : p[a] = p[b] => a = b
    BY <1>1, Numbering
<1>3. PICK q \in [others -> 1 .. o] : \A a, b \in others : q[a] = q[b] => a = b
    BY <1>1, Numbering
<1>4. v \in Nat /\ o \in Nat /\ Cardinality(ks) = v + o
  <2>1. videos \cap others = {} /\ videos \cup others = ks
    OBVIOUS
  <2>2. Cardinality(videos \cap others) = 0
    BY <2>1, FS_EmptySet
  <2>3. v \in Nat /\ o \in Nat
    BY <1>1, FS_CardinalityType
  <2>. HIDE DEF videos, others
  <2>4. Cardinality(videos \cup others) = v + o - Cardinality(videos \cap others)
    BY <1>1, FS_Union
  <2>. QED
    BY <2>1, <2>2, <2>3, <2>4
<1>. DEFINE f == [k \in ks |-> IF k \in videos THEN T.next + p[k] ELSE T.next + v + q[k]]
<1>5. \A k \in ks : /\ k \in videos => f[k] = T.next + p[k] /\ p[k] \in 1 .. v
                    /\ k \in others => f[k] = T.next + v + q[k] /\ q[k] \in 1 .. o
  <2>. HIDE DEF v, o
  <2>1. \A k \in ks : f[k] = IF k \in videos THEN T.next + p[k] ELSE T.next + v + q[k]
    OBVIOUS
  <2>. HIDE DEF f, videos
  <2>. QED
    BY <2>1, <1>2, <1>3
<1>6. DOMAIN f = ks /\ f = [k \in ks |-> f[k]]
    OBVIOUS
<1>7. \A k \in ks : LinkOf[k] \in ks => LinkOf[k] \in videos /\ k \in others
    BY OuterSessionAssumption
<1>. HIDE DEF f, videos, others, v, o
<1>8. \A k \in ks : k \in videos \/ k \in others
    BY DEF others
<1>9. f \in [ks -> T.next + 1 .. top]
  <2>1. \A k \in ks : f[k] \in T.next + 1 .. top
    BY <1>4, <1>5, <1>8
  <2>. QED
    BY <1>6, <2>1
<1>10. Orders(f)
  <2>1. ASSUME NEW a \in ks, NEW b \in ks, f[a] = f[b] PROVE a = b
    <3>1. (a \in videos /\ b \in videos) \/ (a \in others /\ b \in others)
        BY <2>1, <1>4, <1>5, <1>8
    <3>2. (a \in videos /\ b \in videos => p[a] = p[b]) /\ (a \in others /\ b \in others => q[a] = q[b])
        BY <2>1, <1>4, <1>5
    <3>. QED
        BY <3>1, <3>2, <1>2, <1>3
  <2>2. ASSUME NEW a \in ks, NEW b \in ks, LinkOf[a] = b PROVE f[b] < f[a]
    <3>1. b \in videos /\ a \in others
        BY <2>2, <1>7
    <3>. QED
        BY <3>1, <1>4, <1>5
  <2>. QED
    BY <2>1, <2>2
<1>11. \E g \in [ks -> T.next + 1 .. top] : Orders(g)
    BY <1>9, <1>10
<1>12. FreshIds(T, ks) = CHOOSE g \in [ks -> T.next + 1 .. top] : Orders(g)
    BY DEF FreshIds
<1>13. FreshIds(T, ks) \in [ks -> T.next + 1 .. top] /\ Orders(FreshIds(T, ks))
  <2>. HIDE DEF Orders
  <2>. QED
    BY <1>11, <1>12
<1>. QED
    BY <1>4, <1>13

----------------------------------------------------------------------------
(* create_sources. *)

NewIds(T, S, ks) ==
    [k \in Keys |-> IF k \in ks THEN FreshIds(T, ks)[k]
                    ELSE IF k \in DOMAIN S THEN T.ids[k] ELSE Nil]

\* What create_sources changes, of a session whose presenter has made the sources in
\* made: it has them under new IDs, and the others as they were.
Created(T, S, ks, made, U) ==
    /\ U = [field \in SessionFields |-> U[field]]
    /\ U.ids = NewIds(T, S, ks)
    /\ U.kinds = [k \in Keys |-> IF k \in made THEN S[k].kind
                                 ELSE IF k \in DOMAIN S THEN T.kinds[k] ELSE Nil]
    /\ U.next = T.next + Cardinality(ks)
    /\ U.nodes = T.nodes /\ U.active = T.active /\ U.losses = T.losses
    /\ U.live = [i \in DOMAIN U.live |-> U.live[i]]
    /\ DOMAIN U.live = DOMAIN T.live \cup {FreshIds(T, ks)[k] : k \in made}
    /\ \A i \in DOMAIN T.live : U.live[i] = T.live[i]
    /\ \A k \in made :
         U.live[FreshIds(T, ks)[k]] =
             [kind |-> S[k].kind, meta |-> S[k].meta, playing |-> FALSE, eos |-> 0,
              link |-> IF LinkOf[k] = Nil THEN Nil ELSE NewIds(T, S, ks)[LinkOf[k]],
              lost |-> FALSE]

LEMMA Creates ==
    ASSUME NEW T, SessionTyped(T), NEW S, DOMAIN S \subseteq Keys,
           NEW ks \in SUBSET DOMAIN S, NEW made \in SUBSET ks,
           NEW U, U = create_sources(T, S, ks, made)
    PROVE  Created(T, S, ks, made, U)
<1>. DEFINE f == FreshIds(T, ks)
            new(k) == [kind |-> S[k].kind, meta |-> S[k].meta, playing |-> FALSE, eos |-> 0,
                       link |-> IF LinkOf[k] = Nil THEN Nil ELSE NewIds(T, S, ks)[LinkOf[k]],
                       lost |-> FALSE]
            kinds == [k \in Keys |-> IF k \in made THEN S[k].kind
                                     ELSE IF k \in DOMAIN S THEN T.kinds[k] ELSE Nil]
            live == [i \in DOMAIN T.live \cup {f[k] : k \in made} |->
                       IF \E k \in made : f[k] = i
                       THEN new(CHOOSE k \in made : f[k] = i) ELSE T.live[i]]
            last == T.next + Cardinality(ks)
<1>1. U = [T EXCEPT !.ids = NewIds(T, S, ks), !.kinds = kinds, !.next = last, !.live = live]
    BY DEF create_sources, NewIds
<1>2. T = [field \in SessionFields |-> T[field]] /\ T.next \in Nat /\ DOMAIN T.live \subseteq 1 .. T.next
    BY DEF SessionTyped
<1>3. /\ f \in [ks -> T.next + 1 .. last]
      /\ \A a, b \in ks : f[a] = f[b] => a = b
    BY <1>2, IdsAreFresh
<1>4. live = [i \in DOMAIN live |-> live[i]]
      /\ DOMAIN live = DOMAIN T.live \cup {f[k] : k \in made}
    OBVIOUS
<1>5. \A i \in DOMAIN T.live : live[i] = T.live[i]
  <2>. SUFFICES ASSUME NEW i \in DOMAIN T.live PROVE ~ \E k \in made : f[k] = i
    OBVIOUS
  <2>1. \A k \in made : f[k] \in T.next + 1 .. last
    BY <1>3
  <2>. HIDE DEF f, last
  <2>. QED
    BY <2>1, <1>2
<1>6. \A k \in made : live[f[k]] = new(k)
  <2>. SUFFICES ASSUME NEW k \in made PROVE live[f[k]] = new(k)
    OBVIOUS
  <2>1. (CHOOSE l \in made : f[l] = f[k]) = k
    BY <1>3
  <2>. HIDE DEF f, new
  <2>. QED
    BY <2>1
<1>. HIDE DEF live, kinds, last, f, new
<1>7. /\ U = [field \in SessionFields |-> U[field]]
      /\ U.ids = NewIds(T, S, ks) /\ U.kinds = kinds /\ U.next = last /\ U.live = live
      /\ U.nodes = T.nodes /\ U.active = T.active /\ U.losses = T.losses
    BY ONLY <1>1, <1>2 DEF SessionFields
<1>. QED
    BY <1>4, <1>5, <1>6, <1>7 DEF Created, kinds, last, f, new

\* create_sources keeps the tables of a session typed, however far it gets.
LEMMA CreateTyped ==
    ASSUME NEW T, SessionTyped(T), NEW snap, Whole(snap),
           NEW ks \in SUBSET DOMAIN snap.sources, NEW made \in SUBSET ks,
           NEW U, U = create_sources(T, snap.sources, ks, made)
    PROVE  SessionTyped(U)
<1>. DEFINE S == snap.sources
            f == FreshIds(T, ks)
<1>1. DOMAIN S \subseteq Keys /\ \A k \in DOMAIN S : S[k].kind \in Kinds[k]
    BY DEF Whole
<1>2. /\ T.next \in Nat /\ T.ids \in [Keys -> 1 .. T.next \cup {Nil}]
      /\ \A k \in Keys : T.kinds[k] \in Kinds[k] \cup {Nil}
      /\ DOMAIN T.live \subseteq 1 .. T.next
      /\ \A i \in DOMAIN T.live : /\ T.live[i] = [field \in EntryFields |-> T.live[i][field]]
                                  /\ T.live[i].lost \in BOOLEAN
      /\ DOMAIN T.active \subseteq Keys /\ T.nodes \subseteq NodeKeys
    BY DEF SessionTyped
<1>3. Cardinality(ks) \in Nat /\ f \in [ks -> T.next + 1 .. T.next + Cardinality(ks)]
    BY <1>1, <1>2, IdsAreFresh
<1>4. Created(T, S, ks, made, U)
    BY <1>1, Creates
<1>. HIDE DEF f, S
<1>5. U.next \in Nat /\ T.next <= U.next
    BY <1>2, <1>3, <1>4 DEF Created
<1>6. \A k \in ks : f[k] \in 1 .. U.next
    BY <1>2, <1>3, <1>4 DEF Created
<1>7. U.ids \in [Keys -> 1 .. U.next \cup {Nil}]
  <2>1. \A k \in Keys : NewIds(T, S, ks)[k] \in 1 .. U.next \cup {Nil}
    <3>1. \A k \in Keys : T.ids[k] \in 1 .. U.next \cup {Nil}
        BY <1>2, <1>5
    <3>2. \A k \in Keys : NewIds(T, S, ks)[k] = IF k \in ks THEN f[k]
                                                ELSE IF k \in DOMAIN S THEN T.ids[k] ELSE Nil
        BY DEF NewIds, f
    <3>. QED
        BY <3>1, <3>2, <1>6
  <2>. QED
    BY <1>4, <2>1 DEF NewIds, Created
<1>8. U.kinds = [k \in Keys |-> U.kinds[k]] /\ \A k \in Keys : U.kinds[k] \in Kinds[k] \cup {Nil}
  <2>1. U.kinds = [k \in Keys |-> IF k \in made THEN S[k].kind
                                  ELSE IF k \in DOMAIN S THEN T.kinds[k] ELSE Nil]
    BY <1>4 DEF Created
  <2>. QED
    BY <1>1, <1>2, <2>1 DEF S
<1>9. /\ U.live = [i \in DOMAIN U.live |-> U.live[i]]
      /\ DOMAIN U.live \subseteq 1 .. U.next
  <2>1. DOMAIN U.live = DOMAIN T.live \cup {f[k] : k \in made}
    BY <1>4 DEF Created, f
  <2>2. DOMAIN T.live \subseteq 1 .. U.next
    BY <1>2, <1>5
  <2>3. {f[k] : k \in made} \subseteq 1 .. U.next
    BY <1>6
  <2>4. U.live = [i \in DOMAIN U.live |-> U.live[i]]
    BY <1>4 DEF Created
  <2>. QED
    BY <2>1, <2>2, <2>3, <2>4
<1>10. \A i \in DOMAIN U.live : /\ U.live[i] = [field \in EntryFields |-> U.live[i][field]]
                                /\ U.live[i].lost \in BOOLEAN
  <2>1. \A k \in made : /\ U.live[f[k]] = [field \in EntryFields |-> U.live[f[k]][field]]
                        /\ U.live[f[k]].lost \in BOOLEAN
    <3>. SUFFICES ASSUME NEW k \in made, NEW entry, entry = U.live[f[k]]
                  PROVE  entry = [field \in EntryFields |-> entry[field]] /\ entry.lost \in BOOLEAN
        OBVIOUS
    <3>1. entry = [kind |-> S[k].kind, meta |-> S[k].meta, playing |-> FALSE, eos |-> 0,
                   link |-> IF LinkOf[k] = Nil THEN Nil ELSE NewIds(T, S, ks)[LinkOf[k]],
                   lost |-> FALSE]
        BY <1>4 DEF Created, f
    <3>. QED
        BY ONLY <3>1 DEF EntryFields
  <2>2. /\ DOMAIN U.live = DOMAIN T.live \cup {f[k] : k \in made}
        /\ \A i \in DOMAIN T.live : U.live[i] = T.live[i]
    BY <1>4 DEF Created, f
  <2>3. \A i \in DOMAIN T.live : /\ U.live[i] = [field \in EntryFields |-> U.live[i][field]]
                                 /\ U.live[i].lost \in BOOLEAN
    BY <1>2, <2>2
  <2>. QED
    BY <2>1, <2>2, <2>3
<1>11. /\ U = [field \in SessionFields |-> U[field]]
       /\ U.nodes = T.nodes /\ U.active = T.active
    BY <1>4 DEF Created
<1>. QED
    BY <1>2, <1>5, <1>7, <1>8, <1>9, <1>10, <1>11 DEF SessionTyped

\* A reconciliation makes what is new, changed or forgotten, and audio linked to it:
\* the presenter then has the sources of the snapshot, under their IDs, and the ones
\* to be destroyed, and every link is to the video that stays.
LEMMA CreateMatches ==
    ASSUME NEW T, SessionTyped(T), NEW B, DOMAIN B \subseteq Keys, Matches(T, B, {}),
           NEW snap, Whole(snap), NEW S, S = snap.sources,
           NEW U, U = create_sources(T, S, recreate(T, S), recreate(T, S))
    PROVE  Matches(U, S, obsolete(T, S)) /\ Kept(U, S)
<1>. DEFINE ks == recreate(T, S)
            gone == obsolete(T, S)
            f == FreshIds(T, ks)
<1>1. /\ DOMAIN S \subseteq Keys
      /\ \A k \in DOMAIN S : /\ S[k].kind \in Kinds[k] /\ S[k].kind # Nil
                             /\ LinkOf[k] \in DOMAIN S \cup {Nil}
    BY OuterSessionAssumption DEF Whole
<1>2. /\ T.next \in Nat /\ T.ids \in [Keys -> 1 .. T.next \cup {Nil}] /\ Nil \notin Nat
      /\ DOMAIN T.live \subseteq 1 .. T.next
    BY OuterSessionAssumption DEF SessionTyped
<1>3. /\ ks \in SUBSET DOMAIN S
      /\ \A k \in DOMAIN S : T.kinds[k] # S[k].kind => k \in ks
      /\ \A k \in DOMAIN S : k \notin ks /\ LinkOf[k] # Nil => LinkOf[k] \notin ks /\ LinkOf[k] \in DOMAIN S
  <2>1. \A k \in DOMAIN S : LinkOf[k] # Nil => LinkOf[LinkOf[k]] = Nil
    BY <1>1, OuterSessionAssumption
  <2>2. ks = {k \in DOMAIN S : T.kinds[k] # S[k].kind}
             \cup {k \in DOMAIN S : LinkOf[k] \in {l \in DOMAIN S : T.kinds[l] # S[l].kind}}
    BY DEF recreate
  <2>3. Nil \notin DOMAIN S
    BY <1>1, OuterSessionAssumption
  <2>. HIDE DEF ks
  <2>. QED
    BY <1>1, <2>1, <2>2, <2>3
<1>4. \A i : i \in gone <=> \E k \in Keys : /\ T.ids[k] = i /\ T.ids[k] # Nil
                                            /\ k \notin DOMAIN S \/ k \in ks
    BY DEF obsolete
<1>5. Created(T, S, ks, ks, U)
    BY <1>1, <1>3, Creates
<1>6. Cardinality(ks) \in Nat /\ f \in [ks -> T.next + 1 .. T.next + Cardinality(ks)]
      /\ \A a, b \in ks : f[a] = f[b] => a = b
    BY <1>1, <1>2, <1>3, IdsAreFresh
<1>. HIDE DEF ks, gone, f
<1>7. \A k \in Keys : U.ids[k] = IF k \in ks THEN f[k] ELSE IF k \in DOMAIN S THEN T.ids[k] ELSE Nil
    BY <1>5 DEF Created, NewIds, f
<1>8. \A k \in Keys : U.kinds[k] = IF k \in ks THEN S[k].kind
                                   ELSE IF k \in DOMAIN S THEN T.kinds[k] ELSE Nil
    BY <1>5 DEF Created
<1>9. /\ U.losses = T.losses
      /\ DOMAIN U.live = DOMAIN T.live \cup {f[k] : k \in ks}
      /\ \A i \in DOMAIN T.live : U.live[i] = T.live[i]
    BY <1>5 DEF Created, f
<1>10. \A k \in ks : U.live[f[k]] = [kind |-> S[k].kind, meta |-> S[k].meta, playing |-> FALSE,
                        eos |-> 0, link |-> IF LinkOf[k] = Nil THEN Nil ELSE U.ids[LinkOf[k]],
                        lost |-> FALSE]
    BY <1>5 DEF Created, f
<1>11. /\ \A k \in Keys : T.ids[k] # Nil <=> k \in DOMAIN B
       /\ \A k, l \in DOMAIN B : T.ids[k] = T.ids[l] => k = l
       /\ DOMAIN T.live = {T.ids[k] : k \in DOMAIN B}
       /\ \A k \in Keys : T.kinds[k] # Nil => k \in DOMAIN B
       /\ \A k \in DOMAIN B :
            /\ T.kinds[k] \in {B[k].kind, Nil} /\ T.live[T.ids[k]].kind = B[k].kind
            /\ T.live[T.ids[k]].lost => T.ids[k] \in T.losses \/ T.kinds[k] = Nil
            /\ LinkOf[k] # Nil => T.live[T.ids[k]].link = T.ids[LinkOf[k]]
    BY DEF Matches
\* What is kept is of its kind, and was there.
<1>12. \A k \in DOMAIN S : k \notin ks =>
          /\ k \in DOMAIN B /\ T.kinds[k] = S[k].kind /\ B[k].kind = S[k].kind
          /\ T.ids[k] \in 1 .. T.next /\ T.ids[k] \in DOMAIN T.live /\ U.ids[k] = T.ids[k]
  <2>. SUFFICES ASSUME NEW k \in DOMAIN S, k \notin ks
                PROVE  /\ k \in DOMAIN B /\ T.kinds[k] = S[k].kind /\ B[k].kind = S[k].kind
                       /\ T.ids[k] \in 1 .. T.next /\ T.ids[k] \in DOMAIN T.live /\ U.ids[k] = T.ids[k]
    OBVIOUS
  <2>1. T.kinds[k] = S[k].kind /\ T.kinds[k] # Nil /\ k \in Keys
    BY <1>1, <1>3
  <2>2. k \in DOMAIN B /\ B[k].kind = S[k].kind /\ T.ids[k] # Nil
    BY <1>11, <2>1
  <2>3. T.ids[k] \in 1 .. T.next /\ T.ids[k] \in DOMAIN T.live
    BY <1>2, <1>11, <2>1, <2>2
  <2>. QED
    BY <1>7, <2>1, <2>2, <2>3
<1>13. \A k \in ks : U.ids[k] = f[k] /\ f[k] \in Nat /\ f[k] > T.next
    BY <1>1, <1>2, <1>3, <1>6, <1>7
<1>14. \A k \in Keys : U.ids[k] # Nil <=> k \in DOMAIN S
    BY <1>2, <1>3, <1>7, <1>12, <1>13
<1>15. \A k, l \in DOMAIN S : U.ids[k] = U.ids[l] => k = l
  <2>. SUFFICES ASSUME NEW k \in DOMAIN S, NEW l \in DOMAIN S, U.ids[k] = U.ids[l] PROVE k = l
    OBVIOUS
  <2>1. CASE k \in ks /\ l \in ks
    BY <2>1, <1>6, <1>13
  <2>2. CASE k \notin ks /\ l \notin ks
    BY <2>2, <1>11, <1>12
  <2>3. CASE (k \in ks /\ l \notin ks) \/ (k \notin ks /\ l \in ks)
    BY <2>3, <1>2, <1>12, <1>13
  <2>. QED
    BY <2>1, <2>2, <2>3
<1>16. DOMAIN U.live = {U.ids[k] : k \in DOMAIN S} \cup gone
  <2>1. ASSUME NEW i \in DOMAIN U.live PROVE i \in {U.ids[k] : k \in DOMAIN S} \cup gone
    <3>1. CASE i \in {f[k] : k \in ks}
        BY <3>1, <1>3, <1>13
    <3>2. CASE i \in DOMAIN T.live
      <4>1. PICK k \in DOMAIN B : i = T.ids[k]
        BY <3>2, <1>11
      <4>2. k \in Keys /\ T.ids[k] # Nil
        BY <4>1, <1>11
      <4>. QED
        BY <4>1, <4>2, <1>4, <1>12
    <3>. QED
        BY <2>1, <3>1, <3>2, <1>9
  <2>2. ASSUME NEW k \in DOMAIN S PROVE U.ids[k] \in DOMAIN U.live
    BY <1>9, <1>12, <1>13
  <2>3. ASSUME NEW i \in gone PROVE i \in DOMAIN U.live
    BY <1>4, <1>9, <1>11
  <2>. QED
    BY <2>1, <2>2, <2>3
<1>17. \A k \in DOMAIN S : U.ids[k] \notin gone
  <2>. SUFFICES ASSUME NEW k \in DOMAIN S, U.ids[k] \in gone PROVE FALSE
    OBVIOUS
  <2>1. PICK l \in Keys : /\ T.ids[l] = U.ids[k] /\ T.ids[l] # Nil
                          /\ l \notin DOMAIN S \/ l \in ks
    BY <1>4
  <2>2. T.ids[l] \in 1 .. T.next /\ l \in DOMAIN B
    BY <2>1, <1>2, <1>11
  <2>3. k \notin ks
    BY <2>1, <2>2, <1>2, <1>13
  <2>4. k = l
    BY <2>1, <2>2, <2>3, <1>11, <1>12
  <2>. QED
    BY <2>1, <2>3, <2>4
<1>18. Kept(U, S)
    BY <1>1, <1>8, <1>12 DEF Kept
<1>19. \A k \in Keys : U.kinds[k] # Nil => k \in DOMAIN S
    BY <1>3, <1>8
<1>20. \A k \in DOMAIN S :
         /\ U.live[U.ids[k]].kind = S[k].kind
         /\ U.live[U.ids[k]].lost => U.ids[k] \in U.losses \/ U.kinds[k] = Nil
         /\ LinkOf[k] # Nil => U.live[U.ids[k]].link = U.ids[LinkOf[k]]
  <2>. SUFFICES ASSUME NEW k \in DOMAIN S
                PROVE  /\ U.live[U.ids[k]].kind = S[k].kind
                       /\ U.live[U.ids[k]].lost => U.ids[k] \in U.losses \/ U.kinds[k] = Nil
                       /\ LinkOf[k] # Nil => U.live[U.ids[k]].link = U.ids[LinkOf[k]]
    OBVIOUS
  <2>1. CASE k \in ks
    <3>1. U.live[U.ids[k]] =
             [kind |-> S[k].kind, meta |-> S[k].meta, playing |-> FALSE, eos |-> 0,
              link |-> IF LinkOf[k] = Nil THEN Nil ELSE U.ids[LinkOf[k]], lost |-> FALSE]
        BY <2>1, <1>10, <1>13
    <3>. QED
        BY ONLY <3>1
  <2>2. CASE k \notin ks
    <3>1. /\ k \in DOMAIN B /\ T.kinds[k] = S[k].kind /\ B[k].kind = S[k].kind
          /\ U.ids[k] = T.ids[k] /\ U.live[U.ids[k]] = T.live[T.ids[k]]
        BY <2>2, <1>9, <1>12
    <3>2. LinkOf[k] # Nil => U.ids[LinkOf[k]] = T.ids[LinkOf[k]]
        BY <2>2, <1>3, <1>12
    <3>3. T.kinds[k] # Nil
        BY <3>1, <1>1
    <3>. QED
        BY <3>1, <3>2, <3>3, <1>9, <1>11
  <2>. QED
    BY <2>1, <2>2
<1>. QED
  <2>1. \A k \in DOMAIN S : U.kinds[k] \in {S[k].kind, Nil}
    BY <1>18 DEF Kept
  <2>2. Matches(U, S, gone)
    BY <1>14, <1>15, <1>16, <1>17, <1>19, <1>20, <2>1 DEF Matches
  <2>. QED
    BY <1>18, <2>2 DEF gone

----------------------------------------------------------------------------
(* The other requests. *)

\* A presenter's source is the same, but for what it plays and how it is described.
SameSource(e, d) ==
    /\ d = [field \in EntryFields |-> d[field]]
    /\ d.kind = e.kind /\ d.link = e.link /\ d.lost = e.lost

\* The sources of a session, and what the bridge knows of them, are the same.
Stays(T, U) ==
    /\ U.ids = T.ids /\ U.kinds = T.kinds /\ U.losses = T.losses
    /\ DOMAIN U.live = DOMAIN T.live
    /\ \A i \in DOMAIN T.live : /\ U.live[i].kind = T.live[i].kind
                                /\ U.live[i].link = T.live[i].link
                                /\ U.live[i].lost = T.live[i].lost

\* A session whose sources stay has what it had, and shows what it showed.
LEMMA StayingMatches ==
    ASSUME NEW T, NEW U, Stays(T, U), NEW snap, Whole(snap), NEW gone,
           Matches(T, snap.sources, gone)
    PROVE  /\ Matches(U, snap.sources, gone)
           /\ Kept(T, snap.sources) => Kept(U, snap.sources)
           /\ Displays(T, snap.nodes) /\ U.scene = T.scene => Displays(U, snap.nodes)
<1>. DEFINE S == snap.sources
<1>1. /\ U.ids = T.ids /\ U.kinds = T.kinds /\ U.losses = T.losses
      /\ DOMAIN U.live = DOMAIN T.live
      /\ \A i \in DOMAIN T.live : /\ U.live[i].kind = T.live[i].kind
                                  /\ U.live[i].link = T.live[i].link
                                  /\ U.live[i].lost = T.live[i].lost
    BY DEF Stays
<1>2. \A k \in DOMAIN S : T.ids[k] \in DOMAIN T.live
    BY DEF Matches
<1>3. Matches(U, S, gone)
    BY <1>1, <1>2 DEF Matches
<1>4. Kept(T, S) => Kept(U, S)
    BY <1>1 DEF Kept
<1>5. ASSUME Displays(T, snap.nodes), U.scene = T.scene PROVE Displays(U, snap.nodes)
  <2>1. \A n \in snap.nodes : T.ids[Of[n]] \in DOMAIN T.live
    BY <1>2 DEF Whole
  <2>2. {n \in snap.nodes : ~U.live[U.ids[Of[n]]].lost} = {n \in snap.nodes : ~T.live[T.ids[Of[n]]].lost}
    BY <1>1, <2>1
  <2>. QED
    BY <1>1, <1>5, <2>2 DEF Displays
<1>. QED
    BY <1>3, <1>4, <1>5

\* Writing a session's sources anew, as they are, keeps it typed.
LEMMA Rewriting ==
    ASSUME NEW T, SessionTyped(T), NEW live, live = [i \in DOMAIN T.live |-> live[i]],
           \A i \in DOMAIN T.live : SameSource(T.live[i], live[i]),
           NEW U, U = [T EXCEPT !.live = live]
    PROVE  SessionTyped(U) /\ Stays(T, U) /\ U.scene = T.scene
<1>1. T = [field \in SessionFields |-> T[field]]
    BY DEF SessionTyped
<1>2. /\ U = [field \in SessionFields |-> U[field]]
      /\ U.ids = T.ids /\ U.kinds = T.kinds /\ U.next = T.next /\ U.live = live
      /\ U.nodes = T.nodes /\ U.active = T.active /\ U.losses = T.losses /\ U.scene = T.scene
    BY ONLY <1>1, U = [T EXCEPT !.live = live] DEF SessionFields
<1>3. /\ U.live = [i \in DOMAIN U.live |-> U.live[i]] /\ DOMAIN U.live = DOMAIN T.live
      /\ \A i \in DOMAIN T.live : SameSource(T.live[i], U.live[i])
  <2>1. DOMAIN live = DOMAIN T.live /\ live = [i \in DOMAIN live |-> live[i]]
    OBVIOUS
  <2>. QED
    BY <1>2, <2>1
<1>4. Stays(T, U)
    BY <1>2, <1>3 DEF Stays, SameSource
<1>5. \A i \in DOMAIN T.live : T.live[i].lost \in BOOLEAN
    BY DEF SessionTyped
<1>6. \A i \in DOMAIN U.live : /\ U.live[i] = [field \in EntryFields |-> U.live[i][field]]
                               /\ U.live[i].lost \in BOOLEAN
    BY <1>3, <1>5 DEF SameSource
<1>7. /\ T.next \in Nat /\ T.ids \in [Keys -> 1 .. T.next \cup {Nil}]
      /\ T.kinds = [k \in Keys |-> T.kinds[k]] /\ \A k \in Keys : T.kinds[k] \in Kinds[k] \cup {Nil}
      /\ DOMAIN T.live \subseteq 1 .. T.next
      /\ DOMAIN T.active \subseteq Keys /\ T.nodes \subseteq NodeKeys
    BY DEF SessionTyped
<1>. QED
    BY <1>2, <1>3, <1>4, <1>6, <1>7 DEF SessionTyped

\* SET_SOURCE_POLICY and UPDATE_SOURCE_DESCRIPTOR.
LEMMA MetaStays ==
    ASSUME NEW T, SessionTyped(T), NEW S, NEW made, NEW U, U = SendMeta(T, S, made)
    PROVE  SessionTyped(U) /\ Stays(T, U) /\ U.scene = T.scene
<1>. DEFINE ks == {k \in DOMAIN S \cap DOMAIN T.active : k \notin made /\ S[k].meta # T.active[k].meta}
            live == [i \in DOMAIN T.live |->
                       IF \E k \in ks : T.ids[k] = i
                       THEN [T.live[i] EXCEPT !.meta = S[CHOOSE k \in ks : T.ids[k] = i].meta]
                       ELSE T.live[i]]
<1>1. T = [field \in SessionFields |-> T[field]]
      /\ \A i \in DOMAIN T.live : T.live[i] = [field \in EntryFields |-> T.live[i][field]]
    BY DEF SessionTyped
<1>2. U = [T EXCEPT !.live = live]
    BY DEF SendMeta
<1>3. \A i \in DOMAIN T.live : SameSource(T.live[i], live[i])
  <2>. SUFFICES ASSUME NEW i \in DOMAIN T.live PROVE SameSource(T.live[i], live[i])
    OBVIOUS
  <2>1. \/ live[i] = T.live[i]
        \/ live[i] = [T.live[i] EXCEPT !.meta = S[CHOOSE k \in ks : T.ids[k] = i].meta]
    OBVIOUS
  <2>2. PICK e, d, meta : /\ e = T.live[i] /\ d = live[i]
                          /\ d = e \/ d = [e EXCEPT !.meta = meta]
    BY <2>1
  <2>3. e = [field \in EntryFields |-> e[field]]
    BY <1>1, <2>2
  <2>4. SameSource(e, d)
    BY ONLY <2>2, <2>3 DEF SameSource, EntryFields
  <2>. QED
    BY <2>2, <2>4
<1>4. live = [i \in DOMAIN T.live |-> live[i]]
    OBVIOUS
<1>. HIDE DEF live
<1>. QED
    BY <1>2, <1>3, <1>4, Rewriting

\* PLAY, PAUSE and EOS.
LEMMA SentStays ==
    ASSUME NEW T, SessionTyped(T), NEW S, NEW before, NEW made,
           NEW U, U = [T EXCEPT !.live = Sent(T, S, before, made).live]
    PROVE  SessionTyped(U) /\ Stays(T, U) /\ U.scene = T.scene
<1>. DEFINE live == Sent(T, S, before, made).live
<1>1. \A i \in DOMAIN T.live : T.live[i] = [field \in EntryFields |-> T.live[i][field]]
    BY DEF SessionTyped
<1>2. /\ live = [i \in DOMAIN T.live |-> live[i]]
      /\ \A i \in DOMAIN T.live :
            live[i] = T.live[i] \/ \E playing, eos : live[i] = [T.live[i] EXCEPT !.playing = playing, !.eos = eos]
    BY DEF Sent
<1>. HIDE DEF live
<1>3. \A i \in DOMAIN T.live : SameSource(T.live[i], live[i])
  <2>. SUFFICES ASSUME NEW i \in DOMAIN T.live PROVE SameSource(T.live[i], live[i])
    OBVIOUS
  <2>1. PICK playing, eos : \/ live[i] = T.live[i]
                            \/ live[i] = [T.live[i] EXCEPT !.playing = playing, !.eos = eos]
    BY <1>2
  <2>2. PICK e, d : /\ e = T.live[i] /\ d = live[i]
                    /\ d = e \/ d = [e EXCEPT !.playing = playing, !.eos = eos]
    BY <2>1
  <2>3. e = [field \in EntryFields |-> e[field]]
    BY <1>1, <2>2
  <2>4. SameSource(e, d)
    BY ONLY <2>2, <2>3 DEF SameSource, EntryFields
  <2>. QED
    BY <2>2, <2>4
<1>. QED
    BY <1>2, <1>3, Rewriting DEF live

\* A presenter that loses a source reports it, and takes its nodes with it.
LEMMA LosingKeeps ==
    ASSUME NEW T, SessionTyped(T), NEW i \in DOMAIN T.live, NEW U, U = Loses(T, i),
           NEW snap, NEW gone
    PROVE  /\ SessionTyped(U)
           /\ Whole(snap) /\ Matches(T, snap.sources, gone) =>
                /\ Matches(U, snap.sources, gone)
                /\ Kept(T, snap.sources) => Kept(U, snap.sources)
                /\ Displays(T, snap.nodes) => Displays(U, snap.nodes)
<1>. DEFINE S == snap.sources
            scene == Without(T.scene, {n \in DOMAIN T.scene : T.scene[n] = i})
            lost == [T.live[i] EXCEPT !.lost = TRUE]
            live == [T.live EXCEPT ![i] = lost]
<1>1. /\ T = [field \in SessionFields |-> T[field]]
      /\ T.live = [j \in DOMAIN T.live |-> T.live[j]]
      /\ \A j \in DOMAIN T.live : /\ T.live[j] = [field \in EntryFields |-> T.live[j][field]]
                                  /\ T.live[j].lost \in BOOLEAN
    BY DEF SessionTyped
<1>2. U = [T EXCEPT !.live = live, !.scene = scene, !.losses = T.losses \cup {i}]
    BY <1>1 DEF Loses, SessionFields
<1>3. /\ live = [j \in DOMAIN T.live |-> live[j]] /\ live[i] = lost
      /\ \A j \in DOMAIN T.live : j # i => live[j] = T.live[j]
    BY <1>1
<1>4. /\ lost = [field \in EntryFields |-> lost[field]]
      /\ lost.kind = T.live[i].kind /\ lost.link = T.live[i].link /\ lost.lost = TRUE
  <2>1. T.live[i] = [field \in EntryFields |-> T.live[i][field]]
    BY <1>1
  <2>. QED
    BY ONLY <2>1 DEF EntryFields
<1>. HIDE DEF live, lost, scene
<1>5. /\ U = [field \in SessionFields |-> U[field]]
      /\ U.ids = T.ids /\ U.kinds = T.kinds /\ U.next = T.next /\ U.live = live
      /\ U.nodes = T.nodes /\ U.active = T.active /\ U.losses = T.losses \cup {i} /\ U.scene = scene
    BY ONLY <1>1, <1>2 DEF SessionFields
<1>6. \A j \in DOMAIN T.live : /\ U.live[j] = [field \in EntryFields |-> U.live[j][field]]
                               /\ U.live[j].kind = T.live[j].kind /\ U.live[j].link = T.live[j].link
                               /\ U.live[j].lost <=> j = i \/ T.live[j].lost
                               /\ U.live[j].lost \in BOOLEAN
  <2>. SUFFICES ASSUME NEW j \in DOMAIN T.live, NEW e, e = T.live[j], NEW d, d = live[j]
                PROVE  /\ d = [field \in EntryFields |-> d[field]]
                       /\ d.kind = e.kind /\ d.link = e.link
                       /\ (d.lost <=> j = i \/ e.lost) /\ d.lost \in BOOLEAN
    BY <1>5
  <2>1. e = [field \in EntryFields |-> e[field]] /\ e.lost \in BOOLEAN
    BY <1>1
  <2>2. CASE j = i
    BY <2>2, <1>3, <1>4
  <2>3. CASE j # i
    BY <2>1, <2>3, <1>3
  <2>. QED
    BY <2>2, <2>3
<1>7. /\ U.live = [j \in DOMAIN U.live |-> U.live[j]] /\ DOMAIN U.live = DOMAIN T.live
  <2>1. DOMAIN live = DOMAIN T.live /\ live = [j \in DOMAIN live |-> live[j]]
    BY <1>3
  <2>. QED
    BY <1>5, <2>1
<1>8. SessionTyped(U)
  <2>1. /\ T.next \in Nat /\ T.ids \in [Keys -> 1 .. T.next \cup {Nil}]
        /\ T.kinds = [k \in Keys |-> T.kinds[k]] /\ \A k \in Keys : T.kinds[k] \in Kinds[k] \cup {Nil}
        /\ DOMAIN T.live \subseteq 1 .. T.next
        /\ DOMAIN T.active \subseteq Keys /\ T.nodes \subseteq NodeKeys
    BY DEF SessionTyped
  <2>. QED
    BY <2>1, <1>5, <1>6, <1>7 DEF SessionTyped
<1>9. ASSUME Whole(snap), Matches(T, S, gone)
      PROVE  /\ Matches(U, S, gone)
             /\ Kept(T, S) => Kept(U, S)
             /\ Displays(T, snap.nodes) => Displays(U, snap.nodes)
  <2>1. \A k \in DOMAIN S : T.ids[k] \in DOMAIN T.live
    BY <1>9 DEF Matches
  <2>2. \A k \in DOMAIN S :
           /\ T.kinds[k] \in {S[k].kind, Nil} /\ T.live[T.ids[k]].kind = S[k].kind
           /\ T.live[T.ids[k]].lost => T.ids[k] \in T.losses \/ T.kinds[k] = Nil
           /\ LinkOf[k] # Nil => T.live[T.ids[k]].link = T.ids[LinkOf[k]]
    BY <1>9 DEF Matches
  <2>3. \A k \in DOMAIN S :
           /\ U.kinds[k] \in {S[k].kind, Nil} /\ U.live[U.ids[k]].kind = S[k].kind
           /\ U.live[U.ids[k]].lost => U.ids[k] \in U.losses \/ U.kinds[k] = Nil
           /\ LinkOf[k] # Nil => U.live[U.ids[k]].link = U.ids[LinkOf[k]]
    <3>. SUFFICES ASSUME NEW k \in DOMAIN S
                  PROVE  /\ U.kinds[k] \in {S[k].kind, Nil} /\ U.live[U.ids[k]].kind = S[k].kind
                         /\ U.live[U.ids[k]].lost => U.ids[k] \in U.losses \/ U.kinds[k] = Nil
                         /\ LinkOf[k] # Nil => U.live[U.ids[k]].link = U.ids[LinkOf[k]]
        OBVIOUS
    <3>1. /\ U.live[U.ids[k]].kind = T.live[T.ids[k]].kind
          /\ U.live[U.ids[k]].link = T.live[T.ids[k]].link
          /\ U.live[U.ids[k]].lost => T.ids[k] = i \/ T.live[T.ids[k]].lost
      <4>1. PICK j \in DOMAIN T.live : j = T.ids[k] /\ j = U.ids[k]
        BY <2>1, <1>5
      <4>2. /\ U.live[j].kind = T.live[j].kind /\ U.live[j].link = T.live[j].link
            /\ U.live[j].lost => j = i \/ T.live[j].lost
        BY <1>6
      <4>. QED
        BY ONLY <4>1, <4>2
    <3>. QED
        BY <3>1, <2>2, <1>5
  <2>4. Matches(U, S, gone)
    BY <1>9, <2>3, <1>5, <1>7 DEF Matches
  <2>5. Kept(T, S) => Kept(U, S)
    BY <1>5 DEF Kept
  <2>6. ASSUME Displays(T, snap.nodes) PROVE Displays(U, snap.nodes)
    <3>1. \A n \in snap.nodes : T.ids[Of[n]] \in DOMAIN T.live
        BY <1>9, <2>1 DEF Whole
    <3>2. \A n \in snap.nodes : U.live[U.ids[Of[n]]].lost <=> T.ids[Of[n]] = i \/ T.live[T.ids[Of[n]]].lost
        BY <3>1, <1>5, <1>6
    <3>3. /\ DOMAIN T.scene = {n \in snap.nodes : ~T.live[T.ids[Of[n]]].lost}
          /\ \A n \in DOMAIN T.scene : T.scene[n] = T.ids[Of[n]]
        BY <2>6 DEF Displays
    <3>. DEFINE shown == {n \in snap.nodes : ~U.live[U.ids[Of[n]]].lost}
                kept == DOMAIN T.scene \ {n \in DOMAIN T.scene : T.scene[n] = i}
    <3>4. scene = [n \in kept |-> T.scene[n]]
        BY DEF scene, Without
    <3>5. kept = shown
      <4>1. ASSUME NEW n PROVE n \in kept <=> n \in shown
        <5>1. n \in kept <=> n \in DOMAIN T.scene /\ T.scene[n] # i
            OBVIOUS
        <5>2. n \in shown <=> n \in snap.nodes /\ ~U.live[U.ids[Of[n]]].lost
            OBVIOUS
        <5>. QED
            BY <5>1, <5>2, <3>2, <3>3
      <4>. QED
        BY <4>1
    <3>6. \A n \in kept : T.scene[n] = U.ids[Of[n]]
        BY <3>3, <1>5
    <3>. HIDE DEF kept
    <3>7. scene = [n \in shown |-> U.ids[Of[n]]]
        BY <3>4, <3>5, <3>6
    <3>. QED
        BY <3>7, <1>5 DEF Displays
  <2>. QED
    BY <2>4, <2>5, <2>6
<1>. QED
    BY <1>8, <1>9

\* The transaction of reconcile_nodes shows the nodes of the snapshot.
LEMMA NodesShown ==
    ASSUME NEW T, SessionTyped(T), NEW snap, Whole(snap), SceneAccepted(T, snap.nodes),
           NEW U, U = reconcile_nodes(T, snap.nodes)
    PROVE  SessionTyped(U) /\ Stays(T, U) /\ Displays(U, snap.nodes)
<1>1. T = [field \in SessionFields |-> T[field]]
    BY DEF SessionTyped
<1>. DEFINE scene == [n \in snap.nodes |-> T.ids[Of[n]]]
<1>2. U = [T EXCEPT !.nodes = snap.nodes, !.scene = scene]
    BY DEF reconcile_nodes
<1>. HIDE DEF scene
<1>3. /\ U = [field \in SessionFields |-> U[field]]
      /\ U.ids = T.ids /\ U.kinds = T.kinds /\ U.next = T.next /\ U.live = T.live
      /\ U.nodes = snap.nodes /\ U.active = T.active /\ U.losses = T.losses /\ U.scene = scene
    BY ONLY <1>1, <1>2 DEF SessionFields
<1>4. SessionTyped(U)
  <2>1. /\ T.next \in Nat /\ T.ids \in [Keys -> 1 .. T.next \cup {Nil}]
        /\ T.kinds = [k \in Keys |-> T.kinds[k]] /\ \A k \in Keys : T.kinds[k] \in Kinds[k] \cup {Nil}
        /\ T.live = [i \in DOMAIN T.live |-> T.live[i]] /\ DOMAIN T.live \subseteq 1 .. T.next
        /\ \A i \in DOMAIN T.live : /\ T.live[i] = [field \in EntryFields |-> T.live[i][field]]
                                    /\ T.live[i].lost \in BOOLEAN
        /\ DOMAIN T.active \subseteq Keys
    BY DEF SessionTyped
  <2>2. U.nodes \subseteq NodeKeys
    BY <1>3 DEF Whole
  <2>3. /\ U.live = [i \in DOMAIN U.live |-> U.live[i]] /\ DOMAIN U.live \subseteq 1 .. U.next
        /\ \A i \in DOMAIN U.live : /\ U.live[i] = [field \in EntryFields |-> U.live[i][field]]
                                    /\ U.live[i].lost \in BOOLEAN
    BY ONLY <2>1, <1>3
  <2>4. /\ U.next \in Nat /\ U.ids \in [Keys -> 1 .. U.next \cup {Nil}]
        /\ U.kinds = [k \in Keys |-> U.kinds[k]] /\ \A k \in Keys : U.kinds[k] \in Kinds[k] \cup {Nil}
        /\ DOMAIN U.active \subseteq Keys
    BY ONLY <2>1, <1>3
  <2>. QED
    BY <2>2, <2>3, <2>4, <1>3 DEF SessionTyped
<1>5. Stays(T, U)
    BY <1>3 DEF Stays
<1>6. {n \in snap.nodes : ~U.live[U.ids[Of[n]]].lost} = snap.nodes
    BY <1>3 DEF SceneAccepted, Usable
<1>7. Displays(U, snap.nodes)
    BY <1>3, <1>6 DEF Displays, scene
<1>. QED
    BY <1>4, <1>5, <1>7

\* Once what is obsolete is destroyed, the presenter has the sources of the snapshot
\* and no other.
LEMMA DestroyLeaves ==
    ASSUME NEW T, SessionTyped(T), NEW snap, Whole(snap), NEW gone,
           Matches(T, snap.sources, gone), Kept(T, snap.sources), Displays(T, snap.nodes),
           NEW U, U = [T EXCEPT !.live = Without(T.live, gone), !.active = snap.sources]
    PROVE  /\ SessionTyped(U) /\ Matches(U, snap.sources, {}) /\ Kept(U, snap.sources)
           /\ Displays(U, snap.nodes)
<1>. DEFINE S == snap.sources
            live == Without(T.live, gone)
<1>1. /\ T = [field \in SessionFields |-> T[field]]
      /\ T.next \in Nat /\ T.ids \in [Keys -> 1 .. T.next \cup {Nil}]
      /\ T.kinds = [k \in Keys |-> T.kinds[k]] /\ \A k \in Keys : T.kinds[k] \in Kinds[k] \cup {Nil}
      /\ DOMAIN T.live \subseteq 1 .. T.next
      /\ \A i \in DOMAIN T.live : /\ T.live[i] = [field \in EntryFields |-> T.live[i][field]]
                                  /\ T.live[i].lost \in BOOLEAN
      /\ DOMAIN T.active \subseteq Keys /\ T.nodes \subseteq NodeKeys
    BY DEF SessionTyped
<1>2. /\ live = [i \in DOMAIN live |-> live[i]] /\ DOMAIN live = DOMAIN T.live \ gone
      /\ \A i \in DOMAIN live : live[i] = T.live[i]
    BY DEF Without
<1>. HIDE DEF live
<1>3. /\ U = [field \in SessionFields |-> U[field]]
      /\ U.ids = T.ids /\ U.kinds = T.kinds /\ U.next = T.next /\ U.live = live
      /\ U.nodes = T.nodes /\ U.active = S /\ U.losses = T.losses /\ U.scene = T.scene
  <2>1. U = [T EXCEPT !.live = live, !.active = S]
    BY DEF live
  <2>. QED
    BY ONLY <1>1, <2>1 DEF SessionFields
<1>4. \A i \in DOMAIN U.live : /\ U.live[i] = [field \in EntryFields |-> U.live[i][field]]
                               /\ U.live[i].lost \in BOOLEAN
    BY <1>1, <1>2, <1>3
<1>5. SessionTyped(U)
  <2>1. /\ U.live = [i \in DOMAIN U.live |-> U.live[i]] /\ DOMAIN U.live \subseteq 1 .. U.next
    BY <1>1, <1>2, <1>3
  <2>2. DOMAIN U.active \subseteq Keys
    BY <1>3 DEF Whole
  <2>. QED
    BY <1>1, <1>3, <1>4, <2>1, <2>2 DEF SessionTyped
<1>6. /\ DOMAIN T.live = {T.ids[k] : k \in DOMAIN S} \cup gone
      /\ \A k \in DOMAIN S : T.ids[k] \notin gone
    BY DEF Matches
<1>7. \A k \in DOMAIN S : T.ids[k] \in DOMAIN live /\ U.live[U.ids[k]] = T.live[T.ids[k]]
    BY <1>2, <1>3, <1>6
<1>8. DOMAIN U.live = {U.ids[k] : k \in DOMAIN S} \cup {}
    BY <1>2, <1>3, <1>6
<1>9. Matches(U, S, {})
    BY <1>3, <1>7, <1>8 DEF Matches
<1>10. Kept(U, S)
    BY <1>3 DEF Kept
<1>11. Displays(U, snap.nodes)
  <2>1. \A n \in snap.nodes : U.live[U.ids[Of[n]]] = T.live[T.ids[Of[n]]]
    BY <1>7 DEF Whole
  <2>2. {n \in snap.nodes : ~U.live[U.ids[Of[n]]].lost} = {n \in snap.nodes : ~T.live[T.ids[Of[n]]].lost}
    BY <2>1
  <2>. QED
    BY <1>3, <2>2 DEF Displays
<1>. QED
    BY <1>5, <1>9, <1>10, <1>11

----------------------------------------------------------------------------
(* The session actor and the presenter. *)

\* Every snapshot of the inner scene is whole.
LEMMA SnapshotsAreWhole ==
    ASSUME NEW s \in Snapshots
    PROVE  Whole(s)
<1>1. PICK ks \in SUBSET Keys :
          /\ \A k \in ks : LinkOf[k] \in ks \cup {Nil}
          /\ \E f \in {g \in [ks -> UNION {SourceStates(k) : k \in ks}] :
                           \A k \in ks : g[k] \in SourceStates(k)},
                ns \in SUBSET {n \in NodeKeys : Of[n] \in ks} : s = [sources |-> f, nodes |-> ns]
    BY DEF Snapshots
<1>2. PICK f, ns : /\ DOMAIN f = ks /\ \A k \in ks : f[k] \in SourceStates(k)
                   /\ ns \in SUBSET {n \in NodeKeys : Of[n] \in ks}
                   /\ s = [sources |-> f, nodes |-> ns]
    BY <1>1
<1>3. \A k \in ks : f[k].kind \in Kinds[k]
    BY <1>2 DEF SourceStates
<1>4. s.sources = f /\ s.nodes = ns
    BY <1>2
<1>. QED
    BY <1>1, <1>2, <1>3, <1>4 DEF Whole

\* A session after its handshake has nothing.
LEMMA NewIsEmpty ==
    /\ SessionTyped(NewSession) /\ NewSession # Nothing
    /\ Matches(NewSession, <<>>, {}) /\ Kept(NewSession, <<>>) /\ Displays(NewSession, {})
    /\ Whole(Empty) /\ Empty.sources = <<>> /\ Empty.nodes = {}
<1>1. DOMAIN <<>> = {}
    OBVIOUS
<1>2. <<>> = [i \in DOMAIN <<>> |-> <<>>[i]]
    OBVIOUS
<1>. DEFINE N == NewSession
<1>3. /\ N = [field \in SessionFields |-> N[field]]
      /\ N.ids = [k \in Keys |-> Nil] /\ N.kinds = [k \in Keys |-> Nil] /\ N.next = 0
      /\ N.live = <<>> /\ N.nodes = {} /\ N.active = <<>> /\ N.losses = {} /\ N.scene = <<>>
    BY DEF NewSession, SessionFields
<1>4. SessionTyped(N)
  <2>1. /\ N.live = [i \in DOMAIN N.live |-> N.live[i]] /\ DOMAIN N.live = {}
        /\ DOMAIN N.active = {} /\ N.nodes = {}
    BY <1>1, <1>2, <1>3
  <2>2. N.next \in Nat /\ N.ids \in [Keys -> 1 .. N.next \cup {Nil}]
    BY <1>3
  <2>3. N.kinds = [k \in Keys |-> N.kinds[k]] /\ \A k \in Keys : N.kinds[k] \in Kinds[k] \cup {Nil}
    BY <1>3
  <2>4. N = [field \in SessionFields |-> N[field]]
    BY <1>3
  <2>. HIDE DEF N
  <2>. QED
    BY <2>1, <2>2, <2>3, <2>4 DEF SessionTyped
<1>5. Matches(N, <<>>, {}) /\ Kept(N, <<>>)
    BY <1>1, <1>3 DEF Matches, Kept
<1>6. Displays(N, {})
  <2>1. {n \in {} : ~N.live[N.ids[Of[n]]].lost} = {}
    OBVIOUS
  <2>2. <<>> = [n \in {} |-> N.ids[Of[n]]]
    OBVIOUS
  <2>. QED
    BY <1>3, <2>1, <2>2 DEF Displays
<1>7. N # Nothing
  <2>1. DOMAIN N = SessionFields /\ DOMAIN Nothing = {"none"}
    BY DEF NewSession, SessionFields, Nothing
  <2>. QED
    BY <2>1 DEF SessionFields
<1>8. Whole(Empty) /\ Empty.sources = <<>> /\ Empty.nodes = {}
    BY <1>1 DEF Whole, Empty
<1>. QED
    BY <1>4, <1>5, <1>6, <1>7, <1>8

\* A session is not nothing, nor is a snapshot being applied.
LEMMA Something ==
    /\ \A T : SessionTyped(T) => T # Nothing
    /\ \A j : j = [field \in JobFields |-> j[field]] => j # Nothing
<1>1. ASSUME NEW T, SessionTyped(T) PROVE T # Nothing
  <2>1. T = [field \in SessionFields |-> T[field]]
    BY <1>1 DEF SessionTyped
  <2>2. DOMAIN T = SessionFields
    BY <2>1
  <2>. QED
    BY <2>2 DEF SessionFields, Nothing
<1>2. ASSUME NEW j, j = [field \in JobFields |-> j[field]] PROVE j # Nothing
  <2>1. DOMAIN j = JobFields
    BY <1>2
  <2>. QED
    BY <2>1 DEF JobFields, Nothing
<1>. QED
    BY <1>1, <1>2

\* A snapshot that is sent, or sent again, waits in the slot.
LEMMA ActorKeeps ==
    ASSUME SessionInv, SendSnapshot \/ Resend
    PROVE  SessionInv'
<1>1. /\ UNCHANGED <<applied, force, replace, bridge, fresh, job>> /\ slot' = TRUE
      /\ retry' \in BOOLEAN /\ Whole(wanted')
    BY SnapshotsAreWhole DEF SendSnapshot, Resend, SessionInv
<1>2. Target' = Target /\ Base' = Base
    BY <1>1 DEF Target, Base
<1>3. BetweenJobs'
    BY <1>1 DEF SessionInv, BetweenJobs
<1>4. InJob'
    BY <1>1, <1>2 DEF SessionInv, InJob
<1>. QED
    BY <1>1, <1>3, <1>4 DEF SessionInv

\* A source is lost in the session in use.
LEMMA LostKeeps ==
    ASSUME SessionInv, SourceLost
    PROVE  SessionInv'
<1>1. PICK i \in DOMAIN bridge.live :
          /\ bridge' = Loses(bridge, i)
          /\ UNCHANGED <<wanted, slot, retry, applied, force, replace, fresh, job, replaced>>
    BY DEF SourceLost
<1>2. SessionTyped(bridge) /\ Whole(applied) /\ BetweenJobs /\ InJob
    BY DEF SessionInv
<1>3. SessionTyped(bridge')
    BY <1>1, <1>2, LosingKeeps
<1>4. BetweenJobs'
  <2>. SUFFICES ASSUME job = Nothing, ~replace,
                       Matches(bridge, applied.sources, {}), Displays(bridge, applied.nodes)
                PROVE  /\ Matches(bridge', applied.sources, {}) /\ Displays(bridge', applied.nodes)
                       /\ Kept(bridge, applied.sources) => Kept(bridge', applied.sources)
    BY <1>1, <1>2 DEF BetweenJobs
  <2>. QED
    BY <1>1, <1>2, LosingKeeps
<1>5. InJob'
  <2>1. CASE fresh # Nothing
    BY <2>1, <1>1, <1>2 DEF InJob, Target, Base
  <2>2. CASE fresh = Nothing
    <3>1. Target = bridge /\ Target' = bridge' /\ Base = applied.sources /\ Base' = applied.sources
        BY <2>2, <1>1 DEF Target, Base
    <3>2. ASSUME NEW snap, NEW gone, Whole(snap), Matches(bridge, snap.sources, gone)
          PROVE  /\ Matches(bridge', snap.sources, gone)
                 /\ Kept(bridge, snap.sources) => Kept(bridge', snap.sources)
                 /\ Displays(bridge, snap.nodes) => Displays(bridge', snap.nodes)
        BY <1>1, <1>2, <3>2, LosingKeeps
    <3>. QED
        BY <1>1, <1>2, <2>2, <3>1, <3>2 DEF InJob
  <2>. QED
    BY <2>1, <2>2
<1>. QED
    BY <1>1, <1>3, <1>4, <1>5 DEF SessionInv

\* A source is lost in the replacement under construction.
LEMMA LostFreshKeeps ==
    ASSUME SessionInv, SourceLostInReplacement
    PROVE  SessionInv'
<1>1. fresh # Nothing
    BY DEF SourceLostInReplacement
<1>2. PICK i \in DOMAIN fresh.live :
          /\ fresh' = Loses(fresh, i)
          /\ UNCHANGED <<wanted, slot, retry, applied, force, replace, bridge, job, replaced>>
    BY DEF SourceLostInReplacement
<1>3. SessionTyped(fresh) /\ job # Nothing /\ Whole(Empty) /\ InJob
    BY <1>1, NewIsEmpty DEF SessionInv, BetweenJobs
<1>4. SessionTyped(fresh') /\ fresh' # Nothing
  <2>1. SessionTyped(fresh')
    BY <1>2, <1>3, LosingKeeps
  <2>. QED
    BY <2>1, Something
<1>5. InJob'
  <2>1. Target = fresh /\ Target' = fresh' /\ Base = Empty.sources /\ Base' = Empty.sources
    BY <1>1, <1>4, NewIsEmpty DEF Target, Base
  <2>2. ASSUME NEW snap, NEW gone, Whole(snap), Matches(fresh, snap.sources, gone)
        PROVE  /\ Matches(fresh', snap.sources, gone)
               /\ Kept(fresh, snap.sources) => Kept(fresh', snap.sources)
               /\ Displays(fresh, snap.nodes) => Displays(fresh', snap.nodes)
    BY <1>2, <1>3, <2>2, LosingKeeps
  <2>. QED
    BY <1>1, <1>2, <1>3, <1>4, <2>1, <2>2 DEF InJob
<1>. QED
    BY <1>2, <1>3, <1>4, <1>5 DEF SessionInv, BetweenJobs

----------------------------------------------------------------------------
(* The worker between two snapshots. *)

\* take_source_losses: what was lost is forgotten, and will be made again.
LEMMA LossesKeep ==
    ASSUME SessionInv, TakeLosses
    PROVE  SessionInv'
<1>. DEFINE keys == {k \in Keys : bridge.ids[k] \in bridge.losses}
            kinds == [k \in Keys |-> IF k \in keys THEN Nil ELSE bridge.kinds[k]]
            S == applied.sources
<1>1. /\ job = Nothing
      /\ force' = (force \/ keys # {}) /\ retry' = (retry \/ keys # {})
      /\ UNCHANGED <<wanted, slot, applied, replace, fresh, job, replaced, budget>>
    BY DEF TakeLosses
<1>2. bridge' = [bridge EXCEPT !.losses = {}, !.kinds = kinds]
    BY DEF TakeLosses
<1>3. /\ {slot, retry, force, replace} \subseteq BOOLEAN /\ (replace => force)
      /\ SessionTyped(bridge) /\ Whole(wanted) /\ Whole(applied) /\ fresh = Nothing
      /\ ~slot /\ ~force => applied = wanted
      /\ ~replace => /\ Matches(bridge, S, {}) /\ Displays(bridge, applied.nodes)
                     /\ ~force => Kept(bridge, S)
    BY <1>1 DEF SessionInv, BetweenJobs
<1>4. force' \in BOOLEAN /\ retry' \in BOOLEAN /\ (force => force')
    BY <1>1, <1>3
<1>5. /\ bridge.next \in Nat /\ bridge.ids \in [Keys -> 1 .. bridge.next \cup {Nil}]
      /\ \A k \in Keys : bridge.kinds[k] \in Kinds[k] \cup {Nil}
      /\ bridge = [field \in SessionFields |-> bridge[field]]
    BY <1>3 DEF SessionTyped
<1>6. /\ bridge' = [field \in SessionFields |-> bridge'[field]]
      /\ bridge'.ids = bridge.ids /\ bridge'.kinds = kinds /\ bridge'.next = bridge.next
      /\ bridge'.live = bridge.live /\ bridge'.nodes = bridge.nodes /\ bridge'.active = bridge.active
      /\ bridge'.losses = {} /\ bridge'.scene = bridge.scene
  <2>. HIDE DEF kinds
  <2>. QED
    BY ONLY <1>2, <1>5 DEF SessionFields
<1>7. \A k \in Keys : kinds[k] = IF k \in keys THEN Nil ELSE bridge.kinds[k]
    OBVIOUS
<1>8. SessionTyped(bridge')
  <2>1. kinds = [k \in Keys |-> kinds[k]] /\ \A k \in Keys : kinds[k] \in Kinds[k] \cup {Nil}
    BY <1>5
  <2>2. /\ bridge.live = [i \in DOMAIN bridge.live |-> bridge.live[i]]
        /\ DOMAIN bridge.live \subseteq 1 .. bridge.next
        /\ \A i \in DOMAIN bridge.live : /\ bridge.live[i] = [field \in EntryFields |-> bridge.live[i][field]]
                                         /\ bridge.live[i].lost \in BOOLEAN
        /\ DOMAIN bridge.active \subseteq Keys /\ bridge.nodes \subseteq NodeKeys
    BY <1>3 DEF SessionTyped
  <2>. HIDE DEF kinds
  <2>. QED
    BY <1>5, <1>6, <2>1, <2>2 DEF SessionTyped
<1>9. ASSUME ~replace
      PROVE  /\ Matches(bridge', S, {}) /\ Displays(bridge', applied.nodes)
             /\ ~force' => Kept(bridge', S)
  <2>1. DOMAIN S \subseteq Keys
    BY <1>3 DEF Whole
  <2>2. Matches(bridge, S, {}) /\ Displays(bridge, applied.nodes) /\ (~force => Kept(bridge, S))
    BY <1>3, <1>9
  <2>. HIDE DEF kinds
  <2>3. \A k \in DOMAIN S :
           /\ bridge'.kinds[k] \in {S[k].kind, Nil}
           /\ bridge'.live[bridge'.ids[k]].lost => bridge'.kinds[k] = Nil
    BY <1>6, <1>7, <2>1, <2>2 DEF Matches
  <2>4. \A k \in Keys : bridge'.kinds[k] # Nil => k \in DOMAIN S
    BY <1>6, <1>7, <2>2 DEF Matches
  <2>5. Matches(bridge', S, {})
    BY <1>6, <2>2, <2>3, <2>4 DEF Matches
  <2>6. Displays(bridge', applied.nodes)
    BY <1>6, <2>2 DEF Displays
  <2>7. ~force' => Kept(bridge', S)
    <3>. SUFFICES ASSUME ~force' PROVE Kept(bridge', S)
        OBVIOUS
    <3>1. ~force /\ keys = {}
        BY <1>1
    <3>. QED
        BY <3>1, <1>6, <1>7, <2>1, <2>2 DEF Kept
  <2>. QED
    BY <2>5, <2>6, <2>7
<1>10. BetweenJobs'
    BY <1>1, <1>3, <1>4, <1>9 DEF BetweenJobs
<1>11. InJob'
    BY <1>1 DEF InJob
<1>. QED
    BY <1>1, <1>3, <1>4, <1>8, <1>10, <1>11 DEF SessionInv

\* The worker gives up a snapshot, or its session: it will replace the session.
LEMMA GivingUpKeeps ==
    ASSUME SessionInv, SessionTyped(bridge'), job' = Nothing, fresh' = Nothing,
           force' = TRUE, replace' = TRUE, retry' = TRUE,
           UNCHANGED <<wanted, slot, applied>>
    PROVE  SessionInv'
BY DEF SessionInv, BetweenJobs, InJob

\* A retained body that could not be forwarded.
LEMMA DropKeeps ==
    ASSUME SessionInv, DropRetained
    PROVE  SessionInv'
<1>1. job = Nothing /\ fresh = Nothing /\ SessionTyped(bridge)
    BY DEF SessionInv, BetweenJobs, DropRetained
<1>. QED
    BY <1>1, GivingUpKeeps DEF DropRetained

\* A newer snapshot: the sources are only reconciled when their kinds differ, or
\* when the worker no longer knows them.
LEMMA TakingKeeps ==
    ASSUME SessionInv, TakeSnapshot
    PROVE  SessionInv'
<1>. DEFINE change == IF force THEN "sources" ELSE compare_projection(applied, wanted)
            S == wanted.sources
<1>1. /\ job = Nothing /\ slot' = FALSE
      /\ job' = [snap |-> wanted, change |-> change, phase |-> Phases(change),
                 made |-> {}, gone |-> {}]
      /\ UNCHANGED <<wanted, retry, applied, force, replace, bridge, fresh>>
    BY DEF TakeSnapshot
<1>2. /\ {slot, retry, force, replace} \subseteq BOOLEAN /\ (replace => force)
      /\ SessionTyped(bridge) /\ Whole(wanted) /\ Whole(applied) /\ fresh = Nothing
      /\ ~replace => /\ Matches(bridge, applied.sources, {}) /\ Displays(bridge, applied.nodes)
                     /\ ~force => Kept(bridge, applied.sources)
    BY <1>1 DEF SessionInv, BetweenJobs
<1>. HIDE DEF change
<1>3. /\ job' = [field \in JobFields |-> job'[field]]
      /\ job'.snap = wanted /\ job'.change = change /\ job'.phase = Phases(change) /\ job'.gone = {}
    BY ONLY <1>1 DEF JobFields
<1>4. job' # Nothing
    BY <1>3, Something
<1>5. Target' = bridge /\ Base' = applied.sources
    BY <1>1, <1>2 DEF Target, Base
<1>6. \/ change = "sources" /\ Phases(change) = IF replace THEN "pause" ELSE "contexts"
      \/ change = "scene" /\ Phases(change) = "nodes" /\ ~force
      \/ change = "playback" /\ Phases(change) = "playback" /\ ~force /\ wanted.nodes = applied.nodes
    BY DEF change, Phases, compare_projection
<1>7. ASSUME change # "sources"
      PROVE  Matches(bridge, S, {}) /\ Kept(bridge, S)
  <2>1. SourcesUnchanged(applied.sources, S) /\ ~force /\ ~replace
    BY <1>2, <1>7 DEF change, compare_projection
  <2>2. DOMAIN S = DOMAIN applied.sources /\ \A k \in DOMAIN S : S[k].kind = applied.sources[k].kind
    BY <2>1 DEF SourcesUnchanged
  <2>3. Matches(bridge, applied.sources, {}) /\ Kept(bridge, applied.sources)
    BY <1>2, <2>1
  <2>. QED
    BY <2>2, <2>3 DEF Matches, Kept
<1>8. change = "playback" => Displays(bridge, wanted.nodes)
    BY <1>2, <1>6
<1>9. InJob'
  <2>1. CASE change = "sources"
    BY <2>1, <1>1, <1>2, <1>3, <1>5, <1>6 DEF InJob
  <2>2. CASE change = "scene"
    BY <2>2, <1>1, <1>2, <1>3, <1>5, <1>6, <1>7 DEF InJob
  <2>3. CASE change = "playback"
    BY <2>3, <1>1, <1>2, <1>3, <1>5, <1>6, <1>7, <1>8 DEF InJob
  <2>. QED
    BY <2>1, <2>2, <2>3, <1>6
<1>10. BetweenJobs'
    BY <1>4 DEF BetweenJobs
<1>. QED
    BY <1>1, <1>2, <1>9, <1>10 DEF SessionInv

----------------------------------------------------------------------------
(* The phases of a snapshot. *)

\* A phase that has gone through leaves the session it works on as T.
LEMMA Advances ==
    ASSUME SessionInv, job # Nothing, NEW T, SessionTyped(T),
           NEW to, NEW made, NEW gone, Advance(T, to, made, gone)
    PROVE  /\ SessionTyped(bridge') /\ (fresh' # Nothing => SessionTyped(fresh'))
           /\ (fresh' = Nothing <=> fresh = Nothing)
           /\ Target' = T /\ Base' = Base
           /\ job' = [field \in JobFields |-> job'[field]] /\ job' # Nothing
           /\ job'.snap = job.snap /\ job'.change = job.change
           /\ job'.phase = to /\ job'.gone = gone
           /\ UNCHANGED <<wanted, slot, retry, applied, force, replace>>
<1>1. /\ Becomes(T) /\ job' = [job EXCEPT !.phase = to, !.made = made, !.gone = gone]
      /\ UNCHANGED <<wanted, slot, retry, applied, force, replace>>
    BY DEF Advance
<1>2. /\ job = [field \in JobFields |-> job[field]]
      /\ SessionTyped(bridge) /\ (fresh # Nothing => SessionTyped(fresh))
    BY DEF SessionInv, InJob
<1>3. /\ job' = [field \in JobFields |-> job'[field]]
      /\ job'.snap = job.snap /\ job'.change = job.change
      /\ job'.phase = to /\ job'.gone = gone
    BY ONLY <1>1, <1>2 DEF JobFields
<1>4. job' # Nothing /\ T # Nothing
    BY <1>3, Something
<1>5. /\ SessionTyped(bridge') /\ (fresh' # Nothing => SessionTyped(fresh'))
      /\ (fresh' = Nothing <=> fresh = Nothing) /\ Target' = T
    BY <1>1, <1>2, <1>4 DEF Becomes, Target
<1>6. Base' = Base
    BY <1>1, <1>5 DEF Base
<1>. QED
    BY <1>1, <1>3, <1>4, <1>5, <1>6

\* Where a snapshot is while a phase goes through.
LEMMA TargetTyped ==
    ASSUME SessionInv
    PROVE  /\ SessionTyped(Target) /\ Whole([sources |-> Base, nodes |-> {}])
           /\ DOMAIN Base \subseteq Keys
<1>1. SessionTyped(Target)
    BY DEF SessionInv, Target
<1>2. Base = applied.sources \/ Base = Empty.sources
    BY NewIsEmpty DEF Base
<1>3. \A s : Whole(s) => Whole([sources |-> s.sources, nodes |-> {}]) /\ DOMAIN s.sources \subseteq Keys
    BY DEF Whole
<1>. QED
    BY <1>1, <1>2, <1>3, NewIsEmpty DEF SessionInv

\* sync_pane_contexts.
LEMMA ContextsKeep ==
    ASSUME SessionInv, Contexts
    PROVE  SessionInv'
<1>. DEFINE contexts == {PaneOf[k] : k \in DOMAIN job.snap.sources}
            T == [Target EXCEPT !.contexts = contexts]
<1>1. job # Nothing /\ job.phase = "contexts" /\ Advance(T, "create", {}, {})
    BY DEF Contexts, At
<1>2. /\ Target = [field \in SessionFields |-> Target[field]]
      /\ Matches(Target, Base, {}) /\ Whole(job.snap) /\ job.change = "sources"
      /\ ~slot => job.snap = wanted
    BY <1>1, TargetTyped DEF SessionTyped, SessionInv, InJob
<1>. HIDE DEF contexts
<1>3. /\ T = [field \in SessionFields |-> T[field]]
      /\ T.ids = Target.ids /\ T.kinds = Target.kinds /\ T.next = Target.next
      /\ T.live = Target.live /\ T.nodes = Target.nodes /\ T.active = Target.active
      /\ T.losses = Target.losses /\ T.scene = Target.scene
    BY ONLY <1>2 DEF SessionFields
<1>. HIDE DEF T
<1>4. SessionTyped(T)
  <2>1. T.live = Target.live /\ T.ids = Target.ids /\ T.kinds = Target.kinds
    BY <1>3
  <2>. QED
    BY <1>3, TargetTyped DEF SessionTyped
<1>5. Matches(T, Base, {})
  <2>1. /\ T.ids = Target.ids /\ T.kinds = Target.kinds /\ T.live = Target.live
        /\ T.losses = Target.losses /\ Matches(Target, Base, {})
    BY <1>2, <1>3
  <2>. QED
    BY ONLY <2>1 DEF Matches
<1>6. /\ SessionTyped(bridge') /\ (fresh' # Nothing => SessionTyped(fresh'))
      /\ (fresh' = Nothing <=> fresh = Nothing)
      /\ Target' = T /\ Base' = Base
      /\ job' = [field \in JobFields |-> job'[field]] /\ job' # Nothing
      /\ job'.snap = job.snap /\ job'.change = job.change
      /\ job'.phase = "create" /\ job'.gone = {}
      /\ UNCHANGED <<wanted, slot, retry, applied, force, replace>>
    BY <1>1, <1>4, Advances
<1>7. InJob'
    BY <1>2, <1>5, <1>6 DEF InJob
<1>. QED
    BY <1>6, <1>7 DEF SessionInv, BetweenJobs

\* create_sources.
LEMMA CreateKeeps ==
    ASSUME SessionInv, Create
    PROVE  SessionInv'
<1>. DEFINE S == job.snap.sources
            ks == recreate(Target, S)
            gone == obsolete(Target, S)
            T == create_sources(Target, S, ks, ks)
<1>1. job # Nothing /\ job.phase = "create" /\ Advance(T, "meta", ks, gone)
    BY DEF Create, At
<1>2. /\ SessionTyped(Target) /\ DOMAIN Base \subseteq Keys
      /\ Matches(Target, Base, {}) /\ Whole(job.snap) /\ job.change = "sources"
      /\ ~slot => job.snap = wanted
    BY <1>1, TargetTyped DEF SessionInv, InJob
<1>3. ks \in SUBSET DOMAIN S
    BY DEF recreate
<1>4. SessionTyped(T)
    BY <1>2, <1>3, CreateTyped
<1>5. Matches(T, S, gone) /\ Kept(T, S)
  <2>1. PICK snap, R, U : /\ snap = job.snap /\ R = snap.sources
                          /\ U = create_sources(Target, R, recreate(Target, R), recreate(Target, R))
    OBVIOUS
  <2>2. Matches(U, R, obsolete(Target, R)) /\ Kept(U, R)
    BY <1>2, <2>1, CreateMatches
  <2>. QED
    BY <2>1, <2>2
<1>. HIDE DEF T, gone, ks
<1>6. /\ SessionTyped(bridge') /\ (fresh' # Nothing => SessionTyped(fresh'))
      /\ (fresh' = Nothing <=> fresh = Nothing)
      /\ Target' = T /\ Base' = Base
      /\ job' = [field \in JobFields |-> job'[field]] /\ job' # Nothing
      /\ job'.snap = job.snap /\ job'.change = job.change
      /\ job'.phase = "meta" /\ job'.gone = gone
      /\ UNCHANGED <<wanted, slot, retry, applied, force, replace>>
    BY <1>1, <1>4, Advances
<1>7. InJob'
    BY <1>2, <1>5, <1>6 DEF InJob
<1>. QED
    BY <1>6, <1>7 DEF SessionInv, BetweenJobs

\* What a session has once its sources have been made.
LEMMA MadeMatches ==
    ASSUME SessionInv, job # Nothing,
           job.phase \in {"meta", "nodes", "playback", "destroy", "applied"}
    PROVE  /\ SessionTyped(Target) /\ Whole(job.snap) /\ (~slot => job.snap = wanted)
           /\ Matches(Target, job.snap.sources, job.gone) /\ Kept(Target, job.snap.sources)
           /\ job.phase \in {"playback", "destroy", "applied"} => Displays(Target, job.snap.nodes)
           /\ job.phase = "applied" => job.gone = {}
           /\ job.change # "sources" =>
                fresh = Nothing /\ job.gone = {} /\ job.phase \in {"nodes", "playback", "applied"}
BY TargetTyped DEF SessionInv, InJob

\* A request that leaves the sources as they are.
LEMMA StayingAdvances ==
    ASSUME SessionInv, job # Nothing,
           job.phase \in {"meta", "nodes", "playback"},
           NEW T, SessionTyped(T), Stays(Target, T), NEW to, Advance(T, to, job.made, job.gone),
           \/ to = "nodes" /\ job.phase = "meta"
           \/ to = "playback" /\ Displays(T, job.snap.nodes)
           \/ to = "destroy" /\ Displays(T, job.snap.nodes) /\ job.change = "sources"
           \/ to = "applied" /\ Displays(T, job.snap.nodes) /\ job.change # "sources"
    PROVE  SessionInv'
<1>1. /\ Whole(job.snap) /\ (~slot => job.snap = wanted)
      /\ Matches(Target, job.snap.sources, job.gone) /\ Kept(Target, job.snap.sources)
      /\ job.change # "sources" =>
           fresh = Nothing /\ job.gone = {} /\ job.phase \in {"nodes", "playback"}
    BY MadeMatches
<1>2. Matches(T, job.snap.sources, job.gone) /\ Kept(T, job.snap.sources)
    BY <1>1, StayingMatches
<1>3. /\ SessionTyped(bridge') /\ (fresh' # Nothing => SessionTyped(fresh'))
      /\ (fresh' = Nothing <=> fresh = Nothing)
      /\ Target' = T /\ Base' = Base
      /\ job' = [field \in JobFields |-> job'[field]] /\ job' # Nothing
      /\ job'.snap = job.snap /\ job'.change = job.change
      /\ job'.phase = to /\ job'.gone = job.gone
      /\ UNCHANGED <<wanted, slot, retry, applied, force, replace>>
    BY Advances
<1>4. InJob'
    BY <1>1, <1>2, <1>3 DEF InJob
<1>. QED
    BY <1>3, <1>4 DEF SessionInv, BetweenJobs

\* The policies and descriptors, the nodes and the playback.
LEMMA RequestsKeep ==
    ASSUME SessionInv, UpdateMeta \/ Nodes \/ Playback
    PROVE  SessionInv'
<1>1. CASE UpdateMeta
  <2>. DEFINE T == SendMeta(Target, job.snap.sources, job.made)
  <2>1. job # Nothing /\ job.phase = "meta" /\ Advance(T, "nodes", job.made, job.gone)
    BY <1>1 DEF UpdateMeta, At
  <2>2. SessionTyped(T) /\ Stays(Target, T)
    BY TargetTyped, MetaStays
  <2>. HIDE DEF T
  <2>. QED
    BY <2>1, <2>2, StayingAdvances
<1>2. CASE Nodes
  <2>. DEFINE T == reconcile_nodes(Target, job.snap.nodes)
  <2>1. /\ job # Nothing /\ job.phase = "nodes" /\ Advance(T, "playback", job.made, job.gone)
        /\ SceneAccepted(Target, job.snap.nodes)
    BY <1>2 DEF Nodes, At
  <2>2. SessionTyped(T) /\ Stays(Target, T) /\ Displays(T, job.snap.nodes)
    BY <2>1, MadeMatches, NodesShown
  <2>. HIDE DEF T
  <2>. QED
    BY <2>1, <2>2, StayingAdvances
<1>3. CASE Playback
  <2>. DEFINE live == Sent(Target, job.snap.sources, Previous, job.made).live
              T == [Target EXCEPT !.live = live]
              to == IF job.change = "sources" THEN "destroy" ELSE "applied"
  <2>1. job # Nothing /\ job.phase = "playback" /\ Advance(T, to, job.made, job.gone)
    BY <1>3 DEF Playback, At
  <2>2. SessionTyped(T) /\ Stays(Target, T) /\ T.scene = Target.scene
    BY TargetTyped, SentStays
  <2>3. /\ Whole(job.snap) /\ Matches(Target, job.snap.sources, job.gone)
        /\ Displays(Target, job.snap.nodes)
    BY <2>1, MadeMatches
  <2>. HIDE DEF T, live
  <2>4. Displays(T, job.snap.nodes)
    BY <2>2, <2>3, StayingMatches
  <2>. QED
    BY <2>1, <2>2, <2>4, StayingAdvances
<1>. QED
    BY <1>1, <1>2, <1>3

\* What is obsolete is destroyed last.
LEMMA DestroyKeeps ==
    ASSUME SessionInv, Destroy
    PROVE  SessionInv'
<1>. DEFINE T == [Target EXCEPT !.live = Without(Target.live, job.gone), !.active = job.snap.sources]
<1>1. job # Nothing /\ job.phase = "destroy"
    BY DEF Destroy, At
<1>2. /\ SessionTyped(Target) /\ Whole(job.snap) /\ (~slot => job.snap = wanted)
      /\ Matches(Target, job.snap.sources, job.gone) /\ Kept(Target, job.snap.sources)
      /\ Displays(Target, job.snap.nodes) /\ job.change = "sources"
    BY <1>1, MadeMatches
<1>3. Advance(T, "applied", job.made, {})
  <2>1. Target = [field \in SessionFields |-> Target[field]]
    BY <1>2 DEF SessionTyped
  <2>. QED
    BY <2>1 DEF Destroy, SessionFields
<1>4. /\ SessionTyped(T) /\ Matches(T, job.snap.sources, {}) /\ Kept(T, job.snap.sources)
      /\ Displays(T, job.snap.nodes)
    BY <1>2, DestroyLeaves
<1>. HIDE DEF T
<1>5. /\ SessionTyped(bridge') /\ (fresh' # Nothing => SessionTyped(fresh'))
      /\ (fresh' = Nothing <=> fresh = Nothing)
      /\ Target' = T /\ Base' = Base
      /\ job' = [field \in JobFields |-> job'[field]] /\ job' # Nothing
      /\ job'.snap = job.snap /\ job'.change = job.change
      /\ job'.phase = "applied" /\ job'.gone = {}
      /\ UNCHANGED <<wanted, slot, retry, applied, force, replace>>
    BY <1>1, <1>3, <1>4, Advances
<1>6. InJob'
    BY <1>2, <1>4, <1>5 DEF InJob
<1>. QED
    BY <1>5, <1>6 DEF SessionInv, BetweenJobs

\* The snapshot is applied: the session shows it.
LEMMA AppliedKeeps ==
    ASSUME SessionInv, Applied
    PROVE  SessionInv'
<1>1. /\ job # Nothing /\ job.phase = "applied"
      /\ bridge' = Target /\ fresh' = Nothing /\ applied' = job.snap
      /\ force' = FALSE /\ replace' = FALSE /\ job' = Nothing
      /\ UNCHANGED <<wanted, slot, retry>>
    BY DEF Applied, At
<1>2. /\ SessionTyped(Target) /\ Whole(job.snap) /\ (~slot => job.snap = wanted)
      /\ Matches(Target, job.snap.sources, {}) /\ Kept(Target, job.snap.sources)
      /\ Displays(Target, job.snap.nodes)
    BY <1>1, MadeMatches
<1>3. BetweenJobs'
    BY <1>1, <1>2 DEF BetweenJobs
<1>. QED
    BY <1>1, <1>2, <1>3 DEF SessionInv, InJob

\* A session that is being replaced is paused, as far as it goes.
LEMMA PauseKeeps ==
    ASSUME SessionInv, PauseOld
    PROVE  SessionInv'
<1>1. PICK ks : /\ job # Nothing /\ job.phase = "pause"
                /\ bridge' = [bridge EXCEPT !.live = [i \in DOMAIN @ |->
                                 IF \E k \in ks : bridge.ids[k] = i
                                 THEN [@[i] EXCEPT !.playing = FALSE] ELSE @[i]]]
                /\ job' = [job EXCEPT !.phase = "connect"]
                /\ UNCHANGED <<wanted, slot, retry, applied, force, replace, fresh, replaced>>
    BY DEF PauseOld, At
<1>2. /\ job = [field \in JobFields |-> job[field]] /\ SessionTyped(bridge) /\ fresh = Nothing
      /\ Whole(job.snap) /\ job.change = "sources" /\ (~slot => job.snap = wanted)
    BY <1>1 DEF SessionInv, InJob
<1>. DEFINE live == [i \in DOMAIN bridge.live |->
                       IF \E k \in ks : bridge.ids[k] = i
                       THEN [bridge.live[i] EXCEPT !.playing = FALSE] ELSE bridge.live[i]]
<1>3. \A i \in DOMAIN bridge.live : SameSource(bridge.live[i], live[i])
  <2>. SUFFICES ASSUME NEW i \in DOMAIN bridge.live PROVE SameSource(bridge.live[i], live[i])
    OBVIOUS
  <2>1. PICK e, d : /\ e = bridge.live[i] /\ d = live[i]
                    /\ d = e \/ d = [e EXCEPT !.playing = FALSE]
    OBVIOUS
  <2>2. e = [field \in EntryFields |-> e[field]]
    BY <1>2, <2>1 DEF SessionTyped
  <2>3. SameSource(e, d)
    BY ONLY <2>1, <2>2 DEF SameSource, EntryFields
  <2>. QED
    BY <2>1, <2>3
<1>4. live = [i \in DOMAIN bridge.live |-> live[i]] /\ bridge' = [bridge EXCEPT !.live = live]
  <2>1. DOMAIN bridge = SessionFields
    BY <1>2 DEF SessionTyped
  <2>. QED
    BY <1>1, <2>1 DEF SessionFields
<1>. HIDE DEF live
<1>5. SessionTyped(bridge')
    BY <1>2, <1>3, <1>4, Rewriting
<1>6. /\ job' = [field \in JobFields |-> job'[field]]
      /\ job'.snap = job.snap /\ job'.change = job.change /\ job'.phase = "connect"
    BY ONLY <1>1, <1>2 DEF JobFields
<1>7. job' # Nothing
    BY <1>6, Something
<1>8. InJob'
    BY <1>1, <1>2, <1>6 DEF InJob
<1>. QED
    BY <1>1, <1>2, <1>5, <1>7, <1>8 DEF SessionInv, BetweenJobs

\* A replacement has nothing yet.
LEMMA ConnectKeeps ==
    ASSUME SessionInv, Connect
    PROVE  SessionInv'
<1>1. /\ job # Nothing /\ job.phase = "connect" /\ fresh' = NewSession
      /\ job' = [job EXCEPT !.phase = "contexts"]
      /\ UNCHANGED <<wanted, slot, retry, applied, force, replace, bridge, replaced>>
    BY DEF Connect, At
<1>2. /\ job = [field \in JobFields |-> job[field]]
      /\ Whole(job.snap) /\ job.change = "sources" /\ (~slot => job.snap = wanted)
    BY <1>1 DEF SessionInv, InJob
<1>3. /\ job' = [field \in JobFields |-> job'[field]]
      /\ job'.snap = job.snap /\ job'.change = job.change /\ job'.phase = "contexts"
    BY ONLY <1>1, <1>2 DEF JobFields
<1>4. job' # Nothing
    BY <1>3, Something
<1>5. Target' = NewSession /\ Base' = <<>>
    BY <1>1, NewIsEmpty DEF Target, Base
<1>6. InJob'
    BY <1>1, <1>2, <1>3, <1>5, NewIsEmpty DEF InJob
<1>. QED
    BY <1>1, <1>4, <1>6, NewIsEmpty DEF SessionInv, BetweenJobs

----------------------------------------------------------------------------
(* Failures. *)

\* rebuild: after a failure the session in use is only paused and replaced, whatever
\* the request that failed has done to it.
LEMMA FailingKeeps ==
    ASSUME SessionInv, job # Nothing, SessionTyped(bridge'), Fails
    PROVE  SessionInv'
<1>1. CASE fresh = Nothing /\ job.change = "sources" /\ ~replace
  <2>1. /\ job' = [job EXCEPT !.phase = "pause"]
        /\ UNCHANGED <<wanted, slot, retry, applied, force, replace, fresh>>
    BY <1>1 DEF Fails
  <2>2. /\ job = [field \in JobFields |-> job[field]]
        /\ Whole(job.snap) /\ (~slot => job.snap = wanted)
    BY DEF SessionInv, InJob
  <2>3. /\ job' = [field \in JobFields |-> job'[field]]
        /\ job'.snap = job.snap /\ job'.change = job.change /\ job'.phase = "pause"
    BY ONLY <2>1, <2>2 DEF JobFields
  <2>4. job' # Nothing
    BY <2>3, Something
  <2>5. InJob'
    BY <1>1, <2>1, <2>2, <2>3 DEF InJob
  <2>. QED
    BY <1>1, <2>1, <2>4, <2>5 DEF SessionInv, BetweenJobs
<1>2. CASE ~(fresh = Nothing /\ job.change = "sources" /\ ~replace)
    BY <1>2, GivingUpKeeps DEF Fails, ApplyFails
<1>. QED
    BY <1>1, <1>2

\* What a request that fails may have done leaves the session typed.
LEMMA PartialTyped ==
    ASSUME SessionInv, job # Nothing, NEW T \in Partial
    PROVE  SessionTyped(T)
<1>. DEFINE S == job.snap.sources
            ks == recreate(Target, S)
<1>1. SessionTyped(Target) /\ Whole(job.snap)
    BY TargetTyped DEF SessionInv, InJob
<1>2. CASE job.phase = "create"
  <2>1. PICK made \in SUBSET ks : T = create_sources(Target, S, ks, made)
    BY <1>2 DEF Partial
  <2>2. ks \in SUBSET DOMAIN S
    BY DEF recreate
  <2>. HIDE DEF ks
  <2>. QED
    BY <1>1, <2>1, <2>2, CreateTyped
<1>3. CASE job.phase = "nodes" /\ SceneAccepted(Target, job.snap.nodes)
             /\ T = [Target EXCEPT !.scene = reconcile_nodes(Target, job.snap.nodes).scene]
  <2>1. Target = [field \in SessionFields |-> Target[field]]
    BY <1>1 DEF SessionTyped
  <2>. DEFINE scene == reconcile_nodes(Target, job.snap.nodes).scene
  <2>2. T = [Target EXCEPT !.scene = scene]
    BY <1>3
  <2>. HIDE DEF scene
  <2>3. /\ T = [field \in SessionFields |-> T[field]]
        /\ T.ids = Target.ids /\ T.kinds = Target.kinds /\ T.next = Target.next
        /\ T.live = Target.live /\ T.nodes = Target.nodes /\ T.active = Target.active
    BY ONLY <2>1, <2>2 DEF SessionFields
  <2>. QED
    BY ONLY <1>1, <2>3 DEF SessionTyped
<1>4. CASE job.phase = "destroy" /\ \E g \in SUBSET job.gone : T = [Target EXCEPT !.live = Without(@, g)]
  <2>1. PICK g : T = [Target EXCEPT !.live = Without(Target.live, g)]
    <3>1. Target = [field \in SessionFields |-> Target[field]]
        BY <1>1 DEF SessionTyped
    <3>. QED
        BY <1>4, <3>1 DEF SessionFields
  <2>. DEFINE live == Without(Target.live, g)
  <2>2. /\ live = [i \in DOMAIN live |-> live[i]] /\ DOMAIN live \subseteq DOMAIN Target.live
        /\ \A i \in DOMAIN live : live[i] = Target.live[i]
    BY DEF Without
  <2>3. T = [Target EXCEPT !.live = live] /\ Target = [field \in SessionFields |-> Target[field]]
    BY <1>1, <2>1 DEF SessionTyped
  <2>. HIDE DEF live
  <2>4. /\ T = [field \in SessionFields |-> T[field]]
        /\ T.ids = Target.ids /\ T.kinds = Target.kinds /\ T.next = Target.next
        /\ T.live = live /\ T.nodes = Target.nodes /\ T.active = Target.active
    BY ONLY <2>3 DEF SessionFields
  <2>5. /\ Target.next \in Nat /\ Target.ids \in [Keys -> 1 .. Target.next \cup {Nil}]
        /\ Target.kinds = [k \in Keys |-> Target.kinds[k]]
        /\ \A k \in Keys : Target.kinds[k] \in Kinds[k] \cup {Nil}
        /\ DOMAIN Target.live \subseteq 1 .. Target.next
        /\ \A i \in DOMAIN Target.live :
              /\ Target.live[i] = [field \in EntryFields |-> Target.live[i][field]]
              /\ Target.live[i].lost \in BOOLEAN
        /\ DOMAIN Target.active \subseteq Keys /\ Target.nodes \subseteq NodeKeys
    BY <1>1 DEF SessionTyped
  <2>6. \A i \in DOMAIN T.live : /\ T.live[i] = [field \in EntryFields |-> T.live[i][field]]
                                 /\ T.live[i].lost \in BOOLEAN
    BY <2>2, <2>4, <2>5
  <2>7. T.live = [i \in DOMAIN T.live |-> T.live[i]] /\ DOMAIN T.live \subseteq 1 .. T.next
    BY <2>2, <2>4, <2>5
  <2>. QED
    BY ONLY <2>4, <2>5, <2>6, <2>7 DEF SessionTyped
<1>. QED
    BY <1>1, <1>2, <1>3, <1>4 DEF Partial

\* A request fails, or concerns what is lost; or no replacement can be had.
LEMMA FailuresKeep ==
    ASSUME SessionInv, RequestFails \/ Refused \/ ConnectFails
    PROVE  SessionInv'
<1>1. SessionTyped(bridge)
    BY DEF SessionInv
<1>2. CASE RequestFails
  <2>1. job # Nothing /\ Fails /\ \E T \in Partial : IF fresh = Nothing THEN bridge' = T ELSE UNCHANGED bridge
    BY <1>2 DEF RequestFails
  <2>2. SessionTyped(bridge')
    BY <1>1, <2>1, PartialTyped
  <2>. QED
    BY <2>1, <2>2, FailingKeeps
<1>3. CASE Refused
    BY <1>1, <1>3, FailingKeeps DEF Refused, At
<1>4. CASE ConnectFails
    BY <1>1, <1>4, GivingUpKeeps DEF ConnectFails, ApplyFails
<1>. QED
    BY <1>2, <1>3, <1>4

----------------------------------------------------------------------------

\* The worker starts without a session's sources.
LEMMA SessionStarts == SessionInit => SessionInv
<1>. SUFFICES ASSUME SessionInit PROVE SessionInv
    OBVIOUS
<1>1. Whole(wanted)
    BY SnapshotsAreWhole DEF SessionInit
<1>2. BetweenJobs /\ InJob
    BY NewIsEmpty DEF SessionInit, BetweenJobs, InJob
<1>. QED
    BY <1>1, <1>2, NewIsEmpty DEF SessionInit, SessionInv

\* Every step of the worker, the actor and the presenter keeps the invariant.
LEMMA SessionStep == SessionInv /\ [SessionNext]_session_vars => SessionInv'
<1>. SUFFICES ASSUME SessionInv, [SessionNext]_session_vars PROVE SessionInv'
    OBVIOUS
<1>1. CASE UNCHANGED session_vars
    BY <1>1 DEF session_vars, SessionInv, BetweenJobs, InJob, Target, Base
<1>2. CASE BridgeWorker
    BY <1>2, LossesKeep, TakingKeeps, ContextsKeep, CreateKeeps, RequestsKeep, DestroyKeeps,
       AppliedKeeps, PauseKeeps, ConnectKeeps, FailuresKeep DEF BridgeWorker
<1>. QED
    BY <1>1, <1>2, ActorKeeps, LostKeeps, LostFreshKeeps, DropKeeps, FailuresKeep DEF SessionNext

\* Whatever fails, is lost or is sent again, and whenever: once nothing is applied,
\* asked for or reported, the presenter has the sources of the newest snapshot and no
\* other, and shows its nodes on them (run_bridge_worker, OuterBridge::apply, rebuild).
THEOREM SessionsAgree == SessionSpec => []SessionAgrees
<1>1. SessionInv => SessionAgrees
  <2>. SUFFICES ASSUME SessionInv PROVE SessionAgrees
    OBVIOUS
  <2>1. SessionTypeOK
    <3>1. /\ bridge.ids \in [Keys -> 1 .. bridge.next \cup {Nil}]
          /\ \A k \in Keys : bridge.kinds[k] \in Kinds[k] \cup {Nil}
          /\ DOMAIN bridge.live \subseteq 1 .. bridge.next
          /\ DOMAIN bridge.active \subseteq Keys /\ bridge.nodes \subseteq NodeKeys
        BY DEF SessionInv, SessionTyped
    <3>. QED
        BY <3>1 DEF SessionInv, SessionTypeOK, BetweenJobs
  <2>2. ASSUME Settled
        PROVE  LET S == wanted.sources
               IN /\ \A k \in DOMAIN S :
                       LinkOf[k] # Nil => bridge.live[bridge.ids[k]].link = bridge.ids[LinkOf[k]]
                  /\ DOMAIN bridge.live = {bridge.ids[k] : k \in DOMAIN S}
                  /\ \A k \in DOMAIN S : LET live == bridge.live[bridge.ids[k]]
                                        IN live.kind = S[k].kind /\ ~live.lost
                  /\ bridge.scene = [n \in wanted.nodes |-> bridge.ids[Of[n]]]
    <3>. DEFINE S == wanted.sources
    <3>1. /\ applied = wanted /\ Whole(wanted) /\ bridge.losses = {}
          /\ Matches(bridge, S, {}) /\ Displays(bridge, wanted.nodes) /\ Kept(bridge, S)
        BY <2>2 DEF SessionInv, BetweenJobs, Settled
    <3>2. \A k \in DOMAIN S : bridge.kinds[k] # Nil
        BY <3>1, OuterSessionAssumption DEF Kept, Whole
    <3>3. \A k \in DOMAIN S : /\ bridge.live[bridge.ids[k]].kind = S[k].kind
                              /\ ~bridge.live[bridge.ids[k]].lost
                              /\ LinkOf[k] # Nil => bridge.live[bridge.ids[k]].link = bridge.ids[LinkOf[k]]
        BY <3>1, <3>2 DEF Matches
    <3>4. DOMAIN bridge.live = {bridge.ids[k] : k \in DOMAIN S}
        BY <3>1 DEF Matches
    <3>5. {n \in wanted.nodes : ~bridge.live[bridge.ids[Of[n]]].lost} = wanted.nodes
        BY <3>1, <3>3 DEF Whole
    <3>6. bridge.scene = [n \in wanted.nodes |-> bridge.ids[Of[n]]]
        BY <3>1, <3>5 DEF Displays
    <3>. QED
        BY <3>3, <3>4, <3>6
  <2>. QED
    BY <2>1, <2>2 DEF SessionAgrees, LinksAgree
<1>. QED
    BY <1>1, SessionStarts, SessionStep, PTL DEF SessionSpec

=============================================================================
