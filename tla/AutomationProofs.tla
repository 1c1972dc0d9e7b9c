-------------------------- MODULE AutomationProofs --------------------------
(***************************************************************************)
(* Proofs about the automation requests: for any number of connections,    *)
(* panes, writer threads and requests, and any quotas, the identifiers in  *)
(* flight are those of the waits and inputs that are open                  *)
(* (InflightKept), and every request has the fate that RequestFate         *)
(* promises (FatesAreKept).                                                *)
(*                                                                         *)
(* The argument is about sets.  The event queue is read as the requests    *)
(* that it holds (Queued), the inputs whose worker reported (Completed),   *)
(* the connections that left and the panes that exited; the open waits     *)
(* and the answers under way are the ranges of their lists.  AutoInv, the  *)
(* inductive invariant, says that                                          *)
(*   - an event is queued once, and no request of a connection follows its *)
(*     Disconnected (EventsInOrder);                                       *)
(*   - a request is queued, waiting, with a worker or reported, in one     *)
(*     place only, and an answer likewise (RequestsPlaced, AnswersPlaced); *)
(*   - an identifier in flight belongs to one wait or to one pending       *)
(*     input, and an input whose connection was not dropped is pending     *)
(*     (Accounted);                                                        *)
(*   - an open request has no answer yet, and one under way is the only    *)
(*     one of its request and was not written (Told).                      *)
(* Every handler ends with the same step, EventEnded: the waits that are   *)
(* ready leave the list, and answers are made for them and for the request *)
(* the handler settled.  EventStep turns that into a step of RequestFate;  *)
(* the handlers only differ in the request they settle or drop.            *)
(***************************************************************************)
EXTENDS Automation, SequenceTheorems, FiniteSetTheorems, WellFoundedInduction, TLAPS

----------------------------------------------------------------------------
(* Sequences. *)

\* A job appended to a queue that does not have it keeps the jobs distinct.
LEMMA AppendRange ==
    ASSUME NEW S, NEW queue \in Seq(S), NEW job \in S
    PROVE  /\ Range(Append(queue, job)) = Range(queue) \cup {job}
           /\ IsInjective(queue) /\ job \notin Range(queue) => IsInjective(Append(queue, job))
<1>. DEFINE longer == Append(queue, job)
<1>1. /\ Len(queue) \in Nat /\ DOMAIN queue = 1 .. Len(queue)
      /\ DOMAIN longer = 1 .. Len(queue) + 1
      /\ \A i \in 1 .. Len(queue) : longer[i] = queue[i]
      /\ longer[Len(queue) + 1] = job
    BY AppendProperties, LenProperties
<1>. HIDE DEF longer
<1>2. Range(longer) = Range(queue) \cup {job}
    BY <1>1 DEF Range
<1>3. ASSUME IsInjective(queue), job \notin Range(queue) PROVE IsInjective(longer)
  <2>. SUFFICES ASSUME NEW i \in 1 .. Len(queue) + 1, NEW j \in 1 .. Len(queue) + 1, i # j
                PROVE  longer[i] # longer[j]
    BY <1>1 DEF IsInjective
  <2>1. CASE i \in 1 .. Len(queue) /\ j \in 1 .. Len(queue)
    BY <2>1, <1>1, <1>3 DEF IsInjective
  <2>2. CASE i = Len(queue) + 1 \/ j = Len(queue) + 1
    BY <2>2, <1>1, <1>3 DEF Range
  <2>. QED
    BY <2>1, <2>2, <1>1
<1>. QED
    BY <1>2, <1>3 DEF longer

\* What is left of a queue of distinct jobs does not have the job at its head.
LEMMA TailRange ==
    ASSUME NEW S, NEW queue \in Seq(S), queue # <<>>, IsInjective(queue)
    PROVE  /\ Head(queue) \in Range(queue) /\ Head(queue) \in S
           /\ Tail(queue) \in Seq(S) /\ Len(Tail(queue)) = Len(queue) - 1
           /\ Range(Tail(queue)) \subseteq Range(queue) \ {Head(queue)}
           /\ IsInjective(Tail(queue))
<1>. DEFINE rest == Tail(queue)
<1>1. /\ Len(queue) \in Nat \ {0} /\ DOMAIN queue = 1 .. Len(queue)
      /\ rest \in Seq(S) /\ Len(rest) = Len(queue) - 1
      /\ DOMAIN rest = 1 .. Len(queue) - 1
      /\ \A i \in 1 .. Len(queue) - 1 : rest[i] = queue[i + 1]
      /\ Head(queue) = queue[1] /\ Head(queue) \in S
    BY HeadTailProperties, LenProperties, EmptySeq
<1>. HIDE DEF rest
<1>2. Head(queue) \in Range(queue)
    BY <1>1 DEF Range
<1>3. Range(rest) \subseteq Range(queue) \ {Head(queue)}
  <2>. SUFFICES ASSUME NEW i \in 1 .. Len(queue) - 1
                PROVE  rest[i] \in Range(queue) \ {Head(queue)}
    BY <1>1 DEF Range
  <2>. QED
    BY <1>1 DEF Range, IsInjective
<1>4. IsInjective(rest)
  <2>. SUFFICES ASSUME NEW i \in 1 .. Len(queue) - 1, NEW j \in 1 .. Len(queue) - 1, i # j
                PROVE  rest[i] # rest[j]
    BY <1>1 DEF IsInjective
  <2>1. i + 1 \in DOMAIN queue /\ j + 1 \in DOMAIN queue /\ i + 1 # j + 1
    BY <1>1
  <2>. QED
    BY <1>1, <2>1 DEF IsInjective
<1>. QED
    BY <1>1, <1>2, <1>3, <1>4 DEF rest

\* The elements that Only has kept after each prefix of ws.
KeptOf(ws, S, kept, n) ==
    kept = [i \in 0 .. n |-> IF i = 0 THEN <<>>
                             ELSE IF ws[i] \in S THEN Append(kept[i - 1], ws[i])
                             ELSE kept[i - 1]]

\* A set of numbers that is closed under the successor, with 0, has every number.
LEMMA EveryNumber ==
    ASSUME NEW S \in SUBSET Nat, 0 \in S, \A n \in S : n + 1 \in S
    PROVE  S = Nat
<1>. DEFINE T == Nat \ S
<1>. SUFFICES ASSUME T # {} PROVE FALSE
  OBVIOUS
<1>1. \E x \in T : \A y \in T : ~(<<y, x>> \in OpToRel(<, Nat))
  BY NatLessThanWellFounded, WFMin, ZenonT(30)
<1>2. PICK x \in T : \A y \in T : ~(<<y, x>> \in OpToRel(<, Nat))
  BY <1>1, Zenon
<1>3. \A y \in T : ~(y < x)
  <2>. TAKE y \in T
  <2>1. <<y, x>> \notin OpToRel(<, Nat)
    BY <1>2, Zenon
  <2>. QED BY <2>1 DEF OpToRel
<1>4. x - 1 \in S
  BY <1>3
<1>. QED BY <1>4

\* The recursive definition of Only has a solution.
LEMMA KeptExists ==
    ASSUME NEW ws, NEW S, NEW n \in Nat
    PROVE  \E kept : KeptOf(ws, S, kept, n)
<1>. DEFINE N == {m \in Nat : \E kept : KeptOf(ws, S, kept, m)}
<1>1. 0 \in N
  <2>. DEFINE k == [i \in 0 .. 0 |-> <<>>]
  <2>1. KeptOf(ws, S, k, 0)
    BY DEF KeptOf
  <2>. QED BY <2>1
<1>2. ASSUME NEW m \in N PROVE m + 1 \in N
  <2>. DEFINE x == ws[m + 1]
  <2>1. PICK kept : KeptOf(ws, S, kept, m)
    OBVIOUS
  <2>. DEFINE next == [i \in 0 .. m + 1 |->
                         IF i <= m THEN kept[i]
                         ELSE IF x \in S THEN Append(kept[m], x) ELSE kept[m]]
  <2>2. KeptOf(ws, S, next, m + 1)
    <3>1. \A i \in 0 .. m + 1 :
              next[i] = IF i = 0 THEN <<>>
                        ELSE IF ws[i] \in S THEN Append(next[i - 1], ws[i])
                        ELSE next[i - 1]
      <4>. TAKE i \in 0 .. m + 1
      <4>1. CASE i <= m
        <5>1. next[i] = kept[i] /\ (i # 0 => next[i - 1] = kept[i - 1])
          BY <4>1
        <5>2. i \in 0 .. m
          BY <4>1
        <5>. HIDE DEF next
        <5>. QED BY <5>1, <5>2, <2>1 DEF KeptOf
      <4>2. CASE i = m + 1
        BY <4>2
      <4>. QED BY <4>1, <4>2
    <3>. HIDE DEF x
    <3>. QED BY <3>1 DEF KeptOf
  <2>. HIDE DEF next
  <2>. QED BY <2>2
<1>. HIDE DEF N
<1>3. N = Nat
  <2>1. N \in SUBSET Nat
    BY DEF N
  <2>. QED BY <1>1, <1>2, <2>1, EveryNumber
<1>. QED BY <1>3 DEF N

\* Only returns the last of them.
LEMMA OnlyIsKept ==
    ASSUME NEW S, NEW ws \in Seq(S), NEW T
    PROVE  \E kept : KeptOf(ws, T, kept, Len(ws)) /\ Only(ws, T) = kept[Len(ws)]
<1>. DEFINE kept[i \in 0 .. Len(ws)] ==
                IF i = 0 THEN <<>>
                ELSE IF ws[i] \in T THEN Append(kept[i - 1], ws[i]) ELSE kept[i - 1]
<1>1. kept = CHOOSE k : KeptOf(ws, T, k, Len(ws))
  BY DEF KeptOf
<1>2. KeptOf(ws, T, kept, Len(ws))
  <2>1. \E k : KeptOf(ws, T, k, Len(ws))
    BY KeptExists, LenProperties
  <2>. HIDE DEF kept
  <2>. QED BY <1>1, <2>1
<1>3. Only(ws, T) = kept[Len(ws)]
  BY DEF Only
<1>. HIDE DEF kept
<1>. QED BY <1>2, <1>3, Zenon

\* What Only keeps of a list without duplicates: exactly what is in the set, once.
LEMMA OnlyKeeps ==
    ASSUME NEW S, NEW ws \in Seq(S), NEW T, IsInjective(ws)
    PROVE  /\ Only(ws, T) \in Seq(S)
           /\ Len(Only(ws, T)) <= Len(ws)
           /\ Range(Only(ws, T)) = Range(ws) \cap T
           /\ IsInjective(Only(ws, T))
<1>. DEFINE n == Len(ws)
            Upto(i) == {ws[j] : j \in 1 .. i}
<1>1. /\ n \in Nat /\ DOMAIN ws = 1 .. n
      /\ \A i \in 1 .. n : ws[i] \in S
  BY LenProperties, ElementOfSeq
<1>2. PICK kept : KeptOf(ws, T, kept, n) /\ Only(ws, T) = kept[n]
  BY OnlyIsKept
<1>. DEFINE Good(i) == /\ kept[i] \in Seq(S) /\ Len(kept[i]) <= i
                       /\ Range(kept[i]) = Upto(i) \cap T
                       /\ IsInjective(kept[i])
            N == {i \in Nat : i <= n => Good(i)}
<1>3. kept[0] = <<>> /\ \A i \in 0 .. n - 1 :
          kept[i + 1] = IF ws[i + 1] \in T THEN Append(kept[i], ws[i + 1]) ELSE kept[i]
  <2>. HIDE DEF n
  <2>1. \A i \in 0 .. n : kept[i] = IF i = 0 THEN <<>>
                             ELSE IF ws[i] \in T THEN Append(kept[i - 1], ws[i])
                             ELSE kept[i - 1]
    BY <1>2 DEF KeptOf
  <2>. QED BY <2>1, <1>1
<1>. HIDE DEF n
<1>4. 0 \in N
  <2>1. Good(0)
    <3>1. DOMAIN <<>> = {} /\ Range(<<>>) = {}
      BY DEF Range
    <3>2. IsInjective(<<>>)
      BY DEF IsInjective
    <3>3. Upto(0) = {}
      OBVIOUS
    <3>. QED BY <1>3, <3>1, <3>2, <3>3, EmptySeq
  <2>. QED BY <2>1
<1>5. ASSUME NEW i \in N PROVE i + 1 \in N
  <2>. SUFFICES ASSUME i + 1 <= n PROVE Good(i + 1)
    OBVIOUS
  <2>. DEFINE x == ws[i + 1]
  <2>1. Good(i) /\ i \in 0 .. n - 1 /\ x \in S
    BY <1>1
  <2>2. Upto(i + 1) = Upto(i) \cup {x}
    <3>1. 1 .. i + 1 = (1 .. i) \cup {i + 1}
      BY <2>1
    <3>. QED BY <3>1
  <2>3. x \notin Upto(i)
    <3>. SUFFICES ASSUME NEW j \in 1 .. i PROVE ws[j] # ws[i + 1]
      OBVIOUS
    <3>. QED BY <1>1, <2>1 DEF IsInjective
  <2>4. kept[i + 1] = IF x \in T THEN Append(kept[i], x) ELSE kept[i]
    BY <1>3, <2>1
  <2>. HIDE DEF x, Upto
  <2>5. CASE x \in T
    <3>1. kept[i + 1] = Append(kept[i], x)
      BY <2>4, <2>5
    <3>2. kept[i + 1] \in Seq(S) /\ Len(kept[i + 1]) = Len(kept[i]) + 1
      BY <3>1, <2>1, AppendProperties
    <3>3. Range(kept[i + 1]) = Range(kept[i]) \cup {x}
      BY <3>1, <2>1, AppendRange
    <3>4. IsInjective(kept[i + 1])
      BY <3>1, <2>1, <2>3, AppendRange
    <3>5. Len(kept[i]) \in Nat
      BY <2>1, LenProperties
    <3>. QED BY <3>2, <3>3, <3>4, <3>5, <2>1, <2>2, <2>5
  <2>6. CASE x \notin T
    <3>1. Len(kept[i]) \in Nat
      BY <2>1, LenProperties
    <3>. QED BY <2>4, <2>6, <2>1, <2>2, <3>1
  <2>. QED BY <2>5, <2>6
<1>6. n \in N
  <2>1. N \in SUBSET Nat
    OBVIOUS
  <2>. HIDE DEF N
  <2>2. N = Nat
    BY <1>4, <1>5, <2>1, EveryNumber
  <2>. QED BY <2>2, <1>1
<1>7. Good(n)
  BY <1>6, <1>1
<1>8. Upto(n) = Range(ws)
  BY <1>1 DEF Range
<1>. QED BY <1>2, <1>7, <1>8 DEF n

\* A queue of distinct elements loses the one at its head, and no other.
LEMMA TailIsRest ==
    ASSUME NEW S, NEW queue \in Seq(S), queue # <<>>, IsInjective(queue)
    PROVE  /\ Head(queue) \in Range(queue) /\ Head(queue) \in S
           /\ Tail(queue) \in Seq(S) /\ Len(Tail(queue)) = Len(queue) - 1
           /\ Range(Tail(queue)) = Range(queue) \ {Head(queue)}
           /\ IsInjective(Tail(queue))
<1>. DEFINE rest == Tail(queue)
<1>1. /\ Head(queue) \in Range(queue) /\ Head(queue) \in S
      /\ rest \in Seq(S) /\ Len(rest) = Len(queue) - 1
      /\ Range(rest) \subseteq Range(queue) \ {Head(queue)}
      /\ IsInjective(rest)
  BY TailRange
<1>2. /\ Len(queue) \in Nat \ {0} /\ DOMAIN queue = 1 .. Len(queue)
      /\ DOMAIN rest = 1 .. Len(queue) - 1
      /\ \A i \in 1 .. Len(queue) - 1 : rest[i] = queue[i + 1]
      /\ Head(queue) = queue[1]
  BY HeadTailProperties, LenProperties, EmptySeq
<1>. HIDE DEF rest
<1>3. ASSUME NEW i \in DOMAIN queue, queue[i] # Head(queue) PROVE queue[i] \in Range(rest)
  <2>1. i - 1 \in DOMAIN rest /\ rest[i - 1] = queue[i]
    BY <1>2, <1>3
  <2>. QED BY <2>1 DEF Range
<1>4. Range(queue) \ {Head(queue)} \subseteq Range(rest)
  BY <1>3 DEF Range
<1>. QED BY <1>1, <1>4 DEF rest

\* Distinct elements make as long a list as they are many.
LEMMA InjectiveLen ==
    ASSUME NEW S, NEW q \in Seq(S), IsInjective(q)
    PROVE  IsFiniteSet(Range(q)) /\ Cardinality(Range(q)) = Len(q)
<1>1. Len(q) \in Nat /\ DOMAIN q = 1 .. Len(q)
  BY LenProperties
<1>2. q \in Bijection(1 .. Len(q), Range(q))
  <2>1. q \in [1 .. Len(q) -> Range(q)]
    BY <1>1, SeqDef DEF Range
  <2>2. q \in Injection(1 .. Len(q), Range(q))
    BY <1>1, <2>1 DEF Injection, IsInjective
  <2>3. q \in Surjection(1 .. Len(q), Range(q))
    BY <1>1, <2>1 DEF Surjection, Range
  <2>. QED BY <2>2, <2>3 DEF Bijection
<1>3. IsFiniteSet(1 .. Len(q)) /\ Cardinality(1 .. Len(q)) = Len(q)
  BY <1>1, FS_Interval, SMTT(20)
<1>4. ExistsBijection(1 .. Len(q), Range(q))
  BY <1>2 DEF ExistsBijection
<1>. QED BY <1>3, <1>4, FS_Bijection

----------------------------------------------------------------------------
(* Events as a set. *)

QueuedIn(E) == {e \in E : e.type = "request"}
CompletedIn(E) == {e.request : e \in {f \in E : f.type = "input_complete"}}
LeftIn(E) == {e.conn : e \in {f \in E : f.type = "disconnected"}}
ExitedIn(E) == {e.pane : e \in {f \in E : f.type = "pty_exit"}}

\* What a queued event is.
LEMMA EventTypes ==
    ASSUME NEW e \in Events
    PROVE  /\ e.type = "request" => e \in Requests
           /\ e.type = "input_complete" => /\ e.request \in Requests
                                           /\ e = [type |-> "input_complete", request |-> e.request]
           /\ e.type = "disconnected" => /\ e.conn \in Conns
                                         /\ e = [type |-> "disconnected", conn |-> e.conn]
           /\ e.type = "pty_exit" => /\ e.pane \in Panes
                                     /\ e = [type |-> "pty_exit", pane |-> e.pane]
           /\ e.type \in {"request", "input_complete", "disconnected", "pty_exit"}
BY DEF Events, Requests

\* One more event, of each type.
LEMMA EventAdded ==
    ASSUME NEW E, NEW e
    PROVE  /\ QueuedIn(E \cup {e}) = IF e.type = "request" THEN QueuedIn(E) \cup {e}
                                     ELSE QueuedIn(E)
           /\ CompletedIn(E \cup {e}) = IF e.type = "input_complete"
                                        THEN CompletedIn(E) \cup {e.request} ELSE CompletedIn(E)
           /\ LeftIn(E \cup {e}) = IF e.type = "disconnected"
                                   THEN LeftIn(E) \cup {e.conn} ELSE LeftIn(E)
           /\ ExitedIn(E \cup {e}) = IF e.type = "pty_exit"
                                     THEN ExitedIn(E) \cup {e.pane} ELSE ExitedIn(E)
BY DEF QueuedIn, CompletedIn, LeftIn, ExitedIn

\* Disconnected comes from a connection.
LEMMA LeftConns ==
    ASSUME NEW ev \in Seq(Events)
    PROVE  LeftIn(Range(ev)) \subseteq Conns
BY RangeOfSeq, EventTypes DEF LeftIn

\* One event less.
LEMMA EventHandled ==
    ASSUME NEW E \in SUBSET Events, NEW e \in E
    PROVE  /\ QueuedIn(E \ {e}) = IF e.type = "request" THEN QueuedIn(E) \ {e}
                                  ELSE QueuedIn(E)
           /\ CompletedIn(E \ {e}) = IF e.type = "input_complete"
                                     THEN CompletedIn(E) \ {e.request} ELSE CompletedIn(E)
           /\ LeftIn(E \ {e}) = IF e.type = "disconnected"
                                THEN LeftIn(E) \ {e.conn} ELSE LeftIn(E)
           /\ ExitedIn(E \ {e}) = IF e.type = "pty_exit"
                                  THEN ExitedIn(E) \ {e.pane} ELSE ExitedIn(E)
<1>1. QueuedIn(E \ {e}) = IF e.type = "request" THEN QueuedIn(E) \ {e} ELSE QueuedIn(E)
  BY DEF QueuedIn
<1>2. CompletedIn(E \ {e}) = IF e.type = "input_complete"
                             THEN CompletedIn(E) \ {e.request} ELSE CompletedIn(E)
  <2>1. \A f \in E : f.type = "input_complete" /\ e.type = "input_complete"
                     /\ f.request = e.request => f = e
    BY EventTypes
  <2>. QED BY <2>1 DEF CompletedIn
<1>3. LeftIn(E \ {e}) = IF e.type = "disconnected" THEN LeftIn(E) \ {e.conn} ELSE LeftIn(E)
  <2>1. \A f \in E : f.type = "disconnected" /\ e.type = "disconnected"
                     /\ f.conn = e.conn => f = e
    BY EventTypes
  <2>. QED BY <2>1 DEF LeftIn
<1>4. ExitedIn(E \ {e}) = IF e.type = "pty_exit" THEN ExitedIn(E) \ {e.pane} ELSE ExitedIn(E)
  <2>1. \A f \in E : f.type = "pty_exit" /\ e.type = "pty_exit"
                     /\ f.pane = e.pane => f = e
    BY EventTypes
  <2>. QED BY <2>1 DEF ExitedIn
<1>. QED BY <1>1, <1>2, <1>3, <1>4

\* No request of a connection follows its Disconnected.
RequestsFirst(ev) ==
    \A i, j \in DOMAIN ev :
        i < j /\ ev[i].type = "disconnected" /\ ev[j].type = "request"
        => ev[j].conn # ev[i].conn

\* It stays so with an event that is no request of a connection that left.
LEMMA RequestsFirstAppend ==
    ASSUME NEW ev \in Seq(Events), RequestsFirst(ev), NEW e \in Events,
           e.type = "request" => e.conn \notin LeftIn(Range(ev))
    PROVE  RequestsFirst(Append(ev, e))
<1>. DEFINE longer == Append(ev, e)
<1>1. /\ Len(ev) \in Nat /\ DOMAIN ev = 1 .. Len(ev)
      /\ DOMAIN longer = 1 .. Len(ev) + 1
      /\ \A i \in 1 .. Len(ev) : longer[i] = ev[i]
      /\ longer[Len(ev) + 1] = e
  BY AppendProperties, LenProperties
<1>. HIDE DEF longer
<1>2. ASSUME NEW i \in DOMAIN longer, NEW j \in DOMAIN longer, i < j,
             longer[i].type = "disconnected", longer[j].type = "request"
      PROVE  longer[j].conn # longer[i].conn
  <2>1. i \in DOMAIN ev /\ longer[i] = ev[i]
    BY <1>1, <1>2
  <2>2. CASE j \in DOMAIN ev
    BY <1>1, <1>2, <2>1, <2>2 DEF RequestsFirst
  <2>3. CASE j = Len(ev) + 1
    <3>1. ev[i].conn \in LeftIn(Range(ev))
      BY <2>1, <1>2 DEF LeftIn, Range
    <3>. QED BY <1>1, <1>2, <2>1, <2>3, <3>1
  <2>. QED BY <1>1, <2>2, <2>3
<1>3. RequestsFirst(longer)
  BY <1>2 DEF RequestsFirst
<1>. QED BY <1>3 DEF longer

\* It stays so when the next event is taken; after a Disconnected, no request of its
\* connection is left.
LEMMA RequestsFirstTail ==
    ASSUME NEW ev \in Seq(Events), ev # <<>>, RequestsFirst(ev)
    PROVE  /\ RequestsFirst(Tail(ev))
           /\ Head(ev).type = "disconnected"
              => \A r \in QueuedIn(Range(Tail(ev))) : r.conn # Head(ev).conn
<1>. DEFINE rest == Tail(ev)
<1>1. /\ Len(ev) \in Nat \ {0} /\ DOMAIN ev = 1 .. Len(ev)
      /\ DOMAIN rest = 1 .. Len(ev) - 1
      /\ \A i \in 1 .. Len(ev) - 1 : rest[i] = ev[i + 1]
      /\ Head(ev) = ev[1]
  <2>1. Len(ev) \in Nat \ {0}
    BY LenProperties, EmptySeq
  <2>2. rest \in Seq(Events) /\ Len(rest) = Len(ev) - 1
    BY HeadTailProperties, <2>1
  <2>. QED BY <2>1, <2>2, HeadTailProperties, LenProperties
<1>. HIDE DEF rest
<1>2. RequestsFirst(rest)
  <2>. SUFFICES ASSUME NEW i \in DOMAIN rest, NEW j \in DOMAIN rest, i < j,
                       rest[i].type = "disconnected", rest[j].type = "request"
                PROVE  rest[j].conn # rest[i].conn
    BY DEF RequestsFirst
  <2>1. i + 1 \in DOMAIN ev /\ j + 1 \in DOMAIN ev /\ i + 1 < j + 1
    BY <1>1
  <2>. QED BY <1>1, <2>1 DEF RequestsFirst
<1>3. ASSUME Head(ev).type = "disconnected", NEW r \in QueuedIn(Range(rest))
      PROVE  r.conn # Head(ev).conn
  <2>1. PICK i \in DOMAIN rest : r = rest[i] /\ r.type = "request"
    BY <1>3 DEF QueuedIn, Range
  <2>2. i + 1 \in DOMAIN ev /\ 1 \in DOMAIN ev /\ 1 < i + 1 /\ ev[i + 1] = r
    BY <1>1, <2>1
  <2>. QED BY <1>1, <1>3, <2>1, <2>2 DEF RequestsFirst
<1>. QED BY <1>2, <1>3 DEF rest

----------------------------------------------------------------------------
(* Where the requests are that have no answer yet: queued, waiting, with a *)
(* worker, or reported by it.                                               *)

Placed(Q, W, K, D) ==
    /\ Q \subseteq Requests /\ W \subseteq Requests
    /\ K \subseteq Requests /\ D \subseteq Requests
    /\ Q \cap W = {} /\ Q \cap K = {} /\ Q \cap D = {}
    /\ W \cap K = {} /\ W \cap D = {} /\ K \cap D = {}
    /\ \A r, q \in Q \cup W \cup K \cup D : r.serial = q.serial => r = q

\* Requests leave, come, and move from place to place.
LEMMA PlacedLess ==
    ASSUME NEW Q, NEW W, NEW K, NEW D, Placed(Q, W, K, D), NEW S
    PROVE  Placed(Q, W \ S, K, D)
BY DEF Placed

\* A request leaves, moves to the waits or to a worker, is reported, or arrives.
LEMMA PlacedMoves ==
    ASSUME NEW Q, NEW W, NEW K, NEW D, Placed(Q, W, K, D), NEW r \in Requests
    PROVE  /\ Placed(Q \ {r}, W, K, D)
           /\ Placed(Q, W, K, D \ {r})
           /\ r \in Q => Placed(Q \ {r}, W \cup {r}, K, D) /\ Placed(Q \ {r}, W, K \cup {r}, D)
           /\ r \in K => Placed(Q, W, K \ {r}, D \cup {r})
           /\ (\A q \in Q \cup W \cup K \cup D : q.serial # r.serial)
              => Placed(Q \cup {r}, W, K, D)
BY DEF Placed

----------------------------------------------------------------------------
(* Identifiers in flight I, of the waits W and the pending inputs P; X are the *)
(* inputs that a worker has or has reported, H the connections whose           *)
(* Disconnected was handled.                                                   *)

Accounted(W, P, I, X, H) ==
    /\ I = Keys(W) \cup P
    /\ Keys(W) \cap P = {}
    /\ \A w, v \in W : Key(w) = Key(v) => w = v
    /\ P \subseteq Keys(X)
    /\ \A r \in X : Key(r) \in P \/ r.conn \in H
    /\ \A r, q \in X : Key(r) = Key(q) /\ r.conn \notin H => r = q
    /\ \A w \in W : w.conn \notin H
    /\ \A k \in P : k[1] \notin H

\* Waits are answered.
LEMMA WaitsAnswered ==
    ASSUME NEW W, NEW P, NEW I, NEW X, NEW H, Accounted(W, P, I, X, H),
           NEW ready \in SUBSET W
    PROVE  Accounted(W \ ready, P, I \ Keys(ready), X, H)
<1>1. Keys(W \ ready) = Keys(W) \ Keys(ready)
  <2>. SUFFICES ASSUME NEW w \in W, w \notin ready PROVE Key(w) \notin Keys(ready)
    BY DEF Keys
  <2>1. \A v \in ready : Key(v) # Key(w)
    BY DEF Accounted
  <2>. QED BY <2>1 DEF Keys
<1>2. Keys(ready) \subseteq Keys(W)
  BY DEF Keys
<1>3. (Keys(W) \cup P) \ Keys(ready) = Keys(W \ ready) \cup P
  BY <1>1, <1>2 DEF Accounted
<1>. QED BY <1>1, <1>2, <1>3 DEF Accounted

\* A request whose identifier is free waits.
LEMMA WaitAdded ==
    ASSUME NEW W, NEW P, NEW I, NEW X, NEW H, Accounted(W, P, I, X, H),
           NEW r, Key(r) \notin I, r.conn \notin H
    PROVE  Accounted(W \cup {r}, P, I \cup {Key(r)}, X, H)
<1>. DEFINE k == Key(r)
            W2 == W \cup {r}
<1>1. Keys(W2) = Keys(W) \cup {k}
  BY DEF Keys
<1>2. \A w \in W : Key(w) \in Keys(W)
  BY DEF Keys
<1>3. I = Keys(W) \cup P /\ Keys(W) \cap P = {}
  BY DEF Accounted
<1>4. I \cup {k} = Keys(W2) \cup P /\ Keys(W2) \cap P = {}
  BY <1>1, <1>3
<1>5. \A w, v \in W2 : Key(w) = Key(v) => w = v
  BY <1>2, <1>3 DEF Accounted
<1>6. \A w \in W2 : w.conn \notin H
  BY DEF Accounted
<1>. HIDE DEF k, W2
<1>7. Accounted(W2, P, I \cup {k}, X, H)
  BY <1>4, <1>5, <1>6 DEF Accounted
<1>. QED BY <1>7 DEF k, W2

\* An input whose identifier is free gets its worker.
LEMMA InputStarted ==
    ASSUME NEW W, NEW P, NEW I, NEW X, NEW H, Accounted(W, P, I, X, H),
           NEW r \in Requests, Key(r) \notin I, r.conn \notin H
    PROVE  Accounted(W, P \cup {Key(r)}, I \cup {Key(r)}, X \cup {r}, H)
<1>. DEFINE k == Key(r)
            P2 == P \cup {k}
            X2 == X \cup {r}
<1>1. Keys(X2) = Keys(X) \cup {k}
  BY DEF Keys
<1>2. k[1] = r.conn
  BY DEF Key
<1>3. \A q \in X : Key(q) # k
  <2>. SUFFICES ASSUME NEW q \in X, Key(q) = Key(r) PROVE FALSE
    OBVIOUS
  <2>1. q.conn = r.conn
    BY DEF Key
  <2>2. Key(q) \in P
    BY <2>1 DEF Accounted
  <2>. QED BY <2>2 DEF Accounted
<1>4. I \cup {k} = Keys(W) \cup P2 /\ Keys(W) \cap P2 = {}
  BY DEF Accounted
<1>5. P2 \subseteq Keys(X2)
  BY <1>1 DEF Accounted
<1>6. \A q \in X2 : Key(q) \in P2 \/ q.conn \in H
  BY DEF Accounted
<1>7. \A p, q \in X2 : Key(p) = Key(q) /\ p.conn \notin H => p = q
  BY <1>3 DEF Accounted
<1>8. \A j \in P2 : j[1] \notin H
  BY <1>2 DEF Accounted
<1>. HIDE DEF k, P2, X2
<1>9. Accounted(W, P2, I \cup {k}, X2, H)
  BY <1>4, <1>5, <1>6, <1>7, <1>8 DEF Accounted
<1>. QED BY <1>9 DEF k, P2, X2

\* A worker's report gives the identifier back, if there is still someone to want it.
LEMMA InputReported ==
    ASSUME NEW W, NEW P, NEW I, NEW X, NEW H, Accounted(W, P, I, X, H),
           NEW r \in X
    PROVE  Accounted(W, P \ {Key(r)}, I \ {Key(r)}, X \ {r}, H)
<1>1. \A q \in W \cup X : Key(q) = Key(r) => q.conn = r.conn
  BY DEF Key
<1>2. \A w \in W : Key(w) \in Keys(W)
  BY DEF Keys
<1>3. Key(r) \notin Keys(W)
  <2>. SUFFICES ASSUME NEW w \in W, Key(w) = Key(r) PROVE FALSE
    BY DEF Keys
  <2>. QED BY <1>1, <1>2 DEF Accounted
<1>4. P \ {Key(r)} \subseteq Keys(X \ {r})
  BY DEF Accounted, Keys
<1>5. \A q \in X \ {r} : Key(q) \in P \ {Key(r)} \/ q.conn \in H
  BY <1>1 DEF Accounted
<1>. DEFINE k == Key(r)
            P2 == P \ {k}
            X2 == X \ {r}
<1>6. I \ {k} = Keys(W) \cup P2 /\ Keys(W) \cap P2 = {}
  BY <1>3 DEF Accounted
<1>7. \A p, q \in X2 : Key(p) = Key(q) /\ p.conn \notin H => p = q
  BY DEF Accounted
<1>8. \A j \in P2 : j[1] \notin H
  BY DEF Accounted
<1>. HIDE DEF k, P2, X2
<1>9. Accounted(W, P2, I \ {k}, X2, H)
  BY <1>4, <1>5, <1>6, <1>7, <1>8 DEF Accounted, k, P2, X2
<1>. QED BY <1>9 DEF k, P2, X2

\* A connection takes its waits, its pending inputs and its identifiers with it.
LEMMA ConnectionDropped ==
    ASSUME NEW W \in SUBSET Requests, NEW P \in SUBSET (Conns \X Ids), NEW I, NEW X, NEW H,
           Accounted(W, P, I, X, H), NEW c
    PROVE  Accounted({w \in W : w.conn # c}, {k \in P : k[1] # c}, {k \in I : k[1] # c},
                     X, H \cup {c})
<1>1. \A w \in W \cup X : Key(w)[1] = w.conn
  BY DEF Key
<1>. DEFINE W2 == {w \in W : w.conn # c}
            P2 == {k \in P : k[1] # c}
            I2 == {k \in I : k[1] # c}
            H2 == H \cup {c}
<1>2. Keys(W2) = {k \in Keys(W) : k[1] # c}
  BY <1>1 DEF Keys
<1>3. I2 = Keys(W2) \cup P2 /\ Keys(W2) \cap P2 = {}
  BY <1>2 DEF Accounted
<1>4. \A w, v \in W2 : Key(w) = Key(v) => w = v
  BY DEF Accounted
<1>5. P2 \subseteq Keys(X)
  BY DEF Accounted
<1>6. \A r \in X : Key(r) \in P2 \/ r.conn \in H2
  BY <1>1 DEF Accounted
<1>7. \A r, q \in X : Key(r) = Key(q) /\ r.conn \notin H2 => r = q
  BY DEF Accounted
<1>8. (\A w \in W2 : w.conn \notin H2) /\ (\A k \in P2 : k[1] \notin H2)
  BY DEF Accounted
<1>. HIDE DEF W2, P2, I2, H2
<1>9. Accounted(W2, P2, I2, X, H2)
  BY <1>3, <1>4, <1>5, <1>6, <1>7, <1>8 DEF Accounted
<1>. QED BY <1>9 DEF W2, P2, I2, H2

----------------------------------------------------------------------------
(* What became of each request, from the open ones O, the answers under way A, *)
(* the answers made and the requests written.                                  *)

Told(n, ans, O, A, D) ==
    /\ n \in 0 .. MaxRequests
    /\ ans \in [1 .. MaxRequests -> Nat]
    /\ O \subseteq Requests /\ A \subseteq Answers /\ D \subseteq 1 .. n
    /\ \A r \in O : r.serial <= n /\ ans[r.serial] = 0
    /\ \A r, q \in O : r.serial = q.serial => r = q
    /\ \A a \in A : a.serial <= n /\ ans[a.serial] = 1 /\ a.serial \notin D
    /\ \A a, b \in A : a.serial = b.serial => a = b
    /\ \A s \in D : ans[s] = 1
    /\ \A s \in 1 .. MaxRequests : ans[s] <= 1 /\ (s > n => ans[s] = 0)

FateIn(n, made, O, A, D, s) ==
    IF s > n THEN [at |-> "unsent"]
    ELSE IF made > 1 THEN [at |-> "answered twice"]
    ELSE IF {r \in O : Serial(r, s)} # {}
         THEN [at |-> "open", conn |-> (CHOOSE r \in {r \in O : Serial(r, s)} : TRUE).conn]
    ELSE IF {a \in A : Serial(a, s)} # {}
         THEN [at |-> "answered",
               conn |-> (CHOOSE a \in {a \in A : Serial(a, s)} : TRUE).conn]
    ELSE IF s \in D THEN [at |-> "delivered"] ELSE [at |-> "dropped"]

\* A request is open for the connection that sent it, and so is its answer.
FateRules(f, n, O, A, D, s) ==
    /\ s > n => f = [at |-> "unsent"]
    /\ \A r \in O : r.serial = s => f = [at |-> "open", conn |-> r.conn]
    /\ \A a \in A : a.serial = s => f = [at |-> "answered", conn |-> a.conn]
    /\ s <= n /\ (\A r \in O : r.serial # s) /\ (\A a \in A : a.serial # s)
       => f = IF s \in D THEN [at |-> "delivered"] ELSE [at |-> "dropped"]

\* The fate of a request whose places are told apart as Told says.
LEMMA FateCases ==
    ASSUME NEW n, NEW ans, NEW O, NEW A, NEW D, Told(n, ans, O, A, D),
           NEW s \in 1 .. MaxRequests
    PROVE  FateRules(FateIn(n, ans[s], O, A, D, s), n, O, A, D, s)
<1>. DEFINE f == FateIn(n, ans[s], O, A, D, s)
<1>0. n \in Nat /\ s \in Nat /\ ans[s] \in Nat /\ ~(ans[s] > 1)
  BY AutomationAssumption DEF Told
<1>1. ASSUME s > n PROVE f = [at |-> "unsent"]
  BY <1>1 DEF FateIn
<1>2. ASSUME NEW r \in O, r.serial = s PROVE f = [at |-> "open", conn |-> r.conn]
  <2>1. ~(s > n)
    BY <1>0, <1>2 DEF Told
  <2>2. {q \in O : Serial(q, s)} = {r}
    BY <1>2 DEF Told, Serial
  <2>. QED BY <1>0, <2>1, <2>2 DEF FateIn
<1>3. ASSUME NEW a \in A, a.serial = s PROVE f = [at |-> "answered", conn |-> a.conn]
  <2>1. ~(s > n)
    BY <1>0, <1>3 DEF Told
  <2>2. {q \in O : Serial(q, s)} = {}
    <3>. SUFFICES ASSUME NEW q \in O, q.serial = s PROVE FALSE
      BY DEF Serial
    <3>. QED BY <1>3 DEF Told
  <2>3. {b \in A : Serial(b, s)} = {a}
    BY <1>3 DEF Told, Serial
  <2>. QED BY <1>0, <2>1, <2>2, <2>3 DEF FateIn
<1>4. ASSUME s <= n, \A r \in O : r.serial # s, \A a \in A : a.serial # s
      PROVE  f = IF s \in D THEN [at |-> "delivered"] ELSE [at |-> "dropped"]
  <2>1. {q \in O : Serial(q, s)} = {} /\ {a \in A : Serial(a, s)} = {}
    BY <1>4 DEF Serial
  <2>2. ~(s > n)
    BY <1>0, <1>4
  <2>. QED BY <1>0, <2>1, <2>2 DEF FateIn
<1>. HIDE DEF f
<1>5. FateRules(f, n, O, A, D, s)
  BY <1>1, <1>2, <1>3, <1>4 DEF FateRules
<1>. QED BY <1>5 DEF f

\* The fates are those of the abstract specification.
LEMMA FatesTyped ==
    ASSUME NEW n, NEW ans, NEW O, NEW A, NEW D, Told(n, ans, O, A, D),
           NEW s \in 1 .. MaxRequests
    PROVE  FateIn(n, ans[s], O, A, D, s) \in Fate!Fates
<1>. DEFINE f == FateIn(n, ans[s], O, A, D, s)
<1>0. n \in Nat /\ s \in Nat
  BY AutomationAssumption DEF Told
<1>1. FateRules(f, n, O, A, D, s)
  BY FateCases
<1>2. /\ \A r \in O : r.conn \in Conns
      /\ \A a \in A : a.conn \in Conns
  BY DEF Told, Requests, Answers
<1>. HIDE DEF f
<1>3. f \in Fate!Fates
  <2>1. CASE s > n
    BY <1>1, <2>1 DEF FateRules, Fate!Fates, Fate!Unsent
  <2>2. CASE \E r \in O : r.serial = s
    BY <1>1, <1>2, <2>2 DEF FateRules, Fate!Fates, Fate!Underway
  <2>3. CASE \E a \in A : a.serial = s
    BY <1>1, <1>2, <2>3 DEF FateRules, Fate!Fates, Fate!Underway
  <2>4. CASE s <= n /\ (\A r \in O : r.serial # s) /\ (\A a \in A : a.serial # s)
    BY <1>1, <2>4 DEF FateRules, Fate!Fates, Fate!Delivered, Fate!Dropped
  <2>. QED BY <1>0, <2>1, <2>2, <2>3, <2>4
<1>. QED BY <1>3 DEF f

\* How the fate of one request may change in a step that does not send it.
Changed(old, new, before, after) ==
    \/ new = old
    \/ old.at = "open" /\ new = [old EXCEPT !.at = "answered"]
    \/ old.at = "answered" /\ old.conn \in before /\ new = [at |-> "delivered"]
    \/ old \in Fate!Underway /\ old.conn \notin after /\ new = [at |-> "dropped"]

\* The answers to a set of requests, and the counts with them.
AnswersTo(rs) == {Answer(r) : r \in rs}

AnsweredOnce(ans, ans2, rs) ==
    /\ ans2 \in [1 .. MaxRequests -> Nat]
    /\ \A s \in 1 .. MaxRequests :
          ans2[s] = ans[s] + IF \E r \in rs : r.serial = s THEN 1 ELSE 0

\* The end of an event: the requests in done are answered, those in gone are
\* dropped with their connections.
LEMMA EventToldOf ==
    ASSUME NEW n, NEW ans, NEW O, NEW A, NEW D, Told(n, ans, O, A, D),
           NEW done \in SUBSET O, NEW gone \in SUBSET O, done \cap gone = {},
           NEW ans2, AnsweredOnce(ans, ans2, done)
    PROVE  Told(n, ans2, (O \ done) \ gone, A \cup AnswersTo(done), D)
<1>. DEFINE O2 == (O \ done) \ gone
            A2 == A \cup AnswersTo(done)
<1>y. A2 = A \cup {Answer(r) : r \in done}
  BY DEF AnswersTo
<1>z. /\ ans2 \in [1 .. MaxRequests -> Nat]
      /\ \A s \in 1 .. MaxRequests :
            ans2[s] = ans[s] + IF \E r \in done : r.serial = s THEN 1 ELSE 0
  BY DEF AnsweredOnce
<1>0. n \in Nat /\ \A r \in O : r.serial \in 1 .. MaxRequests /\ r.conn \in Conns
  BY AutomationAssumption DEF Told, Requests
<1>1. \A r \in done : Answer(r) \in Answers /\ Answer(r).serial = r.serial
  BY <1>0 DEF Answer, Answers
<1>2. \A r \in O2 : r.serial <= n /\ ans2[r.serial] = 0
  <2>. SUFFICES ASSUME NEW r \in O2 PROVE r.serial <= n /\ ans2[r.serial] = 0
    OBVIOUS
  <2>1. r.serial <= n /\ ans[r.serial] = 0
    BY DEF Told
  <2>2. \A q \in done : q.serial # r.serial
    BY DEF Told
  <2>. QED BY <1>0, <1>z, <2>1, <2>2
<1>3. \A a \in A2 : a.serial <= n /\ ans2[a.serial] = 1 /\ a.serial \notin D
  <2>. SUFFICES ASSUME NEW a \in A2
                PROVE  a.serial <= n /\ ans2[a.serial] = 1 /\ a.serial \notin D
    OBVIOUS
  <2>1. CASE a \in A
    <3>1. a.serial <= n /\ ans[a.serial] = 1 /\ a.serial \notin D /\ a.serial \in 1 .. MaxRequests
      BY <2>1 DEF Told, Answers
    <3>2. \A q \in done : q.serial # a.serial
      <4>. SUFFICES ASSUME NEW q \in done, q.serial = a.serial PROVE FALSE
        OBVIOUS
      <4>1. ans[q.serial] = 0
        BY DEF Told
      <4>. QED BY <3>1, <4>1
    <3>. QED BY <1>z, <3>1, <3>2
  <2>2. CASE \E r \in done : a = Answer(r)
    <3>1. PICK r \in done : a = Answer(r)
      BY <2>2
    <3>2. a.serial = r.serial /\ r.serial \in 1 .. MaxRequests
      BY <1>0, <1>1, <3>1
    <3>3. r.serial <= n /\ ans[r.serial] = 0
      BY DEF Told
    <3>4. ans2[r.serial] = 1
      BY <1>z, <3>2, <3>3
    <3>5. r.serial \notin D
      <4>. SUFFICES ASSUME r.serial \in D PROVE FALSE
        OBVIOUS
      <4>1. ans[r.serial] = 1
        BY DEF Told
      <4>. QED BY <3>3, <4>1
    <3>. QED BY <3>2, <3>3, <3>4, <3>5
  <2>. QED BY <1>y, <2>1, <2>2
<1>4. \A a, b \in A2 : a.serial = b.serial => a = b
  <2>1. \A a \in A, r \in done : a.serial # r.serial
    <3>. SUFFICES ASSUME NEW a \in A, NEW r \in done, a.serial = r.serial PROVE FALSE
      OBVIOUS
    <3>1. ans[a.serial] = 1 /\ ans[r.serial] = 0
      BY DEF Told
    <3>. QED BY <3>1
  <2>2. \A r, q \in done : r.serial = q.serial => r = q
    BY DEF Told
  <2>3. \A a, b \in A : a.serial = b.serial => a = b
    BY DEF Told
  <2>4. \A a \in A2 : a \in A \/ \E r \in done : a = Answer(r) /\ a.serial = r.serial
    BY <1>1, <1>y
  <2>. QED BY <2>1, <2>2, <2>3, <2>4
<1>5. \A s \in 1 .. MaxRequests : ans2[s] <= 1 /\ (s > n => ans2[s] = 0)
  <2>. SUFFICES ASSUME NEW s \in 1 .. MaxRequests
                PROVE  ans2[s] <= 1 /\ (s > n => ans2[s] = 0)
    OBVIOUS
  <2>1. ans[s] \in Nat /\ ans[s] <= 1 /\ (s > n => ans[s] = 0)
    BY DEF Told
  <2>2. CASE \E r \in done : r.serial = s
    <3>1. s <= n /\ ans[s] = 0
      BY <2>2 DEF Told
    <3>. QED BY <2>2, <3>1, <1>0, <1>z
  <2>3. CASE ~\E r \in done : r.serial = s
    BY <1>z, <2>1, <2>3
  <2>. QED BY <2>2, <2>3
<1>6. \A s \in D : ans2[s] = 1
  <2>. SUFFICES ASSUME NEW s \in D PROVE ans2[s] = 1
    OBVIOUS
  <2>1. s \in 1 .. MaxRequests /\ ans[s] = 1
    BY AutomationAssumption DEF Told
  <2>2. \A r \in done : r.serial # s
    <3>. SUFFICES ASSUME NEW r \in done, r.serial = s PROVE FALSE
      OBVIOUS
    <3>1. ans[r.serial] = 0
      BY DEF Told
    <3>. QED BY <2>1, <3>1
  <2>. QED BY <1>z, <2>1, <2>2
<1>7. /\ O2 \subseteq Requests /\ A2 \subseteq Answers /\ D \subseteq 1 .. n
      /\ n \in 0 .. MaxRequests
      /\ \A r, q \in O2 : r.serial = q.serial => r = q
  BY <1>1, <1>y DEF Told
<1>. HIDE DEF O2, A2
<1>8. Told(n, ans2, O2, A2, D)
  BY <1>2, <1>3, <1>4, <1>5, <1>6, <1>7, <1>z DEF Told
<1>. QED BY <1>8 DEF O2, A2

\* And the fate of each request changes as the abstract specification allows.
LEMMA EventFates ==
    ASSUME NEW n, NEW ans, NEW O, NEW A, NEW D, Told(n, ans, O, A, D),
           NEW done \in SUBSET O, NEW gone \in SUBSET O, done \cap gone = {},
           NEW ans2, AnsweredOnce(ans, ans2, done),
           NEW before, NEW after, \A r \in gone : r.conn \notin after,
           NEW s \in 1 .. MaxRequests
    PROVE  Changed(FateIn(n, ans[s], O, A, D, s),
                   FateIn(n, ans2[s], (O \ done) \ gone, A \cup AnswersTo(done), D, s),
                   before, after)
<1>. DEFINE O2 == (O \ done) \ gone
            A2 == A \cup AnswersTo(done)
            f == FateIn(n, ans[s], O, A, D, s)
            g == FateIn(n, ans2[s], O2, A2, D, s)
<1>0. /\ n \in Nat /\ s \in Nat
      /\ \A r \in O : r.serial \in 1 .. MaxRequests /\ r.conn \in Conns
  BY AutomationAssumption DEF Told, Requests
<1>1. Told(n, ans2, O2, A2, D)
  BY EventToldOf
<1>2. FateRules(f, n, O, A, D, s)
  BY FateCases
<1>3. FateRules(g, n, O2, A2, D, s)
  BY <1>1, FateCases
<1>a. \A r \in done : /\ Answer(r) \in A2
                      /\ Answer(r).serial = r.serial /\ Answer(r).conn = r.conn
  BY DEF Answer, AnswersTo
<1>b. \A a \in A2 : a \in A \/ \E r \in done : a = Answer(r)
  BY DEF AnswersTo
<1>c. O2 \subseteq O /\ A \subseteq A2
  OBVIOUS
<1>d. \A r \in O : r \in O2 \/ r \in done \/ r \in gone
  OBVIOUS
<1>. HIDE DEF O2, A2
<1>4. Changed(f, g, before, after)
  <2>. HIDE DEF f, g
  <2>1. CASE s > n
    BY <1>2, <1>3, <2>1 DEF Changed, FateRules
  <2>2. ASSUME NEW r \in O, r.serial = s PROVE Changed(f, g, before, after)
    <3>1. f = [at |-> "open", conn |-> r.conn]
      BY <1>2, <2>2 DEF FateRules
    <3>2. CASE r \in O2
      BY <1>3, <2>2, <3>1, <3>2 DEF Changed, FateRules
    <3>3. CASE r \in done
      <4>1. g = [at |-> "answered", conn |-> r.conn]
        BY <1>3, <1>a, <2>2, <3>3 DEF FateRules
      <4>. QED BY <3>1, <4>1 DEF Changed, FateRules
    <3>4. CASE r \in gone
      <4>1. \A q \in O : q.serial = s => q = r
        BY <2>2 DEF Told
      <4>2. r \notin O2 /\ r \notin done
        BY <3>4 DEF O2
      <4>3. \A q \in O2 : q.serial # s
        BY <4>1, <4>2, <1>c
      <4>4. \A a \in A : a.serial # s
        <5>. SUFFICES ASSUME NEW a \in A, a.serial = s PROVE FALSE
          OBVIOUS
        <5>1. ans[s] = 1 /\ ans[s] = 0
          BY <2>2 DEF Told
        <5>. QED BY <5>1
      <4>5. \A a \in A2 : a.serial # s
        BY <4>1, <4>2, <4>4, <1>a, <1>b
      <4>6. s <= n /\ s \notin D
        <5>1. s <= n /\ ans[s] = 0
          BY <2>2 DEF Told
        <5>. QED BY <5>1 DEF Told
      <4>7. g = [at |-> "dropped"]
        BY <1>3, <4>3, <4>5, <4>6 DEF FateRules
      <4>8. f \in Fate!Underway /\ f.conn \notin after
        BY <3>1, <3>4, <1>0 DEF Fate!Underway
      <4>. QED BY <4>7, <4>8 DEF Changed, FateRules
    <3>. QED BY <3>2, <3>3, <3>4, <1>d
  <2>3. ASSUME NEW a \in A, a.serial = s PROVE Changed(f, g, before, after)
    BY <1>2, <1>3, <1>c, <2>3 DEF Changed, FateRules
  <2>4. CASE s <= n /\ (\A r \in O : r.serial # s) /\ (\A a \in A : a.serial # s)
    <3>1. (\A r \in O2 : r.serial # s) /\ (\A a \in A2 : a.serial # s)
      BY <2>4, <1>a, <1>b, <1>c
    <3>. QED BY <1>2, <1>3, <2>4, <3>1 DEF Changed, FateRules
  <2>. QED BY <1>0, <2>1, <2>2, <2>3, <2>4
<1>. QED BY <1>4 DEF f, g, O2, A2

\* An answer is dropped with its connection, or written.
LEMMA AnswerGone ==
    ASSUME NEW n, NEW ans, NEW O, NEW A, NEW D, Told(n, ans, O, A, D),
           NEW a \in A, NEW D2, D2 = D \/ D2 = D \cup {a.serial},
           NEW before, NEW after,
           D2 = D => a.conn \notin after, D2 # D => a.conn \in before
    PROVE  /\ Told(n, ans, O, A \ {a}, D2)
           /\ \A s \in 1 .. MaxRequests :
                 Changed(FateIn(n, ans[s], O, A, D, s), FateIn(n, ans[s], O, A \ {a}, D2, s),
                         before, after)
<1>. DEFINE A2 == A \ {a}
<1>1. /\ n \in 0 .. MaxRequests /\ n \in Nat
      /\ ans \in [1 .. MaxRequests -> Nat]
      /\ O \subseteq Requests /\ A2 \subseteq Answers
      /\ \A r \in O : r.serial <= n /\ ans[r.serial] = 0
      /\ \A r, q \in O : r.serial = q.serial => r = q
      /\ \A b, e \in A : b.serial = e.serial => b = e
      /\ \A s \in 1 .. MaxRequests : ans[s] <= 1 /\ (s > n => ans[s] = 0)
  BY AutomationAssumption DEF Told
<1>2. /\ a.serial \in 1 .. n /\ a.serial <= n /\ ans[a.serial] = 1 /\ a.serial \notin D
      /\ a.conn \in Conns
  <2>1. a.serial \in 1 .. MaxRequests /\ a.conn \in Conns
    BY DEF Told, Answers
  <2>2. a.serial <= n /\ ans[a.serial] = 1 /\ a.serial \notin D
    BY DEF Told
  <2>. QED BY <1>1, <2>1, <2>2, AutomationAssumption
<1>3. D2 \subseteq 1 .. n /\ \A s \in D2 : ans[s] = 1
  BY <1>2 DEF Told
<1>4. \A b \in A2 : b.serial <= n /\ ans[b.serial] = 1 /\ b.serial \notin D2
  <2>1. \A b \in A2 : b.serial <= n /\ ans[b.serial] = 1 /\ b.serial \notin D
    BY DEF Told
  <2>2. \A b \in A2 : b.serial # a.serial
    BY <1>1
  <2>. QED BY <2>1, <2>2
<1>5. Told(n, ans, O, A2, D2)
  <2>1. \A b, e \in A2 : b.serial = e.serial => b = e
    BY <1>1
  <2>. HIDE DEF A2
  <2>. QED BY <1>1, <1>3, <1>4, <2>1 DEF Told
<1>6. \A b \in A : b = a \/ b \in A2
  OBVIOUS
<1>7. A2 \subseteq A /\ \A b \in A2 : b # a
  OBVIOUS
<1>. HIDE DEF A2
<1>8. ASSUME NEW s \in 1 .. MaxRequests
      PROVE  Changed(FateIn(n, ans[s], O, A, D, s), FateIn(n, ans[s], O, A2, D2, s),
                     before, after)
  <2>. DEFINE f == FateIn(n, ans[s], O, A, D, s)
              g == FateIn(n, ans[s], O, A2, D2, s)
  <2>1. FateRules(f, n, O, A, D, s)
    BY FateCases
  <2>2. FateRules(g, n, O, A2, D2, s)
    BY <1>5, FateCases
  <2>. SUFFICES Changed(f, g, before, after)
    OBVIOUS
  <2>. HIDE DEF f, g
  <2>3. CASE s > n
    BY <2>1, <2>2, <2>3 DEF FateRules, Changed
  <2>4. CASE s = a.serial
    <3>1. f = [at |-> "answered", conn |-> a.conn]
      BY <2>1, <2>4 DEF FateRules
    <3>2. \A b \in A2 : b.serial # s
      BY <1>1, <1>7, <2>4
    <3>3. \A r \in O : r.serial # s
      <4>. SUFFICES ASSUME NEW r \in O, r.serial = a.serial PROVE FALSE
        BY <2>4
      <4>1. ans[r.serial] = 0
        BY <1>1
      <4>. QED BY <1>2, <4>1
    <3>4. g = IF s \in D2 THEN [at |-> "delivered"] ELSE [at |-> "dropped"]
      BY <1>2, <2>2, <2>4, <3>2, <3>3 DEF FateRules
    <3>5. CASE D2 = D
      <4>1. g = [at |-> "dropped"]
        BY <1>2, <2>4, <3>4, <3>5
      <4>2. f \in Fate!Underway /\ f.conn \notin after
        BY <1>2, <3>1, <3>5 DEF Fate!Underway
      <4>. QED BY <4>1, <4>2 DEF Changed
    <3>6. CASE D2 # D
      <4>1. g = [at |-> "delivered"]
        BY <2>4, <3>4, <3>6
      <4>. QED BY <3>1, <3>6, <4>1 DEF Changed
    <3>. QED BY <3>5, <3>6
  <2>5. ASSUME NEW r \in O, r.serial = s PROVE Changed(f, g, before, after)
    BY <2>1, <2>2, <2>5 DEF FateRules, Changed
  <2>6. ASSUME NEW b \in A2, b.serial = s PROVE Changed(f, g, before, after)
    BY <1>7, <2>1, <2>2, <2>6 DEF FateRules, Changed
  <2>7. CASE /\ s <= n /\ s # a.serial
             /\ (\A r \in O : r.serial # s) /\ (\A b \in A2 : b.serial # s)
    <3>1. (\A b \in A : b.serial # s) /\ (s \in D2 <=> s \in D)
      BY <1>6, <2>7
    <3>. QED BY <2>1, <2>2, <2>7, <3>1 DEF FateRules, Changed
  <2>8. s > n \/ s <= n
    BY <1>1
  <2>. QED BY <2>3, <2>4, <2>5, <2>6, <2>7, <2>8
<1>. QED BY <1>5, <1>8 DEF A2

\* The request r is sent, and no other changes its fate.
SentFates(n, ans, O, A, D, r) ==
    /\ FateIn(n, ans[n + 1], O, A, D, n + 1) = [at |-> "unsent"]
    /\ FateIn(n + 1, ans[n + 1], O \cup {r}, A, D, n + 1) = [at |-> "open", conn |-> r.conn]
    /\ \A s \in 1 .. MaxRequests : s # n + 1 =>
          FateIn(n + 1, ans[s], O \cup {r}, A, D, s) = FateIn(n, ans[s], O, A, D, s)

\* The other requests keep their places.
LEMMA RequestSent ==
    ASSUME NEW n, NEW ans, NEW O, NEW A, NEW D, Told(n, ans, O, A, D),
           NEW r \in Requests, r.serial = n + 1
    PROVE  /\ Told(n + 1, ans, O \cup {r}, A, D)
           /\ SentFates(n, ans, O, A, D, r)
<1>. DEFINE O2 == O \cup {r}
<1>1. /\ n \in Nat /\ n + 1 \in 1 .. MaxRequests /\ n + 1 \in 0 .. MaxRequests
      /\ ans \in [1 .. MaxRequests -> Nat] /\ ans[n + 1] = 0
  BY AutomationAssumption DEF Told, Requests
<1>2. Told(n + 1, ans, O2, A, D)
  <2>1. \A q \in O2 : q.serial <= n + 1 /\ ans[q.serial] = 0
    <3>. SUFFICES ASSUME NEW q \in O2 PROVE q.serial <= n + 1 /\ ans[q.serial] = 0
      OBVIOUS
    <3>1. CASE q \in O
      <4>1. q.serial <= n /\ ans[q.serial] = 0 /\ q.serial \in Nat
        BY <3>1, AutomationAssumption DEF Told, Requests
      <4>. QED BY <1>1, <4>1
    <3>2. CASE q = r
      BY <1>1, <3>2
    <3>. QED BY <3>1, <3>2
  <2>2. \A q \in O : q.serial # n + 1
    <3>. SUFFICES ASSUME NEW q \in O PROVE q.serial # n + 1
      OBVIOUS
    <3>1. q.serial <= n /\ q.serial \in Nat
      BY AutomationAssumption DEF Told, Requests
    <3>. QED BY <1>1, <3>1
  <2>3. \A p, q \in O2 : p.serial = q.serial => p = q
    BY <2>2 DEF Told
  <2>4. \A a \in A : a.serial <= n + 1
    <3>. SUFFICES ASSUME NEW a \in A PROVE a.serial <= n + 1
      OBVIOUS
    <3>1. a.serial <= n /\ a.serial \in Nat
      BY AutomationAssumption DEF Told, Answers
    <3>. QED BY <1>1, <3>1
  <2>5. D \subseteq 1 .. n + 1
    BY <1>1 DEF Told
  <2>6. \A s \in 1 .. MaxRequests : ans[s] <= 1 /\ (s > n + 1 => ans[s] = 0)
    <3>. SUFFICES ASSUME NEW s \in 1 .. MaxRequests, s > n + 1 PROVE ans[s] = 0
      BY DEF Told
    <3>1. s > n
      BY <1>1, AutomationAssumption
    <3>. QED BY <3>1 DEF Told
  <2>7. O2 \subseteq Requests
    BY DEF Told
  <2>. HIDE DEF O2
  <2>8. /\ A \subseteq Answers
        /\ \A a \in A : ans[a.serial] = 1 /\ a.serial \notin D
        /\ \A a, b \in A : a.serial = b.serial => a = b
        /\ \A s \in D : ans[s] = 1
    BY DEF Told
  <2>. QED BY <1>1, <2>1, <2>3, <2>4, <2>5, <2>6, <2>7, <2>8 DEF Told
<1>3. FateIn(n, ans[n + 1], O, A, D, n + 1) = [at |-> "unsent"]
  <2>1. FateRules(FateIn(n, ans[n + 1], O, A, D, n + 1), n, O, A, D, n + 1)
    BY <1>1, FateCases
  <2>. QED BY <1>1, <2>1 DEF FateRules
<1>4. FateIn(n + 1, ans[n + 1], O2, A, D, n + 1) = [at |-> "open", conn |-> r.conn]
  <2>. HIDE DEF O2
  <2>1. FateRules(FateIn(n + 1, ans[n + 1], O2, A, D, n + 1), n + 1, O2, A, D, n + 1)
    BY <1>1, <1>2, FateCases
  <2>2. r \in O2
    BY DEF O2
  <2>. QED BY <2>1, <2>2 DEF FateRules
<1>5. ASSUME NEW s \in 1 .. MaxRequests, s # n + 1
      PROVE  FateIn(n + 1, ans[s], O2, A, D, s) = FateIn(n, ans[s], O, A, D, s)
  <2>1. {q \in O2 : Serial(q, s)} = {q \in O : Serial(q, s)}
    BY <1>5 DEF Serial
  <2>2. s > n + 1 <=> s > n
    BY <1>1, <1>5, AutomationAssumption
  <2>. HIDE DEF O2
  <2>. QED BY <2>1, <2>2 DEF FateIn
<1>. QED BY <1>2, <1>3, <1>4, <1>5 DEF SentFates

----------------------------------------------------------------------------
(* The end of an event. *)

\* The answers to the requests rs, in some order.
AnswerList(out, rs) ==
    /\ out \in Seq(Answers) /\ IsInjective(out)
    /\ Range(out) = AnswersTo(rs)
    /\ \A i, j \in DOMAIN out : out[i].serial = out[j].serial => i = j

\* A handler answers its own request or none, and none of those that wait.
FirstAnswers(settled, first) ==
    \/ settled = {} /\ first = <<>>
    \/ \E r \in settled : settled = {r} /\ first = <<Answer(r)>>

SerialsApart(waiting, settled) ==
    /\ \A r \in waiting, q \in settled : r.serial # q.serial
    /\ \A r, q \in waiting : r.serial = q.serial => r = q

\* The answers made by the handler, to the requests in settled, come before those
\* of the waits that are ready; each request has one.
Replies(done) == [i \in DOMAIN done |-> Answer(done[i])]

\* The answers queued at the end of an event, each to one request.
LEMMA AnswersMade ==
    ASSUME NEW ws \in Seq(Requests), IsInjective(ws), NEW ready \in SUBSET Range(ws),
           NEW settled \in SUBSET Requests, NEW first,
           FirstAnswers(settled, first), SerialsApart(Range(ws), settled),
           NEW done, done = Only(ws, ready),
           NEW out, out = first \o Replies(done)
    PROVE  AnswerList(out, settled \cup ready)
<1>. DEFINE rest == Replies(done)
<1>0. /\ \A r \in Range(ws), q \in settled : r.serial # q.serial
      /\ \A r, q \in Range(ws) : r.serial = q.serial => r = q
  BY DEF SerialsApart
<1>1. /\ done \in Seq(Requests) /\ Range(done) = ready /\ IsInjective(done)
  <2>1. /\ done \in Seq(Requests) /\ Range(done) = Range(ws) \cap ready
        /\ IsInjective(done)
    BY OnlyKeeps
  <2>. QED BY <2>1
<1>2. Len(done) \in Nat /\ DOMAIN done = 1 .. Len(done)
  BY <1>1, LenProperties
<1>3. \A i \in DOMAIN done : done[i] \in ready /\ done[i] \in Requests
  BY <1>1 DEF Range
<1>a. \A r \in Requests : Answer(r) \in Answers /\ Answer(r).serial = r.serial
  BY DEF Answer, Answers, Requests
<1>b. \A i, j \in DOMAIN done : done[i].serial = done[j].serial => i = j
  <2>. TAKE i, j \in DOMAIN done
  <2>1. done[i] \in Range(ws) /\ done[j] \in Range(ws)
    BY <1>3
  <2>2. done[i].serial = done[j].serial => done[i] = done[j]
    BY <1>0, <2>1
  <2>. QED BY <1>1, <2>2 DEF IsInjective
<1>4. /\ rest \in Seq(Answers) /\ Len(rest) = Len(done) /\ DOMAIN rest = DOMAIN done
      /\ \A i \in DOMAIN done : rest[i] = Answer(done[i])
  <2>1. rest \in [1 .. Len(done) -> Answers]
    BY <1>2, <1>3, <1>a DEF Replies
  <2>. HIDE DEF rest
  <2>2. rest \in Seq(Answers)
    BY <1>2, <2>1, SeqDef, SMTT(20)
  <2>3. Len(rest) = Len(done)
    BY <1>2, <2>1, <2>2, LenProperties
  <2>4. DOMAIN rest = DOMAIN done /\ \A i \in DOMAIN done : rest[i] = Answer(done[i])
    BY DEF rest, Replies
  <2>. QED BY <2>2, <2>3, <2>4
<1>. HIDE DEF rest
<1>5. CASE settled = {} /\ first = <<>>
  <2>1. out = rest
    BY <1>4, <1>5, ConcatEmptySeq DEF rest
  <2>2. \A i, j \in DOMAIN out : out[i].serial = out[j].serial => i = j
    <3>1. \A i \in DOMAIN done : out[i].serial = done[i].serial
      BY <1>3, <1>4, <1>a, <2>1
    <3>. QED BY <1>4, <1>b, <2>1, <3>1
  <2>3. Range(out) = {Answer(r) : r \in ready}
    <3>1. \A r \in ready : \E i \in DOMAIN done : done[i] = r
      BY <1>1 DEF Range
    <3>2. \A i \in DOMAIN out : i \in DOMAIN done /\ out[i] = Answer(done[i])
      BY <1>4, <2>1
    <3>3. DOMAIN out = DOMAIN done
      BY <1>4, <2>1
    <3>. QED BY ONLY <1>3, <3>1, <3>2, <3>3 DEF Range
  <2>4. IsInjective(out)
    BY <2>2 DEF IsInjective
  <2>. QED BY <1>4, <1>5, <2>1, <2>2, <2>3, <2>4 DEF AnswersTo, AnswerList
<1>6. ASSUME NEW r \in settled, settled = {r}, first = <<Answer(r)>>
      PROVE  AnswerList(out, settled \cup ready)
  <2>0. out = first \o rest
    BY DEF rest
  <2>a. Answer(r) \in Answers
    BY <1>a
  <2>1. first \in Seq(Answers) /\ Len(first) = 1 /\ first[1] = Answer(r)
    BY <1>6, <2>a
  <2>2. /\ out \in Seq(Answers) /\ Len(out) = 1 + Len(done)
        /\ \A i \in 1 .. 1 + Len(done) : out[i] = IF i <= 1 THEN first[i] ELSE rest[i - 1]
    <3>1. /\ first \o rest \in Seq(Answers)
          /\ Len(first \o rest) = Len(first) + Len(rest)
          /\ \A i \in 1 .. Len(first) + Len(rest) :
                (first \o rest)[i] = IF i <= Len(first) THEN first[i] ELSE rest[i - Len(first)]
      BY ONLY <1>4, <2>1, ConcatProperties
    <3>. QED BY ONLY <1>4, <2>0, <2>1, <3>1
  <2>3. DOMAIN out = 1 .. Len(done) + 1
    BY <1>2, <2>2, LenProperties
  <2>b. \A i \in 1 .. Len(done) : rest[i] = Answer(done[i])
    BY ONLY <1>2, <1>4
  <2>5. \A i \in 2 .. Len(done) + 1 : i - 1 \in DOMAIN done /\ out[i] = Answer(done[i - 1])
    <3>. SUFFICES ASSUME NEW i \in 2 .. Len(done) + 1
                  PROVE  i - 1 \in DOMAIN done /\ out[i] = Answer(done[i - 1])
      OBVIOUS
    <3>1. i - 1 \in 1 .. Len(done) /\ i \in 1 .. 1 + Len(done) /\ ~(i <= 1)
      BY ONLY <1>2, i \in 2 .. Len(done) + 1
    <3>2. out[i] = rest[i - 1]
      BY ONLY <2>2, <3>1
    <3>. QED BY ONLY <1>2, <2>b, <3>1, <3>2
  <2>4. out[1] = Answer(r) /\ \A i \in 1 .. Len(done) : out[i + 1] = Answer(done[i])
    <3>1. out[1] = Answer(r)
      BY ONLY <1>2, <2>1, <2>2
    <3>2. \A i \in 1 .. Len(done) : i + 1 \in 2 .. Len(done) + 1 /\ (i + 1) - 1 = i
      BY ONLY <1>2
    <3>. QED BY ONLY <2>5, <3>1, <3>2
  <2>6. Range(out) = {Answer(q) : q \in settled \cup ready}
    <3>1. \A i \in DOMAIN out : out[i] \in {Answer(q) : q \in settled \cup ready}
      <4>. TAKE i \in DOMAIN out
      <4>1. CASE i = 1
        BY <1>6, <2>4, <4>1
      <4>2. CASE i \in 2 .. Len(done) + 1
        BY <1>3, <2>5, <4>2
      <4>. QED BY <1>2, <2>3, <4>1, <4>2
    <3>2. \A q \in ready : \E i \in DOMAIN out : out[i] = Answer(q)
      <4>. TAKE q \in ready
      <4>1. PICK i \in DOMAIN done : done[i] = q
        BY <1>1 DEF Range
      <4>2. i + 1 \in DOMAIN out
        BY <1>2, <2>3
      <4>. QED BY <1>2, <2>4, <4>1, <4>2
    <3>3. 1 \in DOMAIN out
      BY <1>2, <2>3
    <3>. QED BY ONLY <1>6, <2>4, <3>1, <3>2, <3>3 DEF Range
  <2>7. \A i, j \in DOMAIN out : out[i].serial = out[j].serial => i = j
    <3>1. \A i \in 2 .. Len(done) + 1 : out[i].serial = done[i - 1].serial
      BY <1>3, <1>a, <2>5
    <3>2. out[1].serial = r.serial
      BY <1>a, <2>4
    <3>3. \A i \in 2 .. Len(done) + 1 : out[i].serial # r.serial
      <4>1. \A q \in ready : q.serial # r.serial
        BY <1>0
      <4>. QED BY ONLY <1>3, <2>5, <3>1, <4>1
    <3>5. ASSUME NEW i \in 2 .. Len(done) + 1, NEW j \in 2 .. Len(done) + 1,
                 out[i].serial = out[j].serial
          PROVE  i = j
      <4>1. i - 1 = j - 1
        BY ONLY <2>5, <3>1, <1>b, <3>5
      <4>. QED BY <1>2, <4>1
    <3>6. \A i \in DOMAIN out : i = 1 \/ i \in 2 .. Len(done) + 1
      BY <1>2, <2>3
    <3>. QED BY ONLY <3>2, <3>3, <3>5, <3>6
  <2>8. IsInjective(out)
    BY <2>7 DEF IsInjective
  <2>. QED BY <2>2, <2>6, <2>7, <2>8 DEF AnswersTo, AnswerList
<1>. QED BY <1>5, <1>6 DEF FirstAnswers

\* They are counted once each.
PlusAnswers(ans, out) ==
    [s \in DOMAIN ans |-> ans[s] + Cardinality({i \in DOMAIN out : out[i].serial = s})]

\* And each of those requests is counted as answered once.
LEMMA AnswersCounted ==
    ASSUME NEW out, NEW settled, AnswerList(out, settled),
           NEW ans \in [1 .. MaxRequests -> Nat], NEW ans2,
           ans2 = PlusAnswers(ans, out)
    PROVE  AnsweredOnce(ans, ans2, settled)
<1>. DEFINE At(s) == {i \in DOMAIN out : out[i].serial = s}
            Sum(s) == IF \E r \in settled : r.serial = s THEN 1 ELSE 0
<1>1. ASSUME NEW s \in 1 .. MaxRequests PROVE Cardinality(At(s)) = Sum(s)
  <2>1. CASE \E r \in settled : r.serial = s
    <3>1. PICK r \in settled : r.serial = s
      BY <2>1
    <3>2. Answer(r) \in Range(out) /\ Answer(r).serial = s
      BY <3>1 DEF Answer, AnswersTo, AnswerList
    <3>3. PICK i \in DOMAIN out : out[i].serial = s
      BY <3>2 DEF Range
    <3>4. At(s) = {i}
      BY <3>3 DEF AnswerList
    <3>5. Cardinality({i}) = 1
      BY FS_Singleton
    <3>. QED BY <2>1, <3>4, <3>5
  <2>2. CASE ~\E r \in settled : r.serial = s
    <3>1. At(s) = {}
      <4>. SUFFICES ASSUME NEW i \in DOMAIN out, out[i].serial = s PROVE FALSE
        OBVIOUS
      <4>1. out[i] \in Range(out)
        BY DEF Range
      <4>2. PICK r \in settled : out[i] = Answer(r)
        BY <4>1 DEF AnswersTo, AnswerList
      <4>. QED BY <2>2, <4>2 DEF Answer
    <3>2. Cardinality({}) = 0
      BY FS_EmptySet
    <3>. QED BY <2>2, <3>1, <3>2
  <2>. QED BY <2>1, <2>2
<1>2. ans2 = [s \in 1 .. MaxRequests |-> ans[s] + Cardinality(At(s))]
  BY DEF PlusAnswers
<1>3. \A s \in 1 .. MaxRequests : Sum(s) \in Nat
  OBVIOUS
<1>. HIDE DEF At, Sum
<1>4. \A s \in 1 .. MaxRequests : ans2[s] = ans[s] + Sum(s)
  BY <1>1, <1>2
<1>5. ans2 \in [1 .. MaxRequests -> Nat]
  <2>1. \A s \in 1 .. MaxRequests : ans[s] + Sum(s) \in Nat
    BY <1>3
  <2>2. ans2 = [s \in 1 .. MaxRequests |-> ans[s] + Sum(s)]
    BY <1>1, <1>2
  <2>. QED BY <2>1, <2>2
<1>. QED BY <1>4, <1>5 DEF Sum, AnsweredOnce

----------------------------------------------------------------------------
(* The inductive invariant. *)

Waits == Range(automation_waiters)
Queued == QueuedIn(Range(events))
Completed == CompletedIn(Range(events))

\* Inputs that a worker has, or has reported.
Inputs == workers \cup Completed
OpenRequests == Queued \cup Waits \cup workers \cup Completed

\* Answers that a writer thread holds, and all that are under way.
Held == {responder[t] : t \in Responders} \ {NoJob}
AnswersOut == Range(outbox) \cup Range(response_queue) \cup Held

\* Connections whose Disconnected was handled.
Handled == {c \in Conns : conn[c] = "gone"} \ LeftIn(Range(events))

\* Events come in an order that the threads keep, each once.
EventsInOrder ==
    /\ IsInjective(events)
    /\ RequestsFirst(events)
    /\ \A c \in LeftIn(Range(events)) : conn[c] = "gone"
    /\ procs \cap ExitedIn(Range(events)) = {}
    /\ \A r \in Queued : r.conn \notin Handled

\* A request is in one place, and open waits have a live pane.
RequestsPlaced ==
    /\ Placed(Queued, Waits, workers, Completed)
    /\ IsInjective(automation_waiters)
    /\ \A w \in Waits : NeedsPane(w) => w.pane \in panes

\* An answer is in one place.
AnswersPlaced ==
    /\ IsInjective(outbox) /\ IsInjective(response_queue)
    /\ Range(outbox) \cap Range(response_queue) = {}
    /\ Range(outbox) \cap Held = {} /\ Range(response_queue) \cap Held = {}
    /\ \A t, u \in Responders : responder[t] = responder[u] /\ responder[t] # NoJob => t = u

Quotas ==
    /\ IsFiniteSet(automation_inflight)
    /\ IsFiniteSet(pending_actor_work)

AutoInv ==
    /\ TypeOK /\ Quotas /\ EventsInOrder /\ RequestsPlaced /\ AnswersPlaced
    /\ Accounted(Waits, pending_actor_work, automation_inflight, Inputs, Handled)
    /\ Told(sent, answers, OpenRequests, AnswersOut, delivered)

\* The waits of ws that are ready are answered after the requests in settled; the
\* others go on, on live panes.
EventOver(ws, inflight, finished, live, settled, ready) ==
    /\ automation_waiters' \in Seq(Requests) /\ IsInjective(automation_waiters')
    /\ Len(automation_waiters') <= Len(ws)
    /\ Waits' = Range(ws) \ ready
    /\ \A w \in Waits' : NeedsPane(w) => w.pane \in live
    /\ automation_inflight' = inflight \ (Keys(finished) \cup Keys(ready))
    /\ AnswerList(outbox', settled \cup ready)
    /\ AnsweredOnce(answers, answers', settled \cup ready)

\* What the end of an event does to the lists.
LEMMA EventEnded ==
    ASSUME NEW STATE ws, NEW STATE inflight, NEW STATE finished, NEW STATE first,
           NEW STATE live, NEW STATE settled,
           ws \in Seq(Requests), IsInjective(ws), settled \in SUBSET Requests,
           FirstAnswers(settled, first), SerialsApart(Range(ws), settled),
           answers \in [1 .. MaxRequests -> Nat],
           EndEvent(ws, inflight, finished, first, live)
    PROVE  \E ready \in SUBSET Range(ws) : EventOver(ws, inflight, finished, live, settled, ready)
<1>1. WaiterSet(ws) = Range(ws)
  BY DEF WaiterSet, Range
<1>2. PICK ready \in SUBSET Range(ws) :
          /\ \A w \in Range(ws) : NeedsPane(w) /\ w.pane \notin live => w \in ready
          /\ automation_waiters' = Only(ws, Range(ws) \ ready)
          /\ automation_inflight' = inflight \ (Keys(finished) \cup Keys(ready))
          /\ outbox' = first \o Replies(Only(ws, ready))
          /\ answers' = PlusAnswers(answers, outbox')
  BY <1>1 DEF EndEvent, Replies, Counted, PlusAnswers
<1>3. /\ automation_waiters' \in Seq(Requests) /\ IsInjective(automation_waiters')
      /\ Len(automation_waiters') <= Len(ws)
      /\ Range(automation_waiters') = Range(ws) \cap (Range(ws) \ ready)
  BY <1>2, OnlyKeeps
<1>4. AnswerList(outbox', settled \cup ready)
  <2>. DEFINE done == Only(ws, ready)
  <2>1. outbox' = first \o Replies(done)
    BY <1>2
  <2>2. done = Only(ws, ready)
    OBVIOUS
  <2>. HIDE DEF done
  <2>. QED BY <2>1, <2>2, AnswersMade
<1>6. AnsweredOnce(answers, answers', settled \cup ready)
  BY <1>2, <1>4, AnswersCounted
<1>7. Range(automation_waiters') = Range(ws) \ ready
  BY <1>3
<1>8. \A w \in Range(ws) \ ready : NeedsPane(w) => w.pane \in live
  BY <1>2
<1>9. EventOver(ws, inflight, finished, live, settled, ready)
  BY <1>2, <1>3, <1>4, <1>6, <1>7, <1>8 DEF EventOver, Waits
<1>. QED BY <1>9

----------------------------------------------------------------------------
(* The fates of the requests, read from the sets. *)

FateNow(s) == FateIn(sent, answers[s], OpenRequests, AnswersOut, delivered, s)

\* They are the fates that the refinement mapping reads from the state.
LEMMA FatesRead == fates = [s \in 1 .. MaxRequests |-> FateNow(s)]
<1>. SUFFICES ASSUME NEW s \in 1 .. MaxRequests PROVE FateOf(s) = FateNow(s)
  BY DEF fates
<1>1. OpenAt(s) = {r \in OpenRequests : Serial(r, s)}
  BY DEF OpenAt, OpenRequests, Queued, Waits, Completed, QueuedIn, CompletedIn, WaiterSet, Range
<1>2. AnswerAt(s) = {a \in AnswersOut : Serial(a, s)}
  <2>1. ~Serial(NoJob, s)
    BY DEF Serial, NoJob
  <2>2. AnswerAt(s) = {a \in Range(outbox) \cup Range(response_queue)
                            \cup {responder[t] : t \in Responders} : Serial(a, s)}
    BY DEF AnswerAt, WaiterSet, Range
  <2>. QED BY <2>1, <2>2 DEF AnswersOut, Held
<1>. QED BY <1>1, <1>2 DEF FateOf, FateNow, FateIn

\* A step in which every request keeps its fate or is settled, and no connection
\* comes back, is a step of the abstract specification.
LEMMA WorkStep ==
    ASSUME Told(sent, answers, OpenRequests, AnswersOut, delivered)',
           staying' \subseteq staying,
           \A s \in 1 .. MaxRequests : Changed(FateNow(s), FateNow(s)', staying, staying')
    PROVE  Fate!Next
<1>1. fates = [s \in 1 .. MaxRequests |-> FateNow(s)]
  BY FatesRead
<1>2. fates' = [s \in 1 .. MaxRequests |-> FateNow(s)']
  <2>1. (fates = [s \in 1 .. MaxRequests |-> FateNow(s)])'
    BY FatesRead, PTL
  <2>. QED BY <2>1
<1>3. \A s \in 1 .. MaxRequests : FateNow(s)' \in Fate!Fates
  BY FatesTyped DEF FateNow
<1>4. fates' \in [1 .. MaxRequests -> Fate!Fates]
  BY <1>2, <1>3
<1>5. ASSUME NEW s \in 1 .. MaxRequests
      PROVE  \/ fates'[s] = fates[s]
             \/ Fate!Answered(fates[s], fates'[s])
             \/ Fate!Written(fates[s], fates'[s])
             \/ Fate!Lost(fates[s], fates'[s])
  <2>1. Changed(fates[s], fates'[s], staying, staying')
    BY <1>1, <1>2
  <2>. QED BY <2>1 DEF Changed, Fate!Answered, Fate!Written, Fate!Lost, Fate!Delivered,
                      Fate!Dropped
<1>6. Fate!Work
  BY <1>4, <1>5 DEF Fate!Work
<1>. QED BY <1>6 DEF Fate!Next

----------------------------------------------------------------------------
(* What the handlers of the actor share. *)

\* The types of what the actor works on, and of the answers.
ActorTypes ==
    /\ conn \in [Conns -> {"open", "closed", "cancelled", "gone"}]
    /\ sent \in 0 .. MaxRequests
    /\ events \in Seq(Events)
    /\ panes \subseteq Panes /\ procs \subseteq Panes /\ exit_tombstones \subseteq Panes
    /\ automation_inflight \subseteq Conns \X Ids
    /\ automation_waiters \in Seq(Requests)
    /\ pending_actor_work \subseteq Conns \X Ids
    /\ workers \subseteq Requests
    /\ Len(automation_waiters) <= MaxWaiters
    /\ Cardinality(pending_actor_work) <= MaxPending
    /\ \A c \in Conns : OpenFor(c) <= MaxPerClient

AnswerTypes ==
    /\ outbox \in Seq(Answers)
    /\ response_queue \in Seq(Answers)
    /\ responder \in [Responders -> Answers \cup {NoJob}]
    /\ answers \in [1 .. MaxRequests -> Nat]
    /\ delivered \subseteq 1 .. MaxRequests
    /\ Len(response_queue) <= ResponseCap

\* Together they are TypeOK.
LEMMA TypesSplit == TypeOK <=> ActorTypes /\ AnswerTypes
BY DEF TypeOK, ActorTypes, AnswerTypes

\* A client keeps to its quota when identifiers are released, and when one is
\* taken that it had room for.
ClientQuota(I) == \A c \in Conns : Cardinality({k \in I : k[1] = c}) <= MaxPerClient

\* Fewer identifiers keep the quota.
LEMMA QuotaKept ==
    ASSUME NEW I, IsFiniteSet(I), ClientQuota(I), NEW J \in SUBSET I
    PROVE  IsFiniteSet(J) /\ ClientQuota(J)
<1>1. IsFiniteSet(J)
  BY FS_Subset
<1>2. ASSUME NEW c \in Conns PROVE Cardinality({k \in J : k[1] = c}) <= MaxPerClient
  <2>. DEFINE A == {k \in I : k[1] = c}
              B == {k \in J : k[1] = c}
  <2>1. IsFiniteSet(A) /\ B \subseteq A
    BY FS_Subset
  <2>2. Cardinality(A) <= MaxPerClient
    BY DEF ClientQuota
  <2>. HIDE DEF A, B
  <2>3. /\ IsFiniteSet(B) /\ Cardinality(B) <= Cardinality(A)
        /\ Cardinality(A) \in Nat /\ Cardinality(B) \in Nat
    BY <2>1, FS_Subset, FS_CardinalityType
  <2>4. Cardinality(B) <= MaxPerClient
    BY <2>2, <2>3, AutomationAssumption
  <2>. QED BY <2>4 DEF B
<1>. QED BY <1>1, <1>2 DEF ClientQuota

\* So does one more of a client with room for it.
LEMMA QuotaTaken ==
    ASSUME NEW I, IsFiniteSet(I), ClientQuota(I), NEW k,
           Cardinality({j \in I : j[1] = k[1]}) < MaxPerClient
    PROVE  IsFiniteSet(I \cup {k}) /\ ClientQuota(I \cup {k})
<1>1. IsFiniteSet(I \cup {k})
  BY FS_AddElement
<1>2. ASSUME NEW c \in Conns PROVE Cardinality({j \in I \cup {k} : j[1] = c}) <= MaxPerClient
  <2>. DEFINE A == {j \in I : j[1] = c}
              B == {j \in I \cup {k} : j[1] = c}
  <2>1. IsFiniteSet(A)
    BY FS_Subset
  <2>2. Cardinality(A) <= MaxPerClient
    BY DEF ClientQuota
  <2>3. CASE k[1] = c
    <3>1. Cardinality(A) < MaxPerClient /\ B = A \cup {k}
      BY <2>3
    <3>. HIDE DEF A, B
    <3>2. /\ Cardinality(A) \in Nat
          /\ \/ Cardinality(A \cup {k}) = Cardinality(A)
             \/ Cardinality(A \cup {k}) = Cardinality(A) + 1
      BY <2>1, FS_AddElement, FS_CardinalityType
    <3>3. Cardinality(B) <= MaxPerClient
      BY <3>1, <3>2, AutomationAssumption
    <3>. QED BY <3>3 DEF B
  <2>4. CASE k[1] # c
    <3>1. B = A
      BY <2>4
    <3>. QED BY <2>2, <3>1
  <2>. QED BY <2>3, <2>4
<1>. QED BY <1>1, <1>2 DEF ClientQuota

\* The next event leaves the queue.
LEMMA EventTaken ==
    ASSUME events \in Seq(Events), EventsInOrder, events # <<>>, events' = Tail(events),
           UNCHANGED <<conn, procs>>, NEW h, h = Head(events)
    PROVE  /\ h \in Range(events) /\ h \in Events
           /\ events' \in Seq(Events)
           /\ Queued' = IF h.type = "request" THEN Queued \ {h} ELSE Queued
           /\ Completed' = IF h.type = "input_complete" THEN Completed \ {h.request}
                           ELSE Completed
           /\ Handled' = IF h.type = "disconnected" THEN Handled \cup {h.conn} ELSE Handled
           /\ EventsInOrder'
<1>. DEFINE E == Range(events)
            E2 == Range(events')
<1>1. /\ h \in E /\ h \in Events /\ events' \in Seq(Events)
      /\ E2 = E \ {h} /\ IsInjective(events')
  BY TailIsRest DEF EventsInOrder
<1>2. E \subseteq Events
  BY RangeOfSeq
<1>. HIDE DEF E, E2
<1>3. /\ QueuedIn(E2) = IF h.type = "request" THEN QueuedIn(E) \ {h} ELSE QueuedIn(E)
      /\ CompletedIn(E2) = IF h.type = "input_complete"
                           THEN CompletedIn(E) \ {h.request} ELSE CompletedIn(E)
      /\ LeftIn(E2) = IF h.type = "disconnected" THEN LeftIn(E) \ {h.conn} ELSE LeftIn(E)
      /\ ExitedIn(E2) = IF h.type = "pty_exit" THEN ExitedIn(E) \ {h.pane} ELSE ExitedIn(E)
  BY <1>1, <1>2, EventHandled
<1>4. RequestsFirst(events')
      /\ (h.type = "disconnected" => \A r \in QueuedIn(E2) : r.conn # h.conn)
  BY RequestsFirstTail DEF EventsInOrder, E2
<1>5. h.type = "disconnected" => h.conn \in Conns /\ h.conn \in LeftIn(E)
  BY <1>1, EventTypes DEF LeftIn
<1>6. \A c \in LeftIn(E) : conn[c] = "gone"
  BY DEF EventsInOrder, E
<1>7. Handled' = IF h.type = "disconnected" THEN Handled \cup {h.conn} ELSE Handled
  <2>1. Handled = {c \in Conns : conn[c] = "gone"} \ LeftIn(E)
    BY DEF Handled, E
  <2>2. Handled' = {c \in Conns : conn[c] = "gone"} \ LeftIn(E2)
    BY DEF Handled, E2
  <2>. QED BY <1>3, <1>5, <1>6, <2>1, <2>2
<1>8. Queued' = QueuedIn(E2) /\ Completed' = CompletedIn(E2)
      /\ Queued = QueuedIn(E) /\ Completed = CompletedIn(E)
  BY DEF Queued, Completed, E, E2
<1>9. EventsInOrder'
  <2>1. \A c \in LeftIn(E2) : conn'[c] = "gone"
    BY <1>3, <1>6
  <2>2. procs' \cap ExitedIn(E2) = {}
    BY <1>3 DEF EventsInOrder, E
  <2>3. \A r \in Queued' : r.conn \notin Handled'
    BY <1>3, <1>4, <1>7, <1>8 DEF EventsInOrder
  <2>. QED BY <1>1, <1>4, <2>1, <2>2, <2>3 DEF EventsInOrder, E2
<1>. QED BY <1>1, <1>3, <1>7, <1>8, <1>9 DEF E

\* The end of an event, seen by its clients: the requests in settled and ready are
\* answered, those in gone are dropped with their connections.
LEMMA EventStep ==
    ASSUME AutoInv, outbox = <<>>, NEW settled, NEW ready, NEW gone,
           settled \cup ready \subseteq OpenRequests, gone \subseteq OpenRequests,
           (settled \cup ready) \cap gone = {},
           \A r \in gone : conn[r.conn] # "open",
           OpenRequests' = (OpenRequests \ (settled \cup ready)) \ gone,
           AnswerList(outbox', settled \cup ready),
           AnsweredOnce(answers, answers', settled \cup ready),
           UNCHANGED <<conn, sent, response_queue, responder, delivered>>,
           ActorTypes', EventsInOrder', RequestsPlaced', Quotas',
           Accounted(Waits, pending_actor_work, automation_inflight, Inputs, Handled)'
    PROVE  AutoInv' /\ Fate!Next
<1>. DEFINE done == settled \cup ready
            other == Range(response_queue) \cup Held
            told == Told(sent, answers, OpenRequests, AnswersOut, delivered)
<1>1. /\ done \subseteq OpenRequests /\ done \cap gone = {}
      /\ OpenRequests' = (OpenRequests \ done) \ gone
      /\ AnswerList(outbox', done) /\ AnsweredOnce(answers, answers', done)
  OBVIOUS
<1>. HIDE DEF done
<1>2. /\ AnswersOut = other /\ AnswersOut' = Range(outbox') \cup other
      /\ Range(response_queue)' = Range(response_queue) /\ Held' = Held
  <2>1. Range(outbox) = {}
    BY DEF Range
  <2>. QED BY <2>1 DEF AnswersOut, Held
<1>3. AnswersOut' = AnswersOut \cup AnswersTo(done)
  BY <1>1, <1>2 DEF AnswerList
<1>4. told
  BY DEF AutoInv
<1>5. Told(sent, answers', OpenRequests', AnswersOut', delivered)
  <2>1. Told(sent, answers', (OpenRequests \ done) \ gone, AnswersOut \cup AnswersTo(done),
             delivered)
    BY <1>1, <1>4, EventToldOf
  <2>. QED BY <1>1, <1>3, <2>1
<1>6. told'
  BY <1>5
<1>7. \A s \in 1 .. MaxRequests : Changed(FateNow(s), FateNow(s)', staying, staying')
  <2>. TAKE s \in 1 .. MaxRequests
  <2>1. \A r \in gone : r.conn \notin staying'
    BY DEF staying
  <2>2. Changed(FateIn(sent, answers[s], OpenRequests, AnswersOut, delivered, s),
                FateIn(sent, answers'[s], (OpenRequests \ done) \ gone,
                       AnswersOut \cup AnswersTo(done), delivered, s),
                staying, staying')
    BY <1>1, <1>4, <2>1, EventFates
  <2>. QED BY <1>1, <1>3, <2>2 DEF FateNow
<1>8. staying' \subseteq staying
  BY DEF staying
<1>9. Fate!Next
  BY <1>6, <1>7, <1>8, WorkStep
<1>10. AnswersPlaced'
  <2>1. \A a \in AnswersTo(done) : a \notin other
    <3>. SUFFICES ASSUME NEW r \in done, Answer(r) \in other PROVE FALSE
      BY DEF AnswersTo
    <3>1. Answer(r).serial = r.serial
      BY DEF Answer
    <3>2. answers[r.serial] = 0 /\ answers[r.serial] = 1
      BY <1>1, <1>2, <1>4, <3>1 DEF Told
    <3>. QED BY <3>2
  <2>2. Range(outbox') \cap Range(response_queue') = {} /\ Range(outbox') \cap Held' = {}
    BY <1>1, <1>2, <2>1 DEF AnswerList
  <2>3. /\ IsInjective(response_queue') /\ Range(response_queue') \cap Held' = {}
        /\ \A t, u \in Responders : responder'[t] = responder'[u] /\ responder'[t] # NoJob => t = u
    BY <1>2 DEF AutoInv, AnswersPlaced
  <2>. QED BY <1>1, <2>2, <2>3 DEF AnswersPlaced, AnswerList
<1>11. AnswerTypes'
  <2>1. AnswerTypes
    BY TypesSplit DEF AutoInv
  <2>2. outbox' \in Seq(Answers) /\ answers' \in [1 .. MaxRequests -> Nat]
    BY <1>1 DEF AnswerList, AnsweredOnce
  <2>. QED BY <2>1, <2>2 DEF AnswerTypes
<1>12. TypeOK'
  BY <1>11, TypesSplit DEF TypeOK, ActorTypes, AnswerTypes
<1>. QED BY <1>6, <1>9, <1>10, <1>12 DEF AutoInv

\* The same for requests that are open.
LEMMA WaitsEnded ==
    ASSUME AutoInv, NEW STATE ws, NEW STATE inflight, NEW STATE finished, NEW STATE first,
           NEW STATE live, NEW STATE settled,
           ws \in Seq(Requests), IsInjective(ws), settled \in SUBSET OpenRequests,
           Range(ws) \subseteq OpenRequests, FirstAnswers(settled, first),
           Range(ws) \cap settled = {},
           EndEvent(ws, inflight, finished, first, live)
    PROVE  \E ready \in SUBSET Range(ws) :
             EventOver(ws, inflight, finished, live, settled, ready)
<1>1. /\ OpenRequests \subseteq Requests
      /\ \A r, q \in OpenRequests : r.serial = q.serial => r = q
  BY DEF AutoInv, Told
<1>2. SerialsApart(Range(ws), settled)
  BY <1>1 DEF SerialsApart
<1>3. answers \in [1 .. MaxRequests -> Nat] /\ settled \in SUBSET Requests
  BY <1>1 DEF AutoInv, TypeOK
<1>. QED BY <1>2, <1>3, EventEnded

\* Identifiers are released.
LEMMA InflightLess ==
    ASSUME AutoInv, automation_inflight' \subseteq automation_inflight
    PROVE  /\ IsFiniteSet(automation_inflight')
           /\ automation_inflight' \subseteq Conns \X Ids
           /\ \A c \in Conns : OpenFor(c)' <= MaxPerClient
<1>1. IsFiniteSet(automation_inflight) /\ ClientQuota(automation_inflight)
  BY DEF AutoInv, TypeOK, Quotas, ClientQuota, OpenFor
<1>2. IsFiniteSet(automation_inflight') /\ ClientQuota(automation_inflight')
  BY <1>1, QuotaKept
<1>3. automation_inflight' \subseteq Conns \X Ids
  BY DEF AutoInv, TypeOK
<1>. QED BY <1>2, <1>3 DEF ClientQuota, OpenFor

\* One more is taken by a client that has room for it.
LEMMA InflightTaken ==
    ASSUME AutoInv, NEW k \in Conns \X Ids, OpenFor(k[1]) < MaxPerClient,
           automation_inflight' \subseteq automation_inflight \cup {k}
    PROVE  /\ IsFiniteSet(automation_inflight')
           /\ automation_inflight' \subseteq Conns \X Ids
           /\ \A c \in Conns : OpenFor(c)' <= MaxPerClient
<1>. DEFINE taken == automation_inflight \cup {k}
<1>1. IsFiniteSet(automation_inflight) /\ ClientQuota(automation_inflight)
  BY DEF AutoInv, TypeOK, Quotas, ClientQuota, OpenFor
<1>2. Cardinality({j \in automation_inflight : j[1] = k[1]}) < MaxPerClient
  BY DEF OpenFor
<1>3. IsFiniteSet(taken) /\ ClientQuota(taken)
  BY <1>1, <1>2, QuotaTaken
<1>4. IsFiniteSet(automation_inflight') /\ ClientQuota(automation_inflight')
  BY <1>3, QuotaKept
<1>5. automation_inflight' \subseteq Conns \X Ids
  BY DEF AutoInv, TypeOK
<1>. QED BY <1>4, <1>5 DEF ClientQuota, OpenFor

\* Pending inputs are reported or dropped.
LEMMA PendingLess ==
    ASSUME AutoInv, pending_actor_work' \subseteq pending_actor_work
    PROVE  /\ IsFiniteSet(pending_actor_work')
           /\ Cardinality(pending_actor_work') <= MaxPending
           /\ pending_actor_work' \subseteq Conns \X Ids
<1>1. /\ IsFiniteSet(pending_actor_work) /\ pending_actor_work \subseteq Conns \X Ids
      /\ Cardinality(pending_actor_work) <= MaxPending
  BY DEF AutoInv, Quotas, TypeOK
<1>2. /\ IsFiniteSet(pending_actor_work')
      /\ Cardinality(pending_actor_work') <= Cardinality(pending_actor_work)
      /\ Cardinality(pending_actor_work) \in Nat /\ Cardinality(pending_actor_work') \in Nat
  BY <1>1, FS_Subset, FS_CardinalityType
<1>. QED BY <1>1, <1>2, AutomationAssumption

\* The loop wakes up, or an event changes nothing but the screen or the media.
LEMMA TickStep == AutoInv /\ Tick => AutoInv' /\ Fate!Next
<1>. SUFFICES ASSUME AutoInv, Tick PROVE AutoInv' /\ Fate!Next
  OBVIOUS
<1>0. /\ outbox = <<>>
      /\ EndEvent(automation_waiters, automation_inflight, {}, <<>>, panes)
      /\ UNCHANGED <<conn, sent, events, panes, procs, exit_tombstones, pending_actor_work,
                     workers, response_queue, responder, delivered>>
  BY DEF Tick
<1>1. /\ automation_waiters \in Seq(Requests) /\ IsInjective(automation_waiters)
      /\ Waits = Range(automation_waiters) /\ Waits \subseteq OpenRequests
  BY DEF AutoInv, TypeOK, RequestsPlaced, Waits, OpenRequests
<1>2. PICK ready \in SUBSET Range(automation_waiters) :
          EventOver(automation_waiters, automation_inflight, {}, panes, {}, ready)
  <2>1. FirstAnswers({}, <<>>)
    BY DEF FirstAnswers
  <2>. QED BY <1>0, <1>1, <2>1, WaitsEnded
<1>3. automation_inflight' = automation_inflight \ Keys(ready)
  BY <1>2 DEF Keys, EventOver
<1>4. /\ Queued' = Queued /\ Completed' = Completed /\ Handled' = Handled
      /\ Inputs' = Inputs
  BY <1>0 DEF Queued, Completed, Handled, Inputs
<1>5. /\ OpenRequests' = (OpenRequests \ ({} \cup ready)) \ {}
      /\ {} \cup ready \subseteq OpenRequests /\ ({} \cup ready) \cap {} = {}
  <2>1. ready \cap (Queued \cup workers \cup Completed) = {}
    BY <1>1 DEF AutoInv, RequestsPlaced, Placed
  <2>2. OpenRequests' = Queued \cup (Waits \ ready) \cup workers \cup Completed
    BY <1>0, <1>1, <1>2, <1>4 DEF OpenRequests, EventOver
  <2>. QED BY <1>1, <2>1, <2>2 DEF OpenRequests
<1>6. RequestsPlaced'
  <2>1. Placed(Queued, Waits \ ready, workers, Completed)
    BY PlacedLess DEF AutoInv, RequestsPlaced
  <2>2. /\ Waits' = Waits \ ready /\ IsInjective(automation_waiters')
        /\ \A w \in Waits' : NeedsPane(w) => w.pane \in panes'
    BY <1>0, <1>1, <1>2 DEF EventOver
  <2>. QED BY <1>0, <1>4, <2>1, <2>2 DEF RequestsPlaced
<1>7. Accounted(Waits, pending_actor_work, automation_inflight, Inputs, Handled)'
  <2>1. Accounted(Waits, pending_actor_work, automation_inflight, Inputs, Handled)
    BY DEF AutoInv
  <2>2. Accounted(Waits \ ready, pending_actor_work, automation_inflight \ Keys(ready),
                  Inputs, Handled)
    BY <1>1, <2>1, WaitsAnswered
  <2>. QED BY <1>0, <1>1, <1>2, <1>3, <1>4, <2>2 DEF EventOver
<1>8. Quotas' /\ ActorTypes'
  <2>1. /\ IsFiniteSet(automation_inflight')
        /\ automation_inflight' \subseteq Conns \X Ids
        /\ \A c \in Conns : OpenFor(c)' <= MaxPerClient
    BY <1>3, InflightLess
  <2>2. /\ automation_waiters' \in Seq(Requests)
        /\ Len(automation_waiters') <= MaxWaiters
    BY <1>1, <1>2, LenProperties, AutomationAssumption DEF AutoInv, TypeOK, EventOver
  <2>. QED BY <1>0, <2>1, <2>2 DEF AutoInv, TypeOK, ActorTypes, Quotas
<1>9. EventsInOrder'
  BY <1>0, <1>4 DEF AutoInv, EventsInOrder
<1>10. /\ AnswerList(outbox', {} \cup ready)
       /\ AnsweredOnce(answers, answers', {} \cup ready)
  BY <1>2 DEF EventOver
<1>. QED BY <1>0, <1>5, <1>6, <1>7, <1>8, <1>9, <1>10, EventStep

\* A request that its handler answers, and a pane's exit: the rest of the event
\* releases what it took and answers the waits that are ready.
LEMMA ReplyStep ==
    ASSUME AutoInv, outbox = <<>>, events # <<>>, events' = Tail(events),
           NEW h, h = Head(events),
           NEW STATE settled, NEW STATE inflight, NEW STATE finished, NEW STATE first,
           NEW STATE live,
           \/ h.type = "request" /\ settled = {h} /\ first = <<Answer(h)>>
           \/ h.type = "pty_exit" /\ settled = {} /\ first = <<>>,
           inflight \ Keys(finished) = automation_inflight,
           EndEvent(automation_waiters, inflight, finished, first, live),
           panes' = live, panes' \subseteq Panes, exit_tombstones' \subseteq Panes,
           UNCHANGED <<conn, sent, procs, pending_actor_work, workers, response_queue,
                       responder, delivered>>
    PROVE  AutoInv' /\ Fate!Next
<1>0. events \in Seq(Events) /\ EventsInOrder
  BY DEF AutoInv, TypeOK
<1>1. /\ h \in Range(events) /\ h \in Events /\ events' \in Seq(Events)
      /\ Queued' = Queued \ settled /\ Completed' = Completed /\ Handled' = Handled
      /\ EventsInOrder'
  <2>1. /\ h \in Range(events) /\ h \in Events
        /\ events' \in Seq(Events)
        /\ Queued' = IF h.type = "request" THEN Queued \ {h} ELSE Queued
        /\ Completed' = IF h.type = "input_complete" THEN Completed \ {h.request} ELSE Completed
        /\ Handled' = IF h.type = "disconnected" THEN Handled \cup {h.conn} ELSE Handled
        /\ EventsInOrder'
    BY <1>0, EventTaken
  <2>. QED BY <2>1
<1>2. settled \subseteq Queued
  BY <1>1 DEF Queued, QueuedIn
<1>3. /\ automation_waiters \in Seq(Requests) /\ IsInjective(automation_waiters)
      /\ Waits = Range(automation_waiters) /\ Waits \subseteq OpenRequests
      /\ Queued \subseteq OpenRequests /\ Waits \cap Queued = {}
  BY DEF AutoInv, TypeOK, RequestsPlaced, Placed, Waits, OpenRequests
<1>4. PICK ready \in SUBSET Range(automation_waiters) :
          EventOver(automation_waiters, inflight, finished, live, settled, ready)
  <2>1. FirstAnswers(settled, first)
    BY DEF FirstAnswers
  <2>2. settled \in SUBSET OpenRequests /\ Range(automation_waiters) \cap settled = {}
        /\ Range(automation_waiters) \subseteq OpenRequests
    BY <1>2, <1>3
  <2>. QED BY <1>3, <2>1, <2>2, WaitsEnded
<1>5. automation_inflight' = automation_inflight \ Keys(ready)
  BY <1>4 DEF EventOver
<1>6. Inputs' = Inputs
  BY <1>1 DEF Inputs
<1>. DEFINE done == settled \cup ready
<1>7. /\ OpenRequests' = (OpenRequests \ done) \ {}
      /\ done \subseteq OpenRequests /\ done \cap {} = {}
  <2>1. /\ ready \cap (Queued \cup workers \cup Completed) = {}
        /\ settled \cap (Waits \cup workers \cup Completed) = {}
    BY <1>2, <1>3 DEF AutoInv, RequestsPlaced, Placed
  <2>2. OpenRequests' = (Queued \ settled) \cup (Waits \ ready) \cup workers \cup Completed
    BY <1>1, <1>3, <1>4 DEF OpenRequests, EventOver
  <2>. QED BY <1>2, <1>3, <2>1, <2>2 DEF OpenRequests
<1>8. RequestsPlaced'
  <2>1. Placed(Queued, Waits, workers, Completed)
    BY DEF AutoInv, RequestsPlaced
  <2>2. Placed(Queued \ settled, Waits, workers, Completed)
    <3>1. CASE settled = {}
      BY <2>1, <3>1
    <3>2. CASE settled = {h}
      BY <2>1, <3>2 DEF Placed
    <3>. QED BY <3>1, <3>2
  <2>3. Placed(Queued \ settled, Waits \ ready, workers, Completed)
    BY <2>2, PlacedLess
  <2>4. /\ Waits' = Waits \ ready /\ IsInjective(automation_waiters')
        /\ \A w \in Waits' : NeedsPane(w) => w.pane \in panes'
    BY <1>3, <1>4 DEF EventOver
  <2>. QED BY <1>1, <2>3, <2>4 DEF RequestsPlaced
<1>9. Accounted(Waits, pending_actor_work, automation_inflight, Inputs, Handled)'
  <2>1. Accounted(Waits, pending_actor_work, automation_inflight, Inputs, Handled)
    BY DEF AutoInv
  <2>2. Accounted(Waits \ ready, pending_actor_work, automation_inflight \ Keys(ready),
                  Inputs, Handled)
    BY <1>3, <2>1, WaitsAnswered
  <2>. QED BY <1>1, <1>3, <1>4, <1>5, <1>6, <2>2 DEF EventOver
<1>10. Quotas' /\ ActorTypes'
  <2>1. /\ IsFiniteSet(automation_inflight')
        /\ automation_inflight' \subseteq Conns \X Ids
        /\ \A c \in Conns : OpenFor(c)' <= MaxPerClient
    BY <1>5, InflightLess
  <2>2. /\ automation_waiters' \in Seq(Requests)
        /\ Len(automation_waiters') <= MaxWaiters
    BY <1>3, <1>4, LenProperties, AutomationAssumption DEF AutoInv, TypeOK, EventOver
  <2>. QED BY <1>1, <2>1, <2>2 DEF AutoInv, TypeOK, ActorTypes, Quotas
<1>11. AnswerList(outbox', done) /\ AnsweredOnce(answers, answers', done)
  BY <1>4 DEF EventOver
<1>. HIDE DEF done
<1>. QED BY <1>1, <1>7, <1>8, <1>9, <1>10, <1>11, EventStep DEF done

\* An input gets its worker.
LEMMA InputStep ==
    ASSUME AutoInv, outbox = <<>>, events # <<>>, events' = Tail(events),
           NEW h, h = Head(events), h.type = "request",
           Key(h) \notin automation_inflight, OpenFor(h.conn) < MaxPerClient,
           InputRequest(h),
           UNCHANGED <<conn, sent, procs, response_queue, responder, delivered>>
    PROVE  AutoInv' /\ Fate!Next
<1>. DEFINE k == Key(h)
            taken == automation_inflight \cup {k}
<1>0. /\ events \in Seq(Events) /\ EventsInOrder
      /\ Cardinality(pending_actor_work) < MaxPending
      /\ pending_actor_work' = pending_actor_work \cup {k}
      /\ workers' = workers \cup {h}
      /\ EndEvent(automation_waiters, taken, {}, <<>>, panes)
      /\ UNCHANGED <<panes, exit_tombstones>>
  BY DEF AutoInv, TypeOK, InputRequest
<1>1. /\ h \in Range(events) /\ h \in Events /\ events' \in Seq(Events)
      /\ Queued' = Queued \ {h} /\ Completed' = Completed /\ Handled' = Handled
      /\ EventsInOrder'
  <2>1. /\ h \in Range(events) /\ h \in Events
        /\ events' \in Seq(Events)
        /\ Queued' = IF h.type = "request" THEN Queued \ {h} ELSE Queued
        /\ Completed' = IF h.type = "input_complete" THEN Completed \ {h.request} ELSE Completed
        /\ Handled' = IF h.type = "disconnected" THEN Handled \cup {h.conn} ELSE Handled
        /\ EventsInOrder'
    BY <1>0, EventTaken
  <2>. QED BY <2>1
<1>2. h \in Queued /\ h \in Requests /\ h.conn \notin Handled /\ k \in Conns \X Ids
      /\ k[1] = h.conn
  <2>1. h \in Queued /\ h \in Requests
    BY <1>1, EventTypes DEF Queued, QueuedIn
  <2>. QED BY <1>0, <2>1 DEF EventsInOrder, Requests, Key
<1>3. /\ automation_waiters \in Seq(Requests) /\ IsInjective(automation_waiters)
      /\ Waits = Range(automation_waiters) /\ Waits \subseteq OpenRequests
      /\ Placed(Queued, Waits, workers, Completed)
  BY DEF AutoInv, TypeOK, RequestsPlaced, Waits, OpenRequests
<1>4. PICK ready \in SUBSET Range(automation_waiters) :
          EventOver(automation_waiters, taken, {}, panes, {}, ready)
  <2>1. FirstAnswers({}, <<>>)
    BY DEF FirstAnswers
  <2>. QED BY <1>0, <1>3, <2>1, WaitsEnded
<1>5. automation_inflight' = taken \ Keys(ready)
  BY <1>4 DEF EventOver, Keys
<1>6. Inputs' = Inputs \cup {h}
  BY <1>0, <1>1 DEF Inputs
<1>. DEFINE done == {} \cup ready
<1>7. /\ OpenRequests' = (OpenRequests \ done) \ {}
      /\ done \subseteq OpenRequests /\ done \cap {} = {}
  <2>1. ready \cap (Queued \cup workers \cup Completed) = {}
    BY <1>3 DEF Placed
  <2>2. OpenRequests' = (Queued \ {h}) \cup (Waits \ ready) \cup (workers \cup {h}) \cup Completed
    BY <1>0, <1>1, <1>3, <1>4 DEF OpenRequests, EventOver
  <2>. QED BY <1>2, <1>3, <2>1, <2>2 DEF OpenRequests
<1>8. RequestsPlaced'
  <2>1. Placed(Queued \ {h}, Waits, workers \cup {h}, Completed)
    BY <1>2, <1>3, PlacedMoves
  <2>2. Placed(Queued \ {h}, Waits \ ready, workers \cup {h}, Completed)
    BY <2>1, PlacedLess
  <2>3. /\ Waits' = Waits \ ready /\ IsInjective(automation_waiters')
        /\ \A w \in Waits' : NeedsPane(w) => w.pane \in panes'
    BY <1>0, <1>3, <1>4 DEF EventOver
  <2>. QED BY <1>0, <1>1, <2>2, <2>3 DEF RequestsPlaced
<1>9. Accounted(Waits, pending_actor_work, automation_inflight, Inputs, Handled)'
  <2>1. Accounted(Waits, pending_actor_work, automation_inflight, Inputs, Handled)
    BY DEF AutoInv
  <2>2. Accounted(Waits, pending_actor_work \cup {k}, taken, Inputs \cup {h}, Handled)
    BY <1>2, <2>1, InputStarted
  <2>3. Accounted(Waits \ ready, pending_actor_work \cup {k}, taken \ Keys(ready),
                  Inputs \cup {h}, Handled)
    BY <1>3, <2>2, WaitsAnswered
  <2>. QED BY <1>0, <1>1, <1>3, <1>4, <1>5, <1>6, <2>3 DEF EventOver
<1>10. Quotas' /\ ActorTypes'
  <2>1. /\ IsFiniteSet(automation_inflight')
        /\ automation_inflight' \subseteq Conns \X Ids
        /\ \A c \in Conns : OpenFor(c)' <= MaxPerClient
    BY <1>2, <1>5, InflightTaken
  <2>2. /\ automation_waiters' \in Seq(Requests)
        /\ Len(automation_waiters') <= MaxWaiters
    BY <1>3, <1>4, LenProperties, AutomationAssumption DEF AutoInv, TypeOK, EventOver
  <2>3. /\ IsFiniteSet(pending_actor_work') /\ Cardinality(pending_actor_work') <= MaxPending
        /\ pending_actor_work' \subseteq Conns \X Ids
    <3>1. IsFiniteSet(pending_actor_work) /\ pending_actor_work \subseteq Conns \X Ids
      BY DEF AutoInv, Quotas, TypeOK
    <3>2. /\ IsFiniteSet(pending_actor_work \cup {k})
          /\ Cardinality(pending_actor_work) \in Nat
          /\ \/ Cardinality(pending_actor_work \cup {k}) = Cardinality(pending_actor_work)
             \/ Cardinality(pending_actor_work \cup {k}) = Cardinality(pending_actor_work) + 1
      BY <3>1, FS_AddElement, FS_CardinalityType
    <3>3. Cardinality(pending_actor_work \cup {k}) <= MaxPending
      BY <1>0, <3>2, AutomationAssumption
    <3>. QED BY <1>0, <1>2, <3>1, <3>2, <3>3
  <2>4. workers' \subseteq Requests
    BY <1>0, <1>2 DEF AutoInv, TypeOK
  <2>. QED BY <1>0, <1>1, <2>1, <2>2, <2>3, <2>4 DEF AutoInv, TypeOK, ActorTypes, Quotas
<1>11. AnswerList(outbox', done) /\ AnsweredOnce(answers, answers', done)
  BY <1>4 DEF EventOver
<1>. HIDE DEF done
<1>12. \A r \in {} : conn[r.conn] # "open"
  OBVIOUS
<1>. QED BY <1>1, <1>7, <1>8, <1>9, <1>10, <1>11, <1>12, EventStep DEF done

\* A request waits.
LEMMA WaitStep ==
    ASSUME AutoInv, outbox = <<>>, events # <<>>, events' = Tail(events),
           NEW h, h = Head(events), h.type = "request",
           Key(h) \notin automation_inflight, OpenFor(h.conn) < MaxPerClient,
           WaitRequest(h),
           UNCHANGED <<conn, sent, procs, response_queue, responder, delivered>>
    PROVE  AutoInv' /\ Fate!Next
<1>. DEFINE k == Key(h)
            taken == automation_inflight \cup {k}
            ws == Append(automation_waiters, h)
<1>0. /\ events \in Seq(Events) /\ EventsInOrder
      /\ Len(automation_waiters) < MaxWaiters
      /\ EndEvent(ws, taken, {}, <<>>, panes)
      /\ UNCHANGED <<panes, exit_tombstones, pending_actor_work, workers>>
  BY DEF AutoInv, TypeOK, WaitRequest
<1>1. /\ h \in Range(events) /\ h \in Events /\ events' \in Seq(Events)
      /\ Queued' = Queued \ {h} /\ Completed' = Completed /\ Handled' = Handled
      /\ EventsInOrder'
  <2>1. /\ h \in Range(events) /\ h \in Events
        /\ events' \in Seq(Events)
        /\ Queued' = IF h.type = "request" THEN Queued \ {h} ELSE Queued
        /\ Completed' = IF h.type = "input_complete" THEN Completed \ {h.request} ELSE Completed
        /\ Handled' = IF h.type = "disconnected" THEN Handled \cup {h.conn} ELSE Handled
        /\ EventsInOrder'
    BY <1>0, EventTaken
  <2>. QED BY <2>1
<1>2. h \in Queued /\ h \in Requests /\ h.conn \notin Handled /\ k \in Conns \X Ids
      /\ k[1] = h.conn
  <2>1. h \in Queued /\ h \in Requests
    BY <1>1, EventTypes DEF Queued, QueuedIn
  <2>. QED BY <1>0, <2>1 DEF EventsInOrder, Requests, Key
<1>a. /\ automation_waiters \in Seq(Requests) /\ IsInjective(automation_waiters)
      /\ Waits = Range(automation_waiters) /\ Waits \subseteq OpenRequests
      /\ Queued \subseteq OpenRequests
      /\ Placed(Queued, Waits, workers, Completed)
  BY DEF AutoInv, TypeOK, RequestsPlaced, Waits, OpenRequests
<1>b. /\ h \notin Waits /\ h \in OpenRequests
      /\ h \notin workers /\ h \notin Completed
  BY <1>2, <1>a DEF Placed
<1>3. /\ ws \in Seq(Requests) /\ IsInjective(ws) /\ Range(ws) = Waits \cup {h}
      /\ Range(ws) \subseteq OpenRequests /\ Len(ws) = Len(automation_waiters) + 1
  <2>1. ws \in Seq(Requests) /\ Len(ws) = Len(automation_waiters) + 1
    BY <1>2, <1>a, AppendProperties
  <2>2. IsInjective(ws) /\ Range(ws) = Range(automation_waiters) \cup {h}
    BY <1>2, <1>a, <1>b, AppendRange
  <2>. QED BY <1>a, <1>b, <2>1, <2>2
<1>. HIDE DEF ws
<1>4. PICK ready \in SUBSET Range(ws) : EventOver(ws, taken, {}, panes, {}, ready)
  <2>1. FirstAnswers({}, <<>>)
    BY DEF FirstAnswers
  <2>. QED BY <1>0, <1>3, <2>1, WaitsEnded
<1>5. automation_inflight' = taken \ Keys(ready)
  BY <1>4 DEF EventOver, Keys
<1>6. Inputs' = Inputs
  BY <1>0, <1>1 DEF Inputs
<1>. DEFINE done == {} \cup ready
<1>7. /\ OpenRequests' = (OpenRequests \ done) \ {}
      /\ done \subseteq OpenRequests /\ done \cap {} = {}
  <2>1. ready \cap ((Queued \ {h}) \cup workers \cup Completed) = {}
    BY <1>3, <1>4, <1>a, <1>b DEF Placed
  <2>2. OpenRequests' = (Queued \ {h}) \cup ((Waits \cup {h}) \ ready) \cup workers \cup Completed
    BY <1>0, <1>1, <1>3, <1>4 DEF OpenRequests, EventOver
  <2>. QED BY <1>2, <1>3, <1>4, <2>1, <2>2 DEF OpenRequests
<1>8. RequestsPlaced'
  <2>1. Placed(Queued \ {h}, Waits \cup {h}, workers, Completed)
    BY <1>2, <1>a, PlacedMoves
  <2>2. Placed(Queued \ {h}, (Waits \cup {h}) \ ready, workers, Completed)
    BY <2>1, PlacedLess
  <2>3. /\ Waits' = (Waits \cup {h}) \ ready /\ IsInjective(automation_waiters')
        /\ \A w \in Waits' : NeedsPane(w) => w.pane \in panes'
    BY <1>0, <1>3, <1>4 DEF EventOver
  <2>. QED BY <1>0, <1>1, <2>2, <2>3 DEF RequestsPlaced
<1>9. Accounted(Waits, pending_actor_work, automation_inflight, Inputs, Handled)'
  <2>1. Accounted(Waits, pending_actor_work, automation_inflight, Inputs, Handled)
    BY DEF AutoInv
  <2>2. Accounted(Waits \cup {h}, pending_actor_work, taken, Inputs, Handled)
    BY <1>2, <2>1, WaitAdded
  <2>3. Accounted((Waits \cup {h}) \ ready, pending_actor_work, taken \ Keys(ready),
                  Inputs, Handled)
    BY <1>3, <2>2, WaitsAnswered
  <2>. QED BY <1>0, <1>1, <1>3, <1>4, <1>5, <1>6, <2>3 DEF EventOver
<1>10. Quotas' /\ ActorTypes'
  <2>1. /\ IsFiniteSet(automation_inflight')
        /\ automation_inflight' \subseteq Conns \X Ids
        /\ \A c \in Conns : OpenFor(c)' <= MaxPerClient
    BY <1>2, <1>5, InflightTaken
  <2>2. /\ automation_waiters' \in Seq(Requests)
        /\ Len(automation_waiters') <= MaxWaiters
    <3>1. /\ automation_waiters' \in Seq(Requests) /\ Len(automation_waiters') <= Len(ws)
          /\ Len(automation_waiters') \in Nat /\ Len(automation_waiters) \in Nat
      BY <1>4, <1>a, LenProperties DEF EventOver
    <3>. QED BY <1>0, <1>3, <3>1, AutomationAssumption
  <2>. QED BY <1>0, <1>1, <2>1, <2>2 DEF AutoInv, TypeOK, ActorTypes, Quotas
<1>11. AnswerList(outbox', done) /\ AnsweredOnce(answers, answers', done)
  BY <1>4 DEF EventOver
<1>. HIDE DEF done
<1>12. \A r \in {} : conn[r.conn] # "open"
  OBVIOUS
<1>. QED BY <1>1, <1>7, <1>8, <1>9, <1>10, <1>11, <1>12, EventStep DEF done

\* A worker reports: the input is answered, and its identifier released if the
\* connection is still there to have it.
LEMMA InputCompleteStep == AutoInv /\ HandleInputComplete => AutoInv' /\ Fate!Next
<1>. SUFFICES ASSUME AutoInv, HandleInputComplete PROVE AutoInv' /\ Fate!Next
  OBVIOUS
<1>a. PICK h : h = Head(events)
  OBVIOUS
<1>b. PICK r : r = h.request
  OBVIOUS
<1>. DEFINE k == Key(r)
<1>0. /\ events \in Seq(Events) /\ EventsInOrder
      /\ outbox = <<>> /\ events # <<>> /\ h.type = "input_complete"
      /\ events' = Tail(events)
      /\ pending_actor_work' = pending_actor_work \ {k}
      /\ EndEvent(automation_waiters, automation_inflight, {r}, <<Answer(r)>>, panes)
      /\ UNCHANGED <<conn, sent, panes, procs, exit_tombstones, workers, response_queue,
                     responder, delivered>>
  BY <1>a, <1>b DEF AutoInv, TypeOK, HandleInputComplete, Handling
<1>1. /\ h \in Range(events) /\ h \in Events /\ events' \in Seq(Events)
      /\ Queued' = Queued /\ Completed' = Completed \ {r} /\ Handled' = Handled
      /\ EventsInOrder'
  <2>1. /\ h \in Range(events) /\ h \in Events
        /\ events' \in Seq(Events)
        /\ Queued' = IF h.type = "request" THEN Queued \ {h} ELSE Queued
        /\ Completed' = IF h.type = "input_complete" THEN Completed \ {h.request} ELSE Completed
        /\ Handled' = IF h.type = "disconnected" THEN Handled \cup {h.conn} ELSE Handled
        /\ EventsInOrder'
    BY <1>0, <1>a, EventTaken
  <2>. QED BY <1>0, <1>b, <2>1
<1>3. /\ automation_waiters \in Seq(Requests) /\ IsInjective(automation_waiters)
      /\ Waits = Range(automation_waiters) /\ Waits \subseteq OpenRequests
      /\ Completed \subseteq OpenRequests
      /\ Placed(Queued, Waits, workers, Completed)
  BY DEF AutoInv, TypeOK, RequestsPlaced, Waits, OpenRequests
<1>2. /\ r \in Completed /\ r \in Requests
      /\ r \notin Queued /\ r \notin Waits /\ r \notin workers
  <2>1. r \in Completed
    BY <1>0, <1>1, <1>b DEF Completed, CompletedIn
  <2>. QED BY <1>3, <2>1 DEF Placed
<1>4. PICK ready \in SUBSET Range(automation_waiters) :
          EventOver(automation_waiters, automation_inflight, {r}, panes, {r}, ready)
  <2>1. FirstAnswers({r}, <<Answer(r)>>)
    BY DEF FirstAnswers
  <2>2. {r} \in SUBSET OpenRequests /\ Range(automation_waiters) \cap {r} = {}
    BY <1>2, <1>3
  <2>. QED BY <1>0, <1>3, <2>1, <2>2, WaitsEnded
<1>5. automation_inflight' = (automation_inflight \ {k}) \ Keys(ready)
  <2>1. Keys({r}) = {k}
    BY DEF Keys
  <2>. QED BY <1>4, <2>1 DEF EventOver
<1>6. Inputs' = Inputs \ {r} /\ r \in Inputs
  BY <1>0, <1>1, <1>2 DEF Inputs
<1>. DEFINE done == {r} \cup ready
<1>7. /\ OpenRequests' = (OpenRequests \ done) \ {}
      /\ done \subseteq OpenRequests /\ done \cap {} = {}
  <2>1. ready \cap (Queued \cup workers \cup Completed) = {}
    BY <1>3 DEF Placed
  <2>2. OpenRequests' = Queued \cup (Waits \ ready) \cup workers \cup (Completed \ {r})
    BY <1>0, <1>1, <1>3, <1>4 DEF OpenRequests, EventOver
  <2>. QED BY <1>2, <1>3, <2>1, <2>2 DEF OpenRequests
<1>8. RequestsPlaced'
  <2>1. Placed(Queued, Waits, workers, Completed \ {r})
    BY <1>2, <1>3, PlacedMoves
  <2>2. Placed(Queued, Waits \ ready, workers, Completed \ {r})
    BY <2>1, PlacedLess
  <2>3. /\ Waits' = Waits \ ready /\ IsInjective(automation_waiters')
        /\ \A w \in Waits' : NeedsPane(w) => w.pane \in panes'
    BY <1>0, <1>3, <1>4 DEF EventOver
  <2>. QED BY <1>0, <1>1, <2>2, <2>3 DEF RequestsPlaced
<1>9. Accounted(Waits, pending_actor_work, automation_inflight, Inputs, Handled)'
  <2>1. Accounted(Waits, pending_actor_work, automation_inflight, Inputs, Handled)
    BY DEF AutoInv
  <2>2. Accounted(Waits, pending_actor_work \ {k}, automation_inflight \ {k}, Inputs \ {r},
                  Handled)
    BY <1>6, <2>1, InputReported
  <2>3. Accounted(Waits \ ready, pending_actor_work \ {k},
                  (automation_inflight \ {k}) \ Keys(ready), Inputs \ {r}, Handled)
    BY <1>3, <2>2, WaitsAnswered
  <2>. QED BY <1>0, <1>1, <1>3, <1>4, <1>5, <1>6, <2>3 DEF EventOver
<1>10. Quotas' /\ ActorTypes'
  <2>1. /\ IsFiniteSet(automation_inflight')
        /\ automation_inflight' \subseteq Conns \X Ids
        /\ \A c \in Conns : OpenFor(c)' <= MaxPerClient
    BY <1>5, InflightLess
  <2>2. /\ automation_waiters' \in Seq(Requests)
        /\ Len(automation_waiters') <= MaxWaiters
    BY <1>3, <1>4, LenProperties, AutomationAssumption DEF AutoInv, TypeOK, EventOver
  <2>3. /\ IsFiniteSet(pending_actor_work') /\ Cardinality(pending_actor_work') <= MaxPending
        /\ pending_actor_work' \subseteq Conns \X Ids
    BY <1>0, PendingLess
  <2>. QED BY <1>0, <1>1, <2>1, <2>2, <2>3 DEF AutoInv, TypeOK, ActorTypes, Quotas
<1>11. AnswerList(outbox', done) /\ AnsweredOnce(answers, answers', done)
  BY <1>4 DEF EventOver
<1>. HIDE DEF done
<1>12. \A q \in {} : conn[q.conn] # "open"
  OBVIOUS
<1>. QED BY <1>0, <1>1, <1>7, <1>8, <1>9, <1>10, <1>11, <1>12, EventStep DEF done

\* A connection is gone: what waits or is pending for it is dropped, without an
\* answer, and its identifiers are released.
LEMMA DisconnectedStep == AutoInv /\ HandleDisconnected => AutoInv' /\ Fate!Next
<1>. SUFFICES ASSUME AutoInv, HandleDisconnected PROVE AutoInv' /\ Fate!Next
  OBVIOUS
<1>a. PICK h : h = Head(events)
  OBVIOUS
<1>b. PICK c : c = h.conn
  OBVIOUS
<1>. DEFINE others == {w \in Waits : w.conn # c}
            ws == Only(automation_waiters, others)
            theirs == {k \in automation_inflight : k[1] # c}
            gone == {w \in Waits : w.conn = c}
<1>0. /\ events \in Seq(Events) /\ EventsInOrder
      /\ outbox = <<>> /\ events # <<>> /\ h.type = "disconnected"
      /\ events' = Tail(events)
      /\ pending_actor_work' = {k \in pending_actor_work : k[1] # c}
      /\ EndEvent(ws, theirs, {}, <<>>, panes)
      /\ UNCHANGED <<conn, sent, panes, procs, exit_tombstones, workers, response_queue,
                     responder, delivered>>
  <2>1. Waits = WaiterSet(automation_waiters)
    BY DEF Waits, WaiterSet, Range
  <2>. QED BY <1>a, <1>b, <2>1 DEF AutoInv, TypeOK, HandleDisconnected, Handling
<1>1. /\ h \in Range(events) /\ h \in Events /\ events' \in Seq(Events)
      /\ Queued' = Queued /\ Completed' = Completed /\ Handled' = Handled \cup {c}
      /\ EventsInOrder'
  <2>1. /\ h \in Range(events) /\ h \in Events
        /\ events' \in Seq(Events)
        /\ Queued' = IF h.type = "request" THEN Queued \ {h} ELSE Queued
        /\ Completed' = IF h.type = "input_complete" THEN Completed \ {h.request} ELSE Completed
        /\ Handled' = IF h.type = "disconnected" THEN Handled \cup {h.conn} ELSE Handled
        /\ EventsInOrder'
    BY <1>0, <1>a, EventTaken
  <2>. QED BY <1>0, <1>b, <2>1
<1>2. conn[c] = "gone"
  <2>1. c \in LeftIn(Range(events))
    BY <1>0, <1>1, <1>b DEF LeftIn
  <2>. QED BY <1>0, <2>1 DEF EventsInOrder
<1>3. /\ automation_waiters \in Seq(Requests) /\ IsInjective(automation_waiters)
      /\ Waits = Range(automation_waiters) /\ Waits \subseteq OpenRequests
      /\ Placed(Queued, Waits, workers, Completed)
  BY DEF AutoInv, TypeOK, RequestsPlaced, Waits, OpenRequests
<1>c. /\ ws \in Seq(Requests) /\ IsInjective(ws) /\ Range(ws) = others
      /\ Len(ws) <= Len(automation_waiters) /\ others \subseteq OpenRequests
  <2>1. /\ ws \in Seq(Requests) /\ IsInjective(ws)
        /\ Range(ws) = Range(automation_waiters) \cap others
        /\ Len(ws) <= Len(automation_waiters)
    <3>. HIDE DEF others
    <3>. QED BY <1>3, OnlyKeeps
  <2>. QED BY <1>3, <2>1
<1>d. others \cup gone = Waits /\ others \cap gone = {}
  OBVIOUS
<1>e. \A r \in gone : conn[r.conn] # "open"
  BY <1>2
<1>f. Accounted(others, pending_actor_work', theirs, Inputs, Handled \cup {c})
  <2>1. Accounted(Waits, pending_actor_work, automation_inflight, Inputs, Handled)
    BY DEF AutoInv
  <2>2. Waits \in SUBSET Requests /\ pending_actor_work \in SUBSET (Conns \X Ids)
    BY <1>3 DEF Placed, AutoInv, TypeOK
  <2>. QED BY <1>0, <2>1, <2>2, ConnectionDropped
<1>g. theirs \subseteq automation_inflight
  OBVIOUS
<1>. HIDE DEF ws, theirs, others, gone
<1>4. PICK ready \in SUBSET Range(ws) : EventOver(ws, theirs, {}, panes, {}, ready)
  <2>1. FirstAnswers({}, <<>>)
    BY DEF FirstAnswers
  <2>. QED BY <1>0, <1>c, <2>1, WaitsEnded
<1>5. automation_inflight' = theirs \ Keys(ready)
  BY <1>4 DEF EventOver, Keys
<1>6. Inputs' = Inputs
  BY <1>0, <1>1 DEF Inputs
<1>. DEFINE done == {} \cup ready
<1>7. /\ OpenRequests' = (OpenRequests \ done) \ gone
      /\ done \subseteq OpenRequests /\ gone \subseteq OpenRequests /\ done \cap gone = {}
  <2>1. Waits \cap (Queued \cup workers \cup Completed) = {}
    BY <1>3 DEF Placed
  <2>2. OpenRequests' = Queued \cup (others \ ready) \cup workers \cup Completed
    BY <1>0, <1>1, <1>c, <1>4 DEF OpenRequests, EventOver
  <2>3. ready \subseteq others
    BY <1>c, <1>4
  <2>. QED BY <1>3, <1>d, <2>1, <2>2, <2>3 DEF OpenRequests
<1>8. RequestsPlaced'
  <2>1. Placed(Queued, Waits \ (Waits \ (others \ ready)), workers, Completed)
    BY <1>3, PlacedLess
  <2>2. Waits \ (Waits \ (others \ ready)) = others \ ready
    BY <1>d
  <2>3. /\ Waits' = others \ ready /\ IsInjective(automation_waiters')
        /\ \A w \in Waits' : NeedsPane(w) => w.pane \in panes'
    BY <1>0, <1>c, <1>4 DEF EventOver
  <2>. QED BY <1>0, <1>1, <2>1, <2>2, <2>3 DEF RequestsPlaced
<1>9. Accounted(Waits, pending_actor_work, automation_inflight, Inputs, Handled)'
  <2>1. Accounted(others \ ready, pending_actor_work', theirs \ Keys(ready), Inputs,
                  Handled \cup {c})
    BY <1>c, <1>f, <1>4, WaitsAnswered
  <2>. QED BY <1>0, <1>1, <1>c, <1>4, <1>5, <1>6, <2>1 DEF EventOver
<1>10. Quotas' /\ ActorTypes'
  <2>1. /\ IsFiniteSet(automation_inflight')
        /\ automation_inflight' \subseteq Conns \X Ids
        /\ \A d \in Conns : OpenFor(d)' <= MaxPerClient
    BY <1>5, <1>g, InflightLess
  <2>2. /\ automation_waiters' \in Seq(Requests)
        /\ Len(automation_waiters') <= MaxWaiters
    <3>1. /\ automation_waiters' \in Seq(Requests) /\ Len(automation_waiters') <= Len(ws)
          /\ Len(automation_waiters') \in Nat /\ Len(ws) \in Nat
          /\ Len(automation_waiters) \in Nat /\ Len(automation_waiters) <= MaxWaiters
      BY <1>3, <1>c, <1>4, LenProperties DEF AutoInv, TypeOK, EventOver
    <3>. QED BY <1>c, <3>1, AutomationAssumption
  <2>3. /\ IsFiniteSet(pending_actor_work') /\ Cardinality(pending_actor_work') <= MaxPending
        /\ pending_actor_work' \subseteq Conns \X Ids
    BY <1>0, PendingLess
  <2>. QED BY <1>0, <1>1, <2>1, <2>2, <2>3 DEF AutoInv, TypeOK, ActorTypes, Quotas
<1>11. AnswerList(outbox', done) /\ AnsweredOnce(answers, answers', done)
  BY <1>4 DEF EventOver
<1>. HIDE DEF done
<1>. QED BY <1>0, <1>1, <1>e, <1>7, <1>8, <1>9, <1>10, <1>11, EventStep DEF done

\* A pane's process exits: its waits are answered with the pane gone.
LEMMA PtyExitStep == AutoInv /\ HandlePtyExit => AutoInv' /\ Fate!Next
<1>. SUFFICES ASSUME AutoInv, HandlePtyExit PROVE AutoInv' /\ Fate!Next
  OBVIOUS
<1>. DEFINE live == panes \ {Head(events).pane}
<1>a. PICK h : h = Head(events)
  OBVIOUS
<1>1. /\ outbox = <<>> /\ events # <<>> /\ h.type = "pty_exit"
      /\ events' = Tail(events)
      /\ panes' = live /\ exit_tombstones' = exit_tombstones \cup {h.pane}
      /\ EndEvent(automation_waiters, automation_inflight, {}, <<>>, live)
      /\ UNCHANGED <<conn, sent, procs, pending_actor_work, workers, response_queue,
                     responder, delivered>>
  BY <1>a DEF HandlePtyExit, Handling
<1>2. panes' \subseteq Panes /\ exit_tombstones' \subseteq Panes
  <2>1. /\ events \in Seq(Events) /\ IsInjective(events)
        /\ panes \subseteq Panes /\ exit_tombstones \subseteq Panes
    BY DEF AutoInv, TypeOK, EventsInOrder
  <2>2. h \in Events
    BY <1>1, <1>a, <2>1, TailIsRest
  <2>. QED BY <1>1, <2>1, <2>2, EventTypes
<1>3. automation_inflight \ Keys({}) = automation_inflight
  BY DEF Keys
<1>. HIDE DEF live
<1>. QED BY <1>1, <1>a, <1>2, <1>3, ReplyStep

\* A request is answered, waits, or gets its worker.
LEMMA RequestStep == AutoInv /\ HandleRequest => AutoInv' /\ Fate!Next
<1>. SUFFICES ASSUME AutoInv, HandleRequest PROVE AutoInv' /\ Fate!Next
  OBVIOUS
<1>. DEFINE r == Head(events)
            k == Key(r)
<1>a. PICK h : h = Head(events)
  OBVIOUS
<1>1. /\ outbox = <<>> /\ events # <<>> /\ h.type = "request"
      /\ events' = Tail(events)
      /\ UNCHANGED <<conn, sent, procs, response_queue, responder, delivered>>
      /\ \/ k \in automation_inflight /\ Duplicate(r)
         \/ k \notin automation_inflight /\ OpenFor(r.conn) >= MaxPerClient /\ Answered(r)
         \/ k \notin automation_inflight /\ OpenFor(r.conn) < MaxPerClient /\ Admitted(r)
  BY <1>a DEF HandleRequest, Handling
<1>2. Keys({r}) = {k} /\ Keys({}) = {}
  BY DEF Keys
<1>3. panes \subseteq Panes /\ exit_tombstones \subseteq Panes
  BY DEF AutoInv, TypeOK
<1>4. CASE k \in automation_inflight /\ Duplicate(r)
  <2>1. /\ EndEvent(automation_waiters, automation_inflight, {}, <<Answer(r)>>, panes)
        /\ UNCHANGED <<panes, exit_tombstones, pending_actor_work, workers>>
    BY <1>4 DEF Duplicate
  <2>2. automation_inflight \ Keys({}) = automation_inflight
    BY <1>2
  <2>. QED BY <1>1, <1>a, <1>3, <2>1, <2>2, ReplyStep
<1>5. CASE k \notin automation_inflight /\ Answered(r)
  <2>. DEFINE taken == automation_inflight \cup {k}
  <2>1. /\ EndEvent(automation_waiters, taken, {r}, <<Answer(r)>>, panes)
        /\ UNCHANGED <<panes, exit_tombstones, pending_actor_work, workers>>
    BY <1>5 DEF Answered
  <2>2. taken \ Keys({r}) = automation_inflight
    BY <1>2, <1>5
  <2>. HIDE DEF taken
  <2>. QED BY <1>1, <1>a, <1>3, <2>1, <2>2, ReplyStep
<1>6. CASE k \notin automation_inflight /\ CloseRequest(r)
  <2>. DEFINE taken == automation_inflight \cup {k}
              live == panes \ {r.pane}
  <2>1. /\ EndEvent(automation_waiters, taken, {r}, <<Answer(r)>>, live)
        /\ panes' = live
        /\ UNCHANGED <<exit_tombstones, pending_actor_work, workers>>
    BY <1>6 DEF CloseRequest
  <2>2. taken \ Keys({r}) = automation_inflight
    BY <1>2, <1>6
  <2>3. panes' \subseteq Panes
    BY <1>3, <2>1
  <2>. HIDE DEF taken, live
  <2>. QED BY <1>1, <1>a, <1>3, <2>1, <2>2, <2>3, ReplyStep
<1>7. CASE k \notin automation_inflight /\ OpenFor(r.conn) < MaxPerClient /\ InputRequest(r)
  BY <1>1, <1>a, <1>7, InputStep
<1>8. CASE k \notin automation_inflight /\ OpenFor(r.conn) < MaxPerClient /\ WaitRequest(r)
  BY <1>1, <1>a, <1>8, WaitStep
<1>. QED BY <1>1, <1>4, <1>5, <1>6, <1>7, <1>8 DEF Admitted

----------------------------------------------------------------------------
(* The other threads. *)

\* Requests and answers stay where they are, or change place on the way.
LEMMA SameFates ==
    ASSUME AutoInv, UNCHANGED <<sent, answers, delivered>>,
           OpenRequests' = OpenRequests, AnswersOut' = AnswersOut, staying' \subseteq staying
    PROVE  Told(sent, answers, OpenRequests, AnswersOut, delivered)' /\ Fate!Next
<1>1. Told(sent, answers, OpenRequests, AnswersOut, delivered)'
  BY DEF AutoInv
<1>2. ASSUME NEW s \in 1 .. MaxRequests
      PROVE  Changed(FateNow(s), FateNow(s)', staying, staying')
  <2>1. FateNow(s)' = FateNow(s)
    BY DEF FateNow
  <2>. QED BY <2>1 DEF Changed
<1>. QED BY <1>1, <1>2, WorkStep

\* One more event in the queue.
LEMMA EventQueued ==
    ASSUME AutoInv, NEW e \in Events, e \notin Range(events), events' = Append(events, e),
           e.type = "request" => e.conn \notin LeftIn(Range(events))
    PROVE  /\ events' \in Seq(Events) /\ IsInjective(events') /\ RequestsFirst(events')
           /\ Queued' = IF e.type = "request" THEN Queued \cup {e} ELSE Queued
           /\ Completed' = IF e.type = "input_complete" THEN Completed \cup {e.request}
                           ELSE Completed
           /\ LeftIn(Range(events')) = IF e.type = "disconnected"
                                       THEN LeftIn(Range(events)) \cup {e.conn}
                                       ELSE LeftIn(Range(events))
           /\ ExitedIn(Range(events')) = IF e.type = "pty_exit"
                                         THEN ExitedIn(Range(events)) \cup {e.pane}
                                         ELSE ExitedIn(Range(events))
<1>1. events \in Seq(Events) /\ IsInjective(events) /\ RequestsFirst(events)
  BY DEF AutoInv, TypeOK, EventsInOrder
<1>2. /\ events' \in Seq(Events) /\ IsInjective(events')
      /\ Range(events') = Range(events) \cup {e}
  BY <1>1, AppendRange, AppendProperties
<1>3. RequestsFirst(events')
  BY <1>1, RequestsFirstAppend
<1>. DEFINE E == Range(events)
            E2 == Range(events')
<1>4. E2 = E \cup {e} /\ Queued' = QueuedIn(E2) /\ Completed' = CompletedIn(E2)
      /\ Queued = QueuedIn(E) /\ Completed = CompletedIn(E)
  BY <1>2 DEF Queued, Completed
<1>. HIDE DEF E, E2
<1>5. /\ QueuedIn(E2) = IF e.type = "request" THEN QueuedIn(E) \cup {e} ELSE QueuedIn(E)
      /\ CompletedIn(E2) = IF e.type = "input_complete"
                           THEN CompletedIn(E) \cup {e.request} ELSE CompletedIn(E)
      /\ LeftIn(E2) = IF e.type = "disconnected" THEN LeftIn(E) \cup {e.conn} ELSE LeftIn(E)
      /\ ExitedIn(E2) = IF e.type = "pty_exit" THEN ExitedIn(E) \cup {e.pane} ELSE ExitedIn(E)
  BY <1>4, EventAdded
<1>. QED BY <1>2, <1>3, <1>4, <1>5 DEF E, E2

\* A request is sent.
LEMMA SendStep ==
    ASSUME AutoInv, NEW c \in Conns, NEW id \in Ids, NEW kind \in Kinds, NEW p \in Panes,
           Send(c, id, kind, p)
    PROVE  AutoInv' /\ Fate!Next
<1>. DEFINE request == [type |-> "request", conn |-> c, id |-> id, kind |-> kind,
                        pane |-> p, serial |-> sent + 1]
<1>a. PICK e : e = request
  OBVIOUS
<1>1. /\ conn[c] \in {"open", "cancelled"} /\ sent < MaxRequests /\ sent' = sent + 1
      /\ events' = Append(events, e)
      /\ UNCHANGED <<conn, panes, procs, exit_tombstones, automation_inflight,
                     automation_waiters, pending_actor_work, workers, outbox,
                     response_queue, responder, answers, delivered>>
  BY <1>a DEF Send
<1>2. /\ sent \in Nat /\ sent + 1 \in 1 .. MaxRequests /\ sent' \in 0 .. MaxRequests
  BY <1>1, AutomationAssumption DEF AutoInv, TypeOK
<1>3. /\ e \in Requests /\ e \in Events /\ e.type = "request" /\ e.conn = c
      /\ e.serial = sent + 1
  BY <1>2, <1>a DEF Requests, Events
<1>4. c \notin LeftIn(Range(events)) /\ c \notin Handled
  BY <1>1 DEF AutoInv, EventsInOrder, Handled
<1>5. \A r \in OpenRequests : r.serial # e.serial
  <2>. SUFFICES ASSUME NEW r \in OpenRequests PROVE r.serial # e.serial
    OBVIOUS
  <2>1. r.serial <= sent /\ r.serial \in Nat
    BY AutomationAssumption DEF AutoInv, Told, Requests
  <2>. QED BY <1>2, <1>3, <2>1
<1>6. e \notin OpenRequests
  BY <1>5
<1>7. e \notin Range(events)
  BY <1>3, <1>6 DEF OpenRequests, Queued, QueuedIn
<1>8. /\ events' \in Seq(Events) /\ IsInjective(events') /\ RequestsFirst(events')
      /\ Queued' = Queued \cup {e} /\ Completed' = Completed
      /\ LeftIn(Range(events')) = LeftIn(Range(events))
      /\ ExitedIn(Range(events')) = ExitedIn(Range(events))
  BY <1>1, <1>3, <1>4, <1>7, EventQueued
<1>9. Handled' = Handled /\ Waits' = Waits /\ Inputs' = Inputs /\ AnswersOut' = AnswersOut
      /\ OpenRequests' = OpenRequests \cup {e} /\ Held' = Held
  BY <1>1, <1>8 DEF Handled, Waits, Inputs, AnswersOut, Held, OpenRequests
<1>10. EventsInOrder'
  <2>1. \A r \in Queued' : r.conn \notin Handled'
    BY <1>3, <1>4, <1>8, <1>9 DEF AutoInv, EventsInOrder
  <2>. QED BY <1>1, <1>8, <2>1 DEF AutoInv, EventsInOrder
<1>11. RequestsPlaced'
  <2>1. Placed(Queued, Waits, workers, Completed)
    BY DEF AutoInv, RequestsPlaced
  <2>2. Placed(Queued \cup {e}, Waits, workers, Completed)
    BY <1>3, <1>5, <2>1, PlacedMoves DEF OpenRequests
  <2>. QED BY <1>1, <1>8, <1>9, <2>2 DEF AutoInv, RequestsPlaced
<1>12. Told(sent, answers, OpenRequests, AnswersOut, delivered)
  BY DEF AutoInv
<1>13. /\ Told(sent + 1, answers, OpenRequests \cup {e}, AnswersOut, delivered)
       /\ FateIn(sent, answers[sent + 1], OpenRequests, AnswersOut, delivered, sent + 1)
          = [at |-> "unsent"]
       /\ FateIn(sent + 1, answers[sent + 1], OpenRequests \cup {e}, AnswersOut, delivered,
                 sent + 1) = [at |-> "open", conn |-> e.conn]
       /\ \A s \in 1 .. MaxRequests : s # sent + 1 =>
             FateIn(sent + 1, answers[s], OpenRequests \cup {e}, AnswersOut, delivered, s)
             = FateIn(sent, answers[s], OpenRequests, AnswersOut, delivered, s)
  <2>1. e \in Requests /\ e.serial = sent + 1
    BY <1>3
  <2>2. /\ Told(sent + 1, answers, OpenRequests \cup {e}, AnswersOut, delivered)
        /\ SentFates(sent, answers, OpenRequests, AnswersOut, delivered, e)
    BY ONLY <1>12, <2>1, RequestSent
  <2>. QED BY <2>2 DEF SentFates
<1>14. /\ FateNow(sent + 1) = [at |-> "unsent"]
       /\ \A s \in 1 .. MaxRequests :
             FateNow(s)' = IF s = sent + 1 THEN [at |-> "open", conn |-> c] ELSE FateNow(s)
  BY <1>1, <1>3, <1>9, <1>13 DEF FateNow
<1>15. Fate!Send(sent + 1, c)
  <2>1. fates = [s \in 1 .. MaxRequests |-> FateNow(s)]
    BY FatesRead
  <2>2. fates' = [s \in 1 .. MaxRequests |-> FateNow(s)']
    <3>1. (fates = [s \in 1 .. MaxRequests |-> FateNow(s)])'
      BY FatesRead, PTL
    <3>. QED BY <3>1
  <2>3. fates[sent + 1] = Fate!Unsent
    BY <1>2, <1>14, <2>1 DEF Fate!Unsent
  <2>4. fates' = [fates EXCEPT ![sent + 1] = [at |-> "open", conn |-> c]]
    BY <1>2, <1>14, <2>1, <2>2
  <2>5. UNCHANGED staying
    BY <1>1 DEF staying
  <2>. QED BY <2>3, <2>4, <2>5 DEF Fate!Send
<1>16. Fate!Next
  BY <1>2, <1>15 DEF Fate!Next
<1>17. TypeOK' /\ Quotas' /\ AnswersPlaced'
  BY <1>1, <1>2, <1>8, <1>9 DEF AutoInv, TypeOK, Quotas, AnswersPlaced, OpenFor
<1>18. Accounted(Waits, pending_actor_work, automation_inflight, Inputs, Handled)'
  BY <1>1, <1>9 DEF AutoInv
<1>. QED BY <1>1, <1>9, <1>10, <1>11, <1>13, <1>16, <1>17, <1>18 DEF AutoInv

\* The connection ends.
LEMMA CloseConnStep ==
    ASSUME AutoInv, NEW c \in Conns, CloseConn(c)
    PROVE  AutoInv' /\ Fate!Next
<1>1. /\ conn[c] = "open" /\ conn' = [conn EXCEPT ![c] = "closed"]
      /\ UNCHANGED <<sent, events, panes, procs, exit_tombstones, automation_inflight,
                     automation_waiters, pending_actor_work, workers, outbox,
                     response_queue, responder, answers, delivered>>
  BY DEF CloseConn
<1>2. /\ conn' \in [Conns -> {"open", "closed", "cancelled", "gone"}]
      /\ \A d \in Conns : conn'[d] = "gone" <=> conn[d] = "gone"
      /\ \A d \in Conns : conn'[d] = "open" => conn[d] = "open"
  BY <1>1 DEF AutoInv, TypeOK
<1>a. LeftIn(Range(events)) \subseteq Conns
  BY LeftConns DEF AutoInv, TypeOK
<1>3. staying' \subseteq staying
  BY <1>2 DEF staying
<1>4. /\ Handled' = Handled /\ Waits' = Waits /\ Inputs' = Inputs
      /\ AnswersOut' = AnswersOut /\ Held' = Held /\ OpenRequests' = OpenRequests
      /\ Queued' = Queued /\ Completed' = Completed
  BY <1>1, <1>2 DEF Handled, Waits, Inputs, AnswersOut, Held, OpenRequests, Queued, Completed
<1>5. Told(sent, answers, OpenRequests, AnswersOut, delivered)' /\ Fate!Next
  BY <1>1, <1>3, <1>4, SameFates
<1>6. EventsInOrder' /\ RequestsPlaced' /\ AnswersPlaced' /\ Quotas'
  BY <1>1, <1>2, <1>4, <1>a DEF AutoInv, EventsInOrder, RequestsPlaced, AnswersPlaced, Quotas
<1>7. TypeOK'
  BY <1>1, <1>2 DEF AutoInv, TypeOK, OpenFor
<1>8. Accounted(Waits, pending_actor_work, automation_inflight, Inputs, Handled)'
  BY <1>1, <1>4 DEF AutoInv
<1>. QED BY <1>5, <1>6, <1>7, <1>8 DEF AutoInv

\* Its reader is the last to speak for it.
LEMMA ReaderEndsStep ==
    ASSUME AutoInv, NEW c \in Conns, ReaderEnds(c)
    PROVE  AutoInv' /\ Fate!Next
<1>a. PICK e : e = [type |-> "disconnected", conn |-> c]
  OBVIOUS
<1>1. /\ conn[c] \in {"closed", "cancelled"} /\ conn' = [conn EXCEPT ![c] = "gone"]
      /\ events' = Append(events, e)
      /\ UNCHANGED <<sent, panes, procs, exit_tombstones, automation_inflight,
                     automation_waiters, pending_actor_work, workers, outbox,
                     response_queue, responder, answers, delivered>>
  BY <1>a DEF ReaderEnds
<1>2. /\ e \in Events /\ e.type = "disconnected" /\ e.conn = c
  BY <1>a DEF Events
<1>3. /\ conn' \in [Conns -> {"open", "closed", "cancelled", "gone"}]
      /\ {d \in Conns : conn'[d] = "gone"} = {d \in Conns : conn[d] = "gone"} \cup {c}
      /\ staying' = staying /\ conn'[c] = "gone" /\ conn[c] # "gone"
  BY <1>1 DEF AutoInv, TypeOK, staying
<1>4. LeftIn(Range(events)) \subseteq Conns /\ c \notin LeftIn(Range(events))
  BY <1>3, LeftConns DEF AutoInv, TypeOK, EventsInOrder
<1>5. e \notin Range(events)
  BY <1>2, <1>4 DEF LeftIn
<1>6. /\ events' \in Seq(Events) /\ IsInjective(events') /\ RequestsFirst(events')
      /\ Queued' = Queued /\ Completed' = Completed
      /\ LeftIn(Range(events')) = LeftIn(Range(events)) \cup {c}
      /\ ExitedIn(Range(events')) = ExitedIn(Range(events))
  BY <1>1, <1>2, <1>5, EventQueued
<1>7. /\ Handled' = Handled /\ Waits' = Waits /\ Inputs' = Inputs
      /\ AnswersOut' = AnswersOut /\ Held' = Held /\ OpenRequests' = OpenRequests
  <2>1. Handled' = Handled
    BY <1>3, <1>4, <1>6 DEF Handled
  <2>. QED BY <1>1, <1>6, <2>1 DEF Waits, Inputs, AnswersOut, Held, OpenRequests
<1>8. Told(sent, answers, OpenRequests, AnswersOut, delivered)' /\ Fate!Next
  BY <1>1, <1>3, <1>7, SameFates
<1>9. EventsInOrder'
  <2>1. \A d \in LeftIn(Range(events')) : conn'[d] = "gone"
    <3>1. \A d \in Conns : conn[d] = "gone" => conn'[d] = "gone"
      BY <1>3
    <3>. QED BY <1>3, <1>4, <1>6, <3>1 DEF AutoInv, EventsInOrder
  <2>. QED BY <1>1, <1>6, <1>7, <2>1 DEF AutoInv, EventsInOrder
<1>10. RequestsPlaced' /\ AnswersPlaced' /\ Quotas'
  BY <1>1, <1>6, <1>7 DEF AutoInv, RequestsPlaced, AnswersPlaced, Quotas
<1>11. TypeOK'
  BY <1>1, <1>3, <1>6 DEF AutoInv, TypeOK, OpenFor
<1>12. Accounted(Waits, pending_actor_work, automation_inflight, Inputs, Handled)'
  BY <1>1, <1>7 DEF AutoInv
<1>. QED BY <1>8, <1>9, <1>10, <1>11, <1>12 DEF AutoInv

\* A pane's process exits.
LEMMA ProcessExitsStep ==
    ASSUME AutoInv, NEW p \in Panes, ProcessExits(p)
    PROVE  AutoInv' /\ Fate!Next
<1>a. PICK e : e = [type |-> "pty_exit", pane |-> p]
  OBVIOUS
<1>1. /\ p \in procs /\ procs' = procs \ {p}
      /\ events' = Append(events, e)
      /\ UNCHANGED <<conn, sent, panes, exit_tombstones, automation_inflight,
                     automation_waiters, pending_actor_work, workers, outbox,
                     response_queue, responder, answers, delivered>>
  BY <1>a DEF ProcessExits
<1>2. /\ e \in Events /\ e.type = "pty_exit" /\ e.pane = p
  BY <1>a DEF Events
<1>3. e \notin Range(events)
  <2>1. p \notin ExitedIn(Range(events))
    BY <1>1 DEF AutoInv, EventsInOrder
  <2>. QED BY <1>2, <2>1 DEF ExitedIn
<1>4. /\ events' \in Seq(Events) /\ IsInjective(events') /\ RequestsFirst(events')
      /\ Queued' = Queued /\ Completed' = Completed
      /\ LeftIn(Range(events')) = LeftIn(Range(events))
      /\ ExitedIn(Range(events')) = ExitedIn(Range(events)) \cup {p}
  BY <1>1, <1>2, <1>3, EventQueued
<1>5. /\ Handled' = Handled /\ Waits' = Waits /\ Inputs' = Inputs /\ staying' = staying
      /\ AnswersOut' = AnswersOut /\ Held' = Held /\ OpenRequests' = OpenRequests
  BY <1>1, <1>4 DEF Handled, staying, Waits, Inputs, AnswersOut, Held, OpenRequests
<1>6. Told(sent, answers, OpenRequests, AnswersOut, delivered)' /\ Fate!Next
  BY <1>1, <1>5, SameFates
<1>7. EventsInOrder' /\ RequestsPlaced' /\ AnswersPlaced' /\ Quotas'
  BY <1>1, <1>4, <1>5 DEF AutoInv, EventsInOrder, RequestsPlaced, AnswersPlaced, Quotas
<1>8. TypeOK'
  BY <1>1, <1>4 DEF AutoInv, TypeOK, OpenFor
<1>9. Accounted(Waits, pending_actor_work, automation_inflight, Inputs, Handled)'
  BY <1>1, <1>5 DEF AutoInv
<1>. QED BY <1>6, <1>7, <1>8, <1>9 DEF AutoInv

\* A worker reports what became of its input.
LEMMA WorkerDoneStep ==
    ASSUME AutoInv, NEW r \in workers, WorkerDone(r)
    PROVE  AutoInv' /\ Fate!Next
<1>a. PICK e : e = [type |-> "input_complete", request |-> r]
  OBVIOUS
<1>1. /\ workers' = workers \ {r}
      /\ events' = Append(events, e)
      /\ UNCHANGED <<conn, sent, panes, procs, exit_tombstones, automation_inflight,
                     automation_waiters, pending_actor_work, outbox, response_queue,
                     responder, answers, delivered>>
  BY <1>a DEF WorkerDone
<1>b. Placed(Queued, Waits, workers, Completed) /\ r \in Requests
  BY DEF AutoInv, RequestsPlaced, TypeOK
<1>2. /\ e \in Events /\ e.type = "input_complete" /\ e.request = r
  BY <1>a, <1>b DEF Events
<1>3. e \notin Range(events)
  <2>1. r \notin Completed
    BY <1>b DEF Placed
  <2>. QED BY <1>2, <2>1 DEF Completed, CompletedIn
<1>4. /\ events' \in Seq(Events) /\ IsInjective(events') /\ RequestsFirst(events')
      /\ Queued' = Queued /\ Completed' = Completed \cup {r}
      /\ LeftIn(Range(events')) = LeftIn(Range(events))
      /\ ExitedIn(Range(events')) = ExitedIn(Range(events))
  BY <1>1, <1>2, <1>3, EventQueued
<1>5. /\ Handled' = Handled /\ Waits' = Waits /\ staying' = staying
      /\ Inputs' = Inputs /\ OpenRequests' = OpenRequests
      /\ AnswersOut' = AnswersOut /\ Held' = Held
  BY <1>1, <1>4 DEF Handled, staying, Waits, Inputs, AnswersOut, Held, OpenRequests
<1>6. Told(sent, answers, OpenRequests, AnswersOut, delivered)' /\ Fate!Next
  BY <1>1, <1>5, SameFates
<1>7. RequestsPlaced'
  <2>1. Placed(Queued, Waits, workers \ {r}, Completed \cup {r})
    BY <1>b, PlacedMoves
  <2>. QED BY <1>1, <1>4, <1>5, <2>1 DEF AutoInv, RequestsPlaced
<1>8. EventsInOrder' /\ AnswersPlaced' /\ Quotas'
  BY <1>1, <1>4, <1>5 DEF AutoInv, EventsInOrder, AnswersPlaced, Quotas
<1>9. TypeOK'
  BY <1>1, <1>4 DEF AutoInv, TypeOK, OpenFor
<1>10. Accounted(Waits, pending_actor_work, automation_inflight, Inputs, Handled)'
  BY <1>1, <1>5 DEF AutoInv
<1>. QED BY <1>6, <1>7, <1>8, <1>9, <1>10 DEF AutoInv

\* The exit status of a pane is forgotten.
LEMMA EvictStep ==
    ASSUME AutoInv, NEW p \in Panes, EvictTombstone(p)
    PROVE  AutoInv' /\ Fate!Next
<1>1. /\ exit_tombstones' = exit_tombstones \ {p}
      /\ UNCHANGED <<conn, sent, events, panes, procs, automation_inflight,
                     automation_waiters, pending_actor_work, workers, outbox,
                     response_queue, responder, answers, delivered>>
  BY DEF EvictTombstone
<1>2. /\ Handled' = Handled /\ Waits' = Waits /\ Inputs' = Inputs /\ staying' = staying
      /\ AnswersOut' = AnswersOut /\ Held' = Held /\ OpenRequests' = OpenRequests
      /\ Queued' = Queued /\ Completed' = Completed
  BY <1>1 DEF Handled, staying, Waits, Inputs, AnswersOut, Held, OpenRequests, Queued, Completed
<1>3. Told(sent, answers, OpenRequests, AnswersOut, delivered)' /\ Fate!Next
  BY <1>1, <1>2, SameFates
<1>4. EventsInOrder' /\ RequestsPlaced' /\ AnswersPlaced' /\ Quotas'
  BY <1>1, <1>2 DEF AutoInv, EventsInOrder, RequestsPlaced, AnswersPlaced, Quotas
<1>5. TypeOK'
  BY <1>1 DEF AutoInv, TypeOK, OpenFor
<1>6. Accounted(Waits, pending_actor_work, automation_inflight, Inputs, Handled)'
  BY <1>1, <1>2 DEF AutoInv
<1>. QED BY <1>3, <1>4, <1>5, <1>6 DEF AutoInv

\* The actor queues an answer, or cancels the connection that it does not fit for.
LEMMA QueueAnswerStep == AutoInv /\ QueueAnswer => AutoInv' /\ Fate!Next
<1>. SUFFICES ASSUME AutoInv, QueueAnswer PROVE AutoInv' /\ Fate!Next
  OBVIOUS
<1>a. PICK a : a = Head(outbox)
  OBVIOUS
<1>1. /\ outbox # <<>> /\ outbox' = Tail(outbox)
      /\ \/ /\ Len(response_queue) < ResponseCap
            /\ response_queue' = Append(response_queue, a)
            /\ conn' = conn
         \/ /\ Len(response_queue) >= ResponseCap
            /\ conn' = [conn EXCEPT ![a.conn] = IF @ = "open" THEN "cancelled" ELSE @]
            /\ response_queue' = response_queue
      /\ UNCHANGED <<sent, events, panes, procs, exit_tombstones, automation_inflight,
                     automation_waiters, pending_actor_work, workers, responder, answers,
                     delivered>>
  BY <1>a DEF QueueAnswer
<1>2. /\ outbox \in Seq(Answers) /\ IsInjective(outbox)
      /\ response_queue \in Seq(Answers) /\ IsInjective(response_queue)
      /\ Range(outbox) \cap Range(response_queue) = {}
      /\ Range(outbox) \cap Held = {} /\ Range(response_queue) \cap Held = {}
  BY DEF AutoInv, TypeOK, AnswersPlaced
<1>3. /\ a \in Range(outbox) /\ a \in Answers /\ outbox' \in Seq(Answers)
      /\ Range(outbox') = Range(outbox) \ {a} /\ IsInjective(outbox')
  BY <1>1, <1>2, <1>a, TailIsRest
<1>4. a \notin Range(response_queue) /\ a \notin Held /\ a.conn \in Conns
  BY <1>2, <1>3 DEF Answers
<1>5. /\ conn' \in [Conns -> {"open", "closed", "cancelled", "gone"}]
      /\ \A d \in Conns : conn'[d] = "gone" <=> conn[d] = "gone"
      /\ \A d \in Conns : conn'[d] = "open" => conn[d] = "open"
  BY <1>1, <1>4 DEF AutoInv, TypeOK
<1>6. LeftIn(Range(events)) \subseteq Conns
  BY LeftConns DEF AutoInv, TypeOK
<1>7. staying' \subseteq staying
  BY <1>5 DEF staying
<1>8. /\ Handled' = Handled /\ Waits' = Waits /\ Inputs' = Inputs
      /\ Held' = Held /\ OpenRequests' = OpenRequests
      /\ Queued' = Queued /\ Completed' = Completed
  BY <1>1, <1>5 DEF Handled, Waits, Inputs, Held, OpenRequests, Queued, Completed
<1>9. EventsInOrder' /\ RequestsPlaced' /\ Quotas'
  BY <1>1, <1>5, <1>6, <1>8 DEF AutoInv, EventsInOrder, RequestsPlaced, Quotas
<1>10. Accounted(Waits, pending_actor_work, automation_inflight, Inputs, Handled)'
  BY <1>1, <1>8 DEF AutoInv
<1>11. /\ \A t, u \in Responders : responder'[t] = responder'[u] /\ responder'[t] # NoJob => t = u
       /\ ActorTypes' /\ responder' \in [Responders -> Answers \cup {NoJob}]
       /\ answers' \in [1 .. MaxRequests -> Nat] /\ delivered' \subseteq 1 .. MaxRequests
  BY <1>1, <1>5 DEF AutoInv, TypeOK, ActorTypes, AnswersPlaced, OpenFor
<1>12. CASE Len(response_queue) < ResponseCap /\ response_queue' = Append(response_queue, a)
            /\ conn' = conn
  <2>1. /\ response_queue' \in Seq(Answers) /\ IsInjective(response_queue')
        /\ Range(response_queue') = Range(response_queue) \cup {a}
        /\ Len(response_queue') = Len(response_queue) + 1
    BY <1>2, <1>3, <1>4, <1>12, AppendRange, AppendProperties
  <2>2. AnswersOut' = AnswersOut
    BY <1>3, <1>8, <2>1 DEF AnswersOut
  <2>3. Told(sent, answers, OpenRequests, AnswersOut, delivered)' /\ Fate!Next
    BY <1>1, <1>7, <1>8, <2>2, SameFates
  <2>4. AnswersPlaced'
    BY <1>2, <1>3, <1>4, <1>8, <1>11, <2>1 DEF AnswersPlaced
  <2>5. Len(response_queue') <= ResponseCap
    BY <1>2, <1>12, <2>1, LenProperties, AutomationAssumption
  <2>6. TypeOK'
    BY <1>3, <1>11, <2>1, <2>5 DEF TypeOK, ActorTypes
  <2>. QED BY <1>9, <1>10, <2>3, <2>4, <2>6 DEF AutoInv
<1>13. CASE /\ conn' = [conn EXCEPT ![a.conn] = IF @ = "open" THEN "cancelled" ELSE @]
            /\ response_queue' = response_queue
  <2>1. AnswersOut' = AnswersOut \ {a} /\ a \in AnswersOut
    BY <1>3, <1>4, <1>8, <1>13 DEF AnswersOut
  <2>2. a.conn \notin staying'
    BY <1>4, <1>13 DEF staying, AutoInv, TypeOK
  <2>3. Told(sent, answers, OpenRequests, AnswersOut, delivered)
    BY DEF AutoInv
  <2>4. /\ Told(sent, answers, OpenRequests, AnswersOut \ {a}, delivered)
        /\ \A s \in 1 .. MaxRequests :
              Changed(FateIn(sent, answers[s], OpenRequests, AnswersOut, delivered, s),
                      FateIn(sent, answers[s], OpenRequests, AnswersOut \ {a}, delivered, s),
                      staying, staying')
    BY <2>1, <2>2, <2>3, AnswerGone
  <2>5. Told(sent, answers, OpenRequests, AnswersOut, delivered)'
    BY <1>1, <1>8, <2>1, <2>4
  <2>6. \A s \in 1 .. MaxRequests : Changed(FateNow(s), FateNow(s)', staying, staying')
    BY <1>1, <1>8, <2>1, <2>4 DEF FateNow
  <2>7. Fate!Next
    BY <1>7, <2>5, <2>6, WorkStep
  <2>8. AnswersPlaced'
    BY <1>2, <1>3, <1>8, <1>11, <1>13 DEF AnswersPlaced
  <2>9. TypeOK'
    BY <1>3, <1>11, <1>13 DEF AutoInv, TypeOK, ActorTypes
  <2>. QED BY <1>9, <1>10, <2>5, <2>7, <2>8, <2>9 DEF AutoInv
<1>. QED BY <1>1, <1>12, <1>13

\* A writer thread takes an answer.
LEMMA TakeAnswerStep ==
    ASSUME AutoInv, NEW t \in Responders, TakeAnswer(t)
    PROVE  AutoInv' /\ Fate!Next
<1>a. PICK a : a = Head(response_queue)
  OBVIOUS
<1>1. /\ responder[t] = NoJob /\ response_queue # <<>>
      /\ responder' = [responder EXCEPT ![t] = a]
      /\ response_queue' = Tail(response_queue)
      /\ UNCHANGED <<conn, sent, events, panes, procs, exit_tombstones, automation_inflight,
                     automation_waiters, pending_actor_work, workers, outbox, answers,
                     delivered>>
  BY <1>a DEF TakeAnswer
<1>2. /\ response_queue \in Seq(Answers) /\ IsInjective(response_queue)
      /\ responder \in [Responders -> Answers \cup {NoJob}]
      /\ Range(outbox) \cap Range(response_queue) = {} /\ IsInjective(outbox)
      /\ Range(outbox) \cap Held = {} /\ Range(response_queue) \cap Held = {}
      /\ \A s, u \in Responders : responder[s] = responder[u] /\ responder[s] # NoJob => s = u
  BY DEF AutoInv, TypeOK, AnswersPlaced
<1>3. /\ a \in Range(response_queue) /\ a \in Answers /\ response_queue' \in Seq(Answers)
      /\ Range(response_queue') = Range(response_queue) \ {a}
      /\ IsInjective(response_queue')
      /\ Len(response_queue') = Len(response_queue) - 1
  BY <1>1, <1>2, <1>a, TailIsRest
<1>4. a # NoJob
  BY <1>3, AutomationAssumption DEF Answers, NoJob
<1>5. /\ responder' \in [Responders -> Answers \cup {NoJob}]
      /\ \A s \in Responders : responder'[s] = IF s = t THEN a ELSE responder[s]
  BY <1>1, <1>2, <1>3
<1>6. Held' = Held \cup {a}
  BY <1>1, <1>2, <1>4, <1>5 DEF Held
<1>7. /\ Handled' = Handled /\ Waits' = Waits /\ Inputs' = Inputs /\ staying' = staying
      /\ OpenRequests' = OpenRequests /\ Queued' = Queued /\ Completed' = Completed
  BY <1>1 DEF Handled, staying, Waits, Inputs, OpenRequests, Queued, Completed
<1>8. AnswersOut' = AnswersOut
  BY <1>1, <1>3, <1>6 DEF AnswersOut
<1>9. Told(sent, answers, OpenRequests, AnswersOut, delivered)' /\ Fate!Next
  BY <1>1, <1>7, <1>8, SameFates
<1>10. AnswersPlaced'
  <2>1. \A s \in Responders : responder[s] # a
    BY <1>2, <1>3, <1>4 DEF Held
  <2>2. \A s, u \in Responders : responder'[s] = responder'[u] /\ responder'[s] # NoJob => s = u
    BY <1>2, <1>5, <2>1
  <2>. QED BY <1>1, <1>2, <1>3, <1>6, <2>2 DEF AnswersPlaced
<1>11. EventsInOrder' /\ RequestsPlaced' /\ Quotas'
  BY <1>1, <1>7 DEF AutoInv, EventsInOrder, RequestsPlaced, Quotas
<1>12. TypeOK'
  <2>1. Len(response_queue') <= ResponseCap
    BY <1>2, <1>3, LenProperties, AutomationAssumption DEF AutoInv, TypeOK
  <2>. QED BY <1>1, <1>3, <1>5, <2>1 DEF AutoInv, TypeOK, OpenFor
<1>13. Accounted(Waits, pending_actor_work, automation_inflight, Inputs, Handled)'
  BY <1>1, <1>7 DEF AutoInv
<1>. QED BY <1>9, <1>10, <1>11, <1>12, <1>13 DEF AutoInv

\* It writes the answer, or finds the connection gone.
LEMMA WriteAnswerStep ==
    ASSUME AutoInv, NEW t \in Responders, WriteAnswer(t)
    PROVE  AutoInv' /\ Fate!Next
<1>a. PICK a : a = responder[t]
  OBVIOUS
<1>1. /\ a # NoJob
      /\ responder' = [responder EXCEPT ![t] = NoJob]
      /\ delivered' = IF conn[a.conn] = "open" THEN delivered \cup {a.serial} ELSE delivered
      /\ UNCHANGED <<conn, sent, events, panes, procs, exit_tombstones, automation_inflight,
                     automation_waiters, pending_actor_work, workers, outbox,
                     response_queue, answers>>
  BY <1>a DEF WriteAnswer
<1>2. /\ responder \in [Responders -> Answers \cup {NoJob}]
      /\ Range(outbox) \cap Held = {} /\ Range(response_queue) \cap Held = {}
      /\ \A s, u \in Responders : responder[s] = responder[u] /\ responder[s] # NoJob => s = u
  BY DEF AutoInv, TypeOK, AnswersPlaced
<1>3. a \in Answers /\ a \in Held
  BY <1>1, <1>2, <1>a DEF Held
<1>4. /\ responder' \in [Responders -> Answers \cup {NoJob}]
      /\ \A s \in Responders : responder'[s] = IF s = t THEN NoJob ELSE responder[s]
  BY <1>1, <1>2
<1>5. Held' = Held \ {a}
  <2>1. \A s \in Responders : s # t => responder[s] # a
    BY <1>1, <1>2, <1>a
  <2>. QED BY <1>4, <1>a, <2>1 DEF Held
<1>6. /\ Handled' = Handled /\ Waits' = Waits /\ Inputs' = Inputs /\ staying' = staying
      /\ OpenRequests' = OpenRequests /\ Queued' = Queued /\ Completed' = Completed
  BY <1>1 DEF Handled, staying, Waits, Inputs, OpenRequests, Queued, Completed
<1>7. AnswersOut' = AnswersOut \ {a} /\ a \in AnswersOut
  BY <1>1, <1>2, <1>3, <1>5 DEF AnswersOut
<1>8. Told(sent, answers, OpenRequests, AnswersOut, delivered)
  BY DEF AutoInv
<1>9. a.conn \in Conns /\ a.serial \in 1 .. MaxRequests
  BY <1>3 DEF Answers
<1>10. /\ delivered' = delivered \/ delivered' = delivered \cup {a.serial}
       /\ delivered' = delivered => a.conn \notin staying'
       /\ delivered' # delivered => a.conn \in staying
  <2>1. a.serial \notin delivered
    BY <1>7, <1>8 DEF Told
  <2>. QED BY <1>1, <1>9, <2>1 DEF staying
<1>11. /\ Told(sent, answers, OpenRequests, AnswersOut \ {a}, delivered')
       /\ \A s \in 1 .. MaxRequests :
             Changed(FateIn(sent, answers[s], OpenRequests, AnswersOut, delivered, s),
                     FateIn(sent, answers[s], OpenRequests, AnswersOut \ {a}, delivered', s),
                     staying, staying')
  BY <1>7, <1>8, <1>10, AnswerGone
<1>12. Told(sent, answers, OpenRequests, AnswersOut, delivered)'
  BY <1>1, <1>6, <1>7, <1>11
<1>13. \A s \in 1 .. MaxRequests : Changed(FateNow(s), FateNow(s)', staying, staying')
  BY <1>1, <1>6, <1>7, <1>11 DEF FateNow
<1>14. Fate!Next
  BY <1>6, <1>12, <1>13, WorkStep
<1>15. AnswersPlaced'
  <2>1. \A s, u \in Responders : responder'[s] = responder'[u] /\ responder'[s] # NoJob => s = u
    BY <1>2, <1>4
  <2>. QED BY <1>1, <1>5, <2>1 DEF AutoInv, AnswersPlaced
<1>16. EventsInOrder' /\ RequestsPlaced' /\ Quotas'
  BY <1>1, <1>6 DEF AutoInv, EventsInOrder, RequestsPlaced, Quotas
<1>17. TypeOK'
  <2>1. delivered' \subseteq 1 .. MaxRequests
    BY <1>1, <1>9 DEF AutoInv, TypeOK
  <2>. QED BY <1>1, <1>4, <2>1 DEF AutoInv, TypeOK, OpenFor
<1>18. Accounted(Waits, pending_actor_work, automation_inflight, Inputs, Handled)'
  BY <1>1, <1>6 DEF AutoInv
<1>. QED BY <1>12, <1>14, <1>15, <1>16, <1>17, <1>18 DEF AutoInv

----------------------------------------------------------------------------
(* The theorems. *)

\* Nothing is open, nothing is answered, and every connection is there.
LEMMA InitAuto == Init => AutoInv /\ Fate!Init
<1>. SUFFICES ASSUME Init PROVE AutoInv /\ Fate!Init
  OBVIOUS
<1>1. /\ Range(events) = {} /\ Range(automation_waiters) = {}
      /\ Range(outbox) = {} /\ Range(response_queue) = {}
  BY DEF Init, Range
<1>2. /\ Queued = {} /\ Completed = {} /\ LeftIn(Range(events)) = {}
      /\ ExitedIn(Range(events)) = {}
  BY <1>1 DEF Queued, QueuedIn, Completed, CompletedIn, LeftIn, ExitedIn
<1>3. Handled = {}
  BY <1>2 DEF Init, Handled
<1>4. Held = {}
  BY DEF Init, Held
<1>5. Waits = {} /\ Inputs = {} /\ OpenRequests = {} /\ AnswersOut = {}
  BY <1>1, <1>2, <1>4 DEF Init, Waits, Inputs, OpenRequests, AnswersOut
<1>6. Quotas
  BY FS_EmptySet DEF Init, Quotas
<1>7. TypeOK
  <2>1. \A c \in Conns : OpenFor(c) = 0
    <3>1. \A c \in Conns : {k \in automation_inflight : k[1] = c} = {}
      BY DEF Init
    <3>. QED BY <3>1, FS_EmptySet DEF OpenFor
  <2>2. Cardinality(pending_actor_work) = 0
    BY FS_EmptySet DEF Init
  <2>3. Len(<<>>) = 0
    OBVIOUS
  <2>4. /\ automation_waiters = <<>> /\ response_queue = <<>>
        /\ MaxWaiters \in Nat /\ ResponseCap \in Nat /\ MaxPending \in Nat
        /\ MaxPerClient \in Nat /\ MaxRequests \in Nat
    BY AutomationAssumption DEF Init
  <2>5. /\ Len(automation_waiters) <= MaxWaiters /\ Len(response_queue) <= ResponseCap
        /\ Cardinality(pending_actor_work) <= MaxPending
        /\ \A c \in Conns : OpenFor(c) <= MaxPerClient
    BY <2>1, <2>2, <2>3, <2>4
  <2>6. /\ conn \in [Conns -> {"open", "closed", "cancelled", "gone"}]
        /\ sent \in 0 .. MaxRequests
        /\ events \in Seq(Events) /\ automation_waiters \in Seq(Requests)
        /\ outbox \in Seq(Answers) /\ response_queue \in Seq(Answers)
        /\ responder \in [Responders -> Answers \cup {NoJob}]
        /\ answers \in [1 .. MaxRequests -> Nat]
    BY <2>4 DEF Init
  <2>. QED BY <2>5, <2>6 DEF Init, TypeOK
<1>8. EventsInOrder
  BY <1>2, <1>3 DEF Init, EventsInOrder, RequestsFirst, IsInjective
<1>9. RequestsPlaced
  BY <1>2, <1>5 DEF Init, RequestsPlaced, Placed, IsInjective
<1>10. AnswersPlaced
  BY <1>1, <1>4 DEF Init, AnswersPlaced, IsInjective
<1>11. Accounted(Waits, pending_actor_work, automation_inflight, Inputs, Handled)
  BY <1>5 DEF Init, Accounted, Keys
<1>12. Told(sent, answers, OpenRequests, AnswersOut, delivered)
  <2>1. /\ sent = 0 /\ sent \in 0 .. MaxRequests /\ delivered = {}
        /\ answers = [s \in 1 .. MaxRequests |-> 0]
    BY AutomationAssumption DEF Init
  <2>. QED BY <1>5, <2>1 DEF Told
<1>13. Fate!Init
  <2>1. \A s \in 1 .. MaxRequests : FateNow(s) = [at |-> "unsent"]
    BY AutomationAssumption DEF FateNow, FateIn, Init
  <2>2. fates = [s \in 1 .. MaxRequests |-> [at |-> "unsent"]]
    BY <2>1, FatesRead
  <2>3. staying = Conns
    BY DEF Init, staying
  <2>. QED BY <2>2, <2>3 DEF Fate!Init, Fate!Unsent
<1>. QED BY <1>6, <1>7, <1>8, <1>9, <1>10, <1>11, <1>12, <1>13 DEF AutoInv

\* Every step keeps the invariant, and is a step of the abstract specification.
LEMMA NextAuto == AutoInv /\ Next => AutoInv' /\ Fate!Next
<1>. SUFFICES ASSUME AutoInv, Next PROVE AutoInv' /\ Fate!Next
  OBVIOUS
<1>1. ASSUME NEW c \in Conns, NEW id \in Ids, NEW kind \in Kinds, NEW p \in Panes,
             Send(c, id, kind, p)
      PROVE  AutoInv' /\ Fate!Next
  BY <1>1, SendStep
<1>2. ASSUME NEW c \in Conns, CloseConn(c) \/ ReaderEnds(c) PROVE AutoInv' /\ Fate!Next
  BY <1>2, CloseConnStep, ReaderEndsStep
<1>3. ASSUME NEW p \in Panes, ProcessExits(p) \/ EvictTombstone(p) PROVE AutoInv' /\ Fate!Next
  BY <1>3, ProcessExitsStep, EvictStep
<1>4. ASSUME NEW r \in workers, WorkerDone(r) PROVE AutoInv' /\ Fate!Next
  BY <1>4, WorkerDoneStep
<1>5. CASE Handle
  BY <1>5, RequestStep, InputCompleteStep, DisconnectedStep, PtyExitStep DEF Handle
<1>6. CASE Tick
  BY <1>6, TickStep
<1>7. CASE QueueAnswer
  BY <1>7, QueueAnswerStep
<1>8. CASE Responding
  BY <1>8, TakeAnswerStep, WriteAnswerStep DEF Responding
<1>. QED BY <1>1, <1>2, <1>3, <1>4, <1>5, <1>6, <1>7, <1>8 DEF Next

\* A step of something else changes nothing here.
LEMMA StutterAuto == AutoInv /\ UNCHANGED vars => AutoInv' /\ UNCHANGED <<fates, staying>>
<1>. SUFFICES ASSUME AutoInv, UNCHANGED vars PROVE AutoInv' /\ UNCHANGED <<fates, staying>>
  OBVIOUS
<1>1. UNCHANGED <<conn, sent, events, panes, procs, exit_tombstones, automation_inflight,
                  automation_waiters, pending_actor_work, workers, outbox, response_queue,
                  responder, answers, delivered>>
  BY DEF vars
<1>2. /\ Handled' = Handled /\ Waits' = Waits /\ Inputs' = Inputs /\ staying' = staying
      /\ AnswersOut' = AnswersOut /\ Held' = Held /\ OpenRequests' = OpenRequests
      /\ Queued' = Queued /\ Completed' = Completed
  BY <1>1 DEF Handled, staying, Waits, Inputs, AnswersOut, Held, OpenRequests, Queued, Completed
<1>3. TypeOK' /\ Quotas' /\ EventsInOrder' /\ RequestsPlaced' /\ AnswersPlaced'
  BY <1>1, <1>2 DEF AutoInv, TypeOK, OpenFor, Quotas, EventsInOrder, RequestsPlaced,
                    AnswersPlaced
<1>4. /\ Accounted(Waits, pending_actor_work, automation_inflight, Inputs, Handled)'
      /\ Told(sent, answers, OpenRequests, AnswersOut, delivered)'
  BY <1>1, <1>2 DEF AutoInv
<1>5. UNCHANGED fates
  <2>1. fates = [s \in 1 .. MaxRequests |-> FateNow(s)]
    BY FatesRead
  <2>2. fates' = [s \in 1 .. MaxRequests |-> FateNow(s)']
    <3>1. (fates = [s \in 1 .. MaxRequests |-> FateNow(s)])'
      BY FatesRead, PTL
    <3>. QED BY <3>1
  <2>3. \A s \in 1 .. MaxRequests : FateNow(s)' = FateNow(s)
    BY <1>1, <1>2 DEF FateNow
  <2>. QED BY <2>1, <2>2, <2>3
<1>. QED BY <1>2, <1>3, <1>4, <1>5 DEF AutoInv

\* The invariant holds for every value of the constants, and with it the types and
\* the quotas of requests, waits, pending inputs and queued answers.
THEOREM InvAuto == Spec => []AutoInv
<1>1. Init => AutoInv
  BY InitAuto
<1>2. AutoInv /\ [Next]_vars => AutoInv'
  BY NextAuto, StutterAuto
<1>. QED BY <1>1, <1>2, PTL DEF Spec

\* What the invariant says of the identifiers in flight.
LEMMA InflightFromInv == AutoInv => InflightAccounted
<1>. SUFFICES ASSUME AutoInv PROVE InflightAccounted
  OBVIOUS
<1>1. /\ TypeOK
      /\ Accounted(Waits, pending_actor_work, automation_inflight, Inputs, Handled)
      /\ automation_waiters \in Seq(Requests) /\ IsInjective(automation_waiters)
      /\ \A w \in Waits : NeedsPane(w) => w.pane \in panes
  BY DEF AutoInv, TypeOK, RequestsPlaced
<1>2. WaiterSet(automation_waiters) = Waits
  BY DEF WaiterSet, Waits, Range
<1>3. /\ automation_inflight = Keys(Waits) \cup pending_actor_work
      /\ Keys(Waits) \cap pending_actor_work = {}
      /\ \A w, v \in Waits : Key(w) = Key(v) => w = v
      /\ pending_actor_work \subseteq Keys(Inputs)
      /\ \A w \in Waits : w.conn \notin Handled
      /\ \A k \in pending_actor_work : k[1] \notin Handled
  BY <1>1 DEF Accounted
<1>4. Cardinality(Keys(Waits)) = Len(automation_waiters)
  <2>1. IsFiniteSet(Waits) /\ Cardinality(Waits) = Len(automation_waiters)
    BY <1>1, InjectiveLen DEF Waits
  <2>2. [w \in Waits |-> Key(w)] \in Bijection(Waits, Keys(Waits))
    <3>. DEFINE f == [w \in Waits |-> Key(w)]
    <3>1. f \in [Waits -> Keys(Waits)]
      BY DEF Keys
    <3>2. \A w, v \in Waits : f[w] = f[v] => w = v
      BY <1>3
    <3>3. \A k \in Keys(Waits) : \E w \in Waits : f[w] = k
      BY DEF Keys
    <3>. HIDE DEF f
    <3>4. f \in Bijection(Waits, Keys(Waits))
      BY <3>1, <3>2, <3>3 DEF Bijection, Injection, Surjection, IsInjective
    <3>. QED BY <3>4 DEF f
  <2>3. ExistsBijection(Waits, Keys(Waits))
    BY <2>2 DEF ExistsBijection
  <2>. QED BY <2>1, <2>3, FS_Bijection
<1>5. PendingHasWorker
  <2>. SUFFICES ASSUME NEW k \in pending_actor_work
                PROVE  \/ k \in Keys(workers)
                       \/ \E i \in DOMAIN events : /\ events[i].type = "input_complete"
                                                   /\ Key(events[i].request) = k
    BY DEF PendingHasWorker
  <2>1. PICK r \in Inputs : k = Key(r)
    BY <1>3 DEF Keys
  <2>2. CASE r \in workers
    BY <2>1, <2>2 DEF Keys
  <2>3. CASE r \in Completed
    BY <2>1, <2>3 DEF Completed, CompletedIn, Range
  <2>. QED BY <2>1, <2>2, <2>3 DEF Inputs
<1>6. NothingKeptForGone
  <2>1. ASSUME NEW c \in Conns, conn[c] = "gone",
               \A i \in DOMAIN events : events[i].type = "disconnected" => events[i].conn # c
        PROVE  /\ OpenFor(c) = 0
               /\ \A k \in pending_actor_work : k[1] # c
               /\ \A w \in Waits : w.conn # c
    <3>1. c \in Handled
      BY <2>1 DEF Handled, LeftIn, Range
    <3>2. (\A k \in pending_actor_work : k[1] # c) /\ \A w \in Waits : w.conn # c
      BY <1>3, <3>1
    <3>3. \A k \in Keys(Waits) : k[1] # c
      BY <3>2 DEF Keys, Key
    <3>4. {k \in automation_inflight : k[1] = c} = {}
      BY <1>3, <3>2, <3>3
    <3>. QED BY <3>2, <3>4, FS_EmptySet DEF OpenFor
  <2>. QED BY <1>1, <1>2, <2>1 DEF NothingKeptForGone
<1>. QED BY <1>1, <1>2, <1>3, <1>4, <1>5, <1>6 DEF InflightAccounted

\* No path of handle_automation, of check_automation_waiters, of a worker's report or
\* of the Disconnected event leaks an identifier in flight or releases one that is
\* still in use.
THEOREM InflightKept == Spec => []InflightAccounted
BY InvAuto, InflightFromInv, PTL

\* The session implements RequestFate: no request is answered twice, and none is
\* dropped while its connection stays, in whatever order the actor, the workers,
\* the readers and the response writers take their steps.
THEOREM FatesAreKept == Spec => FatesKept
<1>1. Init => Fate!Init
  BY InitAuto
<1>2. AutoInv /\ [Next]_vars => [Fate!Next]_<<fates, staying>>
  BY NextAuto, StutterAuto
<1>. QED BY <1>1, <1>2, InvAuto, PTL DEF Spec, FatesKept, Fate!Spec
=============================================================================
