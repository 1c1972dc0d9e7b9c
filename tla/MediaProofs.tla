------------------------------ MODULE MediaProofs ------------------------------
(***************************************************************************)
(* Proofs about the virtual presenter.  The first part is about            *)
(* MediaRelay, for every credit window, queue length, number of records,   *)
(* epochs, changes, controls and faults: packet credit is conserved, no    *)
(* record of an abandoned epoch is eligible, and while a source plays and  *)
(* stays shown every loss of its records is repaired.  The second part is  *)
(* about MediaObjects, for every set of panes, connections and identifiers *)
(* and every quota: no producer works for a closed pane, the scene is      *)
(* closed, and the retention quota counts what the sources keep.           *)
(***************************************************************************)
EXTENDS MCMediaRelay, MediaObjects, FiniteSetTheorems, SequenceTheorems,
        WellFoundedInduction, TLAPS

\* The presenter's record of the source.
Presenter ==
    [out : Nat, charged : Nat, grants : Nat, desync : BOOLEAN,
     pending : {None} \cup Reasons, min : Nat, epoch : Nat, playing : BOOLEAN,
     ended : BOOLEAN, flushed : BOOLEAN, last : Nat, projected : BOOLEAN,
     deliveries : SUBSET (1 .. MaxPackets), asked : Nat \cup {None},
     attached : BOOLEAN, visible : BOOLEAN, synced : BOOLEAN]

\* What is charged is being delivered, within the window, and deliveries are of
\* records that were ingested.
Sound(s) ==
    /\ s \in Presenter
    /\ s.charged = Cardinality(s.deliveries)
    /\ s.out + s.charged <= RollingCredits
    /\ \A n \in s.deliveries : n <= s.last

\* A change of the presenter's record that grants what it counts as outstanding, and
\* after which the source is eligible only if it was and its epochs are the same.
Keeps(s, r) ==
    /\ Sound(r)
    /\ r.out + s.grants = s.out + r.grants
    /\ r.last = s.last
    /\ ~r.desync => ~s.desync /\ r.epoch = s.epoch /\ r.min = s.min

\* The records between the producer and the presenter are the next ones.
Numbered ==
    /\ producer.sent = srv.last + Len(wire)
    /\ \A i \in 1 .. Len(wire) : wire[i].n = srv.last + i

Handed == {Idle} \cup [do : {"send"}, packet : Packets] \cup [do : {"request"}]
ControlTasks == {Idle} \cup [do : {"pause", "eos"}] \cup [do : {"flush"}, epoch : Nat]
Snapshots == [type : {"snapshot"}, present : BOOLEAN, playing : BOOLEAN, need : BOOLEAN]
Media == [type : {"media"}, packet : Packets]
Queued == [gen : Nat, packet : Packets]
Acks == [type : {"ack"}, n : Nat, delivered : BOOLEAN]
Needs == [type : {"need"}, min : Nat \cup {None}, reason : Reasons]
Clients == [gen : Nat, snapshot : {None} \cup [gen : Nat, body : Snapshots],
            queue : Seq(Queued), dropped : SUBSET Nat]
Workers == [active : BOOLEAN, playing : BOOLEAN, gen : Nat, min_gen : Nat,
            started : BOOLEAN, force : BOOLEAN, replace : BOOLEAN, lost : BOOLEAN,
            deferred : {None} \cup Queued]
Outers == [has : BOOLEAN, alive : BOOLEAN, ok : BOOLEAN, last : Nat,
           queue : Seq(Packets), done : Seq(Acks)]

\* Everything between the presenter and the outer decoder has its type.
PathTypes ==
    /\ producer \in [held : Nat, sent : Nat, epoch : Nat, fresh : BOOLEAN]
    /\ wire \in Seq(Packets)
    /\ ingest \in Handed
    /\ control \in ControlTasks
    /\ events \in Seq(Packets) /\ Len(events) <= EventQueue
    /\ to_client \in Seq(Snapshots \cup Media)
    /\ client \in Clients /\ Len(client.queue) <= ClientQueue
    /\ worker \in Workers
    /\ outer \in Outers /\ Len(outer.queue) <= WriterQueue
    /\ to_server \in Seq(Acks \cup Needs \cup {Retry})

\* The credit that is out is with the producer, on its way to it, or spent on the records
\* that are on their way.
Account ==
    /\ Sound(srv) /\ Numbered
    /\ producer.held + srv.grants + Len(wire) = srv.out
    /\ EligibleEpoch

\* Neither CreditExact nor EligibleEpoch is inductive alone: a record is charged once
\* because its number is new, and credit comes back as the type of every message says.
RelayInv == PathTypes /\ Account

----------------------------------------------------------------------------
(* The operations of the presenter. *)

\* The windows and the bounds are numbers.
LEMMA ConstantTypes ==
    /\ InitialCredits \in Nat /\ RollingCredits \in Nat /\ InitialCredits <= RollingCredits
    /\ EventQueue \in Nat /\ ClientQueue \in Nat /\ WriterQueue \in Nat
    /\ MaxPackets \in Nat /\ MaxEpoch \in Nat
BY RelayAssumption

\* Deliveries are finitely many.
LEMMA Finite ==
    ASSUME NEW s \in Presenter
    PROVE  IsFiniteSet(s.deliveries) /\ Cardinality(s.deliveries) \in Nat
<1>1. s.deliveries \subseteq 1 .. MaxPackets
    BY DEF Presenter
<1>2. IsFiniteSet(1 .. MaxPackets)
    BY ConstantTypes, FS_Interval
<1>. QED
    BY <1>1, <1>2, FS_Subset, FS_CardinalityType

\* Charged packets become credit: what is granted is counted, and no more than the
\* window is out.
LEMMA CreditReturn ==
    ASSUME NEW s \in Presenter, NEW n \in Nat, n <= s.charged,
           s.out + s.charged <= RollingCredits
    PROVE  LET r == prepare_credit_return(s, n)
           IN  /\ r \in Presenter
               /\ r.charged = s.charged - n
               /\ r.out + r.charged <= RollingCredits
               /\ r.out + s.grants = s.out + r.grants
               /\ r.deliveries = s.deliveries /\ r.last = s.last
               /\ r.desync = s.desync /\ r.epoch = s.epoch /\ r.min = s.min
<1>. DEFINE out == s.out + n
            charged == s.charged - n
            top_up == IF s.projected /\ out + charged < RollingCredits
                      THEN RollingCredits - (out + charged) ELSE 0
            r == [s EXCEPT !.out = out + top_up, !.charged = charged,
                           !.grants = @ + n + top_up]
<1>1. s.out \in Nat /\ s.charged \in Nat /\ s.grants \in Nat /\ RollingCredits \in Nat
    BY ConstantTypes DEF Presenter
<1>2. /\ top_up \in Nat /\ out \in Nat /\ charged \in Nat
      /\ out + charged + top_up <= RollingCredits
    BY <1>1
<1>. HIDE DEF top_up
<1>3. /\ r \in Presenter
      /\ r.out = out + top_up /\ r.charged = charged /\ r.grants = s.grants + n + top_up
      /\ r.deliveries = s.deliveries /\ r.last = s.last
      /\ r.desync = s.desync /\ r.epoch = s.epoch /\ r.min = s.min
  <2>1. s.grants + n + top_up \in Nat /\ out + top_up \in Nat
    BY <1>1, <1>2
  <2>. DEFINE o == out + top_up
              g == s.grants + n + top_up
  <2>2. r = [s EXCEPT !.out = o, !.charged = charged, !.grants = g]
    OBVIOUS
  <2>. HIDE DEF o, g, charged, r
  <2>3. o \in Nat /\ g \in Nat /\ charged \in Nat
    BY <1>2, <2>1 DEF o, g
  <2>4. /\ r \in Presenter
        /\ r.out = o /\ r.charged = charged /\ r.grants = g
        /\ r.deliveries = s.deliveries /\ r.last = s.last
        /\ r.desync = s.desync /\ r.epoch = s.epoch /\ r.min = s.min
    BY <2>2, <2>3 DEF Presenter
  <2>. QED
    BY <2>4 DEF o, g
<1>4. r = prepare_credit_return(s, n)
    BY DEF prepare_credit_return, top_up
<1>. HIDE DEF r
<1>. QED
    BY <1>1, <1>2, <1>3, <1>4

\* A change that touches neither credit, deliveries nor epochs, and that does not end
\* a wait for a keyframe.
SameAccount(s, r) ==
    /\ r \in Presenter
    /\ r.out = s.out /\ r.charged = s.charged /\ r.grants = s.grants
    /\ r.deliveries = s.deliveries /\ r.last = s.last
    /\ ~r.desync => ~s.desync /\ r.epoch = s.epoch /\ r.min = s.min

\* It keeps the account.
LEMMA SameKeeps ==
    ASSUME NEW s, Sound(s), NEW r, SameAccount(s, r)
    PROVE  Keeps(s, r)
BY DEF SameAccount, Keeps, Sound, Presenter

\* Changes follow one another.
LEMMA KeepsChain ==
    ASSUME NEW s, NEW r, NEW t, Sound(s), Keeps(s, r), Keeps(r, t)
    PROVE  Keeps(s, t)
BY DEF Keeps, Sound, Presenter

\* A change may be none.
LEMMA KeepsNone ==
    ASSUME NEW s, Sound(s)
    PROVE  Keeps(s, s)
BY DEF Keeps, Sound, Presenter

\* One delivery is forgotten and its credit returned.
LEMMA ForgetOne ==
    ASSUME NEW s, Sound(s), NEW n \in s.deliveries, NEW d \in BOOLEAN, s.desync => d
    PROVE  Keeps(s, prepare_credit_return([s EXCEPT !.deliveries = @ \ {n}, !.desync = d], 1))
<1>. DEFINE u == [s EXCEPT !.deliveries = @ \ {n}, !.desync = d]
            r == prepare_credit_return(u, 1)
<1>1. s \in Presenter /\ IsFiniteSet(s.deliveries) /\ Cardinality(s.deliveries) \in Nat
    BY Finite DEF Sound
<1>2. /\ Cardinality(s.deliveries \ {n}) = Cardinality(s.deliveries) - 1
      /\ Cardinality(s.deliveries) >= 1
  <2>1. Cardinality(s.deliveries \ {n}) = Cardinality(s.deliveries) - 1
    BY <1>1, FS_RemoveElement
  <2>2. Cardinality(s.deliveries) # 0
    BY <1>1, FS_EmptySet
  <2>. QED
    BY <1>1, <2>1, <2>2
<1>3. /\ u \in Presenter
      /\ u.out = s.out /\ u.charged = s.charged /\ u.grants = s.grants
      /\ u.deliveries = s.deliveries \ {n} /\ u.last = s.last
      /\ u.desync = d /\ u.epoch = s.epoch /\ u.min = s.min
    BY <1>1 DEF Presenter
<1>. HIDE DEF u
<1>4. 1 <= u.charged /\ u.out + u.charged <= RollingCredits
    BY <1>2, <1>3 DEF Sound
<1>5. /\ r \in Presenter
      /\ r.charged = u.charged - 1
      /\ r.out + r.charged <= RollingCredits
      /\ r.out + u.grants = u.out + r.grants
      /\ r.deliveries = u.deliveries /\ r.last = u.last
      /\ r.desync = u.desync /\ r.epoch = u.epoch /\ r.min = u.min
    BY <1>3, <1>4, CreditReturn
<1>. HIDE DEF r
<1>6. Sound(r)
    BY <1>2, <1>3, <1>5 DEF Sound
<1>7. Keeps(s, r)
    BY <1>3, <1>5, <1>6 DEF Keeps
<1>. QED
    BY <1>7 DEF r, u

\* All deliveries are forgotten and their credit returned.
LEMMA TakeDeliveries ==
    ASSUME NEW s, Sound(s)
    PROVE  Keeps(s, take_deliveries(s))
<1>1. CASE s.deliveries = {}
    BY <1>1, KeepsNone DEF take_deliveries
<1>2. CASE s.deliveries # {}
  <2>. DEFINE u == [s EXCEPT !.deliveries = {}]
              c == Cardinality(s.deliveries)
              r == prepare_credit_return(u, c)
  <2>1. s \in Presenter /\ c \in Nat /\ c = s.charged
    BY Finite DEF Sound
  <2>2. /\ u \in Presenter
        /\ u.out = s.out /\ u.charged = s.charged /\ u.grants = s.grants
        /\ u.deliveries = {} /\ u.last = s.last
        /\ u.desync = s.desync /\ u.epoch = s.epoch /\ u.min = s.min
    BY <2>1 DEF Presenter
  <2>. HIDE DEF u, c
  <2>3. c <= u.charged /\ u.out + u.charged <= RollingCredits
    BY <2>1, <2>2 DEF Sound
  <2>4. /\ r \in Presenter
        /\ r.charged = u.charged - c
        /\ r.out + r.charged <= RollingCredits
        /\ r.out + u.grants = u.out + r.grants
        /\ r.deliveries = u.deliveries /\ r.last = u.last
        /\ r.desync = u.desync /\ r.epoch = u.epoch /\ r.min = u.min
    BY <2>1, <2>2, <2>3, CreditReturn
  <2>. HIDE DEF r
  <2>5. Sound(r)
    BY <2>1, <2>2, <2>4, FS_EmptySet DEF Sound
  <2>6. Keeps(s, r)
    BY <2>2, <2>4, <2>5 DEF Keeps
  <2>. QED
    BY <1>2, <2>6 DEF take_deliveries, r, u, c
<1>. QED
    BY <1>1, <1>2

\* The flags of the projection change.
LEMMA FlagChange ==
    ASSUME NEW s, Sound(s),
           NEW a \in BOOLEAN, NEW v \in BOOLEAN, NEW y \in BOOLEAN, NEW p \in BOOLEAN
    PROVE  /\ Keeps(s, [s EXCEPT !.attached = a])
           /\ Keeps(s, [s EXCEPT !.visible = v, !.synced = y])
           /\ Keeps(s, [s EXCEPT !.projected = p, !.synced = y])
           /\ Keeps(s, [s EXCEPT !.playing = p, !.synced = y])
           /\ Keeps(s, [s EXCEPT !.ended = p, !.synced = y])
           /\ Keeps(s, [s EXCEPT !.projected = p, !.desync = @ \/ s.playing])
           /\ Keeps(s, [s EXCEPT !.desync = TRUE])
<1>1. s \in Presenter
    BY DEF Sound
<1>2. SameAccount(s, [s EXCEPT !.attached = a])
    BY <1>1 DEF SameAccount, Presenter
<1>3. SameAccount(s, [s EXCEPT !.visible = v, !.synced = y])
    BY <1>1 DEF SameAccount, Presenter
<1>4. SameAccount(s, [s EXCEPT !.projected = p, !.synced = y])
    BY <1>1 DEF SameAccount, Presenter
<1>5. SameAccount(s, [s EXCEPT !.playing = p, !.synced = y])
    BY <1>1 DEF SameAccount, Presenter
<1>6. SameAccount(s, [s EXCEPT !.ended = p, !.synced = y])
    BY <1>1 DEF SameAccount, Presenter
<1>7. SameAccount(s, [s EXCEPT !.projected = p, !.desync = @ \/ s.playing])
    BY <1>1 DEF SameAccount, Presenter
<1>8. SameAccount(s, [s EXCEPT !.desync = TRUE])
    BY <1>1 DEF SameAccount, Presenter
<1>. QED
    BY <1>2, <1>3, <1>4, <1>5, <1>6, <1>7, <1>8, SameKeeps

\* A delivery is undone without a loss being noted.
LEMMA ForgetQuietly ==
    ASSUME NEW s, Sound(s), NEW n \in s.deliveries
    PROVE  Keeps(s, prepare_credit_return([s EXCEPT !.deliveries = @ \ {n}], 1))
<1>1. s \in Presenter /\ s.desync \in BOOLEAN
    BY DEF Sound, Presenter
<1>2. [s EXCEPT !.deliveries = @ \ {n}] = [s EXCEPT !.deliveries = @ \ {n}, !.desync = s.desync]
    BY <1>1 DEF Presenter
<1>3. Keeps(s, prepare_credit_return([s EXCEPT !.deliveries = @ \ {n}, !.desync = s.desync], 1))
    BY <1>1, ForgetOne, Zenon
<1>. QED
    BY <1>2, <1>3

\* An acknowledgement, whether it is of a record that is still being delivered or not.
LEMMA CompleteKeeps ==
    ASSUME NEW s, Sound(s), NEW n, NEW delivered \in BOOLEAN
    PROVE  Keeps(s, complete_bridge_delivery(s, n, delivered))
<1>1. CASE n \notin s.deliveries
    BY <1>1, KeepsNone DEF complete_bridge_delivery
<1>2. CASE n \in s.deliveries
  <2>. DEFINE d == s.desync \/ Loses(s, n, delivered)
  <2>1. s.desync \in BOOLEAN /\ Loses(s, n, delivered) \in BOOLEAN
    BY Zenon DEF Sound, Presenter, Loses
  <2>2. d \in BOOLEAN /\ (s.desync => d)
    BY <2>1
  <2>. HIDE DEF d
  <2>3. Keeps(s, prepare_credit_return([s EXCEPT !.deliveries = @ \ {n}, !.desync = d], 1))
    BY <1>2, <2>2, ForgetOne, Zenon
  <2>. QED
    BY <1>2, <2>3, Zenon DEF complete_bridge_delivery, d
<1>. QED
    BY <1>1, <1>2

\* The bridge goes away, or a projection is published.
LEMMA ProjectionKeeps ==
    ASSUME NEW s, Sound(s)
    PROVE  Keeps(s, deactivate_bridge(s)) /\ Keeps(s, projection_snapshot(s))
<1>0. s \in Presenter /\ s.visible \in BOOLEAN
    BY DEF Sound, Presenter
<1>1. Keeps(s, deactivate_bridge(s))
  <2>. DEFINE u == [s EXCEPT !.projected = FALSE, !.desync = @ \/ s.playing]
  <2>1. Keeps(s, u)
    BY FlagChange, Zenon
  <2>2. Sound(u)
    BY <2>1 DEF Keeps
  <2>. HIDE DEF u
  <2>3. Keeps(u, take_deliveries(u))
    BY <2>2, TakeDeliveries
  <2>4. Keeps(s, take_deliveries(u))
    BY <2>1, <2>3, KeepsChain, Zenon
  <2>. QED
    BY <2>4 DEF deactivate_bridge, u
<1>2. Keeps(s, projection_snapshot(s))
  <2>. DEFINE p == [s EXCEPT !.projected = s.visible, !.synced = TRUE]
  <2>1. Keeps(s, p)
    BY <1>0, FlagChange, Zenon
  <2>2. Sound(p)
    BY <2>1 DEF Keeps
  <2>. HIDE DEF p
  <2>3. Keeps(p, take_deliveries(p))
    BY <2>2, TakeDeliveries
  <2>4. Keeps(s, take_deliveries(p))
    BY <2>1, <2>3, KeepsChain, Zenon
  <2>. QED
    BY <2>1, <2>4 DEF projection_snapshot, p
<1>. QED
    BY <1>1, <1>2

\* The projection is brought up to date.
LEMMA SyncKeeps ==
    ASSUME NEW s, Sound(s), NEW force \in BOOLEAN
    PROVE  Keeps(s, sync_media(s, force)) /\ SyncMessages(s, force) \in Seq(Snapshots \cup Media)
<1>1. Keeps(s, sync_media(s, force))
    BY ProjectionKeeps, KeepsNone DEF sync_media
<1>2. Snapshot(s) \in Snapshots
  <2>1. {s.visible, s.playing, s.ended, s.desync} \subseteq BOOLEAN
    BY DEF Sound, Presenter
  <2>2. (s.visible /\ s.playing /\ ~s.ended /\ s.desync) \in BOOLEAN
    OBVIOUS
  <2>. DEFINE need == s.visible /\ s.playing /\ ~s.ended /\ s.desync
  <2>3. need \in BOOLEAN
    OBVIOUS
  <2>4. Snapshot(s) = [type |-> "snapshot", present |-> s.visible, playing |-> s.playing,
                       need |-> need]
    BY DEF Snapshot
  <2>. HIDE DEF need
  <2>. QED
    BY <2>1, <2>3, <2>4 DEF Snapshots
<1>3. <<Snapshot(s)>> \in Seq(Snapshots \cup Media) /\ <<>> \in Seq(Snapshots \cup Media)
    BY <1>2, EmptySeq
<1>4. SyncMessages(s, force) \in {<<Snapshot(s)>>, <<>>}
    BY DEF SyncMessages
<1>. QED
    BY <1>1, <1>3, <1>4

\* A keyframe is asked for: from here on the source waits for it.
LEMMA RequestKeeps ==
    ASSUME NEW s, Sound(s), NEW minimum \in Nat \cup {None}, NEW reason \in Reasons
    PROVE  Keeps(s, request_keyframe(s, minimum, reason))
<1>. DEFINE m == CASE reason = "loss" -> s.epoch
                   [] reason # "loss" /\ minimum # None -> Larger(minimum, s.epoch)
                   [] reason = "initial" /\ minimum = None -> s.epoch
                   [] OTHER -> Smaller(s.epoch + 1, MaxEpoch)
            emitted == IF s.pending \in {None, reason, "loss"} THEN reason
                       ELSE IF reason = "loss" THEN s.pending ELSE "error"
            k == Larger(s.min, m)
            r == [s EXCEPT !.min = k, !.pending = emitted, !.desync = TRUE]
            a == [r EXCEPT !.asked = r.min]
<1>1. s \in Presenter /\ s.epoch \in Nat /\ s.min \in Nat /\ s.pending \in {None} \cup Reasons
    BY DEF Sound, Presenter
<1>2. m \in Nat
  <2>1. minimum # None => minimum \in Nat
    OBVIOUS
  <2>2. /\ minimum \in Nat => Larger(minimum, s.epoch) \in Nat
        /\ Smaller(s.epoch + 1, MaxEpoch) \in Nat
    <3>1. MaxEpoch \in Nat
      BY ConstantTypes
    <3>2. Smaller(s.epoch + 1, MaxEpoch) \in Nat
      BY <1>1, <3>1 DEF Smaller
    <3>3. minimum \in Nat => Larger(minimum, s.epoch) \in Nat
      BY <1>1 DEF Larger
    <3>. QED
      BY <3>2, <3>3
  <2>3. CASE reason = "loss"
    BY <1>1, <2>3
  <2>4. CASE reason # "loss" /\ minimum # None
    BY <1>1, <2>1, <2>2, <2>4
  <2>5. CASE reason # "loss" /\ minimum = None
    BY <1>1, <2>2, <2>5
  <2>. QED
    BY <2>3, <2>4, <2>5
<1>3. emitted \in {None} \cup Reasons
    BY <1>1 DEF Reasons
<1>. HIDE DEF m, emitted
<1>4. k \in Nat
    BY <1>1, <1>2 DEF Larger
<1>. HIDE DEF k
<1>5. r \in Presenter /\ r.min = k /\ r.desync
      /\ r.out = s.out /\ r.charged = s.charged /\ r.grants = s.grants
      /\ r.deliveries = s.deliveries /\ r.last = s.last
    BY <1>1, <1>3, <1>4 DEF Presenter
<1>. HIDE DEF r
<1>6. a \in Presenter /\ a.desync
      /\ a.out = s.out /\ a.charged = s.charged /\ a.grants = s.grants
      /\ a.deliveries = s.deliveries /\ a.last = s.last
    BY <1>4, <1>5 DEF Presenter
<1>. HIDE DEF a
<1>7. Keeps(s, a)
    BY <1>6, SameKeeps DEF SameAccount
<1>8. request_keyframe(s, minimum, reason) \in {s, a}
    BY DEF request_keyframe, Ask, a, r, k, m, emitted
<1>. QED
    BY <1>7, <1>8, KeepsNone

----------------------------------------------------------------------------
(* The account through the steps. *)

\* What the records and messages in the queues are.
LEMMA MessageKinds ==
    /\ \A m \in Acks \cup Needs \cup {Retry} :
          /\ m.type \in {"ack", "need", "retry"}
          /\ m.type = "ack" => m.n \in Nat /\ m.delivered \in BOOLEAN
          /\ m.type = "need" => m.min \in Nat \cup {None} /\ m.reason \in Reasons
    /\ \A m \in Snapshots \cup Media :
          IF m.type = "snapshot" THEN m \in Snapshots ELSE m.packet \in Packets
    /\ \A h \in Handed : h.do = "send" => h.packet \in Packets
    /\ \A c \in ControlTasks : c.do = "flush" => c.epoch \in Nat
    /\ \A p \in Packets : p.n \in 1 .. MaxPackets /\ p.epoch \in Nat /\ p.key \in BOOLEAN
<1>1. \A m \in Acks \cup Needs \cup {Retry} :
          /\ m.type \in {"ack", "need", "retry"}
          /\ m.type = "ack" => m.n \in Nat /\ m.delivered \in BOOLEAN
          /\ m.type = "need" => m.min \in Nat \cup {None} /\ m.reason \in Reasons
    BY DEF Acks, Needs, Retry
<1>2. \A m \in Snapshots \cup Media :
          IF m.type = "snapshot" THEN m \in Snapshots ELSE m.packet \in Packets
    BY DEF Snapshots, Media
<1>3. \A h \in Handed : h.do = "send" => h.packet \in Packets
    BY DEF Handed, Idle
<1>4. \A c \in ControlTasks : c.do = "flush" => c.epoch \in Nat
    BY DEF ControlTasks, Idle
<1>5. \A p \in Packets : p.n \in 1 .. MaxPackets /\ p.epoch \in Nat /\ p.key \in BOOLEAN
    BY ConstantTypes DEF Packets
<1>. QED
    BY <1>1, <1>2, <1>3, <1>4, <1>5

\* Every change of the presenter's record, but a producer's record that arrives and the
\* credit that leaves, keeps the account.
LEMMA IngestKeeps ==
    ASSUME PathTypes, Sound(srv), IngestSend \/ IngestRequest
    PROVE  Keeps(srv, srv')
<1>1. CASE IngestRequest
  <2>1. srv' = request_keyframe(srv, None, "loss")
    BY <1>1 DEF IngestRequest
  <2>. QED
    BY <2>1, RequestKeeps DEF Reasons
<1>2. CASE IngestSend
  <2>. DEFINE n == ingest.packet.n
              u == IF n \in srv.deliveries
                   THEN prepare_credit_return([srv EXCEPT !.deliveries = @ \ {n}], 1)
                   ELSE srv
  <2>1. srv' \in {srv, [u EXCEPT !.desync = TRUE]}
    BY <1>2 DEF IngestSend
  <2>2. Keeps(srv, u)
    <3>1. CASE n \in srv.deliveries
      BY <3>1, ForgetQuietly, Zenon
    <3>2. CASE n \notin srv.deliveries
      BY <3>2, KeepsNone
    <3>. QED
      BY <3>1, <3>2
  <2>. HIDE DEF u
  <2>3. Sound(u)
    BY <2>2 DEF Keeps
  <2>4. Keeps(u, [u EXCEPT !.desync = TRUE])
    BY <2>3, FlagChange, Zenon
  <2>5. Keeps(srv, [u EXCEPT !.desync = TRUE])
    BY <2>2, <2>4, KeepsChain, Zenon
  <2>. QED
    BY <2>1, <2>5, KeepsNone, Zenon
<1>. QED
    BY <1>1, <1>2

\* The control connection.
LEMMA ControlKeeps ==
    ASSUME PathTypes, Sound(srv), Control
    PROVE  Keeps(srv, srv')
<1>1. CASE Play
  <2>1. srv' = [srv EXCEPT !.playing = TRUE, !.synced = FALSE]
    BY <1>1 DEF Play
  <2>. QED
    BY <2>1, FlagChange, Zenon
<1>2. CASE Pause
  <2>1. srv' = [srv EXCEPT !.playing = FALSE, !.synced = FALSE]
    BY <1>2 DEF Pause
  <2>. QED
    BY <2>1, FlagChange, Zenon
<1>3. CASE Eos
  <2>1. srv' = [srv EXCEPT !.ended = TRUE, !.synced = FALSE]
    BY <1>3 DEF Eos
  <2>. QED
    BY <2>1, FlagChange, Zenon
<1>4. CASE EosWaits
    BY <1>4, KeepsNone DEF EosWaits
<1>5. CASE Flush
  <2>1. control.epoch \in Nat
    BY <1>5, MessageKinds DEF Flush, PathTypes
  <2>2. srv' = [srv EXCEPT !.epoch = 0, !.min = control.epoch, !.ended = FALSE,
                           !.desync = TRUE, !.flushed = TRUE]
    BY <1>5 DEF Flush
  <2>3. SameAccount(srv, srv')
    BY <2>1, <2>2 DEF SameAccount, Sound, Presenter
  <2>. QED
    BY <2>3, SameKeeps
<1>6. ASSUME NEW next, CancelDeliveries(next) PROVE Keeps(srv, srv')
    BY <1>6, TakeDeliveries DEF CancelDeliveries
<1>. QED
    BY <1>1, <1>2, <1>3, <1>4, <1>5, <1>6 DEF Control

\* The session actor.
LEMMA ActorKeeps ==
    ASSUME PathTypes, Sound(srv), Actor
    PROVE  Keeps(srv, srv')
<1>0. srv \in Presenter /\ srv.visible \in BOOLEAN
    BY DEF Sound, Presenter
<1>1. CASE ChangeLayout
  <2>1. srv' = [srv EXCEPT !.visible = ~@, !.synced = FALSE]
    BY <1>1 DEF ChangeLayout
  <2>2. (~srv.visible) \in BOOLEAN
    OBVIOUS
  <2>3. Keeps(srv, [srv EXCEPT !.visible = ~srv.visible, !.synced = FALSE])
    BY <2>2, FlagChange, Zenon
  <2>. QED
    BY <2>1, <2>3
<1>2. CASE IdleSync
    BY <1>2, SyncKeeps, KeepsNone DEF IdleSync
<1>3. CASE Attach
  <2>. DEFINE s == [srv EXCEPT !.attached = TRUE]
  <2>1. srv' = sync_media(s, TRUE)
    BY <1>3 DEF Attach
  <2>2. Keeps(srv, s)
    BY FlagChange, Zenon
  <2>. HIDE DEF s
  <2>3. Sound(s)
    BY <2>2 DEF Keeps
  <2>. QED
    BY <2>1, <2>2, <2>3, SyncKeeps, KeepsChain
<1>4. CASE Detach
  <2>. DEFINE s == [srv EXCEPT !.attached = FALSE]
  <2>1. srv' = deactivate_bridge(s)
    BY <1>4 DEF Detach
  <2>2. Keeps(srv, s)
    BY FlagChange, Zenon
  <2>. HIDE DEF s
  <2>3. Sound(s)
    BY <2>2 DEF Keeps
  <2>. QED
    BY <2>1, <2>2, <2>3, ProjectionKeeps, KeepsChain
<1>5. CASE ClientLost
  <2>1. srv' = [srv EXCEPT !.attached = FALSE]
    BY <1>5 DEF ClientLost
  <2>. QED
    BY <2>1, FlagChange, Zenon
<1>6. ASSUME NEW sent \in BOOLEAN, ForwardMedia(sent) PROVE Keeps(srv, srv')
  <2>. DEFINE s == sync_media(srv, FALSE)
  <2>1. srv' \in {s, complete_bridge_delivery(s, Head(events).n, FALSE)}
    BY <1>6 DEF ForwardMedia
  <2>2. Keeps(srv, s)
    BY SyncKeeps
  <2>. HIDE DEF s
  <2>3. Sound(s)
    BY <2>2 DEF Keeps
  <2>4. Keeps(s, complete_bridge_delivery(s, Head(events).n, FALSE))
    BY <2>3, CompleteKeeps
  <2>5. Keeps(srv, complete_bridge_delivery(s, Head(events).n, FALSE))
    BY <2>2, <2>4, KeepsChain, Zenon
  <2>. QED
    BY <2>1, <2>2, <2>5
<1>7. CASE HandleMessage
  <2>. DEFINE m == Head(to_server)
  <2>1. m \in Acks \cup Needs \cup {Retry}
    BY <1>7, HeadTailProperties DEF HandleMessage, PathTypes
  <2>2. srv' = CASE m.type = "ack" -> complete_bridge_delivery(srv, m.n, m.delivered)
                 [] m.type = "need" -> request_keyframe(srv, m.min, m.reason)
                 [] m.type = "retry" -> sync_media(srv, TRUE)
    BY <1>7 DEF HandleMessage
  <2>. HIDE DEF m
  <2>3. CASE m.type = "ack"
    BY <2>1, <2>2, <2>3, MessageKinds, CompleteKeeps
  <2>4. CASE m.type = "need"
    BY <2>1, <2>2, <2>4, MessageKinds, RequestKeeps
  <2>5. CASE m.type = "retry"
    BY <2>2, <2>5, SyncKeeps
  <2>. QED
    BY <2>1, <2>3, <2>4, <2>5, MessageKinds
<1>8. CASE ActorRequest
  <2>1. srv' = request_keyframe(srv, None, "loss")
    BY <1>8 DEF ActorRequest
  <2>. QED
    BY <2>1, RequestKeeps DEF Reasons
<1>9. CASE ActorResync
    BY <1>9, SyncKeeps DEF ActorResync
<1>. QED
    BY <1>1, <1>2, <1>3, <1>4, <1>5, <1>6, <1>7, <1>8, <1>9 DEF Actor

\* The numbers of the account.
LEMMA Numbers ==
    ASSUME RelayInv
    PROVE  /\ srv \in Presenter /\ Sound(srv) /\ PathTypes
           /\ srv.out \in Nat /\ srv.charged \in Nat /\ srv.grants \in Nat
           /\ srv.last \in Nat /\ srv.epoch \in Nat /\ srv.min \in Nat
           /\ producer.held \in Nat /\ producer.sent \in Nat
           /\ wire \in Seq(Packets) /\ Len(wire) \in Nat
           /\ producer.held + srv.grants + Len(wire) = srv.out
           /\ producer.sent = srv.last + Len(wire)
           /\ \A i \in 1 .. Len(wire) : wire[i].n = srv.last + i
<1>1. srv \in Presenter /\ Sound(srv) /\ PathTypes
    BY DEF RelayInv, Account, Sound
<1>2. wire \in Seq(Packets) /\ Len(wire) \in Nat
    BY <1>1, LenProperties DEF PathTypes
<1>3. producer.held \in Nat /\ producer.sent \in Nat
    BY <1>1 DEF PathTypes
<1>4. /\ srv.out \in Nat /\ srv.charged \in Nat /\ srv.grants \in Nat
      /\ srv.last \in Nat /\ srv.epoch \in Nat /\ srv.min \in Nat
    BY <1>1 DEF Presenter
<1>. QED
    BY <1>1, <1>2, <1>3, <1>4 DEF RelayInv, Account, Numbered

\* A step that sends, takes and hands on no record.
SameEnds ==
    /\ UNCHANGED wire
    /\ producer'.held = producer.held /\ producer'.sent = producer.sent
    /\ ingest' = ingest \/ ingest'.do # "send"

\* A change that keeps the account moves no credit between the producer and the presenter.
LEMMA KeptSum ==
    ASSUME RelayInv, Keeps(srv, srv')
    PROVE  producer.held + srv'.grants + Len(wire) = srv'.out
<1>1. /\ srv'.out + srv.grants = srv.out + srv'.grants
      /\ srv'.out \in Nat /\ srv'.grants \in Nat
    BY DEF Keeps, Sound, Presenter
<1>2. /\ srv.out \in Nat /\ srv.grants \in Nat /\ producer.held \in Nat /\ Len(wire) \in Nat
      /\ producer.held + srv.grants + Len(wire) = srv.out
    BY Numbers
<1>3. PICK h \in Nat, g \in Nat, n \in Nat, o \in Nat, q \in Nat, u \in Nat :
          /\ h = producer.held /\ g = srv.grants /\ n = Len(wire) /\ o = srv.out
          /\ q = srv'.grants /\ u = srv'.out
    BY <1>1, <1>2
<1>4. h + g + n = o /\ u + g = o + q
    BY <1>1, <1>2, <1>3
<1>5. h + q + n = u
    BY <1>4
<1>. QED
    BY <1>3, <1>5

\* It keeps the account if the presenter does.
LEMMA KeptAccount ==
    ASSUME RelayInv, Keeps(srv, srv'), SameEnds
    PROVE  Account'
<1>1. /\ Sound(srv') /\ srv'.out + srv.grants = srv.out + srv'.grants /\ srv'.last = srv.last
      /\ srv'.out \in Nat /\ srv'.grants \in Nat
    BY DEF Keeps, Sound, Presenter
<1>2. /\ srv.out \in Nat /\ srv.grants \in Nat /\ producer.held \in Nat /\ Len(wire) \in Nat
      /\ producer.held + srv.grants + Len(wire) = srv.out
    BY Numbers
<1>3. producer'.held = producer.held /\ wire' = wire
    BY DEF SameEnds
<1>4. producer.held + srv'.grants + Len(wire) = srv'.out
    BY KeptSum
<1>5. Numbered'
    BY <1>1 DEF Numbered, SameEnds, RelayInv, Account
<1>6. EligibleEpoch'
    BY DEF EligibleEpoch, Keeps, SameEnds, RelayInv, Account
<1>. QED
    BY <1>1, <1>3, <1>4, <1>5, <1>6 DEF Account

\* The producer spends a credit on the next record.
LEMMA SendAccount ==
    ASSUME RelayInv, NEW p \in Packets, ProducerSend(p)
    PROVE  Account'
<1>0. /\ Sound(srv) /\ srv.out \in Nat /\ srv.grants \in Nat /\ srv.last \in Nat
      /\ producer.held \in Nat /\ producer.sent \in Nat
      /\ wire \in Seq(Packets) /\ Len(wire) \in Nat
      /\ producer.held + srv.grants + Len(wire) = srv.out
      /\ producer.sent = srv.last + Len(wire)
      /\ \A i \in 1 .. Len(wire) : wire[i].n = srv.last + i
    BY Numbers
<1>1. /\ producer.held > 0
      /\ producer'.held = producer.held - 1 /\ producer'.sent = producer.sent + 1
      /\ p.n = producer.sent + 1 /\ wire' = Append(wire, p) /\ ingest' = ingest
  <2>1. producer \in [held : Nat, sent : Nat, epoch : Nat, fresh : BOOLEAN]
    BY Numbers DEF PathTypes
  <2>. QED
    BY <2>1 DEF ProducerSend
<1>2. Keeps(srv, srv')
  <2>1. srv' \in {srv, [srv EXCEPT !.asked = None]}
    BY DEF ProducerSend
  <2>2. SameAccount(srv, [srv EXCEPT !.asked = None])
    BY <1>0 DEF SameAccount, Sound, Presenter
  <2>. QED
    BY <1>0, <2>1, <2>2, SameKeeps, KeepsNone
<1>3. /\ Sound(srv') /\ srv'.out + srv.grants = srv.out + srv'.grants /\ srv'.last = srv.last
      /\ srv'.out \in Nat /\ srv'.grants \in Nat
    BY <1>2 DEF Keeps, Sound, Presenter
<1>4. /\ Len(wire') = Len(wire) + 1
      /\ \A i \in 1 .. Len(wire) : wire'[i] = wire[i]
      /\ wire'[Len(wire) + 1] = p
    BY <1>0, <1>1, AppendProperties
<1>5. (producer.held - 1) + srv'.grants + (Len(wire) + 1) = srv'.out
  <2>1. producer.held + srv'.grants + Len(wire) = srv'.out
    BY <1>2, KeptSum
  <2>2. producer.held \in Nat /\ Len(wire) \in Nat /\ srv'.grants \in Nat /\ srv'.out \in Nat
    BY <1>0, <1>3
  <2>3. PICK h \in Nat, g \in Nat, n \in Nat, o \in Nat :
            h = producer.held /\ g = srv'.grants /\ n = Len(wire) /\ o = srv'.out
    BY <2>2
  <2>4. h + g + n = o
    BY <2>1, <2>3
  <2>5. (h - 1) + g + (n + 1) = o
    BY <2>4
  <2>. QED
    BY <2>3, <2>5
<1>8. producer.sent + 1 = srv.last + (Len(wire) + 1)
  <2>1. srv.last \in Nat /\ Len(wire) \in Nat /\ producer.sent = srv.last + Len(wire)
    BY <1>0
  <2>. QED
    BY <2>1
<1>6. Numbered'
  <2>1. ASSUME NEW i \in 1 .. Len(wire') PROVE wire'[i].n = srv.last + i
    <3>1. CASE i \in 1 .. Len(wire)
      BY <1>0, <1>4, <3>1
    <3>2. CASE i = Len(wire) + 1
      <4>1. p.n = srv.last + (Len(wire) + 1)
        BY <1>1, <1>8
      <4>. QED
        BY <1>4, <3>2, <4>1
    <3>. QED
      BY <1>0, <1>4, <3>1, <3>2
  <2>. QED
    BY <1>1, <1>3, <1>4, <1>8, <2>1 DEF Numbered
<1>7. EligibleEpoch'
    BY <1>1, <1>2 DEF EligibleEpoch, Keeps, RelayInv, Account
<1>. QED
    BY <1>1, <1>3, <1>4, <1>5, <1>6, <1>7 DEF Account

\* Granted credit reaches the producer.
LEMMA ReceiveAccount ==
    ASSUME RelayInv, ReceiveCredit
    PROVE  Account'
<1>. USE DEF RelayInv, Account
<1>1. /\ producer' = [producer EXCEPT !.held = @ + srv.grants]
      /\ srv' = [srv EXCEPT !.grants = 0] /\ UNCHANGED <<wire, ingest>>
    BY DEF ReceiveCredit
<1>2. /\ srv \in Presenter /\ srv' \in Presenter /\ srv'.grants = 0
      /\ srv'.out = srv.out /\ srv'.charged = srv.charged /\ srv'.deliveries = srv.deliveries
      /\ srv'.last = srv.last /\ srv'.desync = srv.desync
      /\ srv'.epoch = srv.epoch /\ srv'.min = srv.min
    BY <1>1 DEF Sound, Presenter
<1>3. /\ producer'.held = producer.held + srv.grants /\ producer'.sent = producer.sent
      /\ producer.held \in Nat
    BY <1>1 DEF PathTypes
<1>4. srv.grants \in Nat /\ srv.out \in Nat /\ Len(wire) \in Nat
    BY <1>2, LenProperties DEF Presenter, PathTypes
<1>5. Sound(srv)'
    BY <1>2 DEF Sound
<1>6. Numbered' /\ EligibleEpoch'
    BY <1>1, <1>2, <1>3 DEF Numbered, EligibleEpoch
<1>. QED
    BY <1>1, <1>2, <1>3, <1>4, <1>5, <1>6

\* A record is charged, and is being delivered or its credit comes back.
LEMMA IngestAccount ==
    ASSUME RelayInv, IngestRecord
    PROVE  Account'
<1>. USE DEF RelayInv, Account
<1>. DEFINE p == Head(wire)
            recovered == srv.desync /\ p.epoch >= srv.min /\ p.key
            forward == srv.projected /\ (recovered \/ ~srv.desync)
            queued == /\ forward
                      /\ \/ srv.deliveries = {}
                         \/ Cardinality(srv.deliveries) < QueueBudget
            pending == IF recovered THEN None ELSE srv.pending
            flushed == srv.flushed /\ ~recovered
            desync == (~recovered /\ (srv.desync \/ ~srv.projected)) \/ (forward /\ ~queued)
            deliveries == IF queued THEN srv.deliveries \cup {p.n} ELSE srv.deliveries
            charged == [srv EXCEPT
                !.out = @ - 1, !.charged = @ + 1, !.epoch = p.epoch, !.last = p.n,
                !.pending = pending, !.flushed = flushed, !.desync = desync,
                !.deliveries = deliveries]
<1>1. /\ wire # <<>> /\ srv.out > 0 /\ p.epoch >= srv.epoch /\ wire' = Tail(wire)
      /\ srv' = IF queued THEN charged ELSE prepare_credit_return(charged, 1)
      /\ ingest' = IF queued THEN [do |-> "send", packet |-> p]
                   ELSE IF forward THEN [do |-> "request"] ELSE Idle
      /\ UNCHANGED producer
    BY DEF IngestRecord
<1>2. /\ Len(wire) \in Nat \ {0} /\ Len(wire') = Len(wire) - 1 /\ p = wire[1]
      /\ \A i \in 1 .. Len(wire') : wire'[i] = wire[i + 1]
      /\ p \in Packets
    BY <1>1, HeadTailProperties, LenProperties, EmptySeq DEF PathTypes
<1>3. /\ srv \in Presenter /\ srv.out \in Nat /\ srv.charged \in Nat /\ srv.grants \in Nat
      /\ srv.last \in Nat /\ srv.epoch \in Nat /\ srv.min \in Nat
      /\ {srv.desync, srv.flushed, srv.projected} \subseteq BOOLEAN
      /\ srv.pending \in {None} \cup Reasons
      /\ srv.deliveries \subseteq 1 .. MaxPackets
    BY DEF Sound, Presenter
<1>4. p.n = srv.last + 1 /\ p.n \in 1 .. MaxPackets /\ p.epoch \in Nat
    BY <1>2, MessageKinds DEF Numbered
<1>5. recovered \in BOOLEAN /\ forward \in BOOLEAN /\ queued \in BOOLEAN
    OBVIOUS
<1>. HIDE DEF p
<1>6. /\ pending \in {None} \cup Reasons /\ flushed \in BOOLEAN /\ desync \in BOOLEAN
      /\ deliveries \subseteq 1 .. MaxPackets
    BY <1>3, <1>4
<1>7. /\ ~desync => (recovered /\ p.epoch >= srv.min) \/ ~srv.desync
      /\ deliveries = IF queued THEN srv.deliveries \cup {p.n} ELSE srv.deliveries
    BY <1>3, <1>5
<1>. HIDE DEF pending, flushed, desync, deliveries, recovered, forward, queued
<1>8. /\ charged \in Presenter
      /\ charged.out = srv.out - 1 /\ charged.charged = srv.charged + 1
      /\ charged.grants = srv.grants /\ charged.last = p.n /\ charged.epoch = p.epoch
      /\ charged.min = srv.min /\ charged.desync = desync /\ charged.deliveries = deliveries
  <2>. DEFINE o == srv.out - 1
              c == srv.charged + 1
              e == p.epoch
              l == p.n
  <2>1. o \in Nat /\ c \in Nat /\ e \in Nat /\ l \in Nat
    <3>1. srv.last + 1 \in Nat /\ srv.out - 1 \in Nat /\ srv.charged + 1 \in Nat
      BY <1>1, <1>3
    <3>. QED
      BY <1>4, <3>1
  <2>2. charged = [srv EXCEPT
            !.out = o, !.charged = c, !.epoch = e, !.last = l,
            !.pending = pending, !.flushed = flushed, !.desync = desync,
            !.deliveries = deliveries]
    OBVIOUS
  <2>. HIDE DEF o, c, e, l, charged
  <2>3. /\ charged \in Presenter
        /\ charged.out = o /\ charged.charged = c
        /\ charged.grants = srv.grants /\ charged.last = l /\ charged.epoch = e
        /\ charged.min = srv.min /\ charged.desync = desync /\ charged.deliveries = deliveries
    <3>. DEFINE u == [srv EXCEPT !.out = o, !.charged = c, !.epoch = e, !.last = l]
    <3>1. /\ u \in Presenter /\ u.out = o /\ u.charged = c /\ u.last = l /\ u.epoch = e
          /\ u.grants = srv.grants /\ u.min = srv.min
      BY <1>3, <2>1 DEF Presenter
    <3>2. charged = [u EXCEPT !.pending = pending, !.flushed = flushed, !.desync = desync,
                              !.deliveries = deliveries]
      BY <1>3, <2>2 DEF Presenter
    <3>. HIDE DEF u
    <3>3. /\ charged \in Presenter
          /\ charged.out = u.out /\ charged.charged = u.charged
          /\ charged.grants = u.grants /\ charged.last = u.last /\ charged.epoch = u.epoch
          /\ charged.min = u.min /\ charged.desync = desync
          /\ charged.deliveries = deliveries
      BY <1>6, <3>1, <3>2 DEF Presenter
    <3>. QED
      BY <3>1, <3>3
  <2>. QED
    BY <2>3 DEF o, c, e, l
<1>. HIDE DEF charged
<1>9. /\ IsFiniteSet(srv.deliveries) /\ p.n \notin srv.deliveries
      /\ Cardinality(srv.deliveries) = srv.charged
      /\ srv.out + srv.charged <= RollingCredits
      /\ \A n \in srv.deliveries : n \in Nat /\ n <= srv.last
  <2>1. \A n \in srv.deliveries : n \in Nat /\ n <= srv.last
    BY <1>3 DEF Sound
  <2>. QED
    BY <1>3, <1>4, <2>1, Finite DEF Sound
<1>10. /\ Sound(srv') /\ srv'.last = p.n /\ srv'.out + srv.grants = srv.out - 1 + srv'.grants
       /\ srv'.desync = desync /\ srv'.epoch = p.epoch /\ srv'.min = srv.min
  <2>1. CASE queued
    <3>1. Cardinality(deliveries) = srv.charged + 1
      BY <1>7, <1>9, <2>1, FS_AddElement
    <3>2. /\ charged.charged = Cardinality(charged.deliveries)
          /\ charged.out + charged.charged <= RollingCredits
      BY <1>3, <1>8, <1>9, <3>1, ConstantTypes
    <3>3. \A n \in charged.deliveries : n <= charged.last
      BY <1>3, <1>4, <1>7, <1>8, <1>9, <2>1
    <3>4. Sound(charged)
      BY <1>8, <3>2, <3>3 DEF Sound
    <3>. QED
      BY <1>1, <1>8, <2>1, <3>4
  <2>2. CASE ~queued
    <3>. DEFINE r == prepare_credit_return(charged, 1)
    <3>1. 1 <= charged.charged /\ charged.out + charged.charged <= RollingCredits
      BY <1>1, <1>3, <1>8, <1>9
    <3>2. /\ r \in Presenter
          /\ r.charged = charged.charged - 1
          /\ r.out + r.charged <= RollingCredits
          /\ r.out + charged.grants = charged.out + r.grants
          /\ r.deliveries = charged.deliveries /\ r.last = charged.last
          /\ r.desync = charged.desync /\ r.epoch = charged.epoch /\ r.min = charged.min
      BY <1>8, <3>1, CreditReturn
    <3>. HIDE DEF r
    <3>3. Sound(r)
      BY <1>3, <1>4, <1>7, <1>8, <1>9, <2>2, <3>2 DEF Sound
    <3>. QED
      BY <1>1, <1>8, <2>2, <3>2, <3>3 DEF r
  <2>. QED
    BY <2>1, <2>2
<1>11. srv'.grants \in Nat /\ srv'.out \in Nat /\ producer.held \in Nat
    BY <1>10 DEF Sound, Presenter, PathTypes
<1>12. producer.held + srv'.grants + (Len(wire) - 1) = srv'.out
  <2>1. /\ producer.held + srv.grants + Len(wire) = srv.out
        /\ producer.held \in Nat /\ srv.grants \in Nat /\ srv.out \in Nat /\ Len(wire) \in Nat
    BY Numbers
  <2>2. /\ srv'.out + srv.grants = srv.out - 1 + srv'.grants
        /\ srv'.grants \in Nat /\ srv'.out \in Nat
    BY <1>10, <1>11
  <2>3. PICK h \in Nat, g \in Nat, n \in Nat, o \in Nat, q \in Nat, u \in Nat :
            /\ h = producer.held /\ g = srv.grants /\ n = Len(wire) /\ o = srv.out
            /\ q = srv'.grants /\ u = srv'.out
    BY <2>1, <2>2
  <2>4. h + g + n = o /\ u + g = o - 1 + q
    BY <2>1, <2>2, <2>3
  <2>5. h + q + (n - 1) = u
    BY <2>4
  <2>. QED
    BY <2>3, <2>5
<1>13. Numbered'
  <2>1. ASSUME NEW i \in 1 .. Len(wire') PROVE wire'[i].n = p.n + i
    <3>1. i + 1 \in 1 .. Len(wire) /\ wire'[i] = wire[i + 1]
      BY <1>2
    <3>2. wire[i + 1].n = srv.last + (i + 1)
      BY <3>1, Numbers
    <3>3. srv.last + (i + 1) = (srv.last + 1) + i
      <4>1. srv.last \in Nat /\ i \in Int
        BY <1>3
      <4>. QED
        BY <4>1
    <3>. QED
      BY <1>4, <3>1, <3>2, <3>3
  <2>2. producer.sent = srv.last + Len(wire)
    BY DEF Numbered
  <2>3. srv.last + Len(wire) = p.n + Len(wire')
    <3>1. srv.last \in Nat /\ Len(wire) \in Nat
      BY <1>2, <1>3
    <3>2. p.n = srv.last + 1 /\ Len(wire') = Len(wire) - 1
      BY <1>2, <1>4
    <3>. QED
      BY <3>1, <3>2
  <2>4. producer'.sent = producer.sent /\ srv'.last = p.n
    BY <1>1, <1>10
  <2>. QED
    BY <2>1, <2>2, <2>3, <2>4 DEF Numbered
<1>14. EligibleEpoch'
  <2>1. ~desync => p.epoch >= srv.min
    BY <1>1, <1>3, <1>4, <1>7 DEF EligibleEpoch
  <2>2. ingest'.do = "send" => ingest'.packet = p
    BY <1>1 DEF Idle
  <2>. QED
    BY <1>10, <2>1, <2>2 DEF EligibleEpoch
<1>. QED
    BY <1>1, <1>2, <1>10, <1>12, <1>13, <1>14 DEF Account

\* Every step keeps the account.
LEMMA StepAccount == RelayInv /\ [Next]_vars => Account'
<1>. SUFFICES ASSUME RelayInv, [Next]_vars PROVE Account'
    OBVIOUS
<1>0. PathTypes /\ Sound(srv) /\ Keeps(srv, srv)
    BY KeepsNone DEF RelayInv, Account
<1>1. CASE IngestSend \/ IngestRequest
  <2>1. SameEnds
    BY <1>1 DEF IngestSend, IngestRequest, Idle, SameEnds
  <2>. QED
    BY <1>0, <1>1, <2>1, IngestKeeps, KeptAccount
<1>2. CASE Control
  <2>1. SameEnds
    BY <1>0, <1>2 DEF Control, Play, Pause, Flush, Eos, EosWaits, CancelDeliveries, PathTypes,
                      SameEnds
  <2>. QED
    BY <1>0, <1>2, <2>1, ControlKeeps, KeptAccount
<1>3. CASE Actor
  <2>1. SameEnds
    BY <1>3 DEF Actor, ChangeLayout, IdleSync, Attach, Detach, ClientLost, Gone, ForwardMedia,
                HandleMessage, ActorRequest, ActorResync, SameEnds
  <2>. QED
    BY <1>0, <1>3, <2>1, ActorKeeps, KeptAccount
<1>4. ASSUME UNCHANGED <<producer, wire, srv, ingest>> PROVE Account'
  <2>1. SameEnds /\ Keeps(srv, srv')
    BY <1>0, <1>4 DEF SameEnds
  <2>. QED
    BY <2>1, KeptAccount
<1>5. CASE ClientReads \/ Worker \/ OuterWrites \/ OuterWriteFails \/ OuterLosesSource
           \/ OuterNeedsKeyframe \/ UNCHANGED vars
  <2>1. UNCHANGED <<producer, wire, srv, ingest>>
    BY <1>5 DEF ClientReads, Worker, WorkerApplies, WorkerApplyFails, WorkerCompletes,
         WorkerDropped, WorkerTakes, WorkerRejects, WorkerForwards, OuterWrites,
         OuterWriteFails, OuterLosesSource, OuterNeedsKeyframe, vars
  <2>. QED
    BY <1>4, <2>1
<1>6. CASE \/ \E p \in Packets : ProducerSend(p)
           \/ ReceiveCredit \/ IngestRecord
    BY <1>6, SendAccount, ReceiveAccount, IngestAccount
<1>. QED
    BY <1>1, <1>2, <1>3, <1>5, <1>6 DEF Next

----------------------------------------------------------------------------
(* The types of the path through the steps. *)

\* The queues stay sequences of what they hold.
LEMMA QueueTypes ==
    ASSUME NEW S, NEW q \in Seq(S)
    PROVE  /\ Len(q) \in Nat /\ <<>> \in Seq(S) /\ Len(<<>>) = 0
           /\ q # <<>> => /\ Head(q) \in S /\ Tail(q) \in Seq(S) /\ Len(Tail(q)) = Len(q) - 1
           /\ \A e \in S : Append(q, e) \in Seq(S) /\ Len(Append(q, e)) = Len(q) + 1
           /\ \A r \in Seq(S) : q \o r \in Seq(S)
           /\ \A e \in S : <<e>> \in Seq(S)
BY LenProperties, EmptySeq, HeadTailProperties, AppendProperties, ConcatProperties

\* From the producer to the actor's queue.
LEMMA SourcePath ==
    ASSUME PathTypes,
           \/ \E p \in Packets : ProducerSend(p)
           \/ ReceiveCredit \/ IngestRecord \/ IngestSend \/ IngestRequest,
           srv.grants \in Nat
    PROVE  PathTypes'
<1>0. /\ producer \in [held : Nat, sent : Nat, epoch : Nat, fresh : BOOLEAN]
      /\ wire \in Seq(Packets) /\ ingest \in Handed
      /\ events \in Seq(Packets) /\ Len(events) <= EventQueue
    BY DEF PathTypes
<1>1. ASSUME /\ producer' \in [held : Nat, sent : Nat, epoch : Nat, fresh : BOOLEAN]
             /\ wire' \in Seq(Packets) /\ ingest' \in Handed
             /\ events' \in Seq(Packets) /\ Len(events') <= EventQueue
             /\ UNCHANGED <<control, to_client, client, worker, outer, to_server>>
      PROVE  PathTypes'
    BY <1>1 DEF PathTypes
<1>. HIDE DEF PathTypes
<1>2. ASSUME NEW p \in Packets, ProducerSend(p) PROVE PathTypes'
  <2>1. p.n \in Nat /\ p.epoch \in Nat
    BY MessageKinds
  <2>2. producer.held \in Nat /\ producer.held > 0
    BY <1>0, <1>2 DEF ProducerSend
  <2>3. producer.held - 1 \in Nat
    BY <2>2
  <2>4. producer' = [producer EXCEPT !.held = producer.held - 1, !.sent = p.n,
                                     !.epoch = p.epoch, !.fresh = FALSE]
    BY <1>2 DEF ProducerSend
  <2>5. producer' \in [held : Nat, sent : Nat, epoch : Nat, fresh : BOOLEAN]
    BY <1>0, <2>1, <2>3, <2>4
  <2>6. wire' \in Seq(Packets)
    BY <1>0, <1>2, QueueTypes DEF ProducerSend
  <2>. QED
    BY <1>0, <1>1, <1>2, <2>5, <2>6 DEF ProducerSend
<1>3. CASE ReceiveCredit
  <2>1. producer.held \in Nat
    BY <1>0
  <2>2. producer.held + srv.grants \in Nat
    BY <2>1
  <2>3. producer' = [producer EXCEPT !.held = producer.held + srv.grants]
    BY <1>3 DEF ReceiveCredit
  <2>4. producer' \in [held : Nat, sent : Nat, epoch : Nat, fresh : BOOLEAN]
    BY <1>0, <2>2, <2>3
  <2>. QED
    BY <1>0, <1>1, <1>3, <2>4 DEF ReceiveCredit
<1>4. CASE IngestRecord
  <2>1. /\ wire # <<>> /\ wire' = Tail(wire)
        /\ ingest' \in {[do |-> "send", packet |-> Head(wire)], [do |-> "request"], Idle}
    BY <1>4 DEF IngestRecord
  <2>2. Head(wire) \in Packets /\ wire' \in Seq(Packets)
    BY <1>0, <2>1, QueueTypes
  <2>3. ingest' \in Handed
    BY <2>1, <2>2 DEF Handed
  <2>. QED
    BY <1>0, <1>1, <1>4, <2>2, <2>3 DEF IngestRecord
<1>5. CASE IngestSend
  <2>1. /\ ingest.do = "send" /\ ingest' \in {Idle, [do |-> "request"]}
        /\ events' = IF Len(events) < EventQueue THEN Append(events, ingest.packet) ELSE events
        /\ UNCHANGED <<producer, wire, control, to_client, client, worker, outer, to_server>>
    BY <1>5 DEF IngestSend
  <2>2. ingest.packet \in Packets
    BY <1>0, <2>1, MessageKinds
  <2>3. events' \in Seq(Packets) /\ Len(events') <= EventQueue
    BY <1>0, <2>1, <2>2, QueueTypes, ConstantTypes
  <2>4. ingest' \in Handed
    BY <2>1 DEF Handed
  <2>. QED
    BY <1>0, <1>1, <2>1, <2>3, <2>4
<1>6. CASE IngestRequest
    BY <1>0, <1>1, <1>6 DEF IngestRequest, Handed
<1>. QED
    BY <1>2, <1>3, <1>4, <1>5, <1>6

\* The control connection.
LEMMA ControlPath ==
    ASSUME PathTypes, Control
    PROVE  PathTypes'
<1>0. /\ producer \in [held : Nat, sent : Nat, epoch : Nat, fresh : BOOLEAN]
      /\ control \in ControlTasks
    BY DEF PathTypes
<1>1. ASSUME /\ producer' \in [held : Nat, sent : Nat, epoch : Nat, fresh : BOOLEAN]
             /\ control' \in ControlTasks
             /\ UNCHANGED <<wire, ingest, events, to_client, client, worker, outer, to_server>>
      PROVE  PathTypes'
    BY <1>1 DEF PathTypes
<1>. HIDE DEF PathTypes
<1>2. CASE Play
    BY <1>0, <1>1, <1>2 DEF Play
<1>3. CASE Pause
    BY <1>0, <1>1, <1>3 DEF Pause, ControlTasks
<1>4. CASE Eos
    BY <1>0, <1>1, <1>4 DEF Eos, ControlTasks
<1>5. CASE EosWaits
  <2>1. [do |-> "eos"] \in ControlTasks
    BY DEF ControlTasks
  <2>. QED
    BY <1>0, <1>1, <1>5, <2>1 DEF EosWaits
<1>6. CASE Flush
  <2>1. control.epoch \in Nat
    BY <1>0, <1>6, MessageKinds DEF Flush
  <2>2. producer' = [producer EXCEPT !.epoch = control.epoch, !.fresh = TRUE]
    BY <1>6 DEF Flush
  <2>3. producer' \in [held : Nat, sent : Nat, epoch : Nat, fresh : BOOLEAN]
    BY <1>0, <2>1, <2>2
  <2>. QED
    BY <1>1, <1>6, <2>3 DEF Flush, ControlTasks
<1>7. ASSUME NEW next \in ControlTasks, CancelDeliveries(next) PROVE PathTypes'
    BY <1>0, <1>1, <1>7 DEF CancelDeliveries
<1>8. [do |-> "pause"] \in ControlTasks
    BY DEF ControlTasks
<1>9. \A e \in 0 .. MaxEpoch : [do |-> "flush", epoch |-> e] \in ControlTasks
    BY ConstantTypes DEF ControlTasks
<1>. QED
    BY <1>2, <1>3, <1>4, <1>5, <1>6, <1>7, <1>8, <1>9 DEF Control

\* A client that has just attached, and its bridge, have nothing.
LEMMA NewTypes ==
    /\ FreshClient \in Clients /\ Len(FreshClient.queue) <= ClientQueue
    /\ FreshWorker \in Workers
    /\ NoSource \in Outers /\ Len(NoSource.queue) <= WriterQueue
    /\ <<>> \in Seq(Acks \cup Needs \cup {Retry})
    /\ <<>> \in Seq(Snapshots \cup Media)
<1>1. /\ <<>> \in Seq(Queued) /\ <<>> \in Seq(Packets) /\ <<>> \in Seq(Acks)
      /\ Len(<<>>) = 0 /\ {} \in SUBSET Nat
    BY EmptySeq
<1>2. FreshClient \in Clients /\ FreshClient.queue = <<>>
    BY <1>1 DEF FreshClient, Clients
<1>3. FreshWorker \in Workers
    BY DEF FreshWorker, Workers
<1>4. NoSource \in Outers /\ NoSource.queue = <<>>
    BY <1>1 DEF NoSource, Outers
<1>5. Len(FreshClient.queue) <= ClientQueue /\ Len(NoSource.queue) <= WriterQueue
    BY <1>1, <1>2, <1>4, ConstantTypes
<1>. QED
    BY <1>2, <1>3, <1>4, <1>5, EmptySeq

\* The session actor.
LEMMA ActorPath ==
    ASSUME PathTypes, Sound(srv), Actor
    PROVE  PathTypes'
<1>0. /\ events \in Seq(Packets) /\ Len(events) <= EventQueue
      /\ to_client \in Seq(Snapshots \cup Media)
      /\ client \in Clients /\ Len(client.queue) <= ClientQueue
      /\ worker \in Workers
      /\ outer \in Outers /\ Len(outer.queue) <= WriterQueue
      /\ to_server \in Seq(Acks \cup Needs \cup {Retry})
    BY DEF PathTypes
<1>1. ASSUME /\ events' \in Seq(Packets) /\ Len(events') <= EventQueue
             /\ to_client' \in Seq(Snapshots \cup Media)
             /\ to_server' \in Seq(Acks \cup Needs \cup {Retry})
             /\ UNCHANGED <<client, worker, outer>> \/ NewClient
             /\ UNCHANGED <<producer, wire, ingest, control>>
      PROVE  PathTypes'
  <2>1. /\ client' \in Clients /\ Len(client'.queue) <= ClientQueue
        /\ worker' \in Workers
        /\ outer' \in Outers /\ Len(outer'.queue) <= WriterQueue
    BY <1>0, <1>1, NewTypes DEF NewClient
  <2>. QED
    BY <1>1, <2>1 DEF PathTypes
<1>2. \A force \in BOOLEAN : SyncMessages(srv, force) \in Seq(Snapshots \cup Media)
    BY SyncKeeps
<1>3. \A force \in BOOLEAN : to_client \o SyncMessages(srv, force) \in Seq(Snapshots \cup Media)
    BY <1>0, <1>2, QueueTypes
<1>. HIDE DEF PathTypes
<1>4. CASE ChangeLayout \/ ActorRequest
    BY <1>0, <1>1, <1>4 DEF ChangeLayout, ActorRequest
<1>5. CASE IdleSync \/ ActorResync
    BY <1>0, <1>1, <1>3, <1>5 DEF IdleSync, ActorResync
<1>6. CASE Attach
  <2>. DEFINE s == [srv EXCEPT !.attached = TRUE]
  <2>1. Keeps(srv, s)
    BY FlagChange, Zenon
  <2>2. Sound(s)
    BY <2>1 DEF Keeps
  <2>3. to_client' = SyncMessages(s, TRUE)
    BY <1>6 DEF Attach
  <2>. HIDE DEF s
  <2>4. to_client' \in Seq(Snapshots \cup Media)
    BY <2>2, <2>3, SyncKeeps
  <2>5. to_server' \in Seq(Acks \cup Needs \cup {Retry})
    BY <1>6, NewTypes DEF Attach, NewClient
  <2>. QED
    BY <1>0, <1>1, <1>6, <2>4, <2>5 DEF Attach
<1>7. CASE Detach \/ ClientLost
  <2>1. Gone
    BY <1>7 DEF Detach, ClientLost
  <2>2. /\ to_client' = <<>> /\ NewClient
        /\ UNCHANGED <<producer, wire, ingest, control, events>>
    BY <2>1 DEF Gone
  <2>3. /\ to_client' \in Seq(Snapshots \cup Media)
        /\ to_server' \in Seq(Acks \cup Needs \cup {Retry})
    BY <2>2, NewTypes DEF NewClient
  <2>. QED
    BY <1>0, <1>1, <2>2, <2>3
<1>8. ASSUME NEW sent \in BOOLEAN, ForwardMedia(sent) PROVE PathTypes'
  <2>. DEFINE m == IF sent THEN <<[type |-> "media", packet |-> Head(events)]>> ELSE <<>>
  <2>1. /\ events # <<>> /\ events' = Tail(events)
        /\ to_client' = to_client \o SyncMessages(srv, FALSE) \o m
        /\ UNCHANGED <<producer, wire, ingest, control, client, worker, outer, to_server>>
    BY <1>8 DEF ForwardMedia
  <2>2. /\ Head(events) \in Packets /\ events' \in Seq(Packets)
        /\ Len(events') <= EventQueue
    <3>1. /\ Head(events) \in Packets /\ events' \in Seq(Packets)
          /\ Len(events') = Len(events) - 1 /\ Len(events) \in Nat
      BY <1>0, <2>1, QueueTypes
    <3>. QED
      BY <1>0, <3>1, ConstantTypes
  <2>3. [type |-> "media", packet |-> Head(events)] \in Snapshots \cup Media
    BY <2>2 DEF Media
  <2>4. m \in Seq(Snapshots \cup Media)
    BY <1>0, <2>3, NewTypes, QueueTypes
  <2>. HIDE DEF m
  <2>5. to_client' \in Seq(Snapshots \cup Media)
    <3>. DEFINE q == to_client \o SyncMessages(srv, FALSE)
    <3>1. q \in Seq(Snapshots \cup Media) /\ to_client' = q \o m
      BY <1>3, <2>1
    <3>. HIDE DEF q
    <3>. QED
      BY <2>4, <3>1, QueueTypes
  <2>. QED
    BY <1>0, <1>1, <2>1, <2>2, <2>5
<1>9. CASE HandleMessage
  <2>1. /\ to_server # <<>> /\ to_server' = Tail(to_server)
        /\ to_client' \in {to_client, to_client \o SyncMessages(srv, TRUE)}
        /\ UNCHANGED <<producer, wire, ingest, control, events, client, worker, outer>>
    BY <1>9 DEF HandleMessage
  <2>2. to_server' \in Seq(Acks \cup Needs \cup {Retry})
    BY <1>0, <2>1, QueueTypes
  <2>3. to_client' \in Seq(Snapshots \cup Media)
    BY <1>0, <1>3, <2>1
  <2>. QED
    BY <1>0, <1>1, <2>1, <2>2, <2>3
<1>. QED
    BY <1>4, <1>5, <1>6, <1>7, <1>8, <1>9 DEF Actor

\* The client's reader, its bridge worker, and the outer session.
LEMMA ClientPath ==
    ASSUME PathTypes,
           ClientReads \/ Worker \/ OuterWrites \/ OuterWriteFails \/ OuterLosesSource
             \/ OuterNeedsKeyframe
    PROVE  PathTypes'
<1>. DEFINE Answers == Acks \cup Needs \cup {Retry}
<1>0. /\ to_client \in Seq(Snapshots \cup Media)
      /\ client \in Clients /\ Len(client.queue) <= ClientQueue
      /\ worker \in Workers
      /\ outer \in Outers /\ Len(outer.queue) <= WriterQueue
      /\ to_server \in Seq(Answers)
    BY DEF PathTypes
<1>1. ASSUME /\ to_client' \in Seq(Snapshots \cup Media)
             /\ client' \in Clients /\ Len(client'.queue) <= ClientQueue
             /\ worker' \in Workers
             /\ outer' \in Outers /\ Len(outer'.queue) <= WriterQueue
             /\ to_server' \in Seq(Answers)
             /\ UNCHANGED <<producer, wire, ingest, control, events>>
      PROVE  PathTypes'
    BY <1>1 DEF PathTypes
<1>. HIDE DEF PathTypes
<1>2. /\ client.gen \in Nat /\ client.gen + 1 \in Nat
      /\ client.queue \in Seq(Queued) /\ client.dropped \in SUBSET Nat
      /\ client.snapshot # None => /\ client.snapshot.gen \in Nat
                                   /\ client.snapshot.body \in Snapshots
    BY <1>0 DEF Clients
<1>3. /\ worker.deferred # None => worker.deferred \in Queued /\ worker.deferred.packet \in Packets
      /\ worker.min_gen \in Nat
    BY <1>0 DEF Workers, Queued
<1>4. /\ outer.queue \in Seq(Packets) /\ outer.done \in Seq(Acks) /\ outer.done \in Seq(Answers)
  <2>1. outer.queue \in Seq(Packets) /\ outer.done \in Seq(Acks)
    BY <1>0 DEF Outers
  <2>2. outer.done \in Seq(Answers)
    <3>1. \A i \in 1 .. Len(outer.done) : outer.done[i] \in Answers
      BY <2>1, ElementOfSeq
    <3>. QED
      BY <2>1, <3>1, SeqDef, LenProperties
  <2>. QED
    BY <2>1, <2>2
<1>5. \A n \in Nat, d \in BOOLEAN : Ack(n, d) \in Acks
    BY DEF Ack, Acks
<1>6. \A p \in Packets : p.n \in Nat /\ p \in Packets
    BY MessageKinds
<1>7. \A m \in Answers : Append(to_server, m) \in Seq(Answers)
    BY <1>0, QueueTypes
<1>8. Retry \in Answers /\ \A a \in Acks : a \in Answers
    OBVIOUS
<1>. HIDE DEF Answers
<1>9. CASE ClientReads
  <2>. DEFINE m == Head(to_client)
  <2>1. /\ to_client # <<>> /\ to_client' = Tail(to_client)
        /\ client' = IF m.type = "snapshot"
                     THEN [client EXCEPT !.gen = client.gen + 1,
                                         !.snapshot = [gen |-> client.gen + 1, body |-> m]]
                     ELSE IF Len(client.queue) < ClientQueue
                     THEN [client EXCEPT
                             !.queue = Append(client.queue, [gen |-> client.gen,
                                                             packet |-> m.packet])]
                     ELSE [client EXCEPT !.dropped = client.dropped \cup {m.packet.n}]
        /\ UNCHANGED <<producer, wire, ingest, control, events, worker, outer, to_server>>
    BY <1>9 DEF ClientReads
  <2>2. m \in Snapshots \cup Media /\ to_client' \in Seq(Snapshots \cup Media)
    BY <1>0, <2>1, QueueTypes
  <2>. HIDE DEF m
  <2>3. CASE m.type = "snapshot"
    <3>. DEFINE g == client.gen + 1
                b == [gen |-> g, body |-> m]
    <3>1. b \in [gen : Nat, body : Snapshots] /\ g \in Nat
      BY <1>2, <2>2, <2>3, MessageKinds
    <3>2. client' = [client EXCEPT !.gen = g, !.snapshot = b]
      BY <2>1, <2>3
    <3>. HIDE DEF g, b
    <3>3. client' \in Clients /\ client'.queue = client.queue
      BY <1>0, <3>1, <3>2 DEF Clients
    <3>. QED
      BY <1>0, <1>1, <2>1, <2>2, <3>3
  <2>4. CASE m.type # "snapshot" /\ Len(client.queue) < ClientQueue
    <3>. DEFINE e == [gen |-> client.gen, packet |-> m.packet]
                q == Append(client.queue, e)
    <3>1. e \in Queued
      BY <1>2, <2>2, <2>4, MessageKinds DEF Queued
    <3>2. client' = [client EXCEPT !.queue = q]
      BY <2>1, <2>4
    <3>. HIDE DEF e
    <3>3. q \in Seq(Queued) /\ Len(q) <= ClientQueue
      BY <1>2, <2>4, <3>1, QueueTypes, ConstantTypes
    <3>. HIDE DEF q
    <3>4. client' \in Clients /\ client'.queue = q
      BY <1>0, <3>2, <3>3 DEF Clients
    <3>. QED
      BY <1>0, <1>1, <2>1, <2>2, <3>3, <3>4
  <2>5. CASE m.type # "snapshot" /\ ~(Len(client.queue) < ClientQueue)
    <3>1. m.packet.n \in Nat
      BY <2>2, <2>5, MessageKinds
    <3>2. client' = [client EXCEPT !.dropped = client.dropped \cup {m.packet.n}]
      BY <2>1, <2>5
    <3>3. client' \in Clients /\ client'.queue = client.queue
      BY <1>0, <1>2, <3>1, <3>2 DEF Clients
    <3>. QED
      BY <1>0, <1>1, <2>1, <2>2, <3>3
  <2>. QED
    BY <2>3, <2>4, <2>5
<1>10. /\ [client EXCEPT !.snapshot = None] \in Clients
       /\ [client EXCEPT !.snapshot = None].queue = client.queue
    BY <1>0 DEF Clients
<1>11. ASSUME NEW rebuilt \in BOOLEAN, WorkerApplies(rebuilt) PROVE PathTypes'
  <2>. DEFINE body == client.snapshot.body
              gen == client.snapshot.gen
              sources == worker.force \/ body.present # worker.active
              replaced == sources /\ (worker.replace \/ rebuilt)
              recreated == sources /\ body.present /\ (replaced \/ ~outer.has)
              requests == IF recreated /\ body.playing THEN <<Need(None, "initial")>>
                          ELSE IF worker.lost THEN <<Need(None, "error")>>
                          ELSE IF body.need THEN <<Need(None, "loss")>>
                          ELSE <<>>
              present == body.present
              playing == present /\ body.playing
              min == IF recreated THEN gen ELSE IF sources /\ ~present THEN 0 ELSE worker.min_gen
              started == (worker.started /\ ~recreated /\ present) \/ playing
              done == IF replaced THEN <<>> ELSE outer.done
  <2>1. /\ client.snapshot # None
        /\ client' = [client EXCEPT !.snapshot = None]
        /\ worker' = [worker EXCEPT
               !.active = present, !.playing = playing, !.gen = gen, !.min_gen = min,
               !.started = started, !.force = FALSE, !.replace = FALSE, !.lost = FALSE]
        /\ outer' \in {[NoSource EXCEPT !.has = present, !.alive = present, !.done = done], outer}
        /\ to_server' = to_server \o requests
        /\ UNCHANGED <<producer, wire, ingest, control, events, to_client>>
    BY <1>11 DEF WorkerApplies
  <2>2. gen \in Nat /\ present \in BOOLEAN /\ playing \in BOOLEAN
    BY <1>2, <2>1 DEF Snapshots
  <2>3. min \in Nat
    BY <1>3, <2>2
  <2>4. started \in BOOLEAN
    OBVIOUS
  <2>5. done \in Seq(Acks)
    BY <1>4, EmptySeq
  <2>6. requests \in Seq(Answers)
    <3>1. \A reason \in Reasons : Need(None, reason) \in Answers
      BY DEF Need, Needs, Answers
    <3>2. <<>> \in Seq(Answers) /\ \A e \in Answers : <<e>> \in Seq(Answers)
      BY <1>0, QueueTypes
    <3>3. \A reason \in Reasons : <<Need(None, reason)>> \in Seq(Answers)
      BY <3>1, <3>2
    <3>4. requests \in {<<Need(None, "initial")>>, <<Need(None, "error")>>,
                        <<Need(None, "loss")>>, <<>>}
      OBVIOUS
    <3>. HIDE DEF requests
    <3>. QED
      BY <3>2, <3>3, <3>4 DEF Reasons
  <2>. HIDE DEF requests, present, playing, gen, min, started, done, body, sources, replaced,
                recreated
  <2>7. client' \in Clients /\ client'.queue = client.queue
    BY <1>10, <2>1
  <2>8. worker' \in Workers
    <3>1. worker' = [worker EXCEPT
               !.active = present, !.playing = playing, !.gen = gen, !.min_gen = min,
               !.started = started, !.force = FALSE, !.replace = FALSE, !.lost = FALSE]
      BY <2>1
    <3>. DEFINE w == [worker EXCEPT !.force = FALSE, !.replace = FALSE, !.lost = FALSE]
                v == [w EXCEPT !.active = present, !.playing = playing, !.started = started]
    <3>2. w \in Workers
      BY <1>0 DEF Workers
    <3>. HIDE DEF w
    <3>3. v \in Workers
      BY <2>2, <2>4, <3>2 DEF Workers
    <3>. HIDE DEF v
    <3>4. [v EXCEPT !.gen = gen, !.min_gen = min] \in Workers
      BY <2>2, <2>3, <3>3 DEF Workers
    <3>5. worker' = [v EXCEPT !.gen = gen, !.min_gen = min]
      BY <1>0, <3>1 DEF w, v, Workers
    <3>. QED
      BY <3>4, <3>5
  <2>9. outer' \in Outers /\ Len(outer'.queue) <= WriterQueue
    <3>1. [NoSource EXCEPT !.has = present, !.alive = present, !.done = done] \in Outers
      BY <2>2, <2>5, NewTypes DEF Outers
    <3>2. [NoSource EXCEPT !.has = present, !.alive = present, !.done = done].queue = NoSource.queue
      BY DEF NoSource
    <3>. QED
      BY <1>0, <2>1, <3>1, <3>2, NewTypes
  <2>10. to_server' \in Seq(Answers)
    BY <1>0, <2>1, <2>6, QueueTypes
  <2>. QED
    BY <1>0, <1>1, <2>1, <2>7, <2>8, <2>9, <2>10
<1>12. CASE WorkerApplyFails
  <2>1. /\ client' = [client EXCEPT !.snapshot = None]
        /\ worker' = [worker EXCEPT !.force = TRUE, !.replace = TRUE]
        /\ outer' \in {outer, [NoSource EXCEPT !.done = outer.done]}
        /\ to_server' = Append(to_server, Retry)
        /\ UNCHANGED <<producer, wire, ingest, control, events, to_client>>
    BY <1>12 DEF WorkerApplyFails
  <2>2. client' \in Clients /\ client'.queue = client.queue
    BY <1>0, <2>1 DEF Clients
  <2>3. worker' \in Workers
    BY <1>0, <2>1 DEF Workers
  <2>4. outer' \in Outers /\ Len(outer'.queue) <= WriterQueue
    <3>1. [NoSource EXCEPT !.done = outer.done] \in Outers
      BY <1>4, NewTypes DEF Outers
    <3>2. [NoSource EXCEPT !.done = outer.done].queue = NoSource.queue
      BY DEF NoSource
    <3>. QED
      BY <1>0, <2>1, <3>1, <3>2, NewTypes
  <2>. QED
    BY <1>0, <1>1, <1>7, <1>8, <2>1, <2>2, <2>3, <2>4
<1>13. CASE WorkerCompletes
  <2>1. /\ outer' = [outer EXCEPT !.done = <<>>] /\ to_server' = to_server \o outer.done
        /\ UNCHANGED <<producer, wire, ingest, control, events, to_client, client, worker>>
    BY <1>13 DEF WorkerCompletes
  <2>2. outer' \in Outers /\ outer'.queue = outer.queue
    BY <1>0, <2>1, EmptySeq DEF Outers
  <2>3. to_server' \in Seq(Answers)
    BY <1>0, <1>4, <2>1, QueueTypes
  <2>. QED
    BY <1>0, <1>1, <2>1, <2>2, <2>3
<1>14. CASE WorkerDropped
  <2>1. PICK n \in client.dropped :
          /\ client' = [client EXCEPT !.dropped = client.dropped \ {n}]
          /\ to_server' = Append(to_server, Ack(n, FALSE))
          /\ UNCHANGED <<producer, wire, ingest, control, events, to_client, worker, outer>>
    BY <1>14 DEF WorkerDropped
  <2>2. Ack(n, FALSE) \in Answers
    BY <1>2, <1>5, <1>8
  <2>3. client' \in Clients /\ client'.queue = client.queue
    BY <1>0, <1>2, <2>1 DEF Clients
  <2>. QED
    BY <1>0, <1>1, <1>7, <2>1, <2>2, <2>3
<1>15. CASE WorkerTakes
  <2>. DEFINE q == Tail(client.queue)
              d == Head(client.queue)
  <2>1. /\ client.queue # <<>>
        /\ worker' = [worker EXCEPT !.deferred = d] /\ client' = [client EXCEPT !.queue = q]
        /\ UNCHANGED <<producer, wire, ingest, control, events, to_client, outer, to_server>>
    BY <1>15 DEF WorkerTakes
  <2>2. d \in Queued /\ q \in Seq(Queued) /\ Len(q) <= ClientQueue
    <3>1. d \in Queued /\ q \in Seq(Queued) /\ Len(q) = Len(client.queue) - 1
          /\ Len(client.queue) \in Nat
      BY <1>2, <2>1, QueueTypes
    <3>. QED
      BY <1>0, <3>1, ConstantTypes
  <2>. HIDE DEF q, d
  <2>3. client' \in Clients /\ client'.queue = q
    BY <1>0, <2>1, <2>2 DEF Clients
  <2>4. worker' \in Workers
    BY <1>0, <2>1, <2>2 DEF Workers
  <2>. QED
    BY <1>0, <1>1, <2>1, <2>2, <2>3, <2>4
<1>16. ASSUME worker' = [worker EXCEPT !.deferred = None] PROVE worker' \in Workers
    BY <1>0, <1>16 DEF Workers
<1>17. CASE WorkerRejects
  <2>1. /\ worker.deferred # None /\ worker' = [worker EXCEPT !.deferred = None]
        /\ to_server' = Append(to_server, Ack(worker.deferred.packet.n, FALSE))
        /\ UNCHANGED <<producer, wire, ingest, control, events, to_client, client, outer>>
    BY <1>17 DEF WorkerRejects
  <2>2. Ack(worker.deferred.packet.n, FALSE) \in Answers
    BY <1>3, <1>5, <1>6, <1>8, <2>1
  <2>. QED
    BY <1>0, <1>1, <1>7, <1>16, <2>1, <2>2
<1>18. CASE WorkerForwards
  <2>. DEFINE p == worker.deferred.packet
              q == Append(outer.queue, p)
  <2>1. /\ worker.deferred # None /\ worker' = [worker EXCEPT !.deferred = None]
        /\ \/ /\ Len(outer.queue) < WriterQueue
              /\ outer' = [outer EXCEPT !.queue = q] /\ client' = client
           \/ outer' = outer /\ client' = [client EXCEPT !.dropped = client.dropped \cup {p.n}]
        /\ UNCHANGED <<producer, wire, ingest, control, events, to_client, to_server>>
    BY <1>18 DEF WorkerForwards
  <2>2. p \in Packets /\ p.n \in Nat
    BY <1>3, <1>6, <2>1
  <2>. HIDE DEF p
  <2>3. q \in Seq(Packets) /\ Len(q) = Len(outer.queue) + 1 /\ Len(outer.queue) \in Nat
    BY <1>4, <2>2, QueueTypes
  <2>. HIDE DEF q
  <2>4. outer' \in Outers /\ Len(outer'.queue) <= WriterQueue
    <3>1. [outer EXCEPT !.queue = q] \in Outers /\ [outer EXCEPT !.queue = q].queue = q
      BY <1>0, <2>3 DEF Outers
    <3>2. Len(outer.queue) < WriterQueue => Len(q) <= WriterQueue
      BY <2>3, ConstantTypes
    <3>. QED
      BY <1>0, <2>1, <3>1, <3>2
  <2>5. client' \in Clients /\ client'.queue = client.queue
    <3>1. /\ [client EXCEPT !.dropped = client.dropped \cup {p.n}] \in Clients
          /\ [client EXCEPT !.dropped = client.dropped \cup {p.n}].queue = client.queue
      BY <1>0, <1>2, <2>2 DEF Clients
    <3>. QED
      BY <1>0, <2>1, <3>1
  <2>. QED
    BY <1>0, <1>1, <1>16, <2>1, <2>4, <2>5
<1>19. CASE OuterWrites
  <2>. DEFINE p == Head(outer.queue)
              q == Tail(outer.queue)
              ok == Decodes(p)
              n == p.n
              done == Append(outer.done, Ack(n, TRUE))
  <2>1. /\ outer.queue # <<>>
        /\ outer' = [outer EXCEPT !.queue = q, !.ok = ok, !.last = n, !.done = done]
        /\ UNCHANGED <<producer, wire, ingest, control, events, to_client, client, worker,
                       to_server>>
    BY <1>19 DEF OuterWrites
  <2>2. /\ p \in Packets /\ q \in Seq(Packets) /\ Len(q) = Len(outer.queue) - 1
        /\ Len(outer.queue) \in Nat
    BY <1>4, <2>1, QueueTypes
  <2>3. ok \in BOOLEAN /\ n \in Nat
    <3>1. n \in Nat /\ p.key \in BOOLEAN
      BY <1>6, <2>2, MessageKinds
    <3>2. ok \in BOOLEAN
      BY <3>1 DEF Decodes
    <3>. QED
      BY <3>1, <3>2
  <2>. HIDE DEF p, q, ok, n
  <2>4. done \in Seq(Acks)
    BY <1>4, <1>5, <2>3, QueueTypes
  <2>. HIDE DEF done
  <2>5. outer' \in Outers /\ outer'.queue = q
    BY <1>0, <2>1, <2>2, <2>3, <2>4 DEF Outers
  <2>6. Len(q) <= WriterQueue
    BY <1>0, <2>2, ConstantTypes
  <2>. QED
    BY <1>0, <1>1, <2>1, <2>5, <2>6
<1>20. /\ WriterStops \in Outers /\ WriterStops.queue = <<>>
       /\ [WriterStops EXCEPT !.has = FALSE, !.ok = FALSE] \in Outers
       /\ [WriterStops EXCEPT !.has = FALSE, !.ok = FALSE].queue = <<>>
       /\ Len(<<>>) <= WriterQueue
  <2>. DEFINE done == IF outer.queue = <<>> THEN outer.done
                      ELSE Append(outer.done, Ack(Head(outer.queue).n, FALSE))
  <2>1. outer.queue # <<>> => Head(outer.queue) \in Packets
    BY <1>4, QueueTypes
  <2>2. outer.queue # <<>> => Ack(Head(outer.queue).n, FALSE) \in Acks
    BY <1>5, <1>6, <2>1
  <2>3. done \in Seq(Acks)
    BY <1>4, <2>2, QueueTypes
  <2>4. WriterStops = [outer EXCEPT !.alive = FALSE, !.queue = <<>>, !.done = done]
    BY DEF WriterStops
  <2>. HIDE DEF done
  <2>5. WriterStops \in Outers /\ WriterStops.queue = <<>>
    BY <1>0, <2>3, <2>4, EmptySeq DEF Outers
  <2>6. /\ [WriterStops EXCEPT !.has = FALSE, !.ok = FALSE] \in Outers
        /\ [WriterStops EXCEPT !.has = FALSE, !.ok = FALSE].queue = <<>>
    BY <2>5 DEF Outers
  <2>7. Len(<<>>) <= WriterQueue
    BY EmptySeq, ConstantTypes
  <2>. QED
    BY <2>5, <2>6, <2>7
<1>21. CASE OuterWriteFails
    BY <1>0, <1>1, <1>20, <1>21 DEF OuterWriteFails
<1>22. CASE OuterLosesSource
  <2>1. /\ worker' = [worker EXCEPT !.lost = TRUE, !.force = TRUE]
        /\ outer' = [WriterStops EXCEPT !.has = FALSE, !.ok = FALSE]
        /\ to_server' = Append(to_server, Retry)
        /\ UNCHANGED <<producer, wire, ingest, control, events, to_client, client>>
    BY <1>22 DEF OuterLosesSource
  <2>2. worker' \in Workers
    BY <1>0, <2>1 DEF Workers
  <2>. QED
    BY <1>0, <1>1, <1>7, <1>8, <1>20, <2>1, <2>2
<1>23. CASE OuterNeedsKeyframe
  <2>1. PICK min \in 0 .. MaxEpoch, reason \in {"initial", "error"} :
          /\ to_server' = Append(to_server, Need(min, reason))
          /\ UNCHANGED <<producer, wire, ingest, control, events, to_client, client, worker,
                         outer>>
    BY <1>23 DEF OuterNeedsKeyframe
  <2>2. Need(min, reason) \in Answers
    BY <2>1, ConstantTypes DEF Need, Needs, Reasons, Answers
  <2>. QED
    BY <1>0, <1>1, <1>7, <2>1, <2>2
<1>. QED
    BY <1>9, <1>11, <1>12, <1>13, <1>14, <1>15, <1>17, <1>18, <1>19, <1>21, <1>22, <1>23
       DEF Worker

\* Every step keeps the types of the path.
LEMMA StepPath == RelayInv /\ [Next]_vars => PathTypes'
<1>. SUFFICES ASSUME RelayInv, [Next]_vars PROVE PathTypes'
    OBVIOUS
<1>1. PathTypes /\ Sound(srv) /\ srv.grants \in Nat
    BY Numbers
<1>2. CASE UNCHANGED vars
    BY <1>1, <1>2 DEF PathTypes, vars
<1>3. CASE Next
    BY <1>1, <1>3, SourcePath, ControlPath, ActorPath, ClientPath DEF Next
<1>. QED
    BY <1>2, <1>3

----------------------------------------------------------------------------
(* The theorems. *)

\* A new source has the initial credit, none of it spent.
LEMMA InitRelay == Init => RelayInv
<1>. SUFFICES ASSUME Init PROVE RelayInv
    OBVIOUS
<1>1. /\ producer = [held |-> InitialCredits, sent |-> 0, epoch |-> 0, fresh |-> TRUE]
      /\ srv = [out |-> InitialCredits, charged |-> 0, grants |-> 0, desync |-> FALSE,
                pending |-> None, min |-> 0, epoch |-> 0, playing |-> FALSE,
                ended |-> FALSE, flushed |-> FALSE, last |-> 0, projected |-> TRUE,
                deliveries |-> {}, asked |-> None, attached |-> TRUE,
                visible |-> TRUE, synced |-> FALSE]
      /\ client = FreshClient /\ worker = FreshWorker /\ outer = NoSource
      /\ wire = <<>> /\ events = <<>> /\ to_client = <<>> /\ to_server = <<>>
      /\ ingest = Idle /\ control = Idle
    BY DEF Init
<1>2. /\ wire \in Seq(Packets) /\ events \in Seq(Packets)
      /\ Len(wire) = 0 /\ Len(events) = 0
    BY <1>1, EmptySeq
<1>3. PathTypes
  <2>1. producer \in [held : Nat, sent : Nat, epoch : Nat, fresh : BOOLEAN]
    BY <1>1, ConstantTypes
  <2>2. ingest \in Handed /\ control \in ControlTasks
    BY <1>1 DEF Handed, ControlTasks
  <2>3. Len(events) <= EventQueue
    BY <1>2, ConstantTypes
  <2>. QED
    BY <1>1, <1>2, <2>1, <2>2, <2>3, NewTypes DEF PathTypes
<1>4. Sound(srv)
  <2>1. srv \in Presenter
    BY <1>1, ConstantTypes DEF Presenter
  <2>2. srv.out = InitialCredits /\ srv.charged = 0 /\ srv.deliveries = {}
    BY <1>1
  <2>3. Cardinality({}) = 0
    BY FS_EmptySet
  <2>4. srv.out + srv.charged <= RollingCredits
    BY <2>2, ConstantTypes
  <2>. QED
    BY <2>1, <2>2, <2>3, <2>4 DEF Sound
<1>5. /\ producer.held = InitialCredits /\ producer.sent = 0
      /\ srv.out = InitialCredits /\ srv.grants = 0 /\ srv.last = 0
      /\ srv.epoch = 0 /\ srv.min = 0 /\ ingest.do = "idle"
    BY <1>1 DEF Idle
<1>6. Numbered
    BY <1>2, <1>5 DEF Numbered
<1>7. producer.held + srv.grants + Len(wire) = srv.out
    BY <1>2, <1>5, ConstantTypes
<1>8. EligibleEpoch
    BY <1>5 DEF EligibleEpoch
<1>. QED
    BY <1>3, <1>4, <1>6, <1>7, <1>8 DEF RelayInv, Account

\* The invariant holds in every state.
THEOREM RelayInvariant == Spec => []RelayInv
<1>1. RelayInv /\ [Next]_vars => RelayInv'
    BY StepAccount, StepPath DEF RelayInv
<1>. QED
    BY InitRelay, <1>1, PTL DEF Spec

\* What the runs check follows from it.
LEMMA RelayTypes == RelayInv => TypeOK
<1>. SUFFICES ASSUME RelayInv PROVE TypeOK
    OBVIOUS
<1>1. srv \in Presenter /\ PathTypes
    BY Numbers
<1>2. /\ {srv.out, srv.charged, srv.grants, srv.min, srv.epoch, srv.last} \subseteq Nat
      /\ {srv.desync, srv.playing, srv.ended, srv.flushed, srv.projected, srv.attached,
          srv.visible, srv.synced} \subseteq BOOLEAN
      /\ srv.pending \in {None} \cup Reasons
      /\ srv.deliveries \subseteq 1 .. MaxPackets
    BY <1>1 DEF Presenter
<1>. QED
    BY <1>1, <1>2 DEF TypeOK, PathTypes

\* prepare_credit_return and ingest_record conserve packet credit: for every window, and
\* however records, acknowledgements, cancellations and attaches are interleaved, what the
\* producer holds, what it was just granted and what it has sent are what the presenter
\* counts as outstanding, what is charged is what is being delivered, and together they
\* stay within ROLLING_PACKET_CREDITS.
THEOREM CreditConserved == Spec => []CreditExact
<1>1. RelayInv => CreditExact
    BY RelayTypes DEF RelayInv, Account, Sound, CreditExact
<1>. QED
    BY RelayInvariant, <1>1, PTL

\* A FLUSH and request_keyframe_recoveries raise the epoch a source must recover in, and
\* ingest_record ends the wait only with a keyframe of it: no source that is eligible for
\* forwarding, and no record that was found eligible and is about to be handed to the
\* session actor, is of an epoch that was abandoned.
THEOREM EpochsRespected == Spec => []EligibleEpoch
<1>1. RelayInv => EligibleEpoch
    BY DEF RelayInv, Account
<1>. QED
    BY RelayInvariant, <1>1, PTL

----------------------------------------------------------------------------
(* The repair of losses: the records on their way, and the inductive        *)
(* invariant.                                                               *)

\* What a sequence holds, and that it is in the order After: what may come after
\* each element.
Members(s) == {s[i] : i \in 1 .. Len(s)}
Sorted(s, After) == \A i, j \in 1 .. Len(s) : i < j => s[j] \in After[s[i]]

\* Records come in the order of their numbers, and no snapshot of a source that does
\* not play comes after a record.
PacketsAfter == [p \in Packets |-> {q \in Packets : p.n < q.n}]
QueuedAfter == [e \in Queued |-> {f \in Queued : e.packet.n < f.packet.n}]
MessagesAfter ==
    [m \in Snapshots \cup Media |->
        {k \in Snapshots \cup Media :
            m.type = "media" => IF k.type = "media" THEN m.packet.n < k.packet.n
                                ELSE k.playing}]

\* Where a record may be between the presenter and the outer writer.
Writing == Members(outer.queue)
Deferred == IF worker.deferred = None THEN {} ELSE {worker.deferred.packet}
CarriedBy(queue) == {e.packet : e \in Members(queue)}
Channelled == CarriedBy(client.queue)
MediaOf(messages) == {m.packet : m \in {k \in Members(messages) : k.type = "media"}}
Sending == MediaOf(to_client)
Waiting == Members(events)
Ingested == IF ingest.do = "send" THEN {ingest.packet} ELSE {}
OnTheWay == Writing \cup Deferred \cup Channelled \cup Sending \cup Waiting \cup Ingested

\* The records of each place were sent before those of the places behind it.
Ahead(A, B) == \A p \in A, q \in B : p.n < q.n
InTurn(A, B, C, D, E, F) ==
    /\ Ahead(A, B \cup C \cup D \cup E \cup F)
    /\ Ahead(B, C \cup D \cup E \cup F)
    /\ Ahead(C, D \cup E \cup F)
    /\ Ahead(D, E \cup F)
    /\ Ahead(E, F)

InOrder ==
    /\ Sorted(outer.queue, PacketsAfter) /\ Sorted(client.queue, QueuedAfter)
    /\ Sorted(to_client, MessagesAfter) /\ Sorted(events, PacketsAfter)
    /\ InTurn(Writing, Deferred, Channelled, Sending, Waiting, Ingested)
    /\ \A p \in OnTheWay : outer.last < p.n /\ p.n <= srv.last
    /\ outer.last <= srv.last

\* The records whose acknowledgement, of one or the other kind, is on its way back.
Answers == Members(to_server) \cup Members(outer.done)
Acked(delivered) == {m.n : m \in {k \in Answers : k.type = "ack" /\ k.delivered = delivered}}
Told == Acked(TRUE)
Lost == Acked(FALSE) \cup client.dropped

\* A record has one fate.
OneFate ==
    /\ \A n \in Told \cup Lost : n \in 1 .. srv.last /\ \A p \in OnTheWay : p.n # n
    /\ Told \cap Lost = {}

\* The producer's first record is a keyframe.
FirstIsKey ==
    /\ producer.sent = 0 => producer.fresh
    /\ \A i \in 1 .. Len(wire) : wire[i].n = 1 => wire[i].key

\* The snapshots the bridge worker has not applied yet.
Coming ==
    {m \in Members(to_client) : m.type = "snapshot"}
    \cup (IF client.snapshot = None THEN {} ELSE {client.snapshot.body})

\* An outer session that has to be rebuilt will be, when the next snapshot comes.
SourceKept ==
    /\ ~worker.active => ~outer.has
    /\ ~outer.has => worker.force \/ ~worker.active
    /\ worker.force => worker.replace \/ ~outer.has
    /\ worker.replace => worker.force
    /\ srv.attached /\ worker.force => Coming # {} \/ Retry \in Members(to_server)

\* A snapshot of a source that does not play comes before every record.
NothingYet == outer.queue = <<>> /\ outer.done = <<>> /\ ~outer.ok
BeforePlay ==
    /\ \A b \in Coming : b.playing \/ NothingYet
    /\ \A m \in Members(to_client) :
          m.type = "snapshot" => \/ m.playing
                                 \/ client.queue = <<>> /\ worker.deferred = None

\* The presenter waits for a keyframe, and the producer knows.
Asked == srv.desync /\ (srv.pending # None \/ srv.flushed)
Waits ==
    /\ srv.pending # None \/ srv.flushed => srv.desync
    /\ ~srv.playing => srv.last = 0 /\ (srv.desync => Asked)
    /\ control.do # "pause"
    /\ outer.ok => outer.last > 0

\* While a snapshot without the source is on its way, the pane stays hidden; and a pane
\* that is shown before its projection has no source to be removed.
Hiding ==
    srv.attached =>
        /\ \A b \in Coming : b.present \/ (~srv.visible /\ ~srv.projected)
        /\ srv.visible /\ ~srv.projected => ~srv.synced /\ ~worker.active /\ Coming = {}

\* Nothing needs repair, or a later step repairs it.
Recreates ==
    /\ srv.playing /\ \A b \in Coming : b.playing
    /\ ~outer.has \/ ~outer.alive \/ worker.replace
Excused == ~srv.attached \/ srv.ended \/ ~srv.projected \/ Recreates

\* A loss that the presenter will hear of.
Noticed ==
    \/ ingest.do = "request" \/ actor.do = "request" \/ control.do = "flush"
    \/ \E m \in Members(to_server) : m.type = "need"
Reported == Noticed \/ \E n \in srv.deliveries : n \in Lost

\* The records from k on are on their way, and the decoder can begin with k.
WholeFrom(k) ==
    /\ \A n \in k .. srv.last : n \in srv.deliveries /\ \E p \in OnTheWay : p.n = n
    /\ \/ \E p \in OnTheWay : p.n = k /\ p.key
       \/ outer.ok /\ k = outer.last + 1
       \/ srv.last = 0
Whole == ~srv.desync /\ \E k \in 1 .. srv.last + 1 : WholeFrom(k)

Repairs == Excused \/ Reported \/ Asked \/ Whole

Repairing ==
    InOrder /\ OneFate /\ FirstIsKey /\ SourceKept /\ BeforePlay /\ Waits /\ Hiding /\ Repairs
RepairInv == steady => Repairing

----------------------------------------------------------------------------
(* Sequences, their members and their order. *)

\* What the queue operations do to the members.
LEMMA MembersOf ==
    ASSUME NEW S, NEW q \in Seq(S)
    PROVE  /\ Members(q) \subseteq S
           /\ q = <<>> <=> Members(q) = {}
           /\ q # <<>> => /\ Head(q) \in Members(q) /\ Tail(q) \in Seq(S)
                          /\ Members(q) = Members(Tail(q)) \cup {Head(q)}
           /\ \A e \in S : Members(Append(q, e)) = Members(q) \cup {e}
           /\ \A r \in Seq(S) : Members(q \o r) = Members(q) \cup Members(r)
           /\ Members(<<>>) = {}
<1>0. Len(q) \in Nat /\ \A i \in 1 .. Len(q) : q[i] \in S
    BY LenProperties, ElementOfSeq
<1>1. Members(q) \subseteq S
    BY <1>0 DEF Members
<1>2. Members(<<>>) = {}
  <2>1. Len(<<>>) = 0
    BY EmptySeq
  <2>. QED
    BY <2>1 DEF Members
<1>3. q # <<>> => 1 \in 1 .. Len(q) /\ Head(q) = q[1] /\ Head(q) \in Members(q)
  <2>1. q # <<>> => Len(q) # 0
    BY EmptySeq
  <2>2. q # <<>> => 1 \in 1 .. Len(q) /\ Head(q) = q[1]
    BY <1>0, <2>1, HeadTailProperties
  <2>. QED
    BY <2>2 DEF Members
<1>4. ASSUME q # <<>> PROVE Tail(q) \in Seq(S) /\ Members(q) = Members(Tail(q)) \cup {Head(q)}
  <2>1. /\ Tail(q) \in Seq(S) /\ Len(Tail(q)) = Len(q) - 1
        /\ \A i \in 1 .. Len(q) - 1 : Tail(q)[i] = q[i + 1]
    BY <1>4, HeadTailProperties
  <2>2. Members(Tail(q)) \subseteq Members(q)
    <3>. SUFFICES ASSUME NEW i \in 1 .. Len(q) - 1 PROVE Tail(q)[i] \in Members(q)
      BY <2>1 DEF Members
    <3>1. i + 1 \in 1 .. Len(q) /\ Tail(q)[i] = q[i + 1]
      BY <1>0, <2>1
    <3>. QED
      BY <3>1 DEF Members
  <2>3. ASSUME NEW e \in Members(q) PROVE e \in Members(Tail(q)) \cup {Head(q)}
    <3>1. PICK i \in 1 .. Len(q) : e = q[i]
      BY <2>3 DEF Members
    <3>2. CASE i = 1
      BY <1>3, <1>4, <3>1, <3>2
    <3>3. CASE i # 1
      <4>1. i - 1 \in 1 .. Len(q) - 1 /\ (i - 1) + 1 = i
        BY <1>0, <3>1, <3>3
      <4>2. Tail(q)[i - 1] = e
        BY <2>1, <3>1, <4>1
      <4>. QED
        BY <2>1, <4>1, <4>2 DEF Members
    <3>. QED
      BY <3>2, <3>3
  <2>. QED
    BY <1>3, <1>4, <2>1, <2>2, <2>3
<1>5. ASSUME NEW e \in S PROVE Members(Append(q, e)) = Members(q) \cup {e}
  <2>1. /\ Len(Append(q, e)) = Len(q) + 1
        /\ \A i \in 1 .. Len(q) : Append(q, e)[i] = q[i]
        /\ Append(q, e)[Len(q) + 1] = e
    BY AppendProperties
  <2>2. \A i \in 1 .. Len(q) + 1 : i \in 1 .. Len(q) \/ i = Len(q) + 1
    BY <1>0
  <2>3. /\ Len(q) + 1 \in 1 .. Len(q) + 1
        /\ \A i \in 1 .. Len(q) : i \in 1 .. Len(q) + 1
    BY <1>0
  <2>. QED
    BY <2>1, <2>2, <2>3 DEF Members
<1>6. ASSUME NEW r \in Seq(S) PROVE Members(q \o r) = Members(q) \cup Members(r)
  <2>0. Len(r) \in Nat
    BY LenProperties
  <2>1. /\ Len(q \o r) = Len(q) + Len(r)
        /\ \A i \in 1 .. Len(q) + Len(r) :
              (q \o r)[i] = IF i <= Len(q) THEN q[i] ELSE r[i - Len(q)]
    BY ConcatProperties
  <2>2. \A i \in 1 .. Len(q) : i \in 1 .. Len(q) + Len(r) /\ (q \o r)[i] = q[i]
    BY <1>0, <2>0, <2>1
  <2>3. ASSUME NEW i \in 1 .. Len(r)
        PROVE  i + Len(q) \in 1 .. Len(q) + Len(r) /\ (q \o r)[i + Len(q)] = r[i]
    <3>1. /\ i + Len(q) \in 1 .. Len(q) + Len(r) /\ ~(i + Len(q) <= Len(q))
          /\ (i + Len(q)) - Len(q) = i
      BY <1>0, <2>0
    <3>. QED
      BY <2>1, <3>1
  <2>4. ASSUME NEW i \in 1 .. Len(q) + Len(r), ~(i <= Len(q))
        PROVE  i - Len(q) \in 1 .. Len(r) /\ (q \o r)[i] = r[i - Len(q)]
    BY <1>0, <2>0, <2>1, <2>4
  <2>5. ASSUME NEW i \in 1 .. Len(q) + Len(r), i <= Len(q)
        PROVE  i \in 1 .. Len(q) /\ (q \o r)[i] = q[i]
    BY <1>0, <2>0, <2>1, <2>5
  <2>6. Members(q \o r) \subseteq Members(q) \cup Members(r)
    BY <2>1, <2>4, <2>5 DEF Members
  <2>7. Members(q) \subseteq Members(q \o r)
    BY <2>1, <2>2 DEF Members
  <2>8. Members(r) \subseteq Members(q \o r)
    BY <2>1, <2>3 DEF Members
  <2>. QED
    BY <2>6, <2>7, <2>8
<1>. QED
    BY <1>1, <1>2, <1>3, <1>4, <1>5, <1>6

\* What they do to the order.
LEMMA SortedOf ==
    ASSUME NEW S, NEW q \in Seq(S), NEW After, Sorted(q, After)
    PROVE  /\ q # <<>> => /\ Sorted(Tail(q), After)
                          /\ \A e \in Members(Tail(q)) : e \in After[Head(q)]
           /\ \A e \in S :
                (\A d \in Members(q) : e \in After[d]) => Sorted(Append(q, e), After)
<1>0. Len(q) \in Nat /\ \A i, j \in 1 .. Len(q) : i < j => q[j] \in After[q[i]]
    BY LenProperties DEF Sorted
<1>1. ASSUME q # <<>>
      PROVE  Sorted(Tail(q), After) /\ \A e \in Members(Tail(q)) : e \in After[Head(q)]
  <2>1. /\ Tail(q) \in Seq(S) /\ Len(Tail(q)) = Len(q) - 1
        /\ \A i \in 1 .. Len(q) - 1 : Tail(q)[i] = q[i + 1]
        /\ Head(q) = q[1]
    BY <1>1, HeadTailProperties
  <2>2. \A i \in 1 .. Len(q) - 1 : i + 1 \in 1 .. Len(q) /\ 1 \in 1 .. Len(q) /\ 1 < i + 1
    BY <1>0
  <2>3. \A i, j \in 1 .. Len(q) - 1 : i < j => i + 1 < j + 1
    BY <1>0
  <2>4. Sorted(Tail(q), After)
    BY <1>0, <2>1, <2>2, <2>3 DEF Sorted
  <2>5. \A e \in Members(Tail(q)) : e \in After[Head(q)]
    BY <1>0, <2>1, <2>2 DEF Members
  <2>. QED
    BY <2>4, <2>5
<1>2. ASSUME NEW e \in S, \A d \in Members(q) : e \in After[d]
      PROVE  Sorted(Append(q, e), After)
  <2>1. /\ Len(Append(q, e)) = Len(q) + 1
        /\ \A i \in 1 .. Len(q) : Append(q, e)[i] = q[i]
        /\ Append(q, e)[Len(q) + 1] = e
    BY AppendProperties
  <2>2. ASSUME NEW i \in 1 .. Len(q) + 1, NEW j \in 1 .. Len(q) + 1, i < j
        PROVE  Append(q, e)[j] \in After[Append(q, e)[i]]
    <3>1. i \in 1 .. Len(q) /\ (j \in 1 .. Len(q) \/ j = Len(q) + 1)
      BY <1>0, <2>2
    <3>2. CASE j \in 1 .. Len(q)
      BY <1>0, <2>1, <2>2, <3>1, <3>2
    <3>3. CASE j = Len(q) + 1
      <4>1. q[i] \in Members(q)
        BY <3>1 DEF Members
      <4>. QED
        BY <1>2, <2>1, <3>1, <3>3, <4>1
    <3>. QED
      BY <3>1, <3>2, <3>3
  <2>. QED
    BY <2>1, <2>2 DEF Sorted
<1>. QED
    BY <1>1, <1>2

\* What it does when one element is joined to the end.
LEMMA SortedJoined ==
    ASSUME NEW S, NEW q \in Seq(S), NEW e \in S, NEW After, Sorted(q, After),
           \A d \in Members(q) : e \in After[d]
    PROVE  /\ q \o <<e>> \in Seq(S) /\ Sorted(q \o <<e>>, After)
           /\ Members(q \o <<e>>) = Members(q) \cup {e}
<1>1. Append(q, e) = q \o <<e>>
    BY AppendIsConcat
<1>2. Append(q, e) \in Seq(S)
    BY AppendProperties
<1>3. Sorted(Append(q, e), After)
    BY SortedOf
<1>4. Members(Append(q, e)) = Members(q) \cup {e}
    BY MembersOf
<1>. QED
    BY <1>1, <1>2, <1>3, <1>4

\* Nothing is in any order.
LEMMA SortedNone == ASSUME NEW After PROVE Sorted(<<>>, After)
<1>1. Len(<<>>) = 0
    BY EmptySeq
<1>. QED
    BY <1>1 DEF Sorted

\* The places of the records, as records leave them and move on.
LEMMA TurnsLess ==
    ASSUME NEW A, NEW B, NEW C, NEW D, NEW E, NEW F, InTurn(A, B, C, D, E, F),
           NEW A1 \in SUBSET A, NEW B1 \in SUBSET B, NEW C1 \in SUBSET C,
           NEW D1 \in SUBSET D, NEW E1 \in SUBSET E, NEW F1 \in SUBSET F
    PROVE  InTurn(A1, B1, C1, D1, E1, F1)
BY Zenon DEF InTurn, Ahead

LEMMA TurnsMove ==
    ASSUME NEW A, NEW B, NEW C, NEW D, NEW E, NEW F, InTurn(A, B, C, D, E, F),
           NEW p, NEW R, Ahead({p}, R)
    PROVE  /\ B = R \cup {p} => InTurn(A \cup {p}, R, C, D, E, F)
           /\ C = R \cup {p} => InTurn(A, B \cup {p}, R, D, E, F)
           /\ D = R \cup {p} => InTurn(A, B, C \cup {p}, R, E, F)
           /\ E = R \cup {p} => InTurn(A, B, C, D \cup {p}, R, F)
           /\ F = R \cup {p} => InTurn(A, B, C, D, E \cup {p}, R)
<1>1. ASSUME B = R \cup {p} PROVE InTurn(A \cup {p}, R, C, D, E, F)
    BY <1>1 DEF InTurn, Ahead
<1>2. ASSUME C = R \cup {p} PROVE InTurn(A, B \cup {p}, R, D, E, F)
    BY <1>2 DEF InTurn, Ahead
<1>3. ASSUME D = R \cup {p} PROVE InTurn(A, B, C \cup {p}, R, E, F)
    BY <1>3 DEF InTurn, Ahead
<1>4. ASSUME E = R \cup {p} PROVE InTurn(A, B, C, D \cup {p}, R, F)
    BY <1>4 DEF InTurn, Ahead
<1>5. ASSUME F = R \cup {p} PROVE InTurn(A, B, C, D, E \cup {p}, R)
    BY <1>5 DEF InTurn, Ahead
<1>. QED
    BY <1>1, <1>2, <1>3, <1>4, <1>5

\* A new record is last.
LEMMA TurnsNew ==
    ASSUME NEW A, NEW B, NEW C, NEW D, NEW E, InTurn(A, B, C, D, E, {}),
           NEW p, Ahead(A \cup B \cup C \cup D \cup E, {p})
    PROVE  InTurn(A, B, C, D, E, {p})
BY DEF InTurn, Ahead

----------------------------------------------------------------------------
(* What the operations of the presenter leave as it is. *)

\* Neither credit nor a synchronisation, a request or an acknowledgement changes these.
Alike(s, r) ==
    /\ r.last = s.last /\ r.playing = s.playing /\ r.ended = s.ended
    /\ r.flushed = s.flushed /\ r.attached = s.attached /\ r.visible = s.visible

LEMMA CreditSame ==
    ASSUME NEW s \in Presenter, NEW n
    PROVE  LET r == prepare_credit_return(s, n)
           IN  /\ Alike(s, r)
               /\ r.projected = s.projected /\ r.desync = s.desync
               /\ r.pending = s.pending /\ r.deliveries = s.deliveries
               /\ r.synced = s.synced
<1>. DEFINE out == s.out + n
            charged == s.charged - n
            top_up == IF s.projected /\ out + charged < RollingCredits
                      THEN RollingCredits - (out + charged) ELSE 0
            o == out + top_up
            g == s.grants + n + top_up
            r == [s EXCEPT !.out = o, !.charged = charged, !.grants = g]
<1>1. prepare_credit_return(s, n) = r
    BY DEF prepare_credit_return
<1>. HIDE DEF o, g, charged
<1>2. /\ Alike(s, r)
      /\ r.projected = s.projected /\ r.desync = s.desync /\ r.pending = s.pending
      /\ r.deliveries = s.deliveries /\ r.synced = s.synced
    BY DEF Presenter, Alike
<1>. QED
    BY <1>1, <1>2

LEMMA TakenSame ==
    ASSUME NEW s \in Presenter
    PROVE  LET r == take_deliveries(s)
           IN  /\ Alike(s, r)
               /\ r.projected = s.projected /\ r.desync = s.desync
               /\ r.pending = s.pending /\ r.synced = s.synced
               /\ r.deliveries = {}
<1>. DEFINE u == [s EXCEPT !.deliveries = {}]
            r == prepare_credit_return(u, Cardinality(s.deliveries))
<1>1. /\ u \in Presenter /\ Alike(s, u)
      /\ u.projected = s.projected /\ u.desync = s.desync /\ u.pending = s.pending
      /\ u.synced = s.synced /\ u.deliveries = {}
    BY DEF Presenter, Alike
<1>. HIDE DEF u
<1>2. /\ Alike(u, r)
      /\ r.projected = u.projected /\ r.desync = u.desync /\ r.pending = u.pending
      /\ r.deliveries = u.deliveries /\ r.synced = u.synced
    BY <1>1, CreditSame
<1>. HIDE DEF r
<1>3. take_deliveries(s) = IF s.deliveries = {} THEN s ELSE r
    BY DEF take_deliveries, r, u
<1>4. Alike(s, r) /\ Alike(s, s)
    BY <1>1, <1>2 DEF Alike
<1>. QED
    BY <1>1, <1>2, <1>3, <1>4

LEMMA CompleteSame ==
    ASSUME NEW s \in Presenter, NEW n, NEW delivered \in BOOLEAN
    PROVE  LET r == complete_bridge_delivery(s, n, delivered)
           IN  /\ Alike(s, r)
               /\ r.projected = s.projected /\ r.pending = s.pending
               /\ r.synced = s.synced
               /\ r.deliveries = s.deliveries \ {n}
               /\ r.desync = (s.desync \/ Loses(s, n, delivered))
<1>. DEFINE d == s.desync \/ Loses(s, n, delivered)
            u == [s EXCEPT !.deliveries = @ \ {n}, !.desync = d]
            r == prepare_credit_return(u, 1)
<1>0. s.desync \in BOOLEAN /\ d \in BOOLEAN
    BY Zenon DEF Presenter
<1>1. CASE n \notin s.deliveries
  <2>1. complete_bridge_delivery(s, n, delivered) = s
    BY <1>1 DEF complete_bridge_delivery
  <2>2. s.deliveries \ {n} = s.deliveries
    BY <1>1
  <2>3. ~Loses(s, n, delivered)
    BY <1>1 DEF Loses
  <2>4. s.desync = d
    BY <1>0, <2>3
  <2>. QED
    BY <2>1, <2>2, <2>4 DEF Alike
<1>2. CASE n \in s.deliveries
  <2>1. complete_bridge_delivery(s, n, delivered) = r
    BY <1>2 DEF complete_bridge_delivery
  <2>. HIDE DEF d
  <2>2. /\ u \in Presenter /\ Alike(s, u)
        /\ u.projected = s.projected /\ u.desync = d /\ u.pending = s.pending
        /\ u.synced = s.synced /\ u.deliveries = s.deliveries \ {n}
    BY <1>0 DEF Presenter, Alike
  <2>. HIDE DEF u
  <2>3. /\ Alike(u, r)
        /\ r.projected = u.projected /\ r.desync = u.desync /\ r.pending = u.pending
        /\ r.deliveries = u.deliveries /\ r.synced = u.synced
    BY <2>2, CreditSame
  <2>. HIDE DEF r
  <2>4. Alike(s, r)
    BY <2>2, <2>3 DEF Alike
  <2>. QED
    BY <2>1, <2>2, <2>3, <2>4 DEF d
<1>. QED
    BY <1>1, <1>2

LEMMA DeactivateSame ==
    ASSUME NEW s \in Presenter
    PROVE  LET r == deactivate_bridge(s)
           IN  /\ Alike(s, r)
               /\ ~r.projected /\ r.desync = (s.desync \/ s.playing)
               /\ r.pending = s.pending
<1>. DEFINE d == s.desync \/ s.playing
            u == [s EXCEPT !.projected = FALSE, !.desync = d]
            r == take_deliveries(u)
<1>1. deactivate_bridge(s) = r
    BY DEF deactivate_bridge
<1>2. d \in BOOLEAN
    BY DEF Presenter
<1>. HIDE DEF d
<1>3. /\ u \in Presenter /\ Alike(s, u)
      /\ u.projected = FALSE /\ u.desync = d /\ u.pending = s.pending
    BY <1>2 DEF Presenter, Alike
<1>. HIDE DEF u
<1>4. /\ Alike(u, r)
      /\ r.projected = u.projected /\ r.desync = u.desync /\ r.pending = u.pending
    BY <1>3, TakenSame
<1>. HIDE DEF r
<1>5. Alike(s, r)
    BY <1>3, <1>4 DEF Alike
<1>. QED
    BY <1>1, <1>3, <1>4, <1>5 DEF d

LEMMA ProjectedSame ==
    ASSUME NEW s \in Presenter
    PROVE  LET r == projection_snapshot(s)
           IN  /\ Alike(s, r)
               /\ r.projected = s.visible /\ r.desync = s.desync
               /\ r.pending = s.pending /\ r.synced
               /\ r.deliveries = IF s.visible THEN s.deliveries ELSE {}
<1>. DEFINE u == [s EXCEPT !.projected = s.visible, !.synced = TRUE]
            r == take_deliveries(u)
<1>1. projection_snapshot(s) = IF s.visible THEN u ELSE r
    BY DEF projection_snapshot
<1>2. /\ u \in Presenter /\ Alike(s, u)
      /\ u.projected = s.visible /\ u.desync = s.desync /\ u.pending = s.pending
      /\ u.synced = TRUE /\ u.deliveries = s.deliveries
    BY DEF Presenter, Alike
<1>. HIDE DEF u
<1>3. /\ Alike(u, r)
      /\ r.projected = u.projected /\ r.desync = u.desync /\ r.pending = u.pending
      /\ r.synced = u.synced /\ r.deliveries = {}
    BY <1>2, TakenSame
<1>. HIDE DEF r
<1>4. Alike(s, r)
    BY <1>2, <1>3 DEF Alike
<1>. QED
    BY <1>1, <1>2, <1>3, <1>4

\* After a synchronisation, with a client attached, the source is projected when its
\* pane is visible, or as it was when nothing was sent.
Synced(s, r) ==
    \/ r = s
    \/ /\ Alike(s, r) /\ r.projected = s.visible /\ r.desync = s.desync
       /\ r.pending = s.pending /\ r.synced
       /\ r.deliveries = IF s.visible THEN s.deliveries ELSE {}

LEMMA SyncSame ==
    ASSUME NEW s \in Presenter, NEW force \in BOOLEAN
    PROVE  LET r == sync_media(s, force)
           IN  /\ Alike(s, r) /\ r.pending = s.pending /\ (s.desync => r.desync)
               /\ ~s.attached => ~r.projected
               /\ s.attached => Synced(s, r)
               /\ s.attached /\ SyncSends(s, force) => r.projected = s.visible /\ r.synced
               /\ s.attached /\ ~SyncSends(s, force) => r = s
<1>1. CASE ~s.attached
  <2>1. sync_media(s, force) = deactivate_bridge(s)
    BY <1>1 DEF sync_media
  <2>. QED
    BY <1>1, <2>1, DeactivateSame
<1>2. CASE s.attached /\ SyncSends(s, force)
  <2>1. sync_media(s, force) = projection_snapshot(s)
    BY <1>2 DEF sync_media
  <2>. QED
    BY <1>2, <2>1, ProjectedSame DEF Synced
<1>3. CASE s.attached /\ ~SyncSends(s, force)
  <2>1. sync_media(s, force) = s
    BY <1>3 DEF sync_media
  <2>. QED
    BY <1>3, <2>1 DEF Synced, Alike
<1>. QED
    BY <1>1, <1>2, <1>3

\* After a request the source waits for a keyframe, and the producer knows.
LEMMA RequestSame ==
    ASSUME NEW s \in Presenter, NEW minimum, NEW reason \in Reasons,
           s.pending # None => s.desync
    PROVE  LET r == request_keyframe(s, minimum, reason)
           IN  /\ Alike(s, r)
               /\ r.projected = s.projected /\ r.deliveries = s.deliveries
               /\ r.synced = s.synced
               /\ s.ended => r = s
               /\ ~s.ended => r.desync /\ r.pending # None
<1>. DEFINE m == CASE reason = "loss" -> s.epoch
                   [] reason # "loss" /\ minimum # None -> Larger(minimum, s.epoch)
                   [] reason = "initial" /\ minimum = None -> s.epoch
                   [] OTHER -> Smaller(s.epoch + 1, MaxEpoch)
            emitted == IF s.pending \in {None, reason, "loss"} THEN reason
                       ELSE IF reason = "loss" THEN s.pending ELSE "error"
            k == Larger(s.min, m)
            r == [s EXCEPT !.min = k, !.pending = emitted, !.desync = TRUE]
            a == [r EXCEPT !.asked = r.min]
            damped == /\ s.pending # None
                      /\ m <= s.min
                      /\ ~(s.pending = "loss" /\ reason # "loss")
<1>1. request_keyframe(s, minimum, reason) = IF s.ended \/ damped THEN s ELSE a
    BY DEF request_keyframe, Ask
<1>2. None \notin Reasons
    BY RelayAssumption DEF Reasons
<1>3. emitted # None
    BY <1>2 DEF Reasons
<1>4. damped => s.pending # None
    OBVIOUS
<1>. HIDE DEF m, emitted, k, damped
<1>5. /\ Alike(s, r) /\ r.projected = s.projected /\ r.deliveries = s.deliveries
      /\ r.synced = s.synced /\ r.desync /\ r.pending = emitted
      /\ DOMAIN r = DOMAIN s
    BY DEF Presenter, Alike
<1>. DEFINE b == r.min
            c == [r EXCEPT !.asked = b]
<1>6. a = c
    OBVIOUS
<1>7. /\ Alike(r, c) /\ c.projected = r.projected /\ c.deliveries = r.deliveries
      /\ c.synced = r.synced /\ c.desync = r.desync /\ c.pending = r.pending
  <2>1. DOMAIN r = {"out", "charged", "grants", "desync", "pending", "min", "epoch", "playing",
                    "ended", "flushed", "last", "projected", "deliveries", "asked",
                    "attached", "visible", "synced"}
    BY <1>5 DEF Presenter
  <2>. HIDE DEF r, b
  <2>. QED
    BY <2>1 DEF Alike
<1>. HIDE DEF r, a, c
<1>8. Alike(s, a) /\ Alike(s, s)
    BY <1>5, <1>6, <1>7 DEF Alike
<1>. QED
    BY <1>1, <1>3, <1>4, <1>5, <1>6, <1>7, <1>8

----------------------------------------------------------------------------
(* What keeps the invariant. *)

\* The kinds of what is on the way.
LEMMA PlaceKinds ==
    ASSUME PathTypes
    PROVE  /\ outer.queue \in Seq(Packets) /\ outer.done \in Seq(Acks)
           /\ client.queue \in Seq(Queued) /\ client.dropped \subseteq Nat
           /\ to_client \in Seq(Snapshots \cup Media) /\ events \in Seq(Packets)
           /\ to_server \in Seq(Acks \cup Needs \cup {Retry})
           /\ worker.deferred # None => worker.deferred \in Queued
           /\ client.snapshot # None => client.snapshot.body \in Snapshots
           /\ outer.last \in Nat /\ outer.ok \in BOOLEAN
<1>1. /\ outer \in Outers /\ client \in Clients /\ worker \in Workers
      /\ to_client \in Seq(Snapshots \cup Media) /\ events \in Seq(Packets)
      /\ to_server \in Seq(Acks \cup Needs \cup {Retry})
    BY DEF PathTypes
<1>2. /\ outer.queue \in Seq(Packets) /\ outer.done \in Seq(Acks)
      /\ outer.last \in Nat /\ outer.ok \in BOOLEAN
    BY <1>1 DEF Outers
<1>3. /\ client.queue \in Seq(Queued) /\ client.dropped \subseteq Nat
      /\ client.snapshot # None => client.snapshot.body \in Snapshots
    BY <1>1 DEF Clients
<1>4. worker.deferred # None => worker.deferred \in Queued
    BY <1>1 DEF Workers
<1>. QED
    BY <1>1, <1>2, <1>3, <1>4

LEMMA WayKinds ==
    ASSUME PathTypes
    PROVE  OnTheWay \subseteq Packets /\ \A p \in OnTheWay : p.n \in Nat /\ p.n >= 1
<1>1. Writing \subseteq Packets /\ Waiting \subseteq Packets
    BY PlaceKinds, MembersOf DEF Writing, Waiting
<1>2. Channelled \subseteq Packets
  <2>1. Members(client.queue) \subseteq Queued
    BY PlaceKinds, MembersOf
  <2>. QED
    BY <2>1 DEF Channelled, CarriedBy, Queued
<1>3. Sending \subseteq Packets
  <2>1. Members(to_client) \subseteq Snapshots \cup Media
    BY PlaceKinds, MembersOf
  <2>. QED
    BY <2>1 DEF Sending, MediaOf, Snapshots, Media
<1>4. Deferred \subseteq Packets
    BY PlaceKinds DEF Deferred, Queued
<1>5. Ingested \subseteq Packets
    BY MessageKinds DEF Ingested, PathTypes
<1>6. OnTheWay \subseteq Packets
    BY <1>1, <1>2, <1>3, <1>4, <1>5 DEF OnTheWay
<1>7. \A p \in Packets : p.n \in Nat /\ p.n >= 1
    BY MessageKinds, ConstantTypes
<1>. QED
    BY <1>6, <1>7

\* A step after which the records that are gone are known to be lost, or were not
\* being delivered any more.
LEMMA StillRepaired ==
    ASSUME PathTypes, srv.last \in Nat, Repairs,
           \A p \in OnTheWay : p.n <= srv.last,
           srv'.attached = srv.attached, srv'.ended = srv.ended,
           srv'.projected = srv.projected, srv'.desync = srv.desync,
           srv'.pending = srv.pending, srv'.flushed = srv.flushed, srv'.last = srv.last,
           \A n \in srv.deliveries :
              n \in srv'.deliveries \/ (n \notin Lost /\ \A p \in OnTheWay : p.n # n),
           \A n \in srv.deliveries : n \in Lost => n \in Lost',
           OnTheWay' \subseteq OnTheWay,
           \A p \in OnTheWay :
              p \in OnTheWay' \/ p.n \in Lost' \/ p.n \notin srv.deliveries,
           outer.ok => outer'.ok /\ outer'.last = outer.last,
           Noticed => Noticed', Recreates => Excused'
    PROVE  Repairs'
<1>1. CASE Excused
    BY <1>1 DEF Excused, Repairs
<1>2. CASE Reported
    BY <1>2 DEF Reported, Repairs
<1>3. CASE Asked
    BY <1>3 DEF Asked, Repairs
<1>4. CASE Whole
  <2>1. PICK k \in 1 .. srv.last + 1 : WholeFrom(k)
    BY <1>4 DEF Whole
  <2>2. ~srv.desync
    BY <1>4 DEF Whole
  <2>3. \A n \in k .. srv.last : n \in srv'.deliveries
    BY <2>1 DEF WholeFrom
  <2>4. CASE \E n \in k .. srv.last : n \in Lost'
    BY <2>3, <2>4 DEF Repairs, Reported
  <2>5. CASE \A n \in k .. srv.last : n \notin Lost'
    <3>1. \A n \in k .. srv.last : \E p \in OnTheWay' : p.n = n
      BY <2>1, <2>5 DEF WholeFrom
    <3>2. CASE \E p \in OnTheWay : p.n = k /\ p.key
      <4>1. PICK p \in OnTheWay : p.n = k /\ p.key
        BY <3>2
      <4>2. k \in k .. srv.last
        BY <4>1, WayKinds
      <4>3. p \in OnTheWay'
        BY <2>1, <2>5, <4>1, <4>2 DEF WholeFrom
      <4>. QED
        BY <2>1, <2>2, <2>3, <3>1, <4>1, <4>3 DEF Repairs, Whole, WholeFrom
    <3>3. CASE outer.ok /\ k = outer.last + 1
      BY <2>1, <2>2, <2>3, <3>1, <3>3 DEF Repairs, Whole, WholeFrom
    <3>4. CASE srv.last = 0
      BY <2>1, <2>2, <2>3, <3>1, <3>4 DEF Repairs, Whole, WholeFrom
    <3>. QED
      BY <2>1, <3>2, <3>3, <3>4 DEF WholeFrom
  <2>. QED
    BY <2>4, <2>5
<1>. QED
    BY <1>1, <1>2, <1>3, <1>4 DEF Repairs

\* A source that is projected again is created again, or has had no record yet.
LEMMA SyncRepairs ==
    ASSUME RelayInv, Repairing, srv.attached, Synced(srv, srv'),
           Coming' \subseteq Coming \cup {Snapshot(srv)},
           \A n \in srv.deliveries : n \in Lost => n \in Lost',
           OnTheWay' \subseteq OnTheWay,
           \A p \in OnTheWay :
              p \in OnTheWay' \/ p.n \in Lost' \/ p.n \notin srv'.deliveries,
           UNCHANGED <<worker, outer>>, Noticed => Noticed'
    PROVE  Repairs'
<1>0. /\ PathTypes /\ srv \in Presenter /\ srv.last \in Nat
      /\ Repairs /\ SourceKept /\ Hiding /\ Waits
      /\ \A p \in OnTheWay : p.n <= srv.last
    BY Numbers DEF Repairing, InOrder
<1>1. Snapshot(srv).playing = srv.playing
    BY DEF Snapshot
<1>2. ASSUME srv'.playing = srv.playing, Recreates PROVE Recreates'
    BY <1>1, <1>2 DEF Recreates
<1>3. CASE srv' = srv
  <2>1. Recreates => Excused'
    BY <1>2, <1>3 DEF Excused
  <2>. HIDE DEF Excused, Recreates, Noticed, Repairs
  <2>. QED
    BY <1>0, <1>3, <2>1, StillRepaired
<1>4. ASSUME srv' # srv
      PROVE  /\ Alike(srv, srv') /\ srv'.projected = srv.visible /\ srv'.desync = srv.desync
             /\ srv'.pending = srv.pending
             /\ srv'.deliveries = IF srv.visible THEN srv.deliveries ELSE {}
    BY <1>4 DEF Synced
<1>5. CASE srv' # srv /\ ~srv.visible
    BY <1>4, <1>5 DEF Repairs, Excused
<1>6. CASE srv' # srv /\ srv.visible /\ srv.projected
  <2>1. Recreates => Excused'
    BY <1>2, <1>4, <1>6 DEF Excused, Alike
  <2>2. srv.projected \in BOOLEAN /\ srv.visible \in BOOLEAN
    BY <1>0 DEF Presenter
  <2>3. srv'.projected = srv.projected /\ srv'.deliveries = srv.deliveries
    BY <1>4, <1>6, <2>2
  <2>. HIDE DEF Excused, Recreates, Noticed, Repairs
  <2>. QED
    BY <1>0, <1>4, <1>6, <2>1, <2>3, StillRepaired DEF Alike
<1>7. CASE srv' # srv /\ srv.visible /\ ~srv.projected
  <2>1. ~worker.active /\ Coming = {} /\ ~outer.has
    BY <1>0, <1>7 DEF Hiding, SourceKept
  <2>2. CASE srv.playing
    <3>1. Recreates'
      BY <1>1, <1>4, <1>7, <2>1, <2>2 DEF Recreates, Alike
    <3>. QED
      BY <3>1 DEF Repairs, Excused
  <2>3. CASE ~srv.playing
    <3>1. srv.last = 0 /\ (srv.desync => Asked)
      BY <1>0, <2>3 DEF Waits
    <3>2. CASE srv.desync
      BY <1>4, <1>7, <3>1, <3>2 DEF Asked, Repairs, Alike
    <3>3. CASE ~srv.desync
      <4>1. srv'.last = 0 /\ ~srv'.desync
        BY <1>4, <1>7, <3>1, <3>3 DEF Alike
      <4>2. WholeFrom(1)'
        BY <4>1 DEF WholeFrom
      <4>3. 1 \in 1 .. srv'.last + 1
        BY <4>1
      <4>. QED
        BY <4>1, <4>2, <4>3 DEF Repairs, Whole
    <3>. QED
      BY <3>2, <3>3
  <2>. QED
    BY <2>2, <2>3
<1>. QED
    BY <1>3, <1>5, <1>6, <1>7

\* A step that moves no record, answer or snapshot.
LEMMA AsideKeeps ==
    ASSUME Repairing, UNCHANGED <<events, to_client, client, worker, outer, to_server>>,
           Ingested' = Ingested, srv'.last = srv.last, srv'.attached = srv.attached
    PROVE  /\ InOrder' /\ OneFate' /\ SourceKept' /\ BeforePlay'
           /\ OnTheWay' = OnTheWay /\ Lost' = Lost /\ Coming' = Coming
<1>1. /\ Writing' = Writing /\ Deferred' = Deferred /\ Channelled' = Channelled
      /\ Sending' = Sending /\ Waiting' = Waiting
    BY DEF Writing, Deferred, Channelled, CarriedBy, Sending, MediaOf, Waiting
<1>2. OnTheWay' = OnTheWay
    BY <1>1 DEF OnTheWay
<1>3. Told' = Told /\ Lost' = Lost
    BY DEF Told, Lost, Acked, Answers
<1>4. Coming' = Coming
    BY DEF Coming
<1>5. InOrder'
    BY <1>1, <1>2 DEF Repairing, InOrder
<1>6. OneFate'
    BY <1>2, <1>3 DEF Repairing, OneFate
<1>7. SourceKept'
    BY <1>4 DEF Repairing, SourceKept
<1>8. BeforePlay'
    BY <1>4 DEF Repairing, BeforePlay, NothingYet
<1>. QED
    BY <1>2, <1>3, <1>4, <1>5, <1>6, <1>7, <1>8

\* A step that leaves the presenter's flags alone too.
LEMMA StillKeeps ==
    ASSUME PathTypes, srv.last \in Nat, Repairing,
           UNCHANGED <<events, to_client, client, worker, outer, to_server, actor>>,
           Ingested' = Ingested, Alike(srv, srv'),
           srv'.projected = srv.projected, srv'.desync = srv.desync,
           srv'.pending = srv.pending, srv'.synced = srv.synced,
           srv'.deliveries = srv.deliveries,
           control'.do # "pause", control.do = "flush" => control'.do = "flush",
           ingest.do = "request" => ingest'.do = "request",
           FirstIsKey'
    PROVE  Repairing'
<1>1. /\ InOrder' /\ OneFate' /\ SourceKept' /\ BeforePlay'
      /\ OnTheWay' = OnTheWay /\ Lost' = Lost /\ Coming' = Coming
    BY AsideKeeps DEF Alike
<1>2. Waits'
    BY DEF Repairing, Waits, Asked, Alike
<1>3. Hiding'
    BY <1>1 DEF Repairing, Hiding, Alike
<1>4. Noticed => Noticed'
    BY DEF Noticed
<1>5. Recreates => Excused'
    BY <1>1 DEF Recreates, Excused, Alike
<1>6. Repairs'
  <2>1. Repairs /\ \A p \in OnTheWay : p.n <= srv.last
    BY DEF Repairing, InOrder
  <2>. QED
    BY <1>1, <1>4, <1>5, <2>1, StillRepaired DEF Alike
<1>. QED
    BY <1>1, <1>2, <1>3, <1>6 DEF Repairing

----------------------------------------------------------------------------
(* The producer, the control connection, and what asks for a keyframe. *)

\* The producer sends or receives.
LEMMA ProducerRepairs ==
    ASSUME RelayInv, Repairing, (\E p \in Packets : ProducerSend(p)) \/ ReceiveCredit
    PROVE  Repairing'
<1>0. /\ PathTypes /\ srv \in Presenter /\ srv.last \in Nat
      /\ producer \in [held : Nat, sent : Nat, epoch : Nat, fresh : BOOLEAN]
      /\ wire \in Seq(Packets) /\ Len(wire) \in Nat
      /\ producer.sent = srv.last + Len(wire)
      /\ \A i \in 1 .. Len(wire) : wire[i].n = srv.last + i
    BY Numbers DEF PathTypes
<1>1. FirstIsKey /\ control.do # "pause"
    BY DEF Repairing, Waits
<1>2. CASE ReceiveCredit
  <2>1. producer' = [producer EXCEPT !.held = producer.held + srv.grants]
        /\ srv' = [srv EXCEPT !.grants = 0]
        /\ UNCHANGED <<wire, ingest, control, actor, events, to_client, client, worker,
                       outer, to_server>>
    BY <1>2 DEF ReceiveCredit
  <2>. DEFINE h == producer.held + srv.grants
  <2>2. producer' = [producer EXCEPT !.held = h]
    BY <2>1
  <2>. HIDE DEF h
  <2>3. producer'.sent = producer.sent /\ producer'.fresh = producer.fresh
    BY <1>0, <2>2
  <2>4. FirstIsKey'
    BY <1>1, <2>1, <2>3 DEF FirstIsKey
  <2>5. /\ Alike(srv, srv')
        /\ srv'.projected = srv.projected /\ srv'.desync = srv.desync
        /\ srv'.pending = srv.pending /\ srv'.synced = srv.synced
        /\ srv'.deliveries = srv.deliveries
    BY <1>0, <2>1 DEF Presenter, Alike
  <2>6. Ingested' = Ingested
    BY <2>1 DEF Ingested
  <2>. QED
    BY <1>0, <1>1, <2>1, <2>4, <2>5, <2>6, StillKeeps
<1>3. ASSUME NEW p \in Packets, ProducerSend(p) PROVE Repairing'
  <2>1. /\ p.n = producer.sent + 1 /\ (~p.key => ~producer.fresh)
        /\ wire' = Append(wire, p)
        /\ producer' = [producer EXCEPT !.held = @ - 1, !.sent = p.n, !.epoch = p.epoch,
                                        !.fresh = FALSE]
        /\ srv' \in {[srv EXCEPT !.asked = None], srv}
        /\ UNCHANGED <<ingest, control, actor, events, to_client, client, worker,
                       outer, to_server>>
    BY <1>3 DEF ProducerSend
  <2>2. producer'.sent # 0
  <3>1. producer'.sent = p.n
      BY <1>0, <2>1
    <3>. QED
      BY <1>0, <2>1, <3>1
  <2>3. /\ Len(wire') = Len(wire) + 1
        /\ \A i \in 1 .. Len(wire) : wire'[i] = wire[i]
        /\ wire'[Len(wire) + 1] = p
    BY <1>0, <2>1, AppendProperties
  <2>4. FirstIsKey'
    <3>. SUFFICES ASSUME NEW i \in 1 .. Len(wire) + 1, wire'[i].n = 1 PROVE wire'[i].key
      BY <2>2, <2>3 DEF FirstIsKey
    <3>1. CASE i \in 1 .. Len(wire)
      BY <1>1, <2>3, <3>1 DEF FirstIsKey
    <3>2. CASE i = Len(wire) + 1
      <4>1. producer.sent = 0
        BY <1>0, <2>1, <2>3, <3>2
      <4>. QED
        BY <1>1, <2>1, <2>3, <3>2, <4>1 DEF FirstIsKey
    <3>. QED
      BY <1>0, <3>1, <3>2
  <2>5. /\ Alike(srv, srv')
        /\ srv'.projected = srv.projected /\ srv'.desync = srv.desync
        /\ srv'.pending = srv.pending /\ srv'.synced = srv.synced
        /\ srv'.deliveries = srv.deliveries
    BY <1>0, <2>1 DEF Presenter, Alike
  <2>6. Ingested' = Ingested
    BY <2>1 DEF Ingested
  <2>. QED
    BY <1>0, <1>1, <2>1, <2>4, <2>5, <2>6, StillKeeps
<1>. QED
    BY <1>2, <1>3

\* A keyframe is asked for, with the other state as it was but for the messages that
\* asked for it.
LEMMA AskedRepairs ==
    ASSUME NEW minimum, NEW reason \in Reasons, Waits, Hiding, SourceKept,
           srv \in Presenter,
           srv' = request_keyframe(srv, minimum, reason),
           Coming' = Coming, worker'.active = worker.active, control' = control,
           outer' = outer
    PROVE  Waits' /\ Hiding' /\ Repairs' /\ Alike(srv, srv')
<1>1. /\ Alike(srv, srv')
      /\ srv'.projected = srv.projected /\ srv'.deliveries = srv.deliveries
      /\ srv'.synced = srv.synced
      /\ srv.ended => srv' = srv
      /\ ~srv.ended => srv'.desync /\ srv'.pending # None
    BY RequestSame DEF Waits
<1>2. Waits'
  <2>1. CASE srv.ended
    BY <1>1, <2>1 DEF Waits, Asked
  <2>2. CASE ~srv.ended
    BY <1>1, <2>2 DEF Waits, Asked, Alike
  <2>. QED
    BY <2>1, <2>2
<1>3. Hiding'
    BY <1>1 DEF Hiding, Alike
<1>4. Repairs'
    BY <1>1 DEF Repairs, Excused, Asked, Alike
<1>. QED
    BY <1>1, <1>2, <1>3, <1>4

\* The requests of the media connection's thread and of the actor.
LEMMA RequestRepairs ==
    ASSUME RelayInv, Repairing, IngestRequest \/ ActorRequest
    PROVE  Repairing'
<1>1. /\ srv' = request_keyframe(srv, None, "loss")
      /\ ingest' = ingest \/ (ingest.do = "request" /\ ingest' = Idle)
      /\ UNCHANGED <<producer, wire, control, events, to_client, client, worker, outer,
                     to_server>>
    BY DEF IngestRequest, ActorRequest
<1>2. srv \in Presenter /\ Waits /\ Hiding /\ SourceKept
    BY Numbers DEF Repairing
<1>3. Coming' = Coming /\ Ingested' = Ingested
    BY <1>1 DEF Coming, Ingested, Idle
<1>4. Waits' /\ Hiding' /\ Repairs' /\ Alike(srv, srv')
    BY <1>1, <1>2, <1>3, AskedRepairs DEF Reasons
<1>5. InOrder' /\ OneFate' /\ SourceKept' /\ BeforePlay'
    BY <1>1, <1>3, <1>4, AsideKeeps DEF Alike
<1>6. FirstIsKey'
    BY <1>1 DEF FirstIsKey, Repairing
<1>. QED
    BY <1>4, <1>5, <1>6 DEF Repairing

\* The control connection.  A pause is not steady.
LEMMA ControlRepairs ==
    ASSUME RelayInv, Repairing, Control, control'.do # "pause"
    PROVE  Repairing'
<1>0. /\ PathTypes /\ srv \in Presenter /\ srv.last \in Nat
      /\ producer \in [held : Nat, sent : Nat, epoch : Nat, fresh : BOOLEAN]
      /\ FirstIsKey /\ Waits /\ Hiding /\ SourceKept /\ Repairs /\ control.do # "pause"
      /\ \A p \in OnTheWay : p.n <= srv.last
    BY Numbers DEF PathTypes, Repairing, Waits, InOrder
<1>1. /\ UNCHANGED <<wire, ingest, actor, events, to_client, client, worker, outer, to_server>>
      /\ producer' = producer
         \/ (control.do = "flush"
             /\ producer' = [producer EXCEPT !.epoch = control.epoch, !.fresh = TRUE])
    BY DEF Control, Play, Pause, Flush, EosWaits, Eos, CancelDeliveries
<1>2. FirstIsKey'
  <2>1. producer'.sent = producer.sent /\ (producer.fresh => producer'.fresh)
    BY <1>0, <1>1
  <2>. QED
    BY <1>0, <1>1, <2>1 DEF FirstIsKey
<1>3. Ingested' = Ingested
    BY <1>1 DEF Ingested
<1>4. ASSUME srv'.last = srv.last, srv'.attached = srv.attached
      PROVE  /\ InOrder' /\ OneFate' /\ SourceKept' /\ BeforePlay'
             /\ OnTheWay' = OnTheWay /\ Lost' = Lost /\ Coming' = Coming
    BY <1>1, <1>3, <1>4, AsideKeeps
<1>5. CASE Play
  <2>1. /\ srv' = [srv EXCEPT !.playing = TRUE, !.synced = FALSE] /\ control' = control
    BY <1>5 DEF Play
  <2>2. /\ srv'.last = srv.last /\ srv'.attached = srv.attached /\ srv'.playing
        /\ srv'.ended = srv.ended /\ srv'.projected = srv.projected
        /\ srv'.visible = srv.visible /\ srv'.desync = srv.desync /\ srv'.pending = srv.pending
        /\ srv'.flushed = srv.flushed /\ srv'.deliveries = srv.deliveries
        /\ ~srv'.synced
    BY <1>0, <2>1 DEF Presenter
  <2>3. Waits'
    BY <1>0, <1>1, <2>1, <2>2 DEF Waits
  <2>4. Hiding'
    BY <1>0, <1>1, <1>4, <2>2 DEF Hiding
  <2>5. Noticed => Noticed'
    BY <1>1, <2>1 DEF Noticed
  <2>6. Recreates => Excused'
    BY <1>1, <1>4, <2>2 DEF Recreates, Excused
  <2>7. Repairs'
    BY <1>0, <1>1, <1>4, <2>2, <2>5, <2>6, StillRepaired
  <2>. QED
    BY <1>2, <1>4, <2>2, <2>3, <2>4, <2>7 DEF Repairing
<1>6. CASE Pause
    BY <1>0, <1>6 DEF Pause
<1>7. CASE Flush
  <2>. DEFINE e == control.epoch
  <2>1. /\ srv' = [srv EXCEPT !.epoch = 0, !.min = e, !.ended = FALSE,
                              !.desync = TRUE, !.flushed = TRUE]
        /\ control' = Idle
    BY <1>7 DEF Flush
  <2>. HIDE DEF e
  <2>2. /\ srv'.last = srv.last /\ srv'.attached = srv.attached
        /\ srv'.playing = srv.playing /\ srv'.projected = srv.projected
        /\ srv'.visible = srv.visible /\ srv'.synced = srv.synced
        /\ srv'.desync /\ srv'.flushed
    BY <1>0, <2>1 DEF Presenter
  <2>3. Asked'
    BY <2>2 DEF Asked
  <2>4. Waits'
    BY <1>0, <1>1, <2>1, <2>2, <2>3 DEF Waits, Idle
  <2>5. Hiding'
    BY <1>0, <1>1, <1>4, <2>2 DEF Hiding
  <2>. QED
    BY <1>2, <1>4, <2>2, <2>3, <2>4, <2>5 DEF Repairing, Repairs
<1>8. CASE EosWaits
  <2>1. /\ srv' = srv /\ control = Idle /\ control' = [do |-> "eos"]
    BY <1>8 DEF EosWaits
  <2>2. control'.do # "pause" /\ control.do # "flush"
    BY <2>1 DEF Idle
  <2>. QED
    BY <1>0, <1>1, <1>2, <1>3, <2>1, <2>2, StillKeeps DEF Alike
<1>9. CASE Eos
  <2>1. /\ srv' = [srv EXCEPT !.ended = TRUE, !.synced = FALSE] /\ control' = Idle
    BY <1>9 DEF Eos
  <2>2. /\ srv'.last = srv.last /\ srv'.attached = srv.attached
        /\ srv'.playing = srv.playing /\ srv'.projected = srv.projected
        /\ srv'.visible = srv.visible /\ ~srv'.synced /\ srv'.ended
        /\ srv'.desync = srv.desync /\ srv'.flushed = srv.flushed /\ srv'.pending = srv.pending
    BY <1>0, <2>1 DEF Presenter
  <2>3. Waits'
    BY <1>0, <1>1, <2>1, <2>2 DEF Waits, Asked, Idle
  <2>4. Hiding'
    BY <1>0, <1>1, <1>4, <2>2 DEF Hiding
  <2>. QED
    BY <1>2, <1>4, <2>2, <2>3, <2>4 DEF Repairing, Repairs, Excused
<1>10. ASSUME NEW next, CancelDeliveries(next), next.do # "pause", next.do = "flush"
       PROVE  Repairing'
  <2>1. srv' = take_deliveries(srv) /\ control' = next
    BY <1>10 DEF CancelDeliveries
  <2>2. /\ Alike(srv, srv')
        /\ srv'.projected = srv.projected /\ srv'.desync = srv.desync
        /\ srv'.pending = srv.pending /\ srv'.synced = srv.synced
    BY <1>0, <2>1, TakenSame
  <2>3. Waits'
    BY <1>0, <1>1, <1>10, <2>1, <2>2 DEF Waits, Asked, Alike
  <2>4. Hiding'
    BY <1>0, <1>1, <1>4, <2>2 DEF Hiding, Alike
  <2>5. Repairs'
    BY <1>10, <2>1 DEF Repairs, Reported, Noticed
  <2>. QED
    BY <1>2, <1>4, <2>2, <2>3, <2>4, <2>5 DEF Repairing, Alike
<1>11. ASSUME CancelDeliveries([do |-> "pause"]) PROVE FALSE
    BY <1>11 DEF CancelDeliveries
<1>. QED
    BY <1>5, <1>6, <1>7, <1>8, <1>9, <1>10, <1>11 DEF Control

----------------------------------------------------------------------------
(* The media connection's thread. *)

\* A record is charged: while the source plays, either it is on its way, or a keyframe
\* will be asked for, or the source was waiting and waits on.
LEMMA IngestRepairs ==
    ASSUME RelayInv, Repairing, IngestRecord, srv.playing \/ srv'.last = 0
    PROVE  Repairing'
<1>. DEFINE p == Head(wire)
            recovered == srv.desync /\ p.epoch >= srv.min /\ p.key
            forward == srv.projected /\ (recovered \/ ~srv.desync)
            queued == /\ forward
                      /\ \/ srv.deliveries = {}
                         \/ Cardinality(srv.deliveries) < QueueBudget
            o == srv.out - 1
            c == srv.charged + 1
            ep == p.epoch
            pn == p.n
            pending == IF recovered THEN None ELSE srv.pending
            flushed == srv.flushed /\ ~recovered
            desync == (~recovered /\ (srv.desync \/ ~srv.projected)) \/ (forward /\ ~queued)
            deliveries == IF queued THEN srv.deliveries \cup {p.n} ELSE srv.deliveries
            charged == [srv EXCEPT
                !.out = o, !.charged = c, !.epoch = ep, !.last = pn,
                !.pending = pending, !.flushed = flushed, !.desync = desync,
                !.deliveries = deliveries]
<1>0. /\ PathTypes /\ srv \in Presenter /\ srv.last \in Nat
      /\ wire \in Seq(Packets) /\ Len(wire) \in Nat
      /\ \A i \in 1 .. Len(wire) : wire[i].n = srv.last + i
      /\ {srv.out, srv.charged, srv.epoch, srv.min} \subseteq Nat
      /\ {srv.desync, srv.projected, srv.flushed} \subseteq BOOLEAN
      /\ srv.pending \in {None} \cup Reasons /\ srv.deliveries \subseteq 1 .. MaxPackets
    BY Numbers DEF Presenter
<1>1. /\ ingest = Idle /\ wire # <<>> /\ srv.out > 0 /\ wire' = Tail(wire)
      /\ srv' = IF queued THEN charged ELSE prepare_credit_return(charged, 1)
      /\ ingest' = IF queued THEN [do |-> "send", packet |-> p]
                   ELSE IF forward THEN [do |-> "request"] ELSE Idle
      /\ UNCHANGED <<producer, control, actor, events, to_client, client, worker,
                     outer, to_server>>
    BY DEF IngestRecord
<1>2. /\ p \in Packets /\ pn = srv.last + 1 /\ p = wire[1] /\ 1 \in 1 .. Len(wire)
      /\ p.key \in BOOLEAN /\ p.epoch \in Nat /\ pn \in Nat /\ pn \in 1 .. MaxPackets
      /\ wire' \in Seq(Packets) /\ Len(wire') = Len(wire) - 1
      /\ \A i \in 1 .. Len(wire) - 1 : wire'[i] = wire[i + 1]
  <2>1. Len(wire) # 0
    BY <1>0, <1>1, EmptySeq
  <2>2. /\ p = wire[1] /\ p \in Packets /\ wire' \in Seq(Packets)
        /\ Len(wire') = Len(wire) - 1
        /\ \A i \in 1 .. Len(wire) - 1 : wire'[i] = wire[i + 1]
    BY <1>0, <1>1, HeadTailProperties
  <2>3. 1 \in 1 .. Len(wire)
    BY <1>0, <2>1
  <2>4. p.n \in 1 .. MaxPackets /\ p.epoch \in Nat /\ p.key \in BOOLEAN
    BY <2>2, MessageKinds
  <2>5. p.n = srv.last + 1
    BY <1>0, <2>2, <2>3
  <2>. QED
    BY <1>0, <2>2, <2>3, <2>4, <2>5
<1>3. recovered \in BOOLEAN /\ forward \in BOOLEAN /\ queued \in BOOLEAN
    BY <1>0, <1>2
<1>4. /\ o \in Nat /\ c \in Nat /\ ep \in Nat /\ pending \in {None} \cup Reasons
      /\ flushed \in BOOLEAN /\ desync \in BOOLEAN /\ deliveries \subseteq 1 .. MaxPackets
    BY <1>0, <1>1, <1>2, <1>3
<1>5. /\ recovered => srv.desync /\ p.key
      /\ forward <=> srv.projected /\ (recovered \/ ~srv.desync)
      /\ queued => forward
    BY <1>0, <1>3
<1>. HIDE DEF p, recovered, forward, queued
<1>6. /\ pending = IF recovered THEN None ELSE srv.pending
      /\ flushed <=> srv.flushed /\ ~recovered
      /\ desync <=> (~recovered /\ (srv.desync \/ ~srv.projected)) \/ (forward /\ ~queued)
      /\ deliveries = IF queued THEN srv.deliveries \cup {pn} ELSE srv.deliveries
      /\ pn = p.n
    BY <1>0, <1>3
<1>. HIDE DEF o, c, ep, pn, pending, flushed, desync, deliveries
<1>7. /\ charged \in Presenter
      /\ charged.last = pn /\ charged.pending = pending /\ charged.flushed = flushed
      /\ charged.desync = desync /\ charged.deliveries = deliveries
      /\ charged.playing = srv.playing /\ charged.ended = srv.ended
      /\ charged.projected = srv.projected /\ charged.attached = srv.attached
      /\ charged.visible = srv.visible /\ charged.synced = srv.synced
  <2>. DEFINE u == [srv EXCEPT !.out = o, !.charged = c, !.epoch = ep, !.last = pn]
              v == [u EXCEPT !.pending = pending, !.flushed = flushed, !.desync = desync,
                             !.deliveries = deliveries]
  <2>1. /\ u \in Presenter /\ u.last = pn
        /\ u.playing = srv.playing /\ u.ended = srv.ended
        /\ u.projected = srv.projected /\ u.attached = srv.attached
        /\ u.visible = srv.visible /\ u.synced = srv.synced
    BY <1>0, <1>2, <1>4 DEF Presenter
  <2>2. v = charged
    BY <1>0 DEF charged, Presenter
  <2>. HIDE DEF u
  <2>3. v \in Presenter
    BY <1>4, <2>1 DEF Presenter
  <2>4. /\ v.last = u.last /\ v.pending = pending /\ v.flushed = flushed
        /\ v.desync = desync /\ v.deliveries = deliveries
        /\ v.playing = u.playing /\ v.ended = u.ended
        /\ v.projected = u.projected /\ v.attached = u.attached
        /\ v.visible = u.visible /\ v.synced = u.synced
    BY <1>4, <2>1 DEF Presenter
  <2>. HIDE DEF v
  <2>. QED
    BY <2>1, <2>2, <2>3, <2>4
<1>. HIDE DEF charged
<1>8. /\ srv'.last = pn /\ srv'.pending = pending /\ srv'.flushed = flushed
      /\ srv'.desync = desync /\ srv'.deliveries = deliveries
      /\ srv'.playing = srv.playing /\ srv'.ended = srv.ended
      /\ srv'.projected = srv.projected /\ srv'.attached = srv.attached
      /\ srv'.visible = srv.visible /\ srv'.synced = srv.synced
  <2>1. /\ Alike(charged, prepare_credit_return(charged, 1))
        /\ prepare_credit_return(charged, 1).projected = charged.projected
        /\ prepare_credit_return(charged, 1).desync = charged.desync
        /\ prepare_credit_return(charged, 1).pending = charged.pending
        /\ prepare_credit_return(charged, 1).deliveries = charged.deliveries
        /\ prepare_credit_return(charged, 1).synced = charged.synced
    BY <1>7, CreditSame
  <2>2. CASE queued
    BY <1>1, <1>7, <2>2
  <2>3. CASE ~queued
    BY <1>1, <1>7, <2>1, <2>3 DEF Alike
  <2>. QED
    BY <2>2, <2>3
<1>9. srv.playing /\ srv'.last = srv.last + 1 /\ srv'.last > 0
    BY <1>0, <1>2, <1>8
<1>10. /\ Ingested = {}
       /\ Ingested' = IF queued THEN {p} ELSE {}
    BY <1>1 DEF Ingested, Idle
<1>11. /\ Writing' = Writing /\ Deferred' = Deferred /\ Channelled' = Channelled
       /\ Sending' = Sending /\ Waiting' = Waiting
    BY <1>1 DEF Writing, Deferred, Channelled, CarriedBy, Sending, MediaOf, Waiting
<1>12. OnTheWay' = OnTheWay \cup Ingested'
    BY <1>10, <1>11 DEF OnTheWay
<1>13. Told' = Told /\ Lost' = Lost /\ Coming' = Coming
    BY <1>1 DEF Told, Lost, Acked, Answers, Coming
<1>14. /\ \A q \in OnTheWay : q.n \in Nat /\ q.n <= srv.last /\ outer.last < q.n
       /\ outer.last <= srv.last /\ outer.last \in Nat
    BY <1>0, WayKinds, PlaceKinds DEF Repairing, InOrder
<1>15. InOrder'
  <2>1. Ahead(OnTheWay, {p})
    BY <1>0, <1>2, <1>6, <1>14 DEF Ahead
  <2>2. InTurn(Writing, Deferred, Channelled, Sending, Waiting, {})
    BY <1>10 DEF Repairing, InOrder
  <2>3. InTurn(Writing, Deferred, Channelled, Sending, Waiting, {p})
    BY <1>10, <2>1, <2>2, TurnsNew DEF OnTheWay
  <2>4. InTurn(Writing', Deferred', Channelled', Sending', Waiting', Ingested')
    BY <1>10, <1>11, <2>2, <2>3
  <2>5. \A q \in OnTheWay' : outer'.last < q.n /\ q.n <= srv'.last
    BY <1>0, <1>1, <1>2, <1>6, <1>9, <1>10, <1>12, <1>14
  <2>6. outer'.last <= srv'.last
    BY <1>0, <1>1, <1>9, <1>14
  <2>. QED
    BY <1>1, <2>4, <2>5, <2>6 DEF Repairing, InOrder
<1>16. OneFate'
  <2>1. \A n \in Told \cup Lost : n \in 1 .. srv.last /\ \A q \in OnTheWay : q.n # n
    BY DEF Repairing, OneFate
  <2>2. \A n \in 1 .. srv.last : n \in 1 .. srv'.last /\ p.n # n
    BY <1>0, <1>2, <1>6, <1>9
  <2>3. \A q \in OnTheWay' : q \in OnTheWay \/ q = p
    BY <1>10, <1>12
  <2>. QED
    BY <1>13, <2>1, <2>2, <2>3 DEF Repairing, OneFate
<1>17. FirstIsKey /\ FirstIsKey'
  <2>1. FirstIsKey
    BY DEF Repairing
  <2>2. \A i \in 1 .. Len(wire) - 1 : i + 1 \in 1 .. Len(wire)
    BY <1>0
  <2>. QED
    BY <1>1, <1>2, <2>1, <2>2 DEF FirstIsKey
<1>18. SourceKept' /\ BeforePlay' /\ Hiding'
    BY <1>1, <1>8, <1>13 DEF Repairing, SourceKept, BeforePlay, NothingYet, Hiding
<1>19. Waits'
    BY <1>1, <1>6, <1>8, <1>9 DEF Repairing, Waits
<1>20. Repairs'
  <2>0. Repairs
    BY DEF Repairing
  <2>1. CASE forward /\ ~queued
    BY <1>1, <2>1 DEF Repairs, Reported, Noticed
  <2>2. CASE Excused
    <3>1. Recreates => Recreates'
      BY <1>1, <1>8, <1>13 DEF Recreates
    <3>. QED
      BY <1>8, <2>2, <3>1 DEF Repairs, Excused
  <2>3. CASE Reported
    <3>1. Noticed => Noticed'
      BY <1>1 DEF Noticed, Idle
    <3>. QED
      BY <1>6, <1>8, <1>13, <2>3, <3>1 DEF Repairs, Reported
  <2>4. CASE ~recovered /\ Asked
    BY <1>6, <1>8, <2>4 DEF Repairs, Asked
  <2>5. CASE recovered /\ queued
    <3>1. ~srv'.desync
      BY <1>3, <1>4, <1>6, <1>8, <2>5
    <3>2. p \in OnTheWay' /\ p.n = pn /\ p.key
      BY <1>5, <1>6, <1>10, <1>12, <2>5
    <3>3. pn \in srv'.deliveries
      BY <1>6, <1>8, <2>5
    <3>4. pn \in 1 .. srv'.last + 1 /\ \A n \in pn .. srv'.last : n = pn
      BY <1>0, <1>2, <1>8
    <3>. QED
      BY <3>1, <3>2, <3>3, <3>4 DEF Repairs, Whole, WholeFrom
  <2>6. CASE ~recovered /\ Whole /\ ~Excused /\ queued
    <3>1. ~srv'.desync
      BY <1>3, <1>4, <1>5, <1>6, <1>8, <2>6 DEF Whole, Excused
    <3>2. PICK k \in 1 .. srv.last + 1 : WholeFrom(k)
      BY <2>6 DEF Whole
    <3>3. p \in OnTheWay' /\ p.n = pn /\ pn \in srv'.deliveries
      BY <1>6, <1>8, <1>10, <1>12, <2>6
    <3>4. \A n \in k .. srv'.last : n \in k .. srv.last \/ n = pn
      BY <1>0, <1>2, <1>8, <3>2
    <3>5. \A n \in k .. srv.last : n \in srv'.deliveries /\ \E q \in OnTheWay' : q.n = n
      BY <1>6, <1>8, <1>12, <2>6, <3>2 DEF WholeFrom
    <3>6. \A n \in k .. srv'.last : n \in srv'.deliveries /\ \E q \in OnTheWay' : q.n = n
      BY <3>3, <3>4, <3>5
    <3>7. k \in 1 .. srv'.last + 1
      BY <1>0, <1>9, <3>2
    <3>8. \/ \E q \in OnTheWay' : q.n = k /\ q.key
          \/ outer'.ok /\ k = outer'.last + 1
      <4>1. CASE srv.last = 0
        <5>1. k = 1 /\ p.n = 1
          BY <1>2, <1>6, <3>2, <4>1
        <5>2. p.key
          BY <1>2, <1>17, <5>1 DEF FirstIsKey
        <5>. QED
          BY <3>3, <5>1, <5>2
      <4>2. CASE srv.last # 0
        BY <1>1, <1>12, <3>2, <4>2 DEF WholeFrom
      <4>. QED
        BY <4>1, <4>2
    <3>. QED
      BY <3>1, <3>6, <3>7, <3>8 DEF Repairs, Whole, WholeFrom
  <2>7. Excused \/ forward \/ ~recovered
    BY <1>5 DEF Excused
  <2>8. Whole /\ ~Excused => forward /\ ~recovered
    BY <1>5 DEF Whole, Excused
  <2>. QED
    BY <1>3, <2>0, <2>1, <2>2, <2>3, <2>4, <2>5, <2>6, <2>7, <2>8 DEF Repairs
<1>. QED
    BY <1>15, <1>16, <1>17, <1>18, <1>19, <1>20 DEF Repairing

----------------------------------------------------------------------------
(* Records that leave or move on, and snapshots that are sent. *)

\* A record that is lost, or written, has had no other fate.
LEMMA FateKept ==
    ASSUME PathTypes, InOrder, OneFate, srv.last \in Nat,
           srv'.last = srv.last, OnTheWay' \subseteq OnTheWay
    PROVE  /\ Told' \subseteq Told /\ Lost' \subseteq Lost => OneFate'
           /\ \A p \in OnTheWay :
                (\A q \in OnTheWay' : q.n # p.n) =>
                    /\ Told' \subseteq Told /\ Lost' \subseteq Lost \cup {p.n} => OneFate'
                    /\ Told' \subseteq Told \cup {p.n} /\ Lost' \subseteq Lost => OneFate'
<1>1. \A n \in Told \cup Lost : n \in 1 .. srv.last /\ \A p \in OnTheWay : p.n # n
    BY DEF OneFate
<1>2. Told \cap Lost = {}
    BY DEF OneFate
<1>3. \A p \in OnTheWay : p.n \in 1 .. srv.last
    BY WayKinds DEF InOrder
<1>4. ASSUME Told' \subseteq Told, Lost' \subseteq Lost PROVE OneFate'
    BY <1>1, <1>2, <1>4 DEF OneFate
<1>5. ASSUME NEW p \in OnTheWay, \A q \in OnTheWay' : q.n # p.n,
             Told' \subseteq Told, Lost' \subseteq Lost \cup {p.n}
      PROVE  OneFate'
    BY <1>1, <1>2, <1>3, <1>5 DEF OneFate
<1>6. ASSUME NEW p \in OnTheWay, \A q \in OnTheWay' : q.n # p.n,
             Told' \subseteq Told \cup {p.n}, Lost' \subseteq Lost
      PROVE  OneFate'
    BY <1>1, <1>2, <1>3, <1>6 DEF OneFate
<1>. QED
    BY <1>4, <1>5, <1>6

\* Before the first record, nothing is on the way.
LEMMA NothingAtFirst ==
    ASSUME RelayInv, Repairing, srv.last = 0
    PROVE  /\ OnTheWay = {} /\ NothingYet
           /\ client.queue = <<>> /\ worker.deferred = None
<1>0. PathTypes
    BY Numbers
<1>1. OnTheWay = {}
    BY <1>0, WayKinds DEF Repairing, InOrder
<1>2. Writing = {} /\ Deferred = {} /\ Channelled = {}
    BY <1>1 DEF OnTheWay
<1>3. outer.queue = <<>>
    BY <1>0, <1>2, PlaceKinds, MembersOf DEF Writing
<1>4. worker.deferred = None
    BY <1>2 DEF Deferred
<1>5. client.queue = <<>>
  <2>1. Members(client.queue) = {}
    BY <1>2 DEF Channelled, CarriedBy
  <2>. QED
    BY <1>0, <2>1, PlaceKinds, MembersOf
<1>6. outer.done = <<>>
  <2>1. Told \cup Lost = {}
    BY DEF Repairing, OneFate
  <2>2. Members(outer.done) = {}
    <3>. SUFFICES ASSUME NEW m \in Members(outer.done) PROVE FALSE
      OBVIOUS
    <3>1. m \in Acks
      BY <1>0, PlaceKinds, MembersOf
    <3>2. m.type = "ack" /\ m.delivered \in BOOLEAN
      BY <3>1 DEF Acks
    <3>3. m.n \in Told \cup Lost
      BY <3>2 DEF Told, Lost, Acked, Answers
    <3>. QED
      BY <2>1, <3>3
  <2>. QED
    BY <1>0, <2>2, PlaceKinds, MembersOf
<1>7. ~outer.ok
  <2>1. outer.last <= srv.last /\ outer.last \in Nat
    BY <1>0, PlaceKinds DEF Repairing, InOrder
  <2>. QED
    BY <2>1 DEF Repairing, Waits
<1>. QED
    BY <1>1, <1>3, <1>4, <1>5, <1>6, <1>7 DEF NothingYet

\* A source whose records are on the way plays.
LEMMA PlaysOn ==
    ASSUME RelayInv, Repairing, OnTheWay # {}
    PROVE  srv.playing
BY NothingAtFirst DEF Repairing, Waits

\* A snapshot is sent behind the other messages.
LEMMA SnapshotSent ==
    ASSUME RelayInv, Repairing, NEW force \in BOOLEAN
    PROVE  LET messages == to_client \o SyncMessages(srv, force)
           IN  /\ messages \in Seq(Snapshots \cup Media)
               /\ Members(messages) = Members(to_client) \cup Members(SyncMessages(srv, force))
               /\ Members(SyncMessages(srv, force)) =
                    IF SyncSends(srv, force) THEN {Snapshot(srv)} ELSE {}
               /\ MediaOf(messages) = Sending
               /\ Sorted(messages, MessagesAfter)
<1>. DEFINE x == Snapshot(srv)
            sync == SyncMessages(srv, force)
            messages == to_client \o sync
            M == Snapshots \cup Media
<1>0. /\ to_client \in Seq(M) /\ PathTypes /\ srv \in Presenter
      /\ sync \in Seq(M)
    BY Numbers, SyncKeeps, PlaceKinds
<1>1. sync = IF SyncSends(srv, force) THEN <<x>> ELSE <<>>
    BY DEF SyncMessages
<1>2. Members(messages) = Members(to_client) \cup Members(sync) /\ messages \in Seq(M)
    BY <1>0, MembersOf, ConcatProperties
<1>3. x.type = "snapshot" /\ x.playing = srv.playing
    BY DEF Snapshot
<1>. HIDE DEF x, sync
<1>4. CASE ~SyncSends(srv, force)
  <2>1. sync = <<>> /\ Members(sync) = {}
    BY <1>1, <1>4, <1>0, MembersOf
  <2>2. messages = to_client
    BY <1>0, <2>1, ConcatEmptySeq
  <2>. QED
    BY <1>2, <1>4, <2>1, <2>2 DEF Repairing, InOrder, Sending, sync
<1>5. CASE SyncSends(srv, force)
  <2>1. sync = <<x>> /\ x \in M
    <3>1. sync = <<x>>
      BY <1>1, <1>5
    <3>2. <<x>> \in Seq(M)
      BY <1>0, <3>1
    <3>3. Len(<<x>>) = 1 /\ <<x>>[1] = x
      OBVIOUS
    <3>4. x \in M
      BY <3>2, <3>3, ElementOfSeq
    <3>. QED
      BY <3>1, <3>4
  <2>4. Members(sync) = {x}
    <3>1. Len(<<x>>) = 1 /\ <<x>>[1] = x
      OBVIOUS
    <3>. QED
      BY <2>1, <3>1 DEF Members
  <2>3. Members(messages) = Members(to_client) \cup {x}
    BY <1>2, <2>4
  <2>5. MediaOf(messages) = MediaOf(to_client)
    BY <1>3, <2>3 DEF MediaOf
  <2>6. ASSUME NEW m \in Members(to_client) PROVE x \in MessagesAfter[m]
    <3>1. m \in M
      BY <1>0, <2>6, MembersOf
    <3>2. MessagesAfter[m] =
            {k \in M : m.type = "media" => IF k.type = "media" THEN m.packet.n < k.packet.n
                                           ELSE k.playing}
      BY <3>1 DEF MessagesAfter
    <3>3. m.type = "media" => m.packet \in OnTheWay
      BY <2>6 DEF OnTheWay, Sending, MediaOf
    <3>4. m.type = "media" => srv.playing
      BY <3>3, PlaysOn
    <3>. QED
      BY <1>3, <2>1, <3>2, <3>4
  <2>7. Sorted(to_client, MessagesAfter)
    BY DEF Repairing, InOrder
  <2>8. Sorted(messages, MessagesAfter)
    <3>1. Sorted(to_client \o <<x>>, MessagesAfter)
      BY ONLY <1>0, <2>1, <2>6, <2>7, SortedJoined
    <3>. QED
      BY <2>1, <3>1
  <2>. QED
    BY <1>2, <1>5, <2>4, <2>5, <2>8 DEF Sending, x, sync
<1>. QED
    BY <1>4, <1>5

\* What a synchronisation keeps, whether or not a record is handed on or given up after
\* it.
LEMMA SyncParts ==
    ASSUME RelayInv, Repairing, NEW force \in BOOLEAN,
           UNCHANGED <<control, client, worker, outer>>,
           LET s == sync_media(srv, force)
           IN  /\ Alike(s, srv') /\ srv'.projected = s.projected
               /\ srv'.synced = s.synced /\ srv'.pending = s.pending
               /\ s.desync => srv'.desync
               /\ ~srv.playing => srv'.desync = s.desync,
           \A m \in Members(to_client') : m.type = "snapshot" =>
              m \in Members(to_client) \/ m \in Members(SyncMessages(srv, force)),
           Members(SyncMessages(srv, force)) \subseteq Members(to_client'),
           Members(to_client) \subseteq Members(to_client'),
           \/ SyncSends(srv, force) \/ ~srv.attached
           \/ Retry \in Members(to_server) => Retry \in Members(to_server')
    PROVE  BeforePlay' /\ SourceKept' /\ Waits' /\ Hiding'
<1>. DEFINE s == sync_media(srv, force)
            new == Members(SyncMessages(srv, force))
<1>0. /\ srv \in Presenter /\ BeforePlay /\ SourceKept /\ Waits /\ Hiding
    BY Numbers DEF Repairing
<1>1. /\ Alike(srv, s) /\ s.pending = srv.pending /\ (srv.desync => s.desync)
      /\ ~srv.attached => ~s.projected
      /\ srv.attached => Synced(srv, s)
      /\ srv.attached /\ SyncSends(srv, force) => s.projected = srv.visible /\ s.synced
      /\ srv.attached /\ ~SyncSends(srv, force) => s = srv
    BY <1>0, SyncSame
<1>2. ~srv.attached /\ ~srv.playing => s.desync = srv.desync
  <2>1. ~srv.attached => s = deactivate_bridge(srv)
    BY DEF sync_media
  <2>2. deactivate_bridge(srv).desync = (srv.desync \/ srv.playing)
    BY <1>0, DeactivateSame
  <2>3. srv.desync \in BOOLEAN /\ srv.playing \in BOOLEAN
    BY <1>0 DEF Presenter
  <2>. QED
    BY <2>1, <2>2, <2>3
<1>3. srv.attached => s.desync = srv.desync
    BY <1>1 DEF Synced
<1>4. new = IF SyncSends(srv, force) THEN {Snapshot(srv)} ELSE {}
    BY SnapshotSent
<1>5. /\ Snapshot(srv).type = "snapshot" /\ Snapshot(srv).playing = srv.playing
      /\ Snapshot(srv).present = srv.visible
    BY DEF Snapshot
<1>. HIDE DEF s, new
<1>6. /\ Alike(s, srv') /\ srv'.projected = s.projected
      /\ srv'.synced = s.synced /\ srv'.pending = s.pending
      /\ s.desync => srv'.desync
      /\ ~srv.playing => srv'.desync = s.desync
      /\ new \subseteq Members(to_client')
      /\ \A m \in Members(to_client') : m.type = "snapshot" =>
            m \in Members(to_client) \/ m \in new
    BY DEF s, new
<1>7. Alike(srv, srv')
    BY <1>1, <1>6 DEF Alike
<1>8. Coming' \subseteq Coming \cup new /\ Coming \subseteq Coming' /\ new \subseteq Coming'
    BY <1>4, <1>5, <1>6 DEF Coming
<1>9. ~srv.playing => NothingYet /\ client.queue = <<>> /\ worker.deferred = None
    BY <1>0, NothingAtFirst DEF Waits
<1>10. NothingYet' <=> NothingYet
    BY DEF NothingYet
<1>11. BeforePlay'
  <2>1. \A b \in Coming' : b.playing \/ NothingYet'
    BY <1>0, <1>4, <1>5, <1>8, <1>9, <1>10 DEF BeforePlay
  <2>2. \A m \in Members(to_client') :
          m.type = "snapshot" => \/ m.playing
                                 \/ client'.queue = <<>> /\ worker'.deferred = None
    BY <1>0, <1>4, <1>5, <1>6, <1>9 DEF BeforePlay
  <2>. QED
    BY <2>1, <2>2 DEF BeforePlay
<1>12. SourceKept'
  <2>1. srv'.attached /\ worker'.force => Coming' # {} \/ Retry \in Members(to_server')
    <3>1. CASE SyncSends(srv, force)
      BY <1>4, <1>8, <3>1
    <3>2. CASE ~SyncSends(srv, force)
      BY <1>0, <1>7, <1>8, <3>2 DEF SourceKept, Alike
    <3>. QED
      BY <3>1, <3>2
  <2>. QED
    BY <1>0, <2>1 DEF SourceKept
<1>13. Waits'
    BY <1>0, <1>1, <1>2, <1>3, <1>6, <1>7 DEF Waits, Asked, Alike
<1>14. Hiding'
  <2>1. CASE ~srv.attached
    BY <1>7, <2>1 DEF Hiding, Alike
  <2>2. CASE srv.attached /\ SyncSends(srv, force)
    BY <1>0, <1>1, <1>4, <1>5, <1>6, <1>7, <1>8, <2>2 DEF Hiding, Alike
  <2>3. CASE srv.attached /\ ~SyncSends(srv, force)
    BY <1>0, <1>1, <1>4, <1>6, <1>7, <1>8, <2>3 DEF Hiding, Alike
  <2>. QED
    BY <2>1, <2>2, <2>3
<1>. QED
    BY <1>11, <1>12, <1>13, <1>14

\* The charged record is handed to the actor, or its delivery is undone and a keyframe
\* will be asked for.
LEMMA SendRepairs ==
    ASSUME RelayInv, Repairing, IngestSend
    PROVE  Repairing'
<1>. DEFINE p == ingest.packet
            pn == p.n
            u == [srv EXCEPT !.deliveries = @ \ {pn}]
            undone == IF pn \in srv.deliveries THEN prepare_credit_return(u, 1) ELSE srv
            sent == Len(events) < EventQueue
<1>0. /\ PathTypes /\ srv \in Presenter /\ srv.last \in Nat
      /\ InOrder /\ OneFate /\ FirstIsKey /\ SourceKept /\ BeforePlay /\ Waits /\ Hiding
      /\ Repairs
    BY Numbers DEF Repairing
<1>1. /\ ingest.do = "send"
      /\ events' = IF sent THEN Append(events, p) ELSE events
      /\ srv' = IF sent THEN srv ELSE [undone EXCEPT !.desync = TRUE]
      /\ ingest' = IF sent THEN Idle ELSE [do |-> "request"]
      /\ UNCHANGED <<producer, wire, control, actor, to_client, client, worker, outer,
                     to_server>>
    BY DEF IngestSend
<1>2. p \in Packets /\ Ingested = {p} /\ Ingested' = {} /\ p \in OnTheWay
  <2>1. p \in Packets
    BY <1>0, <1>1, MessageKinds DEF PathTypes
  <2>. QED
    BY <1>1, <2>1 DEF Ingested, OnTheWay, Idle
<1>3. srv.playing
    BY <1>2, PlaysOn
<1>4. /\ Writing' = Writing /\ Deferred' = Deferred /\ Channelled' = Channelled
      /\ Sending' = Sending /\ Told' = Told /\ Lost' = Lost /\ Coming' = Coming
      /\ (NothingYet' <=> NothingYet)
    BY <1>1 DEF Writing, Deferred, Channelled, CarriedBy, Sending, MediaOf, Told, Lost, Acked,
                Answers, Coming, NothingYet
<1>5. events \in Seq(Packets) /\ Sorted(events, PacketsAfter)
    BY <1>0, PlaceKinds DEF InOrder
<1>6. FirstIsKey'
    BY <1>0, <1>1 DEF FirstIsKey
<1>7. BeforePlay'
    BY <1>0, <1>1, <1>4 DEF BeforePlay
<1>. HIDE DEF p, sent
<1>8. CASE sent
  <2>1. events' = Append(events, p) /\ srv' = srv /\ ingest' = Idle
    BY <1>1, <1>8
  <2>2. Waiting' = Waiting \cup {p}
    BY <1>2, <1>5, <2>1, MembersOf DEF Waiting
  <2>3. OnTheWay' = OnTheWay
    BY <1>2, <1>4, <2>2 DEF OnTheWay
  <2>4. Sorted(events', PacketsAfter)
    <3>1. ASSUME NEW q \in Members(events) PROVE p \in PacketsAfter[q]
      <4>1. q \in Packets
        BY <1>5, <3>1, MembersOf
      <4>2. q.n < p.n
        BY <1>0, <1>2, <3>1 DEF InOrder, InTurn, Ahead, Waiting
      <4>. QED
        BY <1>2, <4>1, <4>2 DEF PacketsAfter
    <3>. QED
      BY <1>2, <1>5, <2>1, <3>1, SortedOf
  <2>5. InTurn(Writing', Deferred', Channelled', Sending', Waiting', Ingested')
    <3>1. InTurn(Writing, Deferred, Channelled, Sending, Waiting, {p})
      BY <1>0, <1>2 DEF InOrder
    <3>2. Ahead({p}, {}) /\ {p} = {} \cup {p}
      BY DEF Ahead
    <3>3. InTurn(Writing, Deferred, Channelled, Sending, Waiting \cup {p}, {})
      BY ONLY <3>1, <3>2, TurnsMove
    <3>. QED
      BY <1>2, <1>4, <2>2, <3>3
  <2>6. InOrder'
    BY <1>0, <1>1, <2>1, <2>3, <2>4, <2>5 DEF InOrder
  <2>7. OneFate' /\ SourceKept' /\ Waits' /\ Hiding'
    BY <1>0, <1>1, <1>4, <2>1, <2>3 DEF OneFate, SourceKept, Waits, Asked, Hiding
  <2>8. Noticed => Noticed'
    BY <1>1, <2>1 DEF Noticed
  <2>9. Recreates => Excused'
    BY <1>1, <1>4, <2>1 DEF Recreates, Excused
  <2>10. Repairs'
    <3>1. \A q \in OnTheWay : q.n <= srv.last
      BY <1>0 DEF InOrder
    <3>. HIDE DEF Recreates, Excused, Noticed, Repairs, OnTheWay, Lost
    <3>. QED
      BY <1>0, <1>1, <1>4, <2>1, <2>3, <2>8, <2>9, <3>1, StillRepaired
  <2>. QED
    BY <1>6, <1>7, <2>6, <2>7, <2>10 DEF Repairing
<1>9. CASE ~sent
  <2>1. /\ events' = events /\ srv' = [undone EXCEPT !.desync = TRUE]
        /\ ingest' = [do |-> "request"]
    BY <1>1, <1>9
  <2>2. /\ undone \in Presenter /\ Alike(srv, undone)
        /\ undone.projected = srv.projected /\ undone.pending = srv.pending
        /\ undone.synced = srv.synced
    <3>1. CASE pn \notin srv.deliveries
      BY <1>0, <3>1 DEF Alike
    <3>2. CASE pn \in srv.deliveries
      <4>. DEFINE r == prepare_credit_return(u, 1)
      <4>0. srv' = [r EXCEPT !.desync = TRUE] /\ undone = r
        BY <2>1, <3>2
      <4>. HIDE DEF pn
      <4>1. /\ u \in Presenter /\ Alike(srv, u)
            /\ u.projected = srv.projected /\ u.pending = srv.pending
            /\ u.synced = srv.synced
        BY <1>0 DEF Presenter, Alike
      <4>2. /\ Alike(u, r) /\ r.projected = u.projected /\ r.pending = u.pending
            /\ r.synced = u.synced
        BY <4>1, CreditSame
      <4>3. r \in Presenter
        <5>1. Keeps(srv, r)
          BY <3>2, Numbers, ForgetQuietly DEF u, r
        <5>. QED
          BY <5>1 DEF Keeps, Sound
      <4>. HIDE DEF u, r, undone
      <4>. QED
        BY <4>0, <4>1, <4>2, <4>3 DEF Alike
    <3>. QED
      BY <3>1, <3>2
  <2>. HIDE DEF undone
  <2>3. /\ Alike(srv, srv') /\ srv'.projected = srv.projected
        /\ srv'.pending = srv.pending /\ srv'.synced = srv.synced /\ srv'.desync
    BY <2>1, <2>2 DEF Presenter, Alike
  <2>4. OnTheWay' \subseteq OnTheWay /\ Waiting' = Waiting
    BY <1>2, <1>4, <2>1 DEF OnTheWay, Waiting
  <2>5. InTurn(Writing', Deferred', Channelled', Sending', Waiting', Ingested')
    <3>1. InTurn(Writing, Deferred, Channelled, Sending, Waiting, Ingested)
      BY <1>0 DEF InOrder
    <3>2. InTurn(Writing, Deferred, Channelled, Sending, Waiting, {})
      BY ONLY <3>1, TurnsLess
    <3>. QED
      BY <1>2, <1>4, <2>4, <3>2
  <2>6. InOrder'
    BY <1>0, <1>1, <2>1, <2>3, <2>4, <2>5 DEF InOrder, Alike
  <2>7. OneFate' /\ SourceKept' /\ Waits' /\ Hiding'
    BY <1>0, <1>1, <1>3, <1>4, <2>3, <2>4 DEF OneFate, SourceKept, Waits, Asked, Hiding, Alike
  <2>8. Repairs'
    BY <2>1 DEF Repairs, Reported, Noticed
  <2>. QED
    BY <1>6, <1>7, <2>6, <2>7, <2>8 DEF Repairing
<1>. QED
    BY <1>8, <1>9

----------------------------------------------------------------------------
(* The session actor. *)

\* A pane is shown or hidden.  It is shown again only when its source is still projected,
\* or when the client has removed it.
LEMMA LayoutRepairs ==
    ASSUME RelayInv, Repairing, ChangeLayout, HidingApplied
    PROVE  Repairing'
<1>0. /\ PathTypes /\ srv \in Presenter /\ srv.last \in Nat
      /\ Waits /\ Hiding /\ Repairs /\ FirstIsKey
      /\ \A p \in OnTheWay : p.n <= srv.last
    BY Numbers DEF Repairing, InOrder
<1>1. /\ srv' = [srv EXCEPT !.visible = ~@, !.synced = FALSE]
      /\ UNCHANGED <<producer, wire, ingest, control, actor, events, to_client, client,
                     worker, outer, to_server>>
    BY DEF ChangeLayout
<1>2. /\ srv'.last = srv.last /\ srv'.attached = srv.attached /\ srv'.playing = srv.playing
      /\ srv'.ended = srv.ended /\ srv'.projected = srv.projected
      /\ srv'.desync = srv.desync /\ srv'.pending = srv.pending
      /\ srv'.flushed = srv.flushed /\ srv'.deliveries = srv.deliveries
      /\ ~srv'.synced /\ srv'.visible = ~srv.visible
    BY <1>0, <1>1 DEF Presenter
<1>3. /\ InOrder' /\ OneFate' /\ SourceKept' /\ BeforePlay'
      /\ OnTheWay' = OnTheWay /\ Lost' = Lost /\ Coming' = Coming
  <2>1. Ingested' = Ingested
    BY <1>1 DEF Ingested
  <2>. QED
    BY <1>1, <1>2, <2>1, AsideKeeps
<1>4. Waits' /\ FirstIsKey'
    BY <1>0, <1>1, <1>2 DEF Waits, Asked, FirstIsKey
<1>5. Hiding'
  <2>1. CASE srv.visible
    BY <1>0, <1>2, <1>3, <2>1 DEF Hiding
  <2>2. CASE ~srv.visible /\ srv.attached /\ ~srv.projected
    <3>1. ~worker.active /\ to_client = <<>> /\ client.snapshot = None
      BY <1>2, <2>2 DEF HidingApplied
    <3>2. Members(to_client) = {}
      BY <1>0, <3>1, PlaceKinds, MembersOf
    <3>3. Coming = {}
      BY <3>1, <3>2 DEF Coming
    <3>. QED
      BY <1>1, <1>2, <1>3, <3>1, <3>3 DEF Hiding
  <2>3. CASE ~srv.visible /\ srv.projected
    BY <1>0, <1>2, <1>3, <2>3 DEF Hiding
  <2>4. CASE ~srv.attached
    BY <1>2, <2>4 DEF Hiding
  <2>. QED
    BY <2>1, <2>2, <2>3, <2>4
<1>6. Repairs'
  <2>1. Noticed => Noticed'
    BY <1>1 DEF Noticed
  <2>2. Recreates => Excused'
    BY <1>1, <1>2, <1>3 DEF Recreates, Excused
  <2>. HIDE DEF Recreates, Excused, Noticed, Repairs, OnTheWay, Lost
  <2>. QED
    BY <1>0, <1>1, <1>2, <1>3, <2>1, <2>2, StillRepaired
<1>. QED
    BY <1>3, <1>4, <1>5, <1>6 DEF Repairing

\* A projection is published: nothing is taken from the records and the answers.
LEMMA PublishRepairs ==
    ASSUME RelayInv, Repairing, NEW force \in BOOLEAN,
           srv' = sync_media(srv, force),
           to_client' = to_client \o SyncMessages(srv, force),
           UNCHANGED <<producer, wire, ingest, control, events, client, worker, outer>>,
           Told' = Told, Lost' = Lost, Noticed => Noticed',
           \/ SyncSends(srv, force) \/ ~srv.attached
           \/ Retry \in Members(to_server) => Retry \in Members(to_server')
    PROVE  Repairing'
<1>0. /\ PathTypes /\ srv \in Presenter /\ srv.last \in Nat
      /\ InOrder /\ OneFate /\ FirstIsKey
    BY Numbers DEF Repairing
<1>. DEFINE sync == SyncMessages(srv, force)
            messages == to_client \o sync
            s == sync_media(srv, force)
<1>1. /\ Members(messages) = Members(to_client) \cup Members(sync)
      /\ Members(sync) = IF SyncSends(srv, force) THEN {Snapshot(srv)} ELSE {}
      /\ MediaOf(messages) = Sending /\ Sorted(messages, MessagesAfter)
    BY SnapshotSent
<1>2. /\ Alike(srv, s) /\ s.pending = srv.pending
      /\ ~srv.attached => ~s.projected
      /\ srv.attached => Synced(srv, s)
    BY <1>0, SyncSame
<1>3. ~srv.playing => s.desync = srv.desync
  <2>1. CASE ~srv.attached
    <3>1. s = deactivate_bridge(srv)
      BY <2>1 DEF sync_media
    <3>2. deactivate_bridge(srv).desync = (srv.desync \/ srv.playing)
      BY <1>0, DeactivateSame
    <3>3. srv.desync \in BOOLEAN /\ srv.playing \in BOOLEAN
      BY <1>0 DEF Presenter
    <3>. QED
      BY <3>1, <3>2, <3>3
  <2>2. CASE srv.attached
    BY <1>2, <2>2 DEF Synced
  <2>. QED
    BY <2>1, <2>2
<1>. HIDE DEF sync, s
<1>4. to_client' = messages /\ srv' = s
    BY DEF sync, s
<1>5. BeforePlay' /\ SourceKept' /\ Waits' /\ Hiding'
  <2>1. /\ Alike(s, srv') /\ srv'.projected = s.projected /\ srv'.synced = s.synced
        /\ srv'.pending = s.pending /\ (s.desync => srv'.desync)
        /\ ~srv.playing => srv'.desync = s.desync
    BY <1>4 DEF Alike
  <2>. QED
    BY <1>1, <1>4, <2>1, SyncParts DEF sync, s
<1>6. /\ Writing' = Writing /\ Deferred' = Deferred /\ Channelled' = Channelled
      /\ Sending' = Sending /\ Waiting' = Waiting /\ Ingested' = Ingested
  <2>1. Sending' = Sending
    BY <1>1, <1>4 DEF Sending
  <2>. QED
    BY <2>1 DEF Writing, Deferred, Channelled, CarriedBy, Waiting, Ingested
<1>7. OnTheWay' = OnTheWay
    BY <1>6 DEF OnTheWay
<1>8. InOrder' /\ OneFate' /\ FirstIsKey'
    BY <1>0, <1>1, <1>2, <1>4, <1>6, <1>7 DEF InOrder, OneFate, FirstIsKey, Alike
<1>9. Coming' \subseteq Coming \cup {Snapshot(srv)}
    BY <1>1, <1>4 DEF Coming
<1>10. Repairs'
  <2>1. CASE ~srv.attached
    BY <1>2, <1>4, <2>1 DEF Repairs, Excused
  <2>2. CASE srv.attached
    <3>1. Synced(srv, srv')
      BY <1>2, <1>4, <2>2
    <3>. HIDE DEF Noticed, Repairs, OnTheWay, Lost, Coming, Synced, Repairing
    <3>. QED
      BY <1>7, <1>9, <2>2, <3>1, SyncRepairs
  <2>. QED
    BY <2>1, <2>2
<1>. QED
    BY <1>5, <1>8, <1>10 DEF Repairing

\* The synchronisation after a render or a timeout, and the one after a loss.
LEMMA ResyncRepairs ==
    ASSUME RelayInv, Repairing, IdleSync \/ ActorResync
    PROVE  Repairing'
<1>1. \E force \in BOOLEAN :
          srv' = sync_media(srv, force) /\ to_client' = to_client \o SyncMessages(srv, force)
    BY DEF IdleSync, ActorResync
<1>2. /\ UNCHANGED <<producer, wire, ingest, control, events, client, worker, outer,
                     to_server>>
      /\ actor.do = "request" => actor' = actor
    BY DEF IdleSync, ActorResync
<1>3. Told' = Told /\ Lost' = Lost
    BY <1>2 DEF Told, Lost, Acked, Answers
<1>4. Noticed => Noticed'
    BY <1>2 DEF Noticed
<1>. HIDE DEF Noticed, Repairing, Told, Lost, RelayInv
<1>. QED
    BY <1>1, <1>2, <1>3, <1>4, PublishRepairs

\* A new client, or none: nothing is left of what the one before it held.
LEMMA FreshParts ==
    ASSUME RelayInv, Repairing, NewClient, UNCHANGED <<events, ingest>>,
           srv'.last = srv.last, Sorted(to_client', MessagesAfter),
           \A m \in Members(to_client') : m.type = "snapshot"
    PROVE  /\ InOrder' /\ OneFate' /\ SourceKept' /\ BeforePlay'
           /\ Coming' = Members(to_client') /\ ~outer'.has /\ ~outer'.ok /\ ~worker'.active
<1>0. PathTypes /\ InOrder /\ srv.last \in Nat
    BY Numbers DEF Repairing
<1>1. /\ client'.queue = <<>> /\ client'.snapshot = None /\ client'.dropped = {}
      /\ ~worker'.active /\ ~worker'.force /\ ~worker'.replace /\ worker'.deferred = None
      /\ ~outer'.has /\ ~outer'.ok /\ outer'.last = 0 /\ outer'.queue = <<>>
      /\ outer'.done = <<>> /\ to_server' = <<>>
    BY DEF NewClient, FreshClient, FreshWorker, NoSource
<1>2. Members(<<>>) = {}
    BY MembersOf, EmptySeq
<1>3. /\ Writing' = {} /\ Deferred' = {} /\ Channelled' = {} /\ Sending' = {}
      /\ Waiting' = Waiting /\ Ingested' = Ingested
    BY <1>1, <1>2 DEF Writing, Deferred, Channelled, CarriedBy, Sending, MediaOf, Waiting,
                      Ingested
<1>4. OnTheWay' \subseteq OnTheWay
    BY <1>3 DEF OnTheWay
<1>5. Told' = {} /\ Lost' = {}
    BY <1>1, <1>2 DEF Told, Lost, Acked, Answers
<1>6. Coming' = Members(to_client')
    BY <1>1 DEF Coming
<1>7. NothingYet'
    BY <1>1 DEF NothingYet
<1>8. InTurn({}, {}, {}, {}, Waiting, Ingested)
    BY <1>0, TurnsLess DEF InOrder
<1>9. \A p \in OnTheWay' : 0 < p.n /\ p.n <= srv.last
    BY <1>0, <1>4, WayKinds DEF InOrder
<1>10. InOrder'
    BY <1>0, <1>1, <1>3, <1>8, <1>9, SortedNone DEF InOrder
<1>11. OneFate' /\ SourceKept' /\ BeforePlay'
    BY <1>1, <1>5, <1>7 DEF OneFate, SourceKept, BeforePlay
<1>. QED
    BY <1>1, <1>6, <1>10, <1>11

LEMMA AttachRepairs ==
    ASSUME RelayInv, Repairing, Attach
    PROVE  Repairing'
<1>. DEFINE s == [srv EXCEPT !.attached = TRUE]
            x == Snapshot(s)
<1>0. /\ PathTypes /\ srv \in Presenter /\ srv.last \in Nat /\ Waits /\ FirstIsKey
    BY Numbers DEF Repairing
<1>1. /\ srv' = sync_media(s, TRUE) /\ to_client' = SyncMessages(s, TRUE)
      /\ NewClient /\ UNCHANGED <<producer, wire, ingest, control, actor, events>>
    BY DEF Attach
<1>2. /\ s \in Presenter /\ s.attached
      /\ s.last = srv.last /\ s.playing = srv.playing /\ s.ended = srv.ended
      /\ s.flushed = srv.flushed /\ s.visible = srv.visible
      /\ s.desync = srv.desync /\ s.pending = srv.pending
    BY <1>0 DEF Presenter
<1>3. x.type = "snapshot" /\ x.playing = s.playing /\ x.present = s.visible
    BY DEF Snapshot
<1>. HIDE DEF s
<1>4. SyncSends(s, TRUE)
    BY <1>2 DEF SyncSends
<1>5. srv' = projection_snapshot(s) /\ to_client' = <<x>>
    BY <1>1, <1>2, <1>4 DEF sync_media, SyncMessages
<1>6. /\ Alike(s, srv') /\ srv'.projected = s.visible /\ srv'.desync = s.desync
      /\ srv'.pending = s.pending
    BY <1>2, <1>5, ProjectedSame
<1>. HIDE DEF x
<1>7. Members(to_client') = {x} /\ Sorted(to_client', MessagesAfter)
  <2>1. Len(<<x>>) = 1 /\ <<x>>[1] = x
    OBVIOUS
  <2>2. Members(to_client') = {x}
    BY <1>5, <2>1 DEF Members
  <2>3. \A i, j \in 1 .. Len(<<x>>) : ~(i < j)
    BY <2>1
  <2>. QED
    BY <1>5, <2>2, <2>3 DEF Sorted
<1>8. /\ InOrder' /\ OneFate' /\ SourceKept' /\ BeforePlay'
      /\ Coming' = {x} /\ ~outer'.has /\ ~outer'.ok /\ ~worker'.active
  <2>1. srv'.last = srv.last /\ \A m \in Members(to_client') : m.type = "snapshot"
    BY <1>2, <1>3, <1>6, <1>7 DEF Alike
  <2>. QED
    BY <1>1, <1>7, <2>1, FreshParts
<1>9. Waits' /\ FirstIsKey'
    BY <1>0, <1>1, <1>2, <1>6, <1>8 DEF Waits, Asked, FirstIsKey, Alike
<1>10. Hiding'
    BY <1>3, <1>6, <1>8 DEF Hiding, Alike
<1>11. Repairs'
  <2>1. CASE ~srv.visible
    BY <1>2, <1>6, <2>1 DEF Repairs, Excused
  <2>2. CASE srv.playing
    <3>1. Recreates'
      BY <1>2, <1>3, <1>6, <1>8, <2>2 DEF Recreates, Alike
    <3>. QED
      BY <3>1 DEF Repairs, Excused
  <2>3. CASE ~srv.playing /\ srv.desync
    BY <1>0, <1>2, <1>6, <2>3 DEF Waits, Repairs, Asked, Alike
  <2>4. CASE ~srv.playing /\ ~srv.desync
    <3>1. srv'.last = 0 /\ ~srv'.desync
      BY <1>0, <1>2, <1>6, <2>4 DEF Waits, Alike
    <3>2. WholeFrom(1)'
      BY <3>1 DEF WholeFrom
    <3>3. 1 \in 1 .. srv'.last + 1
      BY <3>1
    <3>. QED
      BY <3>1, <3>2, <3>3 DEF Repairs, Whole
  <2>. QED
    BY <2>1, <2>2, <2>3, <2>4
<1>. QED
    BY <1>8, <1>9, <1>10, <1>11 DEF Repairing

LEMMA GoneRepairs ==
    ASSUME RelayInv, Repairing, Detach \/ ClientLost
    PROVE  Repairing'
<1>. DEFINE s == [srv EXCEPT !.attached = FALSE]
<1>0. /\ PathTypes /\ srv \in Presenter /\ srv.last \in Nat /\ Waits /\ FirstIsKey
    BY Numbers DEF Repairing
<1>1. /\ srv' \in {s, deactivate_bridge(s)} /\ to_client' = <<>>
      /\ NewClient /\ UNCHANGED <<producer, wire, ingest, control, actor, events>>
    BY DEF Detach, ClientLost, Gone
<1>2. /\ s \in Presenter /\ ~s.attached
      /\ s.last = srv.last /\ s.playing = srv.playing /\ s.ended = srv.ended
      /\ s.flushed = srv.flushed /\ s.visible = srv.visible
      /\ s.desync = srv.desync /\ s.pending = srv.pending
    BY <1>0 DEF Presenter
<1>3. {s.desync, s.playing} \subseteq BOOLEAN
    BY <1>2 DEF Presenter
<1>. HIDE DEF s
<1>4. /\ Alike(s, deactivate_bridge(s))
      /\ deactivate_bridge(s).desync = (s.desync \/ s.playing)
      /\ deactivate_bridge(s).pending = s.pending
    BY <1>2, DeactivateSame
<1>5. /\ Alike(s, srv') /\ srv'.pending = s.pending /\ (s.desync => srv'.desync)
      /\ ~s.playing => srv'.desync = s.desync
  <2>1. CASE srv' = s
    BY <2>1 DEF Alike
  <2>2. CASE srv' = deactivate_bridge(s)
    BY <1>3, <1>4, <2>2
  <2>. QED
    BY <1>1, <2>1, <2>2
<1>6. /\ InOrder' /\ OneFate' /\ SourceKept' /\ BeforePlay' /\ ~outer'.ok
  <2>1. Members(to_client') = {} /\ Sorted(to_client', MessagesAfter)
    BY <1>1, MembersOf, EmptySeq, SortedNone
  <2>2. srv'.last = srv.last
    BY <1>2, <1>5 DEF Alike
  <2>. QED
    BY <1>1, <2>1, <2>2, FreshParts
<1>7. Waits' /\ FirstIsKey'
    BY <1>0, <1>1, <1>2, <1>5, <1>6 DEF Waits, Asked, FirstIsKey, Alike
<1>8. Hiding' /\ Repairs'
    BY <1>2, <1>5 DEF Hiding, Repairs, Excused, Alike
<1>. QED
    BY <1>6, <1>7, <1>8 DEF Repairing

\* A record is passed on behind a newer projection, or given up with the connection.
LEMMA ForwardRepairs ==
    ASSUME RelayInv, Repairing, NEW sent \in BOOLEAN, ForwardMedia(sent)
    PROVE  Repairing'
<1>. DEFINE p == Head(events)
            n == p.n
            s == sync_media(srv, FALSE)
            sync == SyncMessages(srv, FALSE)
            messages == to_client \o sync
            m == [type |-> "media", packet |-> p]
<1>0. /\ PathTypes /\ srv \in Presenter /\ srv.last \in Nat
      /\ InOrder /\ OneFate /\ FirstIsKey /\ Waits /\ Hiding /\ SourceKept /\ Repairs
    BY Numbers DEF Repairing
<1>1. /\ actor = Idle /\ events # <<>> /\ (sent => srv.attached) /\ events' = Tail(events)
      /\ srv' = IF sent THEN s ELSE complete_bridge_delivery(s, n, FALSE)
      /\ to_client' = messages \o (IF sent THEN <<m>> ELSE <<>>)
      /\ actor' = IF ~sent /\ Loses(s, n, FALSE)
                  THEN [do |-> "request", resync |-> FALSE] ELSE Idle
      /\ UNCHANGED <<producer, wire, ingest, control, client, worker, outer, to_server>>
    BY DEF ForwardMedia
<1>2. /\ messages \in Seq(Snapshots \cup Media)
      /\ Members(messages) = Members(to_client) \cup Members(sync)
      /\ Members(sync) = IF SyncSends(srv, FALSE) THEN {Snapshot(srv)} ELSE {}
      /\ MediaOf(messages) = Sending /\ Sorted(messages, MessagesAfter)
    BY SnapshotSent
<1>3. /\ Alike(srv, s) /\ s.pending = srv.pending
      /\ ~srv.attached => ~s.projected
      /\ srv.attached => Synced(srv, s)
    BY <1>0, SyncSame
<1>4. s \in Presenter
  <2>1. Keeps(srv, s)
    BY Numbers, SyncKeeps
  <2>. QED
    BY <2>1 DEF Keeps, Sound
<1>5. /\ p \in Packets /\ events' \in Seq(Packets)
      /\ Waiting = Waiting' \cup {p} /\ p \in OnTheWay
      /\ Sorted(events', PacketsAfter) /\ Ahead({p}, Waiting')
  <2>1. events \in Seq(Packets) /\ Sorted(events, PacketsAfter)
    BY <1>0, PlaceKinds DEF InOrder
  <2>2. /\ p \in Members(events) /\ events' \in Seq(Packets)
        /\ Members(events) = Members(events') \cup {p}
    BY <1>1, <2>1, MembersOf
  <2>3. p \in Packets
    BY <2>1, <2>2, MembersOf
  <2>4. Sorted(events', PacketsAfter) /\ \A q \in Members(events') : q \in PacketsAfter[p]
    BY <1>1, <2>1, SortedOf
  <2>5. \A q \in Members(events') : p.n < q.n
    BY <2>3, <2>4 DEF PacketsAfter
  <2>. QED
    BY <2>2, <2>3, <2>4, <2>5 DEF Waiting, Ahead, OnTheWay
<1>6. srv.playing
    BY <1>5, PlaysOn
<1>. HIDE DEF p, s, sync, messages
<1>7. /\ Writing' = Writing /\ Deferred' = Deferred /\ Channelled' = Channelled
      /\ Ingested' = Ingested /\ Told' = Told /\ Lost' = Lost
    BY <1>1 DEF Writing, Deferred, Channelled, CarriedBy, Ingested, Told, Lost, Acked, Answers
<1>8. InTurn(Writing, Deferred, Channelled, Sending, Waiting, Ingested)
    BY <1>0 DEF InOrder
<1>9. FirstIsKey'
    BY <1>0, <1>1 DEF FirstIsKey
<1>10. Noticed => Noticed'
    BY <1>1 DEF Noticed, Idle
<1>11. CASE sent
  <2>1. srv' = s /\ to_client' = messages \o <<m>>
    BY <1>1, <1>11
  <2>2. m.type = "media" /\ m.packet = p /\ m \in Snapshots \cup Media
    BY <1>5 DEF Media
  <2>. HIDE DEF m
  <2>3. /\ Members(to_client') = Members(messages) \cup {m}
        /\ Sorted(to_client', MessagesAfter)
    <3>1. ASSUME NEW k \in Members(messages) PROVE m \in MessagesAfter[k]
      <4>1. k \in Snapshots \cup Media
        BY <1>2, <3>1, MembersOf
      <4>2. k.type = "media" => k.packet \in Sending
        BY <1>2, <3>1 DEF MediaOf
      <4>3. k.type = "media" => k.packet.n < p.n
        BY <1>5, <1>8, <4>2 DEF InTurn, Ahead
      <4>4. MessagesAfter[k] =
              {i \in Snapshots \cup Media :
                  k.type = "media" => IF i.type = "media" THEN k.packet.n < i.packet.n
                                      ELSE i.playing}
        BY <4>1 DEF MessagesAfter
      <4>. QED
        BY <2>2, <4>3, <4>4
    <3>2. /\ messages \in Seq(Snapshots \cup Media) /\ m \in Snapshots \cup Media
          /\ Sorted(messages, MessagesAfter)
          /\ \A k \in Members(messages) : m \in MessagesAfter[k]
      BY <1>2, <2>2, <3>1
    <3>3. Members(messages \o <<m>>) = Members(messages) \cup {m}
          /\ Sorted(messages \o <<m>>, MessagesAfter)
      BY ONLY <3>2, SortedJoined
    <3>. QED
      BY <2>1, <3>3
  <2>4. Sending' = Sending \cup {p}
    BY <1>2, <2>2, <2>3 DEF Sending, MediaOf
  <2>5. OnTheWay' = OnTheWay
    BY <1>5, <1>7, <2>4 DEF OnTheWay
  <2>6. InTurn(Writing', Deferred', Channelled', Sending', Waiting', Ingested')
    <3>1. InTurn(Writing, Deferred, Channelled, Sending \cup {p}, Waiting', Ingested)
      BY ONLY <1>5, <1>8, TurnsMove
    <3>. QED
      BY <1>7, <2>4, <3>1
  <2>7. InOrder'
    BY <1>0, <1>1, <1>3, <1>5, <2>1, <2>3, <2>5, <2>6 DEF InOrder, Alike
  <2>8. OneFate'
    BY <1>0, <1>3, <1>7, <2>1, <2>5 DEF OneFate, Alike
  <2>9. BeforePlay' /\ SourceKept' /\ Waits' /\ Hiding'
    <3>1. /\ Alike(s, srv') /\ srv'.projected = s.projected /\ srv'.synced = s.synced
          /\ srv'.pending = s.pending /\ (s.desync => srv'.desync)
          /\ ~srv.playing => srv'.desync = s.desync
      BY <2>1 DEF Alike
    <3>2. /\ \A k \in Members(to_client') : k.type = "snapshot" =>
                k \in Members(to_client) \/ k \in Members(sync)
          /\ Members(sync) \subseteq Members(to_client')
          /\ Members(to_client) \subseteq Members(to_client')
      BY <1>2, <2>2, <2>3
    <3>. QED
      BY <1>1, <3>1, <3>2, SyncParts DEF sync, s
  <2>10. Coming' \subseteq Coming \cup {Snapshot(srv)}
    BY <1>1, <1>2, <2>2, <2>3 DEF Coming
  <2>11. Repairs'
    <3>1. srv.attached /\ Synced(srv, srv')
      BY <1>1, <1>3, <1>11, <2>1
    <3>. HIDE DEF Noticed, Repairs, OnTheWay, Lost, Coming, Synced, Repairing
    <3>. QED
      BY <1>1, <1>7, <1>10, <2>5, <2>10, <3>1, SyncRepairs
  <2>. QED
    BY <1>9, <2>7, <2>8, <2>9, <2>11 DEF Repairing
<1>12. CASE ~sent
  <2>1. srv' = complete_bridge_delivery(s, n, FALSE) /\ to_client' = messages
    <3>1. to_client' = messages \o <<>>
      BY <1>1, <1>12
    <3>2. messages \o <<>> = messages
      BY <1>2, ConcatEmptySeq
    <3>. QED
      BY <1>1, <1>12, <3>1, <3>2
  <2>2. /\ Alike(s, srv') /\ srv'.projected = s.projected /\ srv'.pending = s.pending
        /\ srv'.synced = s.synced /\ srv'.deliveries = s.deliveries \ {n}
        /\ srv'.desync = (s.desync \/ Loses(s, n, FALSE))
    BY <1>4, <2>1, CompleteSame
  <2>3. Sending' = Sending
    BY <1>2, <2>1 DEF Sending
  <2>4. OnTheWay' \subseteq OnTheWay /\ \A q \in OnTheWay : q \in OnTheWay' \/ q = p
    BY <1>5, <1>7, <2>3 DEF OnTheWay
  <2>5. InTurn(Writing', Deferred', Channelled', Sending', Waiting', Ingested')
    <3>1. Waiting' \subseteq Waiting
      BY <1>5
    <3>2. InTurn(Writing, Deferred, Channelled, Sending, Waiting', Ingested)
      BY ONLY <1>8, <3>1, TurnsLess
    <3>. QED
      BY <1>7, <2>3, <3>2
  <2>6. InOrder'
    BY <1>0, <1>1, <1>2, <1>3, <1>5, <2>1, <2>2, <2>4, <2>5 DEF InOrder, Alike
  <2>7. OneFate'
    BY <1>0, <1>3, <1>7, <2>2, <2>4 DEF OneFate, Alike
  <2>8. BeforePlay' /\ SourceKept' /\ Waits' /\ Hiding'
    <3>1. /\ s.desync => srv'.desync
          /\ ~srv.playing => srv'.desync = s.desync
      BY <1>6, <2>2
    <3>2. /\ \A k \in Members(to_client') : k.type = "snapshot" =>
                k \in Members(to_client) \/ k \in Members(sync)
          /\ Members(sync) \subseteq Members(to_client')
          /\ Members(to_client) \subseteq Members(to_client')
      BY <1>2, <2>1
    <3>. QED
      BY <1>1, <2>2, <3>1, <3>2, SyncParts DEF sync, s
  <2>9. Coming' \subseteq Coming \cup {Snapshot(srv)}
    BY <1>1, <1>2, <2>1 DEF Coming
  <2>10. Repairs'
    <3>1. CASE ~srv'.projected \/ srv'.ended
      BY <3>1 DEF Repairs, Excused
    <3>2. CASE Loses(s, n, FALSE)
      BY <1>1, <1>12, <3>2 DEF Repairs, Reported, Noticed
    <3>3. CASE srv'.projected /\ ~srv'.ended /\ ~Loses(s, n, FALSE)
      <4>1. n \notin s.deliveries
        BY <2>2, <3>3 DEF Loses, Alike
      <4>2. srv.attached /\ Synced(srv, s)
        BY <1>3, <2>2, <3>3
      <4>3. srv' = s
        BY <2>1, <4>1 DEF complete_bridge_delivery
      <4>4. \A q \in OnTheWay : q \in OnTheWay' \/ q.n \in Lost' \/ q.n \notin srv'.deliveries
        BY <2>4, <4>1, <4>3
      <4>5. Synced(srv, srv')
        BY <4>2, <4>3
      <4>. HIDE DEF Noticed, Repairs, OnTheWay, Lost, Coming, Synced, Repairing
      <4>. QED
        BY <1>1, <1>7, <1>10, <2>4, <2>9, <4>2, <4>4, <4>5, SyncRepairs
    <3>. QED
      BY <3>1, <3>2, <3>3
  <2>. QED
    BY <1>9, <2>6, <2>7, <2>8, <2>10 DEF Repairing
<1>. QED
    BY <1>11, <1>12

\* The client's messages.  A record that was written is not on its way and was not lost;
\* one that was dropped leads to a request.
LEMMA MessageRepairs ==
    ASSUME RelayInv, Repairing, HandleMessage
    PROVE  Repairing'
<1>. DEFINE m == Head(to_server)
            n == m.n
            resync == m.type = "ack" /\ Loses(srv, n, m.delivered)
<1>0. /\ PathTypes /\ srv \in Presenter /\ srv.last \in Nat
      /\ InOrder /\ OneFate /\ FirstIsKey /\ Waits /\ Hiding /\ SourceKept /\ BeforePlay
      /\ Repairs
    BY Numbers DEF Repairing
<1>1. /\ actor = Idle /\ to_server # <<>> /\ to_server' = Tail(to_server)
      /\ srv' = CASE m.type = "ack" -> complete_bridge_delivery(srv, n, m.delivered)
                  [] m.type = "need" -> request_keyframe(srv, m.min, m.reason)
                  [] m.type = "retry" -> sync_media(srv, TRUE)
      /\ to_client' = IF m.type = "retry" THEN to_client \o SyncMessages(srv, TRUE)
                      ELSE to_client
      /\ actor' = IF resync THEN [do |-> "request", resync |-> TRUE] ELSE Idle
      /\ UNCHANGED <<producer, wire, ingest, control, events, client, worker, outer>>
    BY DEF HandleMessage
<1>2. /\ m \in Acks \cup Needs \cup {Retry} /\ m \in Members(to_server)
      /\ Members(to_server) = Members(to_server') \cup {m}
    BY <1>0, <1>1, PlaceKinds, MembersOf
<1>3. /\ m.type \in {"ack", "need", "retry"}
      /\ m.type = "ack" => m.delivered \in BOOLEAN
      /\ m.type = "need" => m.reason \in Reasons
      /\ m.type # "retry" => m # Retry
    BY <1>2, MessageKinds DEF Retry
<1>. HIDE DEF m, resync
<1>4. /\ Answers = Answers' \cup {m} /\ m \in Answers
    BY <1>1, <1>2 DEF Answers
<1>5. FirstIsKey'
    BY <1>0, <1>1 DEF FirstIsKey
<1>6. Told' \subseteq Told /\ Lost' \subseteq Lost
    BY <1>1, <1>4 DEF Told, Lost, Acked
<1>7. ASSUME m.type # "retry"
      PROVE  /\ OnTheWay' = OnTheWay /\ Coming' = Coming
             /\ srv'.last = srv.last => InOrder' /\ OneFate'
             /\ Alike(srv, srv') => SourceKept' /\ BeforePlay'
  <2>1. to_client' = to_client
    BY <1>1, <1>7
  <2>2. /\ Writing' = Writing /\ Deferred' = Deferred /\ Channelled' = Channelled
        /\ Sending' = Sending /\ Waiting' = Waiting /\ Ingested' = Ingested
    BY <1>1, <2>1 DEF Writing, Deferred, Channelled, CarriedBy, Sending, MediaOf, Waiting,
                      Ingested
  <2>3. OnTheWay' = OnTheWay
    BY <2>2 DEF OnTheWay
  <2>4. Coming' = Coming
    BY <1>1, <2>1 DEF Coming
  <2>5. ASSUME srv'.last = srv.last PROVE InOrder' /\ OneFate'
    BY <1>0, <1>1, <1>6, <2>1, <2>2, <2>3, <2>5, FateKept DEF InOrder
  <2>6. Retry \in Members(to_server) => Retry \in Members(to_server')
    BY <1>2, <1>3, <1>7
  <2>7. ASSUME Alike(srv, srv') PROVE SourceKept' /\ BeforePlay'
    BY <1>0, <1>1, <2>1, <2>4, <2>6, <2>7 DEF SourceKept, BeforePlay, NothingYet, Alike
  <2>. QED
    BY <2>3, <2>4, <2>5, <2>7
<1>8. CASE m.type = "ack"
  <2>1. srv' = complete_bridge_delivery(srv, n, m.delivered)
    BY <1>1, <1>8
  <2>2. /\ Alike(srv, srv') /\ srv'.projected = srv.projected /\ srv'.pending = srv.pending
        /\ srv'.synced = srv.synced /\ srv'.deliveries = srv.deliveries \ {n}
        /\ srv'.desync = (srv.desync \/ Loses(srv, n, m.delivered))
    BY <1>0, <1>3, <1>8, <2>1, CompleteSame
  <2>3. /\ OnTheWay' = OnTheWay /\ Coming' = Coming
        /\ InOrder' /\ OneFate' /\ SourceKept' /\ BeforePlay'
    BY <1>7, <1>8, <2>2 DEF Alike
  <2>4. srv.desync \in BOOLEAN
    BY <1>0 DEF Presenter
  <2>5. n \in Acked(m.delivered)
    BY <1>4, <1>8 DEF Acked
  <2>6. CASE Loses(srv, n, m.delivered)
    <3>1. actor'.do = "request"
      BY <1>1, <1>8, <2>6 DEF resync
    <3>2. n \in 1 .. srv.last
      <4>1. m.delivered = FALSE
        BY <1>3, <1>8, <2>6 DEF Loses
      <4>2. n \in Lost
        BY <2>5, <4>1 DEF Lost
      <4>. QED
        BY <1>0, <4>2 DEF OneFate
    <3>3. srv.playing
      BY <1>0, <3>2 DEF Waits
    <3>4. Waits'
      BY <1>0, <1>1, <2>2, <2>6, <3>3 DEF Waits, Alike
    <3>5. Hiding' /\ Repairs'
      BY <1>0, <1>1, <2>2, <2>3, <3>1 DEF Hiding, Repairs, Reported, Noticed, Alike
    <3>. QED
      BY <1>5, <2>3, <3>4, <3>5 DEF Repairing
  <2>7. CASE ~Loses(srv, n, m.delivered)
    <3>1. srv'.desync = srv.desync
      BY <2>2, <2>4, <2>7
    <3>2. Waits'
      BY <1>0, <1>1, <2>2, <3>1 DEF Waits, Asked, Alike
    <3>3. Hiding'
      BY <1>0, <1>1, <2>2, <2>3 DEF Hiding, Alike
    <3>4. Noticed => Noticed'
      BY <1>1, <1>2, <1>8 DEF Noticed, Idle
    <3>5. Recreates => Excused'
      BY <1>1, <2>2, <2>3 DEF Recreates, Excused, Alike
    <3>6. Repairs'
      <4>1. CASE ~srv.projected \/ srv.ended
        BY <2>2, <4>1 DEF Repairs, Excused, Alike
      <4>2. CASE m.delivered \/ n \notin srv.deliveries
        <5>1. \A k \in srv.deliveries : k \in Lost => k \in Lost'
          <6>. SUFFICES ASSUME NEW k \in srv.deliveries, k \in Lost PROVE k \in Lost'
            OBVIOUS
          <6>1. CASE k \in client.dropped
            BY <1>1, <6>1 DEF Lost
          <6>2. CASE k \in Acked(FALSE)
            <7>1. PICK a \in Answers : a.type = "ack" /\ a.delivered = FALSE /\ a.n = k
              BY <6>2 DEF Acked
            <7>2. a # m
              BY <4>2, <7>1
            <7>3. a \in Answers'
              BY <1>4, <7>2
            <7>. QED
              BY <7>1, <7>3 DEF Lost, Acked
          <6>. QED
            BY <6>1, <6>2 DEF Lost
        <5>2. \A k \in srv.deliveries :
                 k \in srv'.deliveries \/ (k \notin Lost /\ \A p \in OnTheWay : p.n # k)
          <6>. SUFFICES ASSUME n \in srv.deliveries
                        PROVE  n \notin Lost /\ \A p \in OnTheWay : p.n # n
            BY <2>2
          <6>1. m.delivered = TRUE
            BY <1>3, <1>8, <4>2
          <6>2. n \in Told
            BY <2>5, <6>1 DEF Told
          <6>. QED
            BY <1>0, <6>2 DEF OneFate
        <5>3. \A p \in OnTheWay : p.n <= srv.last
          BY <1>0 DEF InOrder
        <5>. HIDE DEF Recreates, Excused, Noticed, Repairs, OnTheWay, Lost
        <5>. QED
          BY <1>0, <1>1, <2>2, <2>3, <3>1, <3>4, <3>5, <5>1, <5>2, <5>3, StillRepaired
             DEF Alike
      <4>. QED
        BY <2>7, <4>1, <4>2 DEF Loses
    <3>. QED
      BY <1>5, <2>3, <3>2, <3>3, <3>6 DEF Repairing
  <2>. QED
    BY <2>6, <2>7
<1>9. CASE m.type = "need"
  <2>1. srv' = request_keyframe(srv, m.min, m.reason)
    BY <1>1, <1>9
  <2>2. /\ OnTheWay' = OnTheWay /\ Coming' = Coming
        /\ srv'.last = srv.last => InOrder' /\ OneFate'
        /\ Alike(srv, srv') => SourceKept' /\ BeforePlay'
    BY <1>7, <1>9
  <2>3. Waits' /\ Hiding' /\ Repairs' /\ Alike(srv, srv')
    BY <1>0, <1>1, <1>3, <1>9, <2>1, <2>2, AskedRepairs
  <2>. QED
    BY <1>5, <2>2, <2>3 DEF Repairing, Alike
<1>10. CASE m.type = "retry"
  <2>1. srv' = sync_media(srv, TRUE) /\ to_client' = to_client \o SyncMessages(srv, TRUE)
    BY <1>1, <1>10
  <2>2. Told' = Told /\ Lost' = Lost
    BY <1>1, <1>4, <1>10 DEF Told, Lost, Acked
  <2>3. Noticed => Noticed'
    BY <1>1, <1>2, <1>10 DEF Noticed, Idle
  <2>4. SyncSends(srv, TRUE) \/ ~srv.attached
    BY DEF SyncSends
  <2>. HIDE DEF Noticed, Repairing, Told, Lost, RelayInv
  <2>. QED
    BY <1>1, <2>1, <2>2, <2>3, <2>4, PublishRepairs
<1>. QED
    BY <1>3, <1>8, <1>9, <1>10

\* What the client holds is not the absent value.
LEMMA NothingAbsent == None \notin [gen : Nat, body : Snapshots] \cup Queued
<1>1. None \notin [gen : Nat, body : Snapshots]
    BY AbsentAssumption DEF Snapshots
<1>2. Packets \subseteq [n : Nat, epoch : Nat, key : BOOLEAN]
    BY ConstantTypes DEF Packets
<1>3. Queued \subseteq [gen : Nat, packet : [n : Nat, epoch : Nat, key : BOOLEAN]]
    BY <1>2 DEF Queued
<1>. QED
    BY <1>1, <1>3, AbsentAssumption

----------------------------------------------------------------------------
(* The client's reader. *)

LEMMA ReadsRepairs ==
    ASSUME RelayInv, Repairing, ClientReads
    PROVE  Repairing'
<1>. DEFINE m == Head(to_client)
            p == m.packet
            g == client.gen
            M == Snapshots \cup Media
<1>0. /\ PathTypes /\ srv \in Presenter /\ srv.last \in Nat
      /\ InOrder /\ OneFate /\ FirstIsKey /\ Waits /\ Hiding /\ SourceKept /\ BeforePlay
      /\ Repairs /\ client \in Clients /\ client.queue \in Seq(Queued)
    BY Numbers, PlaceKinds DEF Repairing, PathTypes
<1>1. /\ to_client # <<>> /\ to_client' = Tail(to_client)
      /\ client' = IF m.type = "snapshot"
                   THEN [client EXCEPT !.gen = g + 1, !.snapshot = [gen |-> g + 1, body |-> m]]
                   ELSE IF Len(client.queue) < ClientQueue
                   THEN [client EXCEPT !.queue = Append(@, [gen |-> g, packet |-> p])]
                   ELSE [client EXCEPT !.dropped = @ \cup {p.n}]
      /\ UNCHANGED <<producer, wire, srv, ingest, control, actor, events, worker, outer,
                     to_server>>
    BY DEF ClientReads
<1>2. /\ m \in M /\ to_client' \in Seq(M)
      /\ Members(to_client) = Members(to_client') \cup {m}
      /\ Sorted(to_client', MessagesAfter)
      /\ \A k \in Members(to_client') : k \in MessagesAfter[m]
  <2>1. to_client \in Seq(M) /\ Sorted(to_client, MessagesAfter)
    BY <1>0, PlaceKinds DEF InOrder
  <2>2. /\ m \in Members(to_client) /\ to_client' \in Seq(M)
        /\ Members(to_client) = Members(to_client') \cup {m}
    BY <1>1, <2>1, MembersOf
  <2>3. Sorted(to_client', MessagesAfter) /\ \A k \in Members(to_client') : k \in MessagesAfter[m]
    BY <1>1, <2>1, SortedOf
  <2>4. m \in M
    BY <2>1, <2>2, MembersOf
  <2>. QED
    BY <2>2, <2>3, <2>4
<1>. HIDE DEF m
<1>3. /\ Writing' = Writing /\ Deferred' = Deferred /\ Waiting' = Waiting
      /\ Ingested' = Ingested /\ Told' = Told /\ Answers' = Answers
      /\ Acked(FALSE)' = Acked(FALSE) /\ (NothingYet' <=> NothingYet)
      /\ (Noticed' <=> Noticed)
    BY <1>1 DEF Writing, Deferred, Waiting, Ingested, Told, Acked, Answers, NothingYet, Noticed
<1>4. FirstIsKey' /\ Waits'
    BY <1>0, <1>1 DEF FirstIsKey, Waits, Asked
<1>5. InTurn(Writing, Deferred, Channelled, Sending, Waiting, Ingested)
    BY <1>0 DEF InOrder
<1>6. \A q \in OnTheWay : q.n <= srv.last /\ q.n \in Nat
    BY <1>0, WayKinds DEF InOrder
<1>7. ASSUME OnTheWay' \subseteq OnTheWay, Coming' \subseteq Coming,
             Lost \subseteq Lost',
             \A q \in OnTheWay : q \in OnTheWay' \/ q.n \in Lost'
      PROVE  Repairs'
  <2>1. Recreates => Excused'
    BY <1>1, <1>7 DEF Recreates, Excused
  <2>2. Noticed => Noticed'
    BY <1>3
  <2>3. /\ \A k \in srv.deliveries : k \in Lost => k \in Lost'
        /\ \A q \in OnTheWay : q \in OnTheWay' \/ q.n \in Lost' \/ q.n \notin srv.deliveries
        /\ \A q \in OnTheWay : q.n <= srv.last
        /\ OnTheWay' \subseteq OnTheWay
    BY <1>6, <1>7
  <2>. HIDE DEF Recreates, Excused, Noticed, Repairs, OnTheWay, Lost
  <2>. QED
    BY <1>0, <1>1, <2>1, <2>2, <2>3, StillRepaired
<1>8. CASE m.type = "snapshot"
  <2>1. client' = [client EXCEPT !.gen = g + 1, !.snapshot = [gen |-> g + 1, body |-> m]]
    BY <1>1, <1>8
  <2>2. /\ client'.queue = client.queue /\ client'.dropped = client.dropped
        /\ client'.snapshot = [gen |-> g + 1, body |-> m]
    BY <1>0, <2>1 DEF Clients
  <2>3. Channelled' = Channelled /\ Lost' = Lost
    BY <1>3, <2>2 DEF Channelled, CarriedBy, Lost
  <2>4. Sending' = Sending
    BY <1>2, <1>8 DEF Sending, MediaOf
  <2>5. OnTheWay' = OnTheWay
    BY <1>3, <2>3, <2>4 DEF OnTheWay
  <2>6. client'.snapshot # None
    <3>1. m \in Snapshots /\ g + 1 \in Nat
      BY <1>0, <1>2, <1>8, MessageKinds DEF Clients
    <3>2. [gen |-> g + 1, body |-> m] \in [gen : Nat, body : Snapshots]
      BY <3>1
    <3>. QED
      BY <2>2, <3>2, NothingAbsent
  <2>7. Coming' \subseteq Coming /\ m \in Coming /\ m \in Coming'
    BY <1>2, <1>8, <2>2, <2>6 DEF Coming
  <2>8. InOrder'
    BY <1>0, <1>1, <1>2, <1>3, <2>2, <2>3, <2>4, <2>5 DEF InOrder
  <2>9. OneFate'
    BY <1>0, <1>1, <1>3, <2>3, <2>5 DEF OneFate
  <2>10. BeforePlay'
    BY <1>0, <1>1, <1>2, <1>3, <2>2, <2>7 DEF BeforePlay
  <2>11. SourceKept' /\ Hiding'
    BY <1>0, <1>1, <2>7 DEF SourceKept, Hiding
  <2>12. Repairs'
    BY <1>7, <2>3, <2>5, <2>7
  <2>. QED
    BY <1>4, <2>8, <2>9, <2>10, <2>11, <2>12 DEF Repairing
<1>9. ASSUME m.type # "snapshot", client'.snapshot = client.snapshot
      PROVE  /\ Coming' = Coming /\ m.type = "media" /\ p \in Packets
             /\ SourceKept' /\ Hiding' /\ BeforePlay' /\ Ahead({p}, Sending')
             /\ Sending = Sending' \cup {p} /\ p \in OnTheWay
  <2>1. m.type = "media" /\ p \in Packets
    BY <1>2, <1>9, MessageKinds DEF Snapshots, Media
  <2>2. Coming' = Coming
    BY <1>2, <1>9 DEF Coming
  <2>3. SourceKept' /\ Hiding'
    BY <1>0, <1>1, <2>2 DEF SourceKept, Hiding
  <2>4. \A k \in Members(to_client') : IF k.type = "media" THEN p.n < k.packet.n ELSE k.playing
    BY <1>2, <2>1 DEF MessagesAfter
  <2>5. BeforePlay'
    <3>1. \A k \in Members(to_client') : k.type = "snapshot" => k.playing
      BY <2>4
    <3>. QED
      BY <1>0, <1>3, <2>2, <3>1 DEF BeforePlay
  <2>6. Ahead({p}, Sending') /\ Sending = Sending' \cup {p}
    BY <1>2, <2>1, <2>4 DEF Ahead, Sending, MediaOf
  <2>7. p \in OnTheWay
    BY <2>6 DEF OnTheWay
  <2>. QED
    BY <2>1, <2>2, <2>3, <2>5, <2>6, <2>7
<1>10. CASE m.type # "snapshot" /\ Len(client.queue) < ClientQueue
  <2>. DEFINE e == [gen |-> g, packet |-> p]
  <2>1. client' = [client EXCEPT !.queue = Append(@, e)]
    BY <1>1, <1>10
  <2>2. e.packet = p
    OBVIOUS
  <2>3. g \in Nat
    BY <1>0 DEF Clients
  <2>. HIDE DEF p
  <2>4. /\ client'.queue = Append(client.queue, e) /\ client'.dropped = client.dropped
        /\ client'.snapshot = client.snapshot
    BY <1>0, <2>1 DEF Clients
  <2>5. /\ Coming' = Coming /\ m.type = "media" /\ p \in Packets
        /\ SourceKept' /\ Hiding' /\ BeforePlay' /\ Ahead({p}, Sending')
        /\ Sending = Sending' \cup {p} /\ p \in OnTheWay
    BY <1>9, <1>10, <2>4
  <2>6. e \in Queued
    BY <2>3, <2>5 DEF Queued
  <2>. HIDE DEF e
  <2>7. Members(client'.queue) = Members(client.queue) \cup {e}
    BY <1>0, <2>4, <2>6, MembersOf
  <2>8. Channelled' = Channelled \cup {p}
    BY <2>2, <2>7 DEF Channelled, CarriedBy
  <2>9. Sorted(client'.queue, QueuedAfter)
    <3>1. ASSUME NEW f \in Members(client.queue) PROVE e \in QueuedAfter[f]
      <4>1. f \in Queued /\ f.packet \in Channelled
        BY <1>0, <3>1, MembersOf DEF Channelled, CarriedBy
      <4>2. f.packet.n < p.n
        BY <1>5, <2>5, <4>1 DEF InTurn, Ahead
      <4>. QED
        BY <2>2, <2>6, <4>1, <4>2 DEF QueuedAfter
    <3>2. Sorted(client.queue, QueuedAfter) /\ client.queue \in Seq(Queued)
      BY <1>0 DEF InOrder
    <3>. QED
      BY ONLY <2>4, <2>6, <3>1, <3>2, SortedOf
  <2>10. OnTheWay' = OnTheWay
    BY <1>3, <2>5, <2>8 DEF OnTheWay
  <2>11. InTurn(Writing', Deferred', Channelled', Sending', Waiting', Ingested')
    <3>1. InTurn(Writing, Deferred, Channelled \cup {p}, Sending', Waiting, Ingested)
      BY ONLY <1>5, <2>5, TurnsMove
    <3>. QED
      BY <1>3, <2>8, <3>1
  <2>12. InOrder'
    BY <1>0, <1>1, <1>2, <2>9, <2>10, <2>11 DEF InOrder
  <2>13. Lost' = Lost
    BY <1>3, <2>4 DEF Lost
  <2>14. OneFate'
    BY <1>0, <1>1, <1>3, <2>10, <2>13 DEF OneFate
  <2>15. Repairs'
    BY <1>7, <2>5, <2>10, <2>13
  <2>. QED
    BY <1>4, <2>5, <2>12, <2>14, <2>15 DEF Repairing
<1>11. CASE m.type # "snapshot" /\ ~(Len(client.queue) < ClientQueue)
  <2>. DEFINE n == p.n
  <2>1. client' = [client EXCEPT !.dropped = @ \cup {n}]
    BY <1>1, <1>11
  <2>. HIDE DEF p
  <2>2. /\ client'.queue = client.queue /\ client'.dropped = client.dropped \cup {n}
        /\ client'.snapshot = client.snapshot
    BY <1>0, <2>1 DEF Clients
  <2>3. /\ Coming' = Coming /\ m.type = "media" /\ p \in Packets
        /\ SourceKept' /\ Hiding' /\ BeforePlay' /\ Ahead({p}, Sending')
        /\ Sending = Sending' \cup {p} /\ p \in OnTheWay
    BY <1>9, <1>11, <2>2
  <2>4. Channelled' = Channelled /\ Lost' = Lost \cup {p.n}
    BY <1>3, <2>2 DEF Channelled, CarriedBy, Lost
  <2>5. /\ OnTheWay' \subseteq OnTheWay /\ \A q \in OnTheWay : q \in OnTheWay' \/ q = p
        /\ \A q \in OnTheWay' : q.n # p.n
    <3>1. OnTheWay' = Writing \cup Deferred \cup Channelled \cup Sending' \cup Waiting \cup Ingested
      BY <1>3, <2>4 DEF OnTheWay
    <3>2. p.n \in Nat
      BY <1>6, <2>3
    <3>3. \A q \in Writing \cup Deferred \cup Channelled \cup Sending \cup Waiting \cup Ingested :
             q.n \in Nat
      BY <1>6 DEF OnTheWay
    <3>4. \A q \in Writing \cup Deferred \cup Channelled \cup Sending' \cup Waiting \cup Ingested :
             q.n # p.n
      <4>1. Ahead({p}, Sending') /\ Sending = Sending' \cup {p}
        BY <2>3
      <4>. QED
        BY ONLY <1>5, <4>1, <3>2, <3>3 DEF InTurn, Ahead
    <3>. QED
      BY <2>3, <3>1, <3>4 DEF OnTheWay
  <2>6. InTurn(Writing', Deferred', Channelled', Sending', Waiting', Ingested')
    <3>1. Sending' \subseteq Sending
      BY <2>3
    <3>2. InTurn(Writing, Deferred, Channelled, Sending', Waiting, Ingested)
      BY ONLY <1>5, <3>1, TurnsLess
    <3>. QED
      BY <1>3, <2>4, <3>2
  <2>7. InOrder'
    BY <1>0, <1>1, <1>2, <2>2, <2>5, <2>6 DEF InOrder
  <2>8. OneFate'
    <3>1. srv'.last = srv.last /\ Told' \subseteq Told /\ Lost' \subseteq Lost \cup {p.n}
      BY <1>1, <1>3, <2>4
    <3>. HIDE DEF OnTheWay, Told, Lost
    <3>. QED
      BY <1>0, <2>3, <2>5, <3>1, FateKept
  <2>9. Repairs'
    BY <1>7, <2>3, <2>4, <2>5
  <2>. QED
    BY <1>4, <2>3, <2>7, <2>8, <2>9 DEF Repairing
<1>. QED
    BY <1>8, <1>10, <1>11

----------------------------------------------------------------------------
(* The bridge worker and its snapshots. *)

LEMMA MembersOne == ASSUME NEW x PROVE Members(<<x>>) = {x}
<1>1. Len(<<x>>) = 1 /\ <<x>>[1] = x
    OBVIOUS
<1>. QED
    BY <1>1 DEF Members

\* A snapshot is taken up: the source may go, with what its writer had queued.
LEMMA TakenUp ==
    ASSUME RelayInv, Repairing,
           UNCHANGED <<producer, wire, srv, ingest, control, actor, events, to_client>>,
           client' = [client EXCEPT !.snapshot = None], client.snapshot # None,
           worker'.deferred = worker.deferred,
           \/ outer' = outer
           \/ /\ outer'.queue = <<>> /\ ~outer'.ok /\ outer'.last = 0
              /\ outer'.done \in {<<>>, outer.done},
           \A m \in Members(to_server') : m \in Members(to_server) \/ m.type # "ack",
           Members(to_server) \subseteq Members(to_server')
    PROVE  /\ InOrder' /\ OneFate' /\ FirstIsKey' /\ BeforePlay' /\ Waits' /\ Hiding'
           /\ OnTheWay' \subseteq OnTheWay /\ Coming' \subseteq Coming
           /\ client.snapshot.body \in Coming /\ (Noticed => Noticed')
           /\ outer'.queue = outer.queue => OnTheWay' = OnTheWay
           /\ outer'.done = outer.done => Lost' = Lost
<1>0. /\ PathTypes /\ srv \in Presenter /\ srv.last \in Nat
      /\ InOrder /\ OneFate /\ FirstIsKey /\ Waits /\ Hiding /\ BeforePlay
      /\ client \in Clients
    BY Numbers DEF Repairing, PathTypes
<1>1. /\ client'.queue = client.queue /\ client'.dropped = client.dropped
      /\ client'.snapshot = None
    BY <1>0 DEF Clients
<1>2. /\ Deferred' = Deferred /\ Channelled' = Channelled /\ Sending' = Sending
      /\ Waiting' = Waiting /\ Ingested' = Ingested
    BY <1>1 DEF Deferred, Channelled, CarriedBy, Sending, MediaOf, Waiting, Ingested
<1>3. Members(<<>>) = {}
    BY MembersOf, EmptySeq
<1>4. /\ Writing' \subseteq Writing
      /\ outer'.queue = outer.queue => Writing' = Writing
    BY <1>3 DEF Writing
<1>5. /\ OnTheWay' \subseteq OnTheWay
      /\ outer'.queue = outer.queue => OnTheWay' = OnTheWay
    BY <1>2, <1>4 DEF OnTheWay
<1>6. /\ Coming' \subseteq Coming /\ client.snapshot.body \in Coming
    BY <1>1 DEF Coming
<1>7. Members(outer'.done) \subseteq Members(outer.done)
    BY <1>3
<1>8. /\ Told' \subseteq Told /\ Lost' \subseteq Lost
      /\ outer'.done = outer.done => Lost' = Lost
    BY <1>1, <1>7 DEF Told, Lost, Acked, Answers
<1>9. InTurn(Writing', Deferred', Channelled', Sending', Waiting', Ingested')
  <2>1. InTurn(Writing, Deferred, Channelled, Sending, Waiting, Ingested)
    BY <1>0 DEF InOrder
  <2>2. InTurn(Writing', Deferred, Channelled, Sending, Waiting, Ingested)
    BY ONLY <1>4, <2>1, TurnsLess
  <2>. QED
    BY <1>2, <2>2
<1>10. InOrder'
  <2>1. Sorted(outer'.queue, PacketsAfter)
    BY <1>0, SortedNone DEF InOrder
  <2>2. \A p \in OnTheWay' : outer'.last < p.n /\ p.n <= srv.last
    BY <1>0, <1>5, WayKinds DEF InOrder
  <2>3. outer'.last <= srv.last
    BY <1>0 DEF InOrder
  <2>. QED
    BY <1>0, <1>1, <1>9, <2>1, <2>2, <2>3 DEF InOrder
<1>11. OneFate'
  <2>. HIDE DEF OnTheWay, Told, Lost
  <2>. QED
    BY <1>0, <1>5, <1>8, FateKept
<1>12. FirstIsKey' /\ Waits'
    BY <1>0 DEF FirstIsKey, Waits, Asked
<1>13. BeforePlay'
  <2>1. NothingYet => NothingYet'
    BY DEF NothingYet
  <2>. QED
    BY <1>0, <1>1, <1>6, <2>1 DEF BeforePlay
<1>14. Hiding'
    BY <1>0, <1>6 DEF Hiding
<1>15. Noticed => Noticed'
    BY DEF Noticed
<1>. QED
    BY <1>5, <1>6, <1>8, <1>10, <1>11, <1>12, <1>13, <1>14, <1>15

\* A source that is created again asks for a keyframe when it plays; when it does not, no
\* record was passed to the one before it.
LEMMA AppliesRepairs ==
    ASSUME RelayInv, Repairing, NEW rebuilt \in BOOLEAN, WorkerApplies(rebuilt)
    PROVE  Repairing'
<1>. DEFINE body == client.snapshot.body
            gen == client.snapshot.gen
            present == body.present
            sources == worker.force \/ present # worker.active
            replaced == sources /\ (worker.replace \/ rebuilt)
            recreated == sources /\ present /\ (replaced \/ ~outer.has)
            requests == IF recreated /\ body.playing THEN <<Need(None, "initial")>>
                        ELSE IF worker.lost THEN <<Need(None, "error")>>
                        ELSE IF body.need THEN <<Need(None, "loss")>>
                        ELSE <<>>
            playing == present /\ body.playing
            min == IF recreated THEN gen ELSE IF sources /\ ~present THEN 0 ELSE worker.min_gen
            started == \/ worker.started /\ ~recreated /\ present
                       \/ present /\ body.playing
            done == IF replaced THEN <<>> ELSE outer.done
<1>0. /\ PathTypes /\ srv \in Presenter /\ srv.last \in Nat
      /\ InOrder /\ OneFate /\ Hiding /\ SourceKept /\ BeforePlay
      /\ Repairs /\ worker \in Workers /\ outer \in Outers
      /\ to_server \in Seq(Acks \cup Needs \cup {Retry})
    BY Numbers DEF Repairing, PathTypes
<1>1. /\ client.snapshot # None
      /\ client' = [client EXCEPT !.snapshot = None]
      /\ worker' = [worker EXCEPT
             !.active = present, !.playing = playing, !.gen = gen, !.min_gen = min,
             !.started = started, !.force = FALSE, !.replace = FALSE, !.lost = FALSE]
      /\ outer' = IF recreated \/ (sources /\ ~present)
                  THEN [NoSource EXCEPT !.has = present, !.alive = present, !.done = done]
                  ELSE outer
      /\ to_server' = to_server \o requests
      /\ UNCHANGED <<producer, wire, srv, ingest, control, actor, events, to_client>>
    BY DEF WorkerApplies
<1>2. present \in BOOLEAN /\ body \in Snapshots /\ body.playing \in BOOLEAN
  <2>1. body \in Snapshots
    BY <1>0, <1>1, PlaceKinds
  <2>. QED
    BY <2>1 DEF Snapshots
<1>3. {worker.force, worker.active, worker.replace, outer.has, outer.alive} \subseteq BOOLEAN
    BY <1>0 DEF Workers, Outers
<1>4. /\ recreated \in BOOLEAN /\ sources \in BOOLEAN /\ replaced \in BOOLEAN
    BY <1>2, <1>3
<1>5. /\ sources <=> worker.force \/ present # worker.active
      /\ recreated <=> sources /\ present /\ (replaced \/ ~outer.has)
      /\ replaced <=> sources /\ (worker.replace \/ rebuilt)
    BY <1>2, <1>3
<1>6. requests \in {<<Need(None, "initial")>>, <<Need(None, "error")>>,
                    <<Need(None, "loss")>>, <<>>}
    OBVIOUS
<1>7. recreated /\ body.playing => requests = <<Need(None, "initial")>>
    OBVIOUS
<1>8. requests \in Seq(Needs)
  <2>1. \A reason \in Reasons : Need(None, reason) \in Needs
    BY DEF Need, Needs
  <2>2. \A e \in Needs : <<e>> \in Seq(Needs)
    OBVIOUS
  <2>3. <<>> \in Seq(Needs)
    BY EmptySeq
  <2>. HIDE DEF requests
  <2>. QED
    BY <1>6, <2>1, <2>2, <2>3 DEF Reasons
<1>. HIDE DEF requests
<1>9. Members(to_server') = Members(to_server) \cup Members(requests)
  <2>1. requests \in Seq(Acks \cup Needs \cup {Retry})
    BY <1>8
  <2>. QED
    BY <1>0, <1>1, <2>1, MembersOf
<1>10. \A m \in Members(requests) : m.type = "need"
  <2>1. Members(requests) \subseteq Needs
    BY <1>8, MembersOf
  <2>. QED
    BY <2>1 DEF Needs
<1>. HIDE DEF body, gen, present, sources, replaced, recreated, playing, min, started
<1>11. /\ worker'.active = present /\ worker'.force = FALSE /\ worker'.replace = FALSE
       /\ worker'.deferred = worker.deferred
  <2>. DEFINE w == [worker EXCEPT !.force = FALSE, !.replace = FALSE, !.lost = FALSE]
              v == [w EXCEPT !.active = present, !.playing = playing, !.started = started]
              u == [v EXCEPT !.gen = gen, !.min_gen = min]
  <2>1. /\ w.force = FALSE /\ w.replace = FALSE /\ w.deferred = worker.deferred
        /\ DOMAIN w = DOMAIN worker
    BY <1>0 DEF Workers
  <2>2. DOMAIN worker = {"active", "playing", "gen", "min_gen", "started", "force", "replace",
                         "lost", "deferred"}
    BY <1>0 DEF Workers
  <2>3. worker' = u
    BY <1>0, <1>1 DEF Workers
  <2>. HIDE DEF w
  <2>4. /\ v.force = FALSE /\ v.replace = FALSE /\ v.deferred = worker.deferred
        /\ v.active = present /\ DOMAIN v = DOMAIN worker
    BY <2>1, <2>2
  <2>. HIDE DEF v
  <2>5. /\ u.force = FALSE /\ u.replace = FALSE /\ u.deferred = worker.deferred
        /\ u.active = present
    BY <2>2, <2>4
  <2>. QED
    BY <2>3, <2>5
<1>12. done \in {<<>>, outer.done}
    OBVIOUS
<1>. HIDE DEF done
<1>13. CASE recreated \/ (sources /\ ~present)
  <2>1. /\ outer'.has = present /\ outer'.alive = present /\ outer'.done = done
        /\ outer'.queue = <<>> /\ ~outer'.ok /\ outer'.last = 0
    BY <1>1, <1>13 DEF NoSource
  <2>2. /\ InOrder' /\ OneFate' /\ FirstIsKey' /\ BeforePlay' /\ Waits' /\ Hiding'
        /\ OnTheWay' \subseteq OnTheWay /\ Coming' \subseteq Coming
        /\ body \in Coming /\ (Noticed => Noticed')
        /\ outer'.queue = outer.queue => OnTheWay' = OnTheWay
        /\ outer'.done = outer.done => Lost' = Lost
    BY <1>1, <1>9, <1>10, <1>11, <1>12, <2>1, TakenUp DEF body
  <2>3. SourceKept'
    BY <1>11, <2>1 DEF SourceKept
  <2>4. Repairs'
    <3>1. CASE ~srv.attached \/ srv.ended \/ ~srv.projected
      BY <1>1, <3>1 DEF Repairs, Excused
    <3>2. CASE srv.attached /\ srv.projected /\ body.playing
      <4>1. present
        BY <1>0, <2>2, <3>2 DEF Hiding, present
      <4>2. recreated
        BY <1>13, <4>1
      <4>3. Need(None, "initial") \in Members(to_server')
        BY <1>7, <1>9, <3>2, <4>2, MembersOne
      <4>. QED
        BY <4>3 DEF Need, Repairs, Reported, Noticed
    <3>3. CASE ~body.playing
      <4>1. NothingYet
        BY <1>0, <2>2, <3>3 DEF BeforePlay
      <4>2. outer.queue = <<>> /\ outer.done = <<>> /\ ~outer.ok
        BY <4>1 DEF NothingYet
      <4>3. OnTheWay' = OnTheWay /\ Lost' = Lost
        BY <1>12, <2>1, <2>2, <4>2
      <4>4. ~Recreates
        BY <2>2, <3>3 DEF Recreates
      <4>5. \A p \in OnTheWay : p.n <= srv.last
        BY <1>0 DEF InOrder
      <4>. HIDE DEF Recreates, Excused, Noticed, Repairs, OnTheWay, Lost
      <4>. QED
        BY <1>0, <1>1, <2>2, <4>2, <4>3, <4>4, <4>5, StillRepaired
    <3>. QED
      BY <3>1, <3>2, <3>3
  <2>. QED
    BY <2>2, <2>3, <2>4 DEF Repairing
<1>14. CASE ~recreated /\ ~(sources /\ ~present)
  <2>1. outer' = outer
    BY <1>1, <1>14
  <2>2. /\ InOrder' /\ OneFate' /\ FirstIsKey' /\ BeforePlay' /\ Waits' /\ Hiding'
        /\ Coming' \subseteq Coming /\ (Noticed => Noticed')
        /\ OnTheWay' = OnTheWay /\ Lost' = Lost
    BY <1>1, <1>9, <1>10, <1>11, <2>1, TakenUp
  <2>3. /\ ~worker.active => ~outer.has
        /\ ~outer.has => worker.force \/ ~worker.active
        /\ worker.force => worker.replace \/ ~outer.has
        /\ worker.replace => worker.force
    BY <1>0 DEF SourceKept
  <2>4. /\ ~present => ~outer.has
        /\ present => outer.has /\ ~worker.replace
    BY <1>2, <1>3, <1>4, <1>5, <1>14, <2>3
  <2>5. SourceKept'
    BY <1>11, <2>1, <2>4 DEF SourceKept
  <2>6. Repairs'
    <3>1. CASE ~srv.attached \/ srv.ended \/ ~srv.projected
      BY <1>1, <3>1 DEF Repairs, Excused
    <3>2. CASE srv.attached /\ srv.projected
      <4>1. body \in Coming
        BY <1>1 DEF Coming, body
      <4>2. present
        BY <1>0, <3>2, <4>1 DEF Hiding, present
      <4>3. Recreates => Excused'
        BY <1>1, <2>1, <2>2, <2>4, <4>2 DEF Recreates, Excused
      <4>4. \A p \in OnTheWay : p.n <= srv.last
        BY <1>0 DEF InOrder
      <4>. HIDE DEF Recreates, Excused, Noticed, Repairs, OnTheWay, Lost
      <4>. QED
        BY <1>0, <1>1, <2>1, <2>2, <4>3, <4>4, StillRepaired
    <3>. QED
      BY <3>1, <3>2
  <2>. QED
    BY <2>2, <2>5, <2>6 DEF Repairing
<1>. QED
    BY <1>4, <1>13, <1>14

\* A snapshot that could not be applied: the next one builds the session again.
LEMMA ApplyFailsRepairs ==
    ASSUME RelayInv, Repairing, WorkerApplyFails
    PROVE  Repairing'
<1>. DEFINE body == client.snapshot.body
<1>0. /\ PathTypes /\ srv \in Presenter /\ srv.last \in Nat
      /\ InOrder /\ OneFate /\ Hiding /\ SourceKept /\ BeforePlay
      /\ Repairs /\ worker \in Workers /\ outer \in Outers
      /\ to_server \in Seq(Acks \cup Needs \cup {Retry})
    BY Numbers DEF Repairing, PathTypes
<1>1. /\ client.snapshot # None
      /\ client' = [client EXCEPT !.snapshot = None]
      /\ worker' = [worker EXCEPT !.force = TRUE, !.replace = TRUE]
      /\ \/ outer' = outer
         \/ ~body.present /\ outer' = [NoSource EXCEPT !.done = outer.done]
      /\ to_server' = Append(to_server, Retry)
      /\ UNCHANGED <<producer, wire, srv, ingest, control, actor, events, to_client>>
    BY DEF WorkerApplyFails
<1>. HIDE DEF body
<1>2. /\ worker'.active = worker.active /\ worker'.force /\ worker'.replace
      /\ worker'.deferred = worker.deferred
    BY <1>0, <1>1 DEF Workers
<1>3. Members(to_server') = Members(to_server) \cup {Retry}
    BY <1>0, <1>1, MembersOf
<1>4. \/ outer' = outer
      \/ /\ outer'.queue = <<>> /\ ~outer'.ok /\ outer'.last = 0 /\ ~outer'.has
         /\ outer'.done = outer.done /\ ~body.present
    BY <1>1 DEF NoSource
<1>5. /\ InOrder' /\ OneFate' /\ FirstIsKey' /\ BeforePlay' /\ Waits' /\ Hiding'
      /\ OnTheWay' \subseteq OnTheWay /\ Coming' \subseteq Coming
      /\ body \in Coming /\ (Noticed => Noticed')
      /\ outer'.queue = outer.queue => OnTheWay' = OnTheWay
      /\ outer'.done = outer.done => Lost' = Lost
  <2>1. \A m \in Members(to_server') : m \in Members(to_server) \/ m.type # "ack"
    BY <1>3 DEF Retry
  <2>. QED
    BY <1>1, <1>2, <1>3, <1>4, <2>1, TakenUp DEF body
<1>6. SourceKept'
    BY <1>0, <1>2, <1>3, <1>4 DEF SourceKept
<1>7. Repairs'
  <2>1. CASE ~srv.attached \/ srv.ended \/ ~srv.projected
    BY <1>1, <2>1 DEF Repairs, Excused
  <2>2. CASE srv.attached /\ srv.projected
    <3>1. body.present
      BY <1>0, <1>5, <2>2 DEF Hiding
    <3>2. outer' = outer
      BY <1>4, <3>1
    <3>3. Recreates => Excused'
      BY <1>1, <1>2, <1>5 DEF Recreates, Excused
    <3>4. \A p \in OnTheWay : p.n <= srv.last
      BY <1>0 DEF InOrder
    <3>. HIDE DEF Recreates, Excused, Noticed, Repairs, OnTheWay, Lost
    <3>. QED
      BY <1>0, <1>1, <1>5, <3>2, <3>3, <3>4, StillRepaired
  <2>. QED
    BY <2>1, <2>2
<1>. QED
    BY <1>5, <1>6, <1>7 DEF Repairing

----------------------------------------------------------------------------
(* The bridge worker, its records and their acknowledgements. *)

\* A step of the worker that moves records and acknowledgements only.
LEMMA MovesRepair ==
    ASSUME RelayInv, Repairing,
           UNCHANGED <<producer, wire, srv, ingest, control, actor, events, to_client>>,
           client'.snapshot = client.snapshot,
           worker'.active = worker.active, worker'.force = worker.force,
           worker'.replace = worker.replace,
           outer'.has = outer.has, outer'.alive = outer.alive, outer'.ok = outer.ok,
           outer'.last = outer.last,
           Members(to_server) \subseteq Members(to_server'),
           OnTheWay' \subseteq OnTheWay, Lost \subseteq Lost',
           \A p \in OnTheWay : p \in OnTheWay' \/ p.n \in Lost',
           InOrder', OneFate', BeforePlay'
    PROVE  Repairing'
<1>0. /\ PathTypes /\ srv \in Presenter /\ srv.last \in Nat
      /\ FirstIsKey /\ Waits /\ Hiding /\ SourceKept /\ Repairs
      /\ \A p \in OnTheWay : p.n <= srv.last
    BY Numbers DEF Repairing, InOrder
<1>1. Coming' = Coming
    BY DEF Coming
<1>2. FirstIsKey' /\ Waits' /\ Hiding' /\ SourceKept'
    BY <1>0, <1>1 DEF FirstIsKey, Waits, Asked, Hiding, SourceKept
<1>3. Noticed => Noticed'
    BY DEF Noticed
<1>4. Recreates => Excused'
    BY <1>1 DEF Recreates, Excused
<1>5. Repairs'
  <2>1. \A n \in srv.deliveries : n \in Lost => n \in Lost'
    OBVIOUS
  <2>. HIDE DEF Recreates, Excused, Noticed, Repairs, OnTheWay, Lost, InOrder, OneFate,
                BeforePlay
  <2>. QED
    BY <1>0, <1>3, <1>4, <2>1, StillRepaired
<1>. QED
    BY <1>2, <1>5 DEF Repairing

\* The acknowledgements are sent.
LEMMA AnswersRepair ==
    ASSUME RelayInv, Repairing, WorkerCompletes \/ WorkerDropped
    PROVE  Repairing'
<1>0. /\ PathTypes /\ srv.last \in Nat /\ InOrder /\ OneFate /\ BeforePlay
      /\ client \in Clients /\ outer \in Outers
      /\ to_server \in Seq(Acks \cup Needs \cup {Retry}) /\ outer.done \in Seq(Acks)
    BY Numbers, PlaceKinds DEF Repairing, PathTypes
<1>1. UNCHANGED <<producer, wire, srv, ingest, control, actor, events, to_client, worker>>
    BY DEF WorkerCompletes, WorkerDropped
<1>2. ASSUME client'.queue = client.queue, client'.snapshot = client.snapshot,
             outer'.has = outer.has, outer'.alive = outer.alive, outer'.ok = outer.ok,
             outer'.last = outer.last, outer'.queue = outer.queue,
             outer'.done \in {<<>>, outer.done},
             Members(to_server) \subseteq Members(to_server'),
             Told' = Told, Lost' = Lost
      PROVE  Repairing'
  <2>1. /\ Writing' = Writing /\ Deferred' = Deferred /\ Channelled' = Channelled
        /\ Sending' = Sending /\ Waiting' = Waiting /\ Ingested' = Ingested
    BY <1>1, <1>2 DEF Writing, Deferred, Channelled, CarriedBy, Sending, MediaOf, Waiting,
                      Ingested
  <2>2. OnTheWay' = OnTheWay
    BY <2>1 DEF OnTheWay
  <2>3. Coming' = Coming
    BY <1>1, <1>2 DEF Coming
  <2>4. InOrder'
    BY <1>0, <1>1, <1>2, <2>1, <2>2 DEF InOrder
  <2>5. OneFate'
    BY <1>0, <1>1, <1>2, <2>2 DEF OneFate
  <2>6. BeforePlay'
    BY <1>0, <1>1, <1>2, <2>3 DEF BeforePlay, NothingYet
  <2>. HIDE DEF OnTheWay, Lost, Told, InOrder, OneFate, BeforePlay, Repairing, RelayInv
  <2>. QED
    BY <1>1, <1>2, <2>2, <2>4, <2>5, <2>6, MovesRepair
<1>3. CASE WorkerCompletes
  <2>1. /\ outer' = [outer EXCEPT !.done = <<>>] /\ to_server' = to_server \o outer.done
        /\ client' = client
    BY <1>3 DEF WorkerCompletes
  <2>2. /\ outer'.has = outer.has /\ outer'.alive = outer.alive /\ outer'.ok = outer.ok
        /\ outer'.last = outer.last /\ outer'.queue = outer.queue /\ outer'.done = <<>>
    BY <1>0, <2>1 DEF Outers
  <2>3. Members(to_server') = Members(to_server) \cup Members(outer.done)
    <3>1. outer.done \in Seq(Acks \cup Needs \cup {Retry})
      BY <1>0
    <3>. QED
      BY <1>0, <2>1, <3>1, MembersOf
  <2>4. Members(outer'.done) = {}
    BY <2>2, MembersOf, EmptySeq
  <2>5. Answers' = Answers
    BY <2>3, <2>4 DEF Answers
  <2>6. Told' = Told /\ Lost' = Lost
    BY <2>1, <2>5 DEF Told, Lost, Acked
  <2>. QED
    BY <1>2, <2>1, <2>2, <2>3, <2>6
<1>4. CASE WorkerDropped
  <2>1. PICK n \in client.dropped :
            /\ client' = [client EXCEPT !.dropped = @ \ {n}]
            /\ to_server' = Append(to_server, Ack(n, FALSE))
            /\ outer' = outer
    BY <1>4 DEF WorkerDropped
  <2>. DEFINE a == Ack(n, FALSE)
  <2>2. /\ client'.queue = client.queue /\ client'.snapshot = client.snapshot
        /\ client'.dropped = client.dropped \ {n}
    BY <1>0, <2>1 DEF Clients
  <2>3. a \in Acks /\ a.type = "ack" /\ a.n = n /\ a.delivered = FALSE
    BY <1>0, <2>1 DEF Ack, Acks, Clients
  <2>. HIDE DEF a
  <2>4. Members(to_server') = Members(to_server) \cup {a}
    <3>1. to_server' = Append(to_server, a)
      BY <2>1 DEF a
    <3>. QED
      BY <1>0, <2>3, <3>1, MembersOf
  <2>5. Answers' = Answers \cup {a}
    BY <2>1, <2>4 DEF Answers
  <2>6. Told' = Told
    BY <2>3, <2>5 DEF Told, Acked
  <2>7. Acked(FALSE)' = Acked(FALSE) \cup {n}
    BY <2>3, <2>5 DEF Acked
  <2>8. Lost' = Lost
    BY <2>1, <2>2, <2>7 DEF Lost
  <2>. QED
    BY <1>0, <1>2, <2>1, <2>2, <2>4, <2>6, <2>8
<1>. QED
    BY <1>3, <1>4

\* A record is taken from the channel.
LEMMA TakesRepair ==
    ASSUME RelayInv, Repairing, WorkerTakes
    PROVE  Repairing'
<1>. DEFINE e == Head(client.queue)
            q == Tail(client.queue)
            p == e.packet
<1>0. /\ PathTypes /\ srv.last \in Nat /\ InOrder /\ OneFate /\ BeforePlay
      /\ client \in Clients /\ worker \in Workers
      /\ client.queue \in Seq(Queued) /\ Sorted(client.queue, QueuedAfter)
    BY Numbers, PlaceKinds DEF Repairing, PathTypes, InOrder
<1>1. /\ worker.deferred = None /\ client.queue # <<>>
      /\ worker' = [worker EXCEPT !.deferred = e]
      /\ client' = [client EXCEPT !.queue = q]
      /\ UNCHANGED <<producer, wire, srv, ingest, control, actor, events, to_client, outer,
                     to_server>>
    BY DEF WorkerTakes
<1>2. /\ e \in Queued /\ q \in Seq(Queued)
      /\ Members(client.queue) = Members(q) \cup {e}
      /\ Sorted(q, QueuedAfter) /\ \A f \in Members(q) : f \in QueuedAfter[e]
  <2>1. /\ e \in Members(client.queue) /\ q \in Seq(Queued)
        /\ Members(client.queue) = Members(q) \cup {e}
    BY <1>0, <1>1, MembersOf
  <2>2. e \in Queued
    BY <1>0, <2>1, MembersOf
  <2>3. Sorted(q, QueuedAfter) /\ \A f \in Members(q) : f \in QueuedAfter[e]
    BY <1>0, <1>1, SortedOf
  <2>. QED
    BY <2>1, <2>2, <2>3
<1>. HIDE DEF e, q
<1>3. e # None
    BY <1>2, NothingAbsent
<1>4. /\ worker'.deferred = e /\ worker'.active = worker.active
      /\ worker'.force = worker.force /\ worker'.replace = worker.replace
      /\ client'.queue = q /\ client'.snapshot = client.snapshot
      /\ client'.dropped = client.dropped
    BY <1>0, <1>1 DEF Workers, Clients
<1>5. Deferred' = {p} /\ Deferred = {}
    BY <1>1, <1>3, <1>4 DEF Deferred
<1>6. Channelled = Channelled' \cup {p}
    BY <1>2, <1>4 DEF Channelled, CarriedBy
<1>7. Ahead({p}, Channelled')
  <2>1. \A f \in Members(q) : p.n < f.packet.n
    BY <1>2 DEF QueuedAfter
  <2>. QED
    BY <1>4, <2>1 DEF Ahead, Channelled, CarriedBy
<1>. HIDE DEF p
<1>8. /\ Writing' = Writing /\ Sending' = Sending /\ Waiting' = Waiting
      /\ Ingested' = Ingested /\ Told' = Told /\ Lost' = Lost
    BY <1>1, <1>4 DEF Writing, Sending, MediaOf, Waiting, Ingested, Told, Lost, Acked, Answers
<1>9. OnTheWay' = OnTheWay
    BY <1>5, <1>6, <1>8 DEF OnTheWay
<1>10. InTurn(Writing', Deferred', Channelled', Sending', Waiting', Ingested')
  <2>1. InTurn(Writing, Deferred, Channelled, Sending, Waiting, Ingested)
    BY <1>0 DEF InOrder
  <2>2. InTurn(Writing, Deferred \cup {p}, Channelled', Sending, Waiting, Ingested)
    BY ONLY <1>6, <1>7, <2>1, TurnsMove
  <2>3. Deferred \cup {p} = Deferred'
    BY <1>5
  <2>. QED
    BY <1>8, <2>2, <2>3
<1>11. InOrder'
    BY <1>0, <1>1, <1>2, <1>4, <1>9, <1>10 DEF InOrder
<1>12. OneFate'
    BY <1>0, <1>1, <1>8, <1>9 DEF OneFate
<1>13. BeforePlay'
  <2>1. Coming' = Coming
    BY <1>1, <1>4 DEF Coming
  <2>. QED
    BY <1>0, <1>1, <2>1 DEF BeforePlay, NothingYet
<1>. HIDE DEF OnTheWay, Lost, Told, InOrder, OneFate, BeforePlay, Repairing, RelayInv
<1>. QED
    BY <1>1, <1>4, <1>8, <1>9, <1>11, <1>12, <1>13, MovesRepair

\* The held record is rejected, or goes to the outer writer when there is room.
LEMMA DeferredRepairs ==
    ASSUME RelayInv, Repairing, WorkerRejects \/ WorkerForwards
    PROVE  Repairing'
<1>. DEFINE p == worker.deferred.packet
            n == p.n
            a == Ack(n, FALSE)
            room == outer.has /\ outer.alive /\ Len(outer.queue) < WriterQueue
<1>0. /\ PathTypes /\ srv.last \in Nat /\ InOrder /\ OneFate /\ BeforePlay
      /\ client \in Clients /\ worker \in Workers /\ outer \in Outers
      /\ outer.queue \in Seq(Packets) /\ Sorted(outer.queue, PacketsAfter)
      /\ to_server \in Seq(Acks \cup Needs \cup {Retry})
    BY Numbers, PlaceKinds DEF Repairing, PathTypes, InOrder
<1>1. /\ worker.deferred # None /\ client.snapshot = None
      /\ worker' = [worker EXCEPT !.deferred = None]
      /\ UNCHANGED <<producer, wire, srv, ingest, control, actor, events, to_client>>
    BY DEF WorkerRejects, WorkerForwards
<1>2. /\ p \in Packets /\ n \in Nat /\ Deferred = {p} /\ p \in OnTheWay
  <2>1. worker.deferred \in Queued
    BY <1>0, <1>1, PlaceKinds
  <2>2. p \in Packets
    BY <2>1 DEF Queued
  <2>. QED
    BY <1>1, <2>2, MessageKinds DEF Deferred, OnTheWay
<1>3. /\ worker'.deferred = None /\ worker'.active = worker.active
      /\ worker'.force = worker.force /\ worker'.replace = worker.replace
    BY <1>0, <1>1 DEF Workers
<1>4. Deferred' = {}
    BY <1>3 DEF Deferred
<1>. HIDE DEF p
<1>5. /\ Sending' = Sending /\ Waiting' = Waiting /\ Ingested' = Ingested
    BY <1>1 DEF Sending, MediaOf, Waiting, Ingested
<1>6. InTurn(Writing, {p}, Channelled, Sending, Waiting, Ingested)
    BY <1>0, <1>2 DEF InOrder
<1>7. \A q \in OnTheWay : q.n \in Nat
    BY <1>0, WayKinds
<1>8. \A b \in Coming : b.playing
    BY <1>0, <1>1 DEF BeforePlay, Coming
<1>9. ASSUME client'.queue = client.queue, client'.snapshot = client.snapshot
      PROVE  BeforePlay'
  <2>1. Coming' = Coming
    BY <1>1, <1>9 DEF Coming
  <2>2. \A m \in Members(to_client) : m.type = "snapshot" => m.playing
    BY <1>8 DEF Coming
  <2>. QED
    BY <1>1, <1>8, <2>1, <2>2 DEF BeforePlay
<1>10. CASE WorkerForwards /\ room
  <2>1. /\ outer' = [outer EXCEPT !.queue = Append(@, p)] /\ client' = client
        /\ to_server' = to_server
    BY <1>10 DEF WorkerForwards, p
  <2>2. /\ outer'.has = outer.has /\ outer'.alive = outer.alive /\ outer'.ok = outer.ok
        /\ outer'.last = outer.last /\ outer'.done = outer.done
        /\ outer'.queue = Append(outer.queue, p)
    BY <1>0, <2>1 DEF Outers
  <2>3. Writing' = Writing \cup {p}
    BY <1>0, <1>2, <2>2, MembersOf DEF Writing
  <2>4. Channelled' = Channelled /\ Told' = Told /\ Lost' = Lost
    BY <2>1, <2>2 DEF Channelled, CarriedBy, Told, Lost, Acked, Answers
  <2>5. OnTheWay' = OnTheWay
    BY <1>2, <1>4, <1>5, <2>3, <2>4 DEF OnTheWay
  <2>6. Sorted(outer'.queue, PacketsAfter)
    <3>1. ASSUME NEW q \in Members(outer.queue) PROVE p \in PacketsAfter[q]
      <4>1. q \in Packets
        BY <1>0, <3>1, MembersOf
      <4>2. q.n < p.n
        BY <1>6, <3>1 DEF InTurn, Ahead, Writing
      <4>. QED
        BY <1>2, <4>1, <4>2 DEF PacketsAfter
    <3>2. outer.queue \in Seq(Packets) /\ p \in Packets /\ Sorted(outer.queue, PacketsAfter)
      BY <1>0, <1>2
    <3>. QED
      BY ONLY <2>2, <3>1, <3>2, SortedOf
  <2>7. InTurn(Writing', Deferred', Channelled', Sending', Waiting', Ingested')
    <3>1. Ahead({p}, {}) /\ {p} = {} \cup {p}
      BY DEF Ahead
    <3>2. InTurn(Writing \cup {p}, {}, Channelled, Sending, Waiting, Ingested)
      BY ONLY <1>6, <3>1, TurnsMove
    <3>. QED
      BY <1>4, <1>5, <2>3, <2>4, <3>2
  <2>8. InOrder'
    BY <1>0, <1>1, <2>1, <2>2, <2>5, <2>6, <2>7 DEF InOrder
  <2>9. OneFate'
    BY <1>0, <1>1, <2>4, <2>5 DEF OneFate
  <2>10. BeforePlay'
    BY <1>9, <2>1
  <2>. HIDE DEF OnTheWay, Lost, Told, InOrder, OneFate, BeforePlay, Repairing, RelayInv
  <2>. QED
    BY <1>1, <1>3, <2>1, <2>2, <2>4, <2>5, <2>8, <2>9, <2>10, MovesRepair
<1>11. ASSUME client'.queue = client.queue, client'.snapshot = client.snapshot,
              outer' = outer, Told' = Told, Lost' = Lost \cup {n},
              Members(to_server) \subseteq Members(to_server')
       PROVE  Repairing'
  <2>1. Writing' = Writing /\ Channelled' = Channelled
    BY <1>11 DEF Writing, Channelled, CarriedBy
  <2>2. OnTheWay' = Writing \cup {} \cup Channelled \cup Sending \cup Waiting \cup Ingested
    BY <1>4, <1>5, <2>1 DEF OnTheWay
  <2>3. /\ OnTheWay' \subseteq OnTheWay /\ \A q \in OnTheWay : q \in OnTheWay' \/ q = p
    BY <1>2, <2>2 DEF OnTheWay
  <2>4. \A q \in OnTheWay' : q.n # n
    <3>1. \A q \in Writing \cup Channelled \cup Sending \cup Waiting \cup Ingested : q.n \in Nat
      BY <1>7 DEF OnTheWay
    <3>2. \A q \in Writing \cup Channelled \cup Sending \cup Waiting \cup Ingested : q.n # n
      BY ONLY <1>2, <1>6, <3>1 DEF InTurn, Ahead
    <3>. QED
      BY <2>2, <3>2
  <2>5. InTurn(Writing', Deferred', Channelled', Sending', Waiting', Ingested')
    <3>1. InTurn(Writing, {}, Channelled, Sending, Waiting, Ingested)
      BY ONLY <1>6, TurnsLess
    <3>. QED
      BY <1>4, <1>5, <2>1, <3>1
  <2>6. InOrder'
    BY <1>0, <1>1, <1>11, <2>3, <2>5 DEF InOrder
  <2>7. BeforePlay'
    BY <1>9, <1>11
  <2>8. srv'.last = srv.last /\ Told' \subseteq Told /\ Lost' \subseteq Lost \cup {p.n}
    BY <1>1, <1>11
  <2>. HIDE DEF OnTheWay, Lost, Told, InOrder, OneFate, BeforePlay, Repairing, RelayInv
  <2>9. OneFate'
    BY <1>0, <1>2, <2>3, <2>4, <2>8, FateKept
  <2>10. \A q \in OnTheWay : q \in OnTheWay' \/ q.n \in Lost'
    BY <1>11, <2>3
  <2>. QED
    BY <1>1, <1>3, <1>11, <2>3, <2>6, <2>7, <2>9, <2>10, MovesRepair
<1>12. CASE WorkerForwards /\ ~room
  <2>1. /\ client' = [client EXCEPT !.dropped = @ \cup {n}] /\ outer' = outer
        /\ to_server' = to_server
    BY <1>12 DEF WorkerForwards, p
  <2>. HIDE DEF n
  <2>2. /\ client'.queue = client.queue /\ client'.snapshot = client.snapshot
        /\ client'.dropped = client.dropped \cup {n}
    BY <1>0, <2>1 DEF Clients
  <2>3. Told' = Told /\ Lost' = Lost \cup {n}
    BY <2>1, <2>2 DEF Told, Lost, Acked, Answers
  <2>. QED
    BY <1>11, <2>1, <2>2, <2>3
<1>13. CASE WorkerRejects
  <2>1. client' = client /\ outer' = outer /\ to_server' = Append(to_server, a)
    BY <1>13 DEF WorkerRejects, p
  <2>2. a \in Acks /\ a.type = "ack" /\ a.n = n /\ a.delivered = FALSE
    BY <1>2 DEF Ack, Acks
  <2>. HIDE DEF a, n
  <2>3. Members(to_server') = Members(to_server) \cup {a}
    BY <1>0, <2>1, <2>2, MembersOf
  <2>4. Answers' = Answers \cup {a}
    BY <2>1, <2>3 DEF Answers
  <2>5. Told' = Told
    BY <2>2, <2>4 DEF Told, Acked
  <2>6. Acked(FALSE)' = Acked(FALSE) \cup {n}
    BY <2>2, <2>4 DEF Acked
  <2>7. Lost' = Lost \cup {n}
    BY <2>1, <2>6 DEF Lost
  <2>. QED
    BY <1>11, <2>1, <2>3, <2>5, <2>7
<1>. QED
    BY <1>10, <1>12, <1>13

----------------------------------------------------------------------------
(* The outer session. *)

\* The writer writes the first record of all that are on their way: the records that were
\* whole with it are whole behind it.
LEMMA WritesRepair ==
    ASSUME RelayInv, Repairing, OuterWrites
    PROVE  Repairing'
<1>. DEFINE p == Head(outer.queue)
            n == p.n
            q == Tail(outer.queue)
            ok == Decodes(p)
            a == Ack(n, TRUE)
<1>0. /\ PathTypes /\ srv \in Presenter /\ srv.last \in Nat
      /\ InOrder /\ OneFate /\ FirstIsKey /\ Waits /\ Hiding /\ SourceKept /\ BeforePlay
      /\ Repairs /\ outer \in Outers /\ outer.done \in Seq(Acks)
      /\ outer.queue \in Seq(Packets) /\ Sorted(outer.queue, PacketsAfter)
      /\ outer.last \in Nat
    BY Numbers, PlaceKinds DEF Repairing, PathTypes, InOrder
<1>1. /\ outer.queue # <<>>
      /\ outer' = [outer EXCEPT !.queue = q, !.ok = ok, !.last = n, !.done = Append(@, a)]
      /\ UNCHANGED <<producer, wire, srv, ingest, control, actor, events, to_client,
                     client, worker, to_server>>
    BY DEF OuterWrites
<1>2. /\ p \in Packets /\ q \in Seq(Packets) /\ Writing = Members(q) \cup {p}
      /\ Sorted(q, PacketsAfter) /\ p \in OnTheWay /\ Ahead({p}, Members(q))
  <2>1. /\ p \in Members(outer.queue) /\ q \in Seq(Packets)
        /\ Members(outer.queue) = Members(q) \cup {p}
    BY <1>0, <1>1, MembersOf
  <2>2. p \in Packets
    BY <1>0, <2>1, MembersOf
  <2>3. Sorted(q, PacketsAfter) /\ \A r \in Members(q) : r \in PacketsAfter[p]
    BY <1>0, <1>1, SortedOf
  <2>4. \A r \in Members(q) : p.n < r.n
    BY <2>2, <2>3 DEF PacketsAfter
  <2>. QED
    BY <2>1, <2>2, <2>3, <2>4 DEF Writing, Ahead, OnTheWay
<1>3. ok <=> p.key \/ (outer.ok /\ n = outer.last + 1)
    BY DEF Decodes
<1>4. a \in Acks /\ a.type = "ack" /\ a.n = n /\ a.delivered = TRUE
    BY <1>2, MessageKinds DEF Ack, Acks
<1>. HIDE DEF p, q, ok, a
<1>5. /\ outer'.queue = q /\ outer'.ok = ok /\ outer'.last = n
      /\ outer'.done = Append(outer.done, a)
      /\ outer'.has = outer.has /\ outer'.alive = outer.alive
    BY <1>0, <1>1 DEF Outers
<1>6. /\ Writing' = Members(q) /\ Deferred' = Deferred /\ Channelled' = Channelled
      /\ Sending' = Sending /\ Waiting' = Waiting /\ Ingested' = Ingested
      /\ Coming' = Coming
    BY <1>1, <1>5 DEF Writing, Deferred, Channelled, CarriedBy, Sending, MediaOf, Waiting,
                      Ingested, Coming
<1>7. Told' = Told \cup {n} /\ Lost' = Lost
  <2>1. Members(outer'.done) = Members(outer.done) \cup {a}
    BY <1>0, <1>4, <1>5, MembersOf
  <2>2. Answers' = Answers \cup {a}
    BY <1>1, <2>1 DEF Answers
  <2>3. Told' = Told \cup {n}
    BY <1>4, <2>2 DEF Told, Acked
  <2>4. Acked(FALSE)' = Acked(FALSE)
    BY <1>4, <2>2 DEF Acked
  <2>. QED
    BY <1>1, <2>3, <2>4 DEF Lost
<1>8. \A r \in OnTheWay : r.n \in Nat /\ r.n >= 1 /\ outer.last < r.n /\ r.n <= srv.last
    BY <1>0, WayKinds DEF InOrder
<1>9. /\ OnTheWay' \subseteq OnTheWay /\ \A r \in OnTheWay : r \in OnTheWay' \/ r = p
    BY <1>2, <1>6 DEF OnTheWay
<1>10. n \in Nat /\ n >= 1 /\ outer.last < n /\ n <= srv.last
    BY <1>2, <1>8
<1>11. InTurn(Writing, Deferred, Channelled, Sending, Waiting, Ingested)
    BY <1>0 DEF InOrder
<1>12. \A r \in OnTheWay' : n < r.n
  <2>1. \A r \in Members(q) \cup Deferred \cup Channelled \cup Sending \cup Waiting \cup Ingested :
           n < r.n
    BY ONLY <1>2, <1>11 DEF InTurn, Ahead, n
  <2>. QED
    BY <1>6, <2>1 DEF OnTheWay
<1>13. InTurn(Writing', Deferred', Channelled', Sending', Waiting', Ingested')
  <2>1. Members(q) \subseteq Writing
    BY <1>2
  <2>2. InTurn(Members(q), Deferred, Channelled, Sending, Waiting, Ingested)
    BY ONLY <1>11, <2>1, TurnsLess
  <2>. QED
    BY <1>6, <2>2
<1>. HIDE DEF n
<1>14. InOrder'
    BY <1>0, <1>1, <1>2, <1>5, <1>8, <1>9, <1>10, <1>12, <1>13 DEF InOrder
<1>15. OneFate'
  <2>1. \A r \in OnTheWay' : r.n # p.n
    BY <1>8, <1>9, <1>10, <1>12 DEF n
  <2>2. srv'.last = srv.last /\ Told' \subseteq Told \cup {p.n} /\ Lost' \subseteq Lost
    BY <1>1, <1>7 DEF n
  <2>. HIDE DEF OnTheWay, Told, Lost
  <2>. QED
    BY <1>0, <1>2, <1>9, <2>1, <2>2, FateKept
<1>16. BeforePlay'
  <2>1. \A b \in Coming : b.playing
    BY <1>0, <1>1 DEF BeforePlay, NothingYet
  <2>. QED
    BY <1>0, <1>1, <1>6, <2>1 DEF BeforePlay
<1>17. FirstIsKey' /\ Hiding' /\ SourceKept'
    BY <1>0, <1>1, <1>5, <1>6 DEF FirstIsKey, Hiding, SourceKept
<1>18. Waits'
    BY <1>0, <1>1, <1>5, <1>10 DEF Waits, Asked
<1>19. Repairs'
  <2>1. CASE Excused
    BY <1>1, <1>5, <1>6, <2>1 DEF Repairs, Excused, Recreates
  <2>2. CASE Reported
    BY <1>1, <1>7, <2>2 DEF Repairs, Reported, Noticed
  <2>3. CASE Asked
    BY <1>1, <2>3 DEF Repairs, Asked
  <2>4. CASE Whole
    <3>1. PICK k \in 1 .. srv.last + 1 : WholeFrom(k)
      BY <2>4 DEF Whole
    <3>2. /\ ~srv.desync
          /\ \A i \in k .. srv.last : i \in srv.deliveries /\ \E r \in OnTheWay : r.n = i
          /\ \/ \E r \in OnTheWay : r.n = k /\ r.key
             \/ outer.ok /\ k = outer.last + 1
      BY <1>0, <1>10, <2>4, <3>1 DEF Whole, WholeFrom
    <3>3. k \in Nat /\ 1 <= k
      BY <3>1
    <3>4. ASSUME NEW r \in OnTheWay, r.n > n PROVE r \in OnTheWay'
      BY <1>9, <1>10, <3>4 DEF n
    <3>5. CASE n < k
      <4>1. \A i \in k .. srv.last : \E r \in OnTheWay' : r.n = i
        <5>. SUFFICES ASSUME NEW i \in k .. srv.last PROVE \E r \in OnTheWay' : r.n = i
          OBVIOUS
        <5>1. PICK r \in OnTheWay : r.n = i
          BY <3>2
        <5>2. r.n > n
          BY <1>0, <1>10, <3>3, <3>5, <5>1
        <5>. QED
          BY <3>4, <5>1, <5>2
      <4>2. \E r \in OnTheWay' : r.n = k /\ r.key
        <5>1. ~(k = outer.last + 1)
          BY <1>0, <1>10, <3>3, <3>5
        <5>2. PICK r \in OnTheWay : r.n = k /\ r.key
          BY <3>2, <5>1
        <5>3. r.n > n
          BY <1>10, <3>3, <3>5, <5>2
        <5>. QED
          BY <3>4, <5>2, <5>3
      <4>. QED
        BY <1>1, <3>1, <3>2, <4>1, <4>2 DEF Repairs, Whole, WholeFrom
    <3>6. CASE k <= n
      <4>1. k \in k .. srv.last
        BY <1>0, <1>10, <3>3, <3>6
      <4>2. PICK r \in OnTheWay : r.n = k
        BY <3>2, <4>1
      <4>3. r = p
        BY <1>9, <1>10, <1>12, <3>3, <3>6, <4>2
      <4>4. k = n
        BY <4>2, <4>3 DEF n
      <4>5. ok
        <5>1. CASE \E s \in OnTheWay : s.n = k /\ s.key
          <6>1. PICK s \in OnTheWay : s.n = k /\ s.key
            BY <5>1
          <6>2. s = p
            BY <1>9, <1>10, <1>12, <4>4, <6>1
          <6>. QED
            BY <1>3, <6>1, <6>2
        <5>2. CASE outer.ok /\ k = outer.last + 1
          BY <1>3, <4>4, <5>2
        <5>. QED
          BY <3>2, <5>1, <5>2
      <4>6. ASSUME NEW i \in k + 1 .. srv.last
            PROVE  i \in srv.deliveries /\ \E s \in OnTheWay' : s.n = i
        <5>1. i \in k .. srv.last /\ i > n
          BY <1>0, <1>10, <4>4
        <5>2. PICK s \in OnTheWay : s.n = i
          BY <3>2, <5>1
        <5>. QED
          BY <3>2, <3>4, <5>1, <5>2
      <4>7. k + 1 \in 1 .. srv.last + 1
        BY <1>0, <1>10, <4>4
      <4>8. outer'.ok /\ k + 1 = outer'.last + 1
        BY <1>5, <4>4, <4>5
      <4>9. WholeFrom(k + 1)'
        BY <1>1, <4>6, <4>8 DEF WholeFrom
      <4>. QED
        BY <1>1, <3>2, <4>7, <4>9 DEF Repairs, Whole
    <3>. QED
      BY <1>10, <3>3, <3>5, <3>6
  <2>. QED
    BY <1>0, <2>1, <2>2, <2>3, <2>4 DEF Repairs
<1>. QED
    BY <1>14, <1>15, <1>16, <1>17, <1>18, <1>19 DEF Repairing

\* The writer stops, with what it had queued.
LEMMA StopsParts ==
    ASSUME RelayInv, Repairing,
           UNCHANGED <<producer, wire, srv, ingest, control, actor, events, to_client, client>>,
           worker'.deferred = worker.deferred, worker'.active = worker.active,
           outer'.queue = <<>>, outer'.last = outer.last, outer'.ok => outer.ok,
           outer'.done = IF outer.queue = <<>> THEN outer.done
                         ELSE Append(outer.done, Ack(Head(outer.queue).n, FALSE)),
           Members(to_server) \subseteq Members(to_server'),
           \A m \in Members(to_server') : m \in Members(to_server) \/ m.type # "ack"
    PROVE  /\ InOrder' /\ OneFate' /\ FirstIsKey' /\ BeforePlay' /\ Waits' /\ Hiding'
           /\ Coming' = Coming /\ (Noticed => Noticed')
           /\ outer.queue # <<>> => srv.playing /\ \A b \in Coming : b.playing
           /\ outer.queue = <<>> => OnTheWay' = OnTheWay /\ Lost' = Lost
<1>. DEFINE p == Head(outer.queue)
            a == Ack(p.n, FALSE)
<1>0. /\ PathTypes /\ srv \in Presenter /\ srv.last \in Nat
      /\ InOrder /\ OneFate /\ FirstIsKey /\ Waits /\ Hiding /\ BeforePlay
      /\ outer \in Outers /\ outer.done \in Seq(Acks)
      /\ outer.queue \in Seq(Packets) /\ Sorted(outer.queue, PacketsAfter)
    BY Numbers, PlaceKinds DEF Repairing, PathTypes, InOrder
<1>1. /\ Deferred' = Deferred /\ Channelled' = Channelled
      /\ Sending' = Sending /\ Waiting' = Waiting /\ Ingested' = Ingested
      /\ Coming' = Coming
    BY DEF Deferred, Channelled, CarriedBy, Sending, MediaOf, Waiting, Ingested, Coming
<1>2. Writing' = {} /\ (outer.queue = <<>> => Writing = {})
    BY MembersOf, EmptySeq DEF Writing
<1>3. OnTheWay' = Deferred \cup Channelled \cup Sending \cup Waiting \cup Ingested
    BY <1>1, <1>2 DEF OnTheWay
<1>4. OnTheWay' \subseteq OnTheWay /\ (outer.queue = <<>> => OnTheWay' = OnTheWay)
    BY <1>2, <1>3 DEF OnTheWay
<1>5. InTurn(Writing, Deferred, Channelled, Sending, Waiting, Ingested)
    BY <1>0 DEF InOrder
<1>6. InOrder'
  <2>1. InTurn({}, Deferred, Channelled, Sending, Waiting, Ingested)
    BY ONLY <1>5, TurnsLess
  <2>. QED
    BY <1>0, <1>1, <1>2, <1>4, <2>1, SortedNone DEF InOrder
<1>7. FirstIsKey' /\ Waits' /\ Hiding'
    BY <1>0, <1>1 DEF FirstIsKey, Waits, Asked, Hiding
<1>8. Noticed => Noticed'
    BY DEF Noticed
<1>9. \A m \in Members(to_server') : m.type = "ack" => m \in Members(to_server)
    OBVIOUS
<1>10. CASE outer.queue = <<>>
  <2>1. outer'.done = outer.done
    BY <1>10
  <2>2. Told' = Told /\ Lost' = Lost
    BY <1>9, <2>1 DEF Told, Lost, Acked, Answers
  <2>3. OneFate'
    BY <1>0, <1>4, <1>10, <2>2 DEF OneFate
  <2>4. BeforePlay'
    <3>1. NothingYet => NothingYet'
      BY <2>1 DEF NothingYet
    <3>. QED
      BY <1>0, <1>1, <3>1 DEF BeforePlay
  <2>. QED
    BY <1>1, <1>4, <1>6, <1>7, <1>8, <1>10, <2>2, <2>3, <2>4
<1>11. CASE outer.queue # <<>>
  <2>1. /\ p \in Members(outer.queue) /\ p \in Packets
        /\ Members(outer.queue) = Members(Tail(outer.queue)) \cup {p}
    BY <1>0, <1>11, MembersOf
  <2>2. p \in Writing /\ p \in OnTheWay
    BY <2>1 DEF Writing, OnTheWay
  <2>3. srv.playing
    BY <2>2, PlaysOn
  <2>4. \A b \in Coming : b.playing
    BY <1>0, <1>11 DEF BeforePlay, NothingYet
  <2>5. BeforePlay'
    BY <1>0, <1>1, <2>4 DEF BeforePlay
  <2>6. a \in Acks /\ a.type = "ack" /\ a.n = p.n /\ a.delivered = FALSE
    BY <2>1, MessageKinds DEF Ack, Acks
  <2>7. outer'.done = Append(outer.done, a)
    BY <1>11
  <2>. HIDE DEF p, a
  <2>8. Members(outer'.done) = Members(outer.done) \cup {a}
    <3>1. outer.done \in Seq(Acks) /\ a \in Acks
      BY <1>0, <2>6
    <3>2. Members(Append(outer.done, a)) = Members(outer.done) \cup {a}
      BY ONLY <3>1, MembersOf
    <3>. QED
      BY <2>7, <3>2
  <2>9. Told' \subseteq Told /\ Lost' \subseteq Lost \cup {p.n}
    <3>1. \A m \in Answers' : m.type = "ack" => m \in Answers \/ m = a
      BY <1>9, <2>8 DEF Answers
    <3>. QED
      BY <2>6, <3>1 DEF Told, Lost, Acked
  <2>10. \A r \in OnTheWay' : r.n # p.n
    <3>1. \A r \in Deferred \cup Channelled \cup Sending \cup Waiting \cup Ingested :
             r.n \in Nat
      BY <1>0, WayKinds DEF OnTheWay
    <3>2. p.n \in Nat
      BY <1>0, <2>2, WayKinds
    <3>3. \A r \in Deferred \cup Channelled \cup Sending \cup Waiting \cup Ingested :
             r.n # p.n
      BY ONLY <1>5, <2>2, <3>1, <3>2 DEF InTurn, Ahead
    <3>. QED
      BY <1>3, <3>3
  <2>11. OneFate'
    <3>1. srv'.last = srv.last
      OBVIOUS
    <3>. HIDE DEF OnTheWay, Told, Lost
    <3>. QED
      BY <1>0, <1>4, <2>2, <2>9, <2>10, <3>1, FateKept
  <2>. QED
    BY <1>1, <1>6, <1>7, <1>8, <1>11, <2>3, <2>4, <2>5, <2>11
<1>. QED
    BY <1>10, <1>11

\* The writer fails, or the presenter loses the source: a source whose records were on
\* their way will be created again.
LEMMA FailsRepair ==
    ASSUME RelayInv, Repairing, OuterWriteFails \/ OuterLosesSource
    PROVE  Repairing'
<1>. DEFINE done == IF outer.queue = <<>> THEN outer.done
                    ELSE Append(outer.done, Ack(Head(outer.queue).n, FALSE))
            w == [outer EXCEPT !.alive = FALSE, !.queue = <<>>, !.done = done]
<1>0. /\ PathTypes /\ srv \in Presenter /\ srv.last \in Nat
      /\ InOrder /\ SourceKept /\ BeforePlay /\ Waits /\ Repairs
      /\ worker \in Workers /\ outer \in Outers
      /\ to_server \in Seq(Acks \cup Needs \cup {Retry})
    BY Numbers DEF Repairing, PathTypes
<1>1. /\ UNCHANGED <<producer, wire, srv, ingest, control, actor, events, to_client, client>>
      /\ WriterStops = w
    BY DEF OuterWriteFails, OuterLosesSource, WriterStops
<1>. HIDE DEF done
<1>2. /\ w.alive = FALSE /\ w.queue = <<>> /\ w.done = done
      /\ w.has = outer.has /\ w.ok = outer.ok /\ w.last = outer.last
      /\ DOMAIN w = {"has", "alive", "ok", "last", "queue", "done"}
    BY <1>0 DEF Outers
<1>. HIDE DEF w
<1>3. CASE OuterWriteFails
  <2>1. outer.queue # <<>> /\ outer' = w /\ worker' = worker /\ to_server' = to_server
    BY <1>1, <1>3 DEF OuterWriteFails
  <2>2. /\ InOrder' /\ OneFate' /\ FirstIsKey' /\ BeforePlay' /\ Waits' /\ Hiding'
        /\ Coming' = Coming
        /\ outer.queue # <<>> => srv.playing /\ \A b \in Coming : b.playing
    BY <1>1, <1>2, <2>1, StopsParts DEF done
  <2>3. SourceKept'
    BY <1>0, <1>1, <1>2, <2>1, <2>2 DEF SourceKept
  <2>4. Recreates'
    BY <1>1, <1>2, <2>1, <2>2 DEF Recreates
  <2>. QED
    BY <2>2, <2>3, <2>4 DEF Repairing, Repairs, Excused
<1>4. CASE OuterLosesSource
  <2>1. /\ worker' = [worker EXCEPT !.lost = TRUE, !.force = TRUE]
        /\ outer' = [w EXCEPT !.has = FALSE, !.ok = FALSE]
        /\ to_server' = Append(to_server, Retry)
    BY <1>1, <1>4 DEF OuterLosesSource
  <2>2. /\ worker'.force /\ worker'.active = worker.active
        /\ worker'.replace = worker.replace /\ worker'.deferred = worker.deferred
    BY <1>0, <2>1 DEF Workers
  <2>3. /\ outer'.queue = <<>> /\ outer'.done = done /\ ~outer'.has /\ ~outer'.ok
        /\ outer'.last = outer.last
    BY <1>2, <2>1
  <2>4. Members(to_server') = Members(to_server) \cup {Retry}
    BY <1>0, <2>1, MembersOf
  <2>5. /\ InOrder' /\ OneFate' /\ FirstIsKey' /\ BeforePlay' /\ Waits' /\ Hiding'
        /\ Coming' = Coming /\ (Noticed => Noticed')
        /\ outer.queue # <<>> => srv.playing /\ \A b \in Coming : b.playing
        /\ outer.queue = <<>> => OnTheWay' = OnTheWay /\ Lost' = Lost
    <3>1. \A m \in Members(to_server') : m \in Members(to_server) \/ m.type # "ack"
      BY <2>4 DEF Retry
    <3>. QED
      BY <1>1, <2>2, <2>3, <2>4, <3>1, StopsParts DEF done
  <2>6. SourceKept'
    BY <1>0, <2>2, <2>3, <2>4 DEF SourceKept
  <2>7. Repairs'
    <3>1. CASE srv.playing /\ \A b \in Coming : b.playing
      <4>1. Recreates'
        BY <1>1, <2>3, <2>5, <3>1 DEF Recreates
      <4>. QED
        BY <4>1 DEF Repairs, Excused
    <3>2. CASE ~(srv.playing /\ \A b \in Coming : b.playing)
      <4>1. ~Recreates
        BY <3>2 DEF Recreates
      <4>2. NothingYet
        BY <1>0, <3>2, NothingAtFirst DEF Waits, BeforePlay
      <4>3. ~outer.ok /\ OnTheWay' = OnTheWay /\ Lost' = Lost
        BY <2>5, <4>2 DEF NothingYet
      <4>4. \A p \in OnTheWay : p.n <= srv.last
        BY <1>0 DEF InOrder
      <4>. HIDE DEF Recreates, Excused, Noticed, Repairs, OnTheWay, Lost
      <4>. QED
        BY <1>0, <1>1, <2>5, <4>1, <4>3, <4>4, StillRepaired
    <3>. QED
      BY <3>1, <3>2
  <2>. QED
    BY <2>5, <2>6, <2>7 DEF Repairing
<1>. QED
    BY <1>3, <1>4

\* The presenter asks for a keyframe.
LEMMA NeedsRepair ==
    ASSUME RelayInv, Repairing, OuterNeedsKeyframe
    PROVE  Repairing'
<1>0. /\ InOrder /\ OneFate /\ BeforePlay /\ PathTypes
      /\ to_server \in Seq(Acks \cup Needs \cup {Retry})
    BY Numbers DEF Repairing, PathTypes
<1>1. PICK m \in 0 .. MaxEpoch, reason \in {"initial", "error"} :
          to_server' = Append(to_server, Need(m, reason))
    BY DEF OuterNeedsKeyframe
<1>2. UNCHANGED <<producer, wire, srv, ingest, control, actor, events, to_client, client,
                  worker, outer>>
    BY DEF OuterNeedsKeyframe
<1>. DEFINE k == Need(m, reason)
<1>3. k \in Needs /\ k.type = "need"
    BY ConstantTypes DEF Need, Needs, Reasons
<1>4. to_server' = Append(to_server, k)
    BY <1>1
<1>. HIDE DEF k
<1>5. Members(to_server') = Members(to_server) \cup {k}
    BY <1>0, <1>3, <1>4, MembersOf
<1>6. Told' = Told /\ Lost' = Lost
    BY <1>2, <1>3, <1>5 DEF Told, Lost, Acked, Answers
<1>7. /\ Writing' = Writing /\ Deferred' = Deferred /\ Channelled' = Channelled
      /\ Sending' = Sending /\ Waiting' = Waiting /\ Ingested' = Ingested
      /\ Coming' = Coming
    BY <1>2 DEF Writing, Deferred, Channelled, CarriedBy, Sending, MediaOf, Waiting,
                Ingested, Coming
<1>8. OnTheWay' = OnTheWay
    BY <1>7 DEF OnTheWay
<1>9. InOrder' /\ OneFate' /\ BeforePlay'
    BY <1>0, <1>2, <1>6, <1>7, <1>8 DEF InOrder, OneFate, BeforePlay, NothingYet
<1>. HIDE DEF OnTheWay, Lost, Told, InOrder, OneFate, BeforePlay, Repairing, RelayInv
<1>. QED
    BY <1>2, <1>5, <1>6, <1>8, <1>9, MovesRepair

----------------------------------------------------------------------------
(* Every steady step keeps the invariant. *)

LEMMA InitRepairs == HistoryInit => RepairInv
<1>. SUFFICES ASSUME HistoryInit PROVE Repairing
    BY DEF RepairInv
<1>1. /\ producer.sent = 0 /\ producer.fresh
      /\ ~srv.desync /\ srv.pending = None /\ ~srv.playing /\ ~srv.flushed
      /\ srv.last = 0 /\ srv.projected /\ srv.attached /\ srv.visible
      /\ wire = <<>> /\ events = <<>> /\ to_client = <<>> /\ to_server = <<>>
      /\ ingest = Idle /\ control = Idle
    BY DEF HistoryInit, Init
<1>2. /\ client.snapshot = None /\ client.queue = <<>> /\ client.dropped = {}
      /\ ~worker.active /\ ~worker.force /\ ~worker.replace /\ worker.deferred = None
      /\ ~outer.has /\ ~outer.ok /\ outer.last = 0 /\ outer.queue = <<>> /\ outer.done = <<>>
    BY DEF HistoryInit, Init, FreshClient, FreshWorker, NoSource
<1>3. Members(<<>>) = {} /\ Len(<<>>) = 0
    BY MembersOf, EmptySeq
<1>4. /\ Writing = {} /\ Deferred = {} /\ Channelled = {} /\ Sending = {} /\ Waiting = {}
      /\ Ingested = {}
    BY <1>1, <1>2, <1>3 DEF Writing, Deferred, Channelled, CarriedBy, Sending, MediaOf,
                            Waiting, Ingested, Idle
<1>5. OnTheWay = {}
    BY <1>4 DEF OnTheWay
<1>6. Coming = {} /\ Told = {} /\ Lost = {}
    BY <1>1, <1>2, <1>3 DEF Coming, Told, Lost, Acked, Answers
<1>7. InOrder
  <2>1. InTurn({}, {}, {}, {}, {}, {})
    BY DEF InTurn, Ahead
  <2>. QED
    BY <1>1, <1>2, <1>4, <1>5, <2>1, SortedNone DEF InOrder
<1>8. OneFate
    BY <1>5, <1>6 DEF OneFate
<1>9. FirstIsKey
    BY <1>1, <1>3 DEF FirstIsKey
<1>10. SourceKept /\ BeforePlay /\ Waits /\ Hiding
    BY <1>1, <1>2, <1>3, <1>6 DEF SourceKept, BeforePlay, NothingYet, Waits, Hiding, Idle
<1>11. Repairs
  <2>1. WholeFrom(1) /\ 1 \in 1 .. srv.last + 1
    BY <1>1 DEF WholeFrom
  <2>. QED
    BY <1>1, <2>1 DEF Repairs, Whole
<1>. QED
    BY <1>7, <1>8, <1>9, <1>10, <1>11 DEF Repairing

LEMMA StutterRepairs ==
    ASSUME RelayInv, Repairing, UNCHANGED vars
    PROVE  Repairing'
<1>1. UNCHANGED <<producer, wire, srv, ingest, control, actor, events, to_client, client,
                  worker, outer, to_server>>
    BY DEF vars
<1>2. PathTypes /\ srv.last \in Nat /\ FirstIsKey /\ control.do # "pause"
    BY Numbers DEF Repairing, Waits
<1>3. FirstIsKey' /\ Ingested' = Ingested /\ Alike(srv, srv')
    BY <1>1, <1>2 DEF FirstIsKey, Ingested, Alike
<1>. QED
    BY <1>1, <1>2, <1>3, StillKeeps

LEMMA NextRepairs ==
    ASSUME RelayInv, Repairing, Next, PlaysThroughout, HidingApplied
    PROVE  Repairing'
<1>. HIDE DEF Repairing, RelayInv
<1>0. control'.do # "pause" /\ (srv.playing \/ srv'.last = 0)
    BY DEF PlaysThroughout
<1>1. CASE (\E p \in Packets : ProducerSend(p)) \/ ReceiveCredit
    BY <1>1, ProducerRepairs
<1>2. CASE IngestRecord
    BY <1>0, <1>2, IngestRepairs
<1>3. CASE IngestSend
    BY <1>3, SendRepairs
<1>4. CASE IngestRequest \/ ActorRequest
    BY <1>4, RequestRepairs
<1>5. CASE Control
    BY <1>0, <1>5, ControlRepairs
<1>6. CASE Actor
  <2>1. CASE ChangeLayout
    BY <2>1, LayoutRepairs
  <2>2. CASE IdleSync \/ ActorResync
    BY <2>2, ResyncRepairs
  <2>3. CASE Attach
    BY <2>3, AttachRepairs
  <2>4. CASE Detach \/ ClientLost
    BY <2>4, GoneRepairs
  <2>5. CASE \E sent \in BOOLEAN : ForwardMedia(sent)
    BY <2>5, ForwardRepairs
  <2>6. CASE HandleMessage
    BY <2>6, MessageRepairs
  <2>. QED
    BY <1>4, <1>6, <2>1, <2>2, <2>3, <2>4, <2>5, <2>6 DEF Actor
<1>7. CASE ClientReads
    BY <1>7, ReadsRepairs
<1>8. CASE Worker
  <2>1. CASE \E rebuilt \in BOOLEAN : WorkerApplies(rebuilt)
    BY <2>1, AppliesRepairs
  <2>2. CASE WorkerApplyFails
    BY <2>2, ApplyFailsRepairs
  <2>3. CASE WorkerCompletes \/ WorkerDropped
    BY <2>3, AnswersRepair
  <2>4. CASE WorkerTakes
    BY <2>4, TakesRepair
  <2>5. CASE WorkerRejects \/ WorkerForwards
    BY <2>5, DeferredRepairs
  <2>. QED
    BY <1>8, <2>1, <2>2, <2>3, <2>4, <2>5 DEF Worker
<1>9. CASE OuterWrites
    BY <1>9, WritesRepair
<1>10. CASE OuterWriteFails \/ OuterLosesSource
    BY <1>10, FailsRepair
<1>11. CASE OuterNeedsKeyframe
    BY <1>11, NeedsRepair
<1>. QED
    BY <1>1, <1>2, <1>3, <1>4, <1>5, <1>6, <1>7, <1>8, <1>9, <1>10, <1>11 DEF Next

\* At rest, no record is on its way, nothing is left to be told, and no snapshot to be
\* applied: only a decoder in step, or a source that waits, is left.
LEMMA RestRepaired ==
    ASSUME RelayInv, Repairing
    PROVE  QuietRepaired
<1>. SUFFICES ASSUME Quiet, srv.attached, srv.visible, srv.playing, ~srv.ended,
                     outer.has, outer.alive, srv.last > 0
              PROVE  \/ outer.ok /\ outer.last = srv.last
                     \/ srv.desync /\ (srv.pending # None \/ srv.flushed)
    BY DEF QuietRepaired
<1>0. PathTypes /\ srv.last \in Nat /\ outer.last \in Nat
    BY Numbers, PlaceKinds
<1>1. Members(<<>>) = {}
    BY MembersOf, EmptySeq
<1>2. OnTheWay = {}
    BY <1>1 DEF Quiet, OnTheWay, Writing, Deferred, Channelled, CarriedBy, Sending, MediaOf,
                Waiting, Ingested, Idle
<1>3. Coming = {} /\ Lost = {}
    BY <1>1 DEF Quiet, Coming, Lost, Acked, Answers
<1>4. ~Noticed
    BY <1>1 DEF Quiet, Noticed, Idle
<1>5. ~Reported
    BY <1>3, <1>4 DEF Reported
<1>6. srv.projected
    BY DEF Repairing, Hiding, Quiet
<1>7. ~worker.replace
    BY <1>1, <1>3 DEF Repairing, SourceKept, Quiet
<1>8. ~Excused
    BY <1>6, <1>7 DEF Excused, Recreates
<1>9. CASE Asked
    BY <1>9 DEF Asked
<1>10. CASE Whole
  <2>1. PICK k \in 1 .. srv.last + 1 : WholeFrom(k)
    BY <1>10 DEF Whole
  <2>2. k \notin k .. srv.last
    BY <1>2, <2>1 DEF WholeFrom
  <2>3. k = srv.last + 1
    BY <1>0, <2>1, <2>2
  <2>4. outer.ok /\ k = outer.last + 1
    BY <1>2, <2>1 DEF WholeFrom
  <2>. QED
    BY <1>0, <2>3, <2>4
<1>. QED
    BY <1>5, <1>8, <1>9, <1>10 DEF Repairing, Repairs

\* In every behaviour, as long as the source plays and stays shown, every loss on the way
\* of its records is repaired: when everything has come to rest, the outer decoder is in
\* step with the last record ingested, or records are held back and the producer knows
\* that a keyframe is due (next_video_recovery and complete_bridge_delivery in media.rs,
\* forward_media in session.rs, the bridge worker's recovery in client.rs).
THEOREM LossesAreRepaired == HistorySpec => []SteadyRepaired
<1>1. HistoryInit => RelayInv /\ RepairInv
    BY InitRelay, InitRepairs DEF HistoryInit
<1>2. RelayInv /\ RepairInv /\ [HistoryNext]_<<vars, steady>> => (RelayInv /\ RepairInv)'
  <2>. SUFFICES ASSUME RelayInv, RepairInv, [HistoryNext]_<<vars, steady>>
                PROVE  (RelayInv /\ RepairInv)'
    OBVIOUS
  <2>1. [Next]_vars
    BY DEF HistoryNext
  <2>2. RelayInv'
    BY <2>1, StepPath, StepAccount DEF RelayInv
  <2>3. ASSUME steady' PROVE Repairing'
    <3>1. CASE UNCHANGED <<vars, steady>>
      <4>1. steady /\ UNCHANGED vars
        BY <2>3, <3>1
      <4>. QED
        BY <4>1, StutterRepairs DEF RepairInv
    <3>2. CASE HistoryNext
      <4>1. steady /\ PlaysThroughout /\ HidingApplied /\ Next
        BY <2>3, <3>2 DEF HistoryNext
      <4>. QED
        BY <4>1, NextRepairs DEF RepairInv
    <3>. QED
      BY <3>1, <3>2
  <2>4. RepairInv'
    BY <2>3 DEF RepairInv
  <2>. QED
    BY <2>2, <2>4
<1>3. RelayInv /\ RepairInv => SteadyRepaired
    BY RestRepaired DEF RepairInv, SteadyRepaired
<1>. QED
    BY <1>1, <1>2, <1>3, PTL DEF HistorySpec

----------------------------------------------------------------------------
(* MediaObjects: the state, the inductive invariant and its parts.          *)

SourceEntries ==
    [kind : Kinds, bytes : {0, 1}, at : {"never", "attached", "closed"}, deny : BOOLEAN]
NodeEntries ==
    [pane : Panes, source : SourceIds, anchor : BOOLEAN, retained : BOOLEAN]
Mutations ==
    [op : {"create", "update", "delete"}, node : NodeIds, source : SourceIds,
     anchor : BOOLEAN]
ControlThreads ==
    [at : {"hello", "mark", "admit", "serve", "done"}, pane : Panes \cup {Absent},
     owner : Panes \cup {Absent}, cancelled : BOOLEAN]
ChannelThreads ==
    [at : {"hello", "attach", "mark", "serve", "fail", "done"},
     key : Keys \cup {Absent}, pane : Panes \cup {Absent},
     owner : Panes \cup {Absent}, cancelled : BOOLEAN]

Fields == {"pane", "metrics", "producers", "pane_of", "anchored", "seen", "sources",
           "nodes", "txns", "tickets", "retained", "waits"}
Shaped(s) == s = [field \in Fields |-> s[field]]

\* The tables have their types.
TablesTyped(s) ==
    /\ Shaped(s)
    /\ s.pane \in [Panes -> {"new", "open", "closed"}]
    /\ s.pane_of \in [Controls -> Panes \cup {Absent}]
    /\ s.metrics \subseteq Panes
    /\ s.producers \subseteq Controls
    /\ s.anchored \subseteq Controls /\ s.seen \subseteq Controls
    /\ s.sources \in [DOMAIN s.sources -> SourceEntries]
    /\ DOMAIN s.sources \subseteq Keys /\ IsFiniteSet(DOMAIN s.sources)
    /\ s.nodes \in [DOMAIN s.nodes -> NodeEntries]
    /\ DOMAIN s.nodes \subseteq Controls \X NodeIds
    /\ s.txns \in [DOMAIN s.txns -> Seq(Mutations)]
    /\ DOMAIN s.txns \subseteq Controls
    /\ \A t \in s.tickets : t.key \in Keys
    /\ s.retained \in Nat

\* Measures and producers are those of open panes.
PanesOpen(s) ==
    /\ \A p \in s.metrics : s.pane[p] = "open"
    /\ \A c \in s.producers : s.pane_of[c] \in Panes /\ s.pane[s.pane_of[c]] = "open"

\* What a node shows exists, in the open pane of its producer, and what outlives
\* its producer is a poster.
KeyOf(s, n) == <<n[1], s.nodes[n].source>>
Poster(s, n) ==
    /\ s.nodes[n].retained
    /\ s.sources[KeyOf(s, n)].kind = "static" /\ s.sources[KeyOf(s, n)].bytes = 1
SceneHolds(s) ==
    \A n \in DOMAIN s.nodes :
        /\ KeyOf(s, n) \in DOMAIN s.sources
        /\ s.nodes[n].pane = s.pane_of[n[1]]
        /\ s.pane[s.nodes[n].pane] = "open"
        /\ n[1] \notin s.producers => Poster(s, n)

\* The quota counts what is kept.
SumHolds(s) ==
    /\ s.retained = RetainedOf(s, DOMAIN s.sources)
    /\ s.retained <= RetainLimit

\* A producer that is gone has recorded nothing but deletions.
RecordedHolds(s) ==
    \A c \in DOMAIN s.txns : c \notin s.producers =>
        \A i \in 1 .. Len(s.txns[c]) : s.txns[c][i].op = "delete"

TablesHold(s) ==
    TablesTyped(s) /\ PanesOpen(s) /\ SceneHolds(s) /\ SumHolds(s) /\ RecordedHolds(s)

\* The threads have their types.
ThreadsTyped ==
    /\ controls \in [Controls -> ControlThreads]
    /\ channel \in [Channels -> ChannelThreads]

\* How far each thread is agrees with the tables.
ThreadsAgree ==
    /\ \A c \in Controls :
        /\ controls[c].at \in {"mark", "admit"} => controls[c].pane \in Panes
        /\ controls[c].at \in {"hello", "mark", "admit"} => c \notin state.producers
        /\ controls[c].at # "done" /\ c \notin state.producers
            => \A n \in DOMAIN state.nodes : n[1] # c
    /\ \A m \in Channels :
        channel[m].at \in {"attach", "mark"} => channel[m].pane \in Panes

\* A connection that is known to be a closed pane's is cancelled.
OwnersCancelled ==
    /\ \A c \in Controls :
        controls[c].owner # Absent /\ state.pane[controls[c].owner] = "closed"
        => controls[c].cancelled
    /\ \A m \in Channels :
        channel[m].owner # Absent /\ state.pane[channel[m].owner] = "closed"
        => channel[m].cancelled

ObjectsInv ==
    TablesHold(state) /\ ThreadsTyped /\ ThreadsAgree /\ OwnersCancelled

----------------------------------------------------------------------------
(* What the sources keep. *)

\* Counting the bodies of finitely many sources gives a number, and the bodies that
\* are taken away are no longer counted (prune_orphaned_sources, remove_source).
LEMMA BodiesWithout ==
    ASSUME NEW s, NEW t, NEW G, IsFiniteSet(DOMAIN s.sources),
           G \subseteq DOMAIN s.sources, t.sources = Without(s.sources, G)
    PROVE  /\ RetainedOf(s, DOMAIN s.sources) \in Nat
           /\ RetainedOf(s, G) \in Nat
           /\ RetainedOf(s, G) <= RetainedOf(s, DOMAIN s.sources)
           /\ RetainedOf(t, DOMAIN t.sources)
                = RetainedOf(s, DOMAIN s.sources) - RetainedOf(s, G)
           /\ IsFiniteSet(DOMAIN t.sources)
<1>. DEFINE B(K) == {k \in K : s.sources[k].bytes = 1}
            R == {k \in DOMAIN t.sources : t.sources[k].bytes = 1}
<1>1. DOMAIN t.sources = DOMAIN s.sources \ G
  BY DEF Without
<1>2. \A k \in DOMAIN t.sources : t.sources[k] = s.sources[k]
  BY DEF Without
<1>3. R = B(DOMAIN s.sources) \ B(G)
  BY <1>1, <1>2
<1>4. B(G) \subseteq B(DOMAIN s.sources) /\ B(DOMAIN s.sources) \subseteq DOMAIN s.sources
  OBVIOUS
<1>. HIDE DEF B, R
<1>5. IsFiniteSet(B(DOMAIN s.sources)) /\ IsFiniteSet(B(G))
  BY <1>4, FS_Subset
<1>6. /\ Cardinality(B(DOMAIN s.sources)) \in Nat /\ Cardinality(B(G)) \in Nat
      /\ Cardinality(B(G)) <= Cardinality(B(DOMAIN s.sources))
  BY <1>4, <1>5, FS_Subset, FS_CardinalityType
<1>7. Cardinality(R) = Cardinality(B(DOMAIN s.sources)) - Cardinality(B(G))
  <2>1. B(DOMAIN s.sources) \cap B(G) = B(G)
    BY <1>4
  <2>2. /\ IsFiniteSet(B(DOMAIN s.sources) \ B(G))
        /\ Cardinality(B(DOMAIN s.sources) \ B(G))
             = Cardinality(B(DOMAIN s.sources)) - Cardinality(B(DOMAIN s.sources) \cap B(G))
    BY <1>5, FS_Difference
  <2>. QED BY <1>3, <2>1, <2>2
<1>8. IsFiniteSet(DOMAIN t.sources)
  BY <1>1, FS_Difference
<1>. QED BY <1>6, <1>7, <1>8 DEF RetainedOf, B, R

\* Sources that keep what they kept are counted the same.
LEMMA BodiesSame ==
    ASSUME NEW s, NEW t, DOMAIN t.sources = DOMAIN s.sources,
           \A k \in DOMAIN s.sources : t.sources[k].bytes = s.sources[k].bytes
    PROVE  RetainedOf(t, DOMAIN t.sources) = RetainedOf(s, DOMAIN s.sources)
<1>1. {k \in DOMAIN t.sources : t.sources[k].bytes = 1}
        = {k \in DOMAIN s.sources : s.sources[k].bytes = 1}
  OBVIOUS
<1>. QED BY <1>1 DEF RetainedOf

\* A source that is created keeps nothing yet.
LEMMA BodiesCreated ==
    ASSUME NEW s, NEW t, NEW k, IsFiniteSet(DOMAIN s.sources), k \notin DOMAIN s.sources,
           DOMAIN t.sources = DOMAIN s.sources \cup {k}, t.sources[k].bytes = 0,
           \A j \in DOMAIN s.sources : t.sources[j] = s.sources[j]
    PROVE  /\ RetainedOf(t, DOMAIN t.sources) = RetainedOf(s, DOMAIN s.sources)
           /\ IsFiniteSet(DOMAIN t.sources)
<1>1. {j \in DOMAIN t.sources : t.sources[j].bytes = 1}
        = {j \in DOMAIN s.sources : s.sources[j].bytes = 1}
  OBVIOUS
<1>2. IsFiniteSet(DOMAIN t.sources)
  BY FS_AddElement
<1>. QED BY <1>1, <1>2 DEF RetainedOf

\* A body that is ingested is counted, and the one it replaces no longer is.
LEMMA BodiesIngested ==
    ASSUME NEW s, NEW t, NEW k \in DOMAIN s.sources, IsFiniteSet(DOMAIN s.sources),
           DOMAIN t.sources = DOMAIN s.sources, s.sources[k].bytes \in {0, 1},
           t.sources[k].bytes = 1,
           \A j \in DOMAIN s.sources \ {k} : t.sources[j] = s.sources[j]
    PROVE  /\ RetainedOf(s, DOMAIN s.sources) \in Nat
           /\ RetainedOf(t, DOMAIN t.sources)
                = RetainedOf(s, DOMAIN s.sources) + 1 - s.sources[k].bytes
<1>. DEFINE B == {j \in DOMAIN s.sources : s.sources[j].bytes = 1}
            R == {j \in DOMAIN t.sources : t.sources[j].bytes = 1}
<1>1. R = B \cup {k} /\ (k \in B <=> s.sources[k].bytes = 1) /\ B \subseteq DOMAIN s.sources
  OBVIOUS
<1>. HIDE DEF B, R
<1>2. IsFiniteSet(B) /\ Cardinality(B) \in Nat
  BY <1>1, FS_Subset, FS_CardinalityType
<1>3. Cardinality(R) = IF k \in B THEN Cardinality(B) ELSE Cardinality(B) + 1
  BY <1>1, <1>2, FS_AddElement
<1>4. Cardinality(R) = Cardinality(B) + 1 - s.sources[k].bytes
  <2>1. CASE s.sources[k].bytes = 1
    BY <1>1, <1>2, <1>3, <2>1
  <2>2. CASE s.sources[k].bytes = 0
    BY <1>1, <1>2, <1>3, <2>2
  <2>. QED BY <2>1, <2>2
<1>. QED BY <1>2, <1>4 DEF RetainedOf, B, R
----------------------------------------------------------------------------
(* The operations on the tables. *)

\* Tables that differ only in the sources and their quota, where every source that is
\* left is as it was and every source that is shown is left.
OnlyPruned(s, t) ==
    /\ TablesTyped(t)
    /\ /\ t.pane = s.pane /\ t.metrics = s.metrics /\ t.producers = s.producers
       /\ t.pane_of = s.pane_of /\ t.anchored = s.anchored /\ t.seen = s.seen
       /\ t.nodes = s.nodes /\ t.txns = s.txns /\ t.tickets = s.tickets
       /\ t.waits = s.waits
    /\ DOMAIN t.sources \subseteq DOMAIN s.sources
    /\ \A k \in DOMAIN t.sources : t.sources[k] = s.sources[k]
    /\ \A n \in DOMAIN s.nodes :
        KeyOf(s, n) \in DOMAIN s.sources => KeyOf(s, n) \in DOMAIN t.sources

\* Pruning (prune_orphaned_sources) takes away sources that nothing shows, and what
\* they kept from the quota.
LEMMA PruneKeeps ==
    ASSUME NEW s, TablesTyped(s), SumHolds(s)
    PROVE  OnlyPruned(s, prune_orphaned_sources(s)) /\ SumHolds(prune_orphaned_sources(s))
<1>. DEFINE G == {k \in DOMAIN s.sources : k[1] \notin s.producers /\ k \notin Referenced(s)}
            t == prune_orphaned_sources(s)
            f == Without(s.sources, G)
            x == s.retained - RetainedOf(s, G)
<1>1. t = [s EXCEPT !.sources = f, !.retained = x]
  BY DEF prune_orphaned_sources
<1>2. /\ Shaped(t) /\ t.sources = f /\ t.retained = x
      /\ t.pane = s.pane /\ t.metrics = s.metrics /\ t.producers = s.producers
      /\ t.pane_of = s.pane_of /\ t.anchored = s.anchored /\ t.seen = s.seen
      /\ t.nodes = s.nodes /\ t.txns = s.txns /\ t.tickets = s.tickets
      /\ t.waits = s.waits
  <2>. HIDE DEF f, x, t
  <2>. QED BY <1>1 DEF TablesTyped, Shaped, Fields
<1>3. DOMAIN f = DOMAIN s.sources \ G /\ \A k \in DOMAIN f : f[k] = s.sources[k]
  BY DEF Without
<1>4. f \in [DOMAIN f -> SourceEntries] /\ DOMAIN f \subseteq Keys
  BY DEF TablesTyped, Without
<1>5. \A n \in DOMAIN s.nodes : KeyOf(s, n) \notin G
  BY DEF KeyOf, Referenced
<1>6. G \subseteq DOMAIN s.sources
  OBVIOUS
<1>. HIDE DEF t, f, G
<1>7. /\ RetainedOf(s, DOMAIN s.sources) \in Nat /\ RetainedOf(s, G) \in Nat
      /\ RetainedOf(s, G) <= RetainedOf(s, DOMAIN s.sources)
      /\ RetainedOf(t, DOMAIN t.sources) = RetainedOf(s, DOMAIN s.sources) - RetainedOf(s, G)
      /\ IsFiniteSet(DOMAIN t.sources)
  <2>1. t.sources = Without(s.sources, G) /\ IsFiniteSet(DOMAIN s.sources)
    BY <1>2 DEF f, TablesTyped
  <2>. QED BY ONLY <1>6, <2>1, BodiesWithout, Zenon
<1>8. x \in Nat /\ x <= s.retained /\ x = RetainedOf(t, DOMAIN t.sources)
  BY <1>7 DEF SumHolds, TablesTyped
<1>. HIDE DEF x
<1>9. SumHolds(t)
  BY <1>2, <1>8, ObjectsAssumption DEF SumHolds, TablesTyped
<1>10. TablesTyped(t)
  BY <1>2, <1>4, <1>7, <1>8 DEF TablesTyped
<1>11. OnlyPruned(s, t)
  BY <1>2, <1>3, <1>5, <1>10 DEF OnlyPruned
<1>. QED BY <1>9, <1>11 DEF t

\* What holds of tables holds after pruning them.
LEMMA PrunedHold ==
    ASSUME NEW s, TablesHold(s)
    PROVE  TablesHold(prune_orphaned_sources(s))
<1>. DEFINE t == prune_orphaned_sources(s)
<1>1. OnlyPruned(s, t) /\ SumHolds(t)
  BY PruneKeeps DEF TablesHold
<1>. HIDE DEF t
<1>2. TablesTyped(t) /\ PanesOpen(t) /\ RecordedHolds(t)
  BY <1>1 DEF OnlyPruned, TablesHold, PanesOpen, RecordedHolds
<1>3. SceneHolds(t)
  <2>. SUFFICES ASSUME NEW n \in DOMAIN t.nodes
                PROVE  /\ KeyOf(t, n) \in DOMAIN t.sources
                       /\ t.nodes[n].pane = t.pane_of[n[1]]
                       /\ t.pane[t.nodes[n].pane] = "open"
                       /\ n[1] \notin t.producers => Poster(t, n)
    BY DEF SceneHolds
  <2>1. n \in DOMAIN s.nodes /\ KeyOf(t, n) = KeyOf(s, n)
    BY <1>1 DEF OnlyPruned, KeyOf
  <2>2. KeyOf(s, n) \in DOMAIN t.sources
    BY <1>1, <2>1 DEF OnlyPruned, TablesHold, SceneHolds
  <2>3. t.sources[KeyOf(s, n)] = s.sources[KeyOf(s, n)]
    BY <1>1, <2>2 DEF OnlyPruned
  <2>. QED BY <1>1, <2>1, <2>2, <2>3 DEF OnlyPruned, TablesHold, SceneHolds, Poster
<1>. QED BY <1>1, <1>2, <1>3 DEF TablesHold, t

\* What is left once the producers C are cleaned up: the nodes of others as they were,
\* of their own only posters, and nothing else of theirs but what those show.
CleanedUp(s, C, preserve, t) ==
    /\ TablesTyped(t)
    /\ t.pane = s.pane /\ t.metrics = s.metrics /\ t.pane_of = s.pane_of
    /\ t.producers = s.producers \ C
    /\ DOMAIN t.txns = DOMAIN s.txns \ C
    /\ \A c \in DOMAIN t.txns : t.txns[c] = s.txns[c]
    /\ DOMAIN t.nodes \subseteq DOMAIN s.nodes
    /\ \A n \in DOMAIN t.nodes :
        /\ KeyOf(t, n) = KeyOf(s, n) /\ t.nodes[n].pane = s.nodes[n].pane
        /\ n[1] \notin C => t.nodes[n] = s.nodes[n]
        /\ n[1] \in C => preserve /\ Poster(t, n)
        /\ KeyOf(s, n) \in DOMAIN s.sources =>
            /\ KeyOf(s, n) \in DOMAIN t.sources
            /\ t.sources[KeyOf(s, n)] = s.sources[KeyOf(s, n)]

\* cleanup_producer, of one producer or of all those of a pane.
LEMMA CleanupKeeps ==
    ASSUME NEW s, NEW C, NEW preserve \in BOOLEAN, TablesTyped(s), SumHolds(s)
    PROVE  /\ CleanedUp(s, C, preserve, cleanup_producers(s, C, preserve))
           /\ SumHolds(cleanup_producers(s, C, preserve))
<1>. DEFINE kept(n) == /\ preserve
                       /\ s.nodes[n].anchor /\ n[1] \in s.anchored
                       /\ <<n[1], s.nodes[n].source>> \in DOMAIN s.sources
                       /\ LET src == s.sources[<<n[1], s.nodes[n].source>>]
                          IN src.kind = "static" /\ src.bytes = 1 /\ ~src.deny
            own == {n \in DOMAIN s.nodes : n[1] \in C}
            nodes == [n \in DOMAIN s.nodes |->
                        IF n \in own THEN [s.nodes[n] EXCEPT !.retained = kept(n)]
                        ELSE s.nodes[n]]
            g == Without(nodes, {n \in own : ~kept(n)})
            txns == Without(s.txns, C)
            tickets == {u \in s.tickets : u.key[1] \notin C}
            waits == {w \in s.waits : w.c \notin C}
            r == [s EXCEPT !.producers = @ \ C, !.anchored = @ \ C, !.txns = txns,
                           !.tickets = tickets, !.waits = waits, !.nodes = g]
            t == prune_orphaned_sources(r)
<1>1. t = cleanup_producers(s, C, preserve)
  BY DEF cleanup_producers
<1>2. /\ Shaped(r) /\ r.nodes = g /\ r.txns = txns /\ r.tickets = tickets
      /\ r.producers = s.producers \ C /\ r.anchored = s.anchored \ C
      /\ r.pane = s.pane /\ r.metrics = s.metrics /\ r.pane_of = s.pane_of
      /\ r.seen = s.seen /\ r.sources = s.sources /\ r.retained = s.retained
  <2>1. Shaped(s)
    BY DEF TablesTyped
  <2>. HIDE DEF g, txns, tickets, waits
  <2>2. /\ r.nodes = g /\ r.txns = txns /\ r.tickets = tickets
        /\ r.producers = s.producers \ C /\ r.anchored = s.anchored \ C
        /\ r.pane = s.pane /\ r.metrics = s.metrics /\ r.pane_of = s.pane_of
        /\ r.seen = s.seen /\ r.sources = s.sources /\ r.retained = s.retained
    BY ONLY <2>1 DEF Shaped, Fields
  <2>3. Shaped(r)
    BY ONLY <2>1 DEF Shaped
  <2>. QED BY ONLY <2>2, <2>3
<1>3. /\ DOMAIN g \subseteq DOMAIN s.nodes
      /\ \A n \in DOMAIN g : ~(n \in own /\ ~kept(n)) /\ g[n] = nodes[n]
  BY DEF Without
<1>4. \A n \in DOMAIN s.nodes :
        /\ nodes[n] \in NodeEntries
        /\ nodes[n].pane = s.nodes[n].pane /\ nodes[n].source = s.nodes[n].source
        /\ n[1] \notin C => nodes[n] = s.nodes[n]
        /\ n[1] \in C => nodes[n].retained = kept(n)
  <2>. TAKE n \in DOMAIN s.nodes
  <2>1. s.nodes[n] \in NodeEntries
    BY DEF TablesTyped
  <2>2. kept(n) \in BOOLEAN
    OBVIOUS
  <2>3. nodes[n] = IF n[1] \in C THEN [s.nodes[n] EXCEPT !.retained = kept(n)] ELSE s.nodes[n]
    OBVIOUS
  <2>. HIDE DEF kept, nodes
  <2>. QED BY <2>1, <2>2, <2>3 DEF NodeEntries
<1>5. DOMAIN txns = DOMAIN s.txns \ C /\ \A c \in DOMAIN txns : txns[c] = s.txns[c]
  BY DEF Without
<1>. HIDE DEF r
<1>6. TablesTyped(r)
  <2>1. g \in [DOMAIN g -> NodeEntries] /\ DOMAIN g \subseteq Controls \X NodeIds
    <3>1. g = [n \in DOMAIN g |-> g[n]]
      BY DEF Without
    <3>. HIDE DEF g, nodes
    <3>. QED BY <1>3, <1>4, <3>1 DEF TablesTyped
  <2>2. txns \in [DOMAIN txns -> Seq(Mutations)] /\ DOMAIN txns \subseteq Controls
    BY DEF TablesTyped, Without
  <2>3. \A u \in tickets : u.key \in Keys
    BY DEF TablesTyped
  <2>. HIDE DEF g, txns, tickets
  <2>. QED BY <1>2, <2>1, <2>2, <2>3 DEF TablesTyped
<1>7. SumHolds(r)
  BY <1>2 DEF SumHolds, RetainedOf
<1>8. OnlyPruned(r, t) /\ SumHolds(t)
  BY <1>6, <1>7, PruneKeeps
<1>. HIDE DEF t
<1>9. \A n \in DOMAIN g :
        /\ KeyOf(t, n) = KeyOf(s, n) /\ t.nodes[n].pane = s.nodes[n].pane
        /\ n[1] \notin C => t.nodes[n] = s.nodes[n]
        /\ n[1] \in C => preserve /\ Poster(t, n)
        /\ KeyOf(s, n) \in DOMAIN s.sources =>
            /\ KeyOf(s, n) \in DOMAIN t.sources
            /\ t.sources[KeyOf(s, n)] = s.sources[KeyOf(s, n)]
  <2>. TAKE n \in DOMAIN g
  <2>1. /\ n \in DOMAIN s.nodes /\ t.nodes[n] = nodes[n] /\ r.nodes[n] = nodes[n]
        /\ n \in own => kept(n)
        /\ n \in DOMAIN r.nodes
    <3>. HIDE DEF kept, own, nodes, g
    <3>. QED BY <1>2, <1>3, <1>8 DEF OnlyPruned
  <2>2. KeyOf(t, n) = KeyOf(s, n) /\ KeyOf(r, n) = KeyOf(s, n)
    <3>. HIDE DEF nodes
    <3>. QED BY <1>4, <2>1 DEF KeyOf
  <2>3. KeyOf(s, n) \in DOMAIN s.sources =>
            /\ KeyOf(s, n) \in DOMAIN t.sources
            /\ t.sources[KeyOf(s, n)] = s.sources[KeyOf(s, n)]
    <3>. HIDE DEF nodes
    <3>. QED BY <1>2, <1>8, <2>1, <2>2 DEF OnlyPruned
  <2>4. n[1] \in C => preserve /\ Poster(t, n)
    <3>. HAVE n[1] \in C
    <3>1. n \in own
      BY <2>1
    <3>2. kept(n)
      BY <2>1, <3>1
    <3>3. KeyOf(s, n) \in DOMAIN s.sources
      BY <3>2 DEF KeyOf
    <3>4. s.sources[KeyOf(s, n)].kind = "static" /\ s.sources[KeyOf(s, n)].bytes = 1
      BY <3>2 DEF KeyOf
    <3>5. t.nodes[n].retained
      <4>. HIDE DEF kept, nodes
      <4>. QED BY <1>4, <2>1, <3>2
    <3>6. preserve
      BY <3>2
    <3>. HIDE DEF kept, nodes, own
    <3>. QED BY <2>2, <2>3, <3>3, <3>4, <3>5, <3>6 DEF Poster
  <2>5. t.nodes[n].pane = s.nodes[n].pane /\ (n[1] \notin C => t.nodes[n] = s.nodes[n])
    <3>. HIDE DEF nodes
    <3>. QED BY <1>4, <2>1
  <2>. QED BY <2>2, <2>3, <2>4, <2>5
<1>. HIDE DEF g, txns, tickets, waits
<1>10. CleanedUp(s, C, preserve, t)
  BY <1>2, <1>3, <1>5, <1>8, <1>9 DEF CleanedUp, OnlyPruned
<1>. QED BY <1>1, <1>8, <1>10
\* A connection that ends (CloseControl) leaves tables that hold.
LEMMA ClosedHold ==
    ASSUME NEW s, NEW c \in Controls, TablesHold(s)
    PROVE  LET t == cleanup_producer(s, c, TRUE)
           IN /\ TablesHold(t)
              /\ t.pane = s.pane /\ t.producers = s.producers \ {c}
              /\ DOMAIN t.nodes \subseteq DOMAIN s.nodes
<1>. DEFINE t == cleanup_producers(s, {c}, TRUE)
<1>1. CASE c \notin s.producers
  BY <1>1 DEF cleanup_producer
<1>2. CASE c \in s.producers
  <2>1. CleanedUp(s, {c}, TRUE, t) /\ SumHolds(t)
    BY CleanupKeeps DEF TablesHold
  <2>2. cleanup_producer(s, c, TRUE) = t
    BY <1>2 DEF cleanup_producer
  <2>. HIDE DEF t
  <2>3. PanesOpen(t)
    BY <2>1 DEF CleanedUp, TablesHold, PanesOpen
  <2>4. RecordedHolds(t)
    BY <2>1 DEF CleanedUp, TablesHold, RecordedHolds
  <2>5. SceneHolds(t)
    <3>. SUFFICES ASSUME NEW n \in DOMAIN t.nodes
                  PROVE  /\ KeyOf(t, n) \in DOMAIN t.sources
                         /\ t.nodes[n].pane = t.pane_of[n[1]]
                         /\ t.pane[t.nodes[n].pane] = "open"
                         /\ n[1] \notin t.producers => Poster(t, n)
      BY DEF SceneHolds
    <3>1. n \in DOMAIN s.nodes /\ KeyOf(t, n) = KeyOf(s, n)
          /\ t.nodes[n].pane = s.nodes[n].pane
      BY <2>1 DEF CleanedUp
    <3>2. /\ KeyOf(s, n) \in DOMAIN s.sources
          /\ s.nodes[n].pane = s.pane_of[n[1]] /\ s.pane[s.nodes[n].pane] = "open"
          /\ n[1] \notin s.producers => Poster(s, n)
      BY <3>1 DEF TablesHold, SceneHolds
    <3>3. KeyOf(s, n) \in DOMAIN t.sources /\ t.sources[KeyOf(s, n)] = s.sources[KeyOf(s, n)]
      BY <2>1, <3>2 DEF CleanedUp
    <3>4. n[1] \notin t.producers => Poster(t, n)
      <4>1. CASE n[1] = c
        BY <2>1, <4>1 DEF CleanedUp
      <4>2. CASE n[1] # c
        <5>1. t.nodes[n] = s.nodes[n]
          BY <2>1, <4>2 DEF CleanedUp
        <5>2. n[1] \notin t.producers => n[1] \notin s.producers
          BY <2>1, <4>2 DEF CleanedUp
        <5>. QED BY <3>1, <3>2, <3>3, <5>1, <5>2 DEF Poster
      <4>. QED BY <4>1, <4>2
    <3>. QED BY <2>1, <3>1, <3>2, <3>3, <3>4 DEF CleanedUp
  <2>. QED BY <2>1, <2>2, <2>3, <2>4, <2>5 DEF TablesHold, CleanedUp
<1>. QED BY <1>1, <1>2

NodesGone(s, N, t) == t = [s EXCEPT !.nodes = Without(s.nodes, N)]

\* Nodes that are taken away: the tables that are left hold, as far as they did.
LEMMA NodesWithout ==
    ASSUME NEW s, NEW N, NEW t, TablesTyped(s), NodesGone(s, N, t)
    PROVE  /\ TablesTyped(t)
           /\ t.pane = s.pane /\ t.metrics = s.metrics /\ t.producers = s.producers
           /\ t.pane_of = s.pane_of /\ t.sources = s.sources /\ t.txns = s.txns
           /\ t.retained = s.retained
           /\ DOMAIN t.nodes = DOMAIN s.nodes \ N
           /\ \A n \in DOMAIN t.nodes : t.nodes[n] = s.nodes[n]
<1>. DEFINE g == Without(s.nodes, N)
<1>0. Shaped(s) /\ t = [s EXCEPT !.nodes = g]
  BY DEF TablesTyped, NodesGone
<1>1. /\ DOMAIN g = DOMAIN s.nodes \ N
      /\ \A n \in DOMAIN g : g[n] = s.nodes[n]
      /\ g \in [DOMAIN g -> NodeEntries]
  BY DEF Without, TablesTyped
<1>. HIDE DEF g
<1>2. /\ Shaped(t) /\ t.nodes = g
      /\ t.pane = s.pane /\ t.metrics = s.metrics /\ t.producers = s.producers
      /\ t.pane_of = s.pane_of /\ t.anchored = s.anchored /\ t.seen = s.seen
      /\ t.sources = s.sources /\ t.txns = s.txns /\ t.tickets = s.tickets
      /\ t.retained = s.retained
  BY ONLY <1>0 DEF Shaped, Fields
<1>3. TablesTyped(t)
  BY <1>1, <1>2 DEF TablesTyped
<1>. QED BY <1>1, <1>2, <1>3

\* A pane that is revoked (revoke_pane) leaves tables that hold, without a producer or
\* a node of that pane.
LEMMA RevokedHold ==
    ASSUME NEW s, NEW p \in Panes, TablesHold(s)
    PROVE  LET t == revoke_pane(s, p)
           IN /\ TablesHold(t)
              /\ t.pane = [s.pane EXCEPT ![p] = "closed"]
              /\ t.producers = {c \in s.producers : s.pane_of[c] # p}
              /\ \A n \in DOMAIN t.nodes : n \in DOMAIN s.nodes /\ s.pane_of[n[1]] # p
<1>. DEFINE C == {c \in s.producers : s.pane_of[c] = p}
            a == [s EXCEPT !.pane[p] = "closed"]
            b == cleanup_producers(a, C, FALSE)
            N == {n \in DOMAIN b.nodes : b.nodes[n].pane = p}
            d == [b EXCEPT !.nodes = Without(@, N)]
            e == prune_orphaned_sources(d)
            t == [e EXCEPT !.metrics = @ \ {p}]
<1>1. t = revoke_pane(s, p)
  BY DEF revoke_pane, Cleaned
<1>2. /\ TablesTyped(a) /\ SumHolds(a)
      /\ a.pane = [s.pane EXCEPT ![p] = "closed"] /\ a.metrics = s.metrics
      /\ a.producers = s.producers /\ a.pane_of = s.pane_of
      /\ a.sources = s.sources /\ a.nodes = s.nodes /\ a.txns = s.txns
  <2>1. /\ Shaped(a)
        /\ a.pane = [s.pane EXCEPT ![p] = "closed"] /\ a.metrics = s.metrics
        /\ a.producers = s.producers /\ a.pane_of = s.pane_of
        /\ a.anchored = s.anchored /\ a.seen = s.seen /\ a.tickets = s.tickets
        /\ a.sources = s.sources /\ a.nodes = s.nodes /\ a.txns = s.txns
        /\ a.retained = s.retained
    BY DEF TablesHold, TablesTyped, Shaped, Fields
  <2>. HIDE DEF a
  <2>2. TablesTyped(a)
    BY <2>1 DEF TablesHold, TablesTyped
  <2>3. SumHolds(a)
    BY <2>1 DEF TablesHold, SumHolds, RetainedOf
  <2>. QED BY <2>1, <2>2, <2>3
<1>. HIDE DEF a
<1>3. CleanedUp(a, C, FALSE, b) /\ SumHolds(b)
  BY <1>2, CleanupKeeps
<1>. HIDE DEF b, C
<1>4. /\ TablesTyped(d)
      /\ d.pane = b.pane /\ d.metrics = b.metrics /\ d.producers = b.producers
      /\ d.pane_of = b.pane_of /\ d.sources = b.sources /\ d.txns = b.txns
      /\ d.retained = b.retained
      /\ DOMAIN d.nodes = DOMAIN b.nodes \ N
      /\ \A n \in DOMAIN d.nodes : d.nodes[n] = b.nodes[n]
  <2>1. TablesTyped(b)
    BY <1>3 DEF CleanedUp
  <2>2. NodesGone(b, N, d)
    BY DEF NodesGone
  <2>. HIDE DEF N, d
  <2>. QED BY <2>1, <2>2, NodesWithout
<1>5. SumHolds(d)
  BY <1>3, <1>4 DEF SumHolds, RetainedOf
<1>6. N = {n \in DOMAIN b.nodes : b.nodes[n].pane = p}
  OBVIOUS
<1>. HIDE DEF d, N
<1>7. OnlyPruned(d, e) /\ SumHolds(e)
  BY <1>4, <1>5, PruneKeeps
<1>. HIDE DEF e
<1>8. /\ TablesTyped(t) /\ SumHolds(t)
      /\ t.pane = e.pane /\ t.metrics = e.metrics \ {p} /\ t.producers = e.producers
      /\ t.pane_of = e.pane_of /\ t.sources = e.sources /\ t.nodes = e.nodes
      /\ t.txns = e.txns
  <2>1. /\ Shaped(t)
        /\ t.pane = e.pane /\ t.metrics = e.metrics \ {p} /\ t.producers = e.producers
        /\ t.pane_of = e.pane_of /\ t.anchored = e.anchored /\ t.seen = e.seen
        /\ t.sources = e.sources /\ t.nodes = e.nodes /\ t.txns = e.txns
        /\ t.tickets = e.tickets /\ t.retained = e.retained
    <3>1. Shaped(e)
      BY <1>7 DEF OnlyPruned, TablesTyped
    <3>. QED BY ONLY <3>1 DEF Shaped, Fields, t
  <2>. HIDE DEF t
  <2>2. TablesTyped(t)
    BY <1>7, <2>1 DEF OnlyPruned, TablesTyped
  <2>3. SumHolds(t)
    BY <1>7, <2>1 DEF SumHolds, RetainedOf
  <2>. QED BY <2>1, <2>2, <2>3
<1>. HIDE DEF t
<1>9. /\ t.pane = [s.pane EXCEPT ![p] = "closed"]
      /\ t.metrics = s.metrics \ {p} /\ t.producers = s.producers \ C
      /\ t.pane_of = s.pane_of
      /\ DOMAIN t.txns = DOMAIN s.txns \ C
      /\ \A c \in DOMAIN t.txns : t.txns[c] = s.txns[c]
  BY <1>2, <1>3, <1>4, <1>7, <1>8 DEF CleanedUp, OnlyPruned
<1>10. C = {c \in s.producers : s.pane_of[c] = p}
  BY DEF C
<1>11. \A n \in DOMAIN t.nodes :
        /\ n \in DOMAIN s.nodes /\ n[1] \notin C
        /\ t.nodes[n] = s.nodes[n] /\ s.nodes[n].pane # p /\ KeyOf(t, n) = KeyOf(s, n)
        /\ KeyOf(s, n) \in DOMAIN t.sources
        /\ t.sources[KeyOf(s, n)] = s.sources[KeyOf(s, n)]
  <2>. TAKE n \in DOMAIN t.nodes
  <2>1. n \in DOMAIN d.nodes /\ t.nodes[n] = d.nodes[n]
    BY <1>7, <1>8 DEF OnlyPruned
  <2>2. n \in DOMAIN b.nodes /\ d.nodes[n] = b.nodes[n] /\ b.nodes[n].pane # p
    BY <1>4, <1>6, <2>1
  <2>3. /\ n \in DOMAIN s.nodes /\ n[1] \notin C /\ b.nodes[n] = s.nodes[n]
        /\ KeyOf(b, n) = KeyOf(a, n) /\ KeyOf(a, n) = KeyOf(s, n)
    BY <1>2, <1>3, <2>2 DEF CleanedUp, KeyOf
  <2>4. KeyOf(s, n) \in DOMAIN s.sources
    BY <2>3 DEF TablesHold, SceneHolds
  <2>5. KeyOf(s, n) \in DOMAIN b.sources /\ b.sources[KeyOf(s, n)] = s.sources[KeyOf(s, n)]
    BY <1>2, <1>3, <2>2, <2>3, <2>4 DEF CleanedUp
  <2>6. KeyOf(d, n) = KeyOf(s, n) /\ KeyOf(t, n) = KeyOf(s, n)
    BY <2>1, <2>2, <2>3 DEF KeyOf
  <2>7. KeyOf(s, n) \in DOMAIN e.sources /\ e.sources[KeyOf(s, n)] = s.sources[KeyOf(s, n)]
    BY <1>4, <1>7, <2>1, <2>5, <2>6 DEF OnlyPruned
  <2>. QED BY <1>8, <2>1, <2>2, <2>3, <2>6, <2>7
<1>12. \A q \in Panes : q # p => t.pane[q] = s.pane[q]
  BY <1>9 DEF TablesHold, TablesTyped
<1>13. PanesOpen(t)
  <2>1. \A c \in t.producers : s.pane_of[c] \in Panes \ {p} /\ s.pane[s.pane_of[c]] = "open"
    BY <1>9, <1>10 DEF TablesHold, PanesOpen
  <2>2. \A q \in t.metrics : q \in Panes \ {p} /\ s.pane[q] = "open"
    BY <1>9 DEF TablesHold, TablesTyped, PanesOpen
  <2>. QED BY <1>9, <1>12, <2>1, <2>2 DEF PanesOpen
<1>14. RecordedHolds(t)
  BY <1>9 DEF TablesHold, RecordedHolds
<1>15. SceneHolds(t)
  <2>. SUFFICES ASSUME NEW n \in DOMAIN t.nodes
                PROVE  /\ KeyOf(t, n) \in DOMAIN t.sources
                       /\ t.nodes[n].pane = t.pane_of[n[1]]
                       /\ t.pane[t.nodes[n].pane] = "open"
                       /\ n[1] \notin t.producers => Poster(t, n)
    BY DEF SceneHolds
  <2>1. /\ s.nodes[n].pane = s.pane_of[n[1]] /\ s.pane[s.nodes[n].pane] = "open"
        /\ n[1] \notin s.producers => Poster(s, n)
        /\ s.nodes[n].pane \in Panes
    BY <1>11 DEF TablesHold, SceneHolds, TablesTyped, NodeEntries
  <2>2. n[1] \notin t.producers => Poster(t, n)
    BY <1>9, <1>11, <2>1 DEF Poster
  <2>. QED BY <1>9, <1>11, <1>12, <2>1, <2>2
<1>16. \A n \in DOMAIN t.nodes : n \in DOMAIN s.nodes /\ s.pane_of[n[1]] # p
  BY <1>11 DEF TablesHold, SceneHolds
<1>17. t.producers = {c \in s.producers : s.pane_of[c] # p}
  BY <1>9, <1>10
<1>. QED BY <1>1, <1>8, <1>9, <1>13, <1>14, <1>15, <1>16, <1>17 DEF TablesHold
\* Tables of which only the sources, tickets, waits and anchors have changed.
SceneSame(s, t) ==
    /\ t.pane = s.pane /\ t.metrics = s.metrics /\ t.producers = s.producers
    /\ t.pane_of = s.pane_of /\ t.nodes = s.nodes /\ t.txns = s.txns

\* Sources that are created, attached, closed, tightened or filled leave the scene
\* closed.
LEMMA SourcesReplaced ==
    ASSUME NEW s, NEW t, TablesHold(s), TablesTyped(t), SumHolds(t), SceneSame(s, t),
           \A k \in DOMAIN s.sources :
               /\ k \in DOMAIN t.sources
               /\ t.sources[k].kind = s.sources[k].kind
               /\ s.sources[k].bytes = 1 => t.sources[k].bytes = 1
    PROVE  TablesHold(t)
<1>1. PanesOpen(t) /\ RecordedHolds(t)
  BY DEF SceneSame, TablesHold, PanesOpen, RecordedHolds
<1>2. SceneHolds(t)
  <2>. SUFFICES ASSUME NEW n \in DOMAIN t.nodes
                PROVE  /\ KeyOf(t, n) \in DOMAIN t.sources
                       /\ t.nodes[n].pane = t.pane_of[n[1]]
                       /\ t.pane[t.nodes[n].pane] = "open"
                       /\ n[1] \notin t.producers => Poster(t, n)
    BY DEF SceneHolds
  <2>1. n \in DOMAIN s.nodes /\ KeyOf(t, n) = KeyOf(s, n) /\ t.nodes[n] = s.nodes[n]
    BY DEF SceneSame, KeyOf
  <2>2. /\ KeyOf(s, n) \in DOMAIN s.sources
        /\ s.nodes[n].pane = s.pane_of[n[1]] /\ s.pane[s.nodes[n].pane] = "open"
        /\ n[1] \notin s.producers => Poster(s, n)
    BY <2>1 DEF TablesHold, SceneHolds
  <2>. QED BY <2>1, <2>2 DEF SceneSame, Poster
<1>. QED BY <1>1, <1>2 DEF TablesHold

\* Answering waits (advance_source) touches nothing else.
LEMMA AdvancedHold ==
    ASSUME NEW s, NEW k, TablesHold(s)
    PROVE  TablesHold(advance_source(s, k)) /\ SceneSame(s, advance_source(s, k))
<1>. DEFINE t == advance_source(s, k)
<1>0. Shaped(s)
  BY DEF TablesHold, TablesTyped
<1>1. /\ Shaped(t) /\ SceneSame(s, t) /\ t.sources = s.sources /\ t.tickets = s.tickets
      /\ t.anchored = s.anchored /\ t.seen = s.seen /\ t.retained = s.retained
  <2>. DEFINE w == s.waits \ Satisfied(s, k)
  <2>1. t = [s EXCEPT !.waits = w]
    BY DEF advance_source
  <2>. HIDE DEF t, w
  <2>. QED BY ONLY <1>0, <2>1 DEF Shaped, Fields, SceneSame
<1>. HIDE DEF t
<1>2. TablesTyped(t)
  BY <1>1 DEF SceneSame, TablesHold, TablesTyped
<1>3. SumHolds(t)
  BY <1>1 DEF TablesHold, SumHolds, RetainedOf
<1>4. TablesHold(t)
  BY <1>1, <1>2, <1>3, SourcesReplaced
<1>. QED BY <1>1, <1>4 DEF t

\* The tables with the source k as it is described by e.
Described(s, k, e, t) ==
    t = [s EXCEPT !.sources = [s.sources EXCEPT ![k] = e]]

\* A source that is attached, closed or tightened (handle_media, SET_SOURCE_POLICY)
\* keeps what it keeps.
LEMMA DescribedHold ==
    ASSUME NEW s, NEW k \in DOMAIN s.sources, NEW e \in SourceEntries, NEW t,
           TablesHold(s), e.kind = s.sources[k].kind, e.bytes = s.sources[k].bytes,
           Described(s, k, e, t)
    PROVE  TablesHold(t) /\ SceneSame(s, t)
<1>. DEFINE f == [s.sources EXCEPT ![k] = e]
<1>1. Shaped(s) /\ t = [s EXCEPT !.sources = f]
  BY DEF TablesHold, TablesTyped, Described
<1>2. /\ DOMAIN f = DOMAIN s.sources /\ f[k] = e
      /\ \A j \in DOMAIN s.sources : j # k => f[j] = s.sources[j]
      /\ f \in [DOMAIN f -> SourceEntries]
  BY DEF TablesHold, TablesTyped
<1>. HIDE DEF f
<1>3. /\ Shaped(t) /\ SceneSame(s, t) /\ t.sources = f /\ t.tickets = s.tickets
      /\ t.anchored = s.anchored /\ t.seen = s.seen /\ t.retained = s.retained
  BY ONLY <1>1 DEF Shaped, Fields, SceneSame
<1>4. TablesTyped(t)
  BY <1>2, <1>3 DEF SceneSame, TablesHold, TablesTyped
<1>5. SumHolds(t)
  <2>1. \A j \in DOMAIN s.sources : t.sources[j].bytes = s.sources[j].bytes
    BY <1>2, <1>3
  <2>2. RetainedOf(t, DOMAIN t.sources) = RetainedOf(s, DOMAIN s.sources)
    BY <1>2, <1>3, <2>1, BodiesSame
  <2>. QED BY <1>3, <2>2 DEF TablesHold, SumHolds
<1>6. TablesHold(t)
  BY <1>2, <1>3, <1>4, <1>5, SourcesReplaced
<1>. QED BY <1>3, <1>6

\* A body is retained (ingest_record) within the quota.
LEMMA IngestedHold ==
    ASSUME NEW s, NEW k \in DOMAIN s.sources, TablesHold(s),
           s.retained + 1 - s.sources[k].bytes <= RetainLimit
    PROVE  LET t == [s EXCEPT !.sources[k].bytes = 1,
                              !.retained = @ + 1 - s.sources[k].bytes]
           IN TablesHold(t) /\ SceneSame(s, t)
<1>. DEFINE e == [s.sources[k] EXCEPT !.bytes = 1]
            f == [s.sources EXCEPT ![k] = e]
            x == s.retained + 1 - s.sources[k].bytes
            t == [s EXCEPT !.sources[k].bytes = 1,
                           !.retained = @ + 1 - s.sources[k].bytes]
<1>1. Shaped(s)
  BY DEF TablesHold, TablesTyped
<1>2. t = [s EXCEPT !.sources = f, !.retained = x]
  BY <1>1 DEF Shaped, Fields
<1>3. s.sources[k] \in SourceEntries
  BY DEF TablesHold, TablesTyped
<1>4. e \in SourceEntries /\ e.bytes = 1 /\ e.kind = s.sources[k].kind
  BY <1>3 DEF SourceEntries
<1>. HIDE DEF e
<1>5. /\ DOMAIN f = DOMAIN s.sources /\ f[k] = e
      /\ \A j \in DOMAIN s.sources : j # k => f[j] = s.sources[j]
      /\ f \in [DOMAIN f -> SourceEntries]
  BY <1>4 DEF TablesHold, TablesTyped
<1>6. x \in Nat /\ x <= RetainLimit
  <2>1. s.retained \in Nat /\ s.sources[k].bytes \in {0, 1}
    BY <1>3 DEF TablesHold, TablesTyped, SourceEntries
  <2>. QED BY <2>1
<1>. HIDE DEF f, x, t
<1>7. /\ Shaped(t) /\ SceneSame(s, t) /\ t.sources = f /\ t.retained = x
      /\ t.tickets = s.tickets /\ t.anchored = s.anchored /\ t.seen = s.seen
  BY ONLY <1>1, <1>2 DEF Shaped, Fields, SceneSame
<1>8. TablesTyped(t)
  BY <1>5, <1>6, <1>7 DEF SceneSame, TablesHold, TablesTyped
<1>9. SumHolds(t)
  <2>1. s.sources[k].bytes \in {0, 1} /\ IsFiniteSet(DOMAIN s.sources)
    BY <1>3 DEF SourceEntries, TablesHold, TablesTyped
  <2>2. RetainedOf(t, DOMAIN t.sources)
          = RetainedOf(s, DOMAIN s.sources) + 1 - s.sources[k].bytes
    BY <1>4, <1>5, <1>7, <2>1, BodiesIngested
  <2>3. x = RetainedOf(t, DOMAIN t.sources)
    BY <2>2 DEF x, TablesHold, SumHolds
  <2>. QED BY <1>6, <1>7, <2>3 DEF SumHolds
<1>10. TablesHold(t)
  <2>1. \A j \in DOMAIN s.sources :
            /\ j \in DOMAIN t.sources
            /\ t.sources[j].kind = s.sources[j].kind
            /\ s.sources[j].bytes = 1 => t.sources[j].bytes = 1
    BY <1>4, <1>5, <1>7
  <2>. QED BY <1>7, <1>8, <1>9, <2>1, SourcesReplaced
<1>. QED BY <1>7, <1>10 DEF t

\* A source that is destroyed (remove_source) takes what shows it along.
LEMMA RemovedHold ==
    ASSUME NEW s, NEW k \in DOMAIN s.sources, TablesHold(s)
    PROVE  LET t == remove_source(s, k)
           IN /\ TablesHold(t)
              /\ t.pane = s.pane /\ t.producers = s.producers
              /\ DOMAIN t.nodes \subseteq DOMAIN s.nodes
<1>. DEFINE t == remove_source(s, k)
            f == Without(s.sources, {k})
            x == s.retained - RetainedOf(s, {k})
            N == {n \in DOMAIN s.nodes : n[1] = k[1] /\ s.nodes[n].source = k[2]}
            g == Without(s.nodes, N)
<1>1. Shaped(s) /\ t = [s EXCEPT !.sources = f, !.retained = x, !.nodes = g]
  BY DEF TablesHold, TablesTyped, remove_source
<1>2. /\ DOMAIN f = DOMAIN s.sources \ {k} /\ \A j \in DOMAIN f : f[j] = s.sources[j]
      /\ f \in [DOMAIN f -> SourceEntries]
  BY DEF Without, TablesHold, TablesTyped
<1>3. /\ DOMAIN g = DOMAIN s.nodes \ N
      /\ \A n \in DOMAIN g : g[n] = s.nodes[n]
      /\ g \in [DOMAIN g -> NodeEntries]
  BY DEF Without, TablesHold, TablesTyped
<1>. HIDE DEF t, f, x, g
<1>4. /\ Shaped(t) /\ t.sources = f /\ t.retained = x /\ t.nodes = g
      /\ t.pane = s.pane /\ t.metrics = s.metrics /\ t.producers = s.producers
      /\ t.pane_of = s.pane_of /\ t.txns = s.txns
      /\ t.tickets = s.tickets /\ t.anchored = s.anchored /\ t.seen = s.seen
  BY ONLY <1>1 DEF Shaped, Fields
<1>5. /\ RetainedOf(s, DOMAIN s.sources) \in Nat /\ RetainedOf(s, {k}) \in Nat
      /\ RetainedOf(s, {k}) <= RetainedOf(s, DOMAIN s.sources)
      /\ RetainedOf(t, DOMAIN t.sources) = RetainedOf(s, DOMAIN s.sources) - RetainedOf(s, {k})
      /\ IsFiniteSet(DOMAIN t.sources)
  <2>1. /\ t.sources = Without(s.sources, {k}) /\ IsFiniteSet(DOMAIN s.sources)
        /\ {k} \subseteq DOMAIN s.sources
    BY <1>4 DEF f, TablesHold, TablesTyped
  <2>. QED BY <2>1, BodiesWithout
<1>6. x \in Nat /\ x <= s.retained /\ x = RetainedOf(t, DOMAIN t.sources)
  BY <1>5 DEF x, TablesHold, SumHolds, TablesTyped
<1>7. TablesTyped(t)
  BY <1>2, <1>3, <1>4, <1>5, <1>6 DEF TablesHold, TablesTyped
<1>8. SumHolds(t)
  BY <1>4, <1>6, ObjectsAssumption DEF TablesHold, SumHolds, TablesTyped
<1>9. PanesOpen(t) /\ RecordedHolds(t)
  BY <1>4 DEF TablesHold, PanesOpen, RecordedHolds
<1>10. SceneHolds(t)
  <2>. SUFFICES ASSUME NEW n \in DOMAIN t.nodes
                PROVE  /\ KeyOf(t, n) \in DOMAIN t.sources
                       /\ t.nodes[n].pane = t.pane_of[n[1]]
                       /\ t.pane[t.nodes[n].pane] = "open"
                       /\ n[1] \notin t.producers => Poster(t, n)
    BY DEF SceneHolds
  <2>1. /\ n \in DOMAIN s.nodes /\ n \notin N /\ t.nodes[n] = s.nodes[n]
        /\ KeyOf(t, n) = KeyOf(s, n)
    BY <1>3, <1>4 DEF KeyOf
  <2>2. /\ KeyOf(s, n) \in DOMAIN s.sources
        /\ s.nodes[n].pane = s.pane_of[n[1]] /\ s.pane[s.nodes[n].pane] = "open"
        /\ n[1] \notin s.producers => Poster(s, n)
    BY <2>1 DEF TablesHold, SceneHolds
  <2>3. KeyOf(s, n) # k
    BY <2>1 DEF KeyOf
  <2>. QED BY <1>2, <1>4, <2>1, <2>2, <2>3 DEF Poster
<1>. QED BY <1>3, <1>4, <1>7, <1>8, <1>9, <1>10 DEF TablesHold, t
----------------------------------------------------------------------------
(* Transactions. *)

\* One mutation of the copied nodes, or the refusal of the transaction.
Mutated(s, c, r, m) ==
    IF r.ok /\ Valid(s, r.nodes, c, m)
    THEN [ok |-> TRUE, nodes |-> Applied(s, r.nodes, c, m)]
    ELSE [ok |-> FALSE, nodes |-> s.nodes]

\* What apply_transaction's copy is after each of the first n mutations.
AfterOf(s, c, txn, after, n) ==
    after = [i \in 0 .. n |->
               IF i = 0 THEN [ok |-> TRUE, nodes |-> s.nodes]
               ELSE Mutated(s, c, after[i - 1], txn[i])]

\* EveryNumber that contain 0 and are closed under the next one are all of them.
LEMMA EveryNumber ==
    ASSUME NEW S \in SUBSET Nat, 0 \in S, \A n \in S : n + 1 \in S
    PROVE  S = Nat
<1>. DEFINE T == Nat \ S
<1>. SUFFICES ASSUME T # {} PROVE FALSE
  OBVIOUS
<1>1. \E x \in T : \A y \in T : ~(<<y, x>> \in OpToRel(<, Nat))
  BY NatLessThanWellFounded, WFMin, ZenonT(30)
<1>2. PICK x \in T : \A y \in T : ~(<<y, x>> \in OpToRel(<, Nat))
  BY <1>1, Zenon
<1>3. \A y \in T : ~(y < x)
  <2>. TAKE y \in T
  <2>1. <<y, x>> \notin OpToRel(<, Nat)
    BY <1>2, Zenon
  <2>. QED BY <2>1 DEF OpToRel
<1>4. x - 1 \in S
  BY <1>3
<1>. QED BY <1>4

\* The mutations of a transaction can be applied one after another.
LEMMA AfterExists ==
    ASSUME NEW s, NEW c, NEW txn, NEW n \in Nat
    PROVE  \E after : AfterOf(s, c, txn, after, n)
<1>. DEFINE N == {m \in Nat : \E after : AfterOf(s, c, txn, after, m)}
            first == [ok |-> TRUE, nodes |-> s.nodes]
<1>1. 0 \in N
  <2>. DEFINE a == [i \in 0 .. 0 |-> first]
  <2>1. AfterOf(s, c, txn, a, 0)
    <3>. HIDE DEF first
    <3>1. a = [i \in 0 .. 0 |-> IF i = 0 THEN first ELSE Mutated(s, c, a[i - 1], txn[i])]
      OBVIOUS
    <3>. QED BY <3>1 DEF AfterOf, first
  <2>. QED BY <2>1
<1>2. ASSUME NEW m \in N PROVE m + 1 \in N
  <2>1. PICK after : AfterOf(s, c, txn, after, m)
    OBVIOUS
  <2>. DEFINE last == Mutated(s, c, after[m], txn[m + 1])
              next == [i \in 0 .. m + 1 |-> IF i <= m THEN after[i] ELSE last]
  <2>2. AfterOf(s, c, txn, next, m + 1)
    <3>1. \A i \in 0 .. m + 1 :
              next[i] = IF i = 0 THEN first ELSE Mutated(s, c, next[i - 1], txn[i])
      <4>. TAKE i \in 0 .. m + 1
      <4>1. CASE i <= m
        <5>1. next[i] = after[i] /\ (i # 0 => next[i - 1] = after[i - 1])
          <6>. HIDE DEF last
          <6>. QED BY <4>1
        <5>2. i \in 0 .. m
          BY <4>1
        <5>3. after[i] = IF i = 0 THEN first ELSE Mutated(s, c, after[i - 1], txn[i])
          BY <5>2, <2>1 DEF AfterOf
        <5>. HIDE DEF next, first
        <5>. QED BY <5>1, <5>3
      <4>2. CASE i = m + 1
        <5>1. next[i] = last /\ next[i - 1] = after[m] /\ i # 0 /\ txn[i] = txn[m + 1]
          <6>. HIDE DEF last
          <6>. QED BY <4>2
        <5>2. last = Mutated(s, c, next[i - 1], txn[i])
          BY <5>1
        <5>. HIDE DEF next, first, last
        <5>. QED BY <5>1, <5>2
      <4>. QED BY <4>1, <4>2
    <3>2. next = [i \in 0 .. m + 1 |-> next[i]]
      OBVIOUS
    <3>. HIDE DEF next
    <3>. QED BY <3>1, <3>2 DEF AfterOf
  <2>. HIDE DEF next
  <2>. QED BY <2>2
<1>. HIDE DEF N
<1>3. N = Nat
  <2>1. N \in SUBSET Nat
    BY DEF N
  <2>. QED BY <1>1, <1>2, <2>1, EveryNumber
<1>. QED BY <1>3 DEF N

\* Nodes that are as before, or the living producer c's, of a source that exists.
ShownBy(s, c, g) ==
    /\ g \in [DOMAIN g -> NodeEntries] /\ DOMAIN g \subseteq Controls \X NodeIds
    /\ \A n \in DOMAIN g :
        \/ n \in DOMAIN s.nodes /\ g[n] = s.nodes[n]
        \/ /\ c \in s.producers /\ n[1] = c /\ g[n].pane = s.pane_of[c]
           /\ <<c, g[n].source>> \in DOMAIN s.sources

\* A valid mutation of such nodes makes such nodes.
LEMMA MutatedShown ==
    ASSUME NEW s, NEW c \in Controls, NEW m \in Mutations, NEW g, TablesHold(s),
           c \notin s.producers => m.op = "delete",
           ShownBy(s, c, g), Valid(s, g, c, m)
    PROVE  ShownBy(s, c, Applied(s, g, c, m))
<1>1. CASE m.op = "delete"
  <2>. DEFINE h == Without(g, {<<c, m.node>>})
  <2>1. Applied(s, g, c, m) = h
    BY <1>1 DEF Applied
  <2>2. /\ DOMAIN h \subseteq DOMAIN g /\ \A n \in DOMAIN h : h[n] = g[n]
        /\ h \in [DOMAIN h -> NodeEntries]
    BY DEF Without, ShownBy
  <2>. HIDE DEF h
  <2>. QED BY <2>1, <2>2 DEF ShownBy
<1>2. CASE m.op # "delete"
  <2>. DEFINE x == <<c, m.node>>
              e == [pane |-> s.pane_of[c], source |-> m.source,
                    anchor |-> m.anchor, retained |-> FALSE]
              h == With(g, x, e)
  <2>1. Applied(s, g, c, m) = h
    BY <1>2 DEF Applied
  <2>2. /\ DOMAIN h = DOMAIN g \cup {x} /\ h[x] = e
        /\ \A n \in DOMAIN g : n # x => h[n] = g[n]
        /\ h = [n \in DOMAIN h |-> h[n]]
    <3>. HIDE DEF x, e
    <3>. QED BY DEF With
  <2>3. c \in s.producers /\ <<c, m.source>> \in DOMAIN s.sources
    BY <1>2 DEF Valid
  <2>4. e \in NodeEntries
    BY <2>3 DEF NodeEntries, Mutations, TablesHold, PanesOpen
  <2>5. x \in Controls \X NodeIds /\ x[1] = c
    BY DEF Mutations
  <2>6. e.pane = s.pane_of[c] /\ <<c, e.source>> \in DOMAIN s.sources
    BY <2>3
  <2>. HIDE DEF x, e, h
  <2>7. h \in [DOMAIN h -> NodeEntries] /\ DOMAIN h \subseteq Controls \X NodeIds
    BY <2>2, <2>4, <2>5 DEF ShownBy
  <2>8. ASSUME NEW n \in DOMAIN h
        PROVE  \/ n \in DOMAIN s.nodes /\ h[n] = s.nodes[n]
               \/ /\ c \in s.producers /\ n[1] = c /\ h[n].pane = s.pane_of[c]
                  /\ <<c, h[n].source>> \in DOMAIN s.sources
    <3>1. CASE n = x
      BY <2>2, <2>3, <2>5, <2>6, <3>1
    <3>2. CASE n # x
      BY <2>2, <3>2 DEF ShownBy
    <3>. QED BY <3>1, <3>2
  <2>. QED BY <2>1, <2>7, <2>8 DEF ShownBy
<1>. QED BY <1>1, <1>2

\* A transaction that is committed (apply_transaction) leaves tables that hold.
LEMMA AppliedHold ==
    ASSUME NEW s, NEW c \in DOMAIN s.txns, TablesHold(s)
    PROVE  LET t == apply_transaction(s, c)
           IN /\ TablesHold(t)
              /\ t.pane = s.pane /\ t.producers = s.producers
              /\ \A n \in DOMAIN t.nodes : n \in DOMAIN s.nodes \/ n[1] \in s.producers
<1>. DEFINE txn == s.txns[c]
            after[i \in 0 .. Len(txn)] ==
                IF i = 0 THEN [ok |-> TRUE, nodes |-> s.nodes]
                ELSE IF after[i - 1].ok /\ Valid(s, after[i - 1].nodes, c, txn[i])
                THEN [ok |-> TRUE, nodes |-> Applied(s, after[i - 1].nodes, c, txn[i])]
                ELSE [ok |-> FALSE, nodes |-> s.nodes]
            g == after[Len(txn)].nodes
            f == Without(s.txns, {c})
            t == [s EXCEPT !.txns = f, !.nodes = g]
<1>1. t = apply_transaction(s, c)
  BY DEF apply_transaction
<1>2. txn \in Seq(Mutations) /\ c \in Controls
  BY DEF TablesHold, TablesTyped
<1>3. \A i \in 1 .. Len(txn) :
        txn[i] \in Mutations /\ (c \notin s.producers => txn[i].op = "delete")
  BY <1>2 DEF TablesHold, RecordedHolds
<1>4. after = CHOOSE a : AfterOf(s, c, txn, a, Len(txn))
  BY DEF AfterOf, Mutated
<1>5. AfterOf(s, c, txn, after, Len(txn))
  <2>1. \E a : AfterOf(s, c, txn, a, Len(txn))
    BY <1>2, AfterExists, LenProperties
  <2>. HIDE DEF after
  <2>. QED BY <1>4, <2>1
<1>. HIDE DEF after, txn
<1>6. \A i \in 0 .. Len(txn) : ShownBy(s, c, after[i].nodes)
  <2>. DEFINE N == {i \in Nat : i <= Len(txn) => ShownBy(s, c, after[i].nodes)}
  <2>0. ShownBy(s, c, s.nodes)
    BY DEF ShownBy, TablesHold, TablesTyped
  <2>1. 0 \in N
    <3>1. after[0] = [ok |-> TRUE, nodes |-> s.nodes]
      BY <1>2, <1>5 DEF AfterOf
    <3>. QED BY <2>0, <3>1
  <2>2. ASSUME NEW i \in N PROVE i + 1 \in N
    <3>. SUFFICES ASSUME i + 1 <= Len(txn) PROVE ShownBy(s, c, after[i + 1].nodes)
      OBVIOUS
    <3>1. ShownBy(s, c, after[i].nodes)
      BY <1>2
    <3>2. after[i + 1] = Mutated(s, c, after[i], txn[i + 1])
      <4>1. i + 1 \in 0 .. Len(txn) /\ i + 1 # 0 /\ (i + 1) - 1 = i
        BY <1>2
      <4>. HIDE DEF N
      <4>. QED BY <1>5, <4>1 DEF AfterOf
    <3>3. CASE after[i].ok /\ Valid(s, after[i].nodes, c, txn[i + 1])
      <4>1. after[i + 1].nodes = Applied(s, after[i].nodes, c, txn[i + 1])
        BY <3>2, <3>3 DEF Mutated
      <4>2. txn[i + 1] \in Mutations /\ (c \notin s.producers => txn[i + 1].op = "delete")
        BY <1>2, <1>3
      <4>. QED BY <1>2, <3>1, <3>3, <4>1, <4>2, MutatedShown
    <3>4. CASE ~(after[i].ok /\ Valid(s, after[i].nodes, c, txn[i + 1]))
      BY <2>0, <3>2, <3>4 DEF Mutated
    <3>. QED BY <3>3, <3>4
  <2>. HIDE DEF N
  <2>3. N = Nat
    <3>1. N \in SUBSET Nat
      BY DEF N
    <3>. QED BY <2>1, <2>2, <3>1, EveryNumber
  <2>. QED BY <1>2, <2>3 DEF N
<1>7. ShownBy(s, c, g)
  BY <1>2, <1>6
<1>8. /\ DOMAIN f \subseteq DOMAIN s.txns /\ \A d \in DOMAIN f : f[d] = s.txns[d]
      /\ f \in [DOMAIN f -> Seq(Mutations)]
  BY DEF Without, TablesHold, TablesTyped
<1>9. Shaped(s)
  BY DEF TablesHold, TablesTyped
<1>. HIDE DEF f, g
<1>10. /\ Shaped(t) /\ t.txns = f /\ t.nodes = g
       /\ t.pane = s.pane /\ t.metrics = s.metrics /\ t.producers = s.producers
       /\ t.pane_of = s.pane_of /\ t.sources = s.sources /\ t.retained = s.retained
       /\ t.tickets = s.tickets /\ t.anchored = s.anchored /\ t.seen = s.seen
  BY ONLY <1>9 DEF Shaped, Fields, t
<1>. HIDE DEF t
<1>11. TablesTyped(t)
  BY <1>7, <1>8, <1>10 DEF ShownBy, TablesHold, TablesTyped
<1>12. SumHolds(t)
  BY <1>10 DEF TablesHold, SumHolds, RetainedOf
<1>13. PanesOpen(t) /\ RecordedHolds(t)
  BY <1>8, <1>10 DEF TablesHold, PanesOpen, RecordedHolds
<1>14. SceneHolds(t)
  <2>. SUFFICES ASSUME NEW n \in DOMAIN t.nodes
                PROVE  /\ KeyOf(t, n) \in DOMAIN t.sources
                       /\ t.nodes[n].pane = t.pane_of[n[1]]
                       /\ t.pane[t.nodes[n].pane] = "open"
                       /\ n[1] \notin t.producers => Poster(t, n)
    BY DEF SceneHolds
  <2>1. CASE n \in DOMAIN s.nodes /\ t.nodes[n] = s.nodes[n]
    <3>1. KeyOf(t, n) = KeyOf(s, n)
      BY <2>1 DEF KeyOf
    <3>. QED BY <1>10, <2>1, <3>1 DEF TablesHold, SceneHolds, Poster
  <2>2. CASE /\ c \in s.producers /\ n[1] = c /\ t.nodes[n].pane = s.pane_of[c]
             /\ <<c, t.nodes[n].source>> \in DOMAIN s.sources
    BY <1>10, <2>2 DEF KeyOf, TablesHold, PanesOpen
  <2>. QED BY <1>7, <1>10, <2>1, <2>2 DEF ShownBy
<1>15. \A n \in DOMAIN t.nodes : n \in DOMAIN s.nodes \/ n[1] \in s.producers
  BY <1>7, <1>10 DEF ShownBy
<1>. QED BY <1>1, <1>10, <1>11, <1>12, <1>13, <1>14, <1>15 DEF TablesHold
----------------------------------------------------------------------------
(* The steps that only change the tables. *)

\* The threads stay in agreement with tables that keep their panes and producers, and
\* gain nodes of living producers only.
LEMMA TablesStep ==
    ASSUME ObjectsInv, TablesHold(state'), UNCHANGED <<controls, channel>>,
           state'.pane = state.pane, state'.producers = state.producers,
           \A n \in DOMAIN state'.nodes : n \in DOMAIN state.nodes \/ n[1] \in state.producers
    PROVE  ObjectsInv'
<1>1. ThreadsTyped' /\ OwnersCancelled'
  BY DEF ObjectsInv, ThreadsTyped, OwnersCancelled
<1>2. ThreadsAgree'
  BY DEF ObjectsInv, ThreadsAgree
<1>. QED BY <1>1, <1>2 DEF ObjectsInv

\* Tables of which the anchors, tickets and waits change at will.
LEMMA AsideHold ==
    ASSUME NEW s, NEW t, TablesHold(s), Shaped(t), SceneSame(s, t), t.sources = s.sources,
           t.retained = s.retained, t.anchored \subseteq Controls, t.seen \subseteq Controls,
           \A u \in t.tickets : u.key \in Keys
    PROVE  TablesHold(t)
<1>1. TablesTyped(t)
  BY DEF SceneSame, TablesHold, TablesTyped
<1>2. SumHolds(t)
  BY DEF TablesHold, SumHolds, RetainedOf
<1>. QED BY <1>1, <1>2, SourcesReplaced

\* Transactions that are begun, extended and aborted, as long as a producer that is gone
\* records deletions only.
LEMMA TxnsHold ==
    ASSUME NEW s, NEW t, NEW f, TablesHold(s), t = [s EXCEPT !.txns = f],
           f \in [DOMAIN f -> Seq(Mutations)], DOMAIN f \subseteq Controls,
           \A c \in DOMAIN f : c \notin s.producers =>
               \A i \in 1 .. Len(f[c]) : f[c][i].op = "delete"
    PROVE  /\ TablesHold(t)
           /\ t.pane = s.pane /\ t.producers = s.producers /\ t.nodes = s.nodes
<1>1. Shaped(s)
  BY DEF TablesHold, TablesTyped
<1>2. /\ Shaped(t) /\ t.txns = f /\ t.nodes = s.nodes
      /\ t.pane = s.pane /\ t.metrics = s.metrics /\ t.producers = s.producers
      /\ t.pane_of = s.pane_of /\ t.sources = s.sources /\ t.retained = s.retained
      /\ t.tickets = s.tickets /\ t.anchored = s.anchored /\ t.seen = s.seen
  BY <1>1 DEF Shaped, Fields
<1>3. TablesTyped(t)
  BY <1>2 DEF TablesHold, TablesTyped
<1>4. SumHolds(t)
  BY <1>2 DEF TablesHold, SumHolds, RetainedOf
<1>5. PanesOpen(t) /\ RecordedHolds(t)
  BY <1>2 DEF TablesHold, PanesOpen, RecordedHolds
<1>6. SceneHolds(t)
  <2>1. SceneHolds(s)
    BY DEF TablesHold
  <2>. QED BY ONLY <1>2, <2>1 DEF SceneHolds, Poster, KeyOf
<1>. QED BY <1>2, <1>3, <1>4, <1>5, <1>6 DEF TablesHold

\* A capability is issued (issue_pane_capability).
LEMMA IssueKeeps ==
    ASSUME ObjectsInv, NEW p \in Panes, IssueCapability(p)
    PROVE  ObjectsInv'
<1>. DEFINE s == state
            t == [state EXCEPT !.pane[p] = "open"]
<1>1. TablesHold(s) /\ Shaped(s) /\ s.pane[p] = "new" /\ state' = t
      /\ UNCHANGED <<controls, channel>>
  BY DEF ObjectsInv, TablesHold, TablesTyped, IssueCapability
<1>2. /\ Shaped(t) /\ t.pane = [s.pane EXCEPT ![p] = "open"] /\ t.metrics = s.metrics
      /\ t.producers = s.producers /\ t.pane_of = s.pane_of
      /\ t.anchored = s.anchored /\ t.seen = s.seen
      /\ t.sources = s.sources /\ t.nodes = s.nodes /\ t.txns = s.txns
      /\ t.tickets = s.tickets /\ t.retained = s.retained
  BY <1>1 DEF Shaped, Fields
<1>. HIDE DEF s, t
<1>3. /\ t.pane \in [Panes -> {"new", "open", "closed"}]
      /\ \A q \in Panes : t.pane[q] = IF q = p THEN "open" ELSE s.pane[q]
  BY <1>1, <1>2 DEF TablesHold, TablesTyped
<1>4. TablesTyped(t)
  BY <1>1, <1>2, <1>3 DEF TablesHold, TablesTyped
<1>5. SumHolds(t) /\ RecordedHolds(t)
  BY <1>1, <1>2 DEF TablesHold, SumHolds, RetainedOf, RecordedHolds
<1>6. PanesOpen(t)
  BY <1>1, <1>2, <1>3 DEF TablesHold, TablesTyped, PanesOpen
<1>7. SceneHolds(t)
  <2>1. \A n \in DOMAIN t.nodes : s.nodes[n].pane \in Panes /\ KeyOf(t, n) = KeyOf(s, n)
    BY <1>1, <1>2 DEF TablesHold, TablesTyped, NodeEntries, KeyOf
  <2>. QED BY <1>1, <1>2, <1>3, <2>1 DEF TablesHold, SceneHolds, Poster
<1>8. TablesHold(t)
  BY <1>4, <1>5, <1>6, <1>7 DEF TablesHold
<1>9. ThreadsTyped' /\ ThreadsAgree'
  BY <1>1, <1>2 DEF ObjectsInv, ThreadsTyped, ThreadsAgree, s
<1>10. OwnersCancelled'
  <2>1. /\ \A c \in Controls : controls[c].owner \in Panes \cup {Absent}
        /\ \A m \in Channels : channel[m].owner \in Panes \cup {Absent}
    BY DEF ObjectsInv, ThreadsTyped, ControlThreads, ChannelThreads
  <2>2. \A q \in Panes : state'.pane[q] = "closed" => state.pane[q] = "closed"
    BY <1>1, <1>3 DEF s
  <2>. QED BY <1>1, <2>1, <2>2 DEF ObjectsInv, OwnersCancelled
<1>. QED BY <1>1, <1>8, <1>9, <1>10 DEF ObjectsInv

\* A pane is measured (update_metrics).
LEMMA MetricsKeeps ==
    ASSUME ObjectsInv, NEW p \in Panes, UpdateMetrics(p)
    PROVE  ObjectsInv'
<1>. DEFINE s == state
            t == [state EXCEPT !.metrics = @ \cup {p}]
<1>1. TablesHold(s) /\ Shaped(s) /\ s.pane[p] = "open" /\ state' = t
      /\ UNCHANGED <<controls, channel>>
  BY DEF ObjectsInv, TablesHold, TablesTyped, UpdateMetrics
<1>2. /\ Shaped(t) /\ t.pane = s.pane /\ t.metrics = s.metrics \cup {p}
      /\ t.producers = s.producers /\ t.pane_of = s.pane_of
      /\ t.anchored = s.anchored /\ t.seen = s.seen
      /\ t.sources = s.sources /\ t.nodes = s.nodes /\ t.txns = s.txns
      /\ t.tickets = s.tickets /\ t.retained = s.retained
  BY <1>1 DEF Shaped, Fields
<1>. HIDE DEF s, t
<1>3. TablesTyped(t)
  BY <1>1, <1>2 DEF TablesHold, TablesTyped
<1>4. SumHolds(t) /\ RecordedHolds(t) /\ PanesOpen(t)
  BY <1>1, <1>2 DEF TablesHold, SumHolds, RetainedOf, RecordedHolds, PanesOpen
<1>5. SceneHolds(t)
  BY <1>1, <1>2 DEF TablesHold, SceneHolds, Poster, KeyOf
<1>6. TablesHold(t)
  BY <1>3, <1>4, <1>5 DEF TablesHold
<1>. QED BY <1>1, <1>2, <1>6, TablesStep DEF s

\* A pane is closed (revoke_pane).
LEMMA RevokeKeeps ==
    ASSUME ObjectsInv, NEW p \in Panes, RevokePane(p)
    PROVE  ObjectsInv'
<1>. DEFINE s == state
            t == revoke_pane(state, p)
            cancel(u) == IF u.owner = p THEN [u EXCEPT !.cancelled = TRUE] ELSE u
<1>1. /\ TablesHold(s) /\ s.pane[p] = "open" /\ state' = t
      /\ controls' = [c \in Controls |-> cancel(controls[c])]
      /\ channel' = [m \in Channels |-> cancel(channel[m])]
  BY DEF ObjectsInv, RevokePane
<1>2. /\ TablesHold(t)
      /\ t.pane = [s.pane EXCEPT ![p] = "closed"]
      /\ t.producers = {c \in s.producers : s.pane_of[c] # p}
      /\ \A n \in DOMAIN t.nodes : n \in DOMAIN s.nodes /\ s.pane_of[n[1]] # p
  <2>1. TablesHold(state)
    BY <1>1
  <2>. QED BY <2>1, RevokedHold
<1>. HIDE DEF t
<1>3. ASSUME NEW c \in Controls
      PROVE  /\ controls'[c] \in ControlThreads
             /\ controls'[c].at = controls[c].at /\ controls'[c].pane = controls[c].pane
             /\ controls'[c].owner = controls[c].owner
             /\ controls[c].cancelled \/ controls[c].owner = p => controls'[c].cancelled
  <2>1. controls[c] \in ControlThreads
    BY DEF ObjectsInv, ThreadsTyped
  <2>2. controls'[c] = IF controls[c].owner = p THEN [controls[c] EXCEPT !.cancelled = TRUE]
                       ELSE controls[c]
    BY <1>1
  <2>. QED BY <2>1, <2>2 DEF ControlThreads
<1>4. ASSUME NEW m \in Channels
      PROVE  /\ channel'[m] \in ChannelThreads
             /\ channel'[m].at = channel[m].at /\ channel'[m].pane = channel[m].pane
             /\ channel'[m].owner = channel[m].owner
             /\ channel[m].cancelled \/ channel[m].owner = p => channel'[m].cancelled
  <2>1. channel[m] \in ChannelThreads
    BY DEF ObjectsInv, ThreadsTyped
  <2>2. channel'[m] = IF channel[m].owner = p THEN [channel[m] EXCEPT !.cancelled = TRUE]
                      ELSE channel[m]
    BY <1>1
  <2>. QED BY <2>1, <2>2 DEF ChannelThreads
<1>5. ThreadsTyped'
  <2>1. controls' = [c \in Controls |-> controls'[c]] /\ channel' = [m \in Channels |-> channel'[m]]
    BY <1>1
  <2>. HIDE DEF cancel
  <2>. QED BY <1>3, <1>4, <2>1 DEF ThreadsTyped
<1>6. \A q \in Panes : t.pane[q] = "closed" => q = p \/ s.pane[q] = "closed"
  BY <1>1, <1>2 DEF TablesHold, TablesTyped
<1>7. OwnersCancelled'
  <2>1. /\ \A c \in Controls : controls[c].owner \in Panes \cup {Absent}
        /\ \A m \in Channels : channel[m].owner \in Panes \cup {Absent}
    BY DEF ObjectsInv, ThreadsTyped, ControlThreads, ChannelThreads
  <2>2. /\ \A c \in Controls : controls[c].owner # Absent
                               /\ state.pane[controls[c].owner] = "closed"
                               => controls[c].cancelled
        /\ \A m \in Channels : channel[m].owner # Absent
                               /\ state.pane[channel[m].owner] = "closed"
                               => channel[m].cancelled
    BY DEF ObjectsInv, OwnersCancelled
  <2>. QED BY <1>1, <1>3, <1>4, <1>6, <2>1, <2>2 DEF OwnersCancelled
<1>8. ThreadsAgree'
  <2>1. ASSUME NEW c \in Controls, controls[c].at # "done", c \notin t.producers,
               NEW n \in DOMAIN t.nodes
        PROVE  n[1] # c
    <3>1. n \in DOMAIN s.nodes /\ s.pane_of[n[1]] # p
      BY <1>2
    <3>2. CASE c \in s.producers
      BY <1>2, <2>1, <3>1, <3>2
    <3>3. CASE c \notin s.producers
      BY <2>1, <3>1, <3>3 DEF ObjectsInv, ThreadsAgree
    <3>. QED BY <3>2, <3>3
  <2>2. \A c \in Controls : /\ controls[c].at \in {"mark", "admit"} => controls[c].pane \in Panes
                            /\ controls[c].at \in {"hello", "mark", "admit"}
                                 => c \notin state.producers
    BY DEF ObjectsInv, ThreadsAgree
  <2>3. \A m \in Channels : channel[m].at \in {"attach", "mark"} => channel[m].pane \in Panes
    BY DEF ObjectsInv, ThreadsAgree
  <2>4. state'.producers \subseteq state.producers
    BY <1>1, <1>2
  <2>. HIDE DEF s
  <2>. QED BY <1>1, <1>3, <1>4, <2>1, <2>2, <2>3, <2>4 DEF ThreadsAgree
<1>. QED BY <1>1, <1>2, <1>5, <1>7, <1>8 DEF ObjectsInv
\* A marker is seen (observe_marker).
LEMMA MarkerKeeps ==
    ASSUME ObjectsInv, NEW c \in Controls, ObserveMarker(c)
    PROVE  ObjectsInv'
<1>. DEFINE s == state
            t == [state EXCEPT !.anchored = @ \cup {c}, !.seen = @ \cup {c}]
<1>1. TablesHold(s) /\ Shaped(s) /\ state' = t /\ UNCHANGED <<controls, channel>>
  BY DEF ObjectsInv, TablesHold, TablesTyped, ObserveMarker
<1>2. /\ Shaped(t) /\ SceneSame(s, t) /\ t.sources = s.sources /\ t.retained = s.retained
      /\ t.anchored = s.anchored \cup {c} /\ t.seen = s.seen \cup {c}
      /\ t.tickets = s.tickets
  BY <1>1 DEF Shaped, Fields, SceneSame
<1>. HIDE DEF s, t
<1>3. TablesHold(t)
  <2>1. /\ t.anchored \subseteq Controls /\ t.seen \subseteq Controls
        /\ \A u \in t.tickets : u.key \in Keys
    BY <1>1, <1>2 DEF TablesHold, TablesTyped
  <2>. QED BY <1>1, <1>2, <2>1, AsideHold
<1>. QED BY <1>1, <1>2, <1>3, TablesStep DEF s, SceneSame

\* The screen of a pane is cleared (clear_anchors).
LEMMA ClearKeeps ==
    ASSUME ObjectsInv, NEW p \in Panes, ClearAnchors(p)
    PROVE  ObjectsInv'
<1>. DEFINE s == state
            here == {c \in state.producers : state.pane_of[c] = p}
            gone == {n \in DOMAIN state.nodes :
                        state.nodes[n].pane = p /\ state.nodes[n].retained}
            a == s.anchored \ here
            g == Without(s.nodes, gone)
            r == [state EXCEPT !.anchored = a, !.nodes = g]
<1>1. /\ TablesHold(s) /\ Shaped(s) /\ UNCHANGED <<controls, channel>>
      /\ state' = prune_orphaned_sources(r)
  BY DEF ObjectsInv, TablesHold, TablesTyped, ClearAnchors
<1>2. /\ DOMAIN g \subseteq DOMAIN s.nodes /\ \A n \in DOMAIN g : g[n] = s.nodes[n]
      /\ g \in [DOMAIN g -> NodeEntries]
  BY <1>1 DEF Without, TablesHold, TablesTyped
<1>3. a \subseteq Controls
  BY <1>1 DEF TablesHold, TablesTyped
<1>. HIDE DEF a, g
<1>4. /\ Shaped(r) /\ r.anchored = a /\ r.nodes = g
      /\ r.pane = s.pane /\ r.metrics = s.metrics /\ r.producers = s.producers
      /\ r.pane_of = s.pane_of /\ r.seen = s.seen
      /\ r.sources = s.sources /\ r.txns = s.txns
      /\ r.tickets = s.tickets /\ r.retained = s.retained
  BY <1>1 DEF Shaped, Fields
<1>. HIDE DEF s, r
<1>5. TablesTyped(r)
  BY <1>1, <1>2, <1>3, <1>4 DEF TablesHold, TablesTyped
<1>6. SumHolds(r) /\ PanesOpen(r) /\ RecordedHolds(r)
  BY <1>1, <1>4 DEF TablesHold, SumHolds, RetainedOf, PanesOpen, RecordedHolds
<1>7. SceneHolds(r)
  BY <1>1, <1>2, <1>4 DEF TablesHold, SceneHolds, Poster, KeyOf
<1>8. TablesHold(r)
  BY <1>5, <1>6, <1>7 DEF TablesHold
<1>9. TablesHold(state') /\ OnlyPruned(r, state')
  BY <1>1, <1>8, PrunedHold, PruneKeeps DEF TablesHold
<1>. QED BY <1>1, <1>2, <1>4, <1>9, TablesStep DEF OnlyPruned, s

----------------------------------------------------------------------------
(* The steps of a control connection. *)

\* A connection that moves on without touching the tables.
LEMMA ThreadMoves ==
    ASSUME ObjectsInv, NEW c \in Controls, NEW v \in ControlThreads,
           controls' = [controls EXCEPT ![c] = v], UNCHANGED <<state, channel>>,
           v.at \in {"mark", "admit"} => v.pane \in Panes,
           v.at \in {"hello", "mark", "admit"} => c \notin state.producers,
           v.at # "done" => controls[c].at # "done",
           v.owner # Absent /\ state.pane[v.owner] = "closed" => v.cancelled
    PROVE  ObjectsInv'
<1>1. controls \in [Controls -> ControlThreads] /\ channel \in [Channels -> ChannelThreads]
  BY DEF ObjectsInv, ThreadsTyped
<1>2. \A d \in Controls : controls'[d] = IF d = c THEN v ELSE controls[d]
  BY <1>1
<1>3. ThreadsTyped'
  BY <1>1 DEF ThreadsTyped
<1>4. ThreadsAgree'
  BY <1>2 DEF ObjectsInv, ThreadsAgree
<1>5. OwnersCancelled'
  BY <1>2 DEF ObjectsInv, OwnersCancelled
<1>. QED BY <1>3, <1>4, <1>5 DEF ObjectsInv

\* A connection presents the token of an open pane (handle_connection).
LEMMA AuthenticateKeeps ==
    ASSUME ObjectsInv, NEW c \in Controls, NEW p \in Panes, Authenticate(c, p)
    PROVE  ObjectsInv'
<1>. DEFINE v == [controls[c] EXCEPT !.at = "mark", !.pane = p]
<1>1. controls[c] \in ControlThreads /\ controls \in [Controls -> ControlThreads]
  BY DEF ObjectsInv, ThreadsTyped
<1>2. controls' = [controls EXCEPT ![c] = v] /\ UNCHANGED <<state, channel>>
  BY <1>1 DEF Authenticate
<1>3. /\ v \in ControlThreads /\ v.at = "mark" /\ v.pane = p
      /\ v.owner = controls[c].owner /\ v.cancelled = controls[c].cancelled
  BY <1>1 DEF ControlThreads
<1>4. controls[c].at = "hello"
  BY DEF Authenticate, At
<1>5. c \notin state.producers
  BY <1>4 DEF ObjectsInv, ThreadsAgree
<1>6. v.owner # Absent /\ state.pane[v.owner] = "closed" => v.cancelled
  BY <1>3 DEF ObjectsInv, OwnersCancelled
<1>. HIDE DEF v
<1>. QED BY <1>2, <1>3, <1>4, <1>5, <1>6, ThreadMoves

\* A connection is noted as its pane's (mark_connection_pane), if that is still open.
LEMMA MarkKeeps ==
    ASSUME ObjectsInv, NEW c \in Controls, MarkConnection(c)
    PROVE  ObjectsInv'
<1>. DEFINE q == controls[c].pane
            v == [controls[c] EXCEPT !.at = "admit", !.owner = q]
            w == [controls[c] EXCEPT !.at = "done"]
<1>1. controls[c] \in ControlThreads /\ controls \in [Controls -> ControlThreads]
  BY DEF ObjectsInv, ThreadsTyped
<1>2. controls[c].at = "mark" /\ UNCHANGED <<state, channel>>
  BY DEF MarkConnection, At
<1>3. q \in Panes /\ c \notin state.producers
  BY <1>2 DEF ObjectsInv, ThreadsAgree
<1>4. CASE state.pane[q] = "open"
  <2>1. controls' = [controls EXCEPT ![c] = v]
    BY <1>1, <1>4 DEF MarkConnection
  <2>2. v \in ControlThreads /\ v.at = "admit" /\ v.pane = q /\ v.owner = q
    BY <1>1, <1>3 DEF ControlThreads
  <2>. HIDE DEF v, q
  <2>. QED BY <1>2, <1>3, <1>4, <2>1, <2>2, ThreadMoves
<1>5. CASE state.pane[q] # "open"
  <2>1. controls' = [controls EXCEPT ![c] = w]
    BY <1>1, <1>5 DEF MarkConnection, Moves
  <2>2. /\ w \in ControlThreads /\ w.at = "done"
        /\ w.owner = controls[c].owner /\ w.cancelled = controls[c].cancelled
    BY <1>1 DEF ControlThreads
  <2>3. w.owner # Absent /\ state.pane[w.owner] = "closed" => w.cancelled
    BY <2>2 DEF ObjectsInv, OwnersCancelled
  <2>. HIDE DEF w, q
  <2>. QED BY <1>2, <1>3, <2>1, <2>2, <2>3, ThreadMoves
<1>. QED BY <1>4, <1>5

\* A producer is admitted (handle_control), if its pane has usable measures: a pane that
\* was closed meanwhile has lost them.
LEMMA AdmitKeeps ==
    ASSUME ObjectsInv, NEW c \in Controls, Admit(c)
    PROVE  ObjectsInv'
<1>. DEFINE s == state
            q == controls[c].pane
            t == [state EXCEPT !.producers = @ \cup {c}, !.pane_of[c] = q]
            v == [controls[c] EXCEPT !.at = "serve"]
            w == [controls[c] EXCEPT !.at = "done"]
<1>1. /\ controls[c] \in ControlThreads /\ controls \in [Controls -> ControlThreads]
      /\ channel \in [Channels -> ChannelThreads]
  BY DEF ObjectsInv, ThreadsTyped
<1>2. controls[c].at = "admit" /\ UNCHANGED channel
  BY DEF Admit, At
<1>3. q \in Panes /\ c \notin state.producers /\ \A n \in DOMAIN state.nodes : n[1] # c
  BY <1>2 DEF ObjectsInv, ThreadsAgree
<1>4. CASE q \notin state.metrics
  <2>1. controls' = [controls EXCEPT ![c] = w] /\ UNCHANGED state
    BY <1>1, <1>4 DEF Admit, Moves
  <2>2. /\ w \in ControlThreads /\ w.at = "done"
        /\ w.owner = controls[c].owner /\ w.cancelled = controls[c].cancelled
    BY <1>1 DEF ControlThreads
  <2>3. w.owner # Absent /\ state.pane[w.owner] = "closed" => w.cancelled
    BY <2>2 DEF ObjectsInv, OwnersCancelled
  <2>. HIDE DEF w, q
  <2>. QED BY <1>2, <2>1, <2>2, <2>3, ThreadMoves
<1>5. CASE q \in state.metrics
  <2>1. TablesHold(s) /\ Shaped(s)
    BY DEF ObjectsInv, TablesHold, TablesTyped
  <2>2. state' = t /\ controls' = [controls EXCEPT ![c] = v]
    BY <1>1, <1>5 DEF Admit, Moves
  <2>3. /\ Shaped(t) /\ t.producers = s.producers \cup {c}
        /\ t.pane_of = [s.pane_of EXCEPT ![c] = q]
        /\ t.pane = s.pane /\ t.metrics = s.metrics
        /\ t.anchored = s.anchored /\ t.seen = s.seen
        /\ t.sources = s.sources /\ t.nodes = s.nodes /\ t.txns = s.txns
        /\ t.tickets = s.tickets /\ t.retained = s.retained
    BY <2>1 DEF Shaped, Fields
  <2>4. s.pane[q] = "open"
    BY <1>5, <2>1 DEF TablesHold, PanesOpen
  <2>5. /\ v \in ControlThreads /\ v.at = "serve" /\ v.pane = controls[c].pane
        /\ v.owner = controls[c].owner /\ v.cancelled = controls[c].cancelled
    BY <1>1 DEF ControlThreads
  <2>. HIDE DEF s, t, v, q
  <2>6. /\ t.pane_of \in [Controls -> Panes \cup {Absent}]
        /\ \A d \in Controls : t.pane_of[d] = IF d = c THEN q ELSE s.pane_of[d]
    BY <1>3, <2>1, <2>3 DEF TablesHold, TablesTyped
  <2>7. TablesTyped(t)
    BY <2>1, <2>3, <2>6 DEF TablesHold, TablesTyped
  <2>8. SumHolds(t) /\ RecordedHolds(t)
    BY <2>1, <2>3 DEF TablesHold, SumHolds, RetainedOf, RecordedHolds
  <2>9. PanesOpen(t)
    BY <1>3, <2>1, <2>3, <2>4, <2>6 DEF TablesHold, TablesTyped, PanesOpen
  <2>10. SceneHolds(t)
    <3>1. \A n \in DOMAIN s.nodes : n[1] \in Controls /\ n[1] # c
      BY <1>3, <2>1 DEF TablesHold, TablesTyped, s
    <3>. QED BY <2>1, <2>3, <2>6, <3>1 DEF TablesHold, SceneHolds, Poster, KeyOf
  <2>11. TablesHold(t)
    BY <2>7, <2>8, <2>9, <2>10 DEF TablesHold
  <2>12. \A d \in Controls : controls'[d] = IF d = c THEN v ELSE controls[d]
    BY <1>1, <2>2
  <2>13. ThreadsTyped'
    BY <1>1, <1>2, <2>2, <2>5 DEF ThreadsTyped
  <2>14. ThreadsAgree'
    BY <1>2, <2>2, <2>3, <2>5, <2>12 DEF ObjectsInv, ThreadsAgree, s
  <2>15. OwnersCancelled'
    BY <1>2, <2>2, <2>3, <2>5, <2>12 DEF ObjectsInv, OwnersCancelled, s
  <2>. QED BY <2>2, <2>11, <2>13, <2>14, <2>15 DEF ObjectsInv
<1>. QED BY <1>4, <1>5

\* A source is created (CREATE_*), with a ticket, whether or not its producer is still
\* there.
LEMMA CreateKeeps ==
    ASSUME ObjectsInv, NEW c \in Controls, NEW i \in SourceIds, NEW kind \in Kinds,
           CreateSource(c, i, kind)
    PROVE  ObjectsInv'
<1>. DEFINE s == state
            k == <<c, i>>
            e == NewSource(kind)
            f == With(state.sources, k, e)
            b == state.tickets \cup {[key |-> k, kind |-> kind, number |-> budget.creations]}
            t == [state EXCEPT !.sources = f, !.tickets = b]
<1>1. /\ TablesHold(s) /\ Shaped(s) /\ k \notin DOMAIN s.sources /\ state' = t
      /\ UNCHANGED <<controls, channel>>
  BY DEF ObjectsInv, TablesHold, TablesTyped, CreateSource, Serving
<1>2. e \in SourceEntries /\ e.bytes = 0
  BY DEF NewSource, SourceEntries
<1>3. k \in Keys
  BY DEF Keys
<1>4. \A u \in b : u.key \in Keys
  BY <1>1, <1>3 DEF TablesHold, TablesTyped
<1>. HIDE DEF e, k
<1>5. /\ DOMAIN f = DOMAIN s.sources \cup {k} /\ f[k] = e
      /\ \A j \in DOMAIN s.sources : f[j] = s.sources[j]
      /\ f \in [DOMAIN f -> SourceEntries]
  BY <1>1, <1>2 DEF With, TablesHold, TablesTyped
<1>. HIDE DEF f, b, s
<1>6. /\ Shaped(t) /\ SceneSame(s, t) /\ t.sources = f /\ t.tickets = b
      /\ t.retained = s.retained /\ t.anchored = s.anchored /\ t.seen = s.seen
  BY <1>1 DEF Shaped, Fields, SceneSame, s
<1>. HIDE DEF t
<1>7. /\ RetainedOf(t, DOMAIN t.sources) = RetainedOf(s, DOMAIN s.sources)
      /\ IsFiniteSet(DOMAIN t.sources)
  <2>1. IsFiniteSet(DOMAIN s.sources)
    BY <1>1 DEF TablesHold, TablesTyped
  <2>. QED BY <1>1, <1>2, <1>5, <1>6, <2>1, BodiesCreated
<1>8. TablesTyped(t)
  BY <1>1, <1>3, <1>4, <1>5, <1>6, <1>7 DEF SceneSame, TablesHold, TablesTyped
<1>9. SumHolds(t)
  BY <1>1, <1>6, <1>7 DEF TablesHold, SumHolds
<1>10. TablesHold(t)
  BY <1>1, <1>5, <1>6, <1>8, <1>9, SourcesReplaced
<1>. QED BY <1>1, <1>6, <1>10, TablesStep DEF s, SceneSame

\* A source's policy is tightened (SET_SOURCE_POLICY).
LEMMA PolicyKeeps ==
    ASSUME ObjectsInv, NEW c \in Controls, NEW i \in SourceIds, SetSourcePolicy(c, i)
    PROVE  ObjectsInv'
<1>. DEFINE k == <<c, i>>
            e == [state.sources[k] EXCEPT !.deny = TRUE]
            r == [state EXCEPT !.sources[k].deny = TRUE]
<1>1. /\ TablesHold(state) /\ Shaped(state) /\ k \in DOMAIN state.sources
      /\ state' = advance_source(r, k) /\ UNCHANGED <<controls, channel>>
  BY DEF ObjectsInv, TablesHold, TablesTyped, SetSourcePolicy, Serving
<1>2. state.sources[k] \in SourceEntries
  BY <1>1 DEF TablesHold, TablesTyped
<1>3. e \in SourceEntries /\ e.kind = state.sources[k].kind /\ e.bytes = state.sources[k].bytes
  BY <1>2 DEF SourceEntries
<1>4. Described(state, k, e, r)
  BY <1>1 DEF Described, Shaped, Fields
<1>. HIDE DEF k, e, r
<1>5. TablesHold(r) /\ SceneSame(state, r)
  BY <1>1, <1>3, <1>4, DescribedHold
<1>6. TablesHold(state') /\ SceneSame(r, state')
  BY <1>1, <1>5, AdvancedHold
<1>. QED BY <1>1, <1>5, <1>6, TablesStep DEF SceneSame

\* A source is destroyed (DESTROY_SOURCE).
LEMMA DestroyKeeps ==
    ASSUME ObjectsInv, NEW c \in Controls, NEW i \in SourceIds, DestroySource(c, i)
    PROVE  ObjectsInv'
<1>1. /\ TablesHold(state) /\ <<c, i>> \in DOMAIN state.sources
      /\ state' = remove_source(state, <<c, i>>) /\ UNCHANGED <<controls, channel>>
  BY DEF ObjectsInv, DestroySource, Serving
<1>2. /\ TablesHold(state')
      /\ state'.pane = state.pane /\ state'.producers = state.producers
      /\ DOMAIN state'.nodes \subseteq DOMAIN state.nodes
  BY <1>1, RemovedHold
<1>. QED BY <1>1, <1>2, TablesStep
\* A transaction is begun (BEGIN_TXN), also over one of the same name.
LEMMA BeginKeeps ==
    ASSUME ObjectsInv, NEW c \in Controls, BeginTxn(c)
    PROVE  ObjectsInv'
<1>. DEFINE f == With(state.txns, c, <<>>)
<1>1. /\ TablesHold(state) /\ state' = [state EXCEPT !.txns = f]
      /\ UNCHANGED <<controls, channel>>
  BY DEF ObjectsInv, BeginTxn, Serving
<1>2. /\ f \in [DOMAIN f -> Seq(Mutations)] /\ DOMAIN f \subseteq Controls
      /\ f[c] = <<>> /\ \A d \in DOMAIN f : d # c => d \in DOMAIN state.txns /\ f[d] = state.txns[d]
  <2>1. state.txns \in [DOMAIN state.txns -> Seq(Mutations)] /\ DOMAIN state.txns \subseteq Controls
    BY <1>1 DEF TablesHold, TablesTyped
  <2>. QED BY <2>1 DEF With
<1>. HIDE DEF f
<1>3. \A d \in DOMAIN f : d \notin state.producers =>
               \A i \in 1 .. Len(f[d]) : f[d][i].op = "delete"
  <2>. SUFFICES ASSUME NEW d \in DOMAIN f, d \notin state.producers,
                       NEW i \in 1 .. Len(f[d])
                PROVE  f[d][i].op = "delete"
    OBVIOUS
  <2>1. d # c
    BY <1>2
  <2>. QED BY <1>1, <1>2, <2>1 DEF TablesHold, RecordedHolds
<1>4. TablesHold(state') /\ state'.pane = state.pane
      /\ state'.producers = state.producers /\ state'.nodes = state.nodes
  BY <1>1, <1>2, <1>3, TxnsHold
<1>. QED BY <1>1, <1>4, TablesStep

\* A mutation is recorded (CREATE_NODE, UPDATE_NODE, DELETE_NODE).
LEMMA RecordKeeps ==
    ASSUME ObjectsInv, NEW c \in Controls, NEW m \in Mutations, Record(c, m)
    PROVE  ObjectsInv'
<1>. DEFINE f == [state.txns EXCEPT ![c] = Append(@, m)]
<1>1. /\ TablesHold(state) /\ Shaped(state) /\ c \in DOMAIN state.txns
      /\ m.op # "delete" => c \in state.producers
      /\ state' = [state EXCEPT !.txns[c] = Append(@, m)]
      /\ UNCHANGED <<controls, channel>>
  BY DEF ObjectsInv, TablesHold, TablesTyped, Record, Serving
<1>2. state' = [state EXCEPT !.txns = f]
  BY <1>1 DEF Shaped, Fields
<1>3. state.txns \in [DOMAIN state.txns -> Seq(Mutations)] /\ DOMAIN state.txns \subseteq Controls
  BY <1>1 DEF TablesHold, TablesTyped
<1>4. state.txns[c] \in Seq(Mutations)
  BY <1>1, <1>3
<1>5. /\ Append(state.txns[c], m) \in Seq(Mutations)
      /\ Len(Append(state.txns[c], m)) = Len(state.txns[c]) + 1
      /\ \A i \in 1 .. Len(state.txns[c]) : Append(state.txns[c], m)[i] = state.txns[c][i]
      /\ Append(state.txns[c], m)[Len(state.txns[c]) + 1] = m
  BY <1>4, AppendProperties
<1>6. /\ DOMAIN f = DOMAIN state.txns /\ f[c] = Append(state.txns[c], m)
      /\ \A d \in DOMAIN f : d # c => f[d] = state.txns[d]
      /\ f \in [DOMAIN f -> Seq(Mutations)]
  BY <1>1, <1>3, <1>5
<1>. HIDE DEF f
<1>7. \A d \in DOMAIN f : d \notin state.producers =>
               \A i \in 1 .. Len(f[d]) : f[d][i].op = "delete"
  <2>. SUFFICES ASSUME NEW d \in DOMAIN f, d \notin state.producers,
                       NEW i \in 1 .. Len(f[d])
                PROVE  f[d][i].op = "delete"
    OBVIOUS
  <2>1. \A j \in 1 .. Len(state.txns[d]) : state.txns[d][j].op = "delete"
    BY <1>1, <1>6 DEF TablesHold, RecordedHolds
  <2>2. CASE d # c
    BY <1>6, <2>1, <2>2
  <2>3. CASE d = c
    <3>1. CASE i = Len(state.txns[c]) + 1
      BY <1>1, <1>5, <1>6, <2>3, <3>1
    <3>2. CASE i # Len(state.txns[c]) + 1
      <4>1. i \in 1 .. Len(state.txns[c])
        BY <1>4, <1>5, <1>6, <2>3, <3>2
      <4>. QED BY <1>5, <1>6, <2>1, <2>3, <4>1
    <3>. QED BY <3>1, <3>2
  <2>. QED BY <2>2, <2>3
<1>8. TablesHold(state') /\ state'.pane = state.pane
      /\ state'.producers = state.producers /\ state'.nodes = state.nodes
  <2>1. TablesHold(state) /\ DOMAIN f \subseteq Controls
    BY <1>1, <1>3, <1>6
  <2>. QED BY ONLY <1>2, <1>6, <1>7, <2>1, TxnsHold
<1>. QED BY <1>1, <1>8, TablesStep

\* A transaction is committed (COMMIT_TXN).
LEMMA CommitKeeps ==
    ASSUME ObjectsInv, NEW c \in Controls, CommitTxn(c)
    PROVE  ObjectsInv'
<1>1. /\ TablesHold(state) /\ c \in DOMAIN state.txns
      /\ state' = apply_transaction(state, c) /\ UNCHANGED <<controls, channel>>
  BY DEF ObjectsInv, CommitTxn, Serving
<1>2. /\ TablesHold(state')
      /\ state'.pane = state.pane /\ state'.producers = state.producers
      /\ \A n \in DOMAIN state'.nodes : n \in DOMAIN state.nodes \/ n[1] \in state.producers
  BY <1>1, AppliedHold
<1>. QED BY <1>1, <1>2, TablesStep

\* A transaction is aborted (ABORT_TXN).
LEMMA AbortKeeps ==
    ASSUME ObjectsInv, NEW c \in Controls, AbortTxn(c)
    PROVE  ObjectsInv'
<1>. DEFINE f == Without(state.txns, {c})
<1>1. /\ TablesHold(state) /\ state' = [state EXCEPT !.txns = f]
      /\ UNCHANGED <<controls, channel>>
  BY DEF ObjectsInv, AbortTxn, Serving
<1>2. /\ f \in [DOMAIN f -> Seq(Mutations)] /\ DOMAIN f \subseteq Controls
      /\ \A d \in DOMAIN f : d \in DOMAIN state.txns /\ f[d] = state.txns[d]
  <2>1. state.txns \in [DOMAIN state.txns -> Seq(Mutations)] /\ DOMAIN state.txns \subseteq Controls
    BY <1>1 DEF TablesHold, TablesTyped
  <2>. QED BY <2>1 DEF Without
<1>. HIDE DEF f
<1>3. \A d \in DOMAIN f : d \notin state.producers =>
               \A i \in 1 .. Len(f[d]) : f[d][i].op = "delete"
  BY <1>1, <1>2 DEF TablesHold, RecordedHolds
<1>4. TablesHold(state') /\ state'.pane = state.pane
      /\ state'.producers = state.producers /\ state'.nodes = state.nodes
  BY <1>1, <1>2, <1>3, TxnsHold
<1>. QED BY <1>1, <1>4, TablesStep

\* Waits that are registered and that end.
LEMMA WaitsKeep ==
    ASSUME ObjectsInv, NEW W, state' = [state EXCEPT !.waits = W],
           UNCHANGED <<controls, channel>>
    PROVE  ObjectsInv'
<1>. DEFINE s == state
            t == [state EXCEPT !.waits = W]
<1>1. TablesHold(s) /\ Shaped(s) /\ state' = t
  BY DEF ObjectsInv, TablesHold, TablesTyped
<1>2. /\ Shaped(t) /\ SceneSame(s, t) /\ t.sources = s.sources /\ t.retained = s.retained
      /\ t.anchored = s.anchored /\ t.seen = s.seen /\ t.tickets = s.tickets
  BY <1>1 DEF Shaped, Fields, SceneSame
<1>. HIDE DEF s, t
<1>3. TablesHold(t)
  <2>1. /\ t.anchored \subseteq Controls /\ t.seen \subseteq Controls
        /\ \A u \in t.tickets : u.key \in Keys
    BY <1>1, <1>2 DEF TablesHold, TablesTyped
  <2>. QED BY <1>1, <1>2, <2>1, AsideHold
<1>. QED BY <1>1, <1>2, <1>3, TablesStep DEF s, SceneSame

\* Nothing changes but replies and bounds.
LEMMA ObjectsStill ==
    ASSUME ObjectsInv, UNCHANGED <<state, controls, channel>>
    PROVE  ObjectsInv'
BY DEF ObjectsInv, ThreadsTyped, ThreadsAgree, OwnersCancelled

\* A wait is answered at once or registered (WAIT_SOURCE).
LEMMA WaitKeeps ==
    ASSUME ObjectsInv, NEW c \in Controls, NEW i \in SourceIds, NEW condition,
           WaitSource(c, i, condition)
    PROVE  ObjectsInv'
<1>. DEFINE w == [c |-> c, source |-> i, condition |-> condition, number |-> budget.waits]
<1>1. UNCHANGED <<controls, channel>>
  BY DEF WaitSource, Serving
<1>2. UNCHANGED state \/ state' = [state EXCEPT !.waits = state.waits \cup {w}]
  BY DEF WaitSource
<1>. HIDE DEF w
<1>3. CASE UNCHANGED state
  BY <1>1, <1>3, ObjectsStill
<1>4. CASE state' = [state EXCEPT !.waits = state.waits \cup {w}]
  BY <1>1, <1>4, WaitsKeep
<1>. QED BY <1>2, <1>3, <1>4

\* A wait is cancelled or runs out of time.
LEMMA EndWaitKeeps ==
    ASSUME ObjectsInv, EndWait
    PROVE  ObjectsInv'
<1>1. PICK w \in state.waits : /\ state' = [state EXCEPT !.waits = state.waits \ {w}]
                               /\ UNCHANGED <<controls, channel>>
  BY DEF EndWait
<1>. QED BY <1>1, WaitsKeep

\* A connection ends, and its producer is cleaned up (cleanup_producer).
LEMMA CloseKeeps ==
    ASSUME ObjectsInv, NEW c \in Controls, CloseControl(c)
    PROVE  ObjectsInv'
<1>. DEFINE v == [controls[c] EXCEPT !.at = "done"]
<1>1. /\ controls[c] \in ControlThreads /\ controls \in [Controls -> ControlThreads]
      /\ channel \in [Channels -> ChannelThreads] /\ TablesHold(state)
  BY DEF ObjectsInv, ThreadsTyped
<1>2. /\ controls' = [controls EXCEPT ![c] = v] /\ UNCHANGED channel
      /\ state' = cleanup_producer(state, c, TRUE)
  BY <1>1 DEF CloseControl, Moves
<1>3. /\ v \in ControlThreads /\ v.at = "done"
      /\ v.owner = controls[c].owner /\ v.cancelled = controls[c].cancelled
  BY <1>1 DEF ControlThreads
<1>4. /\ TablesHold(state')
      /\ state'.pane = state.pane /\ state'.producers = state.producers \ {c}
      /\ DOMAIN state'.nodes \subseteq DOMAIN state.nodes
  BY <1>1, <1>2, ClosedHold
<1>. HIDE DEF v
<1>5. \A d \in Controls : controls'[d] = IF d = c THEN v ELSE controls[d]
  BY <1>1, <1>2
<1>6. ThreadsTyped'
  BY <1>1, <1>2, <1>3 DEF ThreadsTyped
<1>7. ThreadsAgree'
  <2>1. ThreadsAgree
    BY DEF ObjectsInv
  <2>2. \A d \in Controls : \/ controls'[d] = controls[d] /\ d # c
                            \/ controls'[d].at = "done"
    BY ONLY <1>3, <1>5
  <2>3. /\ \A d \in Controls : d # c => (d \in state'.producers <=> d \in state.producers)
        /\ \A n \in DOMAIN state'.nodes : n \in DOMAIN state.nodes
    BY ONLY <1>4
  <2>. QED
    BY ONLY <1>2, <2>1, <2>2, <2>3 DEF ThreadsAgree
<1>8. OwnersCancelled'
  <2>1. OwnersCancelled
    BY DEF ObjectsInv
  <2>2. /\ \A d \in Controls : /\ controls'[d].owner = controls[d].owner
                               /\ controls'[d].cancelled = controls[d].cancelled
        /\ channel' = channel /\ state'.pane = state.pane
    BY <1>2, <1>3, <1>4, <1>5
  <2>. QED BY ONLY <2>1, <2>2 DEF OwnersCancelled
<1>. QED BY <1>4, <1>6, <1>7, <1>8 DEF ObjectsInv

\* A connection is lost, and its producer stays.
LEMMA LoseKeeps ==
    ASSUME ObjectsInv, NEW c \in Controls, LoseControl(c)
    PROVE  ObjectsInv'
<1>. DEFINE v == [controls[c] EXCEPT !.at = "done"]
<1>1. controls[c] \in ControlThreads /\ controls \in [Controls -> ControlThreads]
  BY DEF ObjectsInv, ThreadsTyped
<1>2. controls' = [controls EXCEPT ![c] = v] /\ UNCHANGED <<state, channel>>
  BY <1>1 DEF LoseControl, Moves
<1>3. /\ v \in ControlThreads /\ v.at = "done"
      /\ v.owner = controls[c].owner /\ v.cancelled = controls[c].cancelled
  BY <1>1 DEF ControlThreads
<1>4. v.owner # Absent /\ state.pane[v.owner] = "closed" => v.cancelled
  BY <1>3 DEF ObjectsInv, OwnersCancelled
<1>. HIDE DEF v
<1>. QED BY <1>2, <1>3, <1>4, ThreadMoves

----------------------------------------------------------------------------
(* The steps of a media connection. *)

\* A media connection that moves on while the tables keep what its steps rely on.
LEMMA ChannelMoves ==
    ASSUME ObjectsInv, NEW m \in Channels, NEW v \in ChannelThreads,
           channel' = [channel EXCEPT ![m] = v], UNCHANGED controls,
           TablesHold(state'), SceneSame(state, state'),
           v.at \in {"attach", "mark"} => v.pane \in Panes,
           v.owner # Absent /\ state.pane[v.owner] = "closed" => v.cancelled
    PROVE  ObjectsInv'
<1>1. controls \in [Controls -> ControlThreads] /\ channel \in [Channels -> ChannelThreads]
  BY DEF ObjectsInv, ThreadsTyped
<1>2. \A l \in Channels : channel'[l] = IF l = m THEN v ELSE channel[l]
  BY <1>1
<1>3. ThreadsTyped'
  BY <1>1 DEF ThreadsTyped
<1>4. ThreadsAgree'
  BY <1>2 DEF ObjectsInv, ThreadsAgree, SceneSame
<1>5. OwnersCancelled'
  BY <1>2 DEF ObjectsInv, OwnersCancelled, SceneSame
<1>. QED BY <1>3, <1>4, <1>5 DEF ObjectsInv

\* The same, when it only gets to another place.
LEMMA ChannelGoes ==
    ASSUME ObjectsInv, NEW m \in Channels,
           NEW there \in {"mark", "serve", "fail", "done"},
           channel' = [channel EXCEPT ![m].at = there], UNCHANGED controls,
           TablesHold(state'), SceneSame(state, state'),
           there = "mark" => channel[m].at = "attach"
    PROVE  ObjectsInv'
<1>. DEFINE v == [channel[m] EXCEPT !.at = there]
<1>1. channel[m] \in ChannelThreads /\ channel' = [channel EXCEPT ![m] = v]
  BY DEF ObjectsInv, ThreadsTyped
<1>2. /\ v \in ChannelThreads /\ v.at = there /\ v.pane = channel[m].pane
      /\ v.owner = channel[m].owner /\ v.cancelled = channel[m].cancelled
  BY <1>1 DEF ChannelThreads
<1>3. v.at \in {"attach", "mark"} => v.pane \in Panes
  BY <1>2 DEF ObjectsInv, ThreadsAgree
<1>4. v.owner # Absent /\ state.pane[v.owner] = "closed" => v.cancelled
  BY <1>2 DEF ObjectsInv, OwnersCancelled
<1>. HIDE DEF v
<1>. QED BY <1>1, <1>2, <1>3, <1>4, ChannelMoves

\* Tables that are as they were.
LEMMA StillSame ==
    ASSUME ObjectsInv, UNCHANGED state
    PROVE  TablesHold(state') /\ SceneSame(state, state')
BY DEF ObjectsInv, SceneSame

\* A ticket is used up.
LEMMA TicketKeeps ==
    ASSUME ObjectsInv, NEW m \in Channels, TakeTicket(m)
    PROVE  ObjectsInv'
<1>1. PICK t \in state.tickets, kind \in Kinds :
        /\ channel[m].at = "hello"
        /\ state' = [state EXCEPT !.tickets = @ \ {t}]
        /\ channel' = [channel EXCEPT ![m] =
                IF t.key[1] \in state.producers /\ kind = t.kind
                THEN [@ EXCEPT !.at = "attach", !.key = t.key,
                               !.pane = state.pane_of[t.key[1]]]
                ELSE [@ EXCEPT !.at = "done"]]
        /\ UNCHANGED <<controls, replied, budget>>
  BY DEF TakeTicket
<1>. DEFINE s == state
            q == state.pane_of[t.key[1]]
            r == [state EXCEPT !.tickets = s.tickets \ {t}]
            v == [channel[m] EXCEPT !.at = "attach", !.key = t.key, !.pane = q]
<1>2. /\ TablesHold(s) /\ Shaped(s) /\ t.key \in Keys
      /\ channel[m] \in ChannelThreads /\ state' = r
  BY <1>1 DEF ObjectsInv, ThreadsTyped, TablesHold, TablesTyped
<1>3. /\ Shaped(r) /\ SceneSame(s, r) /\ r.sources = s.sources /\ r.retained = s.retained
      /\ r.anchored = s.anchored /\ r.seen = s.seen /\ r.tickets = s.tickets \ {t}
  BY <1>2 DEF Shaped, Fields, SceneSame
<1>. HIDE DEF s, r
<1>4. TablesHold(r)
  <2>1. /\ r.anchored \subseteq Controls /\ r.seen \subseteq Controls
        /\ \A u \in r.tickets : u.key \in Keys
    BY <1>2, <1>3 DEF TablesHold, TablesTyped
  <2>. QED BY <1>2, <1>3, <2>1, AsideHold
<1>5. TablesHold(state') /\ SceneSame(state, state')
  BY <1>2, <1>3, <1>4 DEF s
<1>6. CASE t.key[1] \in state.producers /\ kind = t.kind
  <2>1. channel' = [channel EXCEPT ![m] = v]
    BY <1>1, <1>6
  <2>2. q \in Panes
    BY <1>2, <1>6 DEF TablesHold, PanesOpen, s
  <2>3. /\ v \in ChannelThreads /\ v.pane = q
        /\ v.owner = channel[m].owner /\ v.cancelled = channel[m].cancelled
    BY <1>2, <2>2 DEF ChannelThreads
  <2>4. v.owner # Absent /\ state.pane[v.owner] = "closed" => v.cancelled
    BY <2>3 DEF ObjectsInv, OwnersCancelled
  <2>. HIDE DEF v, q
  <2>. QED BY <1>1, <1>5, <2>1, <2>2, <2>3, <2>4, ChannelMoves
<1>7. CASE ~(t.key[1] \in state.producers /\ kind = t.kind)
  <2>1. channel' = [channel EXCEPT ![m].at = "done"]
    BY <1>1, <1>7
  <2>. QED BY <1>1, <1>5, <2>1, ChannelGoes
<1>. QED BY <1>6, <1>7

\* A source is noted as attached or closed, and its waits are answered.
LEMMA NotedHold ==
    ASSUME ObjectsInv, NEW k \in DOMAIN state.sources, NEW there \in {"attached", "closed"},
           state' = advance_source([state EXCEPT !.sources[k].at = there], k)
    PROVE  TablesHold(state') /\ SceneSame(state, state')
<1>. DEFINE e == [state.sources[k] EXCEPT !.at = there]
            r == [state EXCEPT !.sources[k].at = there]
<1>1. TablesHold(state) /\ Shaped(state) /\ state.sources[k] \in SourceEntries
  BY DEF ObjectsInv, TablesHold, TablesTyped
<1>2. e \in SourceEntries /\ e.kind = state.sources[k].kind /\ e.bytes = state.sources[k].bytes
  BY <1>1 DEF SourceEntries
<1>3. Described(state, k, e, r)
  BY <1>1 DEF Described, Shaped, Fields
<1>4. state' = advance_source(r, k)
  OBVIOUS
<1>. HIDE DEF e, r
<1>5. TablesHold(r) /\ SceneSame(state, r)
  BY <1>1, <1>2, <1>3, DescribedHold
<1>6. TablesHold(state') /\ SceneSame(r, state')
  BY <1>4, <1>5, AdvancedHold
<1>. QED BY <1>5, <1>6 DEF SceneSame

\* A source is attached (handle_media).
LEMMA AttachKeeps ==
    ASSUME ObjectsInv, NEW m \in Channels, AttachChannel(m)
    PROVE  ObjectsInv'
<1>. DEFINE k == channel[m].key
<1>1. CASE k \notin DOMAIN state.sources
  BY <1>1, StillSame, ChannelGoes DEF AttachChannel
<1>2. CASE k \in DOMAIN state.sources
  <2>1. state' = advance_source([state EXCEPT !.sources[k].at = "attached"], k)
        /\ channel[m].at = "attach" /\ UNCHANGED controls
    BY <1>2 DEF AttachChannel
  <2>2. PICK there \in {"mark", "done"} : channel' = [channel EXCEPT ![m].at = there]
    BY <1>2 DEF AttachChannel
  <2>3. TablesHold(state') /\ SceneSame(state, state')
    BY <1>2, <2>1, NotedHold
  <2>. QED BY <2>1, <2>2, <2>3, ChannelGoes
<1>. QED BY <1>1, <1>2

\* A media connection is noted as its pane's, if that is still open.
LEMMA MarkChannelKeeps ==
    ASSUME ObjectsInv, NEW m \in Channels, MarkChannel(m)
    PROVE  ObjectsInv'
<1>. DEFINE p == channel[m].pane
            v == [channel[m] EXCEPT !.at = "serve", !.owner = p]
<1>1. channel[m] \in ChannelThreads /\ p \in Panes
  BY DEF ObjectsInv, ThreadsTyped, ThreadsAgree, MarkChannel
<1>2. TablesHold(state') /\ SceneSame(state, state') /\ UNCHANGED controls
  BY StillSame DEF MarkChannel
<1>3. CASE state.pane[p] = "open"
  <2>1. channel' = [channel EXCEPT ![m] = v]
    BY <1>3 DEF MarkChannel
  <2>2. v \in ChannelThreads /\ v.at = "serve" /\ v.owner = p
    BY <1>1 DEF ChannelThreads
  <2>. HIDE DEF v, p
  <2>. QED BY <1>2, <1>3, <2>1, <2>2, ChannelMoves
<1>4. CASE state.pane[p] # "open"
  <2>1. channel' = [channel EXCEPT ![m].at = "done"]
    BY <1>4 DEF MarkChannel
  <2>. QED BY <1>2, <2>1, ChannelGoes
<1>. QED BY <1>3, <1>4

\* A static body is ingested within the quota (ingest_record).
LEMMA BodyKeeps ==
    ASSUME ObjectsInv, NEW m \in Channels, Ingest(m)
    PROVE  ObjectsInv'
<1>. DEFINE k == channel[m].key
            r == [state EXCEPT !.sources[k].bytes = 1,
                               !.retained = @ + 1 - state.sources[k].bytes]
<1>1. /\ TablesHold(state) /\ k \in DOMAIN state.sources
      /\ state.retained + 1 - state.sources[k].bytes <= RetainLimit
      /\ state' = advance_source(r, k) /\ UNCHANGED controls
  BY DEF ObjectsInv, Ingest, Retains
<1>2. TablesHold(r) /\ SceneSame(state, r)
  BY <1>1, IngestedHold
<1>3. PICK there \in {"serve", "fail"} : channel' = [channel EXCEPT ![m].at = there]
  BY DEF Ingest, Retains
<1>. HIDE DEF k, r
<1>4. TablesHold(state') /\ SceneSame(r, state')
  BY <1>1, <1>2, AdvancedHold
<1>5. SceneSame(state, state')
  BY <1>2, <1>4 DEF SceneSame
<1>. QED BY <1>1, <1>3, <1>4, <1>5, ChannelGoes

\* A media connection ends, and the source it names counts as closed.
LEMMA CloseChannelKeeps ==
    ASSUME ObjectsInv, NEW m \in Channels, CloseChannel(m)
    PROVE  ObjectsInv'
<1>. DEFINE k == channel[m].key
<1>1. channel' = [channel EXCEPT ![m].at = "done"] /\ UNCHANGED controls
  BY DEF CloseChannel
<1>2. TablesHold(state') /\ SceneSame(state, state')
  <2>1. CASE k \notin DOMAIN state.sources
    BY <2>1, StillSame DEF CloseChannel
  <2>2. CASE k \in DOMAIN state.sources
    <3>1. state' = advance_source([state EXCEPT !.sources[k].at = "closed"], k)
      BY <2>2 DEF CloseChannel
    <3>. QED BY <2>2, <3>1, NotedHold
  <2>. QED BY <2>1, <2>2
<1>. QED BY <1>1, <1>2, ChannelGoes

\* A media connection is lost.
LEMMA LoseChannelKeeps ==
    ASSUME ObjectsInv, NEW m \in Channels, LoseChannel(m)
    PROVE  ObjectsInv'
BY StillSame, ChannelGoes DEF LoseChannel

----------------------------------------------------------------------------
(* The invariant, and what follows from it. *)

LEMMA ObjectsStart == ObjectsInit => ObjectsInv
<1>. SUFFICES ASSUME ObjectsInit PROVE ObjectsInv
  OBVIOUS
<1>1. /\ state.pane = [p \in Panes |-> "new"] /\ state.metrics = {} /\ state.producers = {}
      /\ state.pane_of = [c \in Controls |-> Absent] /\ state.anchored = {} /\ state.seen = {}
      /\ state.sources = <<>> /\ state.nodes = <<>> /\ state.txns = <<>>
      /\ state.tickets = {} /\ state.retained = 0 /\ Shaped(state)
  BY DEF ObjectsInit, Shaped, Fields
<1>2. DOMAIN state.sources = {} /\ DOMAIN state.nodes = {} /\ DOMAIN state.txns = {}
  BY <1>1
<1>3. /\ state.sources \in [{} -> SourceEntries] /\ state.nodes \in [{} -> NodeEntries]
      /\ state.txns \in [{} -> Seq(Mutations)]
  BY <1>1
<1>4. IsFiniteSet(DOMAIN state.sources)
  BY <1>2, FS_EmptySet
<1>5. TablesTyped(state)
  BY <1>1, <1>2, <1>3, <1>4 DEF TablesTyped
<1>6. RetainedOf(state, DOMAIN state.sources) = 0
  <2>1. {k \in DOMAIN state.sources : state.sources[k].bytes = 1} = {}
    BY <1>2
  <2>. QED BY <2>1, FS_EmptySet DEF RetainedOf
<1>7. SumHolds(state)
  BY <1>1, <1>6, ObjectsAssumption DEF SumHolds
<1>8. PanesOpen(state) /\ SceneHolds(state) /\ RecordedHolds(state)
  BY <1>1, <1>2 DEF PanesOpen, SceneHolds, RecordedHolds
<1>9. ThreadsTyped /\ ThreadsAgree /\ OwnersCancelled
  BY <1>1, <1>2 DEF ObjectsInit, ThreadsTyped, ThreadsAgree, OwnersCancelled,
                    ControlThreads, ChannelThreads
<1>. QED BY <1>5, <1>7, <1>8, <1>9 DEF ObjectsInv, TablesHold

\* Every step of the session actor, of a control connection and of a media connection
\* keeps the invariant.
LEMMA ObjectsStep == ObjectsInv /\ [ObjectsNext]_objects_vars => ObjectsInv'
<1>. SUFFICES ASSUME ObjectsInv, [ObjectsNext]_objects_vars PROVE ObjectsInv'
  OBVIOUS
<1>1. CASE SessionActor
  BY <1>1, IssueKeeps, MetricsKeeps, RevokeKeeps, ClearKeeps, MarkerKeeps DEF SessionActor
<1>2. CASE EndWait
  BY <1>2, EndWaitKeeps
<1>3. ASSUME NEW c \in Controls, Connection(c) PROVE ObjectsInv'
  <2>1. ASSUME Dispatch(c) PROVE ObjectsInv'
    <3>1. ASSUME NEW i \in SourceIds, NEW op \in {"create", "update", "delete"},
                 NEW n \in NodeIds, NEW a \in BOOLEAN, Record(c, Mutation(op, n, i, a))
          PROVE  ObjectsInv'
      <4>1. Mutation(op, n, i, a) \in Mutations
        BY DEF Mutation, Mutations
      <4>. QED BY <3>1, <4>1, RecordKeeps
    <3>. QED BY <2>1, <3>1, CreateKeeps, PolicyKeeps, DestroyKeeps, WaitKeeps, BeginKeeps,
                CommitKeeps, AbortKeeps DEF Dispatch
  <2>. QED BY <1>3, <2>1, AuthenticateKeeps, MarkKeeps, AdmitKeeps, CloseKeeps, LoseKeeps
           DEF Connection
<1>4. ASSUME NEW m \in Channels, Channel(m) PROVE ObjectsInv'
  BY <1>4, TicketKeeps, AttachKeeps, MarkChannelKeeps, BodyKeeps, CloseChannelKeeps,
     LoseChannelKeeps DEF Channel
<1>5. CASE UNCHANGED objects_vars
  BY <1>5, ObjectsStill DEF objects_vars
<1>. QED BY <1>1, <1>2, <1>3, <1>4, <1>5 DEF ObjectsNext

\* The invariant of the object tables holds in every state (media.rs, every section
\* under the state lock).
THEOREM ObjectsKept == ObjectsSpec => []ObjectsInv
BY ObjectsStart, ObjectsStep, PTL DEF ObjectsSpec

\* No producer works for a pane that is closed, and no connection that claims one is
\* left running (revoke_pane against mark_connection_pane and the admission).
THEOREM ClosedPanesAreLeft == ObjectsSpec => []NoProducerForClosedPane
<1>1. ObjectsInv => NoProducerForClosedPane
  BY DEF ObjectsInv, TablesHold, PanesOpen, OwnersCancelled, NoProducerForClosedPane
<1>. QED BY <1>1, ObjectsKept, PTL

\* Every node shows a source that exists, in an open pane, and outlives its producer
\* only as a poster (apply_transaction, remove_source, cleanup_producer, revoke_pane).
THEOREM ScenesAreClosed == ObjectsSpec => []SceneIsClosed
<1>1. ObjectsInv => SceneIsClosed
  <2>. SUFFICES ASSUME ObjectsInv PROVE SceneIsClosed
    OBVIOUS
  <2>1. TablesTyped(state) /\ SumHolds(state) /\ SceneHolds(state)
    BY DEF ObjectsInv, TablesHold
  <2>2. state.retained \in 0 .. RetainLimit
    BY <2>1, ObjectsAssumption DEF TablesTyped, SumHolds
  <2>3. ObjectsTypeOK
    BY <2>1, <2>2 DEF TablesTyped, ObjectsTypeOK
  <2>4. \A n \in DOMAIN state.nodes :
            /\ KeyOf(state, n) \in DOMAIN state.sources
            /\ state.pane[state.nodes[n].pane] = "open"
            /\ n[1] \notin state.producers => Poster(state, n)
    BY <2>1 DEF SceneHolds
  <2>. QED BY <2>3, <2>4 DEF SceneIsClosed, KeyOf, Poster
<1>. QED BY <1>1, ObjectsKept, PTL

\* The aggregate that the retention quota is checked against is what the sources keep
\* (ingest_record, prune_orphaned_sources, remove_source).
THEOREM QuotaIsExact == ObjectsSpec => []RetainedIsSum
<1>1. ObjectsInv => RetainedIsSum
  BY DEF ObjectsInv, TablesHold, SumHolds, RetainedIsSum
<1>. QED BY <1>1, ObjectsKept, PTL
=============================================================================
