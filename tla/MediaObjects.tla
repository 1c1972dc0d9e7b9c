---------------------------- MODULE MediaObjects ----------------------------
(***************************************************************************)
(* The object tables of the virtual presenter (src/src/media.rs): pane     *)
(* capabilities, producers, sources, media tickets, scene nodes,           *)
(* transactions and source waits.  The session actor opens, measures and   *)
(* revokes panes while a thread per connection authenticates, dispatches   *)
(* control records or attaches a media channel; every step below is one    *)
(* section under the state lock.                                           *)
(*                                                                         *)
(* Abstractions.  A control connection c stands for the producer it        *)
(* becomes (producer identifiers are never reused).  A source keeps one    *)
(* unit of retained bytes or none, every producer has one transaction and  *)
(* one anchor, and a ticket is numbered by its creation.  Geometry, codec  *)
(* validation and negotiated features are left out; a request they would   *)
(* refuse changes nothing.  A cancelled connection may still dispatch what *)
(* it has read.                                                            *)
(***************************************************************************)
EXTENDS Naturals, Sequences, FiniteSets

CONSTANTS
    Panes,          \* pane identifiers
    Controls,       \* control connections
    Channels,       \* media connections
    SourceIds,      \* source identifiers of a producer
    NodeIds,        \* node identifiers of a producer
    MaxSources,     \* max_sources
    RetainLimit,    \* aggregate_retained_bytes, in bodies
    MaxCreations,   \* bound: sources created
    MaxTxns,        \* bound: transactions begun
    MaxWaits,       \* bound: waits registered
    MaxMutations,   \* bound: mutations recorded in a transaction
    Absent          \* an absent value

ASSUME ObjectsAssumption ==
    /\ {MaxSources, RetainLimit, MaxCreations, MaxTxns, MaxWaits, MaxMutations}
         \subseteq Nat
    /\ Absent \notin Panes \cup Controls

VARIABLES
    state,     \* State, under its lock
    controls,   \* the threads of the control connections
    channel,   \* the threads of the media connections
    replied,   \* the last WAIT_SATISFIED: what was awaited, what answered
    budget     \* what the bounds still allow

objects_vars == <<state, controls, channel, replied, budget>>

Kinds == {"static", "timed"}
Conditions == {"attached", "closed"}
Keys == Controls \X SourceIds

Without(f, S) == [k \in DOMAIN f \ S |-> f[k]]
With(f, k, e) == [j \in DOMAIN f \cup {k} |-> IF j = k THEN e ELSE f[j]]
NewSource(kind) ==
    [kind |-> kind, bytes |-> 0, at |-> "never", deny |-> FALSE]

----------------------------------------------------------------------------
(* Operations on the tables. *)

Referenced(s) == {<<n[1], s.nodes[n].source>> : n \in DOMAIN s.nodes}
RetainedOf(s, K) == Cardinality({k \in K : s.sources[k].bytes = 1})

\* Mutant: the bytes of pruned sources stay counted.
prune_orphaned_sourcesCounted(s) ==
    [s EXCEPT !.sources = Without(@, {k \in DOMAIN s.sources :
                                k[1] \notin s.producers /\ k \notin Referenced(s)})]

\* prune_orphaned_sources.
prune_orphaned_sources(s) ==
    LET gone == {k \in DOMAIN s.sources :
                    k[1] \notin s.producers /\ k \notin Referenced(s)}
    IN [s EXCEPT !.sources = Without(@, gone), !.retained = @ - RetainedOf(s, gone)]

\* Everything of the producers C goes, except, when preserve is set, a static body
\* shown at an anchor whose poster may be kept.  A node only refers to sources of its
\* own producer, so that several producers may be cleaned up in one go.
cleanup_producers(s, C, preserve) ==
    LET kept(n) == /\ preserve
                   /\ s.nodes[n].anchor /\ n[1] \in s.anchored
                   /\ <<n[1], s.nodes[n].source>> \in DOMAIN s.sources
                   /\ LET src == s.sources[<<n[1], s.nodes[n].source>>]
                      IN src.kind = "static" /\ src.bytes = 1 /\ ~src.deny
        own == {n \in DOMAIN s.nodes : n[1] \in C}
        nodes == [n \in DOMAIN s.nodes |->
                    IF n \in own THEN [s.nodes[n] EXCEPT !.retained = kept(n)]
                    ELSE s.nodes[n]]
    IN prune_orphaned_sources(
          [s EXCEPT !.producers = @ \ C, !.anchored = @ \ C,
                    !.txns = Without(@, C),
                    !.tickets = {t \in @ : t.key[1] \notin C},
                    !.waits = {w \in @ : w.c \notin C},
                    !.nodes = Without(nodes, {n \in own : ~kept(n)})])

\* cleanup_producer: nothing, when the producer is already gone.
cleanup_producer(s, c, preserve) ==
    IF c \in s.producers THEN cleanup_producers(s, {c}, preserve) ELSE s

\* remove_source.
remove_source(s, k) ==
    [s EXCEPT !.sources = Without(@, {k}), !.retained = @ - RetainedOf(s, {k}),
              !.nodes = Without(@, {n \in DOMAIN @ :
                                      n[1] = k[1] /\ s.nodes[n].source = k[2]})]

\* evaluate_wait, of a condition on the state of one source.
evaluate_wait(src, w) ==
    CASE w.condition = "attached" -> src.at \in {"attached", "closed"}
      [] w.condition = "closed" -> src.at = "closed"

\* advance_source: a change of source k answers every wait of its producer that
\* the source now satisfies.
Satisfied(s, k) ==
    IF k[1] \in s.producers
    THEN {w \in s.waits : w.c = k[1] /\ evaluate_wait(s.sources[k], w)} ELSE {}
advance_source(s, k) == [s EXCEPT !.waits = @ \ Satisfied(s, k)]
Replies(s, k) ==
    LET W == Satisfied(s, k)
    IN IF W = {} THEN replied
       ELSE {[awaited |-> <<w.c, w.source>>, by |-> k] : w \in W}

----------------------------------------------------------------------------
(* The session actor. *)

IssueCapability(p) ==
    /\ state.pane[p] = "new"
    /\ state' = [state EXCEPT !.pane[p] = "open"]
    /\ UNCHANGED <<controls, channel, replied, budget>>

UpdateMetrics(p) ==
    /\ state.pane[p] = "open" /\ p \notin state.metrics
    /\ state' = [state EXCEPT !.metrics = @ \cup {p}]
    /\ UNCHANGED <<controls, channel, replied, budget>>

\* The producers of the pane are cleaned up once its capability is gone.
Cleaned(s, p) ==
    cleanup_producers([s EXCEPT !.pane[p] = "closed"],
                      {c \in s.producers : s.pane_of[c] = p}, FALSE)

\* Mutant: retained nodes survive their pane.
revoke_paneKeepingNodes(s, p) ==
    [Cleaned(s, p) EXCEPT !.metrics = @ \ {p}]

\* revoke_pane: the capability, its producers, its nodes, and its measures.
revoke_pane(s, p) ==
    LET cleaned == Cleaned(s, p)
        gone == {n \in DOMAIN cleaned.nodes : cleaned.nodes[n].pane = p}
    IN [prune_orphaned_sources([cleaned EXCEPT !.nodes = Without(@, gone)])
            EXCEPT !.metrics = @ \ {p}]

\* The pane is closed: the connections that are known to be its own are cancelled.
RevokePane(p) ==
    LET cancel(t) == IF t.owner = p THEN [t EXCEPT !.cancelled = TRUE] ELSE t
    IN /\ state.pane[p] = "open"
       /\ state' = revoke_pane(state, p)
       /\ controls' = [c \in Controls |-> cancel(controls[c])]
       /\ channel' = [m \in Channels |-> cancel(channel[m])]
       /\ UNCHANGED <<replied, budget>>

\* observe_marker: the producer's anchor gets its place.
ObserveMarker(c) ==
    /\ c \in state.producers \ (state.anchored \cup state.seen)
    /\ state' = [state EXCEPT !.anchored = @ \cup {c}, !.seen = @ \cup {c}]
    /\ UNCHANGED <<controls, channel, replied, budget>>

\* clear_anchors: the pane's screen was cleared.
ClearAnchors(p) ==
    LET here == {c \in state.producers : state.pane_of[c] = p}
        gone == {n \in DOMAIN state.nodes :
                    state.nodes[n].pane = p /\ state.nodes[n].retained}
    IN /\ state.pane[p] = "open"
       /\ (here \cap state.anchored) \cup gone # {}
       /\ state' = prune_orphaned_sources(
                      [state EXCEPT !.anchored = @ \ here, !.nodes = Without(@, gone)])
       /\ UNCHANGED <<controls, channel, replied, budget>>

----------------------------------------------------------------------------
(* A control connection: handle_control. *)

At(c, here) == controls[c].at = here
Moves(c, there) == controls' = [controls EXCEPT ![c].at = there]

\* The token names an open pane.
Authenticate(c, p) ==
    /\ At(c, "hello") /\ state.pane[p] = "open"
    /\ controls' = [controls EXCEPT ![c].at = "mark", ![c].pane = p]
    /\ UNCHANGED <<state, channel, replied, budget>>

\* mark_connection_pane.
MarkConnection(c) ==
    /\ At(c, "mark")
    /\ IF state.pane[controls[c].pane] = "open"
       THEN controls' = [controls EXCEPT ![c].at = "admit",
                                         ![c].owner = controls[c].pane]
       ELSE Moves(c, "done")
    /\ UNCHANGED <<state, channel, replied, budget>>

\* Mutant: a pane that has no measures admits producers.
AdmitUnmeasured(c) ==
    /\ At(c, "admit")
    /\ Moves(c, "serve")
    /\ state' = [state EXCEPT !.producers = @ \cup {c}, !.pane_of[c] = controls[c].pane]
    /\ UNCHANGED <<channel, replied, budget>>

\* The producer is admitted while its pane has usable measures.
Admit(c) ==
    LET p == controls[c].pane
    IN /\ At(c, "admit")
       /\ IF p \in state.metrics
          THEN /\ Moves(c, "serve")
               /\ state' = [state EXCEPT !.producers = @ \cup {c}, !.pane_of[c] = p]
          ELSE Moves(c, "done") /\ UNCHANGED state
       /\ UNCHANGED <<channel, replied, budget>>

Serving(c) == At(c, "serve") /\ UNCHANGED <<controls, channel>>

\* CREATE_*: the tables are not asked whether the producer is still there.
CreateSource(c, i, kind) ==
    LET k == <<c, i>>
    IN /\ Serving(c) /\ budget.creations > 0
       /\ Cardinality(DOMAIN state.sources) < MaxSources
       /\ k \notin DOMAIN state.sources
       /\ state' = [state EXCEPT
             !.sources = With(@, k, NewSource(kind)),
             !.tickets = @ \cup {[key |-> k, kind |-> kind,
                                  number |-> budget.creations]}]
       /\ budget' = [budget EXCEPT !.creations = @ - 1]
       /\ UNCHANGED replied

\* SET_SOURCE_POLICY may only tighten; modelled for the poster policy.
SetSourcePolicy(c, i) ==
    LET k == <<c, i>>
    IN /\ Serving(c)
       /\ c \in state.producers /\ k \in DOMAIN state.sources
       /\ ~state.sources[k].deny
       /\ state' = advance_source([state EXCEPT !.sources[k].deny = TRUE], k)
       /\ replied' = Replies(state, k)
       /\ UNCHANGED budget

DestroySource(c, i) ==
    /\ Serving(c)
    /\ <<c, i>> \in DOMAIN state.sources
    /\ state' = remove_source(state, <<c, i>>)
    /\ UNCHANGED <<replied, budget>>

\* BEGIN_TXN: the new transaction is in the table when the old one is noticed.
BeginTxn(c) ==
    /\ Serving(c) /\ budget.txns > 0
    /\ state' = [state EXCEPT !.txns = With(@, c, <<>>)]
    /\ budget' = [budget EXCEPT !.txns = @ - 1]
    /\ UNCHANGED replied

Mutation(op, n, i, anchor) == [op |-> op, node |-> n, source |-> i, anchor |-> anchor]

\* CREATE_NODE, UPDATE_NODE and DELETE_NODE are only recorded.
Record(c, m) ==
    /\ Serving(c)
    /\ c \in DOMAIN state.txns
    /\ m.op # "delete" => c \in state.producers
    /\ Len(state.txns[c]) < MaxMutations
    /\ state' = [state EXCEPT !.txns[c] = Append(@, m)]
    /\ UNCHANGED <<replied, budget>>

\* validate_node and the checks of apply_transaction for one mutation of the nodes.
Valid(s, nodes, c, m) ==
    IF m.op = "delete" THEN <<c, m.node>> \in DOMAIN nodes
    ELSE /\ <<c, m.source>> \in DOMAIN s.sources
         /\ m.anchor => c \in s.anchored
         /\ (m.op = "create") = (<<c, m.node>> \notin DOMAIN nodes)

Applied(s, nodes, c, m) ==
    IF m.op = "delete" THEN Without(nodes, {<<c, m.node>>})
    ELSE With(nodes, <<c, m.node>>, [pane |-> s.pane_of[c], source |-> m.source,
                                     anchor |-> m.anchor, retained |-> FALSE])

\* apply_transaction: all mutations or none, on a copy of the nodes; the transaction
\* is gone either way.
apply_transaction(s, c) ==
    LET txn == s.txns[c]
        after[i \in 0 .. Len(txn)] ==
            IF i = 0 THEN [ok |-> TRUE, nodes |-> s.nodes]
            ELSE IF after[i - 1].ok /\ Valid(s, after[i - 1].nodes, c, txn[i])
            THEN [ok |-> TRUE, nodes |-> Applied(s, after[i - 1].nodes, c, txn[i])]
            ELSE [ok |-> FALSE, nodes |-> s.nodes]
    IN [s EXCEPT !.txns = Without(@, {c}), !.nodes = after[Len(txn)].nodes]

CommitTxn(c) ==
    /\ Serving(c) /\ c \in DOMAIN state.txns
    /\ state' = apply_transaction(state, c)
    /\ UNCHANGED <<replied, budget>>

AbortTxn(c) ==
    /\ Serving(c) /\ c \in DOMAIN state.txns
    /\ state' = [state EXCEPT !.txns = Without(@, {c})]
    /\ UNCHANGED <<replied, budget>>

\* WAIT_SOURCE: answered at once, or registered.
WaitSource(c, i, condition) ==
    LET k == <<c, i>>
        w == [c |-> c, source |-> i, condition |-> condition, number |-> budget.waits]
    IN /\ Serving(c) /\ budget.waits > 0
       /\ k \in DOMAIN state.sources
       /\ budget' = [budget EXCEPT !.waits = @ - 1]
       /\ IF evaluate_wait(state.sources[k], w)
          THEN replied' = {[awaited |-> k, by |-> k]} /\ UNCHANGED state
          ELSE /\ c \in state.producers
               /\ state' = [state EXCEPT !.waits = @ \cup {w}]
               /\ UNCHANGED replied

\* CANCEL_WAIT, and the timer of a wait.
EndWait ==
    \E w \in state.waits :
        /\ state' = [state EXCEPT !.waits = @ \ {w}]
        /\ UNCHANGED <<controls, channel, replied, budget>>

\* The connection ends: by GOODBYE, by its peer, or because it was cancelled.
CloseControl(c) ==
    /\ At(c, "serve")
    /\ Moves(c, "done")
    /\ state' = cleanup_producer(state, c, TRUE)
    /\ UNCHANGED <<channel, replied, budget>>

\* WELCOME or an ERROR reply cannot be written: handle_control returns past the
\* cleanup, and the producer stays until its pane is closed.
LoseControl(c) ==
    /\ At(c, "serve")
    /\ Moves(c, "done")
    /\ UNCHANGED <<state, channel, replied, budget>>

----------------------------------------------------------------------------
(* A media connection: handle_media. *)

\* The ticket is used up, and its producer's pane noted.
TakeTicket(m) ==
    \E t \in state.tickets, kind \in Kinds :
        /\ channel[m].at = "hello"
        /\ state' = [state EXCEPT !.tickets = @ \ {t}]
        /\ channel' = [channel EXCEPT ![m] =
                IF t.key[1] \in state.producers /\ kind = t.kind
                THEN [@ EXCEPT !.at = "attach", !.key = t.key,
                               !.pane = state.pane_of[t.key[1]]]
                ELSE [@ EXCEPT !.at = "done"]]
        /\ UNCHANGED <<controls, replied, budget>>

\* The source counts as attached before the connection is known to be the pane's.
AttachChannel(m) ==
    LET k == channel[m].key
        s == [state EXCEPT !.sources[k].at = "attached"]
    IN /\ channel[m].at = "attach"
       /\ IF k \notin DOMAIN state.sources
          THEN /\ channel' = [channel EXCEPT ![m].at = "done"]
               /\ UNCHANGED <<state, replied>>
          ELSE /\ state' = advance_source(s, k)
               /\ replied' = Replies(s, k)
               /\ channel' = [channel EXCEPT ![m].at =
                                IF k[1] \in state.producers THEN "mark" ELSE "done"]
       /\ UNCHANGED <<controls, budget>>

MarkChannel(m) ==
    LET p == channel[m].pane
    IN /\ channel[m].at = "mark"
       /\ channel' = [channel EXCEPT ![m] =
                        IF state.pane[p] = "open"
                        THEN [@ EXCEPT !.at = "serve", !.owner = p]
                        ELSE [@ EXCEPT !.at = "done"]]
       /\ UNCHANGED <<state, controls, replied, budget>>

\* A record that the source's type allows, while the quota permits it.
Retains(m, allowed) ==
    LET k == channel[m].key
        s == [state EXCEPT !.sources[k].bytes = 1,
                           !.retained = @ + 1 - state.sources[k].bytes]
    IN /\ channel[m].at = "serve"
       /\ k \in DOMAIN state.sources
       /\ state.sources[k].kind = "static"
       /\ allowed
       /\ state' = advance_source(s, k)
       /\ replied' = Replies(s, k)
       /\ channel' = [channel EXCEPT ![m].at =
                        IF k[1] \in state.producers THEN "serve" ELSE "fail"]
       /\ UNCHANGED <<controls, budget>>

\* ingest_record, as far as it changes the tables: a static body is retained
\* within the aggregate quota, and replaces the one before it.  When the producer
\* is gone the body is kept and the channel then ends.
Ingest(m) ==
    Retains(m, state.retained + 1 - state.sources[channel[m].key].bytes <= RetainLimit)

\* The channel ends, or ingest fails; the source it served, or another of the
\* same name, counts as closed.
CloseChannel(m) ==
    LET k == channel[m].key
        s == [state EXCEPT !.sources[k].at = "closed"]
    IN /\ channel[m].at \in {"serve", "fail"}
       /\ channel' = [channel EXCEPT ![m].at = "done"]
       /\ IF k \in DOMAIN state.sources
          THEN state' = advance_source(s, k) /\ replied' = Replies(s, k)
          ELSE UNCHANGED <<state, replied>>
       /\ UNCHANGED <<controls, budget>>

\* The refusal of a raster delta cannot be written to the producer: handle_media
\* returns at once, and the source counts as attached from then on.
LoseChannel(m) ==
    LET k == channel[m].key
    IN /\ channel[m].at = "serve"
       /\ k \in DOMAIN state.sources /\ k[1] \in state.producers
       /\ state.sources[k].kind = "static"
       /\ channel' = [channel EXCEPT ![m].at = "done"]
       /\ UNCHANGED <<state, controls, replied, budget>>

----------------------------------------------------------------------------

ObjectsInit ==
    /\ state = [pane |-> [p \in Panes |-> "new"], metrics |-> {}, producers |-> {},
                pane_of |-> [c \in Controls |-> Absent], anchored |-> {}, seen |-> {},
                sources |-> <<>>, nodes |-> <<>>, txns |-> <<>>, tickets |-> {},
                retained |-> 0, waits |-> {}]
    /\ controls = [c \in Controls |-> [at |-> "hello", pane |-> Absent,
                                       owner |-> Absent, cancelled |-> FALSE]]
    /\ channel = [m \in Channels |-> [at |-> "hello", key |-> Absent, pane |-> Absent,
                                      owner |-> Absent, cancelled |-> FALSE]]
    /\ replied = {}
    /\ budget = [creations |-> MaxCreations, txns |-> MaxTxns, waits |-> MaxWaits]

SessionActor ==
    \/ \E p \in Panes :
        IssueCapability(p) \/ UpdateMetrics(p) \/ RevokePane(p) \/ ClearAnchors(p)
    \/ \E c \in Controls : ObserveMarker(c)

Dispatch(c) ==
    \/ \E i \in SourceIds :
        \/ \E kind \in Kinds : CreateSource(c, i, kind)
        \/ SetSourcePolicy(c, i) \/ DestroySource(c, i)
        \/ \E condition \in Conditions : WaitSource(c, i, condition)
        \/ \E op \in {"create", "update", "delete"}, n \in NodeIds, a \in BOOLEAN :
              Record(c, Mutation(op, n, i, a))
    \/ BeginTxn(c) \/ CommitTxn(c) \/ AbortTxn(c)

Connection(c) ==
    \/ \E p \in Panes : Authenticate(c, p)
    \/ MarkConnection(c) \/ Admit(c) \/ Dispatch(c) \/ CloseControl(c) \/ LoseControl(c)

Channel(m) ==
    \/ TakeTicket(m) \/ AttachChannel(m) \/ MarkChannel(m) \/ Ingest(m)
    \/ CloseChannel(m) \/ LoseChannel(m)

ObjectsNext ==
    \/ SessionActor \/ EndWait
    \/ \E c \in Controls : Connection(c)
    \/ \E m \in Channels : Channel(m)

ObjectsSpec == ObjectsInit /\ [][ObjectsNext]_objects_vars

----------------------------------------------------------------------------
(* Properties *)

\* Type correctness of the tables.
ObjectsTypeOK ==
    /\ state.pane \in [Panes -> {"new", "open", "closed"}]
    /\ state.metrics \subseteq Panes
    /\ {state.producers, state.anchored, state.seen} \subseteq SUBSET Controls
    /\ DOMAIN state.sources \subseteq Keys
    /\ DOMAIN state.nodes \subseteq Controls \X NodeIds
    /\ state.retained \in 0 .. RetainLimit

\* A pane closed at any moment between a producer's authentication and its
\* admission is noticed: no producer works for a pane that is closed, and no
\* connection that claims one is left running.
NoProducerForClosedPane ==
    /\ \A c \in state.producers : state.pane[state.pane_of[c]] = "open"
    /\ \A c \in Controls :
        controls[c].owner # Absent /\ state.pane[controls[c].owner] = "closed"
        => controls[c].cancelled
    /\ \A m \in Channels :
        channel[m].owner # Absent /\ state.pane[channel[m].owner] = "closed"
        => channel[m].cancelled

\* Whatever commits, destroys, closes and revokes interleave: every node shows a
\* source that exists in a pane that is open, and a node outlives its producer
\* only as the poster of a static body that may be kept.
SceneIsClosed ==
    ObjectsTypeOK /\ \A n \in DOMAIN state.nodes :
        LET node == state.nodes[n]
            k == <<n[1], node.source>>
        IN /\ k \in DOMAIN state.sources
           /\ state.pane[node.pane] = "open"
           /\ n[1] \notin state.producers =>
                /\ node.retained
                /\ state.sources[k].kind = "static" /\ state.sources[k].bytes = 1

\* The aggregate that the retention quota is checked against is the sum of what
\* the sources keep, through replacement, destruction, pruning and revocation.
RetainedIsSum ==
    state.retained = RetainedOf(state, DOMAIN state.sources)

\* A wait is answered by the source it was registered for.
\* The code does not meet this: README, section 3.
WaitIsScoped == \A r \in replied : r.awaited = r.by

\* A request that is refused changes nothing: what a transaction has recorded is
\* only given up when it is committed, aborted or its producer is gone.
\* The code does not meet this: README, section 3.
RefusalIsAtomic ==
    [][\A c \in DOMAIN state.txns :
        c \in DOMAIN state'.txns => Len(state'.txns[c]) >= Len(state.txns[c])]_objects_vars
=============================================================================
