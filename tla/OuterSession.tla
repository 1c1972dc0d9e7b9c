---------------------------- MODULE OuterSession ----------------------------
(***************************************************************************)
(* How the bridge worker brings an outer presenter's session to the newest *)
(* snapshot of the inner scene: run_bridge_worker in src/src/client.rs     *)
(* chooses between a playback, a scene and a source update and remembers   *)
(* failures; OuterBridge in src/src/bridge.rs reconciles sources, nodes    *)
(* and playback by requests that may each fail, and then replaces the      *)
(* session.                                                                *)
(*                                                                         *)
(* A session is the bridge's tables for it together with the presenter's   *)
(* side of it.  Node IDs are never reused within a session, so a node is   *)
(* named by its (producer, node, fragment) key.                            *)
(***************************************************************************)
EXTENDS Naturals, FiniteSets

CONSTANTS
    Keys,           \* sources of the inner scene
    Playable,       \* the videos among them: PLAY, PAUSE and EOS apply
    LinkOf,         \* the video an audio source is linked to, or Nil
    PaneOf,         \* the producer of a source
    NodeKeys,       \* nodes of the inner scene
    Of,             \* the source of a node
    Kinds,          \* what CREATE may fix for each source
    Metas,          \* versions of capture policy and descriptor
    Plays,          \* values of "the inner source is playing"
    Endings,        \* values of "the inner stream has ended"
    MaxSnapshots,   \* bound: snapshots after the first
    MaxFailures,    \* bound: requests and connections that fail
    MaxLosses,      \* bound: sources the presenter loses
    Nil             \* no ID, kind or link

ASSUME OuterSessionAssumption ==
    /\ IsFiniteSet(Keys) /\ Playable \subseteq Keys
    /\ LinkOf \in [Keys -> Playable \cup {Nil}] /\ \A k \in Playable : LinkOf[k] = Nil
    /\ Nil \notin Nat \cup Keys /\ \A k \in Keys : Nil \notin Kinds[k]
    /\ Of \in [NodeKeys -> Keys]
    /\ Metas \subseteq Nat /\ Plays \cup Endings \subseteq BOOLEAN
    /\ {MaxSnapshots, MaxFailures, MaxLosses} \subseteq Nat

VARIABLES
    wanted,    \* the newest snapshot the session actor has sent
    slot,      \* TRUE while it waits in the client's snapshot slot
    retry,     \* a BridgeSnapshotRetry is on its way to the actor
    applied,   \* active_sources and active_nodes of the worker
    force,     \* force_sources
    replace,   \* force_replacement
    bridge,    \* the session in use
    fresh,     \* the replacement under construction, or Nothing
    job,       \* the snapshot being applied and how far it is, or Nothing
    replaced,  \* diagnostic_instance_generation
    budget     \* what the bounds still allow

session_vars == <<wanted, slot, retry, applied, force, replace, bridge, fresh, job, replaced, budget>>

\* BridgeSource: kind, capture policy and descriptor, playback and end of stream.
SourceStates(k) ==
    {s \in [kind : Kinds[k], meta : Metas, playing : Plays, ended : Endings] :
        k \notin Playable => ~s.playing /\ ~s.ended}

\* A valid snapshot: a linked audio source comes with its video, a node with its source.
Snapshots ==
    UNION {{[sources |-> f, nodes |-> ns] :
              f \in {g \in [ks -> UNION {SourceStates(k) : k \in ks}] :
                         \A k \in ks : g[k] \in SourceStates(k)},
              ns \in SUBSET {n \in NodeKeys : Of[n] \in ks}} :
           ks \in {ks \in SUBSET Keys : \A k \in ks : LinkOf[k] \in ks \cup {Nil}}}

Empty == [sources |-> <<>>, nodes |-> {}]
Nothing == [none |-> TRUE]

\* A session after its handshake.
NewSession ==
    [ids |-> [k \in Keys |-> Nil], kinds |-> [k \in Keys |-> Nil],
     nodes |-> {}, active |-> <<>>, contexts |-> {}, next |-> 0,
     live |-> <<>>, scene |-> <<>>, losses |-> {}]

Without(f, ids) == [i \in DOMAIN f \ ids |-> f[i]]

----------------------------------------------------------------------------
(* compare_projection. *)

SourcesUnchanged(before, after) ==
    /\ DOMAIN before = DOMAIN after
    /\ \A k \in DOMAIN before : before[k].kind = after[k].kind

compare_projection(before, after) ==
    IF ~SourcesUnchanged(before.sources, after.sources) THEN "sources"
    ELSE IF before.nodes = after.nodes THEN "playback" ELSE "scene"

----------------------------------------------------------------------------
(* What is sent, and what the presenter does with it. *)

\* The sources to create: new, changed or lost, and audio linked to one of them.
recreate(T, S) ==
    LET changed == {k \in DOMAIN S : T.kinds[k] # S[k].kind}
    IN changed \cup {k \in DOMAIN S : LinkOf[k] \in changed}

\* The upstream sources a reconciliation leaves behind.
obsolete(T, S) ==
    {T.ids[k] : k \in {k \in Keys : T.ids[k] # Nil
                                    /\ (k \notin DOMAIN S \/ k \in recreate(T, S))}}

\* The upstream ID each source gets; videos are created before audio.
FreshIds(T, ks) ==
    CHOOSE f \in [ks -> T.next + 1 .. T.next + Cardinality(ks)] :
        \A a, b \in ks : /\ f[a] = f[b] => a = b
                         /\ LinkOf[a] = b => f[b] < f[a]

\* create_sources for ks, of which the presenter has made the ones in made.
create_sources(T, S, ks, made) ==
    LET f   == FreshIds(T, ks)
        ids == [k \in Keys |-> IF k \in ks THEN f[k]
                               ELSE IF k \in DOMAIN S THEN T.ids[k] ELSE Nil]
        new(k) == [kind |-> S[k].kind, meta |-> S[k].meta, playing |-> FALSE, eos |-> 0,
                   link |-> IF LinkOf[k] = Nil THEN Nil ELSE ids[LinkOf[k]], lost |-> FALSE]
    IN [T EXCEPT !.ids = ids,
                 !.kinds = [k \in Keys |-> IF k \in made THEN S[k].kind
                                           ELSE IF k \in DOMAIN S THEN T.kinds[k] ELSE Nil],
                 !.next = @ + Cardinality(ks),
                 !.live = [i \in DOMAIN T.live \cup {f[k] : k \in made} |->
                             IF \E k \in made : f[k] = i
                             THEN new(CHOOSE k \in made : f[k] = i) ELSE T.live[i]]]

\* SET_SOURCE_POLICY and UPDATE_SOURCE_DESCRIPTOR of the sources that were kept.
SendMeta(T, S, made) ==
    LET ks == {k \in DOMAIN S \cap DOMAIN T.active : k \notin made /\ S[k].meta # T.active[k].meta}
    IN [T EXCEPT !.live = [i \in DOMAIN @ |->
          IF \E k \in ks : T.ids[k] = i
          THEN [@[i] EXCEPT !.meta = S[CHOOSE k \in ks : T.ids[k] = i].meta] ELSE @[i]]]

Usable(T, k) == T.ids[k] \in DOMAIN T.live /\ ~T.live[T.ids[k]].lost

\* The transaction is refused when it updates or deletes a node that is gone, or
\* shows a source that is.
SceneAccepted(T, nodes) ==
    /\ T.nodes \subseteq DOMAIN T.scene
    /\ \A n \in nodes : Usable(T, Of[n])

reconcile_nodes(T, nodes) ==
    [T EXCEPT !.nodes = nodes, !.scene = [n \in nodes |-> T.ids[Of[n]]]]

\* update_playback from old to S, and then PLAY and EOS of the sources just made.
Sent(T, S, before, made) ==
    LET changed == {k \in DOMAIN S \cap DOMAIN before \cap Playable :
                        before[k].playing # S[k].playing}
        again   == {k \in made \cap Playable : S[k].playing}
        Ends(k) == (IF k \in DOMAIN before /\ ~before[k].ended /\ S[k].ended THEN 1 ELSE 0)
                   + (IF k \in made /\ S[k].ended THEN 1 ELSE 0)
    IN [touched |-> changed \cup again \cup {k \in DOMAIN S \cap Playable : Ends(k) > 0},
        live |-> [i \in DOMAIN T.live |->
           IF \E k \in DOMAIN S \cap Playable : T.ids[k] = i
           THEN LET k == CHOOSE k \in DOMAIN S : T.ids[k] = i
                IN [T.live[i] EXCEPT
                      !.playing = IF k \in changed \cup again THEN S[k].playing ELSE @,
                      !.eos = @ + Ends(k)]
           ELSE T.live[i]]]

----------------------------------------------------------------------------
(* The session actor and the presenter. *)

\* A capture policy is not relaxed, and a descriptor's revision advances.  A stream
\* that has ended stays so: one epoch.
SendSnapshot ==
    \E s \in Snapshots :
        /\ budget.snapshots > 0 /\ s # wanted
        /\ \A k \in DOMAIN s.sources \cap DOMAIN wanted.sources :
               /\ s.sources[k].meta >= wanted.sources[k].meta
               /\ wanted.sources[k].ended => s.sources[k].ended
        /\ wanted' = s /\ slot' = TRUE
        /\ budget' = [budget EXCEPT !.snapshots = @ - 1]
        /\ UNCHANGED <<retry, applied, force, replace, bridge, fresh, job, replaced>>

\* BridgeSnapshotRetry: the snapshot is sent again.
Resend ==
    /\ retry
    /\ retry' = FALSE /\ slot' = TRUE
    /\ UNCHANGED <<wanted, applied, force, replace, bridge, fresh, job, replaced, budget>>

\* The presenter takes the nodes of a source it has lost with it.
Loses(T, i) ==
    [T EXCEPT !.live[i].lost = TRUE,
              !.scene = Without(@, {n \in DOMAIN @ : @[n] = i}),
              !.losses = @ \cup {i}]

\* SOURCE_LOST, in the session in use or in its replacement.
SourceLost ==
    \E i \in DOMAIN bridge.live :
        /\ budget.losses > 0 /\ ~bridge.live[i].lost
        /\ budget' = [budget EXCEPT !.losses = @ - 1]
        /\ bridge' = Loses(bridge, i)
        /\ UNCHANGED <<wanted, slot, retry, applied, force, replace, fresh, job, replaced>>

SourceLostInReplacement ==
    /\ fresh # Nothing
    /\ \E i \in DOMAIN fresh.live :
           /\ budget.losses > 0 /\ ~fresh.live[i].lost
           /\ budget' = [budget EXCEPT !.losses = @ - 1]
           /\ fresh' = Loses(fresh, i)
           /\ UNCHANGED <<wanted, slot, retry, applied, force, replace, bridge, job, replaced>>

----------------------------------------------------------------------------
(* The bridge worker. *)

\* take_source_losses; a loss of a source already left behind is nobody's.
TakeLosses ==
    LET keys == {k \in Keys : bridge.ids[k] \in bridge.losses}
    IN /\ job = Nothing /\ bridge.losses # {}
       /\ bridge' = [bridge EXCEPT !.losses = {},
                         !.kinds = [k \in Keys |-> IF k \in keys THEN Nil ELSE @[k]]]
       /\ force' = (force \/ keys # {}) /\ retry' = (retry \/ keys # {})
       /\ UNCHANGED <<wanted, slot, applied, replace, fresh, job, replaced, budget>>

\* A retained body could not be forwarded: complete_dropped_deliveries.
DropRetained ==
    /\ job = Nothing /\ budget.failures > 0
    /\ budget' = [budget EXCEPT !.failures = @ - 1]
    /\ force' = TRUE /\ replace' = TRUE /\ retry' = TRUE
    /\ UNCHANGED <<wanted, slot, applied, bridge, fresh, job, replaced>>

Phases(change) ==
    CASE change = "playback" -> "playback"
      [] change = "scene"    -> "nodes"
      [] change = "sources"  -> IF replace THEN "pause" ELSE "contexts"

TakeSnapshot ==
    LET change == IF force THEN "sources" ELSE compare_projection(applied, wanted)
    IN /\ job = Nothing /\ slot
       /\ slot' = FALSE
       /\ job' = [snap |-> wanted, change |-> change, phase |-> Phases(change),
                  made |-> {}, gone |-> {}]
       /\ UNCHANGED <<wanted, retry, applied, force, replace, bridge, fresh, replaced, budget>>

Target == IF fresh = Nothing THEN bridge ELSE fresh

Becomes(T) == IF fresh = Nothing THEN bridge' = T /\ UNCHANGED fresh
                              ELSE fresh' = T /\ UNCHANGED bridge

\* A phase has gone through.
Advance(T, to, made, gone) ==
    /\ Becomes(T)
    /\ job' = [job EXCEPT !.phase = to, !.made = made, !.gone = gone]
    /\ UNCHANGED <<wanted, slot, retry, applied, force, replace, replaced, budget>>

\* Mutant: the worker goes on with a session it is uncertain of.
ApplyFailsOptimistic ==
    /\ job' = Nothing /\ fresh' = Nothing
    /\ force' = TRUE /\ retry' = TRUE
    /\ UNCHANGED <<wanted, slot, applied, replace, replaced>>

\* Mutant: the actor is not asked for the snapshot again.
ApplyFailsSilently ==
    /\ job' = Nothing /\ fresh' = Nothing
    /\ force' = TRUE /\ replace' = TRUE
    /\ UNCHANGED <<wanted, slot, retry, applied, replaced>>

\* The snapshot is given up, a replacement dropped, and the next apply replaces.
ApplyFails ==
    /\ job' = Nothing /\ fresh' = Nothing
    /\ force' = TRUE /\ replace' = TRUE /\ retry' = TRUE
    /\ UNCHANGED <<wanted, slot, applied, replaced>>

\* rebuild: a failed reconciliation of the session in use is followed by one
\* attempt with a replacement; any other failure ends the apply.
Fails ==
    IF fresh = Nothing /\ job.change = "sources" /\ ~replace
    THEN /\ job' = [job EXCEPT !.phase = "pause"]
         /\ UNCHANGED <<wanted, slot, retry, applied, force, replace, fresh, replaced>>
    ELSE ApplyFails

At(phase) == job # Nothing /\ job.phase = phase

\* sync_pane_contexts.
Contexts ==
    /\ At("contexts")
    /\ Advance([Target EXCEPT !.contexts = {PaneOf[k] : k \in DOMAIN job.snap.sources}],
               "create", {}, {})

Create ==
    LET S == job.snap.sources
        T == Target
    IN /\ At("create")
       /\ Advance(create_sources(T, S, recreate(T, S), recreate(T, S)), "meta",
                  recreate(T, S), obsolete(T, S))

UpdateMeta ==
    /\ At("meta")
    /\ Advance(SendMeta(Target, job.snap.sources, job.made), "nodes", job.made, job.gone)

Nodes ==
    /\ At("nodes") /\ SceneAccepted(Target, job.snap.nodes)
    /\ Advance(reconcile_nodes(Target, job.snap.nodes), "playback", job.made, job.gone)

\* The previous state is the worker's for a playback or scene update, and the
\* bridge's own for a reconciliation.
Previous == IF job.change = "sources" THEN Target.active ELSE applied.sources

Playback ==
    LET plays == Sent(Target, job.snap.sources, Previous, job.made)
    IN /\ At("playback")
       /\ \A k \in plays.touched : Usable(Target, k)
       /\ Advance([Target EXCEPT !.live = plays.live],
                  IF job.change = "sources" THEN "destroy" ELSE "applied", job.made, job.gone)

Destroy ==
    /\ At("destroy")
    /\ Advance([Target EXCEPT !.live = Without(@, job.gone), !.active = job.snap.sources],
               "applied", job.made, {})

\* The snapshot is applied; a replacement takes the place of the old session.
Applied ==
    /\ At("applied")
    /\ bridge' = Target /\ fresh' = Nothing
    /\ replaced' = IF fresh = Nothing THEN replaced ELSE replaced + 1
    /\ applied' = job.snap
    /\ force' = FALSE /\ replace' = FALSE
    /\ job' = Nothing
    /\ UNCHANGED <<wanted, slot, retry, budget>>

\* pause_playing_sources of the old session, as far as it goes.
PauseOld ==
    \E ks \in SUBSET {k \in DOMAIN bridge.active : bridge.active[k].playing
                                                   /\ bridge.ids[k] \in DOMAIN bridge.live} :
        /\ At("pause")
        /\ bridge' = [bridge EXCEPT !.live = [i \in DOMAIN @ |->
                         IF \E k \in ks : bridge.ids[k] = i
                         THEN [@[i] EXCEPT !.playing = FALSE] ELSE @[i]]]
        /\ job' = [job EXCEPT !.phase = "connect"]
        /\ UNCHANGED <<wanted, slot, retry, applied, force, replace, fresh, replaced, budget>>

Connect ==
    /\ At("connect")
    /\ fresh' = NewSession
    /\ job' = [job EXCEPT !.phase = "contexts"]
    /\ UNCHANGED <<wanted, slot, retry, applied, force, replace, bridge, replaced, budget>>

\* What a phase may have done when one of its requests fails.
Partial ==
    LET T == Target
        S == job.snap.sources
    IN IF job.phase = "create"
       THEN {create_sources(T, S, recreate(T, S), made) : made \in SUBSET recreate(T, S)}
       ELSE IF job.phase = "nodes" /\ SceneAccepted(T, job.snap.nodes)
       THEN {T, [T EXCEPT !.scene = reconcile_nodes(T, job.snap.nodes).scene]}
       ELSE IF job.phase = "destroy"
       THEN {[T EXCEPT !.live = Without(@, g)] : g \in SUBSET job.gone}
       ELSE {T}

\* A request fails or is not answered in time.
RequestFails ==
    /\ job # Nothing
    /\ job.phase \in {"contexts", "create", "meta", "nodes", "playback", "destroy"}
    /\ budget.failures > 0
    /\ budget' = [budget EXCEPT !.failures = @ - 1]
    /\ \E T \in Partial : IF fresh = Nothing THEN bridge' = T ELSE UNCHANGED bridge
    /\ Fails

\* The presenter refuses what concerns something it has lost.
Refused ==
    /\ \/ At("nodes") /\ ~SceneAccepted(Target, job.snap.nodes)
       \/ /\ At("playback")
          /\ \E k \in Sent(Target, job.snap.sources, Previous, job.made).touched :
                 ~Usable(Target, k)
    /\ Fails
    /\ UNCHANGED <<bridge, budget>>

ConnectFails ==
    /\ At("connect") /\ budget.failures > 0
    /\ budget' = [budget EXCEPT !.failures = @ - 1]
    /\ ApplyFails
    /\ UNCHANGED bridge

----------------------------------------------------------------------------

SessionInit ==
    /\ wanted \in Snapshots /\ slot = TRUE /\ retry = FALSE
    /\ applied = Empty /\ force = FALSE /\ replace = FALSE
    /\ bridge = NewSession /\ fresh = Nothing
    /\ job = Nothing /\ replaced = 0
    /\ budget = [snapshots |-> MaxSnapshots, failures |-> MaxFailures, losses |-> MaxLosses]

BridgeWorker ==
    \/ TakeLosses \/ TakeSnapshot \/ Contexts \/ Create \/ UpdateMeta \/ Nodes \/ Playback
    \/ Destroy \/ Applied \/ PauseOld \/ Connect \/ Refused

SessionNext ==
    \/ SendSnapshot \/ Resend \/ SourceLost \/ SourceLostInReplacement \/ BridgeWorker
    \/ DropRetained \/ RequestFails \/ ConnectFails

SessionSpec == SessionInit /\ [][SessionNext]_session_vars

\* The worker's loop and the session actor run.
LiveSessionSpec == SessionSpec /\ WF_session_vars(BridgeWorker) /\ WF_session_vars(Resend)

----------------------------------------------------------------------------
(* Properties *)

\* Type correctness: the tables of a session name sources of the scene, and a
\* replacement is under construction only while a snapshot is applied.
SessionTypeOK ==
    /\ {slot, retry, force, replace} \subseteq BOOLEAN
    /\ \A k \in Keys : bridge.ids[k] \in 1 .. bridge.next \cup {Nil}
                       /\ bridge.kinds[k] \in Kinds[k] \cup {Nil}
    /\ DOMAIN bridge.live \subseteq 1 .. bridge.next
    /\ DOMAIN bridge.active \subseteq Keys /\ bridge.nodes \subseteq NodeKeys
    /\ fresh # Nothing => job # Nothing
    /\ replace => force

\* Nothing is being applied, asked for or reported.
Settled == job = Nothing /\ ~slot /\ ~retry /\ ~force /\ bridge.losses = {}

\* A linked audio source is linked to the video its presenter now shows.
LinksAgree ==
    Settled =>
        \A k \in DOMAIN wanted.sources :
            LinkOf[k] # Nil => bridge.live[bridge.ids[k]].link = bridge.ids[LinkOf[k]]

\* Whatever failed, was lost or was sent again before, a settled session is the
\* newest snapshot: the presenter has its sources, of their kinds, its nodes on
\* the right sources, and nothing else; linked audio follows the video that shows.
SessionAgrees ==
    /\ SessionTypeOK /\ LinksAgree
    /\ Settled =>
        LET S == wanted.sources
        IN /\ DOMAIN bridge.live = {bridge.ids[k] : k \in DOMAIN S}
           /\ \A k \in DOMAIN S : LET live == bridge.live[bridge.ids[k]]
                                 IN live.kind = S[k].kind /\ ~live.lost
           /\ bridge.scene = [n \in wanted.nodes |-> bridge.ids[Of[n]]]

\* A snapshot is always applied in the end, once requests no longer fail.
EventuallySettled == []<>Settled

\* A settled session plays what the snapshot says is playing.
\* The code does not meet this: README, section 3.
PlaybackAgrees ==
    Settled => \A k \in DOMAIN wanted.sources :
                   bridge.live[bridge.ids[k]].playing = wanted.sources[k].playing

\* The end of a stream is sent to an outer source once.
\* The code does not meet this: README, section 3.
EosOnce == \A i \in DOMAIN bridge.live : bridge.live[i].eos <= 1

\* A settled session has the capture policy and descriptor of the snapshot.
\* The code does not meet this: README, section 3.
MetaAgrees ==
    Settled => \A k \in DOMAIN wanted.sources :
                   bridge.live[bridge.ids[k]].meta = wanted.sources[k].meta

\* A presenter that loses a source and answers every request keeps its session.
\* The code does not meet this: README, section 3.
LossIsLocal == budget.failures = MaxFailures => replaced = 0

\* The snapshot is asked for again only by a worker about to replace the session.
\* The code does not meet this: README, section 3.
RetryReplaces == retry => replace
=============================================================================
