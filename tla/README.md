# A TLA+ model of vvmux

vvmux is a detachable terminal multiplexer. A server process per session owns the
shells, the layout and a *virtual presenter* for media; a foreground client owns the
user's terminal and the connection to the *outer presenter* (Vivido). This directory
holds TLA+ modules of the parts in which several threads, processes or messages meet,
the TLC configurations that check them on small instances, and proofs that TLAPS
checks for every value of the constants.

Paths below are relative to the repository root, which is `src/` as seen from here
(`src/session.rs` is `src/src/session.rs` in `PROJECT.json`). `PROJECT.json` lists the
components, the runs, the source lines of every definition, and the hazards the properties
are for. Where the code and what is written about it disagree is in section 3.

## 1. Inventory

### The parts and how they interact

| Part | State | Operations | Talks to |
|---|---|---|---|
| Session actor, layout (`src/session.rs`, `src/layout.rs`) | panes, tabs, tiled trees, floats, focus, zoom, pointer drag, float-edit mode | client actions, mouse, float edits, automation split/focus/close, attach, resize, process exit | bounded event channel fed by every connection, PTY thread and media thread |
| Render flow (`SessionActor::render`, `src/ipc.rs`, `TerminalOutput` in `src/client.rs`) | frame window, acknowledgements, last screen, byte-bounded output queue | render, ack, resync, attach, detach; enqueue, overflow, write | two FIFO channels between server and client |
| Automation (`src/session.rs`, `src/server.rs`, `src/automation.rs`) | open requests per connection, waits, pending input, response queue | admit, answer, deadline, worker completion, disconnect | reader thread per connection, two response writers, input workers |
| Virtual presenter, objects (`src/media.rs`) | capabilities, producers, sources, tickets, nodes, transactions, waits, retained bytes | authenticate, CREATE, ATTACH, transactions, WAIT, ingest, revoke | one lock shared by a thread per connection and the session actor |
| Media relay (`src/media.rs`, `src/session.rs`, `src/client.rs`) | credits, deliveries, projected sources, keyframe recovery, queues | ingest, deliver, acknowledge, cancel, recover, publish a projection | producer, actor, client reader, bridge worker, outer writer |
| Outer bridge, sessions (`src/client.rs`, `src/bridge.rs`) | active sources, nodes, pending snapshot, retry flags | compare, reconcile, rebuild, replace, playback and scene updates | outer presenter by pipelined requests |
| Outer bridge, control (`src/bridge.rs`) | pending, abandoned and received replies, liveness clocks | issue, await, route, probe, close | worker, reader, heartbeat share one lock |
| Outer bridge, writers (`src/bridge.rs`) | command queue, credit ledger, record sequence | write, barrier, retire, lose | worker and a thread per source |
| End-of-stream barrier (`src/media.rs`) | pending barriers, attachment generation | EOS with a barrier | a thread per barrier |
| Occlusion fragments (`src/region.rs`, `FragmentMap`) | identifiers of fragments | subtract, coalesce, assign | the projection |
| Client input (`src/client_input.rs`, `src/client.rs`) | held bytes, prefix and edit state, mode channel, stop flag | scan, feed, expire, read, drain, stop | terminal reads; the session's edit modes by messages in both directions |
| Server lifecycle (`src/server.rs`, `src/runtime.rs`, `src/platform/unix.rs`) | sockets and records of a name, shutdown flag, process groups | probe, launch, clean, bind, register, serve, remove, kill | other server processes through the file system, the launcher through a pipe |
| Gateway (`src/gateway/`) | connections, contended sessions, permits, bounded queues | attach, take over, detach, ping, yield | WebSocket clients; the session as a client; Vivid sockets of browsers |
| Terminal (`vvmux-terminal/src/lib.rs`) | grid of each screen, scrollback, cursor, region, tab stops | one per control function, resize | fed by the actor; read by the renderer, copy mode and automation |
| Screen observation (`src/session.rs`) | change sequence and history of a pane, copy view | mark, resize, copy keys, wheel, get-grid | automation callers that keep what they were given |
| Screen diff, PTY, codecs, transport, configuration, metrics, trace | bytes, files | - | - |

### What is hard here

* *Uncoordinated event sources.* The actor handles one event at a time, but the user, other
  connections, attaching clients and dying processes decide the order. State that an edit
  captured at its start is put back after events nobody expected in between.
* *Flow control across three threads and a process boundary.* A frame may be discarded by a
  full queue, half written, superseded, or acknowledged by a client that has been replaced.
* *Quotas.* Automation requests, packet credits, retained bytes and reply tables are charged in
  one place and released in many, some of them on failure paths.
* *Loss and repair of media.* A record can be lost in six places; each must lead to exactly one
  recovery, and records of an abandoned epoch must not pass for it.
* *Partial failure.* A reconciliation is a sequence of requests that may stop anywhere.
* *Deadlines.* A reply may arrive after its wait gave up; credit may never come; a silent holder
  of a session is to lose it, but not for having been quiet before.
* *Files as shared state.* Starting servers look at sockets and records that a server which died
  at any point may have left, and that another may be changing.
* *Two parsers and a mode.* Whether a key is a command depends on a mode that the other process
  may be ending, and on bytes that have not arrived.
* *Unchecked indices.* Terminal code indexes by cursor, region and tab stops that any output and
  any resize may have moved.

### What makes each part correct

Layout: what is laid out is alive, laid out once, ordered and inside its host; every live pane
is laid out; edits refer to things that exist. Rendering: the window is respected, what is
reported as rendered was on the screen, both sides agree on the screen when idle, and every
change is shown in the end. Automation: one answer per request, no leaked quota, nothing kept
for a connection that is gone. Objects: nothing outlives its owner, and quotas are charged for
exactly what is kept. Relay: credit is conserved, epochs are respected, losses are repaired.
Bridge: a settled outer session is the newest snapshot, each request is known in one place, no
wait is for ever, and the end of a stream covers every record before it. Servers: a name is never
stranded by the dead nor shared by the living. Gateway: who is attached holds the session, and a
holder is dropped only for real silence. Client input: every byte is used once, and both sides
agree on the mode. Terminal: every index is in range, and a delta leaves nothing out.

## 2. Modules

Component modules are parameterised by CONSTANTS with a named assumption each. An `MC...`
module extends one component and adds only instances of constants, symmetry sets and, for the
relay, a history variable. No configuration replaces a definition.

| Module | Models | One action is |
|---|---|---|
| `TabLayout` | a tab: sequence of tiles, floats with rectangles and pins, focus, zoom (operators only) | - |
| `SessionLayout` (extends `TabLayout`) | the actor's panes, tabs, drag, edit mode, attachment | one whole event of the actor, trailing relayout included |
| `RenderFlow` | frames between actor, client reader and terminal writer | one handler of the actor, one record read, one step of the writer |
| `Automation` | requests from the reader thread to the written answer | one event of the actor, one step of a worker or a response writer |
| `MediaObjects` | the virtual presenter's tables | one section under the state lock |
| `MediaRelay` | one video source on its way out | one section under a lock, one queue operation, one step of the bridge worker |
| `OuterSession` | the bridge worker and the outer session | one request of a reconciliation, or one decision of the worker |
| `OuterControl` | requests, replies and heartbeat of the outer control connection | one section under the control lock |
| `OuterWriter` | one outer media writer with its credit ledger | one command, one wait's end, one write |
| `RequestFate` | what `Automation` promises: the fate of every request | one event, without its means |
| `ServerLifecycle` | the launchers and servers of one name, over its files | one file-system call, one step of a thread |
| `Gateway` | browsers before one session | one turn of a connection's loop, one event of the session, one second |
| `ClientInput` | the client's input loop, its reader, the session's edit mode | one read, one message, one step of a thread |
| `Terminal` | a pane's terminal (operators only) | - |
| `PaneView` (extends `Terminal`) | a pane's changes, its copy view, a caller of get-grid | one control function, one end of a chunk, one event of the actor |
| `RenderFlowProofs`, `PaneViewProofs`, `MediaProofs`, `OuterBridgeProofs`, `ClientProofs`, `ServerProofs`, `AutomationProofs`, `SessionLayoutProofs` | theorems: `MediaProofs` about `MediaRelay`, with the history variable of `MCMediaRelay`, and `MediaObjects`, `OuterBridgeProofs` about `OuterControl` and `OuterSession`, `ServerProofs` about `ServerLifecycle` and `Gateway`, `ClientProofs` about `ClientInput` and the client's media writer `OuterWriter`, the others about the modules they are named for | - |

### Correspondence and abstractions

*SessionLayout.* Variables carry the field names of `SessionActor` and `Tab`. The frame of a float is
a `Rect`, a position and an extent on each of the two axes, moved, resized by its edges and clamped (extent
first, then position) as in `layout.rs`; what the code does twice, once per axis, is one operator.
Which motions and which edges a drag or an edit key has are constants, so any of them may come. The tiled tree is
the sequence of its leaves, without weights: where tiles are, and which neighbour a border has, is left out. Handlers that begin by abandoning the drag and the edit mode work on
`Settled`, the tabs with both put back. A process whose resize or input fails is closed by
`close_pane`, like the close of another connection. Copy mode changes no layout.

*RenderFlow.* A screen is the frame it came from. A frame has 1 to `ChunksPerFrame` chunks of
one unit; each carries the frame its diff was taken against, 0 for a full repaint. The actor's
inbox is shared by all connections, as in the code, so messages of a replaced client stay in it.
`shown` is a history variable: the newest session sequence that an intact screen of the attached
client showed. The count `queue_bytes` is kept apart from the content, because the code does.

*Automation.* Methods are grouped by how they end: at once, by closing, by a PTY writer, by a
screen wait, an exit wait, or a wait that does not depend on the pane. Conditions and deadlines
are free choices, that a pane is gone is not. Requests carry a serial number the code does not
have, to tell two uses of one identifier apart.

*MediaObjects.* A control connection is the producer it becomes. Retained bodies have one unit.
Requests that codec or geometry validation would refuse change nothing and are left out. A
connection that was cancelled may still dispatch what it had read. `replied` records the last
wait answered.

*MediaRelay.* Records have one unit of credit and of queue budget. The outer presenter is
external: it decodes a keyframe, or the record after the one it decoded. Failures of the outer
session are bounded free choices.

*OuterSession.* A session is the bridge's tables and the presenter's side of it, which may
disagree. What CREATE fixes for a source is its kind; what UPDATE may change is a version
(`Metas`). Requests may fail after or without their effect.

*OuterControl.* The presenter is external and honest: it answers each request at most once, in
any order, at any time; it may stop answering and still send events and PONGs, or fall silent. An
instant is modelled by whether the heartbeat interval has passed since.

*OuterWriter.* A record costs one credit. The socket takes or refuses what is written.

*RequestFate.* A request is unsent, open, answered, delivered or dropped. `Automation` defines the
refinement mapping (`FatesKept == Fate!Spec`): a request is open while it waits in the reader, the
event queue, a list of waits or a worker, answered while its response is queued or being written.
One event may answer several requests, so an abstract step changes a set of fates.

*ServerLifecycle.* A file holds the process that made it, and a record whether the birth of that process is with it. `pc` is the place in the start of a
server, one label per file-system call, and `remove_instance` is a subroutine with a return label.
A record may be unreadable by this build, may come without a birth (as schema 0 allows), or may be of an older build
at the older path. `met` and
`overlapped` are history variables: whether another server ran during a start, and whether two
starts overlapped. A server may crash before any step.

*Gateway.* `phase` is where a connection's loop is, `link` the state of its adapter's connection
to the session. Time is counted in seconds with ages that saturate at the constant they are
compared with. Either bounded queue may be full at any send: the loop or the adapter then ends, as in the code.
Who found which queue full decides what the loop makes of it: the event queue ends the loop, the queue to the session
or media for a browser without Vivid leave it idle (`link` is "full" or "broken").
A browser has one control connection at a time, and comes back when the session has heard of the
end of its earlier adapter.

*ClientInput.* One byte stands for each class that `PrefixParser` and `FloatEditScanner` tell apart.
A read takes any prefix of what was typed, so every way of cutting a key occurs. The
delay of a lone escape is a free choice while no byte is there. `undecided` counts the bytes read
and neither sent as input nor used by a command, and `behind` those of them that were typed behind a detach in the
same read: the loop leaves at the detach and drops the commands that follow it (`src/client.rs:371`).
An unfinished mouse report becomes input when it has `MouseCap` bytes, 64 in the code.
A key typed after a mode ends can still be cut in one place the model does not follow: bytes that the
scanner gives back at the end of a mode are sent at once and pass by an escape that
`PrefixParser` holds (`src/client.rs:329`); the gateway feeds them through its parser instead
(`src/gateway/mod.rs:848`).

*Terminal and PaneView.* A cell is one of five characters and the width of a tab that starts in it. A
control function is a record with its parameters, and `Handle` the dispatch of the byte parser.
`Starts` is a set of terminals a pane may already have; the instance builds them with `Handle`
from an empty one. A chunk of output is several `Feed` steps, ended by `Fed`, the
comparison that the code makes after it. `caller` is an automation client that merges the
rows of each answer into those it has; `wheeled` remembers that the wheel has moved the view.
Whether a row is wrapped is sent with it but is no part of the comparison that finds changed rows, in
the code as in the model, so a delta may keep a stale `wrapped`; `DeltaExact` is about cells.

## 3. Runs

All runs finish in minutes on two workers and hold. Deadlock checking is off everywhere: the
bounds on inputs, closed connections and an ended session are legitimate ends. What must not stop
is stated as liveness instead. Each module's type invariant `TypeOK` is a conjunct of one of its
safety invariants.

| Run | Question | Properties |
|---|---|---|
| `layout` | does any order of events lay out a dead pane, lay one out twice, break float order, exceed the host, leave an edit on something gone, or take a live pane or a focus out of its tab in more than the one known way? | `LayoutPanesLive`, `FloatsFitHost`, `EditTargetsLive`, `PanesKept`, `TiledFocusKept` |
| `render` | window, evidence, rendered-was-shown, agreement when idle; does the gate open again and is each change shown? | `WindowRespected`, `NoEvidenceLost`, `RenderedWasShown`, `QuietScreenAgrees`, `RenderNotStuck`, `ChangeIsShown` |
| `automation` | are quotas exact, is the request table implemented, and is every request answered or its connection ended? | `InflightAccounted`, `FatesKept`, `EveryRequestAnswered` |
| `relay` | is credit conserved, are epochs respected, and is every loss repaired while the source plays and stays shown? | `CreditExact`, `EligibleEpoch`, `SteadyRepaired` |
| `media_objects` | does nothing outlive its owner, and is retention exact? | `NoProducerForClosedPane`, `SceneIsClosed`, `RetainedIsSum` |
| `outer_session` | is a settled session the newest snapshot, linked audio linked, and the newest snapshot applied in the end? | `SessionAgrees`, `EventuallySettled` |
| `outer_control` | is each request in one table and an honest presenter's connection kept; do waits end, and are silent presenters given up? | `HonestNeverClosed`, `RequestsAccounted`, `WaitEnds`, `SilentIsClosed` |
| `outer_writer` | does an end of stream cover its records, and do worker and writer get free when the socket takes or refuses what is written? | `BarrierCovers`, `WorkerReturns`, `WriterExits` |
| `server` | is a start refused only for a server that ran; is the one that serves alone, reachable, and robbed by nobody? | `RefusalJustified`, `ServingOwnsName` |
| `gateway` | does an attached loop hold the session; is a holder dropped only after a full interval of pings, and a frozen one in the end? | `HolderAgrees`, `FullIntervalOfPings`, `SilentYields` |
| `client_input` | is every byte used once, but for those behind a detach; do both sides agree on the edit mode; is a held escape decided; does a stopped client end, but for one case? | `BytesAccounted`, `QuietModesAgree`, `HeldEscapeDecided`, `StopsUnlessFull` |
| `pane_view` | are all unchecked indices in range; has a caller that merges deltas the cells on the screen? | `IndicesInRange`, `DeltaExact` |

`SteadyRepaired` is defined in `MCMediaRelay`: `QuietRepaired` in the behaviours in which the
producer plays before its first record and does not pause, and a pane is shown again only after its
hiding was applied (history variable `steady`). `FatesKept` is a refinement: `Automation`, with the mapping
of its variables to `fate` and `there`, implements `RequestFate`.

### Statements the code does not meet

While modelling, more sentences of the README, of comments and of tests turned out not to describe
the code. The models follow the code. Each sentence is stated as a property at the end of its
module, marked as not met, and TLC finds a short counterexample when it is added to the
configuration of the module's run (with the constants noted here, if others are needed). They are
not among the runs; where one of them has a part that does hold, a run checks that part.

| Property | Says | Code |
|---|---|---|
| `PanesOwned` (`SessionLayout`) | README.md:120, "`split` prints the new pane ID and committed session" sequence: a pane that was split off is in a tab | a split by automation during a tiled drag is undone by the rollback of the drag, and the pane's process lives on in no tab (session.rs:2647); `PanesKept` names this as the only way |
| `WorkerReturns` (`OuterWriter`, specification `BlockedSpec`) | README.md:226, "A blocked video socket cannot stop linked audio, another pane, terminal rendering, or control." | the one bridge worker waits without a deadline for the writer's answer to a barrier (bridge.rs:2081) |
| `FocusVisible` (`SessionLayout`) | layout.rs:50, "those consumers cannot disagree about visibility or stacking", focus included | a split in a zoomed tab focuses a pane that is not shown (session.rs:2908) |
| `ModalIsFocused` (`SessionLayout`) | session.rs:2720, focus and layout changes cancel the edit mode | automation requests do not (session.rs:1782) |
| `ZoomKeepsRects` (`SessionLayout`) | README.md:189, zoom does not mutate floating rectangles | a drag on a zoomed float stores the zoomed rectangle (session.rs:2452) |
| `ShiftPreventsDrag` (`SessionLayout`) | README.md:196, "Shift cancels or prevents pane dragging" | not on tiled borders (session.rs:2469) |
| `QueueBounded` (`RenderFlow`) | client.rs:1387, "Bound on queued terminal bytes." | a full repaint sets the count to 0 with control writes queued (client.rs:1419) |
| `QuietRepaired` (`MediaRelay`, two changes) | README.md:212, "live video gets `NEED_KEYFRAME`" on a new projection | hide and show, coalesced by the client, lose records and nothing asks for a keyframe (media.rs:611) |
| `DeliveryAccounted` (`MediaRelay`) | README.md:227, a packet's grant is returned after its write | an Attach that replaces a client strands the old one's deliveries (session.rs:928) |
| `WaitIsScoped` (`MediaObjects`) | README.md:206, "request/object scope" is validated | a wait is answered by another source's change (media.rs:1240) |
| `RefusalIsAtomic` (`MediaObjects`, two transactions) | media.rs:4555, `transaction_failure_is_atomic` | a refused BEGIN_TXN empties the open transaction (media.rs:2866) |
| `EveryWriteCompletes` (`OuterWriter`) | bridge.rs:59, a delivery is not stranded | records queued behind a failed one get no completion (bridge.rs:2467) |
| `OldestIsOutstanding` (`OuterControl`) | bridge.rs:72, "When the oldest currently outstanding request was issued." | cleared only when nothing is outstanding (bridge.rs:327) |
| `StalledIsClosed` (`OuterControl`) | bridge.rs:366, "Liveness is per request, not per connection" | any inbound record resets the probes (bridge.rs:199) |
| `PlaybackAgrees`, `EosOnce` (`OuterSession`; keys video and raster, three snapshots, `EosOnce` with both `Endings` and the constraint `SourcesStay`) | client.rs:773; bridge.rs:4044, "must not re-send EOS" | a playback update does not reach the bridge's `active_sources`, with which the next reconciliation compares (bridge.rs:1112) |
| `MetaAgrees` (`OuterSession`, two `Metas`) | client.rs:1041, "Source keys or descriptors changed" | only key and kind are compared (client.rs:1090) |
| `LossIsLocal` (`OuterSession`, video and raster with a node each) | README.md:234, source loss does not replace unrelated topology | the next scene transaction is refused and the session replaced (bridge.rs:903) |
| `KillEndsPanes` (`ServerLifecycle`, one server) | README.md:44, "terminate a session and its process groups" | the flag is set before the actor ends the groups (session.rs:1260), and the process may end between SIGHUP and SIGKILL (pty/unix.rs:76) |
| `ClientExits` (`ClientInput`) | client.rs:210, "this bounded send cannot turn into unbounded reader backpressure" | the loop that empties the channel has ended and joins the reader, which waits for room (client.rs:418) |
| `EscapeCancelsCopy` (`ClientInput`) | README.md:182, "`q` or Escape to cancel" copy mode | a lone escape stays in `PrefixParser` until another byte comes |
| `DeltaAgrees` (`PaneView`) | README.md:116, "`--since-screen` returns current replacement rows" | the wheel moves the copy view without a change of the screen sequence, so a caller is told that nothing changed (session.rs:2531) |
| `ViewServed` (`PaneView`) | README.md:107, the view "as vvmux is currently displaying it, including copy-mode scroll position" | when the scrollback is cleared under a scrolled view, get-grid is refused as out of range (session.rs:2018) |
| `WrapIsSoft` (`PaneView`) | README.md:110, "hard row boundaries remain newlines" | clearing a line keeps its wrap flag (lib.rs:395), and get-text joins the rows |
| `TabHidesNothing` (`PaneView`) | README.md:110, text is preserved | a tab over printed text is shown in place of it (lib.rs:525) |
| `RetryReplaces` (`OuterSession`) | session.rs:1130, a retry is asked for only before a replacement session | also after a lost source (client.rs:734) |

Two more cases are left to the model's conditions. Two servers of a name that start at the same time
over leftovers of a dead one may remove each other's socket or record (`runtime.rs:198`,
`runtime.rs:240`), so `ServingOwnsName` is stated for starts that do not overlap. And a client that is
refused the session has by then ended the edit of the one that stays (`session.rs:925`); the models
have that step.

### Bounds, and why they are enough

* `layout`: two clients, two hosts that are 2 and 3 cells wide and 2 high, floats of at least 2 by 2, three panes, two
  tabs, a motion by one cell to the right, a drag at the left edge. A tab that goes, a tab with a
  tile and two floats, a smaller host, and on it a float that is too wide or that was moved over its new edge, all occur.
  The second axis does not vary in the run. The theorems hold for both axes, and for any number of clients,
  host sizes, motions, edges, panes and tabs.
* `render`: window 2, queue of 2 chunks, frames of up to 2 chunks, two changes, two clients, one
  control write. A frame cut in the middle, an overflow with a frame in the writer's hand, and
  stale acknowledgements of the first client after the second attached all occur. The safety
  properties are proved for all values.
* `automation`: two connections, two identifiers, one pane besides the one that keeps the session
  alive, quotas of 1, two requests: each quota is reached, an identifier reused, and two responses
  meet in a queue of one.
* `media_objects`: one pane and connection, two channels, two sources, retention for one body,
  one transaction, one wait.
* `relay`: two records, queues of one, one layout change, one pause, flush or end of stream, one fault,
  two epochs. With one change a pane that was hidden is not shown again; a second change brings the loss
  that `HidingApplied` excludes; the theorem covers any number of them.
* `outer_session`: a video that may change its kind, start and stop playing, its linked audio, one
  node, one snapshot that may overtake the first, one failure, one loss. A loss makes a
  reconciliation fail too, so the replacement session can fail after it.
* `outer_control`: three requests in batches of two with tables of two, so that each table is at its
  bound; three probes as in the code.
* `outer_writer`: queue of two, three records, two grants, two ends of stream: the last record
  always waits for credit that does not come.
* `server`: two servers of this build and an earlier one in every state it may have been left in:
  two starts and two ends, overlapping or not.
* `gateway`: two browsers with media and three permits for the four sockets they want, a stall of 2 and a window of 3
  seconds: a holder and one who waits, entries that expire, a takeover against a refusal, a bridge that gets no
  permit. A browser without media is in the theorems only.
* `client_input`: three strokes out of ten, one other change, a mode channel of 1 in place of 8: the
  channel is full after two changes of mode. Sequences are cut at 6 bytes and mouse reports at 5, where the code has 7
  and 64, so both limits are met; a stroke may follow a detach in one read.
* `pane_view`: terminals of 2 by 3 and 1 by 2 cells, scrollback and change history of 2, up to two of 39 control
  functions and two resizes or copy inputs, from three terminals with text, scrollback, a tab, a wrapped row and
  either screen. The bounds are of the run only: the theorems hold for all of them.

Client, channel and connection identifiers are symmetric in `layout` and `media_objects`: no handler compares them except for equality. Symmetry is not used in runs with
liveness.

### Fairness

* `RenderFlow`: weak fairness of the actor's rendering and handling, of the reader and of the
  writer. These are loops of threads that block only on each other; the terminal is assumed to take
  what is written.
* `Automation`: weak fairness of the actor, the response writers, the end of a reader and the
  workers, strong fairness of a deadline, which the actor looks at on every turn of its loop. Two
  clients that never read would stop both writers; the code has no deadline there, and the run
  assumes that clients read.
* `OuterSession`: weak fairness of the worker and of the server's answer to a retry.
* `OuterControl`: weak fairness of waiting, routing, the heartbeat, and of time passing. Nothing is
  assumed of the presenter.
* `OuterWriter`: weak fairness of the worker and the writer thread (its credit deadline included);
  `FlowingSpec` adds that the socket takes or refuses what is written, `BlockedSpec` does not.
* `Gateway`: weak fairness of every loop, of the session's answers and of time. No browser has to do
  anything; `SilentYields` assumes only that the other one keeps asking.
* `ClientInput`: weak fairness of the input loop (its poll times out), the reader and the session.
  Nobody has to type.
* `ServerLifecycle`: weak fairness of the threads of a running server and of the kernel's hangups,
  used by `KillEndsPanes` alone.

## 4. Proofs

`RenderFlowProofs` proves, from `FlowAssumption` alone (a window of at least 1 that is at most the
cap on `frame_sequences`, and a full repaint that fits the queue):

* `TypeCorrect`: `Spec => []TypeOK`;
* `WindowAlwaysRespected`: `Spec => []WindowRespected`;
* `EvidenceNeverLost`: `Spec => []NoEvidenceLost`;
* `RenderedOnlyIfShown`: `Spec => []RenderedWasShown`;
* `QuietScreensAgree`: `Spec => []QuietScreenAgrees`.

For the first three the inductive invariant is `FlowInv == TypeOK /\ WindowRespected /\ NoEvidenceLost`. None of the
last two is inductive alone. That sending a frame keeps the cap from dropping an entry needs the
list to be no longer than the window (`NoEvidenceLost`), which after an acknowledgement holds
because the entries left are exactly the newer frames; that in turn needs the acknowledged frame
not to be ahead of `frame_id` (`WindowRespected`), which the handler's comparison gives. There
is a lemma for what an acknowledgement keeps (`AckKeepsNewer`), one for a sent frame
(`RenderKeepsFlow`), and type lemmas for chunks and for what a full repaint keeps of the queue.

The last two need to know every chunk on its way. `ShownInv` adds to `FlowInv`, while a client is
attached, that the chunks in the writer's hand, its queue and the connection are in the order of
sending (`Lined`) and ahead of the screen, as acknowledgements are behind it (`Behind`); that, until
the client discards its backlog, each chunk will land intact on the one before (`Lands`); and that an
acknowledgement stands for a frame that was shown unless a resync precedes it in the actor's inbox
(`AcksHonest`). The resync empties `frame_sequences`, so the dishonest acknowledgement behind it
finds nothing to confirm: this is where the order in the inbox decides. `Clients` keeps the messages
of a replaced client apart.

`PaneViewProofs` proves about `Terminal` and `PaneView`, from `TerminalAssumption` (a scrollback limit and a positive tab
interval) and `PaneAssumption` (a pane starts as a terminal whose indices are in range, control functions have
parameters the parser can give, sizes are positive, the history keeps at least one change):

* `HandleKeeps`: every control function takes an `IsTerminal` to an `IsTerminal`. `IsTerminal` is the
  invariant the code relies on when it indexes without a check: the row is on the screen, the column at
  most one past it, the region not empty and inside, both grids and both lists of flags of the terminal's
  size, tab stops inside, the scrollback within its limit. There is a lemma for each
  control function; the harder ones are those that compose others (`input` wraps and may wrap again,
  `delete_lines` scrolls with a borrowed region top). The lemmas say too that rows and columns stay what they were.
* `IndicesStayInRange`: `Spec => []IndicesInRange`. The invariant is inductive.
* `DeltasAreExact`: `Spec => []DeltaExact`. `DeltaExact` is not inductive: it speaks of the present
  answer, and says nothing while a chunk is fed or the view is scrolled. The inductive invariant is
  `DeltaInv == IndicesInRange /\ Numbered /\ CallerCovered`. `Numbered`: the kept changes have consecutive
  numbers that end with `screen_sequence`, so that what the history has forgotten is a prefix, which `Gap`
  recognises. `CallerCovered`: each row that no unseen change lists is right in the caller's
  copy, compared with the terminal before the chunk that is being fed; or the answer will be full, because of a gap, of a change
  without a list of rows, or of a scrolled view. A change of screen, a resize, and entering or leaving copy mode
  are changes without a list, which is what carries the second alternative through them.

`MediaProofs` proves, from `RelayAssumption` (windows, queues and bounds are numbers, the initial credit
is positive and at most the rolling window) and `AbsentAssumption` (the mark for nothing is neither a snapshot nor a
record, as `None` is in the code; a mark that were one would swallow it):

* `CreditConserved`: `Spec => []CreditExact`;
* `EpochsRespected`: `Spec => []EligibleEpoch`;
* `LossesAreRepaired`: `HistorySpec => []SteadyRepaired`.

The inductive invariant is `RelayInv == PathTypes /\ Account`. Credit is accounted because a record is
charged under a delivery that is not there yet: deliveries are of records already ingested (`Sound`), and the
records on the wire are the next ones, numbered without a gap (`Numbered`). Every other change of the
presenter, however it is composed (`take_deliveries` in a projection in an attach), is shown once
to keep the account (`Keeps`: what is granted is counted, and a source becomes eligible through no other way than
ingest), and such changes chain (`KeepsChain`). `PathTypes` types every queue up to the outer writer, because
what an acknowledgement or a keyframe request carries comes back along them.

`SteadyRepaired` speaks of rest only: every queue empty, and then the decoder in step or the producer aware that a
keyframe is due. What has to be invariant is why nothing is missed before, so `LossesAreRepaired` adds `RepairInv`:
while every step was steady, `Repairing` holds. Its last part, `Repairs`, is the argument: the source is not shown at all
or is about to be created anew, which asks for a keyframe (`Excused`); or a loss is on its way to the presenter
(`Reported`); or the presenter waits for a keyframe and the producer knows (`Asked`); or all records from some point on are
on their way and the decoder can begin there (`Whole`). The other parts are what a step needs to go from one of these to
another:

* `InOrder`: the records in the ingest thread's hand and in the queues behind it (to the actor, to the client, the client's
  channel, the deferred one, the writer) are in one order of numbers, and the decoder is behind all of them. So a
  record that is dropped, or found by a writer that was closed, is a hole in front of everything that follows.
* `OneFate`: a record is still on its way, acknowledged as delivered, or lost, and in one of these only. So an
  acknowledgement cannot hide that another copy was dropped.
* `FirstIsKey`: the producer's first record is a keyframe, so a decoder with nothing in it can begin.
* `SourceKept`: an outer source that failed is marked to be replaced, and the snapshot that does it is coming or is asked for.
* `BeforePlay`, `Waits`, `Hiding`: a snapshot of a source that does not play, or that leaves it out, is ahead of every
  record it could hurt. This is where the two conditions of `steady` are used. Both are needed: TLC finds
  a counterexample to `SteadyRepaired` without `PlaysThroughout` on the run's instance, and without `HidingApplied` when two
  layout changes and no faults are allowed (`MaxChanges = 2`, `MaxFaults = 0`).

TLC checked `RepairInv` on the instance of the run `relay`, in all of its 3.8 million states, before it was proved. There is one
lemma per action for what it does to `Repairing` (`IngestRepairs`, `ForwardRepairs`, ...), over lemmas for what members and order
of a sequence become when an element enters or leaves.

`MediaProofs` also proves about `MediaObjects`, from `ObjectsAssumption` (the quotas are numbers; the mark for no
pane is neither a pane nor a connection), where the run has a handful of each, for any sets:

* `ClosedPanesAreLeft`: `ObjectsSpec => []NoProducerForClosedPane`;
* `ScenesAreClosed`: `ObjectsSpec => []SceneIsClosed`;
* `QuotaIsExact`: `ObjectsSpec => []RetainedIsSum`.

The inductive invariant is `ObjectsInv`, in two halves. `TablesHold` is about what the lock protects: producers are of
open panes (`PanesOpen`), a node's source is there and its pane is the one its producer was admitted for
(`SceneHolds`), the aggregate is the sum over the sources (`SumHolds`). `SceneHolds` needs one fact more: a producer that
is gone may still have a transaction open, which commits later, so all it has recorded are deletions
(`RecordedHolds`). The other half is about what threads learnt under the lock and act on after it: a handshake that
found its pane open has recorded it and is not a producer yet (`ThreadsAgree`), and whoever is known to be of a pane
closed since is cancelled (`OwnersCancelled`), which is what makes the check at admission catch it. The sum is taken by
a fold over a finite table: `BodiesWithout`, `BodiesCreated` and `BodiesIngested` are the lemmas for what leaving entries out, adding
one and replacing a body do to it.

`OuterBridgeProofs` proves, from `OuterControlAssumption` (positive bounds, and a `None` that is none of
the marks for a close):

* `EveryRequestAccounted`: `Spec => []RequestsAccounted`;
* `HonestKeptOpen`: `Spec => []HonestNeverClosed`.

Both come from `ControlInv`. That the batch stays answerable needs its requests to be distinct
(`BatchAnswerable`): taking the first one's reply would leave a second one with the same number without. That a new request is in no table needs every known number to be
at most `next` (`Numbered`), and that it is in nobody's batch needs it unseen while it is written
(`SendingIsNew`). That a reply finds its request (`RepliesKnown`) needs a reply to be with the presenter or with the
reader, never both (`Disjoint`). The bounds on the tables need finite tables, which follows from `MaxRequests`.

`OuterBridgeProofs` also proves about `OuterSession`, from `OuterSessionAssumption` (finitely many sources, audio is linked to
sources that play and those are linked to nothing, and the `None` is no number, source or kind):

* `SessionsAgree`: `SessionSpec => []SessionAgrees`.

`SessionAgrees` speaks of a settled bridge. `SessionInv` says what each phase of `apply_snapshot` has achieved so far, for the
session it works on (the old one or the one it connects): between two snapshots, and before creations, the session is
that of the snapshot applied last (`Matches`), and after them that of the new one plus the sources still to
be destroyed. A failed request may leave a session that is neither, and then `force`
is set: the next attempt rebuilds what differs or, with `replace`, connects anew. `Matches` alone is not kept
when the presenter loses a source: a lost source is one whose report is on its way, or which the bridge has
already forgotten the kind of (`Kept` fails only under `force`). New IDs are above all
that were used, and differ because a finite set can be numbered (`Numbering`).

`ClientProofs` proves about `OuterWriter`, from `OuterWriterAssumption` (a queue of at least 1):

* `BarrierCoversAll`: `Spec => []BarrierCovers`.

`BarrierCovers` speaks only of the moment the worker has been told; `WriterInv` says how it gets there. While the
thread runs, the records without an outcome are those queued and the one it holds, each once (`JobsOnce`);
the sequence is one more than the records delivered (`SequenceCounts`); a queued barrier is the last
command, because the worker waits and forwards nothing (`BarrierLast`). So the barrier the thread takes is the
whole queue, and the sequence it tells covers everything (`ToldAtEnd`). `AheadIsNew` keeps a
record from being forwarded twice.

`ClientProofs` also proves about `ClientInput`, from `InputAssumption` (strokes are not empty, the bounds positive):

* `BytesAreAccounted`: `InputSpec => []BytesAccounted`, with its one exception, what is typed behind a detach;
* `ModesAgree`: `InputSpec => []QuietModesAgree`.

For the bytes, the invariant is that `undecided` is what the parser and the scanner hold (`HeldBack`) plus the bytes
`behind` a detach, of which there are none as long as the loop reads (`DroppedAtTheEnd`), that the scanner
holds nothing outside a mode, and that the parser's fields fit each other (`SoundParser`: it holds the bytes of one
sequence at most). A read goes through both parsers byte by byte, as recursive functions over its length. The
proof takes the states they pass through as an explicit trace, weighs one step at a time
(what a byte adds is held, sent or used) and concludes for the whole trace by `EveryNumber`, the least-number argument
about a set of numbers. For the mode, `ModesFollow` numbers the messages as the session sends them, odd for a
mode that begins and even for its end: the loop has taken the first `r` of `t`, the rest are in order in the channel, the reader's
hand and the connection (`Line`); the last one sent is about the mode the session is in (`Current`); and the loop is
in the mode of the last one taken, or has ended it and the session will hear of it (`Believed`).

`ServerProofs` proves, from `ServersAssumption` (the servers are neither the older server nor
nobody), for any set of servers, where the run has two:

* `RefusalsAreJustified`: `Spec => []RefusalJustified`;
* `ServerOwnsName`: `Spec => []ServingOwnsName`.

The invariant is `LifeInv == RefusalInv /\ (~overlapped => OwnerInv)`. `RefusalInv` holds whatever
servers do at the same time: no file belongs to a server that has not bound (`FilesOfBound`), there is one record at
most (`OneRecord`), a start has met every other server that runs (`OthersMet`), and one that met nobody finds
the files as it left them, so the second look it takes after removing them is not what refuses it
(`AloneCleans`). `OwnerInv` needs starts that do not overlap: what a start removes belongs to the dead
(`CleansTheDead`), what it binds and writes stays its own (`BoundOwns`), and what it removes at its end is its own
until it is gone (`EndingOwns`). A start may begin while another server is removing its files; `EndingOwns` also
says that once it has unlinked its socket, none of its own is at the path.

`ServerProofs` also proves about `Gateway`, from `GatewayAssumption` (positive permits and timeouts, a stall timeout
shorter than the contention window, and nobody is no browser), for any set of browsers:

* `HolderKept`: `GatewaySpec => []HolderAgrees`;
* `PingsFirst`: `GatewaySpec => FullIntervalOfPings`, an action property.

The invariant is `GatewayInv`. `Holds` says, besides `HolderAgrees`, that the session's client always has a connection
whose end the session has not heard of; that is what a late end of a replaced connection must not disturb.
`PermitsOK` needs the connections to be finite, which the permits give. `FullIntervalOfPings` is about the step that drops a
silent holder; it follows from `PingsKeepUp`: each second that both the silence and the contention have lasted has brought a
ping, except for the one whose tick is due. A refusal after the window starts both counts anew.

`AutomationProofs` proves, from `AutomationAssumption` (positive quotas per client and for answers; all bounds
are numbers):

* `InflightKept`: `Spec => []InflightAccounted`;
* `FatesAreKept`: `Spec => FatesKept`, the refinement of `RequestFate`: the initial states map to its initial
  state, and every step to one of its steps or a stutter.

Both come from `AutoInv`, which reads the lists as sets. An event is queued once, and no request of a
connection follows its `Disconnected`, which is the reader's last word (`EventsInOrder`); without that, a
request could be admitted for a connection whose quotas were already dropped. A request is queued, waiting,
with a worker or reported, never two of these (`RequestsPlaced`), and an answer is in one place too
(`AnswersPlaced`). `Accounted` ties the identifiers to them: each belongs to one wait or one pending input; an
input that a worker has or has reported is pending, or its connection was dropped. Identifiers are used
again, so it also says that two inputs with one identifier are of a connection that is gone: a late
report then releases nothing that another request holds. `Told` says that open requests have no answer, and an answer under
way is the only one of its request and was not written. Every handler ends in the same way, so there is one lemma
for what that end does to the lists (`EventEnded`), one for the step of `RequestFate` it is
(`EventStep`), and one per handler for which request it settles, takes or drops. What `Only` keeps of a list is proved
by an explicit argument about sets of numbers (`EveryNumber`), in place of the induction theorem.

`SessionLayoutProofs` proves, from `LayoutAssumption` and `FloatAssumption` (a host starts at the origin, as
`content_area` does (`src/session.rs:3816`), and has room for one minimal float, which `normalized_display` sees to
(`src/session.rs:4725`); the minimum extents are positive; motions are whole numbers; `NoClient` is no client):

* `PanesLiveHolds`: `Spec => []LayoutPanesLive`;
* `FloatsFitHolds`: `Spec => []FloatsFitHost`;
* `TargetsLiveHolds`: `Spec => []EditTargetsLive`;
* `PanesKeptHolds`: `Spec => PanesKept`, and `TiledFocusHolds`: `Spec => TiledFocusKept`, two action properties.

The inductive invariant is `LayoutInv`. Tabs are sound one by one and together (`TabsOK`: a pane is once in one
tab, pinned floats are above ordinary ones, identifiers differ), all floats are inside the host with all four edges and no smaller than a float may be
(`AllFit`, which holds because every way to a new rectangle goes through `clamp_rect`: for each axis, what it makes of any
position and extent is inside and large enough), and
pane and tab identifiers are below the counters, so that a new pane is in no tab. `DragOK` is stronger than
`EditTargetsLive` where the action properties need it: every leaf of the tree that a
tiled drag saved is still in its tab. It holds because each event that takes a leaf away ends the drag first.
The rollback therefore can lose only leaves that came later (`Younger`), which is the exception
in both action properties. `ModalOK` says the same of the pane in edit mode.

Handlers compose the same few changes: settle the drag and the mode, change one tab, fit the floats. So there is one
relation, `Kept`, for tabs after such a change: which panes they may have lost and may have gained, that
floats still fit, and that focus and zoom stayed within the tab (`FocusWithin`). It holds of each
change (`CancelKeeps`, `EndModeKeeps`, `ClampTabsKeeps`, `ReplaceKept`) and chains (`KeptTrans`), and
`StepKeeps` takes it to the invariant and the two action properties at once. The events in which a tab comes or goes are
proved apart (`NewTabStep`, `CloseStep`). Below them are lemmas for each operator of `TabLayout`, and for what
`InsertAt` and `RemoveAt` of the community modules do to places and members.

Model-checked only: the liveness properties. Every invariant and every action property of the runs is
stated by a theorem. Liveness under fairness and ENABLED are beyond the prover. Induction over data is
too, as a theorem with an operator for a parameter; where a proof needed it for one fixed set of
numbers, it is written out (`EveryNumber`). The modules meant for proofs have no RECURSIVE operator.

## 5. What is not modelled, and why

Screen diffs, codecs, record framing, PTYs, configuration and the command line are byte-level or
operating-system code with no concurrency of their own: where the modelled parts depend on their
outcome, the outcome is a free choice. Metrics and the media trace decide nothing. The Windows side
(`src/platform/windows.rs`, the ConPTY half of the PTYs, named pipes, console input) mirrors the Unix side by
other calls; only the Unix side is modelled. Of modelled parts, left out are: two-dimensional tile
placement, selections, waits for text and for a quiet screen, key encoding, codec
validation, raster composition and its chains, audio and images in the relay, pane contexts and
display metrics, the recognition of Vivid markers in output, colours and attributes of cells, rate
limits, tokens and messages of the gateway, listing and client slots of the server. The end-of-stream
barrier and the occlusion fragments are not modelled.

## 6. Plan

Done, all with their proofs: `SessionLayout` over `TabLayout`; `RenderFlow`; `Automation` and its
refinement of `RequestFate`; `MediaObjects` and `MediaRelay`; `OuterWriter`, `OuterControl` and
`OuterSession`; `ServerLifecycle`; `Gateway`; `ClientInput`; `Terminal` and `PaneView`.

Open, in this order:

1. `EosBarrier`: an end of stream with a barrier against reattachment, removal and a closing pane;
   properties: an accepted end covers its records in the same attachment, every barrier is answered
   once and its slot released.
2. `Fragments`: rectangle subtraction, coalescing and identifier assignment as operators, checked
   against the set of covered cells over all small inputs; with the placement of tiles in two
   dimensions.
3. Refinement: a lossy-but-repairing channel implemented by `MediaRelay`; a "newest screen wins"
   register implemented by `RenderFlow`.
