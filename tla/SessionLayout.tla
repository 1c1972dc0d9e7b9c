--------------------------- MODULE SessionLayout ---------------------------
(***************************************************************************)
(* The layout state of one session actor (SessionActor of                  *)
(* src/src/session.rs): its panes, tabs, focus, zoom, floating panes, the  *)
(* pointer drag and the keyboard float-edit mode, under every event that   *)
(* changes them.  The actor handles one event at a time, so one action is  *)
(* one whole event.  The events come from four places that do not          *)
(* coordinate: the attached client, other connections sending automation   *)
(* requests (vvmux msg), connections attaching and leaving, and the pane   *)
(* processes, which exit when they like.                                   *)
(*                                                                         *)
(* A handler that starts by abandoning the drag and the edit mode works on *)
(* Settled, the tabs with both captured rectangles or trees put back.      *)
(* A PTY that cannot be resized, or whose input pipe broke, is closed by   *)
(* close_pane: here that is MsgClose happening right after.                *)
(***************************************************************************)
EXTENDS TabLayout, FiniteSets

CONSTANTS
    Clients,          \* connections that attach
    Areas,            \* content_area of each host they attach from
    Grips,            \* the edges that a press can take hold of; {} for a move
    Motions,          \* motions of a drag or of an edit key, <<dx, dy>>
    MaxPane,          \* bound: pane identifiers ever handed out
    MaxTab            \* bound: tab identifiers ever handed out

NoClient == "none"

ASSUME LayoutAssumption ==
    /\ \A a \in Areas : /\ a \in [x : {0}, y : {0}, width : Nat, height : Nat]
                        /\ a.width >= MIN_FLOAT_WIDTH /\ a.height >= MIN_FLOAT_HEIGHT
    /\ Areas # {}
    /\ Grips \subseteq SUBSET {"left", "right", "top", "bottom"}
    /\ Motions \subseteq Int \X Int
    /\ MaxPane \in Nat \ {0}
    /\ MaxTab \in Nat \ {0}
    /\ NoClient \notin Clients

VARIABLES
    running,        \* the actor thread is in its event loop
    panes,          \* keys of the panes map
    procs,          \* panes whose PtyExit has not been handled yet
    tabs,           \* the tabs vector
    active_tab,     \* index into tabs, from 0 as in the code
    pointer_drag,   \* the drag in progress
    float_modal,    \* the float-edit mode
    attached,       \* the attached connection
    area,           \* content_area of the attached or last attached host
    next_pane_id,
    next_tab_id

vars == <<running, panes, procs, tabs, active_tab, pointer_drag, float_modal,
          attached, area, next_pane_id, next_tab_id>>

NoDrag  == [kind |-> "none"]
NoModal == [pane |-> NoPane, edges |-> {}, original |-> Rect(0, 0, 0, 0)]

----------------------------------------------------------------------------
(* Reading the tabs. *)

ActiveTab(ts) == ts[active_tab + 1]

OwnerIn(ts, p) == {i \in DOMAIN ts : p \in TabPanes(ts[i])}

Owned(ts) == UNION {TabPanes(ts[i]) : i \in DOMAIN ts}

MapTabs(ts, F(_)) == [i \in DOMAIN ts |-> F(ts[i])]

----------------------------------------------------------------------------
(* Abandoning edits. *)

\* cancel_pointer_drag(true): put the press-time tree or rectangle back in the
\* tab the drag started in, if that tab is still there.
cancel_pointer_drag(ts) ==
    LET restore(t) ==
            CASE pointer_drag.kind = "tiled" /\ t.id = pointer_drag.tab ->
                    [t EXCEPT !.tree = pointer_drag.original]
              [] pointer_drag.kind = "float" /\ t.id = pointer_drag.tab ->
                    [t EXCEPT !.floats = set_rect(t.floats, pointer_drag.pane,
                                                  pointer_drag.original, area)]
              [] OTHER -> t
    IN  MapTabs(ts, restore)

\* end_float_mode(true): put the entry rectangle back.
end_float_mode(ts) ==
    LET restore(t) == [t EXCEPT !.floats = set_rect(t.floats, float_modal.pane,
                                                    float_modal.original, area)]
    IN  MapTabs(ts, restore)

Settled == end_float_mode(cancel_pointer_drag(tabs))

\* close_pane up to the removal: an edit of the closing pane itself is dropped
\* as it stands, any other one is rolled back.
SettledForClose(p) ==
    LET ts == IF pointer_drag.kind = "float" /\ pointer_drag.pane = p
              THEN tabs ELSE cancel_pointer_drag(tabs)
    IN  IF float_modal.pane = p THEN ts ELSE end_float_mode(ts)

\* The removal itself, from the tab that owns the pane; nothing when no tab does.
RemovePane(ts, p) ==
    IF OwnerIn(ts, p) = {} THEN ts
    ELSE LET i == CHOOSE i \in OwnerIn(ts, p) : TRUE
             t == ClosedIn(ts[i], p)
         IN  IF is_empty(t) THEN RemoveAt(ts, i) ELSE [ts EXCEPT ![i] = t]

ClampIndex(index, ts) ==
    IF index < Len(ts) THEN index ELSE IF Len(ts) = 0 THEN 0 ELSE Len(ts) - 1

\* Mutant: the drag survives the close of a pane.
close_paneKeepingDrag(p) ==
    LET ts == RemovePane(SettledForClose(p), p)
    IN  /\ panes' = panes \ {p}
        /\ tabs' = ts
        /\ active_tab' = ClampIndex(active_tab, ts)
        /\ float_modal' = NoModal
        /\ UNCHANGED pointer_drag

\* Mutant: the edit mode survives the close of a pane.
close_paneKeepingModal(p) ==
    LET ts == RemovePane(SettledForClose(p), p)
    IN  /\ panes' = panes \ {p}
        /\ tabs' = ts
        /\ active_tab' = ClampIndex(active_tab, ts)
        /\ pointer_drag' = NoDrag
        /\ UNCHANGED float_modal

close_pane(p) ==
    LET ts == RemovePane(SettledForClose(p), p)
    IN  /\ panes' = panes \ {p}
        /\ tabs' = ts
        /\ active_tab' = ClampIndex(active_tab, ts)
        /\ pointer_drag' = NoDrag
        /\ float_modal' = NoModal

\* The prologue of every client action: both edits are rolled back.
DropEdits == pointer_drag' = NoDrag /\ float_modal' = NoModal

\* spawn_pane with the next identifier.
spawn_pane ==
    /\ next_pane_id <= MaxPane
    /\ panes' = panes \cup {next_pane_id}
    /\ procs' = procs \cup {next_pane_id}
    /\ next_pane_id' = next_pane_id + 1

NoSpawn == UNCHANGED <<panes, procs, next_pane_id>>

\* The event loop goes round: it ends by itself once the last tab is gone.
Looping == running /\ tabs # <<>>

ClientEvent == Looping /\ attached # NoClient

----------------------------------------------------------------------------
(* Actions of the attached client (SessionActor::action). *)

Keep == UNCHANGED <<running, attached, area>>

\* Rewrites the active tab of the settled tabs to u and nothing else.
ActOnTab(u) ==
    /\ tabs' = [Settled EXCEPT ![active_tab + 1] = u]
    /\ DropEdits
    /\ UNCHANGED <<active_tab, next_tab_id>>
    /\ Keep

\* The other actions: one refused with a status line, a tiled resize, copy mode
\* or paste.  They still rolled the edits back.
OtherAction ==
    /\ ClientEvent
    /\ tabs' = Settled
    /\ DropEdits
    /\ NoSpawn
    /\ UNCHANGED <<active_tab, next_tab_id>>
    /\ Keep

Split ==
    /\ ClientEvent
    /\ LET t == ActiveTab(Settled)
       IN  /\ t.focused \in ToSet(t.tree)
           /\ t.focused \notin FloatIds(t.floats)
           /\ spawn_pane
           /\ ActOnTab(set_focus([t EXCEPT !.tree = split_leaf(t.tree, t.focused, next_pane_id)],
                                 next_pane_id))

\* directional_focus needs the focused pane among the projections; which
\* neighbour wins is geometry.
Focus(p) ==
    /\ ClientEvent
    /\ LET t == ActiveTab(Settled)
       IN  /\ t.zoomed = NoPane
           /\ t.focused \in visible_projections(t)
           /\ p \in visible_projections(t) \ {t.focused}
           /\ ActOnTab(set_focus(t, p))
    /\ NoSpawn

NewTab ==
    /\ ClientEvent
    /\ next_tab_id <= MaxTab
    /\ spawn_pane
    /\ tabs' = Append(Settled, NewTabRecord(next_tab_id, next_pane_id))
    /\ next_tab_id' = next_tab_id + 1
    /\ active_tab' = Len(tabs)
    /\ DropEdits
    /\ Keep

\* SelectTab, NextTab and PreviousTab differ in the index they compute.
Select(index) ==
    /\ tabs' = Settled
    /\ active_tab' = index
    /\ DropEdits
    /\ NoSpawn
    /\ UNCHANGED next_tab_id
    /\ Keep

SelectTab(index) == ClientEvent /\ index < Len(tabs) /\ Select(index)

NextTab == ClientEvent /\ Select((active_tab + 1) % Len(tabs))

PreviousTab == ClientEvent /\ Select((active_tab + Len(tabs) - 1) % Len(tabs))

\* action() rolled both edits back, so close_pane finds none to settle.
ClosePane ==
    /\ ClientEvent
    /\ LET p  == ActiveTab(Settled).focused
           ts == RemovePane(Settled, p)
       IN  /\ panes' = panes \ {p}
           /\ tabs' = ts
           /\ active_tab' = ClampIndex(active_tab, ts)
    /\ DropEdits
    /\ UNCHANGED <<procs, next_pane_id, next_tab_id>>
    /\ Keep

ToggleZoom ==
    /\ ClientEvent
    /\ LET t == ActiveTab(Settled)
       IN  ActOnTab([t EXCEPT !.zoomed = IF t.zoomed # NoPane THEN NoPane ELSE t.focused])
    /\ NoSpawn

NewFloatingPane ==
    /\ ClientEvent
    /\ LET t == ActiveTab(Settled)
       IN  /\ t.zoomed = NoPane
           /\ spawn_pane
           /\ ActOnTab(set_focus(
                [t EXCEPT !.floats = insert(t.floats, next_pane_id, area),
                          !.ordinary_visible = TRUE],
                next_pane_id))

\* Hiding the ordinary floats moves the focus off one of them, if it can.
ToggleFloatingPanes ==
    /\ ClientEvent
    /\ LET t == ActiveTab(Settled)
           u == [t EXCEPT !.ordinary_visible = ~t.ordinary_visible]
           focused_hidden ==
               /\ ~u.ordinary_visible
               /\ u.focused \in FloatIds(u.floats)
               /\ ~get(u.floats, u.focused).pinned
       IN  /\ t.zoomed = NoPane
           /\ t.floats # <<>>
           /\ ActOnTab(IF focused_hidden /\ fallback_focus(u) # NoPane
                       THEN set_focus(u, fallback_focus(u)) ELSE u)
    /\ NoSpawn

TogglePanePinned ==
    /\ ClientEvent
    /\ LET t == ActiveTab(Settled)
       IN  /\ t.zoomed = NoPane
           /\ t.focused \in FloatIds(t.floats)
           /\ ActOnTab([t EXCEPT !.floats =
                set_pinned(t.floats, t.focused, ~get(t.floats, t.focused).pinned)])
    /\ NoSpawn

\* To move, or to resize: the keys then drag the right and the bottom edge.
EnterFloatMode(resize) ==
    /\ ClientEvent
    /\ LET t == ActiveTab(Settled)
       IN  /\ t.zoomed = NoPane
           /\ t.focused \in FloatIds(t.floats)
           /\ float_modal' = [pane |-> t.focused,
                              edges |-> IF resize THEN {"right", "bottom"} ELSE {},
                              original |-> get(t.floats, t.focused).rect]
    /\ tabs' = Settled
    /\ pointer_drag' = NoDrag
    /\ NoSpawn
    /\ UNCHANGED <<active_tab, next_tab_id>>
    /\ Keep

----------------------------------------------------------------------------
(* The pointer and the keyboard edit mode of the attached client. *)

\* A drag started by a left press on the frame of pane p, which tab t showed
\* when the button went down: it moves a float, or has hold of some edges of it
\* (float_pointer_target).  A zoomed pane is shown over the whole area.
DragFrom(t, p, edges, shift) ==
    CASE p \in FloatIds(t.floats) /\ ~shift ->
            [kind |-> "float", tab |-> t.id, pane |-> p, edges |-> edges,
             original |-> IF t.zoomed = p THEN area ELSE get(t.floats, p).rect]
      [] p \notin FloatIds(t.floats) /\ t.tree # <<>> ->
            [kind |-> "tiled", tab |-> t.id, original |-> t.tree]
      [] OTHER -> NoDrag

\* A press or a wheel event that hits pane p.  A drag in progress is rolled
\* back first; a change of focus ends the edit mode; only a left press on the
\* frame starts a new drag.
MousePress(p, frame, edges, shift) ==
    /\ ClientEvent
    /\ LET ts == cancel_pointer_drag(tabs)
           t  == ActiveTab(ts)
           focus_changed == t.focused # p
           us == IF focus_changed THEN end_float_mode(ts) ELSE ts
       IN  /\ p \in visible_projections(t)
           /\ tabs' = [us EXCEPT ![active_tab + 1] = set_focus(@, p)]
           /\ pointer_drag' = IF frame THEN DragFrom(t, p, edges, shift) ELSE NoDrag
           /\ float_modal' = IF focus_changed THEN NoModal ELSE float_modal
    /\ NoSpawn
    /\ UNCHANGED <<active_tab, next_tab_id>>
    /\ Keep

\* update_pointer_drag.  A tiled drag moves weights only, which are not
\* represented; a float is moved or resized from where it was at the press; a
\* drag whose tab is no longer the active one is rolled back.
MouseMove(motion) ==
    /\ ClientEvent
    /\ pointer_drag # NoDrag
    /\ \/ /\ ActiveTab(tabs).id # pointer_drag.tab
          /\ tabs' = cancel_pointer_drag(tabs)
          /\ pointer_drag' = NoDrag
       \/ /\ ActiveTab(tabs).id = pointer_drag.tab
          /\ pointer_drag.kind = "float"
          /\ tabs' = [tabs EXCEPT ![active_tab + 1].floats =
                        set_rect(@, pointer_drag.pane,
                                 Edited(pointer_drag.original, pointer_drag.edges, motion, area),
                                 area)]
          /\ UNCHANGED pointer_drag
    /\ NoSpawn
    /\ UNCHANGED <<active_tab, next_tab_id, float_modal>>
    /\ Keep

\* A left release commits what the drag made.
MouseRelease ==
    /\ ClientEvent
    /\ pointer_drag # NoDrag
    /\ pointer_drag' = NoDrag
    /\ NoSpawn
    /\ UNCHANGED <<tabs, active_tab, next_tab_id, float_modal>>
    /\ Keep

\* A Shift-modified, wrong-button or otherwise malformed event.
MouseCancel ==
    /\ ClientEvent
    /\ pointer_drag # NoDrag
    /\ tabs' = cancel_pointer_drag(tabs)
    /\ pointer_drag' = NoDrag
    /\ NoSpawn
    /\ UNCHANGED <<active_tab, next_tab_id, float_modal>>
    /\ Keep

\* float_edit, for a command that carries the identifier of the current mode.
FloatEditEnd(restore) ==
    /\ ClientEvent
    /\ float_modal # NoModal
    /\ tabs' = IF restore THEN end_float_mode(tabs) ELSE tabs
    /\ float_modal' = NoModal
    /\ NoSpawn
    /\ UNCHANGED <<active_tab, next_tab_id, pointer_drag>>
    /\ Keep

\* A step goes in one direction, from where the float is, and only in the active tab.
FloatEditStep(motion) ==
    /\ ClientEvent
    /\ float_modal # NoModal
    /\ (motion[1] = 0) # (motion[2] = 0)
    /\ tabs' = [tabs EXCEPT ![active_tab + 1].floats =
                  set_rect(@, float_modal.pane,
                           Edited(get(@, float_modal.pane).rect, float_modal.edges, motion, area),
                           area)]
    /\ NoSpawn
    /\ UNCHANGED <<active_tab, next_tab_id, pointer_drag, float_modal>>
    /\ Keep

----------------------------------------------------------------------------
(* Connections attaching, resizing and leaving. *)

\* Mutant: only the active tab is fitted to the new host.
ClampTabsActiveOnly(ts, a) ==
    IF ts = <<>> THEN ts
    ELSE [ts EXCEPT ![active_tab + 1].floats = clamp_all(@, a)]

ClampTabs(ts, a) ==
    LET clamped(t) == [t EXCEPT !.floats = clamp_all(t.floats, a)]
    IN  MapTabs(ts, clamped)

LeaveLayout == NoSpawn /\ UNCHANGED <<running, active_tab, next_tab_id>>

HostResize(a) ==
    /\ ClientEvent
    /\ tabs' = ClampTabs(Settled, a)
    /\ area' = a
    /\ DropEdits
    /\ UNCHANGED attached
    /\ LeaveLayout

\* The edits are rolled back before the request is looked at, so that a refused
\* attach rolls back the edits of the client that stays.
Attach(c, replace, a) ==
    /\ Looping
    /\ attached # c
    /\ DropEdits
    /\ LeaveLayout
    /\ \/ /\ attached # NoClient /\ ~replace
          /\ tabs' = Settled
          /\ UNCHANGED <<attached, area>>
       \/ /\ attached = NoClient \/ replace
          /\ attached' = c
          /\ area' = a
          /\ tabs' = ClampTabs(Settled, a)

\* The attached client detaches or its connection is lost.
Leave ==
    /\ ClientEvent
    /\ tabs' = Settled
    /\ attached' = NoClient
    /\ DropEdits
    /\ UNCHANGED area
    /\ LeaveLayout

\* Detach when the answer cannot be sent: the handler returns before it clears
\* the client, with only the drag rolled back.
DetachSendFails ==
    /\ ClientEvent
    /\ tabs' = cancel_pointer_drag(tabs)
    /\ pointer_drag' = NoDrag
    /\ UNCHANGED <<attached, area, float_modal>>
    /\ LeaveLayout

\* render gives the client up when a frame cannot be queued; edits stay open.
FrameDeliveryFails ==
    /\ ClientEvent
    /\ attached' = NoClient
    /\ UNCHANGED <<tabs, area, pointer_drag, float_modal>>
    /\ LeaveLayout

----------------------------------------------------------------------------
(* Automation requests, from any connection, and pane processes. *)

\* automation_split leaves a drag and the edit mode as they are.
MsgSplit(p) ==
    /\ Looping
    /\ p \in panes
    /\ spawn_pane
    /\ \E i \in OwnerIn(tabs, p) :
          LET t == tabs[i]
          IN  /\ p \in ToSet(t.tree)
              /\ tabs' = [tabs EXCEPT ![i] =
                            set_focus([t EXCEPT !.tree = split_leaf(t.tree, p, next_pane_id)],
                                      next_pane_id)]
    /\ UNCHANGED <<active_tab, next_tab_id, pointer_drag, float_modal>>
    /\ Keep

\* automation_focus shows what it focuses: its tab, its layer, and no other zoom.
MsgFocus(p) ==
    /\ Looping
    /\ p \in panes
    /\ \E i \in OwnerIn(tabs, p) :
          LET t == tabs[i]
              ordinary == p \in FloatIds(t.floats) /\ ~get(t.floats, p).pinned
              u == [t EXCEPT !.ordinary_visible = @ \/ ordinary,
                             !.zoomed = IF @ # p THEN NoPane ELSE @]
          IN  /\ tabs' = [tabs EXCEPT ![i] = set_focus(u, p)]
              /\ active_tab' = i - 1
    /\ NoSpawn
    /\ UNCHANGED <<next_tab_id, pointer_drag, float_modal>>
    /\ Keep

MsgClose(p) ==
    /\ Looping
    /\ p \in panes
    /\ close_pane(p)
    /\ UNCHANGED <<procs, next_pane_id, next_tab_id>>
    /\ Keep

\* The process of p exits, by itself or because close_pane terminated it; the
\* handler closes the pane in both cases.
PtyExit(p) ==
    /\ Looping
    /\ p \in procs
    /\ procs' = procs \ {p}
    /\ close_pane(p)
    /\ UNCHANGED <<next_pane_id, next_tab_id>>
    /\ Keep

\* The event loop ends after the last tab is gone or a kill request; what is
\* left of the panes is terminated.
Terminate ==
    /\ running
    /\ running' = FALSE
    /\ panes' = {}
    /\ procs' = {}
    /\ UNCHANGED <<tabs, active_tab, pointer_drag, float_modal, attached, area,
                   next_pane_id, next_tab_id>>

----------------------------------------------------------------------------
Init ==
    /\ running = TRUE
    /\ panes = {1}
    /\ procs = {1}
    /\ tabs = <<NewTabRecord(1, 1)>>
    /\ active_tab = 0
    /\ pointer_drag = NoDrag
    /\ float_modal = NoModal
    /\ attached = NoClient
    /\ area \in Areas
    /\ next_pane_id = 2
    /\ next_tab_id = 2

PaneIds == 1 .. MaxPane

Rects == [x : Nat, y : Nat, width : Nat \ {0}, height : Nat \ {0}]

ClientNext ==
    \/ OtherAction \/ Split \/ NewTab \/ NextTab \/ PreviousTab \/ ClosePane
    \/ ToggleZoom \/ NewFloatingPane \/ ToggleFloatingPanes \/ TogglePanePinned
    \/ \E resize \in BOOLEAN : EnterFloatMode(resize)
    \/ \E p \in PaneIds : Focus(p)
    \/ \E index \in 0 .. MaxTab - 1 : SelectTab(index)

PointerNext ==
    \/ \E p \in PaneIds, frame, shift \in BOOLEAN, edges \in Grips :
           MousePress(p, frame, edges, shift)
    \/ \E motion \in Motions : MouseMove(motion) \/ FloatEditStep(motion)
    \/ MouseRelease \/ MouseCancel
    \/ \E restore \in BOOLEAN : FloatEditEnd(restore)

ConnectionNext ==
    \/ \E a \in Areas : HostResize(a)
    \/ \E c \in Clients, replace \in BOOLEAN, a \in Areas : Attach(c, replace, a)
    \/ Leave \/ DetachSendFails \/ FrameDeliveryFails

PaneNext == \E p \in PaneIds : MsgSplit(p) \/ MsgFocus(p) \/ MsgClose(p) \/ PtyExit(p)

Next == ClientNext \/ PointerNext \/ ConnectionNext \/ PaneNext \/ Terminate

Spec == Init /\ [][Next]_vars

----------------------------------------------------------------------------
(* What must hold. *)

FloatRecords == [pane : PaneIds, rect : Rects, pinned : BOOLEAN]

TabRecords ==
    [id : 1 .. MaxTab, tree : Seq(PaneIds), floats : Seq(FloatRecords),
     ordinary_visible : BOOLEAN, focused : PaneIds,
     last_focused_tiled : PaneIds \cup {NoPane}, zoomed : PaneIds \cup {NoPane}]

DragRecords ==
    {NoDrag}
    \cup [kind : {"tiled"}, tab : 1 .. MaxTab, original : Seq(PaneIds)]
    \cup [kind : {"float"}, tab : 1 .. MaxTab, pane : PaneIds, edges : Grips, original : Rects]

ModalRecords ==
    {NoModal} \cup [pane : PaneIds, edges : {{}, {"right", "bottom"}}, original : Rects]

\* Every variable has its type; in particular active_tab is a valid index
\* whenever there is a tab, so that active_tab() never returns None.
TypeOK ==
    /\ running \in BOOLEAN
    /\ panes \in SUBSET PaneIds
    /\ procs \in SUBSET PaneIds
    /\ tabs \in Seq(TabRecords)
    /\ active_tab \in 0 .. MaxTab - 1
    /\ tabs # <<>> => active_tab < Len(tabs)
    /\ pointer_drag \in DragRecords
    /\ float_modal \in ModalRecords
    /\ attached \in Clients \cup {NoClient}
    /\ area \in Areas
    /\ next_pane_id \in 1 .. MaxPane + 1
    /\ next_tab_id \in 1 .. MaxTab + 1

\* A pane is in one tab, in one class, once: the split of a saved tree and the
\* float list never duplicate a pane.  Ordinary floats stay below pinned ones
\* through every insert, raise, pin and removal (FloatingLayer's two-class order).
OwnedOnce ==
    /\ \A k \in DOMAIN tabs :
         LET t == tabs[k]
             fs == t.floats
         IN  /\ Len(t.tree) + Len(fs) = Cardinality(TabPanes(t))
             /\ ~is_empty(t)
             /\ \A i, j \in DOMAIN fs : i < j => (fs[i].pinned => fs[j].pinned)
    /\ \A i, j \in DOMAIN tabs : i # j => TabPanes(tabs[i]) \cap TabPanes(tabs[j]) = {}

\* Every pane a tab lays out exists: no interleaving of a drag, whose
\* cancellation puts a saved tree back, with closes, process exits and
\* replacements of the client brings a closed pane back (cancel_pointer_drag
\* against close_pane), or lays one out twice.
LayoutPanesLive == TypeOK /\ OwnedOnce /\ (running => Owned(tabs) \subseteq panes)

\* A rectangle is inside an area and large enough for a float.
Inside(rect, a) ==
    /\ a.x <= rect.x /\ rect.x + rect.width <= a.x + a.width
    /\ a.y <= rect.y /\ rect.y + rect.height <= a.y + a.height
    /\ MIN_FLOAT_WIDTH <= rect.width /\ MIN_FLOAT_HEIGHT <= rect.height

\* Every float of every tab, hidden ones and those of background tabs too, is
\* inside the host it would be drawn on with all four edges, and no smaller than a
\* float may be: no drag, edit, rollback to a rectangle captured on a larger host,
\* or new host strands one off the screen (clamp_rect, clamp_all, update_rect, and
\* where session.rs calls them).
FloatsFitHost ==
    \A k \in DOMAIN tabs : \A i \in DOMAIN tabs[k].floats : Inside(tabs[k].floats[i].rect, area)

\* A drag or an edit mode refers to a float that is there, and a tiled drag to
\* a tab that is there with a saved tree of live panes: what a rollback will
\* write is never stale because of a close.
EditTargetsLive ==
    running =>
    /\ float_modal # NoModal =>
         \E i \in DOMAIN tabs : float_modal.pane \in FloatIds(tabs[i].floats)
    /\ pointer_drag # NoDrag =>
         \E i \in DOMAIN tabs :
            /\ tabs[i].id = pointer_drag.tab
            /\ IF pointer_drag.kind = "float"
               THEN pointer_drag.pane \in FloatIds(tabs[i].floats)
               ELSE ToSet(pointer_drag.original) \subseteq panes

\* Every live pane is laid out in some tab, so that its process can be reached
\* and its exit seen.
\* The code does not meet this: README, section 3.
PanesOwned == running => panes \subseteq Owned(tabs)

\* Panes that the rollback of the drag in progress would take out of its tab:
\* they came after the press.
Younger == IF pointer_drag.kind = "tiled" THEN panes \ ToSet(pointer_drag.original) ELSE {}

\* A live pane is laid out from the start and stays so until it closes, through
\* closes of its neighbours, exits, tab changes, attaches and rollbacks.  The one
\* exception is the rollback of a tiled drag that began before the pane was made.
PanesKept ==
    [][running' =>
       \A p \in panes' \ Owned(tabs') :
          p \in panes /\ (p \in Owned(tabs) => p \in Younger)]_vars

FocusSound(t) ==
    t.tree # <<>> =>
    t.focused \in TabPanes(t) /\ t.zoomed \in TabPanes(t) \cup {NoPane}

\* The focus and the zoom of a tab with tiles stay with its own panes:
\* no close, process exit or rollback leaves the keyboard or the whole screen with
\* a pane that is gone (close_pane, fallback_focus and cancel_pointer_drag), but
\* for one that loses its place in the one way PanesKept allows.
TiledFocusKept ==
    [][(\A i \in DOMAIN tabs : FocusSound(tabs[i])) =>
       \A i \in DOMAIN tabs' :
          FocusSound(tabs'[i]) \/ {tabs'[i].focused, tabs'[i].zoomed} \cap Younger # {}]_vars

\* The focused pane of every tab is one of the panes the tab shows.
\* The code does not meet this: README, section 3.
FocusVisible ==
    \A i \in DOMAIN tabs : tabs[i].focused \in visible_projections(tabs[i])

\* The pane under keyboard edit is the focused one of the active tab.
\* The code does not meet this: README, section 3.
ModalIsFocused ==
    float_modal # NoModal /\ Looping => float_modal.pane = ActiveTab(tabs).focused

\* While a tab is zoomed its floats keep the rectangles they had, on the same
\* host.
\* The code does not meet this: README, section 3.
ZoomKeepsRects ==
    [][\A i \in DOMAIN tabs :
        /\ i \in DOMAIN tabs'
        /\ tabs[i].zoomed # NoPane /\ tabs'[i].zoomed = tabs[i].zoomed
        /\ tabs[i].id = tabs'[i].id
        /\ area' = area
        => \A f \in ToSet(tabs[i].floats), g \in ToSet(tabs'[i].floats) :
             f.pane = g.pane => f.rect = g.rect]_vars

\* A press with Shift held starts no drag.
\* The code does not meet this: README, section 3.
ShiftPreventsDrag ==
    [][\A p \in PaneIds, edges \in Grips :
        MousePress(p, TRUE, edges, TRUE) => pointer_drag' = NoDrag]_vars
=============================================================================
