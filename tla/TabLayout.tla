----------------------------- MODULE TabLayout -----------------------------
(***************************************************************************)
(* One tab of a session (struct Tab of src/src/session.rs) and its         *)
(* floating layer (struct FloatingLayer of src/src/layout.rs), as pure     *)
(* operators on tab records.                                               *)
(*                                                                         *)
(* Pane identifiers are the counter values the session hands out, from 1;  *)
(* NoPane stands for Option::None.  The tiled tree is the sequence of its  *)
(* leaves in depth-first order (TiledNode::pane_ids), empty for a tab      *)
(* without a tree: axes and weights only decide geometry.                  *)
(*                                                                         *)
(* Rectangles are those of struct Rect: a position and an extent on each   *)
(* of two axes, in cells.  What acts on one axis at a time is one operator *)
(* used on both.                                                           *)
(***************************************************************************)
EXTENDS Integers, Sequences, SequencesExt

CONSTANTS
    MIN_FLOAT_WIDTH,    \* the smallest frame of a float: 6 columns
    MIN_FLOAT_HEIGHT,   \* by 4 rows
    WidthPercent,       \* the extents of a new float, in percent of the tab area
    HeightPercent

ASSUME FloatAssumption ==
    /\ MIN_FLOAT_WIDTH \in Nat \ {0} /\ MIN_FLOAT_HEIGHT \in Nat \ {0}
    /\ WidthPercent \in Nat /\ HeightPercent \in Nat

NoPane == 0

----------------------------------------------------------------------------
(* Rectangles. *)

Rect(x, y, width, height) == [x |-> x, y |-> y, width |-> width, height |-> height]

Smaller(a, b) == IF a <= b THEN a ELSE b
Larger(a, b)  == IF a >= b THEN a ELSE b
clamp(value, low, high) == Larger(low, Smaller(value, high))

\* The smallest extent of a float in an area of this extent.
least(minimum, extent) == Larger(Smaller(minimum, extent), 1)

\* On one axis: the extent first, then the position, so that the far edge is inside.
clamp_extent(size, minimum, extent) ==
    clamp(size, least(minimum, extent), Larger(extent, least(minimum, extent)))

clamp_position(at, size, start, extent) ==
    clamp(at, start, Larger(Larger(start + extent - size, 0), start))

\* Mutant: the position stays where it was.
clamp_rectExtentOnly(rect, area) ==
    Rect(rect.x, rect.y, clamp_extent(rect.width, MIN_FLOAT_WIDTH, area.width),
         clamp_extent(rect.height, MIN_FLOAT_HEIGHT, area.height))

clamp_rect(rect, area) ==
    LET width  == clamp_extent(rect.width, MIN_FLOAT_WIDTH, area.width)
        height == clamp_extent(rect.height, MIN_FLOAT_HEIGHT, area.height)
    IN  Rect(clamp_position(rect.x, width, area.x, area.width),
             clamp_position(rect.y, height, area.y, area.height), width, height)

\* The configured share of the area, rounded, in its middle.
default_rect(area) ==
    LET width  == (area.width * WidthPercent + 50) \div 100
        height == (area.height * HeightPercent + 50) \div 100
        middle(start, extent, size) == start + Larger(extent - size, 0) \div 2
    IN  clamp_rect(Rect(middle(area.x, area.width, width),
                        middle(area.y, area.height, height), width, height), area)

offset_coordinate(value, delta) == clamp(value + delta, 0, 65535)

\* One axis of a resize: first and last say which of its two edges are dragged by delta.
resize_axis(at, size, first, last, delta, start, extent, minimum) ==
    LET small == least(minimum, extent)
        end   == at + size
        low   == IF first THEN Smaller(Larger(at + delta, start), end - small) ELSE at
        high  == IF last THEN Larger(Smaller(end + delta, start + extent), low + small)
                 ELSE end
    IN  [at |-> Larger(low, 0), size |-> Larger(high - low, 1)]

resize_edges(rect, edges, dx, dy, area) ==
    LET h == resize_axis(rect.x, rect.width, "left" \in edges, "right" \in edges, dx,
                         area.x, area.width, MIN_FLOAT_WIDTH)
        v == resize_axis(rect.y, rect.height, "top" \in edges, "bottom" \in edges, dy,
                         area.y, area.height, MIN_FLOAT_HEIGHT)
    IN  Rect(h.at, v.at, h.size, v.size)

\* A move or, when edges are dragged, a resize by a motion, before it is clamped.
Edited(rect, edges, motion, area) ==
    IF edges = {}
    THEN [rect EXCEPT !.x = offset_coordinate(@, motion[1]),
                      !.y = offset_coordinate(@, motion[2])]
    ELSE resize_edges(rect, edges, motion[1], motion[2], area)

----------------------------------------------------------------------------
(* The floating layer. *)

\* The float record: pane, frame rectangle and pin of struct FloatingPane.
Float(p, rect, pinned) == [pane |-> p, rect |-> rect, pinned |-> pinned]

FloatIds(fs) == {fs[i].pane : i \in DOMAIN fs}

float_index(fs, p) == CHOOSE i \in DOMAIN fs : fs[i].pane = p

get(fs, p) == fs[float_index(fs, p)]

\* The layer without p, which it has at most once.
Without(fs, p) == IF p \in FloatIds(fs) THEN RemoveAt(fs, float_index(fs, p)) ELSE fs

\* The code inserts at first_pinned_index: after the leading ordinary block.
first_pinned_index(fs) ==
    IF \E i \in DOMAIN fs : fs[i].pinned
    THEN CHOOSE i \in DOMAIN fs : fs[i].pinned /\ \A j \in 1 .. i - 1 : ~fs[j].pinned
    ELSE Len(fs) + 1

insert(fs, p, area) ==
    InsertAt(fs, first_pinned_index(fs), Float(p, default_rect(area), FALSE))

set_pinned(fs, p, pinned) ==
    LET rest == Without(fs, p)
        at   == IF pinned THEN Len(rest) + 1 ELSE first_pinned_index(rest)
    IN  InsertAt(rest, at, Float(p, get(fs, p).rect, pinned))

raise(fs, p) == IF p \in FloatIds(fs) THEN set_pinned(fs, p, get(fs, p).pinned) ELSE fs

set_rect(fs, p, rect, area) ==
    [i \in DOMAIN fs |->
        IF fs[i].pane = p THEN [fs[i] EXCEPT !.rect = clamp_rect(rect, area)] ELSE fs[i]]

clamp_all(fs, area) ==
    [i \in DOMAIN fs |-> [fs[i] EXCEPT !.rect = clamp_rect(fs[i].rect, area)]]

\* Where the visible floats are in the layer.
visible(t) == {i \in DOMAIN t.floats : t.floats[i].pinned \/ t.ordinary_visible}

----------------------------------------------------------------------------
(* Tabs. *)

NewTabRecord(id, p) ==
    [id |-> id, tree |-> <<p>>, floats |-> <<>>, ordinary_visible |-> TRUE,
     focused |-> p, last_focused_tiled |-> p, zoomed |-> NoPane]

TabPanes(t) == ToSet(t.tree) \cup FloatIds(t.floats)

\* Mutant: a tab that has floats only counts as empty.
is_emptyTree(t) == t.tree = <<>>

is_empty(t) == t.tree = <<>> /\ t.floats = <<>>

\* What the tab shows: the zoomed pane alone, else every tiled leaf and every
\* visible float.
visible_projections(t) ==
    IF t.zoomed # NoPane THEN {t.zoomed} ELSE ToSet(t.tree) \cup {t.floats[i].pane : i \in visible(t)}

\* Topmost visible float, else the last focused tiled pane, else the first
\* leaf, else nothing.
fallback_focus(t) ==
    IF visible(t) # {} THEN t.floats[Max(visible(t))].pane
    ELSE IF t.last_focused_tiled \in ToSet(t.tree) THEN t.last_focused_tiled
    ELSE IF t.tree # <<>> THEN Head(t.tree)
    ELSE NoPane

set_focus(t, p) ==
    IF p \in ToSet(t.tree)
    THEN [t EXCEPT !.focused = p, !.last_focused_tiled = p]
    ELSE [t EXCEPT !.focused = p, !.floats = raise(t.floats, p)]

leaf_index(tree, p) == CHOOSE i \in DOMAIN tree : tree[i] = p

\* TiledNode::close, of a leaf the tree has at most once.
WithoutLeaf(tree, p) == IF p \in ToSet(tree) THEN RemoveAt(tree, leaf_index(tree, p)) ELSE tree

\* TiledNode::split puts the new leaf right after the one it splits.
split_leaf(tree, p, new) == InsertAt(tree, 1 + leaf_index(tree, p), new)

\* Mutant: the focus stays on the closed pane.
ClosedInSameFocus(t, p) ==
    [t EXCEPT !.floats = Without(t.floats, p),
              !.tree = WithoutLeaf(t.tree, p),
              !.zoomed = IF t.zoomed = p THEN NoPane ELSE t.zoomed]

\* close_pane on the owning tab, focus fallback included.  When no fallback
\* exists the code leaves the focus where it was.
ClosedIn(t, p) ==
    LET floating == p \in FloatIds(t.floats)
        u == [t EXCEPT
                !.floats = Without(t.floats, p),
                !.tree = IF floating THEN t.tree ELSE WithoutLeaf(t.tree, p),
                !.zoomed = IF t.zoomed = p THEN NoPane ELSE t.zoomed,
                !.last_focused_tiled =
                    IF t.last_focused_tiled = p THEN NoPane ELSE t.last_focused_tiled]
    IN  IF t.focused = p /\ fallback_focus(u) # NoPane
        THEN set_focus(u, fallback_focus(u))
        ELSE u
=============================================================================
