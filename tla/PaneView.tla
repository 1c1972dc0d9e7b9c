------------------------------ MODULE PaneView ------------------------------
(***************************************************************************)
(* A pane's screen as automation sees it: the session actor feeds the      *)
(* pane's terminal, keeps which rows each change touched, and answers      *)
(* get-grid --since-screen with the rows changed since a sequence the      *)
(* caller saw (handle_event, mark_pane_screen_change, resize_all and       *)
(* grid_snapshot in session.rs).  Copy mode shows the scrollback in place  *)
(* of the screen.                                                          *)
(***************************************************************************)
EXTENDS Terminal, SequencesExt

CONSTANTS
    Starts,         \* the terminals a pane may have when this begins
    Functions,      \* the control functions a process may send
    Sizes,          \* a set of the sizes <<rows, columns>> a pane may get
    ChangeHistory,  \* SCREEN_CHANGE_HISTORY
    WheelLines,     \* lines a turn of the wheel scrolls (3)
    MaxFunctions,   \* bound: control functions fed
    MaxOthers       \* bound: resizes and copy-mode inputs

ASSUME PaneAssumption ==
    /\ \A t \in Starts : IsTerminal(t)
    /\ \A f \in Functions : IsFunction(f)
    /\ Sizes \subseteq (Nat \ {0}) \X (Nat \ {0})
    /\ ChangeHistory \in Nat \ {0} /\ WheelLines \in Nat \ {0}
    /\ MaxFunctions \in Nat /\ MaxOthers \in Nat

VARIABLES
    terminal,
    old,            \* what PtyOutput compares with while a chunk is fed, or <<>>
    screen_sequence,
    screen_changes, \* [sequence, rows], where rows may be Everything
    offset,         \* lines copy mode has scrolled back; -1 outside copy mode
    caller,         \* the rows a caller has, and the sequence they are of
    wheeled,        \* the wheel moved the view since the caller looked
    left            \* what is left of the bounds

vars == <<terminal, old, screen_sequence, screen_changes, offset, caller, wheeled, left>>

display_offset == IF offset = -1 THEN 0 ELSE offset

-----------------------------------------------------------------------------
(* Changes.                                                                *)

Kept(changes) == SubSeq(changes, 1 + Less(Len(changes), ChangeHistory), Len(changes))

\* No list of rows: any of them.
Everything == {-1}

mark_pane_screen_change(rows) ==
    /\ screen_sequence' = screen_sequence + 1
    /\ screen_changes' = Kept(Append(screen_changes, [sequence |-> screen_sequence + 1, rows |-> rows]))

NoChange == UNCHANGED <<screen_sequence, screen_changes>>

changed_rows(previous, current) ==
    {r \in DOMAIN previous \cup DOMAIN current :
        r \notin DOMAIN previous \cap DOMAIN current \/ previous[r] # current[r]}

\* A chunk of output is fed function by function.  Nothing else happens meanwhile.
Feed(f) ==
    /\ left.functions > 0
    /\ old' = IF old = <<>> THEN <<terminal>> ELSE old
    /\ terminal' = Handle(terminal, f)
    /\ left' = [left EXCEPT !.functions = @ - 1]
    /\ NoChange /\ UNCHANGED <<offset, caller, wheeled>>

\* The end of PtyOutput: what changed is kept, and on a change of screen that
\* everything did.
Fed ==
    /\ old # <<>>
    /\ old' = <<>>
    /\ IF \/ old[1].grid # terminal.grid
          \/ <<old[1].row, old[1].col>> # <<terminal.row, terminal.col>>
          \/ old[1].modes # terminal.modes \/ old[1].alternate # terminal.alternate
       THEN mark_pane_screen_change(IF old[1].alternate = terminal.alternate
                                    THEN changed_rows(old[1].grid, terminal.grid) ELSE Everything)
       ELSE NoChange
    /\ UNCHANGED <<terminal, offset, caller, wheeled, left>>

\* An action of the client, between two chunks.
Other == old = <<>> /\ left.others > 0 /\ left' = [left EXCEPT !.others = @ - 1]

\* resize_all, for a visible pane whose content area has another size.
Resize(size) ==
    /\ Other /\ size # <<terminal.rows, terminal.cols>>
    /\ terminal' = resize(terminal, size[1], size[2])
    /\ mark_pane_screen_change(Everything)
    /\ UNCHANGED <<old, offset, caller, wheeled>>

-----------------------------------------------------------------------------
(* Copy mode.                                                              *)

EnterCopyMode ==
    /\ Other
    /\ offset' = 0
    /\ mark_pane_screen_change(Everything)
    /\ UNCHANGED <<terminal, old, caller, wheeled>>

\* copy_input: a key scrolls the view by a line or by a screen, moves only the copy
\* cursor, or leaves.  The view may lie above what is left of the scrollback.
CopyKey ==
    /\ Other /\ offset # -1
    /\ \/ \E by \in {1, terminal.rows} :
            offset' \in {Least(offset + by, Len(terminal.history)), Less(offset, by)}
       \/ offset' \in {offset, -1}
    /\ mark_pane_screen_change(Everything)
    /\ UNCHANGED <<terminal, old, caller, wheeled>>

\* The wheel over a pane that takes no mouse reports.  Turned down to the end it
\* leaves, unless shift is held.
Wheel(up, shift) ==
    /\ Other
    /\ LET turned == IF up THEN Least(display_offset + WheelLines, Len(terminal.history))
                     ELSE Less(display_offset, WheelLines)
       IN  /\ offset' = IF ~up /\ turned = 0 /\ ~shift THEN -1 ELSE turned
           /\ wheeled' = (wheeled \/ turned # display_offset)
    /\ NoChange /\ UNCHANGED <<terminal, old, caller>>

-----------------------------------------------------------------------------
(* grid_snapshot, for the rows on view.                                    *)

\* A row as it is sent: as wide as the terminal is now.
Sent(cells) == [c \in 0 .. terminal.cols - 1 |-> IF c \in DOMAIN cells THEN cells[c] ELSE Blank]

RowSent(r) == Sent(viewport_line(terminal, r - display_offset))

\* The range of lines must be one the terminal has.
Served == IsLine(terminal, -display_offset)

AllRows == 0 .. terminal.rows - 1

Full == [r \in AllRows |-> RowSent(r)]

\* Mutant: one change too few is asked of the history.
GapLate(since) ==
    screen_changes # <<>> /\ since + 2 < screen_changes[1].sequence

\* The change after the caller's is no longer kept.
Gap(since) ==
    screen_changes # <<>> /\ since + 1 < screen_changes[1].sequence

\* The changes the caller has not seen.
Unseen(since) == {c \in ToSet(screen_changes) : c.sequence > since}

\* The rows of the answer, and whether they are all there are.
Answer(since) ==
    IF since = screen_sequence THEN [full |-> FALSE, rows |-> {}]
    ELSE IF display_offset > 0 \/ Gap(since) \/ \E c \in Unseen(since) : c.rows = Everything
    THEN [full |-> TRUE, rows |-> AllRows]
    ELSE [full |-> FALSE, rows |-> AllRows \cap UNION {c.rows : c \in Unseen(since)}]

\* What a caller makes of an answer.
Merged(rows, answer) ==
    [r \in AllRows |-> IF r \in answer.rows \/ r \notin DOMAIN rows THEN RowSent(r) ELSE rows[r]]

Look ==
    /\ old = <<>> /\ Served
    /\ caller' = [since |-> screen_sequence, rows |-> Full]
    /\ wheeled' = FALSE
    /\ NoChange /\ UNCHANGED <<terminal, old, offset, left>>

LookAgain ==
    /\ old = <<>> /\ Served
    /\ caller.since # 0
    /\ caller' = [since |-> screen_sequence, rows |-> Merged(caller.rows, Answer(caller.since))]
    /\ NoChange /\ UNCHANGED <<terminal, old, offset, wheeled, left>>

-----------------------------------------------------------------------------
Init ==
    /\ terminal \in Starts
    /\ old = <<>>
    /\ screen_sequence = 1 /\ screen_changes = <<>> /\ offset = -1
    /\ caller = [since |-> 0, rows |-> <<>>] /\ wheeled = FALSE
    /\ left = [functions |-> MaxFunctions, others |-> MaxOthers]

Next ==
    \/ \E f \in Functions : Feed(f)
    \/ Fed \/ EnterCopyMode \/ CopyKey \/ Look \/ LookAgain
    \/ \E size \in Sizes : Resize(size)
    \/ \E up, shift \in BOOLEAN : Wheel(up, shift)

Spec == Init /\ [][Next]_vars
-----------------------------------------------------------------------------
\* Every index the terminal uses without a check is in range, after any control
\* function, on either screen, and after any resize between two chunks
\* (vvmux-terminal/src/lib.rs indexes grid, wrapped and history directly); and the
\* sequence numbers a caller holds are ones the pane has reached.
IndicesInRange ==
    /\ IsTerminal(terminal)
    /\ (old # <<>>) => IsTerminal(old[1])
    /\ screen_sequence \in Nat \ {0}
    /\ screen_changes \in Seq([sequence : Nat, rows : SUBSET Int])
    /\ Len(screen_changes) <= ChangeHistory
    /\ offset \in -1 .. HistoryLimit
    /\ caller.since \in 0 .. screen_sequence

\* A caller that keeps the rows it was given and asks for what changed since has
\* the cells that are on the screen, whatever was printed in one chunk, on
\* whichever screen, through resizes, a copy mode entered and left by its keys,
\* and a history that has forgotten changes: nothing the kept rows leave out has
\* changed (grid_snapshot, changed_rows and mark_pane_screen_change in
\* session.rs).
DeltaExact ==
    (old = <<>> /\ caller.since # 0 /\ offset <= 0 /\ ~wheeled)
    => Merged(caller.rows, Answer(caller.since)) = Full

\* The same whatever moved the view, as the README has it.
\* The code does not meet this: README, section 3.
DeltaAgrees ==
    (old = <<>> /\ caller.since # 0 /\ Served)
    => Merged(caller.rows, Answer(caller.since)) = Full

\* The line of a row that is joined with the next is full.
\* The code does not meet this: README, section 3.
WrapIsSoft ==
    \A r \in AllRows : terminal.wrapped[r] => terminal.grid[r][terminal.cols - 1] # Blank

\* Nothing is printed where get-text shows a tab.
\* The code does not meet this: README, section 3.
TabHidesNothing ==
    \A r \in AllRows : \A c \in DOMAIN terminal.grid[r] :
        LET tab == terminal.grid[r][c].tab
        IN  \A d \in c .. c + tab - 1 : terminal.grid[r][d].ch = " "

\* The view of copy mode lies in the scrollback, so that get-grid can answer.
\* The code does not meet this: README, section 3.
ViewServed == Served
=============================================================================
