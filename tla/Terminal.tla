------------------------------ MODULE Terminal ------------------------------
(***************************************************************************)
(* The terminal of a pane (vvmux-terminal/src/lib.rs): its grid, its       *)
(* scrollback, and what each control function of its byte parser does.     *)
(* There is no state here: a terminal is a record, and a control function  *)
(* is an operator from a terminal to a terminal.                           *)
(*                                                                         *)
(* A cell has the character and the width of a tab that starts in it;      *)
(* colours, attributes, links and combining characters are left out.  Rows *)
(* and columns count from 0, as in the code.                               *)
(***************************************************************************)
EXTENDS Integers, Sequences

CONSTANTS
    HistoryLimit,   \* lines of scrollback
    TabInterval     \* distance of the default tab stops (8)

ASSUME TerminalAssumption == HistoryLimit \in Nat /\ TabInterval \in Nat \ {0}

\* A space, a narrow and a wide character, the second cell of a wide one, and the
\* cell at the end of a row in which a wide one found no room.
Chars == {" ", "a", "W", "continuation", "spacer"}

Least(m, n) == IF m < n THEN m ELSE n
Most(m, n) == IF m > n THEN m ELSE n
Less(m, n) == Most(m - n, 0)

Cells == [ch : Chars, tab : Nat]
Cell(c) == [ch |-> c, tab |-> 0]
Blank == Cell(" ")
BlankRow(cols) == [c \in 0 .. cols - 1 |-> Blank]
blank_grid(rows, cols) == [r \in 0 .. rows - 1 |-> BlankRow(cols)]
Unwrapped(rows) == [r \in 0 .. rows - 1 |-> FALSE]
default_tab_stops(cols, interval) == {c \in 1 .. cols - 1 : c % interval = 0}

new(rows, cols) ==
    [rows |-> rows, cols |-> cols,
     grid |-> blank_grid(rows, cols), alternate_grid |-> blank_grid(rows, cols),
     wrapped |-> Unwrapped(rows), alternate_wrapped |-> Unwrapped(rows),
     history |-> <<>>,
     row |-> 0, col |-> 0, saved |-> <<0, 0>>,
     top |-> 0, bottom |-> rows,
     modes |-> FALSE, alternate |-> FALSE,
     tab_stops |-> default_tab_stops(cols, TabInterval), customized |-> FALSE]

-----------------------------------------------------------------------------
(* Scrolling.                                                              *)

\* The lines of the region move up; those of a whole primary screen are kept.
scroll_region_up(t, n) ==
    LET count == Least(n, Less(t.bottom, t.top))
        Moved(f, empty) ==
            [r \in DOMAIN f |->
                IF r \notin t.top .. t.bottom - 1 THEN f[r]
                ELSE IF r + count < t.bottom THEN f[r + count] ELSE empty]
        kept == t.history \o [i \in 1 .. count |->
                                [cells |-> t.grid[i - 1], wrapped |-> t.wrapped[i - 1]]]
    IN  [t EXCEPT
            !.grid = Moved(t.grid, BlankRow(t.cols)),
            !.wrapped = Moved(t.wrapped, FALSE),
            !.history = IF count > 0 /\ t.top = 0 /\ t.bottom = t.rows /\ ~t.alternate
                        THEN SubSeq(kept, 1 + Less(Len(kept), HistoryLimit), Len(kept)) ELSE @]

scroll_region_down(t, n) ==
    LET count == Least(n, Less(t.bottom, t.top))
        Moved(f, empty) ==
            [r \in DOMAIN f |->
                IF r \notin t.top .. t.bottom - 1 THEN f[r]
                ELSE IF r - count >= t.top THEN f[r - count] ELSE empty]
    IN  [t EXCEPT !.grid = Moved(t.grid, BlankRow(t.cols)), !.wrapped = Moved(t.wrapped, FALSE)]

line_feed(t) ==
    IF t.row + 1 >= t.bottom THEN scroll_region_up(t, 1)
    ELSE [t EXCEPT !.row = Least(t.row + 1, t.rows - 1)]

\* Both take the cursor's row for the top of the region.
insert_blank_lines(t, n) ==
    [scroll_region_down([t EXCEPT !.top = t.row], n) EXCEPT !.top = t.top]
delete_lines(t, n) ==
    [scroll_region_up([t EXCEPT !.top = t.row], n) EXCEPT !.top = t.top]

reverse_index(t) ==
    IF t.row = t.top THEN scroll_region_down(t, 1) ELSE [t EXCEPT !.row = Less(t.row, 1)]

-----------------------------------------------------------------------------
(* Cells.                                                                  *)

\* A tab that covers a changed column is no longer one.
Untabbed(cells, first, last) ==
    [c \in DOMAIN cells |->
        IF c < last /\ c + cells[c].tab > first THEN [cells[c] EXCEPT !.tab = 0] ELSE cells[c]]

invalidate_tab_at(t, r, c) == [t EXCEPT !.grid[r] = Untabbed(@, c, c + 1)]

clear_row_range(t, r, start, end) ==
    [t EXCEPT !.grid[r] =
        [c \in DOMAIN @ |-> IF start <= c /\ c < end THEN Blank
                            ELSE Untabbed(@, start, end)[c]]]

\* Clears rows of the screen, each from its first to its last column.
ClearRows(t, rows) ==
    [t EXCEPT !.grid = [r \in DOMAIN @ |-> IF r \in rows THEN BlankRow(t.cols) ELSE @[r]]]

Wrapped(t) == line_feed([t EXCEPT !.wrapped[t.row] = TRUE, !.col = 0])

Put(t, c) == [t EXCEPT !.grid[t.row][t.col] = Cell(c), !.col = @ + 1]

input(t, c) ==
    LET width == IF c = "W" THEN 2 ELSE 1
        wrapped == IF t.col >= t.cols THEN Wrapped(t) ELSE t
        room == IF width = 1 \/ wrapped.col + 1 < t.cols THEN wrapped
                ELSE LET u == invalidate_tab_at(wrapped, wrapped.row, wrapped.col)
                     IN  Wrapped([u EXCEPT !.grid[u.row][u.col] = Cell("spacer")])
        clear == [room EXCEPT !.grid[room.row] = Untabbed(@, room.col, room.col + width)]
        put == Put(clear, c)
    IN  IF width = 2 /\ put.col < t.cols THEN Put(put, "continuation") ELSE put

NoTabs(cells) == [c \in DOMAIN cells |-> [cells[c] EXCEPT !.tab = 0]]

insert_blank(t, n) ==
    LET count == Least(n, t.cols - t.col)
    IN  [t EXCEPT !.grid[t.row] =
            [c \in DOMAIN @ |-> IF c < t.col THEN NoTabs(@)[c]
                                ELSE IF c < t.col + count THEN Blank ELSE NoTabs(@)[c - count]]]

delete_chars(t, n) ==
    LET count == Least(n, t.cols - t.col)
    IN  [t EXCEPT !.grid[t.row] =
            [c \in DOMAIN @ |-> IF c >= t.cols - count THEN Blank
                                ELSE IF c < t.col THEN NoTabs(@)[c] ELSE NoTabs(@)[c + count]]]

erase_chars(t, n) == clear_row_range(t, t.row, t.col, Least(t.col + n, t.cols))

clear_line(t, mode) ==
    CASE mode = "right" -> clear_row_range(t, t.row, t.col, t.cols)
      [] mode = "left"  -> clear_row_range(t, t.row, 0, t.col + 1)
      [] mode = "all"   -> clear_row_range(t, t.row, 0, t.cols)

clear_screen(t, mode) ==
    CASE mode = "below" -> ClearRows(clear_line(t, "right"), t.row + 1 .. t.rows - 1)
      [] mode = "above" -> ClearRows(clear_line(t, "left"), 0 .. t.row - 1)
      [] mode = "all"   -> [t EXCEPT !.grid = blank_grid(t.rows, t.cols),
                                     !.wrapped = Unwrapped(t.rows)]
      [] mode = "saved" -> [t EXCEPT !.history = <<>>]

-----------------------------------------------------------------------------
(* The cursor.                                                             *)

goto(t, r, c) == [t EXCEPT !.row = Least(r, t.rows - 1), !.col = Least(c, t.cols - 1)]

move_up(t, n) == [t EXCEPT !.row = Most(Less(@, n), t.top)]
move_down(t, n) == [t EXCEPT !.row = Least(@ + n, Less(t.bottom, 1))]
move_forward(t, n) == [t EXCEPT !.col = Least(@ + n, t.cols - 1)]
move_backward(t, n) == [t EXCEPT !.col = Less(@, n)]
carriage_return(t) == [t EXCEPT !.col = 0]

save_cursor_position(t) == [t EXCEPT !.saved = <<t.row, t.col>>]
restore_cursor_position(t) == goto(t, t.saved[1], t.saved[2])

\* The rows of a region count from 1.
set_scrolling_region(t, top, bottom) ==
    LET first == Least(Less(top, 1), t.rows - 1)
    IN  goto([t EXCEPT !.top = first, !.bottom = Least(Most(bottom, first + 1), t.rows)], 0, 0)

\* The cursor moves over what is there; its first cell gets the tab's width.
put_tab(t) ==
    LET after == {c \in t.tab_stops : c > t.col}
        next == IF after = {} THEN t.cols - 1 ELSE CHOOSE c \in after : \A d \in after : c <= d
    IN  [t EXCEPT !.grid = IF next > t.col THEN [@ EXCEPT ![t.row][t.col].tab = next - t.col] ELSE @,
                  !.col = next]

set_horizontal_tabstop(t) ==
    [t EXCEPT !.customized = TRUE, !.tab_stops = @ \cup ({t.col} \cap 0 .. t.cols - 1)]
clear_tabs(t, all) ==
    [t EXCEPT !.customized = TRUE, !.tab_stops = IF all THEN {} ELSE @ \ {t.col}]
set_tabs(t, interval) ==
    [t EXCEPT !.customized = TRUE, !.tab_stops = default_tab_stops(t.cols, interval)]

-----------------------------------------------------------------------------
(* Modes, the whole terminal, and its size.                                *)

\* One of the modes that only change what is reported.
set_mode(t, on) == [t EXCEPT !.modes = on]

\* Mode 1049.  The saved cursor, the region and the tab stops are shared.
set_alternate(t, on) ==
    IF on = t.alternate THEN t
    ELSE [t EXCEPT !.grid = t.alternate_grid, !.alternate_grid = t.grid,
                   !.wrapped = t.alternate_wrapped, !.alternate_wrapped = t.wrapped,
                   !.alternate = on, !.row = 0, !.col = 0]

\* The saved cursor stays, and the alternate screen stays the one in use.
reset_state(t) == [new(t.rows, t.cols) EXCEPT !.saved = t.saved, !.alternate = t.alternate]

resize_grid(grid, rows, cols) ==
    [r \in 0 .. rows - 1 |->
        IF r \notin DOMAIN grid THEN BlankRow(cols)
        ELSE [c \in 0 .. cols - 1 |-> IF c \in DOMAIN grid[r] THEN grid[r][c] ELSE Blank]]

Flags(f, rows) == [r \in 0 .. rows - 1 |-> r \in DOMAIN f /\ f[r]]

\* Mutant: the scrolling region is the one of the old size.
resizeKeepingRegion(t, rows, cols) ==
    [t EXCEPT
        !.rows = rows, !.cols = cols,
        !.grid = resize_grid(@, rows, cols), !.alternate_grid = resize_grid(@, rows, cols),
        !.wrapped = Flags(@, rows), !.alternate_wrapped = Flags(@, rows),
        !.row = Least(@, rows - 1), !.col = Least(@, cols - 1)]

resize(t, rows, cols) ==
    [t EXCEPT
        !.rows = rows, !.cols = cols,
        !.grid = resize_grid(@, rows, cols), !.alternate_grid = resize_grid(@, rows, cols),
        !.wrapped = Flags(@, rows), !.alternate_wrapped = Flags(@, rows),
        !.row = Least(@, rows - 1), !.col = Least(@, cols - 1),
        !.top = 0, !.bottom = rows,
        !.tab_stops = IF t.customized THEN @ \cap 0 .. cols - 1
                      ELSE default_tab_stops(cols, TabInterval)]

-----------------------------------------------------------------------------
\* What the parser makes of one control function or character.
Handle(t, f) ==
    CASE f.do = "input"    -> input(t, f.ch)
      [] f.do = "linefeed" -> line_feed(t)
      [] f.do = "newline"  -> carriage_return(line_feed(t))
      [] f.do = "return"   -> carriage_return(t)
      [] f.do = "goto"     -> goto(t, f.row, f.col)
      [] f.do = "up"       -> move_up(t, f.n)
      [] f.do = "down"     -> move_down(t, f.n)
      [] f.do = "forward"  -> move_forward(t, f.n)
      [] f.do = "backward" -> move_backward(t, f.n)
      [] f.do = "tab"      -> put_tab(t)
      [] f.do = "set_stop" -> set_horizontal_tabstop(t)
      [] f.do = "clear_stops" -> clear_tabs(t, f.all)
      [] f.do = "set_tabs" -> set_tabs(t, f.n)
      [] f.do = "insert_blank" -> insert_blank(t, f.n)
      [] f.do = "delete_chars" -> delete_chars(t, f.n)
      [] f.do = "erase_chars"  -> erase_chars(t, f.n)
      [] f.do = "clear_line"   -> clear_line(t, f.mode)
      [] f.do = "clear_screen" -> clear_screen(t, f.mode)
      [] f.do = "scroll_up"    -> scroll_region_up(t, f.n)
      [] f.do = "scroll_down"  -> scroll_region_down(t, f.n)
      [] f.do = "insert_lines" -> insert_blank_lines(t, f.n)
      [] f.do = "delete_lines" -> delete_lines(t, f.n)
      [] f.do = "reverse"  -> reverse_index(t)
      [] f.do = "region"   -> set_scrolling_region(t, f.top, f.bottom)
      [] f.do = "save"     -> save_cursor_position(t)
      [] f.do = "restore"  -> restore_cursor_position(t)
      [] f.do = "mode"     -> set_mode(t, f.on)
      [] f.do = "alternate" -> set_alternate(t, f.on)
      [] f.do = "reset"    -> reset_state(t)

\* viewport_line and line_wrapped: lines before the screen count down from -1.
IsLine(t, line) == -Len(t.history) <= line /\ line < t.rows
viewport_line(t, line) ==
    IF line < 0 THEN t.history[Len(t.history) + line + 1].cells ELSE t.grid[line]
line_wrapped(t, line) ==
    IF line < 0 THEN t.history[Len(t.history) + line + 1].wrapped ELSE t.wrapped[line]

\* A terminal whose indices all lie where the code uses them without a check.
Grids(rows, cols) == [0 .. rows - 1 -> [0 .. cols - 1 -> Cells]]
Fields == {"rows", "cols", "grid", "alternate_grid", "wrapped", "alternate_wrapped", "history",
           "row", "col", "saved", "top", "bottom", "modes", "alternate", "tab_stops", "customized"}
IsScrollback(h) == h \in Seq({h[i] : i \in DOMAIN h}) /\ Len(h) <= HistoryLimit
IsTerminal(t) ==
    /\ DOMAIN t = Fields
    /\ t.rows \in Nat \ {0} /\ t.cols \in Nat \ {0}
    /\ t.grid \in Grids(t.rows, t.cols) /\ t.alternate_grid \in Grids(t.rows, t.cols)
    /\ t.wrapped \in [0 .. t.rows - 1 -> BOOLEAN]
    /\ t.alternate_wrapped \in [0 .. t.rows - 1 -> BOOLEAN]
    /\ IsScrollback(t.history)
    /\ t.row \in 0 .. t.rows - 1 /\ t.col \in 0 .. t.cols
    /\ t.saved \in Nat \X Nat
    /\ t.top \in 0 .. t.rows - 1 /\ t.bottom \in t.top + 1 .. t.rows
    /\ t.tab_stops \subseteq 0 .. t.cols - 1

\* A control function with the parameters the parser gives it.
IsFunction(f) ==
    \/ f.do = "input" /\ f.ch \in {" ", "a", "W"}
    \/ f.do = "goto" /\ f.row \in Nat /\ f.col \in Nat
    \/ f.do = "region" /\ f.top \in Nat /\ f.bottom \in Nat
    \/ f.do \in {"up", "down", "forward", "backward", "insert_blank", "delete_chars",
                 "erase_chars", "scroll_up", "scroll_down", "insert_lines", "delete_lines"}
       /\ f.n \in Nat
    \/ f.do = "set_tabs" /\ f.n \in Nat \ {0}
    \/ f.do = "clear_line" /\ f.mode \in {"right", "left", "all"}
    \/ f.do = "clear_screen" /\ f.mode \in {"below", "above", "all", "saved"}
    \/ f.do \in {"linefeed", "newline", "return", "tab", "set_stop", "clear_stops", "reverse",
                 "save", "restore", "mode", "alternate", "reset"}
=============================================================================
