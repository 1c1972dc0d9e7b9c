--------------------------- MODULE PaneViewProofs ---------------------------
(***************************************************************************)
(* Proofs about Terminal and PaneView, for every size of a pane, every     *)
(* scrollback, every tab interval and every set of control functions:      *)
(* every control function keeps a terminal's indices in range, the indices *)
(* of a pane and of a caller stay in range, and deltas are exact.          *)
(***************************************************************************)
EXTENDS PaneView, SequenceTheorems, WellFoundedInduction, TLAPS

USE TerminalAssumption

\* What a change of the screen leaves alone.
Others(t) == <<t.rows, t.cols, t.alternate_grid, t.alternate_wrapped, t.saved, t.tab_stops>>

\* The rows of a screen so wide.
RowOf(cols) == [0 .. cols - 1 -> Cells]

\* A terminal, but for the order of the ends of its region: inserting and deleting
\* lines takes the cursor's row for the top, which may lie below the bottom.
Shaped(t) ==
    /\ DOMAIN t = Fields
    /\ t.rows \in Nat \ {0} /\ t.cols \in Nat \ {0}
    /\ t.grid \in Grids(t.rows, t.cols) /\ t.alternate_grid \in Grids(t.rows, t.cols)
    /\ t.wrapped \in [0 .. t.rows - 1 -> BOOLEAN]
    /\ t.alternate_wrapped \in [0 .. t.rows - 1 -> BOOLEAN]
    /\ IsScrollback(t.history)
    /\ t.row \in 0 .. t.rows - 1 /\ t.col \in 0 .. t.cols
    /\ t.saved \in Nat \X Nat
    /\ t.top \in 0 .. t.rows - 1 /\ t.bottom \in 1 .. t.rows
    /\ t.tab_stops \subseteq 0 .. t.cols - 1

\* What is left of a terminal is the order of its region.
LEMMA ShapedIs == 
    ASSUME NEW t
    PROVE IsTerminal(t) <=> Shaped(t) /\ t.top < t.bottom
BY DEF Shaped, IsTerminal

\* A change of the screen that keeps the rest.
LEMMA Framed ==
    ASSUME NEW t, Shaped(t), NEW u, DOMAIN u = Fields, Others(u) = Others(t),
           u.grid \in Grids(t.rows, t.cols), u.wrapped \in [0 .. t.rows - 1 -> BOOLEAN],
           IsScrollback(u.history), u.row \in 0 .. t.rows - 1, u.col \in 0 .. t.cols,
           u.top \in 0 .. t.rows - 1, u.bottom \in 1 .. t.rows
    PROVE  Shaped(u)
BY DEF Shaped, Others

\* A blank row is a row.
LEMMA BlankRows ==
    ASSUME NEW cols \in Nat
    PROVE  BlankRow(cols) \in RowOf(cols)
BY DEF BlankRow, RowOf, Blank, Cell, Cells, Chars

\* Lines appended to a scrollback, cut to its limit, are a scrollback.
LEMMA Scrollbacks ==
    ASSUME NEW h, IsScrollback(h), NEW n \in Nat, NEW R, NEW g \in [1 .. n -> R]
    PROVE  LET kept == h \o g
           IN  IsScrollback(SubSeq(kept, 1 + Less(Len(kept), HistoryLimit), Len(kept)))
<1>. DEFINE S == {h[i] : i \in DOMAIN h} \cup R
            kept == h \o g
            m == 1 + Less(Len(kept), HistoryLimit)
            s == SubSeq(kept, m, Len(kept))
<1>0. h \in Seq({h[i] : i \in DOMAIN h}) /\ Len(h) \in Nat
  BY LenProperties DEF IsScrollback
<1>1a. h \in Seq(S)
  BY <1>0, SeqDef
<1>1b. g \in [1 .. n -> S]
  OBVIOUS
<1>1. h \in Seq(S) /\ g \in Seq(S)
  <2>. HIDE DEF S
  <2>. QED BY <1>1a, <1>1b, SeqDef
<1>2. kept \in Seq(S) /\ Len(kept) \in Nat
  <2>. HIDE DEF S
  <2>. QED BY <1>1, ConcatProperties
<1>3. m \in 1 .. Len(kept) + 1
  <2>. HIDE DEF kept
  <2>. QED BY <1>2 DEF Less, Most
<1>4. s \in Seq(S) /\ Len(s) = IF m <= Len(kept) THEN Len(kept) - m + 1 ELSE 0
  <2>. HIDE DEF S, kept, m
  <2>. QED BY <1>2, <1>3, SubSeqProperties
<1>5. Len(s) <= HistoryLimit
  <2>. HIDE DEF kept, s
  <2>. QED BY <1>2, <1>4 DEF Less, Most
<1>6. s \in Seq({s[i] : i \in DOMAIN s})
  <2>. HIDE DEF S, s
  <2>. QED BY <1>4, SeqDef, LenProperties
<1>. QED BY <1>5, <1>6 DEF IsScrollback
\* A set of numbers has a least one.
LEMMA LeastExists ==
    ASSUME NEW S \in SUBSET Nat, S # {}
    PROVE  \E x \in S : \A y \in S : x <= y
<1>1. \E x \in S : \A y \in S : ~(<<y, x>> \in OpToRel(<, Nat))
  BY NatLessThanWellFounded, WFMin, ZenonT(30)
<1>2. PICK x \in S : \A y \in S : ~(<<y, x>> \in OpToRel(<, Nat))
  BY <1>1, Zenon
<1>3. \A y \in S : ~(y < x)
  <2>. TAKE y \in S
  <2>1. <<y, x>> \notin OpToRel(<, Nat)
    BY <1>2, Zenon
  <2>. QED BY <2>1 DEF OpToRel
<1>. QED BY <1>3

\* The lines of a region moved down, and up.
Down(f, empty, top, bottom, count) ==
    [r \in DOMAIN f |-> IF r \notin top .. bottom - 1 THEN f[r]
                        ELSE IF r - count >= top THEN f[r - count] ELSE empty]
Up(f, empty, top, bottom, count) ==
    [r \in DOMAIN f |-> IF r \notin top .. bottom - 1 THEN f[r]
                        ELSE IF r + count < bottom THEN f[r + count] ELSE empty]

\* They are of the kind of those that were there.
LEMMA MovedLines ==
    ASSUME NEW S, NEW n \in Nat, NEW f \in [0 .. n - 1 -> S], NEW empty \in S,
           NEW top \in 0 .. n - 1, NEW bottom \in 1 .. n, NEW count \in Nat
    PROVE  /\ Down(f, empty, top, bottom, count) \in [0 .. n - 1 -> S]
           /\ Up(f, empty, top, bottom, count) \in [0 .. n - 1 -> S]
BY DEF Down, Up

\* A scroll down, whatever the region.
LEMMA ScrollDownShaped ==
    ASSUME NEW t, Shaped(t), NEW n \in Nat
    PROVE  LET u == scroll_region_down(t, n)
           IN  Shaped(u) /\ u.top = t.top /\ u.bottom = t.bottom /\ u.rows = t.rows
<1>. DEFINE u == scroll_region_down(t, n)
            count == Least(n, Less(t.bottom, t.top))
<1>0. count \in Nat /\ (count > 0 => t.top + count <= t.bottom)
  BY SMTT(30) DEF Least, Less, Most, Shaped
<1>1. /\ DOMAIN u = Fields /\ Others(u) = Others(t) /\ u.history = t.history
      /\ u.row = t.row /\ u.col = t.col /\ u.top = t.top /\ u.bottom = t.bottom
  BY DEF scroll_region_down, Shaped, Fields, Others
<1>2. u.grid = Down(t.grid, BlankRow(t.cols), t.top, t.bottom, count)
  BY DEF scroll_region_down, Shaped, Fields, Down
<1>3. u.wrapped = Down(t.wrapped, FALSE, t.top, t.bottom, count)
  BY DEF scroll_region_down, Shaped, Fields, Down
<1>. HIDE DEF u, count
<1>4. u.grid \in Grids(t.rows, t.cols)
  <2>1. /\ t.rows \in Nat /\ t.grid \in [0 .. t.rows - 1 -> RowOf(t.cols)]
        /\ BlankRow(t.cols) \in RowOf(t.cols)
        /\ t.top \in 0 .. t.rows - 1 /\ t.bottom \in 1 .. t.rows
    BY BlankRows DEF Shaped, Grids, RowOf
  <2>2. Down(t.grid, BlankRow(t.cols), t.top, t.bottom, count)
        \in [0 .. t.rows - 1 -> RowOf(t.cols)]
    BY <1>0, <2>1, MovedLines
  <2>. QED BY <1>2, <2>2 DEF Grids, RowOf
<1>5. u.wrapped \in [0 .. t.rows - 1 -> BOOLEAN]
  <2>1. /\ t.rows \in Nat /\ t.wrapped \in [0 .. t.rows - 1 -> BOOLEAN] /\ FALSE \in BOOLEAN
        /\ t.top \in 0 .. t.rows - 1 /\ t.bottom \in 1 .. t.rows
    BY DEF Shaped
  <2>2. Down(t.wrapped, FALSE, t.top, t.bottom, count) \in [0 .. t.rows - 1 -> BOOLEAN]
    BY <1>0, <2>1, MovedLines
  <2>. QED BY <1>3, <2>2
<1>6. Shaped(u)
  BY <1>1, <1>4, <1>5, Framed DEF Shaped
<1>7. u.rows = t.rows
  BY <1>1 DEF Others
<1>. QED BY <1>1, <1>6, <1>7 DEF u

\* A scroll up, whatever the region.
LEMMA ScrollUpShaped ==
    ASSUME NEW t, Shaped(t), NEW n \in Nat
    PROVE  LET u == scroll_region_up(t, n)
           IN  /\ Shaped(u) /\ u.top = t.top /\ u.bottom = t.bottom
               /\ u.rows = t.rows /\ u.cols = t.cols /\ u.col = t.col
<1>. DEFINE u == scroll_region_up(t, n)
            count == Least(n, Less(t.bottom, t.top))
            kept == t.history \o [i \in 1 .. count |->
                                    [cells |-> t.grid[i - 1], wrapped |-> t.wrapped[i - 1]]]
<1>0. count \in Nat /\ (count > 0 => t.top + count <= t.bottom)
  BY SMTT(30) DEF Least, Less, Most, Shaped
<1>1. /\ DOMAIN u = Fields /\ Others(u) = Others(t)
      /\ u.row = t.row /\ u.col = t.col /\ u.top = t.top /\ u.bottom = t.bottom
  BY DEF scroll_region_up, Shaped, Fields, Others
<1>2. u.grid = Up(t.grid, BlankRow(t.cols), t.top, t.bottom, count)
  BY DEF scroll_region_up, Shaped, Fields, Up
<1>3. u.wrapped = Up(t.wrapped, FALSE, t.top, t.bottom, count)
  BY DEF scroll_region_up, Shaped, Fields, Up
<1>4. u.history \in {t.history, SubSeq(kept, 1 + Less(Len(kept), HistoryLimit), Len(kept))}
  BY DEF scroll_region_up, Shaped, Fields
<1>5. IsScrollback(SubSeq(kept, 1 + Less(Len(kept), HistoryLimit), Len(kept)))
  <2>1. IsScrollback(t.history)
    BY DEF Shaped
  <2>2. [i \in 1 .. count |-> [cells |-> t.grid[i - 1], wrapped |-> t.wrapped[i - 1]]]
        \in [1 .. count -> {[cells |-> t.grid[i - 1], wrapped |-> t.wrapped[i - 1]] : i \in 1 .. count}]
    OBVIOUS
  <2>. HIDE DEF count
  <2>. QED BY <1>0, <2>1, <2>2, Scrollbacks, Zenon
<1>. HIDE DEF u, count, kept
<1>6. u.grid \in Grids(t.rows, t.cols)
  <2>1. /\ t.rows \in Nat /\ t.grid \in [0 .. t.rows - 1 -> RowOf(t.cols)]
        /\ BlankRow(t.cols) \in RowOf(t.cols)
        /\ t.top \in 0 .. t.rows - 1 /\ t.bottom \in 1 .. t.rows
    BY BlankRows DEF Shaped, Grids, RowOf
  <2>2. Up(t.grid, BlankRow(t.cols), t.top, t.bottom, count)
        \in [0 .. t.rows - 1 -> RowOf(t.cols)]
    BY <1>0, <2>1, MovedLines
  <2>. QED BY <1>2, <2>2 DEF Grids, RowOf
<1>7. u.wrapped \in [0 .. t.rows - 1 -> BOOLEAN]
  <2>1. /\ t.rows \in Nat /\ t.wrapped \in [0 .. t.rows - 1 -> BOOLEAN] /\ FALSE \in BOOLEAN
        /\ t.top \in 0 .. t.rows - 1 /\ t.bottom \in 1 .. t.rows
    BY DEF Shaped
  <2>2. Up(t.wrapped, FALSE, t.top, t.bottom, count) \in [0 .. t.rows - 1 -> BOOLEAN]
    BY <1>0, <2>1, MovedLines
  <2>. QED BY <1>3, <2>2
<1>8. Shaped(u)
  BY <1>1, <1>4, <1>5, <1>6, <1>7, Framed DEF Shaped
<1>9. u.rows = t.rows /\ u.cols = t.cols
  BY <1>1 DEF Others
<1>. QED BY <1>1, <1>8, <1>9 DEF u

\* The cursor in another row.
LEMMA SetRow ==
    ASSUME NEW t, IsTerminal(t), NEW r \in 0 .. t.rows - 1
    PROVE  LET u == [t EXCEPT !.row = r]
           IN  IsTerminal(u) /\ u.rows = t.rows /\ u.cols = t.cols /\ u.col = t.col
<1>. DEFINE u == [t EXCEPT !.row = r]
<1>1. /\ DOMAIN u = Fields /\ Others(u) = Others(t)
      /\ u.grid = t.grid /\ u.wrapped = t.wrapped /\ u.history = t.history
      /\ u.row = r /\ u.col = t.col /\ u.top = t.top /\ u.bottom = t.bottom
  BY DEF IsTerminal, Fields, Others
<1>. HIDE DEF u
<1>2. IsTerminal(u) /\ u.rows = t.rows /\ u.cols = t.cols /\ u.col = t.col
  BY <1>1 DEF IsTerminal, Others
<1>. QED BY <1>2 DEF u

\* The cursor in another column.
LEMMA SetCol ==
    ASSUME NEW t, IsTerminal(t), NEW c \in 0 .. t.cols
    PROVE  LET u == [t EXCEPT !.col = c]
           IN  IsTerminal(u) /\ u.rows = t.rows /\ u.cols = t.cols /\ u.col = c
<1>. DEFINE u == [t EXCEPT !.col = c]
<1>1. /\ DOMAIN u = Fields /\ Others(u) = Others(t)
      /\ u.grid = t.grid /\ u.wrapped = t.wrapped /\ u.history = t.history
      /\ u.row = t.row /\ u.col = c /\ u.top = t.top /\ u.bottom = t.bottom
  BY DEF IsTerminal, Fields, Others
<1>. HIDE DEF u
<1>2. IsTerminal(u) /\ u.rows = t.rows /\ u.cols = t.cols /\ u.col = c
  BY <1>1 DEF IsTerminal, Others
<1>. QED BY <1>2 DEF u

\* Another grid of the same size.
LEMMA SetGrid ==
    ASSUME NEW t, IsTerminal(t), NEW g \in Grids(t.rows, t.cols)
    PROVE  LET u == [t EXCEPT !.grid = g]
           IN  /\ IsTerminal(u) /\ u.grid = g /\ u.rows = t.rows /\ u.cols = t.cols
               /\ u.row = t.row /\ u.col = t.col
<1>. DEFINE u == [t EXCEPT !.grid = g]
<1>1. /\ DOMAIN u = Fields /\ Others(u) = Others(t)
      /\ u.grid = g /\ u.wrapped = t.wrapped /\ u.history = t.history
      /\ u.row = t.row /\ u.col = t.col /\ u.top = t.top /\ u.bottom = t.bottom
  BY DEF IsTerminal, Fields, Others
<1>. HIDE DEF u
<1>2. IsTerminal(u) /\ u.rows = t.rows /\ u.cols = t.cols
  BY <1>1 DEF IsTerminal, Others
<1>. QED BY <1>1, <1>2 DEF u

\* One other row.
LEMMA SetLine ==
    ASSUME NEW t, IsTerminal(t), NEW r \in 0 .. t.rows - 1, NEW cells \in RowOf(t.cols)
    PROVE  LET u == [t EXCEPT !.grid[r] = cells]
           IN  /\ IsTerminal(u) /\ u.grid = [t.grid EXCEPT ![r] = cells]
               /\ u.rows = t.rows /\ u.cols = t.cols /\ u.row = t.row /\ u.col = t.col
<1>1. [t.grid EXCEPT ![r] = cells] \in Grids(t.rows, t.cols)
  BY DEF IsTerminal, Grids, RowOf
<1>2. [t EXCEPT !.grid[r] = cells] = [t EXCEPT !.grid = [t.grid EXCEPT ![r] = cells]]
  OBVIOUS
<1>. QED BY <1>1, <1>2, SetGrid

\* The cursor is put where the screen ends at the latest.
LEMMA GotoKeeps ==
    ASSUME NEW t, IsTerminal(t), NEW r \in Nat, NEW c \in Nat
    PROVE  IsTerminal(goto(t, r, c))
<1>. DEFINE u == goto(t, r, c)
<1>1. /\ DOMAIN u = Fields /\ Others(u) = Others(t)
      /\ u.grid = t.grid /\ u.wrapped = t.wrapped /\ u.history = t.history
      /\ u.row = Least(r, t.rows - 1) /\ u.col = Least(c, t.cols - 1)
      /\ u.top = t.top /\ u.bottom = t.bottom
  BY DEF goto, IsTerminal, Fields, Others
<1>. HIDE DEF u
<1>0. Least(r, t.rows - 1) \in 0 .. t.rows - 1 /\ Least(c, t.cols - 1) \in 0 .. t.cols
  BY SMTT(30) DEF IsTerminal, Least
<1>2. IsTerminal(u)
  BY <1>0, <1>1 DEF IsTerminal, Others
<1>. QED BY <1>2 DEF u

\* Functions that move the cursor.
LEMMA MovesKeep ==
    ASSUME NEW t, IsTerminal(t), NEW n \in Nat
    PROVE  /\ IsTerminal(move_up(t, n)) /\ IsTerminal(move_down(t, n))
           /\ IsTerminal(move_forward(t, n)) /\ IsTerminal(move_backward(t, n))
           /\ IsTerminal(carriage_return(t)) /\ IsTerminal(restore_cursor_position(t))
<1>0. /\ t.rows \in Nat \ {0} /\ t.cols \in Nat \ {0}
      /\ t.row \in 0 .. t.rows - 1 /\ t.col \in 0 .. t.cols
      /\ t.top \in 0 .. t.rows - 1 /\ t.bottom \in t.top + 1 .. t.rows
      /\ t.saved[1] \in Nat /\ t.saved[2] \in Nat
  BY DEF IsTerminal
<1>1. Most(Less(t.row, n), t.top) \in 0 .. t.rows - 1
  BY <1>0 DEF Most, Less
<1>2. Least(t.row + n, Less(t.bottom, 1)) \in 0 .. t.rows - 1
  BY <1>0 DEF Least, Less, Most
<1>3. Least(t.col + n, t.cols - 1) \in 0 .. t.cols /\ Less(t.col, n) \in 0 .. t.cols /\ 0 \in 0 .. t.cols
  BY <1>0 DEF Least, Less, Most
<1>4. IsTerminal(move_up(t, n)) /\ IsTerminal(move_down(t, n))
  BY <1>1, <1>2, SetRow DEF move_up, move_down
<1>5. IsTerminal(move_forward(t, n)) /\ IsTerminal(move_backward(t, n)) /\ IsTerminal(carriage_return(t))
  BY <1>3, SetCol DEF move_forward, move_backward, carriage_return
<1>6. IsTerminal(restore_cursor_position(t))
  BY <1>0, GotoKeeps DEF restore_cursor_position
<1>. QED BY <1>4, <1>5, <1>6

\* A scroll of the region of the terminal.
LEMMA ScrollsKeep ==
    ASSUME NEW t, IsTerminal(t), NEW n \in Nat
    PROVE  /\ IsTerminal(scroll_region_down(t, n)) /\ IsTerminal(scroll_region_up(t, n))
           /\ scroll_region_up(t, n).cols = t.cols /\ scroll_region_up(t, n).col = t.col
<1>1. Shaped(t) /\ t.top < t.bottom
  BY DEF IsTerminal, Shaped
<1>2. Shaped(scroll_region_down(t, n)) /\ scroll_region_down(t, n).top < scroll_region_down(t, n).bottom
  BY <1>1, ScrollDownShaped
<1>3. /\ Shaped(scroll_region_up(t, n)) /\ scroll_region_up(t, n).top < scroll_region_up(t, n).bottom
      /\ scroll_region_up(t, n).cols = t.cols /\ scroll_region_up(t, n).col = t.col
  BY <1>1, ScrollUpShaped
<1>. QED BY <1>2, <1>3, ShapedIs

\* A line feed and its reverse.
LEMMA LineFeedKeeps ==
    ASSUME NEW t, IsTerminal(t)
    PROVE  /\ IsTerminal(line_feed(t)) /\ line_feed(t).cols = t.cols /\ line_feed(t).col = t.col
           /\ IsTerminal(reverse_index(t))
<1>0. t.rows \in Nat \ {0} /\ t.row \in 0 .. t.rows - 1
  BY DEF IsTerminal
<1>1. Least(t.row + 1, t.rows - 1) \in 0 .. t.rows - 1 /\ Less(t.row, 1) \in 0 .. t.rows - 1
  BY <1>0 DEF Least, Less, Most
<1>2. IsTerminal([t EXCEPT !.row = Less(t.row, 1)])
  BY <1>1, SetRow
<1>. DEFINE r == Least(t.row + 1, t.rows - 1)
            u == [t EXCEPT !.row = r]
<1>3. IsTerminal(u) /\ u.cols = t.cols /\ u.col = t.col
  <2>. HIDE DEF r
  <2>. QED BY <1>1, SetRow DEF r
<1>4. IsTerminal(reverse_index(t))
  BY <1>2, ScrollsKeep DEF reverse_index
<1>5. IsTerminal(line_feed(t)) /\ line_feed(t).cols = t.cols /\ line_feed(t).col = t.col
  <2>1. CASE t.row + 1 >= t.bottom
    BY <2>1, ScrollsKeep DEF line_feed
  <2>2. CASE ~(t.row + 1 >= t.bottom)
    BY <2>2, <1>3 DEF line_feed
  <2>. QED BY <2>1, <2>2
<1>. QED BY <1>4, <1>5

\* A region with another top.
LEMMA SetTop ==
    ASSUME NEW t, Shaped(t), NEW top \in 0 .. t.rows - 1
    PROVE  LET u == [t EXCEPT !.top = top]
           IN  /\ Shaped(u) /\ u.top = top /\ u.bottom = t.bottom /\ u.rows = t.rows
<1>. DEFINE u == [t EXCEPT !.top = top]
<1>1. /\ DOMAIN u = Fields /\ Others(u) = Others(t)
      /\ u.grid = t.grid /\ u.wrapped = t.wrapped /\ u.history = t.history
      /\ u.row = t.row /\ u.col = t.col /\ u.top = top /\ u.bottom = t.bottom
  BY DEF Shaped, Fields, Others
<1>. HIDE DEF u
<1>2. Shaped(u) /\ u.rows = t.rows
  BY <1>1 DEF Shaped, Others
<1>. QED BY <1>1, <1>2 DEF u

\* Lines inserted and deleted from the cursor's row on, wherever it is.
LEMMA LinesKeep ==
    ASSUME NEW t, IsTerminal(t), NEW n \in Nat
    PROVE  IsTerminal(insert_blank_lines(t, n)) /\ IsTerminal(delete_lines(t, n))
<1>. DEFINE v == [t EXCEPT !.top = t.row]
            d == scroll_region_down(v, n)
            u == scroll_region_up(v, n)
<1>1. Shaped(t) /\ t.row \in 0 .. t.rows - 1 /\ t.top \in 0 .. t.rows - 1 /\ t.top < t.bottom
  BY DEF IsTerminal, Shaped
<1>2. Shaped(v) /\ v.bottom = t.bottom /\ v.rows = t.rows
  BY <1>1, SetTop
<1>. HIDE DEF v
<1>3. Shaped(d) /\ d.bottom = t.bottom /\ d.rows = t.rows
  BY <1>2, ScrollDownShaped
<1>4. Shaped(u) /\ u.bottom = t.bottom /\ u.rows = t.rows
  BY <1>2, ScrollUpShaped
<1>. HIDE DEF d, u
<1>5. IsTerminal([d EXCEPT !.top = t.top])
  <2>. DEFINE w == [d EXCEPT !.top = t.top]
  <2>1. Shaped(w) /\ w.top = t.top /\ w.bottom = t.bottom
    BY <1>1, <1>3, SetTop
  <2>. HIDE DEF w
  <2>2. IsTerminal(w)
    BY <1>1, <2>1, ShapedIs
  <2>. QED BY <2>2 DEF w
<1>6. IsTerminal([u EXCEPT !.top = t.top])
  <2>. DEFINE w == [u EXCEPT !.top = t.top]
  <2>1. Shaped(w) /\ w.top = t.top /\ w.bottom = t.bottom
    BY <1>1, <1>4, SetTop
  <2>. HIDE DEF w
  <2>2. IsTerminal(w)
    BY <1>1, <2>1, ShapedIs
  <2>. QED BY <2>2 DEF w
<1>7. insert_blank_lines(t, n) = [d EXCEPT !.top = t.top] /\ delete_lines(t, n) = [u EXCEPT !.top = t.top]
  BY DEF insert_blank_lines, delete_lines, d, u, v
<1>. QED BY <1>5, <1>6, <1>7

\* A row without some of its tabs is a row.
LEMMA Lines ==
    ASSUME NEW cols \in Nat, NEW cells \in RowOf(cols), NEW i \in Int, NEW j \in Int
    PROVE  Untabbed(cells, i, j) \in RowOf(cols) /\ NoTabs(cells) \in RowOf(cols)
BY DEF Untabbed, NoTabs, RowOf, Cells

\* Blanks in the cursor's row.
LEMMA ClearRangeKeeps ==
    ASSUME NEW t, IsTerminal(t), NEW i \in Int, NEW j \in Int
    PROVE  IsTerminal(clear_row_range(t, t.row, i, j))
<1>. DEFINE cells == [c \in DOMAIN t.grid[t.row] |-> IF i <= c /\ c < j THEN Blank
                            ELSE Untabbed(t.grid[t.row], i, j)[c]]
<1>1. t.grid[t.row] \in RowOf(t.cols) /\ t.cols \in Nat /\ t.row \in 0 .. t.rows - 1
  BY DEF IsTerminal, Grids, RowOf
<1>2. Untabbed(t.grid[t.row], i, j) \in RowOf(t.cols)
  BY <1>1, Lines
<1>3. Blank \in Cells
  BY DEF Blank, Cell, Cells, Chars
<1>4. cells \in RowOf(t.cols)
  BY <1>1, <1>2, <1>3 DEF RowOf
<1>. HIDE DEF cells
<1>5. IsTerminal([t EXCEPT !.grid[t.row] = cells])
  BY <1>1, <1>4, SetLine
<1>. QED BY <1>5 DEF clear_row_range, cells

\* Blanks in the cursor's row, by mode and by number.
LEMMA ClearsKeep ==
    ASSUME NEW t, IsTerminal(t), NEW mode, NEW n \in Nat
    PROVE  /\ mode \in {"right", "left", "all"} => IsTerminal(clear_line(t, mode))
           /\ IsTerminal(erase_chars(t, n))
<1>1. t.cols \in Nat /\ t.col \in Nat
  BY DEF IsTerminal
<1>2. Least(t.col + n, t.cols) \in Int /\ t.col + 1 \in Int /\ t.cols \in Int /\ t.col \in Int /\ 0 \in Int
  BY <1>1 DEF Least
<1>3. IsTerminal(erase_chars(t, n))
  BY <1>2, ClearRangeKeeps DEF erase_chars
<1>4. ASSUME mode \in {"right", "left", "all"}
      PROVE  IsTerminal(clear_line(t, mode))
  <2>1. CASE mode = "right"
    BY <1>2, <2>1, ClearRangeKeeps DEF clear_line
  <2>2. CASE mode = "left"
    BY <1>2, <2>2, ClearRangeKeeps DEF clear_line
  <2>3. CASE mode = "all"
    BY <1>2, <2>3, ClearRangeKeeps DEF clear_line
  <2>. QED BY <1>4, <2>1, <2>2, <2>3
<1>. QED BY <1>3, <1>4

\* Blank rows.
LEMMA ClearRowsKeeps ==
    ASSUME NEW t, IsTerminal(t), NEW rows
    PROVE  IsTerminal(ClearRows(t, rows))
<1>. DEFINE g == [r \in DOMAIN t.grid |-> IF r \in rows THEN BlankRow(t.cols) ELSE t.grid[r]]
<1>1. g \in Grids(t.rows, t.cols)
  BY BlankRows DEF IsTerminal, Grids, RowOf
<1>. HIDE DEF g
<1>2. IsTerminal([t EXCEPT !.grid = g])
  BY <1>1, SetGrid
<1>. QED BY <1>2 DEF ClearRows, g

\* A blank screen.
LEMMA BlankGrids ==
    ASSUME NEW rows \in Nat, NEW cols \in Nat
    PROVE  blank_grid(rows, cols) \in Grids(rows, cols) /\ Unwrapped(rows) \in [0 .. rows - 1 -> BOOLEAN]
BY BlankRows DEF blank_grid, Grids, RowOf, Unwrapped

\* No scrollback.
LEMMA EmptyScrollback == IsScrollback(<<>>)
BY DEF IsScrollback

\* A screen cleared in part or all.
LEMMA ClearScreenKeeps ==
    ASSUME NEW t, IsTerminal(t), NEW mode \in {"below", "above", "all", "saved"}
    PROVE  IsTerminal(clear_screen(t, mode))
<1>1. CASE mode = "below"
  <2>1. IsTerminal(clear_line(t, "right"))
    BY ClearsKeep
  <2>. QED BY <1>1, <2>1, ClearRowsKeeps DEF clear_screen
<1>2. CASE mode = "above"
  <2>1. IsTerminal(clear_line(t, "left"))
    BY ClearsKeep
  <2>. QED BY <1>2, <2>1, ClearRowsKeeps DEF clear_screen
<1>3. CASE mode = "all"
  <2>. DEFINE u == [t EXCEPT !.grid = blank_grid(t.rows, t.cols), !.wrapped = Unwrapped(t.rows)]
  <2>1. /\ DOMAIN u = Fields /\ Others(u) = Others(t)
        /\ u.grid = blank_grid(t.rows, t.cols) /\ u.wrapped = Unwrapped(t.rows)
        /\ u.history = t.history /\ u.row = t.row /\ u.col = t.col
        /\ u.top = t.top /\ u.bottom = t.bottom
    BY DEF IsTerminal, Fields, Others
  <2>2. /\ blank_grid(t.rows, t.cols) \in Grids(t.rows, t.cols)
        /\ Unwrapped(t.rows) \in [0 .. t.rows - 1 -> BOOLEAN]
    BY BlankGrids DEF IsTerminal
  <2>3. clear_screen(t, mode) = u
    BY <1>3 DEF clear_screen
  <2>. HIDE DEF u
  <2>4. IsTerminal(u)
    BY <2>1, <2>2 DEF IsTerminal, Others
  <2>. QED BY <2>3, <2>4
<1>4. CASE mode = "saved"
  <2>. DEFINE u == [t EXCEPT !.history = <<>>]
  <2>1. /\ DOMAIN u = Fields /\ Others(u) = Others(t)
        /\ u.grid = t.grid /\ u.wrapped = t.wrapped
        /\ u.history = <<>> /\ u.row = t.row /\ u.col = t.col
        /\ u.top = t.top /\ u.bottom = t.bottom
    BY DEF IsTerminal, Fields, Others
  <2>3. clear_screen(t, mode) = u
    BY <1>4 DEF clear_screen
  <2>. HIDE DEF u
  <2>4. IsTerminal(u)
    BY <2>1, EmptyScrollback DEF IsTerminal, Others
  <2>. QED BY <2>3, <2>4
<1>. QED BY <1>1, <1>2, <1>3, <1>4

\* Characters inserted and deleted.
LEMMA CharsKeep ==
    ASSUME NEW t, IsTerminal(t), NEW n \in Nat
    PROVE  IsTerminal(insert_blank(t, n)) /\ IsTerminal(delete_chars(t, n))
<1>. DEFINE count == Least(n, t.cols - t.col)
            here == t.grid[t.row]
            ins == [c \in DOMAIN here |->
                      IF c < t.col THEN NoTabs(here)[c]
                      ELSE IF c < t.col + count THEN Blank ELSE NoTabs(here)[c - count]]
            del == [c \in DOMAIN here |->
                      IF c >= t.cols - count THEN Blank
                      ELSE IF c < t.col THEN NoTabs(here)[c] ELSE NoTabs(here)[c + count]]
<1>1. /\ here \in RowOf(t.cols) /\ t.cols \in Nat /\ t.row \in 0 .. t.rows - 1
      /\ t.col \in 0 .. t.cols
  BY DEF IsTerminal, Grids, RowOf
<1>2. NoTabs(here) \in RowOf(t.cols)
  BY <1>1, Lines
<1>3. Blank \in Cells
  BY DEF Blank, Cell, Cells, Chars
<1>4. count \in Nat /\ t.col + count <= t.cols
  BY <1>1 DEF Least
<1>. HIDE DEF here, count
<1>5. ins \in RowOf(t.cols)
  BY <1>1, <1>2, <1>3, <1>4 DEF RowOf
<1>6. del \in RowOf(t.cols)
  BY <1>1, <1>2, <1>3, <1>4 DEF RowOf
<1>. HIDE DEF ins, del
<1>7. IsTerminal([t EXCEPT !.grid[t.row] = ins]) /\ IsTerminal([t EXCEPT !.grid[t.row] = del])
  BY <1>1, <1>5, <1>6, SetLine
<1>. QED BY <1>7 DEF insert_blank, delete_chars, ins, del, here, count

\* The end of a row: the next begins at its first column.
LEMMA WrappedKeeps ==
    ASSUME NEW t, IsTerminal(t)
    PROVE  IsTerminal(Wrapped(t)) /\ Wrapped(t).cols = t.cols /\ Wrapped(t).col = 0
<1>. DEFINE u == [t EXCEPT !.wrapped[t.row] = TRUE, !.col = 0]
            w == [t.wrapped EXCEPT ![t.row] = TRUE]
<1>1. /\ DOMAIN u = Fields /\ Others(u) = Others(t)
      /\ u.grid = t.grid /\ u.wrapped = w /\ u.history = t.history
      /\ u.row = t.row /\ u.col = 0 /\ u.top = t.top /\ u.bottom = t.bottom
  BY DEF IsTerminal, Fields, Others
<1>2. w \in [0 .. t.rows - 1 -> BOOLEAN] /\ 0 \in 0 .. t.cols
  BY DEF IsTerminal
<1>. HIDE DEF w
<1>3. Wrapped(t) = line_feed(u)
  BY DEF Wrapped, w
<1>. HIDE DEF u
<1>4. IsTerminal(u) /\ u.cols = t.cols
  BY <1>1, <1>2 DEF IsTerminal, Others
<1>. QED BY <1>1, <1>3, <1>4, LineFeedKeeps

\* A character in the cell of the cursor.
LEMMA MarkKeeps ==
    ASSUME NEW t, IsTerminal(t), t.col < t.cols, NEW c \in Chars
    PROVE  LET v == [t EXCEPT !.grid[t.row][t.col] = Cell(c)]
           IN  IsTerminal(v) /\ v.cols = t.cols /\ v.col = t.col
<1>. DEFINE cells == [t.grid[t.row] EXCEPT ![t.col] = Cell(c)]
            v == [t EXCEPT !.grid[t.row] = cells]
<1>1. /\ t.grid[t.row] \in RowOf(t.cols) /\ t.row \in 0 .. t.rows - 1
      /\ t.cols \in Nat /\ t.col \in 0 .. t.cols
  BY DEF IsTerminal, Grids, RowOf
<1>2. Cell(c) \in Cells
  BY DEF Cell, Cells
<1>3. cells \in RowOf(t.cols)
  BY <1>1, <1>2 DEF RowOf
<1>. HIDE DEF cells
<1>4. IsTerminal(v) /\ v.cols = t.cols /\ v.col = t.col
  BY <1>1, <1>3, SetLine
<1>. QED BY <1>4 DEF cells

\* A character is put, and the cursor is after it.
LEMMA PutKeeps ==
    ASSUME NEW t, IsTerminal(t), t.col < t.cols, NEW c \in Chars
    PROVE  IsTerminal(Put(t, c)) /\ Put(t, c).cols = t.cols /\ Put(t, c).col = t.col + 1
<1>. DEFINE v == [t EXCEPT !.grid[t.row][t.col] = Cell(c)]
<1>1. IsTerminal(v) /\ v.cols = t.cols /\ v.col = t.col
  BY MarkKeeps
<1>2. Put(t, c) = [v EXCEPT !.col = t.col + 1]
  BY DEF Put, IsTerminal, Fields
<1>. HIDE DEF v
<1>0. t.cols \in Nat /\ t.col \in 0 .. t.cols
  BY DEF IsTerminal
<1>3. t.col + 1 \in 0 .. v.cols
  BY <1>0, <1>1
<1>. QED BY <1>1, <1>2, <1>3, SetCol

\* A row of the cursor without some of its tabs.
LEMMA UntabbedKeeps ==
    ASSUME NEW t, IsTerminal(t), NEW i \in Int, NEW j \in Int
    PROVE  LET u == [t EXCEPT !.grid[t.row] = Untabbed(t.grid[t.row], i, j)]
           IN  IsTerminal(u) /\ u.cols = t.cols /\ u.row = t.row /\ u.col = t.col
<1>. DEFINE cells == Untabbed(t.grid[t.row], i, j)
<1>1. t.grid[t.row] \in RowOf(t.cols) /\ t.row \in 0 .. t.rows - 1 /\ t.cols \in Nat
  BY DEF IsTerminal, Grids, RowOf
<1>2. cells \in RowOf(t.cols)
  BY <1>1, Lines
<1>. HIDE DEF cells
<1>. QED BY <1>1, <1>2, SetLine DEF cells

\* A character of either width, wherever the cursor is.
LEMMA InputKeeps ==
    ASSUME NEW t, IsTerminal(t), NEW c \in Chars
    PROVE  IsTerminal(input(t, c))
<1>. DEFINE width == IF c = "W" THEN 2 ELSE 1
            w == IF t.col >= t.cols THEN Wrapped(t) ELSE t
            u == invalidate_tab_at(w, w.row, w.col)
            spaced == [u EXCEPT !.grid[u.row][u.col] = Cell("spacer")]
            room == IF width = 1 \/ w.col + 1 < t.cols THEN w ELSE Wrapped(spaced)
            clear == [room EXCEPT !.grid[room.row] = Untabbed(room.grid[room.row], room.col, room.col + width)]
            put == Put(clear, c)
<1>1. t.cols \in Nat \ {0} /\ t.col \in 0 .. t.cols
  BY DEF IsTerminal
<1>2. IsTerminal(w) /\ w.cols = t.cols /\ w.col < w.cols /\ w.col \in Nat
  BY <1>1, WrappedKeeps
<1>3. width \in {1, 2}
  OBVIOUS
<1>. HIDE DEF w, width
<1>4. IsTerminal(u) /\ u.cols = w.cols /\ u.col = w.col
  BY <1>2, UntabbedKeeps DEF invalidate_tab_at
<1>. HIDE DEF u
<1>5. IsTerminal(spaced) /\ spaced.cols = w.cols
  BY <1>2, <1>4, MarkKeeps DEF Chars
<1>. HIDE DEF spaced
<1>6. IsTerminal(room) /\ room.cols = t.cols /\ room.col < room.cols /\ room.col \in Nat
  BY <1>1, <1>2, <1>5, WrappedKeeps
<1>. HIDE DEF room
<1>7. IsTerminal(clear) /\ clear.cols = t.cols /\ clear.col < clear.cols
  BY <1>3, <1>6, UntabbedKeeps
<1>. HIDE DEF clear
<1>8. IsTerminal(put) /\ put.cols = t.cols
  BY <1>7, PutKeeps
<1>. HIDE DEF put
<1>9. put.col < put.cols => IsTerminal(Put(put, "continuation"))
  BY <1>8, PutKeeps DEF Chars
<1>10. input(t, c) = IF width = 2 /\ put.col < t.cols THEN Put(put, "continuation") ELSE put
  BY DEF input, put, clear, room, spaced, u, w, width
<1>. QED BY <1>8, <1>9, <1>10

\* Tab stops.
LEMMA TabsKeep ==
    ASSUME NEW t, IsTerminal(t), NEW all, NEW n \in Nat \ {0}
    PROVE  /\ IsTerminal(set_horizontal_tabstop(t)) /\ IsTerminal(clear_tabs(t, all))
           /\ IsTerminal(set_tabs(t, n))
<1>1. ASSUME NEW stops, stops \subseteq 0 .. t.cols - 1
      PROVE  IsTerminal([t EXCEPT !.customized = TRUE, !.tab_stops = stops])
  <2>. DEFINE u == [t EXCEPT !.customized = TRUE, !.tab_stops = stops]
  <2>1. /\ DOMAIN u = Fields /\ u.rows = t.rows /\ u.cols = t.cols
        /\ u.grid = t.grid /\ u.wrapped = t.wrapped /\ u.history = t.history
        /\ u.alternate_grid = t.alternate_grid /\ u.alternate_wrapped = t.alternate_wrapped
        /\ u.saved = t.saved /\ u.tab_stops = stops
        /\ u.row = t.row /\ u.col = t.col /\ u.top = t.top /\ u.bottom = t.bottom
    BY DEF IsTerminal, Fields
  <2>. HIDE DEF u
  <2>2. IsTerminal(u)
    BY <1>1, <2>1 DEF IsTerminal
  <2>. QED BY <2>2 DEF u
<1>2. /\ (t.tab_stops \cup ({t.col} \cap 0 .. t.cols - 1)) \subseteq 0 .. t.cols - 1
      /\ t.tab_stops \ {t.col} \subseteq 0 .. t.cols - 1
      /\ default_tab_stops(t.cols, n) \subseteq 0 .. t.cols - 1
  BY SMTT(30) DEF IsTerminal, default_tab_stops
<1>3. (IF all THEN {} ELSE t.tab_stops \ {t.col}) \subseteq 0 .. t.cols - 1
  BY <1>2
<1>4. IsTerminal(set_horizontal_tabstop(t))
  BY <1>1, <1>2 DEF set_horizontal_tabstop
<1>5. IsTerminal(clear_tabs(t, all))
  BY <1>1, <1>3 DEF clear_tabs
<1>6. IsTerminal(set_tabs(t, n))
  BY <1>1, <1>2 DEF set_tabs
<1>. QED BY <1>4, <1>5, <1>6

\* A tab moves to the next stop or the last column.
LEMMA PutTabKeeps ==
    ASSUME NEW t, IsTerminal(t)
    PROVE  IsTerminal(put_tab(t))
<1>. DEFINE after == {c \in t.tab_stops : c > t.col}
            next == IF after = {} THEN t.cols - 1 ELSE CHOOSE c \in after : \A d \in after : c <= d
            g == IF next > t.col THEN [t.grid EXCEPT ![t.row][t.col].tab = next - t.col] ELSE t.grid
            v == [t EXCEPT !.grid = g]
<1>1. /\ t.cols \in Nat \ {0} /\ t.col \in 0 .. t.cols /\ t.tab_stops \subseteq 0 .. t.cols - 1
      /\ t.rows \in Nat /\ t.row \in 0 .. t.rows - 1
      /\ t.grid \in [0 .. t.rows - 1 -> [0 .. t.cols - 1 -> Cells]]
  BY DEF IsTerminal, Grids
<1>2. after \in SUBSET Nat /\ after \subseteq 0 .. t.cols - 1
  BY <1>1
<1>3. next \in 0 .. t.cols - 1
  <2>1. CASE after = {}
    BY <1>1, <2>1
  <2>2. CASE after # {}
    <3>. HIDE DEF after
    <3>1. \E c \in after : \A d \in after : c <= d
      BY <1>2, <2>2, LeastExists
    <3>. QED BY <1>2, <2>2, <3>1
  <2>. QED BY <2>1, <2>2
<1>. HIDE DEF next
<1>4. g \in Grids(t.rows, t.cols)
  <2>1. CASE next > t.col
    <3>1. next - t.col \in Nat /\ t.col \in 0 .. t.cols - 1
      BY <1>1, <1>3, <2>1
    <3>2. [t.grid[t.row][t.col] EXCEPT !.tab = next - t.col] \in Cells
      <4>1. t.grid[t.row][t.col] \in Cells
        BY <1>1, <3>1
      <4>2. ASSUME NEW cell \in Cells, NEW n \in Nat PROVE [cell EXCEPT !.tab = n] \in Cells
        BY DEF Cells
      <4>. QED BY <3>1, <4>1, <4>2
    <3>3. [t.grid[t.row] EXCEPT ![t.col] = [t.grid[t.row][t.col] EXCEPT !.tab = next - t.col]]
          \in [0 .. t.cols - 1 -> Cells]
      BY <1>1, <3>2
    <3>4. g = [t.grid EXCEPT ![t.row] =
                 [t.grid[t.row] EXCEPT ![t.col] = [t.grid[t.row][t.col] EXCEPT !.tab = next - t.col]]]
      BY <2>1
    <3>. QED BY <1>1, <3>3, <3>4 DEF Grids
  <2>2. CASE ~(next > t.col)
    BY <1>1, <2>2 DEF Grids
  <2>. QED BY <2>1, <2>2
<1>5. put_tab(t) = [v EXCEPT !.col = next]
  BY DEF put_tab, IsTerminal, Fields, next
<1>. HIDE DEF g
<1>6. IsTerminal(v) /\ v.cols = t.cols
  BY <1>4, SetGrid
<1>. HIDE DEF v
<1>7. next \in 0 .. v.cols
  BY <1>1, <1>3, <1>6
<1>. QED BY <1>5, <1>6, <1>7, SetCol

\* A scrolling region is cut to the screen.
LEMMA RegionKeeps ==
    ASSUME NEW t, IsTerminal(t), NEW top \in Nat, NEW bottom \in Nat
    PROVE  IsTerminal(set_scrolling_region(t, top, bottom))
<1>. DEFINE first == Least(Less(top, 1), t.rows - 1)
            last == Least(Most(bottom, first + 1), t.rows)
            u == [t EXCEPT !.top = first, !.bottom = last]
<1>1. t.rows \in Nat \ {0}
  BY DEF IsTerminal
<1>2. first \in 0 .. t.rows - 1 /\ last \in first + 1 .. t.rows
  BY <1>1 DEF Least, Less, Most
<1>3. /\ DOMAIN u = Fields /\ Others(u) = Others(t)
      /\ u.grid = t.grid /\ u.wrapped = t.wrapped /\ u.history = t.history
      /\ u.row = t.row /\ u.col = t.col /\ u.top = first /\ u.bottom = last
  BY DEF IsTerminal, Fields, Others
<1>4. set_scrolling_region(t, top, bottom) = goto(u, 0, 0)
  BY DEF set_scrolling_region
<1>. HIDE DEF first, last, u
<1>5. IsTerminal(u)
  BY <1>2, <1>3 DEF IsTerminal, Others
<1>. QED BY <1>4, <1>5, GotoKeeps

\* Modes and the saved cursor.
LEMMA ModesKeep ==
    ASSUME NEW t, IsTerminal(t), NEW on
    PROVE  IsTerminal(set_mode(t, on)) /\ IsTerminal(save_cursor_position(t))
<1>1. IsTerminal(set_mode(t, on))
  <2>. DEFINE u == set_mode(t, on)
  <2>1. /\ DOMAIN u = Fields /\ Others(u) = Others(t)
        /\ u.grid = t.grid /\ u.wrapped = t.wrapped /\ u.history = t.history
        /\ u.row = t.row /\ u.col = t.col /\ u.top = t.top /\ u.bottom = t.bottom
    BY DEF set_mode, IsTerminal, Fields, Others
  <2>. HIDE DEF u
  <2>2. IsTerminal(u)
    BY <2>1 DEF IsTerminal, Others
  <2>. QED BY <2>2 DEF u
<1>2. IsTerminal(save_cursor_position(t))
  <2>. DEFINE u == save_cursor_position(t)
  <2>1. /\ DOMAIN u = Fields /\ u.rows = t.rows /\ u.cols = t.cols
        /\ u.grid = t.grid /\ u.wrapped = t.wrapped /\ u.history = t.history
        /\ u.alternate_grid = t.alternate_grid /\ u.alternate_wrapped = t.alternate_wrapped
        /\ u.saved = <<t.row, t.col>> /\ u.tab_stops = t.tab_stops
        /\ u.row = t.row /\ u.col = t.col /\ u.top = t.top /\ u.bottom = t.bottom
    BY DEF save_cursor_position, IsTerminal, Fields
  <2>2. <<t.row, t.col>> \in Nat \X Nat
    BY DEF IsTerminal
  <2>. HIDE DEF u
  <2>3. IsTerminal(u)
    BY <2>1, <2>2 DEF IsTerminal
  <2>. QED BY <2>3 DEF u
<1>. QED BY <1>1, <1>2

\* The two screens change places.
LEMMA AlternateKeeps ==
    ASSUME NEW t, IsTerminal(t), NEW on
    PROVE  IsTerminal(set_alternate(t, on))
<1>. DEFINE u == [t EXCEPT !.grid = t.alternate_grid, !.alternate_grid = t.grid,
                   !.wrapped = t.alternate_wrapped, !.alternate_wrapped = t.wrapped,
                   !.alternate = on, !.row = 0, !.col = 0]
<1>1. /\ DOMAIN u = Fields /\ u.rows = t.rows /\ u.cols = t.cols
      /\ u.grid = t.alternate_grid /\ u.wrapped = t.alternate_wrapped /\ u.history = t.history
      /\ u.alternate_grid = t.grid /\ u.alternate_wrapped = t.wrapped
      /\ u.saved = t.saved /\ u.tab_stops = t.tab_stops
      /\ u.row = 0 /\ u.col = 0 /\ u.top = t.top /\ u.bottom = t.bottom
  BY DEF IsTerminal, Fields
<1>2. set_alternate(t, on) = IF on = t.alternate THEN t ELSE u
  BY DEF set_alternate
<1>. HIDE DEF u
<1>3. IsTerminal(u)
  BY <1>1 DEF IsTerminal
<1>. QED BY <1>2, <1>3

\* A new terminal.
LEMMA NewIs ==
    ASSUME NEW rows \in Nat \ {0}, NEW cols \in Nat \ {0}
    PROVE  LET u == new(rows, cols)
           IN  IsTerminal(u) /\ u.rows = rows /\ u.cols = cols
<1>. DEFINE u == new(rows, cols)
<1>1. /\ DOMAIN u = Fields /\ u.rows = rows /\ u.cols = cols
      /\ u.grid = blank_grid(rows, cols) /\ u.wrapped = Unwrapped(rows) /\ u.history = <<>>
      /\ u.alternate_grid = blank_grid(rows, cols) /\ u.alternate_wrapped = Unwrapped(rows)
      /\ u.saved = <<0, 0>> /\ u.tab_stops = default_tab_stops(cols, TabInterval)
      /\ u.row = 0 /\ u.col = 0 /\ u.top = 0 /\ u.bottom = rows
  BY DEF new, Fields
<1>2. default_tab_stops(cols, TabInterval) \subseteq 0 .. cols - 1
  BY DEF default_tab_stops
<1>. HIDE DEF u
<1>3. IsTerminal(u)
  <2>1. u.grid \in Grids(u.rows, u.cols) /\ u.alternate_grid \in Grids(u.rows, u.cols)
    BY <1>1, BlankGrids
  <2>2. /\ u.wrapped \in [0 .. u.rows - 1 -> BOOLEAN]
        /\ u.alternate_wrapped \in [0 .. u.rows - 1 -> BOOLEAN]
    BY <1>1, BlankGrids
  <2>3. /\ u.row \in 0 .. u.rows - 1 /\ u.col \in 0 .. u.cols
        /\ u.top \in 0 .. u.rows - 1 /\ u.bottom \in u.top + 1 .. u.rows
        /\ u.tab_stops \subseteq 0 .. u.cols - 1
    BY <1>1, <1>2
  <2>4. IsScrollback(u.history) /\ u.saved \in Nat \X Nat
    BY <1>1, EmptyScrollback
  <2>. QED BY <1>1, <2>1, <2>2, <2>3, <2>4 DEF IsTerminal
<1>. QED BY <1>1, <1>3 DEF u

\* A reset.
LEMMA ResetKeeps ==
    ASSUME NEW t, IsTerminal(t)
    PROVE  IsTerminal(reset_state(t))
<1>. DEFINE v == new(t.rows, t.cols)
            u == [v EXCEPT !.saved = t.saved, !.alternate = t.alternate]
<1>1. IsTerminal(v) /\ v.rows = t.rows /\ v.cols = t.cols
  BY NewIs DEF IsTerminal
<1>2. reset_state(t) = u
  BY DEF reset_state
<1>. HIDE DEF v
<1>3. /\ DOMAIN u = Fields /\ u.rows = v.rows /\ u.cols = v.cols
      /\ u.grid = v.grid /\ u.wrapped = v.wrapped /\ u.history = v.history
      /\ u.alternate_grid = v.alternate_grid /\ u.alternate_wrapped = v.alternate_wrapped
      /\ u.saved = t.saved /\ u.tab_stops = v.tab_stops
      /\ u.row = v.row /\ u.col = v.col /\ u.top = v.top /\ u.bottom = v.bottom
  BY <1>1 DEF IsTerminal, Fields
<1>4. t.saved \in Nat \X Nat
  BY DEF IsTerminal
<1>. HIDE DEF u
<1>5. IsTerminal(u)
  BY <1>1, <1>3, <1>4 DEF IsTerminal
<1>. QED BY <1>2, <1>5

\* A grid of another size.
LEMMA ResizedGrid ==
    ASSUME NEW m \in Nat, NEW k \in Nat, NEW g \in Grids(m, k), NEW rows \in Nat, NEW cols \in Nat
    PROVE  resize_grid(g, rows, cols) \in Grids(rows, cols)
<1>1. Blank \in Cells
  BY DEF Blank, Cell, Cells, Chars
<1>2. \A r \in 0 .. m - 1 : g[r] \in [0 .. k - 1 -> Cells]
  BY DEF Grids
<1>3. \A r \in 0 .. rows - 1 :
        (IF r \notin DOMAIN g THEN BlankRow(cols)
         ELSE [c \in 0 .. cols - 1 |-> IF c \in DOMAIN g[r] THEN g[r][c] ELSE Blank])
        \in [0 .. cols - 1 -> Cells]
  BY <1>1, <1>2, BlankRows DEF Grids, RowOf
<1>. QED BY <1>3 DEF resize_grid, Grids

\* A terminal of another size.
LEMMA ResizeKeeps ==
    ASSUME NEW t, IsTerminal(t), NEW rows \in Nat \ {0}, NEW cols \in Nat \ {0}
    PROVE  IsTerminal(resize(t, rows, cols))
<1>. DEFINE u == resize(t, rows, cols)
            stops == IF t.customized THEN t.tab_stops \cap 0 .. cols - 1
                     ELSE default_tab_stops(cols, TabInterval)
<1>1. /\ DOMAIN u = Fields /\ u.rows = rows /\ u.cols = cols
      /\ u.grid = resize_grid(t.grid, rows, cols) /\ u.wrapped = Flags(t.wrapped, rows)
      /\ u.alternate_grid = resize_grid(t.alternate_grid, rows, cols)
      /\ u.alternate_wrapped = Flags(t.alternate_wrapped, rows)
      /\ u.history = t.history /\ u.saved = t.saved
      /\ u.tab_stops = stops
      /\ u.row = Least(t.row, rows - 1) /\ u.col = Least(t.col, cols - 1)
      /\ u.top = 0 /\ u.bottom = rows
  BY DEF resize, IsTerminal, Fields
<1>2. stops \subseteq 0 .. cols - 1
  BY DEF default_tab_stops
<1>3. t.row \in Nat /\ t.col \in Nat /\ t.rows \in Nat /\ t.cols \in Nat
  BY DEF IsTerminal
<1>4. Least(t.row, rows - 1) \in 0 .. rows - 1 /\ Least(t.col, cols - 1) \in 0 .. cols
  BY <1>3 DEF Least
<1>5. /\ Flags(t.wrapped, rows) \in [0 .. rows - 1 -> BOOLEAN]
      /\ Flags(t.alternate_wrapped, rows) \in [0 .. rows - 1 -> BOOLEAN]
  BY DEF Flags
<1>6. /\ resize_grid(t.grid, rows, cols) \in Grids(rows, cols)
      /\ resize_grid(t.alternate_grid, rows, cols) \in Grids(rows, cols)
  BY <1>3, ResizedGrid DEF IsTerminal
<1>7. IsScrollback(t.history) /\ t.saved \in Nat \X Nat
  BY DEF IsTerminal
<1>. HIDE DEF u, stops
<1>8. IsTerminal(u)
  <2>1. u.grid \in Grids(u.rows, u.cols) /\ u.alternate_grid \in Grids(u.rows, u.cols)
    BY <1>1, <1>6
  <2>2. /\ u.wrapped \in [0 .. u.rows - 1 -> BOOLEAN]
        /\ u.alternate_wrapped \in [0 .. u.rows - 1 -> BOOLEAN]
    BY <1>1, <1>5
  <2>3. u.row \in 0 .. u.rows - 1 /\ u.col \in 0 .. u.cols
    BY <1>1, <1>4
  <2>4. /\ u.top \in 0 .. u.rows - 1 /\ u.bottom \in u.top + 1 .. u.rows
        /\ u.tab_stops \subseteq 0 .. u.cols - 1
    BY <1>1, <1>2
  <2>5. IsScrollback(u.history) /\ u.saved \in Nat \X Nat
    BY <1>1, <1>7
  <2>. QED BY <1>1, <2>1, <2>2, <2>3, <2>4, <2>5 DEF IsTerminal
<1>. QED BY <1>8 DEF u

\* No control function, with any parameters, takes an index of the terminal out of
\* range (the handlers in vvmux-terminal/src/lib.rs index without a check).
THEOREM HandleKeeps ==
    ASSUME NEW t, IsTerminal(t), NEW f, IsFunction(f)
    PROVE  IsTerminal(Handle(t, f))
<1>1. CASE f.do = "input" /\ f.ch \in {" ", "a", "W"}
  BY <1>1, InputKeeps DEF Handle, Chars
<1>2. CASE f.do = "goto" /\ f.row \in Nat /\ f.col \in Nat
  BY <1>2, GotoKeeps DEF Handle
<1>3. CASE f.do = "region" /\ f.top \in Nat /\ f.bottom \in Nat
  BY <1>3, RegionKeeps DEF Handle
<1>4. CASE f.do \in {"up", "down", "forward", "backward"} /\ f.n \in Nat
  BY <1>4, MovesKeep DEF Handle
<1>5. CASE f.do \in {"insert_blank", "delete_chars", "erase_chars"} /\ f.n \in Nat
  BY <1>5, CharsKeep, ClearsKeep DEF Handle
<1>6. CASE f.do \in {"scroll_up", "scroll_down", "insert_lines", "delete_lines"} /\ f.n \in Nat
  BY <1>6, ScrollsKeep, LinesKeep DEF Handle
<1>7. CASE f.do = "set_tabs" /\ f.n \in Nat \ {0}
  BY <1>7, TabsKeep DEF Handle
<1>8. CASE f.do = "clear_line" /\ f.mode \in {"right", "left", "all"}
  BY <1>8, ClearsKeep DEF Handle
<1>9. CASE f.do = "clear_screen" /\ f.mode \in {"below", "above", "all", "saved"}
  BY <1>9, ClearScreenKeeps DEF Handle
<1>10. CASE f.do \in {"linefeed", "newline", "return", "reverse", "restore"}
  BY <1>10, LineFeedKeeps, MovesKeep DEF Handle
<1>11. CASE f.do \in {"tab", "set_stop", "clear_stops"}
  BY <1>11, PutTabKeeps, TabsKeep DEF Handle
<1>12. CASE f.do \in {"save", "mode", "alternate", "reset"}
  BY <1>12, ModesKeep, AlternateKeeps, ResetKeeps DEF Handle
<1>. QED BY <1>1, <1>2, <1>3, <1>4, <1>5, <1>6, <1>7, <1>8, <1>9, <1>10, <1>11, <1>12
         DEF IsFunction

-----------------------------------------------------------------------------
(* The pane and its caller. *)

USE PaneAssumption

\* The changes a pane keeps.
Changes == Seq([sequence : Nat, rows : SUBSET Int])

\* A change is counted and kept, and the oldest may be forgotten.
LEMMA MarkTyped ==
    ASSUME IndicesInRange, NEW rows \in SUBSET Int, mark_pane_screen_change(rows)
    PROVE  /\ screen_sequence' \in Nat \ {0} /\ screen_sequence' > screen_sequence
           /\ screen_changes' \in Changes /\ Len(screen_changes') <= ChangeHistory
<1>. DEFINE all == Append(screen_changes, [sequence |-> screen_sequence + 1, rows |-> rows])
            m == 1 + Less(Len(all), ChangeHistory)
<1>1. screen_sequence \in Nat \ {0} /\ screen_changes \in Changes
  BY DEF IndicesInRange, Changes
<1>2. all \in Changes /\ Len(all) \in Nat
  <2>1. [sequence |-> screen_sequence + 1, rows |-> rows] \in [sequence : Nat, rows : SUBSET Int]
    BY <1>1
  <2>. QED BY <1>1, <2>1, AppendProperties DEF Changes
<1>3. screen_changes' = SubSeq(all, m, Len(all))
  BY DEF mark_pane_screen_change, Kept
<1>. HIDE DEF all
<1>4. m \in 1 .. Len(all) + 1 /\ Len(all) - m + 1 <= ChangeHistory /\ ChangeHistory \in Nat
  BY <1>2 DEF Less, Most
<1>. HIDE DEF m
<1>5. \A i \in m .. Len(all) : all[i] \in [sequence : Nat, rows : SUBSET Int]
  <2>1. \A i \in m .. Len(all) : i \in 1 .. Len(all)
    BY <1>2, <1>4
  <2>. QED BY <1>2, <2>1, ElementOfSeq DEF Changes
<1>6. /\ SubSeq(all, m, Len(all)) \in Changes
      /\ Len(SubSeq(all, m, Len(all))) = IF m <= Len(all) THEN Len(all) - m + 1 ELSE 0
  BY <1>2, <1>4, <1>5, SubSeqProperties DEF Changes
<1>7. Len(SubSeq(all, m, Len(all))) <= ChangeHistory
  BY <1>2, <1>4, <1>6
<1>8. screen_sequence' = screen_sequence + 1
  BY DEF mark_pane_screen_change
<1>9. screen_changes' \in Changes /\ Len(screen_changes') <= ChangeHistory
  BY <1>3, <1>6, <1>7
<1>. QED BY <1>1, <1>8, <1>9

\* No list of rows stands for a set of numbers.
LEMMA EverythingIs == Everything \in SUBSET Int
BY DEF Everything

\* Rows that changed are numbers.
LEMMA ChangedRows ==
    ASSUME NEW t, IsTerminal(t), NEW u, IsTerminal(u)
    PROVE  changed_rows(t.grid, u.grid) \in SUBSET Int
<1>1. DOMAIN t.grid = 0 .. t.rows - 1 /\ DOMAIN u.grid = 0 .. u.rows - 1
  BY DEF IsTerminal, Grids
<1>2. DOMAIN t.grid \subseteq Int /\ DOMAIN u.grid \subseteq Int
  BY <1>1
<1>. QED BY <1>2 DEF changed_rows

\* The length of a scrollback.
LEMMA Scrollback ==
    ASSUME NEW t, IsTerminal(t)
    PROVE  Len(t.history) \in 0 .. HistoryLimit /\ t.rows \in Nat /\ HistoryLimit \in Nat
BY LenProperties, TerminalAssumption DEF IsTerminal, IsScrollback

\* At first, every index is in range.
LEMMA RangeInitially == Init => IndicesInRange
<1>. SUFFICES ASSUME Init PROVE IndicesInRange
  OBVIOUS
<1>1. <<>> \in Seq([sequence : Nat, rows : SUBSET Int]) /\ Len(<<>>) = 0
  OBVIOUS
<1>2. -1 \in -1 .. HistoryLimit
  BY TerminalAssumption
<1>. QED BY <1>1, <1>2 DEF Init, IndicesInRange

\* Every step keeps the indices in range.
LEMMA RangeKept == IndicesInRange /\ [Next]_vars => IndicesInRange'
<1>. SUFFICES ASSUME IndicesInRange, [Next]_vars PROVE IndicesInRange'
  OBVIOUS
<1>0. /\ IsTerminal(terminal) /\ screen_sequence \in Nat \ {0}
      /\ screen_changes \in Changes /\ Len(screen_changes) <= ChangeHistory
      /\ offset \in -1 .. HistoryLimit /\ caller.since \in 0 .. screen_sequence
  BY DEF IndicesInRange, Changes
<1>. DEFINE Marked == /\ screen_sequence' \in Nat \ {0} /\ screen_sequence' >= screen_sequence
                      /\ screen_changes' \in Changes /\ Len(screen_changes') <= ChangeHistory
<1>1. ASSUME NoChange PROVE Marked
  BY <1>0, <1>1 DEF NoChange
<1>2. ASSUME NEW rows \in SUBSET Int, mark_pane_screen_change(rows) PROVE Marked
  BY <1>0, <1>2, MarkTyped
<1>. HIDE DEF Marked
<1>3. ASSUME NEW f \in Functions, Feed(f) PROVE IndicesInRange'
  <2>1. IsTerminal(terminal')
    BY <1>0, <1>3, HandleKeeps DEF Feed
  <2>2. old' = <<terminal>> \/ (old # <<>> /\ old' = old)
    BY <1>3 DEF Feed
  <2>3. IsTerminal(old'[1])
    BY <1>0, <2>2 DEF IndicesInRange
  <2>4. Marked
    BY <1>1, <1>3 DEF Feed
  <2>. QED BY <1>0, <1>3, <2>1, <2>3, <2>4 DEF Feed, IndicesInRange, Marked, Changes
<1>4. CASE Fed
  <2>1. IsTerminal(old[1])
    BY <1>4 DEF Fed, IndicesInRange
  <2>2. changed_rows(old[1].grid, terminal.grid) \in SUBSET Int
    BY <1>0, <2>1, ChangedRows
  <2>3. (IF old[1].alternate = terminal.alternate
         THEN changed_rows(old[1].grid, terminal.grid) ELSE Everything) \in SUBSET Int
    BY <2>2, EverythingIs
  <2>4. Marked
    BY <1>1, <1>2, <1>4, <2>3 DEF Fed
  <2>. QED BY <1>0, <1>4, <2>4 DEF Fed, IndicesInRange, Marked, Changes
<1>5. ASSUME NEW size \in Sizes, Resize(size) PROVE IndicesInRange'
  <2>1. size[1] \in Nat \ {0} /\ size[2] \in Nat \ {0}
    OBVIOUS
  <2>2. IsTerminal(terminal')
    BY <1>0, <1>5, <2>1, ResizeKeeps DEF Resize
  <2>3. Marked
    BY <1>2, <1>5, EverythingIs DEF Resize
  <2>. QED BY <1>0, <1>5, <2>2, <2>3, SMTT(30) DEF Resize, Other, IndicesInRange, Marked, Changes
<1>6. CASE EnterCopyMode
  <2>1. Marked
    BY <1>2, <1>6, EverythingIs DEF EnterCopyMode
  <2>2. offset' \in -1 .. HistoryLimit
    BY <1>6, TerminalAssumption DEF EnterCopyMode
  <2>. QED BY <1>0, <1>6, <2>1, <2>2 DEF EnterCopyMode, IndicesInRange, Marked, Changes
<1>7. CASE CopyKey
  <2>1. Marked
    BY <1>2, <1>7, EverythingIs DEF CopyKey
  <2>2. offset' \in -1 .. HistoryLimit
    <3>1. Len(terminal.history) \in 0 .. HistoryLimit /\ terminal.rows \in Nat /\ HistoryLimit \in Nat
      BY <1>0, Scrollback
    <3>2. offset \in 0 .. HistoryLimit
      BY <1>0, <1>7, <3>1 DEF CopyKey
    <3>3. \A by \in {1, terminal.rows} :
            {Least(offset + by, Len(terminal.history)), Less(offset, by)} \subseteq 0 .. HistoryLimit
      BY <3>1, <3>2 DEF Least, Less, Most
    <3>. QED BY <1>0, <1>7, <3>1, <3>3, SMTT(30) DEF CopyKey
  <2>. QED BY <1>0, <1>7, <2>1, <2>2 DEF CopyKey, IndicesInRange, Marked, Changes
<1>8. ASSUME NEW up \in BOOLEAN, NEW shift \in BOOLEAN, Wheel(up, shift) PROVE IndicesInRange'
  <2>1. Marked
    BY <1>1, <1>8 DEF Wheel
  <2>2. offset' \in -1 .. HistoryLimit
    <3>1. Len(terminal.history) \in 0 .. HistoryLimit /\ HistoryLimit \in Nat
      BY <1>0, Scrollback
    <3>2. display_offset \in 0 .. HistoryLimit
      BY <1>0, <3>1 DEF display_offset
    <3>3. /\ Least(display_offset + WheelLines, Len(terminal.history)) \in 0 .. HistoryLimit
          /\ Less(display_offset, WheelLines) \in 0 .. HistoryLimit
      BY <3>1, <3>2 DEF Least, Less, Most
    <3>. QED BY <1>8, <3>1, <3>3 DEF Wheel
  <2>. QED BY <1>0, <1>8, <2>1, <2>2, SMTT(30) DEF Wheel, Other, IndicesInRange, Marked, Changes
<1>9. CASE Look
  <2>1. Marked
    BY <1>1, <1>9 DEF Look
  <2>2. caller'.since = screen_sequence
    BY <1>9 DEF Look
  <2>. QED BY <1>0, <1>9, <2>1, <2>2 DEF Look, IndicesInRange, Marked, Changes
<1>10. CASE LookAgain
  <2>1. Marked
    BY <1>1, <1>10 DEF LookAgain
  <2>2. caller'.since = screen_sequence
    BY <1>10 DEF LookAgain
  <2>. QED BY <1>0, <1>10, <2>1, <2>2 DEF LookAgain, IndicesInRange, Marked, Changes
<1>11. CASE UNCHANGED vars
  BY <1>11 DEF vars, IndicesInRange
<1>. QED BY <1>3, <1>4, <1>5, <1>6, <1>7, <1>8, <1>9, <1>10, <1>11 DEF Next

\* No control function, resize, copy-mode key or turn of the wheel takes an index
\* of a terminal out of the range the code relies on (vvmux-terminal/src/lib.rs
\* indexes its grid, its flags and its scrollback without a check).
THEOREM IndicesStayInRange == Spec => []IndicesInRange
BY RangeInitially, RangeKept, PTL DEF Spec

-----------------------------------------------------------------------------
\* The changes kept are numbered in a row up to the current sequence.
Numbered ==
    \A i \in 1 .. Len(screen_changes) :
        screen_changes[i].sequence = screen_sequence - Len(screen_changes) + i

\* The terminal as it was when changes were last kept.
Settled == IF old = <<>> THEN terminal ELSE old[1]

\* What the caller has of a row is right, or one of the changes it has not seen
\* lists the row.
Covered(r) ==
    \/ \E c \in Unseen(caller.since) : r \in c.rows
    \/ r \in DOMAIN caller.rows /\ caller.rows[r] = Settled.grid[r]

\* Why the answer to a caller will be right: it will get all rows, or those it
\* does not get are right.
CallerCovered ==
    (caller.since # 0 /\ ~wheeled)
    => \/ Gap(caller.since)
       \/ \E c \in Unseen(caller.since) : c.rows = Everything
       \/ display_offset > 0
       \/ \A r \in DOMAIN Settled.grid : Covered(r)

DeltaInv == IndicesInRange /\ Numbered /\ CallerCovered

\* Keeping a change never hides one from a caller: it is still kept, or the caller
\* finds the gap.
LEMMA MarkUnseen ==
    ASSUME IndicesInRange, Numbered, NEW rows \in SUBSET Int, mark_pane_screen_change(rows),
           NEW since \in 1 .. screen_sequence
    PROVE  /\ Numbered'
           /\ Gap(since) => Gap(since)'
           /\ Gap(since)' \/ \A c \in Unseen(since) : c \in Unseen(since)'
           /\ \E c \in Unseen(since)' : c.rows = rows
<1>. DEFINE new_change == [sequence |-> screen_sequence + 1, rows |-> rows]
            all == Append(screen_changes, new_change)
            n == Len(screen_changes)
            d == Less(n + 1, ChangeHistory)
<1>1. /\ screen_sequence \in Nat \ {0} /\ screen_changes \in Changes /\ n \in Nat
      /\ \A i \in 1 .. n : screen_changes[i] \in [sequence : Nat, rows : SUBSET Int]
  BY ElementOfSeq, LenProperties DEF IndicesInRange, Changes
<1>2. new_change \in [sequence : Nat, rows : SUBSET Int]
  BY <1>1
<1>3. /\ all \in Changes /\ Len(all) = n + 1 /\ all[n + 1] = new_change
      /\ \A i \in 1 .. n : all[i] = screen_changes[i]
  <2>. HIDE DEF new_change
  <2>. QED BY <1>1, <1>2, AppendProperties DEF Changes
<1>4. screen_changes' = SubSeq(all, 1 + d, n + 1) /\ screen_sequence' = screen_sequence + 1
  BY <1>3 DEF mark_pane_screen_change, Kept
<1>5. d \in 0 .. n
  BY <1>1 DEF Less, Most
<1>. HIDE DEF all, d
<1>6. \A i \in 1 + d .. n + 1 : all[i] \in [sequence : Nat, rows : SUBSET Int]
  <2>. SUFFICES ASSUME NEW i \in 1 + d .. n + 1 PROVE all[i] \in [sequence : Nat, rows : SUBSET Int]
    OBVIOUS
  <2>1. i \in 1 .. Len(all)
    BY <1>1, <1>3, <1>5
  <2>. QED BY <1>3, <2>1, ElementOfSeq DEF Changes
<1>7. /\ Len(screen_changes') = n + 1 - d
      /\ \A i \in 1 .. n + 1 - d : screen_changes'[i] = all[d + i]
  <2>1. /\ SubSeq(all, 1 + d, n + 1) \in Changes
        /\ Len(SubSeq(all, 1 + d, n + 1)) = IF 1 + d <= n + 1 THEN n + 1 - (1 + d) + 1 ELSE 0
        /\ \A i \in 1 .. n + 1 - (1 + d) + 1 : SubSeq(all, 1 + d, n + 1)[i] = all[1 + d + i - 1]
    <3>1. 1 + d \in Int /\ n + 1 \in Int
      BY <1>1, <1>5
    <3>. QED BY <1>6, <3>1, SubSeqProperties DEF Changes
  <2>2. n + 1 - (1 + d) + 1 = n + 1 - d /\ 1 + d <= n + 1
    BY <1>1, <1>5
  <2>3. \A i \in 1 .. n + 1 - d : 1 + d + i - 1 = d + i
    BY <1>1, <1>5
  <2>. QED BY <1>4, <2>1, <2>2, <2>3
<1>8. \A i \in 1 .. n + 1 : all[i].sequence = screen_sequence - n + i
  <2>. SUFFICES ASSUME NEW i \in 1 .. n + 1 PROVE all[i].sequence = screen_sequence - n + i
    OBVIOUS
  <2>1. CASE i = n + 1
    BY <1>1, <1>3, <2>1
  <2>2. CASE i \in 1 .. n
    BY <1>1, <1>3, <2>2 DEF Numbered
  <2>. QED BY <1>1, <2>1, <2>2
<1>9. \A i \in 1 .. Len(screen_changes') : screen_changes'[i].sequence = screen_sequence - n + d + i
  BY <1>1, <1>5, <1>7, <1>8
<1>10. Numbered'
  BY <1>1, <1>4, <1>5, <1>7, <1>9, SMTT(30) DEF Numbered
<1>11. screen_changes' # <<>> /\ screen_changes'[1].sequence = screen_sequence - n + d + 1
  BY <1>1, <1>5, <1>7, <1>9
<1>12. Gap(since) => Gap(since)'
  <2>. SUFFICES ASSUME Gap(since) PROVE Gap(since)'
    OBVIOUS
  <2>1. n > 0 /\ screen_changes[1].sequence = screen_sequence - n + 1
    BY <1>1, EmptySeq DEF Gap, Numbered
  <2>2. since + 1 < screen_sequence - n + 1
    BY <2>1 DEF Gap
  <2>3. since + 1 < screen_changes'[1].sequence
    BY <1>1, <1>5, <1>11, <2>2
  <2>. QED BY <1>11, <2>3 DEF Gap
<1>13. Gap(since)' \/ \A c \in Unseen(since) : c \in Unseen(since)'
  <2>. SUFFICES ASSUME ~Gap(since)', NEW c \in Unseen(since) PROVE c \in Unseen(since)'
    OBVIOUS
  <2>1. PICK i \in 1 .. n : c = screen_changes[i] /\ c.sequence > since
    BY <1>1 DEF Unseen, ToSet, Changes
  <2>2. screen_sequence - n + i > since
    BY <1>1, <2>1 DEF Numbered
  <2>3. ~(since + 1 < screen_sequence - n + d + 1)
    BY <1>11 DEF Gap
  <2>4. i > d
    BY <1>1, <1>5, <2>2, <2>3
  <2>5. i - d \in 1 .. Len(screen_changes') /\ d + (i - d) = i
    BY <1>1, <1>5, <1>7, <2>4
  <2>6. screen_changes'[i - d] = c
    BY <1>3, <1>7, <2>1, <2>5
  <2>. QED BY <2>1, <2>5, <2>6 DEF Unseen, ToSet
<1>14. \E c \in Unseen(since)' : c.rows = rows
  <2>1. n + 1 - d \in 1 .. Len(screen_changes') /\ d + (n + 1 - d) = n + 1
    BY <1>1, <1>5, <1>7
  <2>2. screen_changes'[n + 1 - d] = new_change
    BY <1>3, <1>7, <2>1
  <2>3. new_change.sequence > since /\ new_change.rows = rows
    BY <1>1
  <2>. QED BY <2>1, <2>2, <2>3 DEF Unseen, ToSet
<1>. QED BY <1>10, <1>12, <1>13, <1>14

\* The rows of the screen are its grid, while nothing is scrolled back.
LEMMA OnScreen ==
    ASSUME IsTerminal(terminal), offset <= 0, offset \in -1 .. HistoryLimit
    PROVE  /\ AllRows = DOMAIN terminal.grid
           /\ \A r \in AllRows : RowSent(r) = terminal.grid[r]
<1>1. /\ terminal.rows \in Nat /\ terminal.cols \in Nat
      /\ terminal.grid \in [0 .. terminal.rows - 1 -> [0 .. terminal.cols - 1 -> Cells]]
  BY DEF IsTerminal, Grids
<1>2. display_offset = 0
  BY TerminalAssumption DEF display_offset
<1>3. ASSUME NEW r \in AllRows PROVE RowSent(r) = terminal.grid[r]
  <2>1. r \in 0 .. terminal.rows - 1 /\ r - display_offset = r /\ ~(r < 0)
    BY <1>1, <1>2, <1>3 DEF AllRows
  <2>2. viewport_line(terminal, r - display_offset) = terminal.grid[r]
    BY <2>1 DEF viewport_line
  <2>3. terminal.grid[r] \in [0 .. terminal.cols - 1 -> Cells]
    BY <1>1, <2>1
  <2>4. Sent(terminal.grid[r]) = terminal.grid[r]
    BY <2>3 DEF Sent
  <2>. QED BY <2>2, <2>4 DEF RowSent
<1>. QED BY <1>1, <1>3 DEF AllRows

\* What the caller then makes of an answer is the screen.
LEMMA MergedIsFull ==
    ASSUME DeltaInv, old = <<>>, caller.since # 0, offset <= 0, ~wheeled
    PROVE  Merged(caller.rows, Answer(caller.since)) = Full
<1>. DEFINE since == caller.since
            answer == Answer(since)
<1>1. /\ IsTerminal(terminal) /\ offset \in -1 .. HistoryLimit /\ ~(display_offset > 0)
      /\ screen_sequence \in Nat \ {0} /\ screen_changes \in Changes
  BY TerminalAssumption DEF DeltaInv, IndicesInRange, Changes, display_offset
<1>2. AllRows = DOMAIN terminal.grid /\ \A r \in AllRows : RowSent(r) = terminal.grid[r]
  BY <1>1, OnScreen
<1>3. SUFFICES ASSUME NEW r \in AllRows, r \notin answer.rows, r \in DOMAIN caller.rows
               PROVE  caller.rows[r] = RowSent(r)
  BY DEF Merged, Full
<1>4. CASE since = screen_sequence
  <2>1. \A i \in 1 .. Len(screen_changes) : ~(screen_changes[i].sequence > since)
    BY <1>1, <1>4, LenProperties DEF DeltaInv, Numbered, Changes
  <2>2. Unseen(since) = {}
    BY <1>1, <2>1 DEF Unseen, ToSet, Changes
  <2>3. ~Gap(since)
    <3>1. screen_changes # <<>> => Len(screen_changes) \in Nat /\ Len(screen_changes) >= 1
      BY <1>1, EmptySeq DEF Changes
    <3>2. screen_changes # <<>> => screen_changes[1].sequence <= screen_sequence
      BY <1>1, <3>1 DEF DeltaInv, Numbered
    <3>3. screen_changes # <<>> => screen_changes[1].sequence \in Nat
      <4>. SUFFICES ASSUME screen_changes # <<>> PROVE screen_changes[1].sequence \in Nat
        OBVIOUS
      <4>1. 1 \in 1 .. Len(screen_changes)
        BY <3>1
      <4>2. screen_changes[1] \in [sequence : Nat, rows : SUBSET Int]
        BY <1>1, <4>1, ElementOfSeq DEF Changes
      <4>. QED BY <4>2
    <3>. QED BY <1>1, <1>4, <3>2, <3>3 DEF Gap
  <2>4. Covered(r)
    BY <1>1, <1>2, <2>2, <2>3 DEF DeltaInv, CallerCovered, Settled
  <2>. QED BY <1>2, <2>2, <2>4 DEF Covered, Settled
<1>5. CASE since # screen_sequence
  <2>1. ~(Gap(since) \/ \E c \in Unseen(since) : c.rows = Everything)
    BY <1>3, <1>5 DEF Answer
  <2>. DEFINE listed == UNION {c.rows : c \in Unseen(since)}
  <2>2. answer.rows = AllRows \cap listed
    BY <1>1, <1>5, <2>1 DEF Answer
  <2>3. Covered(r)
    <3>1. \/ Gap(caller.since) \/ \E c \in Unseen(caller.since) : c.rows = Everything
          \/ display_offset > 0 \/ \A q \in DOMAIN Settled.grid : Covered(q)
      BY DEF DeltaInv, CallerCovered
    <3>2. r \in DOMAIN Settled.grid
      BY <1>2 DEF Settled
    <3>. HIDE DEF answer
    <3>. QED BY <1>1, <2>1, <3>1, <3>2
  <2>. HIDE DEF answer
  <2>4. ~\E c \in Unseen(since) : r \in c.rows
    <3>. SUFFICES ASSUME NEW c \in Unseen(since), r \in c.rows PROVE FALSE
      OBVIOUS
    <3>1. r \in listed
      OBVIOUS
    <3>. HIDE DEF listed
    <3>. QED BY <1>3, <2>2, <3>1
  <2>. QED BY <1>2, <2>3, <2>4 DEF Covered, Settled
<1>. QED BY <1>4, <1>5

\* At first, no caller has looked.
LEMMA CoveredInitially == Init => DeltaInv
<1>. SUFFICES ASSUME Init PROVE DeltaInv
  OBVIOUS
<1>1. IndicesInRange
  BY RangeInitially
<1>2. Numbered
  BY DEF Init, Numbered
<1>3. CallerCovered
  BY DEF Init, CallerCovered
<1>. QED BY <1>1, <1>2, <1>3 DEF DeltaInv

\* A change of everything covers every caller.
LEMMA EverythingCovers ==
    ASSUME DeltaInv, mark_pane_screen_change(Everything), caller' = caller
    PROVE  Numbered' /\ CallerCovered'
<1>1. CASE caller.since = 0
  <2>1. Numbered'
    BY EverythingIs, MarkUnseen DEF DeltaInv, IndicesInRange
  <2>. QED BY <1>1, <2>1 DEF CallerCovered
<1>2. CASE caller.since # 0
  <2>1. caller.since \in 1 .. screen_sequence
    BY <1>2 DEF DeltaInv, IndicesInRange
  <2>2. Numbered' /\ \E c \in Unseen(caller.since)' : c.rows = Everything
    BY <2>1, EverythingIs, MarkUnseen DEF DeltaInv
  <2>. QED BY <2>2 DEF CallerCovered
<1>. QED BY <1>1, <1>2

\* Every step keeps every caller covered.
LEMMA CoveredKept == DeltaInv /\ [Next]_vars => Numbered' /\ CallerCovered'
<1>. SUFFICES ASSUME DeltaInv, [Next]_vars PROVE Numbered' /\ CallerCovered'
  OBVIOUS
<1>0. /\ IndicesInRange /\ Numbered /\ CallerCovered /\ IsTerminal(terminal)
      /\ screen_sequence \in Nat \ {0} /\ offset \in -1 .. HistoryLimit
      /\ caller.since \in 0 .. screen_sequence
  BY DEF DeltaInv, IndicesInRange
<1>1. ASSUME NEW f \in Functions, Feed(f) PROVE Numbered' /\ CallerCovered'
  <2>1. Settled' = Settled
    BY <1>1 DEF Feed, Settled
  <2>2. /\ screen_changes' = screen_changes /\ screen_sequence' = screen_sequence
        /\ offset' = offset /\ caller' = caller /\ wheeled' = wheeled
    BY <1>1 DEF Feed, NoChange
  <2>. QED BY <1>0, <2>1, <2>2
           DEF Numbered, CallerCovered, Covered, Gap, Unseen, display_offset
<1>2. CASE Fed
  <2>. DEFINE rows == IF old[1].alternate = terminal.alternate
                      THEN changed_rows(old[1].grid, terminal.grid) ELSE Everything
  <2>0. /\ old # <<>> /\ IsTerminal(old[1]) /\ old' = <<>> /\ terminal' = terminal
        /\ offset' = offset /\ caller' = caller /\ wheeled' = wheeled
    BY <1>2 DEF Fed, DeltaInv, IndicesInRange
  <2>1. Settled = old[1] /\ Settled' = terminal /\ display_offset' = display_offset
    BY <2>0 DEF Settled, display_offset
  <2>2. CASE NoChange /\ old[1].grid = terminal.grid
    BY <1>0, <2>0, <2>1, <2>2 DEF NoChange, Numbered, CallerCovered, Covered, Gap, Unseen
  <2>3. CASE mark_pane_screen_change(rows)
    <3>1. rows \in SUBSET Int
      BY <1>0, <2>0, ChangedRows, EverythingIs
    <3>2. CASE caller.since = 0 \/ wheeled
      <4>1. Numbered'
        BY <1>0, <2>3, <3>1, MarkUnseen
      <4>. QED BY <2>0, <3>2, <4>1 DEF CallerCovered
    <3>3. CASE caller.since # 0 /\ ~wheeled
      <4>1. caller.since \in 1 .. screen_sequence
        BY <1>0, <3>3
      <4>2. /\ Numbered' /\ (Gap(caller.since) => Gap(caller.since)')
            /\ Gap(caller.since)' \/ \A c \in Unseen(caller.since) : c \in Unseen(caller.since)'
            /\ \E c \in Unseen(caller.since)' : c.rows = rows
        BY <1>0, <2>0, <2>3, <3>1, <4>1, MarkUnseen
      <4>3. SUFFICES ASSUME ~Gap(caller.since)',
                            ~\E c \in Unseen(caller.since)' : c.rows = Everything,
                            ~(display_offset' > 0),
                            NEW r \in DOMAIN terminal.grid
                     PROVE  Covered(r)'
        BY <2>1, <4>2 DEF CallerCovered
      <4>4. Covered(r) \/ r \notin DOMAIN old[1].grid
        BY <1>0, <2>1, <3>3, <4>2, <4>3 DEF CallerCovered
      <4>5. old[1].alternate = terminal.alternate
        BY <4>2, <4>3
      <4>6. CASE r \in changed_rows(old[1].grid, terminal.grid)
        BY <4>2, <4>5, <4>6 DEF Covered
      <4>7. CASE r \notin changed_rows(old[1].grid, terminal.grid)
        <5>1. r \in DOMAIN old[1].grid /\ old[1].grid[r] = terminal.grid[r]
          BY <4>7 DEF changed_rows
        <5>. QED BY <2>0, <2>1, <4>2, <4>3, <4>4, <5>1 DEF Covered
      <4>. QED BY <4>6, <4>7
    <3>. QED BY <3>2, <3>3
  <2>. QED BY <1>2, <2>2, <2>3 DEF Fed
<1>3. ASSUME NEW size \in Sizes, Resize(size) PROVE Numbered' /\ CallerCovered'
  BY <1>3, EverythingCovers DEF Resize
<1>4. CASE EnterCopyMode
  BY <1>4, EverythingCovers DEF EnterCopyMode
<1>5. CASE CopyKey
  BY <1>5, EverythingCovers DEF CopyKey
<1>6. ASSUME NEW up \in BOOLEAN, NEW shift \in BOOLEAN, Wheel(up, shift)
      PROVE  Numbered' /\ CallerCovered'
  <2>1. /\ screen_changes' = screen_changes /\ screen_sequence' = screen_sequence
        /\ terminal' = terminal /\ old' = old /\ caller' = caller
    BY <1>6 DEF Wheel, NoChange, Other
  <2>2. wheeled' \/ (~wheeled /\ display_offset' = display_offset)
    <3>. DEFINE turned == IF up THEN Least(display_offset + WheelLines, Len(terminal.history))
                          ELSE Less(display_offset, WheelLines)
    <3>1. turned # -1 /\ display_offset # -1
      <4>1. Len(terminal.history) \in 0 .. HistoryLimit /\ HistoryLimit \in Nat
        BY <1>0, Scrollback
      <4>2. display_offset \in Nat
        BY <1>0, <4>1 DEF display_offset
      <4>. QED BY <4>1, <4>2 DEF Least, Less, Most
    <3>2. /\ offset' = IF ~up /\ turned = 0 /\ ~shift THEN -1 ELSE turned
          /\ wheeled' = (wheeled \/ turned # display_offset)
      BY <1>6 DEF Wheel
    <3>3. display_offset' = turned
      <4>. HIDE DEF turned
      <4>1. display_offset' = IF offset' = -1 THEN 0 ELSE offset'
        BY DEF display_offset
      <4>. QED BY <3>1, <3>2, <4>1
    <3>. HIDE DEF turned
    <3>. QED BY <3>2, <3>3
  <2>. QED BY <1>0, <2>1, <2>2
           DEF Numbered, CallerCovered, Covered, Gap, Unseen, Settled
<1>7. CASE Look
  <2>1. /\ screen_changes' = screen_changes /\ screen_sequence' = screen_sequence
        /\ terminal' = terminal /\ old' = old /\ offset' = offset /\ old = <<>>
        /\ caller' = [since |-> screen_sequence, rows |-> Full]
    BY <1>7 DEF Look, NoChange
  <2>2. Numbered'
    BY <1>0, <2>1 DEF Numbered
  <2>3. CASE display_offset > 0
    BY <2>1, <2>2, <2>3 DEF CallerCovered, display_offset
  <2>4. CASE ~(display_offset > 0)
    <3>1. offset <= 0
      BY <1>0, <2>4, TerminalAssumption DEF display_offset
    <3>2. AllRows = DOMAIN terminal.grid /\ \A r \in AllRows : RowSent(r) = terminal.grid[r]
      BY <1>0, <3>1, OnScreen
    <3>3. \A r \in DOMAIN Settled'.grid : r \in DOMAIN caller'.rows /\ caller'.rows[r] = Settled'.grid[r]
      BY <2>1, <3>2 DEF Settled, Full
    <3>. QED BY <2>2, <3>3 DEF CallerCovered, Covered
  <2>. QED BY <2>3, <2>4
<1>8. CASE LookAgain
  <2>1. /\ screen_changes' = screen_changes /\ screen_sequence' = screen_sequence
        /\ terminal' = terminal /\ old' = old /\ offset' = offset /\ old = <<>>
        /\ wheeled' = wheeled /\ caller.since # 0
        /\ caller' = [since |-> screen_sequence, rows |-> Merged(caller.rows, Answer(caller.since))]
    BY <1>8 DEF LookAgain, NoChange
  <2>2. Numbered'
    BY <1>0, <2>1 DEF Numbered
  <2>3. CASE display_offset > 0 \/ wheeled
    BY <2>1, <2>2, <2>3 DEF CallerCovered, display_offset
  <2>4. CASE ~(display_offset > 0) /\ ~wheeled
    <3>1. offset <= 0
      BY <1>0, <2>4, TerminalAssumption DEF display_offset
    <3>2. AllRows = DOMAIN terminal.grid /\ \A r \in AllRows : RowSent(r) = terminal.grid[r]
      BY <1>0, <3>1, OnScreen
    <3>3. caller'.rows = Full
      BY <2>1, <2>4, <3>1, MergedIsFull
    <3>4. \A r \in DOMAIN Settled'.grid : r \in DOMAIN caller'.rows /\ caller'.rows[r] = Settled'.grid[r]
      BY <2>1, <3>2, <3>3 DEF Settled, Full
    <3>. QED BY <2>2, <3>4 DEF CallerCovered, Covered
  <2>. QED BY <2>3, <2>4
<1>9. CASE UNCHANGED vars
  BY <1>0, <1>9 DEF vars, Numbered, CallerCovered, Covered, Gap, Unseen, Settled, display_offset
<1>. QED BY <1>1, <1>2, <1>3, <1>4, <1>5, <1>6, <1>7, <1>8, <1>9 DEF Next

\* A caller that merges what get-grid --since-screen answers into the rows it has
\* always has the screen, however its questions, the output, the changes of the
\* screen in use, the resizes and the keys of copy mode follow each other
\* (grid_snapshot in session.rs).
THEOREM DeltasAreExact == Spec => []DeltaExact
<1>1. Init => DeltaInv
  BY CoveredInitially
<1>2. DeltaInv /\ [Next]_vars => DeltaInv'
  BY RangeKept, CoveredKept DEF DeltaInv
<1>3. DeltaInv => DeltaExact
  BY MergedIsFull DEF DeltaExact
<1>. QED BY <1>1, <1>2, <1>3, PTL DEF Spec
=============================================================================
