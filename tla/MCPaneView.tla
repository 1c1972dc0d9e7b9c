---------------------------- MODULE MCPaneView ----------------------------
EXTENDS PaneView

Do(name) == [do |-> name]
Input(c) == [do |-> "input", ch |-> c]
Times(name, n) == [do |-> name, n |-> n]
Clear(what, mode) == [do |-> what, mode |-> mode]
At(r, c) == [do |-> "goto", row |-> r, col |-> c]

\* A new pane; one that has scrolled twice, with its cursor past the last column
\* and a joined row; one in the middle of a program on the alternate screen, over a
\* primary screen with text and a scrolling region of one row.
MCPrinted ==
    {<<>>,
     <<Input("a"), Do("newline"), Input("a"), Input("W"), Input("W"), Input("a")>>,
     <<Input("a"), At(1, 9), Do("save"), [do |-> "alternate", on |-> TRUE], Do("tab"),
       Input("a"), [do |-> "region", top |-> 2, bottom |-> 2], At(1, 1)>>}

MCStarts == {FoldLeft(Handle, new(2, 3), printed) : printed \in MCPrinted}

MCFunctions ==
    {Input("a"), Input("W"), Do("linefeed"), Do("newline"), Do("return"), Do("tab"),
     At(0, 0), At(9, 9), Times("up", 1), Times("down", 2), Times("forward", 9),
     Times("backward", 1), Do("set_stop"), [do |-> "clear_stops", all |-> TRUE],
     [do |-> "clear_stops", all |-> FALSE], Times("set_tabs", 2),
     Times("insert_blank", 1), Times("delete_chars", 1), Times("erase_chars", 1),
     Clear("clear_line", "right"), Clear("clear_line", "left"), Clear("clear_line", "all"),
     Clear("clear_screen", "below"), Clear("clear_screen", "above"),
     Clear("clear_screen", "all"), Clear("clear_screen", "saved"),
     Times("scroll_up", 1), Times("scroll_down", 9), Times("insert_lines", 1),
     Times("delete_lines", 9), Do("reverse"),
     [do |-> "region", top |-> 2, bottom |-> 2], [do |-> "region", top |-> 0, bottom |-> 1],
     Do("save"), Do("restore"), [do |-> "mode", on |-> TRUE],
     [do |-> "alternate", on |-> TRUE], [do |-> "alternate", on |-> FALSE], Do("reset")}

MCSizes == {<<2, 3>>, <<1, 2>>}
=============================================================================
