---------------------------- MODULE ClientInput ----------------------------
(***************************************************************************)
(* The foreground client: the loop that reads the terminal and cuts its    *)
(* bytes into commands, the reader thread that takes what the session      *)
(* sends, and the bounded channel by which the reader tells the loop that  *)
(* the session entered or left a floating-edit mode (attach in client.rs,  *)
(* FloatEditScanner and PrefixParser in client_input.rs).  The session is  *)
(* what its actor does with these messages (input, action, enter_float_    *)
(* mode, end_float_mode, float_edit and copy_input in session.rs).         *)
(*                                                                         *)
(* A byte is a member of Bytes.  One byte stands for each class that the   *)
(* parsers tell apart; an arrow is Esc [ A, a mouse report Esc [ < M.      *)
(***************************************************************************)
EXTENDS Integers, Sequences, SequencesExt

CONSTANTS
    Strokes,        \* the byte sequences the user may type
    ModeCap,        \* the capacity of the mode channel (8)
    SequenceCap,    \* bytes after which a sequence behind the prefix is dropped (7)
    MouseCap,       \* bytes at which an unfinished mouse report is input (64)
    MaxStrokes,     \* bound: strokes typed
    MaxChanges      \* bound: edits ended for another reason, resizes, signals

Bytes == {"Prefix", "m", "d", "x", "y", "[", "A", "<", "M", "Esc", "Enter", "q"}

ASSUME InputAssumption ==
    /\ \A s \in Strokes : s \in Seq(Bytes) /\ s # <<>>
    /\ ModeCap \in Nat \ {0}
    /\ SequenceCap \in Nat \ {0} /\ MouseCap \in Nat \ {0}
    /\ MaxStrokes \in Nat /\ MaxChanges \in Nat

VARIABLES
    tty,          \* bytes typed and not read; whether the terminal has ended
    main,         \* where the input loop is
    parser,       \* PrefixParser
    pending,      \* FloatEditScanner: the bytes of an incomplete sequence
    float_mode,   \* the mode the loop believes in, 0 for none
    stopped,      \* the flag the client's threads share
    reader,       \* the reader thread, with the mode message it is sending
    modes,        \* the mode channel
    up, down,     \* the connection, in both directions
    actor,        \* the session's side
    undecided,    \* bytes read and neither sent as input nor used by a command
    behind,       \* of these, the bytes typed behind a detach in the same read
    budget          \* what the bounds still allow

input_vars == <<tty, main, parser, pending, float_mode, stopped, reader, modes,
          up, down, actor, undecided, behind, budget>>

----------------------------------------------------------------------------
(* PrefixParser::feed, byte by byte over one read.                         *)

\* What Step makes of the bytes, from the first to the last.  (Quantifiers bind the
\* state and the bytes so that TLC evaluates them once.)
Along(Step(_, _), start, bytes) ==
    LET after[i \in 0 .. Len(bytes)] ==
            IF i = 0 THEN start
            ELSE CHOOSE next \in {Step(st, bytes[i]) : st \in {after[i - 1]}} : TRUE
    IN  after[Len(bytes)]

Over(Step(_, _), start, bytes) == CHOOSE end \in {Along(Step, start, s) : s \in {bytes}} : TRUE

FreshParser == [prefix |-> FALSE, sequence |-> <<>>, mouse_sequence |-> <<>>,
                confirm_close |-> FALSE]

\* What a step carries: the parser, the commands so far, the ordinary bytes
\* not yet a command, and how many bytes commands have used up.
Flush(st) ==
    IF st.ordinary = <<>> THEN st
    ELSE [st EXCEPT !.out = Append(@, [do |-> "input", bytes |-> st.ordinary]),
                    !.ordinary = <<>>]

Emit(st, command, used) ==
    LET flushed == Flush(st)
    IN  [flushed EXCEPT !.out = Append(@, command), !.used = @ + used]

InClose(st, b) ==
    LET next == [st EXCEPT !.parser.confirm_close = FALSE]
    IN  IF b = "y" THEN Emit(next, [do |-> "action", action |-> "close"], 3)
        ELSE [next EXCEPT !.used = @ + 3]

InSequence(st, b) ==
    LET s == Append(st.parser.sequence, b)
        done == [st EXCEPT !.parser.sequence = <<>>, !.parser.prefix = FALSE]
    IN  IF s = <<"Esc", "[", "A">>
        THEN Emit(done, [do |-> "action", action |-> "focus"], 4)
        ELSE IF Len(s) >= SequenceCap THEN [done EXCEPT !.used = @ + 1 + Len(s)]
        ELSE [st EXCEPT !.parser.sequence = s]

\* "m" ends a mouse report as well as "M" does: a release.
InMouse(st, b) ==
    LET s == Append(st.parser.mouse_sequence, b)
        done == [st EXCEPT !.parser.mouse_sequence = <<>>]
        asText == [done EXCEPT !.ordinary = @ \o s]
    IN  CASE ~IsPrefix(s, <<"Esc", "[", "<">>) /\ Len(s) <= 3 -> asText
          [] Len(s) > 3 /\ b \in {"M", "m"} ->
                IF Len(s) = 4 THEN Emit(done, [do |-> "mouse"], Len(s))
                ELSE [Flush(done) EXCEPT !.ordinary = s]
          [] Len(s) > 3 /\ Len(s) >= MouseCap /\ b \notin {"M", "m"} -> asText
          [] OTHER -> [st EXCEPT !.parser.mouse_sequence = s]

Plain(st, b) ==
    CASE b = "Esc"    -> [st EXCEPT !.parser.mouse_sequence = <<b>>]
      [] b = "Prefix" -> [Flush(st) EXCEPT !.parser.prefix = TRUE]
      [] OTHER        -> [st EXCEPT !.ordinary = Append(@, b)]

AfterPrefix(st, b) ==
    LET done == [st EXCEPT !.parser.prefix = FALSE]
    IN  CASE b = "Prefix" -> Emit(done, [do |-> "input", bytes |-> <<b>>], 1)
          [] b = "m"      -> Emit(done, [do |-> "action", action |-> "move"], 2)
          [] b = "["      -> Emit(done, [do |-> "action", action |-> "copy"], 2)
          [] b = "d"      -> Emit(done, [do |-> "detach"], 2)
          [] b = "x"      -> [done EXCEPT !.parser.confirm_close = TRUE]
          [] b = "Esc"    -> [st EXCEPT !.parser.sequence = <<b>>]
          [] OTHER        -> [done EXCEPT !.used = @ + 2]

FeedByte(st, b) ==
    CASE st.parser.confirm_close -> InClose(st, b)
      [] ~st.parser.confirm_close /\ st.parser.sequence # <<>> -> InSequence(st, b)
      [] OTHER ->
            IF st.parser.prefix THEN AfterPrefix(st, b)
            ELSE IF st.parser.mouse_sequence # <<>> THEN InMouse(st, b)
            ELSE Plain(st, b)

feed(p, bytes) ==
    Flush(Over(FeedByte,
               [parser |-> p, out |-> <<>>, ordinary |-> <<>>, used |-> 0], bytes))

----------------------------------------------------------------------------
(* FloatEditScanner::scan; what follows a commit is forwarded.  *)

ScanByte(st, b) ==
    LET s == Append(st.pending, b)
    IN  CASE st.done \/ (st.pending = <<>> /\ b \notin {"Enter", "Esc"}) ->
                [st EXCEPT !.forward = Append(@, b)]
          [] ~st.done /\ st.pending = <<>> /\ b = "Enter" ->
                [st EXCEPT !.commands = Append(@, "commit"), !.used = @ + 1, !.done = TRUE]
          [] OTHER ->
                IF s = <<"Esc", "[", "A">>
                THEN [st EXCEPT !.commands = Append(@, "step"), !.used = @ + 3,
                                !.pending = <<>>]
                ELSE IF IsPrefix(s, <<"Esc", "[", "A">>) THEN [st EXCEPT !.pending = s]
                ELSE [st EXCEPT !.forward = @ \o s, !.pending = <<>>]

scan(held, bytes) ==
    Over(ScanByte, [pending |-> held, commands |-> <<>>, forward |-> <<>>,
                    used |-> 0, done |-> FALSE], bytes)

----------------------------------------------------------------------------
(* The input loop.                                                         *)

InputBytes(commands) ==
    Over(LAMBDA n, c : IF c.do = "input" THEN n + Len(c.bytes) ELSE n, 0, commands)

EditMessage(command) == [do |-> "edit", mode |-> float_mode, command |-> command]

Detaches(commands) == \E i \in DOMAIN commands : commands[i].do = "detach"

\* The bytes whose commands the loop carries out: it stops at a detach.  What is
\* typed behind it in the same read is parsed as well, into commands that the
\* loop drops, by a parser that no read uses again.
UpToDetach(p, bytes) ==
    LET detached == {i \in DOMAIN bytes :
                       bytes[i] = "d" /\ Detaches(feed(p, SubSeq(bytes, 1, i)).out)}
    IN  IF detached = {} THEN bytes
        ELSE SubSeq(bytes, 1, CHOOSE i \in detached : \A j \in detached : i <= j)

\* What the parsers make of the bytes of one read: edit keys are looked for
\* first while a mode is confirmed, and the rest goes to the prefix parser.
Parsed(bytes) ==
    LET scanned == IF float_mode = 0
                   THEN [commands |-> <<>>, used |-> 0, pending |-> pending, forward |-> bytes]
                   ELSE scan(pending, bytes)
        followed == UpToDetach(parser, scanned.forward)
    IN  [commands |-> scanned.commands, used |-> scanned.used, pending |-> scanned.pending,
         fed |-> feed(parser, followed), behind |-> Len(scanned.forward) - Len(followed)]

\* What the scanner holds at the end of a mode would be thrown away.
DrainModeDropping ==
    /\ main = "drain" /\ ~stopped /\ modes # <<>>
    /\ LET m == Head(modes)
           ends == ~m.active /\ float_mode = m.mode
       IN  /\ float_mode' = IF m.active THEN m.mode ELSE IF ends THEN 0 ELSE float_mode
           /\ pending' = IF m.active \/ ends THEN <<>> ELSE pending
    /\ modes' = Tail(modes)
    /\ UNCHANGED <<tty, main, parser, stopped, reader, up, down, actor, undecided, behind, budget>>

\* The head of an iteration: every mode message there is, in order, then a
\* read.  Bytes of a sequence cut short by the end of its mode are input.
DrainMode ==
    /\ main = "drain" /\ ~stopped /\ modes # <<>>
    /\ LET m == Head(modes)
           ends == ~m.active /\ float_mode = m.mode
       IN  /\ float_mode' = IF m.active THEN m.mode ELSE IF ends THEN 0 ELSE float_mode
           /\ pending' = IF m.active \/ ends THEN <<>> ELSE pending
           /\ up' = IF ends /\ pending # <<>>
                    THEN Append(up, [do |-> "input", bytes |-> pending]) ELSE up
           /\ undecided' = IF ends THEN undecided - Len(pending) ELSE undecided
    /\ modes' = Tail(modes)
    /\ UNCHANGED <<tty, main, parser, stopped, reader, down, actor, behind, budget>>

StartRead ==
    /\ main = "drain" /\ ~stopped /\ modes = <<>>
    /\ main' = "read"
    /\ UNCHANGED <<tty, parser, pending, float_mode, stopped, reader, modes,
                   up, down, actor, undecided, behind, budget>>

\* The size of the terminal is looked at after every read, answered or not.
Resized(resized) ==
    IF resized
    THEN budget.changes > 0 /\ budget' = [budget EXCEPT !.changes = @ - 1]
    ELSE budget' = budget

Resize(resized) == IF resized THEN <<[do |-> "resize"]>> ELSE <<>>

\* A read takes what has arrived; the rest of a stroke may come with the next.
\* After a detach the loop parses no further and waits.
Read(n, resized) ==
    /\ main = "read" /\ n \in 1 .. Len(tty.bytes)
    /\ Resized(resized)
    /\ \E parsed \in {Parsed(SubSeq(tty.bytes, 1, n))} :
           /\ tty' = [tty EXCEPT !.bytes = SubSeq(@, n + 1, Len(@))]
           /\ parser' = parsed.fed.parser
           /\ pending' = parsed.pending
           /\ up' = up \o [i \in DOMAIN parsed.commands |-> EditMessage(parsed.commands[i])]
                       \o parsed.fed.out \o Resize(resized)
           /\ undecided' = undecided + n - parsed.used - parsed.fed.used
                                     - InputBytes(parsed.fed.out)
           /\ behind' = parsed.behind
           /\ float_mode' = IF "commit" \in ToSet(parsed.commands) THEN 0 ELSE float_mode
           /\ main' = IF Detaches(parsed.fed.out) THEN "ack" ELSE "drain"
    /\ UNCHANGED <<stopped, reader, modes, down, actor>>

\* The escape would wait for a byte that need not come.
expireNever == FALSE

\* No byte within the poll: an escape that is still alone cancels the edit.
expire == float_mode # 0 /\ pending = <<"Esc">>

ReadTimesOut(resized) ==
    /\ main = "read" /\ tty.bytes = <<>> /\ ~tty.eof
    /\ IF expire
       THEN /\ up' = Append(up, EditMessage("cancel")) \o Resize(resized)
            /\ pending' = <<>> /\ float_mode' = 0 /\ undecided' = undecided - 1
       ELSE /\ up' = up \o Resize(resized)
            /\ UNCHANGED <<pending, float_mode, undecided>>
    /\ Resized(resized)
    /\ main' = "drain"
    /\ UNCHANGED <<tty, parser, stopped, reader, modes, down, actor, behind>>

ReadEnds ==
    /\ main = "read" /\ tty.bytes = <<>> /\ tty.eof
    /\ up' = Append(up, [do |-> "detach"])
    /\ main' = "ack"
    /\ UNCHANGED <<tty, parser, pending, float_mode, stopped, reader, modes,
                   down, actor, undecided, behind, budget>>

\* The loop ends: on the shared flag, when the wait for the answer to a detach
\* has taken DETACH_ACK_TIMEOUT, or because a send failed.
LeaveLoop ==
    /\ \/ main \in {"drain", "ack"} /\ stopped
       \/ main = "ack"
       \/ main = "read" /\ actor.closed
    /\ main' = "join" /\ stopped' = TRUE
    /\ UNCHANGED <<tty, parser, pending, float_mode, reader, modes, up, down,
                   actor, undecided, behind, budget>>

\* ClientWorkers::stop joins the reader.
Join ==
    /\ main = "join" /\ reader.at = "ended"
    /\ main' = "exited"
    /\ UNCHANGED <<tty, parser, pending, float_mode, stopped, reader, modes,
                   up, down, actor, undecided, behind, budget>>

----------------------------------------------------------------------------
(* The reader thread.                                                      *)

NoMode == [mode |-> 0, active |-> FALSE]

ReaderTakesMode ==
    /\ reader.at = "recv" /\ down # <<>> /\ Head(down).say = "mode"
    /\ reader' = [at |-> "send", held |-> Head(down).change]
    /\ down' = Tail(down)
    /\ UNCHANGED <<tty, main, parser, pending, float_mode, stopped, modes, up,
                   actor, undecided, behind, budget>>

\* A try_send would drop the message that finds the channel full.
ReaderSendsOrDrops ==
    /\ reader.at = "send"
    /\ modes' = IF Len(modes) < ModeCap THEN Append(modes, reader.held) ELSE modes
    /\ reader' = [at |-> "recv", held |-> NoMode]
    /\ UNCHANGED <<tty, main, parser, pending, float_mode, stopped, up, down,
                   actor, undecided, behind, budget>>

\* sync_channel(8): the send waits while the channel is full.
ReaderSends ==
    /\ reader.at = "send" /\ Len(modes) < ModeCap
    /\ modes' = Append(modes, reader.held)
    /\ reader' = [at |-> "recv", held |-> NoMode]
    /\ UNCHANGED <<tty, main, parser, pending, float_mode, stopped, up, down,
                   actor, undecided, behind, budget>>

\* The connection would not be cancelled before the reader is joined.
ReaderEndsByPeer ==
    /\ reader.at = "recv"
    /\ \/ down # <<>> /\ Head(down).say = "detached"
       \/ down = <<>> /\ actor.closed
    /\ reader' = [reader EXCEPT !.at = "ended"]
    /\ stopped' = TRUE
    /\ UNCHANGED <<tty, main, parser, pending, float_mode, modes, up, down,
                   actor, undecided, behind, budget>>

\* On Detached, on a connection that ended, and on one that is cancelled.
ReaderEnds ==
    /\ reader.at = "recv"
    /\ \/ down # <<>> /\ Head(down).say = "detached"
       \/ down = <<>> /\ actor.closed
       \/ main = "join"
    /\ reader' = [reader EXCEPT !.at = "ended"]
    /\ stopped' = TRUE
    /\ UNCHANGED <<tty, main, parser, pending, float_mode, modes, up, down,
                   actor, undecided, behind, budget>>

----------------------------------------------------------------------------
(* The session actor.                                                      *)

ModeMessage(id, active) == [say |-> "mode", change |-> [mode |-> id, active |-> active]]

\* end_float_mode: the attached client is told, if there is a mode.
EndMessages == IF actor.modal # 0 /\ actor.attached
               THEN <<ModeMessage(actor.modal, FALSE)>> ELSE <<>>

Handles(kind) == up # <<>> /\ ~actor.closed /\ Head(up).do = kind /\ up' = Tail(up)

NotActor == UNCHANGED <<tty, main, parser, pending, float_mode, stopped, reader,
                        modes, undecided, behind, budget>>

\* A message of a client that is no longer the attached one is ignored.
HandleStale ==
    /\ up # <<>> /\ ~actor.closed /\ ~actor.attached /\ up' = Tail(up)
    /\ UNCHANGED <<down, actor>> /\ NotActor

\* Every action ends the mode first; a new one needs a floating pane in focus.
EnterFloatMode ==
    /\ Handles("action") /\ actor.attached /\ Head(up).action = "move"
    /\ IF actor.floating
       THEN /\ actor' = [actor EXCEPT !.modal = actor.next + 1, !.next = @ + 1]
            /\ down' = (down \o EndMessages) \o <<ModeMessage(actor.next + 1, TRUE)>>
       ELSE /\ actor' = [actor EXCEPT !.modal = 0]
            /\ down' = down \o EndMessages
    /\ NotActor

EnterCopyMode ==
    /\ Handles("action") /\ actor.attached /\ Head(up).action = "copy"
    /\ actor' = [actor EXCEPT !.modal = 0, !.copy = TRUE]
    /\ down' = down \o EndMessages
    /\ NotActor

\* Another pane may get the focus.
ChangeFocus(floating) ==
    /\ Handles("action") /\ actor.attached /\ Head(up).action \in {"focus", "close"}
    /\ \/ actor' = [actor EXCEPT !.modal = 0]
       \/ actor' = [actor EXCEPT !.modal = 0, !.floating = floating, !.copy = FALSE]
    /\ down' = down \o EndMessages
    /\ NotActor

\* A report of the mouse over another pane ends the mode, any other keeps it.
HandleMouse(other) ==
    /\ Handles("mouse") /\ actor.attached
    /\ actor' = IF other THEN [actor EXCEPT !.modal = 0, !.copy = FALSE] ELSE actor
    /\ down' = IF other THEN down \o EndMessages ELSE down
    /\ NotActor

HandleResize ==
    /\ Handles("resize") /\ actor.attached
    /\ actor' = [actor EXCEPT !.modal = 0]
    /\ down' = down \o EndMessages
    /\ NotActor

\* An edit for another mode than the current one raced its end.
FloatEdit ==
    /\ Handles("edit") /\ actor.attached
    /\ IF actor.modal = Head(up).mode /\ Head(up).command # "step"
       THEN actor' = [actor EXCEPT !.modal = 0] /\ down' = down \o EndMessages
       ELSE UNCHANGED <<actor, down>>
    /\ NotActor

\* Copy mode knows whole messages only; a pane takes any bytes.
HandleInput ==
    /\ Handles("input") /\ actor.attached
    /\ actor' = [actor EXCEPT
                    !.copy = @ /\ Head(up).bytes \notin {<<"q">>, <<"Esc">>, <<"Enter">>}]
    /\ UNCHANGED down /\ NotActor

\* The client is no longer attached when the mode is ended: it hears of the
\* detach only.
HandleDetach ==
    /\ Handles("detach") /\ actor.attached
    /\ actor' = [actor EXCEPT !.attached = FALSE, !.modal = 0]
    /\ down' = Append(down, [say |-> "detached"])
    /\ NotActor

Spend(n) == budget.changes >= n /\ budget' = [budget EXCEPT !.changes = @ - n]

\* The edited pane, or another one, exits.
PaneExits(floating) ==
    /\ actor.attached /\ ~actor.closed /\ actor.modal # 0 /\ Spend(1)
    /\ actor' = [actor EXCEPT !.modal = 0, !.floating = floating, !.copy = FALSE]
    /\ down' = down \o EndMessages
    /\ UNCHANGED <<tty, main, parser, pending, float_mode, stopped, reader,
                   modes, up, undecided, behind>>

\* Another client takes the session.
Replaced ==
    /\ actor.attached /\ ~actor.closed /\ Spend(1)
    /\ actor' = [actor EXCEPT !.attached = FALSE, !.modal = 0]
    /\ down' = (down \o EndMessages) \o <<[say |-> "detached"]>>
    /\ UNCHANGED <<tty, main, parser, pending, float_mode, stopped, reader,
                   modes, up, undecided, behind>>

\* Another client is refused the session, after the edit was ended.
Refused ==
    /\ actor.attached /\ ~actor.closed /\ actor.modal # 0 /\ Spend(1)
    /\ actor' = [actor EXCEPT !.modal = 0]
    /\ down' = down \o EndMessages
    /\ UNCHANGED <<tty, main, parser, pending, float_mode, stopped, reader,
                   modes, up, undecided, behind>>

\* The connection ends: the server is gone.
ServerGone ==
    /\ ~actor.closed /\ Spend(1)
    /\ actor' = [actor EXCEPT !.closed = TRUE]
    /\ UNCHANGED <<tty, main, parser, pending, float_mode, stopped, reader,
                   modes, up, down, undecided, behind>>

----------------------------------------------------------------------------
(* The user.                                                               *)

Type(stroke) ==
    /\ budget.strokes > 0 /\ ~tty.eof /\ main # "exited"
    /\ tty' = [tty EXCEPT !.bytes = @ \o stroke]
    /\ budget' = [budget EXCEPT !.strokes = @ - 1]
    /\ UNCHANGED <<main, parser, pending, float_mode, stopped, reader, modes,
                   up, down, actor, undecided, behind>>

TerminalEnds ==
    /\ ~tty.eof /\ Spend(1)
    /\ tty' = [tty EXCEPT !.eof = TRUE]
    /\ UNCHANGED <<main, parser, pending, float_mode, stopped, reader, modes,
                   up, down, actor, undecided, behind>>

\* SIGINT, SIGTERM or SIGHUP.
Signal ==
    /\ ~stopped /\ Spend(1)
    /\ stopped' = TRUE
    /\ UNCHANGED <<tty, main, parser, pending, float_mode, reader, modes,
                   up, down, actor, undecided, behind>>

----------------------------------------------------------------------------
InputInit ==
    /\ tty = [bytes |-> <<>>, eof |-> FALSE]
    /\ main = "drain" /\ parser = FreshParser /\ pending = <<>> /\ float_mode = 0
    /\ stopped = FALSE /\ reader = [at |-> "recv", held |-> NoMode]
    /\ modes = <<>> /\ up = <<>> /\ down = <<>>
    /\ actor = [attached |-> TRUE, closed |-> FALSE, modal |-> 0, next |-> 0,
                floating |-> TRUE, copy |-> FALSE]
    /\ undecided = 0 /\ behind = 0
    /\ budget = [strokes |-> MaxStrokes, changes |-> MaxChanges]

InputLoop ==
    \/ DrainMode \/ StartRead \/ ReadEnds \/ LeaveLoop \/ Join
    \/ \E resized \in BOOLEAN :
           ReadTimesOut(resized) \/ \E n \in 1 .. Len(tty.bytes) : Read(n, resized)

ReaderThread == ReaderTakesMode \/ ReaderSends \/ ReaderEnds

Session ==
    \/ HandleStale \/ EnterFloatMode \/ EnterCopyMode \/ HandleResize \/ FloatEdit
    \/ HandleInput \/ HandleDetach
    \/ \E other \in BOOLEAN : ChangeFocus(other) \/ HandleMouse(other)

Environment ==
    \/ \E stroke \in Strokes : Type(stroke)
    \/ TerminalEnds \/ Signal \/ Replaced \/ Refused \/ ServerGone
    \/ \E floating \in BOOLEAN : PaneExits(floating)

InputNext == InputLoop \/ ReaderThread \/ Session \/ Environment

\* The threads of the client and of the session run; nobody has to type.
Fairness == WF_input_vars(InputLoop) /\ WF_input_vars(ReaderThread) /\ WF_input_vars(Session)

InputSpec == InputInit /\ [][InputNext]_input_vars /\ Fairness

----------------------------------------------------------------------------
(* Properties.                                                             *)

InputTypeOK ==
    /\ tty.bytes \in Seq(Bytes) /\ tty.eof \in BOOLEAN
    /\ main \in {"drain", "read", "ack", "join", "exited"}
    /\ \A f \in {parser.sequence, parser.mouse_sequence, pending} : f \in Seq(Bytes)
    /\ float_mode \in Nat /\ actor.modal \in Nat
    /\ stopped \in BOOLEAN
    /\ reader.at \in {"recv", "send", "ended"}
    /\ Len(modes) <= ModeCap
    /\ undecided \in Nat /\ behind \in Nat

\* Bytes that a parser holds back until it knows what they are.
HeldBack ==
    Len(parser.mouse_sequence) + Len(pending) + Len(parser.sequence)
    + (IF parser.prefix THEN 1 ELSE 0) + (IF parser.confirm_close THEN 2 ELSE 0)

\* Every byte read from the terminal is sent as input once, used by one
\* command, or held: none is lost or doubled when a mode begins or ends while
\* the scanner holds part of a sequence.  The one exception is a detach: what
\* is typed behind it in the same read is dropped, and the loop reads no more
\* (FloatEditScanner::reset, scan and PrefixParser::feed; client.rs, the loop
\* of attach).
BytesAccounted ==
    /\ InputTypeOK
    /\ undecided = HeldBack + behind
    /\ behind # 0 => main \notin {"drain", "read"}

\* When nothing is on its way, the loop scans for edit keys exactly when the
\* session is in an edit mode, and for that one: neither a commit that meets
\* the end of its mode nor modes that follow each other leave the client in a
\* mode the session has left, or out of one it is in (the mode channel of
\* attach in client.rs, float_edit in session.rs).
QuietModesAgree ==
    /\ main \in {"drain", "read"} /\ reader.at = "recv"
    /\ up = <<>> /\ down = <<>> /\ modes = <<>>
    /\ actor.attached /\ ~actor.closed
    => float_mode = actor.modal

\* An escape the scanner holds does not stay there: it cancels the edit, it
\* turns out to begin a longer sequence, or it is given back when the mode
\* ends (FloatEditScanner::expire in client_input.rs).
HeldEscapeDecided ==
    (pending = <<"Esc">>) ~> (pending # <<"Esc">> \/ main \notin {"drain", "read"})

\* A client told to stop, by a detach, by its server, by the end of its
\* terminal or by a signal, ends; the one way it does not is that its reader
\* waits for room in the full mode channel, which the loop has left (attach
\* and ClientWorkers::stop in client.rs).
StopsUnlessFull ==
    (stopped \/ main = "ack") ~>
        \/ main = "exited"
        \/ main = "join" /\ reader.at = "send" /\ Len(modes) = ModeCap

\* A client that is told to stop ends.
\* The code does not meet this: README, section 3.
ClientExits == (stopped \/ main = "ack") ~> main = "exited"

\* An escape typed in copy mode leaves it.
\* The code does not meet this: README, section 3.
EscapeCancelsCopy ==
    (actor.copy /\ parser.mouse_sequence = <<"Esc">>)
    ~> (\/ ~actor.copy \/ parser.mouse_sequence # <<"Esc">>
        \/ main \notin {"drain", "read"})

=============================================================================
