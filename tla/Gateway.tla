------------------------------ MODULE Gateway ------------------------------
(***************************************************************************)
(* The VVWS gateway (gateway/mod.rs, session_adapter.rs, vivid.rs) before  *)
(* one session: browsers that connect, attach, take over, freeze and go;   *)
(* the adapter between a connection's loop and the session actor; the      *)
(* permits that control and Vivid sockets share; and the rule that takes a *)
(* session from a silent holder others wait for.  Time is counted in       *)
(* seconds.  The two bounded queues, of events before the loop and of      *)
(* messages after it, may be full at any send.                             *)
(***************************************************************************)
EXTENDS Naturals, FiniteSets

CONSTANTS
    Browsers,   \* browsers, each with at most one control socket at a time
    Media,      \* those that attach with Vivid
    Permits,    \* server.max_connections
    Stall,      \* CLIENT_STALL_TIMEOUT
    Window,     \* CONTENTION_WINDOW
    Nobody

ASSUME GatewayAssumption ==
    /\ {Permits, Stall, Window} \subseteq Nat \ {0}
    /\ Stall < Window /\ Media \subseteq Browsers
    /\ Nobody \notin Browsers

Never == Window + 1

VARIABLES
    phase,      \* where the connection of a browser is
    transport,  \* the browser's Vivid socket is open
    browser,    \* "awake", "frozen" (neither reads nor answers) or "gone"
    link,       \* the connection of a browser's SessionAdapter and the session
    noticed,    \* browsers whose adapter has the session's Detached to deliver
    detaching,  \* browsers whose Detach is on its way to the session
    running,    \* the session runs
    holder,     \* SessionActor.attached
    since,      \* contended_sessions: age of the entry, or Never
    seen,       \* age of last_seen
    ticked,     \* the loop had its tick of this second
    pinged      \* pings since the browser's last word or the first refusal

conn == <<phase, transport, browser>>
session == <<link, noticed, detaching, running, holder>>
clock == <<seen, ticked, pinged>>
gateway_vars == <<conn, session, since, clock>>

Permitted == Cardinality({c \in Browsers : phase[c] # "off"}) + Cardinality(transport)

Enter(c, p) == phase' = [phase EXCEPT ![c] = p]
-----------------------------------------------------------------------------
\* websocket_upgrade: with a permit, or the upgrade is refused.
OpenConnection(c) ==
    /\ phase[c] = "off" /\ Permitted < Permits
    /\ Enter(c, "auth")
    /\ UNCHANGED <<transport, browser, session, since, clock>>

\* authenticate_connection and the registration of the Vivid route; or a wrong
\* token, or none within AUTH_TIMEOUT.
Hello(c) ==
    /\ phase[c] = "auth"
    /\ Enter(c, "idle") \/ Enter(c, "flushing")
    /\ UNCHANGED <<transport, browser, session, since, clock>>

\* ClientControl::Attach while nothing is attached.  The loop stays in the handler
\* until the answer is queued, and reads nothing meanwhile.
Attach(c, takeover) ==
    /\ phase[c] = "idle"
    /\ Enter(c, IF takeover THEN "replacing" ELSE "asking")
    /\ UNCHANGED <<transport, browser, session, since, clock>>

\* The Detached of the session for a client: it is queued, or the queue is full and
\* the adapter's reader cuts the connection.
Notify(c, new_link) ==
    \/ link[c] # "open" /\ new_link = link[c] /\ UNCHANGED noticed
    \/ link[c] = "open" /\ new_link = "open" /\ noticed' = noticed \cup {c}
    \/ link[c] = "open" /\ new_link = "full" /\ UNCHANGED noticed

Links == {"free", "open", "full", "broken", "spent", "eof", "cut"}

\* Of a link: the connection is open, or the adapter's side cut it by itself, because
\* the event queue was full ("full", the overloaded flag) or for another reason.
Uncut == {"open", "full", "broken"}

\* The session has heard of the end of a connection.
Heard(l) == CASE l = "cut" -> "free" [] l = "full" -> "spent" [] l = "broken" -> "eof" [] OTHER -> l

\* SessionAdapter::connect and ClientMessage::Attach at the session actor: a client
\* that is replaced is told.
\* Bound: the session has heard of the end of the browser's earlier adapter.
Granted(c) ==
    /\ phase[c] \in {"asking", "replacing"} /\ running /\ link[c] = "free"
    /\ holder # Nobody => phase[c] = "replacing"
    /\ holder' = c
    /\ IF holder \in Browsers
       THEN \E to \in Links : Notify(holder, to) /\ link' = [link EXCEPT ![c] = "open", ![holder] = to]
       ELSE link' = [link EXCEPT ![c] = "open"] /\ UNCHANGED noticed
    /\ Enter(c, "bridging")
    /\ UNCHANGED <<transport, browser, detaching, running, since, clock>>

\* The session has another client.
Occupied(c) ==
    /\ phase[c] = "asking" /\ running /\ holder # Nobody
    /\ Enter(c, "occupied")
    /\ seen' = [seen EXCEPT ![c] = 0]
    /\ UNCHANGED <<transport, browser, session, since, ticked, pinged>>
-----------------------------------------------------------------------------
\* The loop is left without a session and with phase p.  The adapter is dropped:
\* Detach, and the connection is cut.  The bridge goes, and the browser's Vivid
\* socket with it.  The clocks of a loop that is not attached are not looked at,
\* and a browser that does nothing then may as well be awake.
Leave(c, p) ==
    /\ Enter(c, p)
    /\ transport' = transport \ {c}
    /\ browser' = [browser EXCEPT ![c] = "awake"]
    /\ link' = [link EXCEPT ![c] = IF @ \in Uncut THEN "cut"
                                  ELSE IF @ \in {"eof", "spent"} THEN "free" ELSE @]
    /\ noticed' = noticed \ {c}
    /\ detaching' = detaching \ {c}
    /\ seen' = [seen EXCEPT ![c] = 0]
    /\ ticked' = [ticked EXCEPT ![c] = FALSE]
    /\ pinged' = [pinged EXCEPT ![c] = 0]
    /\ UNCHANGED <<running, holder>>

\* The end of the loop, for whatever reason: the session is released and the
\* writer task gets its time to flush.
EndLoop(c) == Leave(c, "flushing")

BackToIdle(c) == IF browser[c] = "gone" THEN EndLoop(c) ELSE Leave(c, "idle")

\* There is no session of this name, or no longer.
Unavailable(c) ==
    /\ phase[c] \in {"asking", "replacing"} /\ ~running
    /\ Enter(c, "idle")
    /\ seen' = [seen EXCEPT ![c] = 0]
    /\ UNCHANGED <<transport, browser, session, since, ticked, pinged>>

\* Mutant: every refusal starts the clock again.
record_contentionAgain == 0

\* record_contention: repeated refusals keep the first instant.
record_contention == IF since < Window THEN since ELSE 0

\* The refusal is recorded and answered; the browser stays connected.
AnswerRefusal(c) ==
    /\ phase[c] = "occupied"
    /\ since' = record_contention
    /\ Enter(c, "idle")
    /\ pinged' = IF since < Window THEN pinged ELSE [d \in Browsers |-> 0]
    /\ UNCHANGED <<transport, browser, session, seen, ticked>>

\* vivid_upgrade and serve_socket: a socket of the browser, with a permit.
OpenTransport(c) ==
    /\ phase[c] = "bridging" /\ c \in Media /\ browser[c] = "awake"
    /\ c \notin transport /\ Permitted < Permits
    /\ transport' = transport \cup {c}
    /\ UNCHANGED <<phase, browser, session, since, clock>>

\* wait_for_transport gives up after CONNECTION_WAIT.
BridgeFails(c) ==
    /\ phase[c] = "bridging" /\ c \in Media /\ c \notin transport
    /\ BackToIdle(c)
    /\ UNCHANGED since

\* Mutant: what was held against an earlier holder counts against this one.
clear_contentionNot == since

clear_contention == Never

\* The rest of the attach: contention is forgotten, the browser is told.
Finish(c) ==
    /\ phase[c] = "bridging"
    /\ c \in Media => c \in transport
    /\ since' = clear_contention
    /\ Enter(c, "attached")
    /\ UNCHANGED <<transport, browser, session, clock>>
-----------------------------------------------------------------------------
\* ServerMessage::Detached, or Error.
RecvDetached(c) ==
    /\ phase[c] = "attached" /\ c \in noticed
    /\ BackToIdle(c)
    /\ UNCHANGED since

\* Session(None): there is no event left and the reader has ended.  The loop ends with
\* it only if the event queue was full.
RecvEnd(c) ==
    /\ phase[c] = "attached" /\ c \notin noticed /\ link[c] # "open"
    /\ IF link[c] \in {"eof", "broken"} THEN BackToIdle(c) ELSE EndLoop(c)
    /\ UNCHANGED since

\* The socket ended, or a send of the loop finds the outbound queue full.
LoopEnds(c) ==
    /\ phase[c] \in {"idle", "attached"}
    /\ EndLoop(c)
    /\ UNCHANGED since

\* ClientControl::Detach: the session answers it.
Detach(c) ==
    /\ phase[c] = "attached" /\ browser[c] = "awake" /\ link[c] = "open"
    /\ detaching' = detaching \cup {c}
    /\ seen' = [seen EXCEPT ![c] = 0]
    /\ pinged' = [pinged EXCEPT ![c] = 0]
    /\ UNCHANGED <<conn, link, noticed, running, holder, since, ticked>>

\* check_client_liveness: silent, and somebody is waiting for as long.
WaitedFor(c) == seen[c] >= Stall /\ Stall <= since /\ since < Window

TickIsDue(c) == phase[c] = "attached" /\ ~ticked[c]

\* The session is given up.
Yield(c) ==
    /\ TickIsDue(c) /\ WaitedFor(c)
    /\ EndLoop(c)
    /\ UNCHANGED since

\* Otherwise there is a ping, one in a second.
SendPing(c) ==
    /\ TickIsDue(c) /\ ~WaitedFor(c)
    /\ pinged' = [pinged EXCEPT ![c] = IF @ < Stall - 1 THEN @ + 1 ELSE @]
    /\ ticked' = [ticked EXCEPT ![c] = TRUE]
    /\ UNCHANGED <<conn, session, since, seen>>

\* The writer task is done, or CLIENT_FLUSH_TIMEOUT has passed.  The browser may
\* come back.
Flushed(c) ==
    /\ phase[c] = "flushing"
    /\ Enter(c, "off")
    /\ UNCHANGED <<transport, browser, session, since, clock>>
-----------------------------------------------------------------------------
\* A pong, input, or any other word of the browser.
BrowserSpeaks(c) ==
    /\ phase[c] = "attached" /\ browser[c] = "awake"
    /\ seen' = [seen EXCEPT ![c] = 0]
    /\ pinged' = [pinged EXCEPT ![c] = 0]
    /\ UNCHANGED <<conn, session, since, ticked>>

\* A page freezes or goes on; one that goes is noticed when the loop reads again.
BrowserTurns(c, state) ==
    /\ phase[c] \in {"bridging", "attached"}
    /\ browser[c] \notin {"gone", state}
    /\ state = "gone" => phase[c] # "attached"
    /\ browser' = [browser EXCEPT ![c] = state]
    /\ UNCHANGED <<phase, transport, session, since, clock>>

\* The adapter's reader finds the event queue full.
Overloads(c) ==
    /\ link[c] = "open"
    /\ link' = [link EXCEPT ![c] = "full"]
    /\ UNCHANGED <<conn, noticed, detaching, running, holder, since, clock>>

\* The queue to the session is full when the bridge sends, or a browser without Vivid
\* is sent media: the connection is cut, and nothing is marked.
Breaks(c) ==
    /\ link[c] = "open" /\ (c \in Media => c \in transport)
    /\ link' = [link EXCEPT ![c] = "broken"]
    /\ UNCHANGED <<conn, noticed, detaching, running, holder, since, clock>>

\* ClientMessage::Detach at the session actor.
SessionDetaches(c) ==
    /\ c \in detaching /\ link[c] = "open"
    /\ detaching' = detaching \ {c}
    /\ IF holder = c
       THEN holder' = Nobody /\ \E to \in Links : Notify(c, to) /\ link' = [link EXCEPT ![c] = to]
       ELSE UNCHANGED <<holder, link, noticed>>
    /\ UNCHANGED <<conn, running, since, clock>>

\* Mutant: whoever disconnects, the session is free.
SessionHearsEndOfAny(c) ==
    /\ link[c] \in {"cut", "full", "broken"}
    /\ holder' = Nobody
    /\ link' = [link EXCEPT ![c] = Heard(@)]
    /\ detaching' = detaching \ {c}
    /\ UNCHANGED <<conn, noticed, running, since, clock>>

\* ActorEvent::Disconnected.
SessionHearsEnd(c) ==
    /\ link[c] \in {"cut", "full", "broken"}
    /\ holder' = IF holder = c THEN Nobody ELSE holder
    /\ link' = [link EXCEPT ![c] = Heard(@)]
    /\ detaching' = detaching \ {c}
    /\ UNCHANGED <<conn, noticed, running, since, clock>>

SessionEnds ==
    /\ running /\ running' = FALSE
    /\ holder' = Nobody
    /\ link' = [c \in Browsers |-> IF link[c] = "open" THEN "eof" ELSE Heard(link[c])]
    /\ detaching' = {}
    /\ UNCHANGED <<conn, noticed, since, clock>>

\* A second passes; every loop that is attached has had its tick.
Second ==
    /\ ~\E c \in Browsers : TickIsDue(c)
    /\ seen' = [c \in Browsers |->
                  IF phase[c] \in {"asking", "replacing", "bridging", "attached"} /\ seen[c] < Stall
                  THEN seen[c] + 1 ELSE seen[c]]
    /\ since' = IF since < Window THEN since + 1 ELSE Never
    /\ ticked' = [c \in Browsers |-> FALSE]
    /\ UNCHANGED <<conn, session, pinged>>
-----------------------------------------------------------------------------
GatewayInit ==
    /\ phase = [c \in Browsers |-> "off"]
    /\ transport = {}
    /\ browser = [c \in Browsers |-> "awake"]
    /\ link = [c \in Browsers |-> "free"]
    /\ noticed = {} /\ detaching = {} /\ running = TRUE /\ holder = Nobody
    /\ since = Never
    /\ seen = [c \in Browsers |-> 0]
    /\ ticked = [c \in Browsers |-> FALSE]
    /\ pinged = [c \in Browsers |-> 0]

Loop(c) ==
    \/ AnswerRefusal(c) \/ BridgeFails(c) \/ Finish(c) \/ RecvDetached(c) \/ RecvEnd(c) \/ Flushed(c)

LoopTick(c) == Yield(c) \/ SendPing(c)

Answer(c) == Granted(c) \/ Occupied(c) \/ Unavailable(c)

GatewayNext ==
    \/ \E c \in Browsers :
        \/ OpenConnection(c) \/ Hello(c) \/ Answer(c) \/ Loop(c) \/ LoopTick(c) \/ LoopEnds(c)
        \/ OpenTransport(c) \/ Detach(c) \/ BrowserSpeaks(c)
        \/ \E takeover \in BOOLEAN : Attach(c, takeover)
        \/ \E state \in {"awake", "frozen", "gone"} : BrowserTurns(c, state)
        \/ Overloads(c) \/ Breaks(c) \/ SessionDetaches(c) \/ SessionHearsEnd(c)
    \/ SessionEnds \/ Second

\* The gateway's runtime and the session's threads go on, and time passes.  No
\* browser has to do anything.
GatewayFairness ==
    /\ \A c \in Browsers :
         WF_gateway_vars(Loop(c)) /\ WF_gateway_vars(LoopTick(c)) /\ WF_gateway_vars(Answer(c))
    /\ \A c \in Browsers : WF_gateway_vars(SessionHearsEnd(c))
    /\ WF_gateway_vars(Second)

GatewaySpec == GatewayInit /\ [][GatewayNext]_gateway_vars /\ GatewayFairness
-----------------------------------------------------------------------------
GatewayTypeOK ==
    /\ phase \in [Browsers -> {"off", "auth", "idle", "asking", "replacing", "occupied",
                               "bridging", "attached", "flushing"}]
    /\ browser \in [Browsers -> {"awake", "frozen", "gone"}]
    /\ transport \subseteq Media
    /\ link \in [Browsers -> Links]
    /\ noticed \subseteq Browsers /\ detaching \subseteq Browsers /\ running \in BOOLEAN
    /\ holder \in Browsers \cup {Nobody}
    /\ since \in 0..Never
    /\ seen \in [Browsers -> 0..Stall] /\ pinged \in [Browsers -> 0..(Stall - 1)]
    /\ ticked \in [Browsers -> BOOLEAN]
    /\ Permitted <= Permits

\* A holder is dropped for its silence only after it left a full interval of pings
\* unanswered, all of them sent while somebody was known to wait: being quiet
\* before, or slow to attach, does not count (gateway/mod.rs,
\* check_client_liveness, with record_contention and clear_contention).
FullIntervalOfPings == [][\A c \in Browsers : Yield(c) => pinged[c] >= Stall - 1]_gateway_vars

\* A loop that is attached, with no notice and no end of its connection still to
\* read, holds the session; and no session stays with a connection that is over
\* (gateway/mod.rs, handle_connection; session_adapter.rs; session.rs, client_is).
HolderAgrees ==
    /\ GatewayTypeOK
    /\ \A c \in Browsers :
         phase[c] \in {"bridging", "attached"} /\ c \notin noticed /\ link[c] = "open" => holder = c
    /\ holder \in Browsers =>
         link[holder] = "cut" \/ phase[holder] \in {"bridging", "attached"}

\* A browser that stays frozen does not keep a session that another one asks for
\* again and again (gateway/mod.rs, record_contention).
SilentYields ==
    \A c \in Browsers :
        \/ []<>(phase[c] # "attached" \/ browser[c] = "awake")
        \/ <>[](\A d \in Browsers : phase[d] # "occupied")

=============================================================================
