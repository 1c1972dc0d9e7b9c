--------------------------- MODULE ServerLifecycle ---------------------------
(***************************************************************************)
(* The life of the server processes of one session name: what a launcher   *)
(* and the servers it starts do to the files of the name (server.rs,       *)
(* runtime.rs, platform/unix.rs), one step per file-system call.  A file   *)
(* holds the process that made it; a process may die between any two       *)
(* steps.  Unix side.                                                      *)
(***************************************************************************)
EXTENDS Naturals, FiniteSets

CONSTANTS
    Servers,    \* server processes of this build
    Old,        \* the server of an earlier time, of this or another build
    NoOne

ASSUME ServersAssumption == Old \notin Servers /\ NoOne \notin Servers \cup {Old}

VARIABLES
    pc,         \* where a server is
    victim,     \* the owner of the instance remove_instance was called for
    after,      \* where remove_instance returns to
    socket,     \* who bound the session socket that is at the path
    vivid,      \* who bound the presenter socket that is at the path
    registry,   \* the record at the registry path
    legacy,     \* the record at the path of older builds
    old_alive,  \* the earlier server still runs
    pid_reused, \* another process got the earlier server's process number
    launcher,   \* the client that started a server
    shutdown,   \* ActorHandle.shutdown
    pane,       \* the process group of a server's panes; "stubborn" ignores SIGHUP
    met,        \* another server ran while this one was starting
    overlapped  \* two servers were starting at the same time

files == <<socket, vivid, registry, legacy>>
env == <<old_alive, pid_reused>>
actor == <<shutdown, pane>>
ghosts == <<met, overlapped>>
vars == <<pc, victim, after, files, env, launcher, actor, ghosts>>

NoRecord == [by |-> NoOne, usable |-> TRUE, birth |-> TRUE]
Record(p) == [by |-> p, usable |-> TRUE, birth |-> TRUE]

\* At the path of older builds: no birth of the process.
OlderRecord == [by |-> Old, usable |-> TRUE, birth |-> FALSE]

\* Until the socket is bound.
PreBind == {"check", "connect", "unusable", "discard", "inspect", "rm_read", "rm_socket",
            "rm_vivid", "rm_registry", "rm_unlink", "recheck", "endpoints", "endpoints2", "bind"}
Over == {"off", "spawn", "exists", "refused", "failed", "quit", "exited", "crashed"}

\* In remove_instance at the end of the life, the same steps come after serving.
Starting(s) == pc[s] \in PreBind /\ after[s] # "exited" /\ after[s] # "failed"

Alive(p) == IF p = Old THEN old_alive ELSE p \in Servers /\ pc[p] \notin Over

\* session_is_connectable, connect_session: a bound listener takes connections
\* into its backlog until its process ends.
Connectable == Alive(socket)

artifacts_exist == socket # NoOne \/ registry.by # NoOne \/ legacy.by # NoOne

\* read_registry, where the unreadable record is not "not found".
read_registry == IF registry.by # NoOne THEN registry ELSE legacy

\* Mutant: the process number alone identifies the owner.
registry_process_matchesPid(r) == Alive(r.by) \/ (r.by = Old /\ pid_reused)

\* registry_process_matches: the recorded birth tells a reused number apart.
registry_process_matches(r) == Alive(r.by) \/ (r.by = Old /\ pid_reused /\ ~r.birth)

Goto(s, step) == pc' = [pc EXCEPT ![s] = step]

\* A call of remove_instance for the record of p.
CallRemove(s, p, return) ==
    /\ Goto(s, "rm_read")
    /\ victim' = [victim EXCEPT ![s] = p]
    /\ after' = [after EXCEPT ![s] = return]

NoCall == UNCHANGED <<victim, after>>
KeepOthers == UNCHANGED <<env, launcher, actor, ghosts>>
-----------------------------------------------------------------------------
\* create_detached, attach: the probe.  A session that answers is used.
Probe(s) ==
    /\ pc[s] = "off"
    /\ Goto(s, IF Connectable THEN "exists" ELSE "spawn")
    /\ NoCall /\ KeepOthers /\ UNCHANGED files

\* DaemonLauncher::launch.
Spawn(s) ==
    /\ pc[s] = "spawn"
    /\ Goto(s, "check")
    /\ launcher' = [launcher EXCEPT ![s] = "waiting"]
    /\ LET others == {t \in Servers \ {s} : Starting(t)}
       IN  /\ overlapped' = (overlapped \/ others # {})
           /\ met' = [t \in Servers |->
                        met[t] \/ t \in others \/ (t = s /\ \E p \in (Servers \cup {Old}) \ {s} : Alive(p))]
    /\ NoCall /\ UNCHANGED <<files, env, actor>>

\* clean_stale: nothing there.
Check(s) ==
    /\ pc[s] = "check"
    /\ Goto(s, IF artifacts_exist THEN "connect" ELSE "bind")
    /\ NoCall /\ KeepOthers /\ UNCHANGED files

\* Mutant: only the record is asked, which a server writes after it binds.
ConnectIgnoring(s) ==
    /\ pc[s] = "connect"
    /\ Goto(s, "unusable")
    /\ NoCall /\ KeepOthers /\ UNCHANGED files

\* clean_stale: somebody answers.
Connect(s) ==
    /\ pc[s] = "connect"
    /\ Goto(s, IF Connectable THEN "refused" ELSE "unusable")
    /\ NoCall /\ KeepOthers /\ UNCHANGED files

\* discard_unusable_registry, up to the decision.
Unusable(s) ==
    /\ pc[s] = "unusable"
    /\ Goto(s, IF read_registry.usable THEN "inspect"
               ELSE IF registry_process_matches(read_registry) THEN "refused" ELSE "discard")
    /\ NoCall /\ KeepOthers /\ UNCHANGED files

\* remove_unusable_registry and the second look.
Discard(s) ==
    /\ pc[s] = "discard"
    /\ registry' = IF registry.usable THEN registry ELSE NoRecord
    /\ legacy' = IF legacy.usable THEN legacy ELSE NoRecord
    /\ Goto(s, "inspect")
    /\ NoCall /\ KeepOthers /\ UNCHANGED <<socket, vivid>>

\* clean_stale: the record it can validate.
Inspect(s) ==
    /\ pc[s] = "inspect"
    /\ LET r == read_registry
       IN  \/ r.by = NoOne /\ Goto(s, "endpoints") /\ NoCall
           \/ r.by # NoOne /\ registry_process_matches(r) /\ Goto(s, "refused") /\ NoCall
           \/ r.by # NoOne /\ ~registry_process_matches(r) /\ CallRemove(s, r.by, "recheck")
    /\ KeepOthers /\ UNCHANGED files

\* remove_instance: another instance is left alone.
RmRead(s) ==
    /\ pc[s] = "rm_read"
    /\ Goto(s, IF read_registry.by = victim[s] THEN "rm_socket" ELSE after[s])
    /\ NoCall /\ KeepOthers /\ UNCHANGED files

RmSocket(s) ==
    /\ pc[s] = "rm_socket"
    /\ socket' = NoOne
    /\ Goto(s, "rm_vivid")
    /\ NoCall /\ KeepOthers /\ UNCHANGED <<vivid, registry, legacy>>

RmVivid(s) ==
    /\ pc[s] = "rm_vivid"
    /\ vivid' = NoOne
    /\ Goto(s, "rm_registry")
    /\ NoCall /\ KeepOthers /\ UNCHANGED <<socket, registry, legacy>>

\* remove_instance: the record is read again before it is removed.
RmRegistry(s) ==
    /\ pc[s] = "rm_registry"
    /\ Goto(s, IF victim[s] \in {registry.by, legacy.by} THEN "rm_unlink" ELSE after[s])
    /\ NoCall /\ KeepOthers /\ UNCHANGED files

RmUnlink(s) ==
    /\ pc[s] = "rm_unlink"
    /\ IF legacy.by = victim[s]
       THEN legacy' = NoRecord /\ UNCHANGED registry
       ELSE registry' = NoRecord /\ UNCHANGED legacy
    /\ Goto(s, after[s])
    /\ NoCall /\ KeepOthers /\ UNCHANGED <<socket, vivid>>

\* clean_stale: the exact stale instance must be gone.
Recheck(s) ==
    /\ pc[s] = "recheck"
    /\ Goto(s, IF artifacts_exist THEN "refused" ELSE "endpoints")
    /\ NoCall /\ KeepOthers /\ UNCHANGED files

\* remove_stale_endpoints.
Endpoints(s) ==
    /\ pc[s] = "endpoints"
    /\ socket' = NoOne
    /\ Goto(s, "endpoints2")
    /\ NoCall /\ KeepOthers /\ UNCHANGED <<vivid, registry, legacy>>

Endpoints2(s) ==
    /\ pc[s] = "endpoints2"
    /\ vivid' = NoOne
    /\ Goto(s, "bind")
    /\ NoCall /\ KeepOthers /\ UNCHANGED <<socket, registry, legacy>>

\* SessionListener::bind fails when the path exists.
Bind(s) ==
    /\ pc[s] = "bind"
    /\ socket' = IF socket = NoOne THEN s ELSE socket
    /\ Goto(s, IF socket = NoOne THEN "register" ELSE "refused")
    /\ NoCall /\ KeepOthers /\ UNCHANGED <<vivid, registry, legacy>>

\* write_registry replaces the record in one rename; when it fails the bound
\* socket stays.
Register(s) ==
    /\ pc[s] = "register"
    /\ \/ registry' = Record(s) /\ Goto(s, "load")
       \/ UNCHANGED registry /\ Goto(s, "failed")
    /\ NoCall /\ KeepOthers /\ UNCHANGED <<socket, vivid, legacy>>

\* Config::load, and session::start with the presenter's bind and the first pane.
Load(s) ==
    /\ pc[s] = "load"
    /\ \/ vivid' = s /\ Goto(s, "ready") /\ NoCall
          /\ pane' = [pane EXCEPT ![s] = "running"]
       \/ CallRemove(s, s, "failed") /\ UNCHANGED <<vivid, pane>>
    /\ UNCHANGED <<socket, registry, legacy, env, launcher, shutdown, ghosts>>

\* ReadinessWriter::success: a launcher that gave up has closed the pipe, and the
\* server ends without removing its files.
Ready(s) ==
    /\ pc[s] = "ready"
    /\ Goto(s, IF launcher[s] = "waiting" THEN "serving" ELSE "quit")
    /\ NoCall /\ KeepOthers /\ UNCHANGED files

\* The accept loop sees the shutdown, or an accept fails.
EndServing(s) ==
    /\ pc[s] = "serving"
    /\ CallRemove(s, s, "exited")
    /\ KeepOthers /\ UNCHANGED files

Crash(s) ==
    /\ Alive(s)
    /\ Goto(s, "crashed")
    /\ NoCall /\ KeepOthers /\ UNCHANGED files

OldEnds ==
    /\ old_alive
    /\ old_alive' = FALSE
    /\ UNCHANGED <<pc, victim, after, files, pid_reused, launcher, actor, ghosts>>
-----------------------------------------------------------------------------
\* ReadinessReader::wait: a result, the end of the pipe, or the timeout, which is
\* looked at before the pipe.
LauncherHears(s) ==
    /\ launcher[s] = "waiting"
    /\ pc[s] \in Over \cup {"serving"}
    /\ launcher' = [launcher EXCEPT ![s] = "done"]
    /\ UNCHANGED <<pc, victim, after, files, env, actor, ghosts>>

LauncherTimesOut(s) ==
    /\ launcher[s] = "waiting" /\ Alive(s)
    /\ launcher' = [launcher EXCEPT ![s] = "done"]
    /\ UNCHANGED <<pc, victim, after, files, env, actor, ghosts>>

KeepProcess == UNCHANGED <<pc, victim, after, env, launcher, ghosts>>

\* ClientMessage::Kill, or a signal: the flag is set at once.
Kill(s) ==
    /\ pc[s] = "serving" /\ ~shutdown[s]
    /\ shutdown' = [shutdown EXCEPT ![s] = TRUE]
    /\ UNCHANGED <<pane, files>> /\ KeepProcess

\* terminate_children and terminate_blocking, on the actor's thread: SIGHUP, a
\* pause, SIGKILL.
ActorHup(s) ==
    /\ Alive(s) /\ shutdown[s] /\ pane[s] = "running"
    /\ pane' = [pane EXCEPT ![s] = "hup"]
    /\ UNCHANGED <<shutdown, files>> /\ KeepProcess

ActorKill(s) ==
    /\ Alive(s) /\ shutdown[s] /\ pane[s] \in {"hup", "stubborn"}
    /\ pane' = [pane EXCEPT ![s] = "dead"]
    /\ UNCHANGED <<shutdown, files>> /\ KeepProcess

\* The last pane ended by itself: run stores the flag at its end.
LastPaneExits(s) ==
    /\ pc[s] = "serving" /\ pane[s] = "running" /\ ~shutdown[s]
    /\ pane' = [pane EXCEPT ![s] = "dead"]
    /\ shutdown' = [shutdown EXCEPT ![s] = TRUE]
    /\ UNCHANGED files /\ KeepProcess

\* The actor is dropped after its run, and the presenter's thread with its listener.
PresenterDrops(s) ==
    /\ Alive(s) /\ shutdown[s] /\ pane[s] = "dead"
    /\ vivid' = NoOne
    /\ UNCHANGED <<socket, registry, legacy, actor>> /\ KeepProcess

\* The kernel: the terminal of a dead server hangs up, and what does not ignore
\* SIGHUP ends.
HangUp(s) ==
    /\ \/ pane[s] = "running" /\ pc[s] \in Over /\ pane' = [pane EXCEPT ![s] = "hup"]
       \/ pane[s] = "hup" /\ \E p \in {"dead", "stubborn"} : pane' = [pane EXCEPT ![s] = p]
    /\ UNCHANGED <<shutdown, files>> /\ KeepProcess
-----------------------------------------------------------------------------
\* What an earlier server left, or still holds: every point of its life.
Init ==
    /\ pc = [s \in Servers |-> "off"]
    /\ victim = [s \in Servers |-> NoOne]
    /\ after = [s \in Servers |-> "off"]
    /\ old_alive \in BOOLEAN /\ pid_reused \in BOOLEAN
    /\ (old_alive => ~pid_reused)
    /\ socket \in {Old, NoOne} /\ vivid \in {Old, NoOne}
    /\ \/ registry \in [by : {Old}, usable : BOOLEAN, birth : BOOLEAN] /\ legacy = NoRecord
       \/ registry = NoRecord /\ legacy \in {OlderRecord, NoRecord}
    /\ launcher = [s \in Servers |-> "none"]
    /\ shutdown = [s \in Servers |-> FALSE]
    /\ pane = [s \in Servers |-> "none"]
    /\ met = [s \in Servers |-> FALSE]
    /\ overlapped = FALSE

Main(s) ==
    \/ Probe(s) \/ Spawn(s) \/ Check(s) \/ Connect(s) \/ Unusable(s) \/ Discard(s) \/ Inspect(s)
    \/ RmRead(s) \/ RmSocket(s) \/ RmVivid(s) \/ RmRegistry(s) \/ RmUnlink(s) \/ Recheck(s)
    \/ Endpoints(s) \/ Endpoints2(s) \/ Bind(s) \/ Register(s) \/ Load(s) \/ Ready(s)

Actor(s) == ActorHup(s) \/ ActorKill(s) \/ PresenterDrops(s)

Next ==
    \/ OldEnds
    \/ \E s \in Servers :
        \/ Main(s) \/ EndServing(s) \/ Crash(s)
        \/ LauncherHears(s) \/ LauncherTimesOut(s)
        \/ Kill(s) \/ Actor(s) \/ LastPaneExits(s) \/ HangUp(s)

\* Every thread of a running server goes on, and the kernel delivers hangups.
\* Nothing makes a session end but its shutdown flag.
Fairness ==
    \A s \in Servers :
        /\ WF_vars(Main(s))
        /\ WF_vars(shutdown[s] /\ EndServing(s))
        /\ WF_vars(ActorHup(s)) /\ WF_vars(ActorKill(s))
        /\ WF_vars(HangUp(s))

Spec == Init /\ [][Next]_vars /\ Fairness
-----------------------------------------------------------------------------
\* The record of a dead server whose number is all there is to compare, and in use.
NumberAlone == pid_reused /\ read_registry.by = Old /\ ~read_registry.birth

Process == Servers \cup {Old, NoOne}
Step == PreBind \cup Over \cup {"register", "load", "ready", "serving"}

TypeOK ==
    /\ pc \in [Servers -> Step]
    /\ victim \in [Servers -> Process]
    /\ after \in [Servers -> {"off", "recheck", "exited", "failed"}]
    /\ socket \in Process /\ vivid \in Process
    /\ registry \in [by : Process, usable : BOOLEAN, birth : BOOLEAN]
    /\ legacy \in [by : {Old, NoOne}, usable : {TRUE}, birth : BOOLEAN]
    /\ old_alive \in BOOLEAN /\ pid_reused \in BOOLEAN
    /\ launcher \in [Servers -> {"none", "waiting", "done"}]
    /\ pane \in [Servers -> {"none", "running", "hup", "stubborn", "dead"}]
    /\ shutdown \in [Servers -> BOOLEAN]
    /\ met \in [Servers -> BOOLEAN] /\ overlapped \in BOOLEAN

\* A start is refused with "session already exists" or "owner is alive" only when
\* another server of the name was running at some moment of it: whatever a dead
\* server left behind, at whichever of its steps it died, does not strand the
\* name.  The one exception is a record of another build without a birth to compare,
\* when its process number is in use (server.rs, clean_stale; runtime.rs,
\* registry_process_matches).
RefusalJustified ==
    TypeOK /\ \A s \in Servers : pc[s] = "refused" => met[s] \/ NumberAlone

\* As long as no two servers start at the same time, the one that serves is alone
\* and is the one its name leads to: the socket and the record at the paths of
\* the name are its own; and one that ended in order left no file behind, nor took
\* any from a server that runs (server.rs, run_inner; runtime.rs, remove_instance).
ServingOwnsName ==
    ~overlapped =>
        /\ \A s, t \in Servers : pc[s] = "serving" /\ pc[t] = "serving" => s = t
        /\ \A s \in Servers : pc[s] = "serving" => socket = s /\ registry.by = s
        /\ \A s \in Servers : pc[s] = "exited" => socket # s /\ registry.by # s

\* What the README says of kill-session: it terminates the session and its
\* process groups.  The server's main thread leaves at the flag, and with the
\* process the thread that would have sent SIGKILL to a group that ignores SIGHUP.
\* The code does not meet this: README, section 3.
KillEndsPanes == \A s \in Servers : shutdown[s] ~> (pane[s] = "dead" \/ pc[s] = "crashed")
=============================================================================
