--------------------------- MODULE ServerProofs ---------------------------
(***************************************************************************)
(* Proofs about ServerLifecycle, for any set of servers of one name, and   *)
(* about Gateway, for any number of browsers and permits and any timeouts. *)
(***************************************************************************)
EXTENDS ServerLifecycle, Gateway, FiniteSetTheorems, TLAPS

USE ServersAssumption

----------------------------------------------------------------------------
(* The inductive invariant. *)

Removing == {"rm_read", "rm_socket", "rm_vivid", "rm_registry", "rm_unlink"}
Cleaned == {"recheck", "endpoints", "endpoints2", "bind"}
Bound == {"register", "load", "ready", "serving"}

\* A server that removes its own files.
Ending(s) == pc[s] \in Removing /\ after[s] \in {"exited", "failed"}

\* remove_instance is called to clean for a start, or at the end of a life.
Returns ==
    \A s \in Servers :
        /\ pc[s] \in Removing => after[s] \in {"recheck", "exited", "failed"}
        /\ after[s] \in {"exited", "failed"} => pc[s] \in Removing \cup {"exited", "failed", "crashed"}

\* No file is of a server that has not yet bound the socket.
FilesOfBound ==
    \A s \in Servers : pc[s] \in {"off", "spawn"} \/ Starting(s) => socket # s /\ registry.by # s

\* There is one record at most, and the path of older builds is empty once a server
\* is done with cleaning.
OneRecord ==
    /\ registry.by # NoOne => legacy.by = NoOne
    /\ \A s \in Servers : pc[s] \in (Cleaned \ {"recheck"}) \cup Bound => legacy.by = NoOne

\* A record without a birth whose process number is in use again stops every start
\* before it removes anything.
OlderRecordStops ==
    NumberAlone => \A s \in Servers : pc[s] \in {"off", "spawn", "exists", "check", "connect",
                                                 "unusable", "inspect", "refused", "crashed"}

\* A start knows of every other server that runs.
OthersMet ==
    \A s \in Servers : \A p \in (Servers \cup {Old}) \ {s} : Starting(s) /\ Alive(p) => met[s]

\* A start that met nobody finds the files as it left them.
AloneCleans ==
    \A s \in Servers :
        Starting(s) /\ ~met[s] =>
            /\ pc[s] \in Removing => victim[s] # NoOne /\ read_registry.by = victim[s]
            /\ pc[s] \in {"rm_vivid", "rm_registry", "rm_unlink", "endpoints2", "bind"} => socket = NoOne
            /\ pc[s] = "recheck" => ~artifacts_exist

RefusedMet ==
    \A s \in Servers : pc[s] = "refused" => met[s] \/ NumberAlone

RefusalInv ==
    /\ TypeOK /\ Returns /\ FilesOfBound /\ OneRecord
    /\ OlderRecordStops /\ OthersMet /\ AloneCleans /\ RefusedMet

\* One server starts at a time.
StartsApart == \A s, t \in Servers : Starting(s) /\ Starting(t) => s = t

\* From the bind on the socket is the server's, from write_registry on the record.
BoundOwns ==
    \A s \in Servers :
        /\ pc[s] \in Bound => socket = s
        /\ pc[s] \in Bound \ {"register"} => registry = Record(s)

\* A server that removes its files removes its own.
EndingOwns ==
    \A s \in Servers :
        Ending(s) => /\ victim[s] = s /\ registry = Record(s)
                     /\ IF pc[s] \in {"rm_read", "rm_socket"} THEN socket = s ELSE socket # s

\* A start that found nobody at the socket still does, and one that found nobody
\* behind the record does until it writes its own.
CleansTheDead ==
    \A s \in Servers :
        /\ Starting(s) /\ pc[s] \notin {"check", "connect"} => ~Connectable
        /\ (Starting(s) /\ pc[s] \in Removing \cup Cleaned) \/ pc[s] = "register" =>
               \A t \in Servers : registry.by = t => ~Alive(t)

ExitedCleanly == \A s \in Servers : pc[s] = "exited" => socket # s /\ registry.by # s

OwnerInv == StartsApart /\ BoundOwns /\ EndingOwns /\ CleansTheDead /\ ExitedCleanly

LifeInv == RefusalInv /\ (~overlapped => OwnerInv)

----------------------------------------------------------------------------
(* Steps. *)

\* The steps of the launcher, the actor and the kernel leave the servers where they
\* are, and the socket and the records too.
Aside ==
    /\ UNCHANGED <<pc, victim, after, socket, registry, legacy, pid_reused, ghosts>>
    /\ old_alive' => old_alive

\* The steps of a server, by what it is doing.
Launches(s) == Probe(s) \/ Spawn(s)
Inspects(s) == Check(s) \/ Connect(s) \/ Unusable(s) \/ Discard(s) \/ Inspect(s)
Removes(s) == RmRead(s) \/ RmSocket(s) \/ RmVivid(s) \/ RmRegistry(s) \/ RmUnlink(s)
Clears(s) == Recheck(s) \/ Endpoints(s) \/ Endpoints2(s)
Serves(s) == Bind(s) \/ Register(s) \/ Load(s) \/ Ready(s) \/ EndServing(s)

\* Every step is one of those told apart below.
LEMMA AsideSteps ==
    /\ UNCHANGED vars \/ OldEnds => Aside
    /\ \A s \in Servers :
           LauncherHears(s) \/ LauncherTimesOut(s) \/ Kill(s) \/ Actor(s) \/ LastPaneExits(s) \/ HangUp(s)
           => Aside
BY DEF Aside, vars, OldEnds, LauncherHears, LauncherTimesOut, Kill, Actor, ActorHup, ActorKill,
    PresenterDrops, LastPaneExits, HangUp, KeepProcess, files, env, actor, ghosts

\* remove_instance returns where it was called.
LEMMA StepReturns == RefusalInv /\ [Next]_vars => Returns'
<1>. SUFFICES ASSUME RefusalInv, [Next]_vars PROVE Returns'
    OBVIOUS
<1>. USE DEF RefusalInv, Returns, TypeOK, Step, PreBind, Over, Removing, Goto, NoCall,
        KeepOthers, files, env, actor, ghosts
<1>1. CASE Aside
    BY <1>1 DEF Aside
<1>2. ASSUME NEW s \in Servers, Launches(s) PROVE Returns'
    BY <1>2 DEF Launches, Probe, Spawn
<1>3. ASSUME NEW s \in Servers, Inspects(s) PROVE Returns'
    BY <1>3 DEF Inspects, Check, Connect, Unusable, Discard, Inspect, CallRemove
<1>4. ASSUME NEW s \in Servers, Removes(s) PROVE Returns'
    BY <1>4 DEF Removes, RmRead, RmSocket, RmVivid, RmRegistry, RmUnlink
<1>5. ASSUME NEW s \in Servers, Clears(s) PROVE Returns'
    BY <1>5 DEF Clears, Recheck, Endpoints, Endpoints2
<1>6. ASSUME NEW s \in Servers, Serves(s) PROVE Returns'
    BY <1>6 DEF Serves, Bind, Register, Load, Ready, EndServing, CallRemove
<1>7. ASSUME NEW s \in Servers, Crash(s) PROVE Returns'
    BY <1>7 DEF Crash
<1>. QED
    BY AsideSteps, <1>1, <1>2, <1>3, <1>4, <1>5, <1>6, <1>7
    DEF Next, Main, Launches, Inspects, Removes, Clears, Serves

\* Only a server that has bound the socket gets files.
LEMMA StepFilesOfBound == RefusalInv /\ [Next]_vars => FilesOfBound'
<1>. SUFFICES ASSUME RefusalInv, [Next]_vars PROVE FilesOfBound'
    OBVIOUS
<1>. USE DEF RefusalInv, FilesOfBound, Returns, TypeOK, Step, PreBind, Over, Removing,
        Starting, Record, NoRecord, Goto, NoCall, KeepOthers, files, env, actor, ghosts
<1>1. CASE Aside
    BY <1>1 DEF Aside
<1>2. ASSUME NEW s \in Servers, Launches(s) PROVE FilesOfBound'
    BY <1>2 DEF Launches, Probe, Spawn
<1>3. ASSUME NEW s \in Servers, Inspects(s) PROVE FilesOfBound'
    BY <1>3 DEF Inspects, Check, Connect, Unusable, Discard, Inspect, CallRemove
<1>4. ASSUME NEW s \in Servers, Removes(s) PROVE FilesOfBound'
    BY <1>4 DEF Removes, RmRead, RmSocket, RmVivid, RmRegistry, RmUnlink
<1>5. ASSUME NEW s \in Servers, Clears(s) PROVE FilesOfBound'
    BY <1>5 DEF Clears, Recheck, Endpoints, Endpoints2
<1>6. ASSUME NEW s \in Servers, Serves(s) PROVE FilesOfBound'
    BY <1>6 DEF Serves, Bind, Register, Load, Ready, EndServing, CallRemove
<1>7. ASSUME NEW s \in Servers, Crash(s) PROVE FilesOfBound'
    BY <1>7 DEF Crash
<1>. QED
    BY AsideSteps, <1>1, <1>2, <1>3, <1>4, <1>5, <1>6, <1>7
    DEF Next, Main, Launches, Inspects, Removes, Clears, Serves

\* No server registers over a record of an older build.
LEMMA StepOneRecord == RefusalInv /\ [Next]_vars => OneRecord'
<1>. SUFFICES ASSUME RefusalInv, [Next]_vars PROVE OneRecord'
    OBVIOUS
<1>. USE DEF RefusalInv, OneRecord, Returns, TypeOK, Step, PreBind, Over, Removing, Cleaned,
        Bound, Record, NoRecord, Process, artifacts_exist, read_registry, Starting, Goto,
        NoCall, KeepOthers, files, env, actor, ghosts
<1>1. CASE Aside
    BY <1>1 DEF Aside
<1>2. ASSUME NEW s \in Servers, Launches(s) PROVE OneRecord'
    BY <1>2 DEF Launches, Probe, Spawn
<1>3. ASSUME NEW s \in Servers, Inspects(s) PROVE OneRecord'
    BY <1>3 DEF Inspects, Check, Connect, Unusable, Discard, Inspect, CallRemove
<1>4. ASSUME NEW s \in Servers, Removes(s) PROVE OneRecord'
    BY <1>4 DEF Removes, RmRead, RmSocket, RmVivid, RmRegistry, RmUnlink
<1>5. ASSUME NEW s \in Servers, Clears(s) PROVE OneRecord'
    BY <1>5 DEF Clears, Recheck, Endpoints, Endpoints2
<1>6. ASSUME NEW s \in Servers, Serves(s) PROVE OneRecord'
    BY <1>6 DEF Serves, Bind, Register, Load, Ready, EndServing, CallRemove
<1>7. ASSUME NEW s \in Servers, Crash(s) PROVE OneRecord'
    BY <1>7 DEF Crash
<1>. QED
    BY AsideSteps, <1>1, <1>2, <1>3, <1>4, <1>5, <1>6, <1>7
    DEF Next, Main, Launches, Inspects, Removes, Clears, Serves

\* No server gets past a record without a birth whose process number is in use.
LEMMA StepOlder == RefusalInv /\ [Next]_vars => OlderRecordStops'
<1>. SUFFICES ASSUME RefusalInv, [Next]_vars PROVE OlderRecordStops'
    OBVIOUS
<1>. USE DEF RefusalInv, OlderRecordStops, NumberAlone, OneRecord, Returns, TypeOK, Step, PreBind, Over,
        Removing, Record, NoRecord, Process, artifacts_exist, read_registry,
        registry_process_matches, Goto, NoCall, KeepOthers, files, env, actor, ghosts
<1>1. CASE Aside
    BY <1>1 DEF Aside
<1>2. ASSUME NEW s \in Servers, Launches(s) PROVE OlderRecordStops'
  <2>1. /\ \A t \in Servers : pc'[t] = pc[t] \/ pc'[t] \in {"exists", "spawn", "check"}
        /\ UNCHANGED <<registry, legacy, pid_reused>>
    BY <1>2 DEF Launches, Probe, Spawn
  <2>. QED
    BY <2>1
<1>3. ASSUME NEW s \in Servers, Inspects(s) PROVE OlderRecordStops'
  <2>. SUFFICES ASSUME NumberAlone' PROVE OlderRecordStops'
    OBVIOUS
  <2>1. NumberAlone
    <3>1. CASE Discard(s)
      BY <3>1 DEF Discard
    <3>2. CASE Check(s) \/ Connect(s) \/ Unusable(s) \/ Inspect(s)
      <4>1. UNCHANGED <<registry, legacy, pid_reused>>
        BY <3>2 DEF Check, Connect, Unusable, Inspect
      <4>. QED
        BY <4>1
    <3>. QED
      BY <1>3, <3>1, <3>2 DEF Inspects
  <2>2. CASE Check(s) \/ Connect(s)
    BY <2>1, <2>2 DEF Check, Connect
  <2>3. CASE Unusable(s) \/ Discard(s)
    BY <2>1, <2>3 DEF Unusable, Discard
  <2>4. CASE Inspect(s)
    BY <2>1, <2>4 DEF Inspect
  <2>. QED
    BY <1>3, <2>2, <2>3, <2>4 DEF Inspects
<1>4. ASSUME NEW s \in Servers, Removes(s) PROVE OlderRecordStops'
  <2>. SUFFICES ASSUME NumberAlone' PROVE FALSE
    OBVIOUS
  <2>1. pc[s] \in Removing
    BY <1>4 DEF Removes, RmRead, RmSocket, RmVivid, RmRegistry, RmUnlink
  <2>2. NumberAlone
    <3>1. CASE RmUnlink(s)
      BY <3>1 DEF RmUnlink
    <3>2. CASE RmRead(s) \/ RmSocket(s) \/ RmVivid(s) \/ RmRegistry(s)
      <4>1. UNCHANGED <<registry, legacy, pid_reused>>
        BY <3>2 DEF RmRead, RmSocket, RmVivid, RmRegistry
      <4>. QED
        BY <4>1
    <3>. QED
      BY <1>4, <3>1, <3>2 DEF Removes
  <2>. QED
    BY <2>1, <2>2
<1>5. ASSUME NEW s \in Servers, Clears(s) PROVE OlderRecordStops'
    BY <1>5 DEF Clears, Recheck, Endpoints, Endpoints2
<1>6. ASSUME NEW s \in Servers, Serves(s) PROVE OlderRecordStops'
  <2>. SUFFICES ASSUME NumberAlone' PROVE FALSE
    OBVIOUS
  <2>1. pc[s] \in Bound \cup {"bind"}
    BY <1>6 DEF Serves, Bind, Register, Load, Ready, EndServing, Bound
  <2>2. NumberAlone
    <3>1. registry' = registry \/ registry' = Record(s)
      BY <1>6 DEF Serves, Bind, Register, Load, Ready, EndServing
    <3>2. legacy' = legacy /\ pid_reused' = pid_reused
      BY <1>6 DEF Serves, Bind, Register, Load, Ready, EndServing
    <3>. QED
      BY <3>1, <3>2
  <2>. QED
    BY <2>1, <2>2 DEF Bound
<1>7. ASSUME NEW s \in Servers, Crash(s) PROVE OlderRecordStops'
    BY <1>7 DEF Crash
<1>. QED
    BY AsideSteps, <1>1, <1>2, <1>3, <1>4, <1>5, <1>6, <1>7
    DEF Next, Main, Launches, Inspects, Removes, Clears, Serves

\* A start meets every server that runs when it begins or begins while it starts.
LEMMA StepMet == RefusalInv /\ [Next]_vars => OthersMet'
<1>. SUFFICES ASSUME RefusalInv, [Next]_vars PROVE OthersMet'
    OBVIOUS
<1>. USE DEF RefusalInv, OthersMet, Returns, TypeOK, Step, PreBind, Over, Removing, Process,
        Starting, Alive, Goto, NoCall, KeepOthers, files, env, actor, ghosts
<1>1. CASE Aside
    BY <1>1 DEF Aside
<1>2. ASSUME NEW s \in Servers, Launches(s) PROVE OthersMet'
  <2>1. CASE Probe(s)
    BY <2>1 DEF Probe
  <2>2. CASE Spawn(s)
    <3>. SUFFICES ASSUME NEW t \in Servers, NEW p \in (Servers \cup {Old}) \ {t},
                         Starting(t)', Alive(p)'
                  PROVE  met'[t]
      OBVIOUS
    <3>1. CASE t = s
      <4>1. Alive(p)
        BY <2>2, <3>1 DEF Spawn
      <4>. QED
        BY <2>2, <3>1, <4>1 DEF Spawn
    <3>2. CASE t # s
      <4>1. Starting(t)
        BY <2>2, <3>2 DEF Spawn
      <4>. QED
        BY <2>2, <3>2, <4>1 DEF Spawn
    <3>. QED
      BY <3>1, <3>2
  <2>. QED
    BY <1>2, <2>1, <2>2 DEF Launches
<1>3. ASSUME NEW s \in Servers, Inspects(s) PROVE OthersMet'
    BY <1>3 DEF Inspects, Check, Connect, Unusable, Discard, Inspect, CallRemove
<1>4. ASSUME NEW s \in Servers, Removes(s) PROVE OthersMet'
    BY <1>4 DEF Removes, RmRead, RmSocket, RmVivid, RmRegistry, RmUnlink
<1>5. ASSUME NEW s \in Servers, Clears(s) PROVE OthersMet'
    BY <1>5 DEF Clears, Recheck, Endpoints, Endpoints2
<1>6. ASSUME NEW s \in Servers, Serves(s) PROVE OthersMet'
    BY <1>6 DEF Serves, Bind, Register, Load, Ready, EndServing, CallRemove
<1>7. ASSUME NEW s \in Servers, Crash(s) PROVE OthersMet'
    BY <1>7 DEF Crash
<1>. QED
    BY AsideSteps, <1>1, <1>2, <1>3, <1>4, <1>5, <1>6, <1>7
    DEF Next, Main, Launches, Inspects, Removes, Clears, Serves

\* The files change only at the hands of servers that run, so a start that met
\* nobody removes all there is.
LEMMA StepAlone == RefusalInv /\ [Next]_vars => AloneCleans'
<1>. SUFFICES ASSUME RefusalInv, [Next]_vars PROVE AloneCleans'
    OBVIOUS
<1>. USE DEF RefusalInv, AloneCleans, OthersMet, OneRecord, Returns, TypeOK, Step, PreBind,
        Over, Removing, Process, Starting, Alive, artifacts_exist, read_registry, Record,
        NoRecord, Goto, NoCall, KeepOthers, files, env, actor, ghosts
<1>1. CASE Aside
    BY <1>1 DEF Aside
<1>2. ASSUME NEW s \in Servers, Launches(s) PROVE AloneCleans'
    BY <1>2 DEF Launches, Probe, Spawn
<1>3. ASSUME NEW s \in Servers, Inspects(s) PROVE AloneCleans'
    BY <1>3 DEF Inspects, Check, Connect, Unusable, Discard, Inspect, CallRemove
<1>4. ASSUME NEW s \in Servers, Removes(s) PROVE AloneCleans'
    BY <1>4 DEF Removes, RmRead, RmSocket, RmVivid, RmRegistry, RmUnlink
<1>5. ASSUME NEW s \in Servers, Clears(s) PROVE AloneCleans'
    BY <1>5 DEF Clears, Recheck, Endpoints, Endpoints2
<1>6. ASSUME NEW s \in Servers, Serves(s) PROVE AloneCleans'
    BY <1>6 DEF Serves, Bind, Register, Load, Ready, EndServing, CallRemove
<1>7. ASSUME NEW s \in Servers, Crash(s) PROVE AloneCleans'
    BY <1>7 DEF Crash
<1>. QED
    BY AsideSteps, <1>1, <1>2, <1>3, <1>4, <1>5, <1>6, <1>7
    DEF Next, Main, Launches, Inspects, Removes, Clears, Serves

\* A start that is refused met a server, or a record without a birth.
LEMMA StepRefused == RefusalInv /\ [Next]_vars => RefusedMet'
<1>. SUFFICES ASSUME RefusalInv, [Next]_vars PROVE RefusedMet'
    OBVIOUS
<1>. USE DEF RefusalInv, RefusedMet, OlderRecordStops, NumberAlone, FilesOfBound, AloneCleans, OthersMet,
        OneRecord, Returns, TypeOK, Step, PreBind, Over, Removing, Process, Starting, Alive,
        artifacts_exist, read_registry, registry_process_matches, Connectable, Record,
        NoRecord, Goto, NoCall, KeepOthers, files, env, actor, ghosts
<1>1. CASE Aside
    BY <1>1 DEF Aside
<1>2. ASSUME NEW s \in Servers, Launches(s) PROVE RefusedMet'
    BY <1>2 DEF Launches, Probe, Spawn
<1>3. ASSUME NEW s \in Servers, Inspects(s) PROVE RefusedMet'
  <2>. SUFFICES ASSUME NEW t \in Servers, pc'[t] = "refused"
                PROVE  met'[t] \/ NumberAlone'
    OBVIOUS
  <2>1. UNCHANGED met /\ (NumberAlone => NumberAlone')
    BY <1>3 DEF Inspects, Check, Connect, Unusable, Discard, Inspect, CallRemove
  <2>2. CASE pc[t] = "refused"
    BY <2>1, <2>2
  <2>3. CASE pc[t] # "refused"
    <3>1. t = s /\ Starting(s) /\ socket # s /\ registry.by # s
      BY <1>3, <2>3 DEF Inspects, Check, Connect, Unusable, Discard, Inspect, CallRemove
    <3>2. CASE Connect(s)
      BY <2>1, <3>1, <3>2 DEF Connect
    <3>3. ASSUME registry_process_matches(read_registry)
          PROVE  met[s] \/ NumberAlone
      BY <3>1, <3>3
    <3>. QED
      BY <1>3, <2>1, <2>3, <3>1, <3>2, <3>3
      DEF Inspects, Check, Unusable, Discard, Inspect, CallRemove
  <2>. QED
    BY <2>2, <2>3
<1>4. ASSUME NEW s \in Servers, Removes(s) PROVE RefusedMet'
    BY <1>4 DEF Removes, RmRead, RmSocket, RmVivid, RmRegistry, RmUnlink
<1>5. ASSUME NEW s \in Servers, Clears(s) PROVE RefusedMet'
    BY <1>5 DEF Clears, Recheck, Endpoints, Endpoints2
<1>6. ASSUME NEW s \in Servers, Serves(s) PROVE RefusedMet'
    BY <1>6 DEF Serves, Bind, Register, Load, Ready, EndServing, CallRemove
<1>7. ASSUME NEW s \in Servers, Crash(s) PROVE RefusedMet'
    BY <1>7 DEF Crash
<1>. QED
    BY AsideSteps, <1>1, <1>2, <1>3, <1>4, <1>5, <1>6, <1>7
    DEF Next, Main, Launches, Inspects, Removes, Clears, Serves

\* A second start at the same time is an overlap.
LEMMA StepApart == LifeInv /\ ~overlapped' /\ [Next]_vars => StartsApart'
<1>. SUFFICES ASSUME LifeInv /\ ~overlapped', [Next]_vars PROVE StartsApart'
    OBVIOUS
<1>. USE DEF LifeInv, RefusalInv, OwnerInv, StartsApart, Returns, TypeOK, Step, PreBind,
        Over, Removing, Starting, Goto, NoCall, KeepOthers, files, env, actor, ghosts
<1>1. CASE Aside
    BY <1>1 DEF Aside
<1>2. ASSUME NEW s \in Servers, Launches(s) PROVE StartsApart'
  <2>1. CASE Probe(s)
    BY <2>1 DEF Probe
  <2>2. CASE Spawn(s)
    <3>1. \A t \in Servers \ {s} : ~Starting(t)
      BY <2>2 DEF Spawn
    <3>2. \A t \in Servers : Starting(t)' => t = s
      BY <2>2, <3>1 DEF Spawn
    <3>. QED
      BY <3>2
  <2>. QED
    BY <1>2, <2>1, <2>2 DEF Launches
<1>3. ASSUME NEW s \in Servers, Inspects(s) PROVE StartsApart'
    BY <1>3 DEF Inspects, Check, Connect, Unusable, Discard, Inspect, CallRemove
<1>4. ASSUME NEW s \in Servers, Removes(s) PROVE StartsApart'
    BY <1>4 DEF Removes, RmRead, RmSocket, RmVivid, RmRegistry, RmUnlink
<1>5. ASSUME NEW s \in Servers, Clears(s) PROVE StartsApart'
    BY <1>5 DEF Clears, Recheck, Endpoints, Endpoints2
<1>6. ASSUME NEW s \in Servers, Serves(s) PROVE StartsApart'
    BY <1>6 DEF Serves, Bind, Register, Load, Ready, EndServing, CallRemove
<1>7. ASSUME NEW s \in Servers, Crash(s) PROVE StartsApart'
    BY <1>7 DEF Crash
<1>. QED
    BY AsideSteps, <1>1, <1>2, <1>3, <1>4, <1>5, <1>6, <1>7
    DEF Next, Main, Launches, Inspects, Removes, Clears, Serves

\* No step of a start or of another server's end removes what a server bound or
\* registered.
LEMMA StepBound == LifeInv /\ ~overlapped' /\ [Next]_vars => BoundOwns'
<1>. SUFFICES ASSUME LifeInv /\ ~overlapped', [Next]_vars PROVE BoundOwns'
    OBVIOUS
<1>. USE DEF LifeInv, RefusalInv, OwnerInv, StartsApart, BoundOwns, EndingOwns,
        CleansTheDead, FilesOfBound, Returns, TypeOK, Step, PreBind, Over, Removing,
        Cleaned, Bound, Starting, Ending, Alive, Connectable, Record, NoRecord, Process,
        Goto, NoCall, KeepOthers, files, env, actor, ghosts
<1>1. CASE Aside
    BY <1>1 DEF Aside
<1>2. ASSUME NEW s \in Servers, Launches(s) PROVE BoundOwns'
    BY <1>2 DEF Launches, Probe, Spawn
<1>3. ASSUME NEW s \in Servers, Inspects(s) PROVE BoundOwns'
    BY <1>3 DEF Inspects, Check, Connect, Unusable, Discard, Inspect, CallRemove
<1>4. ASSUME NEW s \in Servers, Removes(s) PROVE BoundOwns'
    BY <1>4 DEF Removes, RmRead, RmSocket, RmVivid, RmRegistry, RmUnlink
<1>5. ASSUME NEW s \in Servers, Clears(s) PROVE BoundOwns'
    BY <1>5 DEF Clears, Recheck, Endpoints, Endpoints2
<1>6. ASSUME NEW s \in Servers, Serves(s) PROVE BoundOwns'
    BY <1>6 DEF Serves, Bind, Register, Load, Ready, EndServing, CallRemove
<1>7. ASSUME NEW s \in Servers, Crash(s) PROVE BoundOwns'
    BY <1>7 DEF Crash
<1>. QED
    BY AsideSteps, <1>1, <1>2, <1>3, <1>4, <1>5, <1>6, <1>7
    DEF Next, Main, Launches, Inspects, Removes, Clears, Serves

\* The files a server leaves with are its own until it has removed them.
LEMMA StepEnding == LifeInv /\ ~overlapped' /\ [Next]_vars => EndingOwns'
<1>. SUFFICES ASSUME LifeInv /\ ~overlapped', [Next]_vars PROVE EndingOwns'
    OBVIOUS
<1>. USE DEF LifeInv, RefusalInv, OwnerInv, StartsApart, BoundOwns, EndingOwns,
        CleansTheDead, FilesOfBound, Returns, TypeOK, Step, PreBind, Over, Removing,
        Cleaned, Bound, Starting, Ending, Alive, Connectable, Record, NoRecord, Process,
        Goto, NoCall, KeepOthers, files, env, actor, ghosts
<1>1. CASE Aside
    BY <1>1 DEF Aside
<1>2. ASSUME NEW s \in Servers, Launches(s) PROVE EndingOwns'
    BY <1>2 DEF Launches, Probe, Spawn
<1>3. ASSUME NEW s \in Servers, Inspects(s) PROVE EndingOwns'
    BY <1>3 DEF Inspects, Check, Connect, Unusable, Discard, Inspect, CallRemove
<1>4. ASSUME NEW s \in Servers, Removes(s) PROVE EndingOwns'
    BY <1>4 DEF Removes, RmRead, RmSocket, RmVivid, RmRegistry, RmUnlink
<1>5. ASSUME NEW s \in Servers, Clears(s) PROVE EndingOwns'
    BY <1>5 DEF Clears, Recheck, Endpoints, Endpoints2
<1>6. ASSUME NEW s \in Servers, Serves(s) PROVE EndingOwns'
    BY <1>6 DEF Serves, Bind, Register, Load, Ready, EndServing, CallRemove
<1>7. ASSUME NEW s \in Servers, Crash(s) PROVE EndingOwns'
    BY <1>7 DEF Crash
<1>. QED
    BY AsideSteps, <1>1, <1>2, <1>3, <1>4, <1>5, <1>6, <1>7
    DEF Next, Main, Launches, Inspects, Removes, Clears, Serves

\* A server that starts does not find a live one behind what it cleans, and none
\* gets there later: the only servers that bind and register are those that start.
LEMMA StepDead == LifeInv /\ ~overlapped' /\ [Next]_vars => CleansTheDead'
<1>. SUFFICES ASSUME LifeInv /\ ~overlapped', [Next]_vars PROVE CleansTheDead'
    OBVIOUS
<1>. USE DEF LifeInv, RefusalInv, OwnerInv, StartsApart, BoundOwns, EndingOwns,
        CleansTheDead, FilesOfBound, OneRecord, Returns, TypeOK, Step, PreBind, Over,
        Removing, Cleaned, Bound, Starting, Ending, Alive, Connectable, Record, NoRecord,
        Process, read_registry, registry_process_matches, artifacts_exist, Goto, NoCall,
        KeepOthers, files, env, actor, ghosts
<1>1. CASE Aside
    BY <1>1 DEF Aside
<1>2. ASSUME NEW s \in Servers, Launches(s) PROVE CleansTheDead'
    BY <1>2 DEF Launches, Probe, Spawn
<1>3. ASSUME NEW s \in Servers, Inspects(s) PROVE CleansTheDead'
    BY <1>3 DEF Inspects, Check, Connect, Unusable, Discard, Inspect, CallRemove
<1>4. ASSUME NEW s \in Servers, Removes(s) PROVE CleansTheDead'
    BY <1>4 DEF Removes, RmRead, RmSocket, RmVivid, RmRegistry, RmUnlink
<1>5. ASSUME NEW s \in Servers, Clears(s) PROVE CleansTheDead'
    BY <1>5 DEF Clears, Recheck, Endpoints, Endpoints2
<1>6. ASSUME NEW s \in Servers, Serves(s) PROVE CleansTheDead'
    BY <1>6 DEF Serves, Bind, Register, Load, Ready, EndServing, CallRemove
<1>7. ASSUME NEW s \in Servers, Crash(s) PROVE CleansTheDead'
    BY <1>7 DEF Crash
<1>. QED
    BY AsideSteps, <1>1, <1>2, <1>3, <1>4, <1>5, <1>6, <1>7
    DEF Next, Main, Launches, Inspects, Removes, Clears, Serves

\* remove_instance removes both files before the server ends.
LEMMA StepExited == LifeInv /\ ~overlapped' /\ [Next]_vars => ExitedCleanly'
<1>. SUFFICES ASSUME LifeInv /\ ~overlapped', [Next]_vars PROVE ExitedCleanly'
    OBVIOUS
<1>. USE DEF LifeInv, RefusalInv, OwnerInv, StartsApart, BoundOwns, EndingOwns,
        CleansTheDead, ExitedCleanly, FilesOfBound, OneRecord, Returns, TypeOK, Step,
        PreBind, Over, Removing, Cleaned, Bound, Starting, Ending, Alive, Connectable,
        Record, NoRecord, Process, read_registry, registry_process_matches, artifacts_exist,
        Goto, NoCall, KeepOthers, files, env, actor, ghosts
<1>1. CASE Aside
    BY <1>1 DEF Aside
<1>2. ASSUME NEW s \in Servers, Launches(s) PROVE ExitedCleanly'
    BY <1>2 DEF Launches, Probe, Spawn
<1>3. ASSUME NEW s \in Servers, Inspects(s) PROVE ExitedCleanly'
    BY <1>3 DEF Inspects, Check, Connect, Unusable, Discard, Inspect, CallRemove
<1>4. ASSUME NEW s \in Servers, Removes(s) PROVE ExitedCleanly'
  <2>. SUFFICES ASSUME NEW t \in Servers, pc'[t] = "exited"
                PROVE  socket' # t /\ registry'.by # t
    OBVIOUS
  <2>1. socket' \in {socket, NoOne} /\ registry' \in {registry, NoRecord} /\ ~overlapped
    BY <1>4 DEF Removes, RmRead, RmSocket, RmVivid, RmRegistry, RmUnlink
  <2>2. CASE pc[t] = "exited"
    <3>1. socket # t /\ registry.by # t /\ NoOne # t
      BY <2>1, <2>2
    <3>. QED
      BY <2>1, <3>1
  <2>3. CASE pc[t] # "exited"
    <3>1. t = s /\ after[s] = "exited" /\ Ending(s)
      BY <1>4, <2>3 DEF Removes, RmRead, RmSocket, RmVivid, RmRegistry, RmUnlink
    <3>2. CASE RmUnlink(s)
      BY <3>1, <3>2 DEF RmUnlink
    <3>3. CASE RmRead(s) \/ RmSocket(s) \/ RmVivid(s) \/ RmRegistry(s)
      BY <2>3, <3>1, <3>3 DEF RmRead, RmSocket, RmVivid, RmRegistry
    <3>. QED
      BY <1>4, <3>2, <3>3 DEF Removes
  <2>. QED
    BY <2>2, <2>3
<1>5. ASSUME NEW s \in Servers, Clears(s) PROVE ExitedCleanly'
    BY <1>5 DEF Clears, Recheck, Endpoints, Endpoints2
<1>6. ASSUME NEW s \in Servers, Serves(s) PROVE ExitedCleanly'
    BY <1>6 DEF Serves, Bind, Register, Load, Ready, EndServing, CallRemove
<1>7. ASSUME NEW s \in Servers, Crash(s) PROVE ExitedCleanly'
    BY <1>7 DEF Crash
<1>. QED
    BY AsideSteps, <1>1, <1>2, <1>3, <1>4, <1>5, <1>6, <1>7
    DEF Next, Main, Launches, Inspects, Removes, Clears, Serves

\* The records that servers write are records.
LEMMA RecordTypes ==
    /\ NoRecord \in [by : Process, usable : BOOLEAN, birth : BOOLEAN]
    /\ NoRecord \in [by : {Old, NoOne}, usable : {TRUE}, birth : BOOLEAN]
    /\ \A p \in Process : Record(p) \in [by : Process, usable : BOOLEAN, birth : BOOLEAN]
BY DEF NoRecord, Record, Process

\* Every step keeps the types.
LEMMA StepType == RefusalInv /\ [Next]_vars => TypeOK'
<1>. SUFFICES ASSUME RefusalInv, [Next]_vars PROVE TypeOK'
    OBVIOUS
<1>. DEFINE Places == /\ pc \in [Servers -> Step]
                      /\ victim \in [Servers -> Process]
                      /\ after \in [Servers -> {"off", "recheck", "exited", "failed"}]
            Files == /\ socket \in Process /\ vivid \in Process
                     /\ registry \in [by : Process, usable : BOOLEAN, birth : BOOLEAN]
                     /\ legacy \in [by : {Old, NoOne}, usable : {TRUE}, birth : BOOLEAN]
            World == /\ old_alive \in BOOLEAN /\ pid_reused \in BOOLEAN
                     /\ met \in [Servers -> BOOLEAN] /\ overlapped \in BOOLEAN
            Session == /\ launcher \in [Servers -> {"none", "waiting", "done"}]
                       /\ pane \in [Servers -> {"none", "running", "hup", "stubborn", "dead"}]
                       /\ shutdown \in [Servers -> BOOLEAN]
<1>. USE DEF RefusalInv, TypeOK, Goto, NoCall, KeepOthers, KeepProcess, files, env, actor, ghosts
<1>1. CASE UNCHANGED vars
    BY <1>1 DEF vars
<1>2. CASE OldEnds
  <2>1. old_alive' \in BOOLEAN
    BY <1>2, Zenon DEF OldEnds
  <2>. QED
    BY <1>2, <2>1 DEF OldEnds
<1>3. ASSUME NEW s \in Servers, LauncherHears(s) \/ LauncherTimesOut(s) PROVE TypeOK'
    BY <1>3 DEF LauncherHears, LauncherTimesOut
<1>4. ASSUME NEW s \in Servers, Kill(s) \/ Actor(s) \/ LastPaneExits(s) \/ HangUp(s) PROVE TypeOK'
  <2>1. Places' /\ World' /\ launcher' = launcher
    BY <1>4 DEF Kill, Actor, ActorHup, ActorKill, PresenterDrops, LastPaneExits, HangUp
  <2>2. Files'
    BY <1>4 DEF Kill, Actor, ActorHup, ActorKill, PresenterDrops, LastPaneExits, HangUp, Process
  <2>3. pane' \in [Servers -> {"none", "running", "hup", "stubborn", "dead"}]
    BY <1>4 DEF Kill, Actor, ActorHup, ActorKill, PresenterDrops, LastPaneExits, HangUp
  <2>4. shutdown' = shutdown \/ shutdown' = [shutdown EXCEPT ![s] = TRUE]
    BY <1>4 DEF Kill, Actor, ActorHup, ActorKill, PresenterDrops, LastPaneExits, HangUp
  <2>5. shutdown' \in [Servers -> BOOLEAN]
    BY <2>4, Zenon
  <2>. QED
    BY <2>1, <2>2, <2>3, <2>5
<1>5. ASSUME NEW s \in Servers, Main(s) \/ EndServing(s) \/ Crash(s) PROVE TypeOK'
  <2>1. CASE Launches(s)
    <3>1. Places'
      BY <2>1 DEF Launches, Probe, Spawn, Step, PreBind, Over
    <3>5. Files'
      BY <2>1 DEF Launches, Probe, Spawn
    <3>4. Session'
      BY <2>1 DEF Launches, Probe, Spawn
    <3>2. met' \in [Servers -> BOOLEAN]
      <4>1. CASE Probe(s)
        BY <4>1 DEF Probe
      <4>2. CASE Spawn(s)
        <5>. DEFINE meets(t) == \/ met[t] \/ t \in {u \in Servers \ {s} : Starting(u)}
                                \/ t = s /\ \E p \in (Servers \cup {Old}) \ {s} : Alive(p)
        <5>1. met' = [t \in Servers |-> meets(t)]
          BY <4>2 DEF Spawn
        <5>2. \A t \in Servers : meets(t) \in BOOLEAN
          OBVIOUS
        <5>. HIDE DEF meets
        <5>. QED
          BY <5>1, <5>2, Zenon
      <4>. QED
        BY <2>1, <4>1, <4>2 DEF Launches
    <3>3. overlapped' \in BOOLEAN
      BY <2>1, Zenon DEF Launches, Probe, Spawn
    <3>. QED
      BY <2>1, <3>1, <3>2, <3>3, <3>4, <3>5 DEF Launches, Probe, Spawn
  <2>2. CASE Inspects(s)
    <3>1. Places'
      BY <2>2 DEF Inspects, Check, Connect, Unusable, Discard, Inspect, CallRemove,
          read_registry, Step, PreBind, Over, Process
    <3>2. Files' /\ World' /\ Session'
      <4>1. /\ registry' \in {registry, NoRecord} /\ legacy' \in {legacy, NoRecord}
            /\ UNCHANGED <<socket, vivid, env, ghosts, launcher, actor>>
        BY <2>2 DEF Inspects, Check, Connect, Unusable, Discard, Inspect
      <4>. QED
        BY <4>1, RecordTypes
    <3>. QED
      BY <3>1, <3>2
  <2>3. CASE Removes(s)
    <3>1. Places'
      BY <2>3 DEF Removes, RmRead, RmSocket, RmVivid, RmRegistry, RmUnlink, Step, PreBind, Over
    <3>2. Files' /\ World' /\ Session'
      <4>1. /\ registry' \in {registry, NoRecord} /\ legacy' \in {legacy, NoRecord}
            /\ socket' \in {socket, NoOne} /\ vivid' \in {vivid, NoOne}
            /\ UNCHANGED <<env, ghosts, launcher, actor>>
        BY <2>3 DEF Removes, RmRead, RmSocket, RmVivid, RmRegistry, RmUnlink
      <4>2. NoOne \in Process
        BY DEF Process
      <4>. QED
        BY <4>1, <4>2, RecordTypes
    <3>. QED
      BY <3>1, <3>2
  <2>4. CASE Clears(s)
    <3>1. Places'
      BY <2>4 DEF Clears, Recheck, Endpoints, Endpoints2, Step, PreBind, Over
    <3>2. Files' /\ World' /\ Session'
      <4>1. /\ socket' \in {socket, NoOne} /\ vivid' \in {vivid, NoOne}
            /\ UNCHANGED <<registry, legacy, env, ghosts, launcher, actor>>
        BY <2>4 DEF Clears, Recheck, Endpoints, Endpoints2
      <4>2. NoOne \in Process
        BY DEF Process
      <4>. QED
        BY <4>1, <4>2
    <3>. QED
      BY <3>1, <3>2
  <2>5. CASE Serves(s)
    <3>1. Places'
      BY <2>5 DEF Serves, Bind, Register, Load, Ready, EndServing, CallRemove, Step, PreBind, Over,
          Process
    <3>2. Files' /\ World'
      <4>1. /\ registry' \in {registry, Record(s)} /\ legacy' = legacy
            /\ socket' \in {socket, s} /\ vivid' \in {vivid, s}
            /\ UNCHANGED <<env, ghosts>>
        BY <2>5 DEF Serves, Bind, Register, Load, Ready, EndServing
      <4>2. s \in Process
        BY DEF Process
      <4>. QED
        BY <4>1, <4>2, RecordTypes
    <3>3. Session'
      BY <2>5 DEF Serves, Bind, Register, Load, Ready, EndServing
    <3>. QED
      BY <3>1, <3>2, <3>3
  <2>6. CASE Crash(s)
    BY <2>6 DEF Crash, Step, PreBind, Over
  <2>. QED
    BY <1>5, <2>1, <2>2, <2>3, <2>4, <2>5, <2>6
    DEF Main, Launches, Inspects, Removes, Clears, Serves
<1>. QED
    BY <1>1, <1>2, <1>3, <1>4, <1>5 DEF Next

----------------------------------------------------------------------------
(* The theorems. *)

\* Whatever an earlier server left, nobody has started.
LEMMA InitLife == Init => LifeInv
<1>. SUFFICES ASSUME Init PROVE LifeInv
    OBVIOUS
<1>1. \A s \in Servers : pc[s] = "off" /\ after[s] = "off" /\ ~Starting(s) /\ ~Ending(s)
    BY DEF Init, Starting, Ending, PreBind, Removing
<1>2. /\ socket \in {Old, NoOne} /\ registry.by \in {Old, NoOne}
      /\ registry.by # NoOne => legacy.by = NoOne
    BY DEF Init, NoRecord, Record
<1>3. TypeOK
  <2>1. /\ old_alive \in BOOLEAN /\ pid_reused \in BOOLEAN /\ overlapped \in BOOLEAN
        /\ met \in [Servers -> BOOLEAN] /\ shutdown \in [Servers -> BOOLEAN]
    BY Zenon DEF Init
  <2>2. /\ registry \in [by : Process, usable : BOOLEAN, birth : BOOLEAN]
        /\ legacy \in [by : {Old, NoOne}, usable : {TRUE}, birth : BOOLEAN]
    <3>1. /\ registry \in [by : {Old}, usable : BOOLEAN, birth : BOOLEAN] \cup {NoRecord}
          /\ legacy \in {OlderRecord, NoRecord}
      BY DEF Init
    <3>2. /\ [by : {Old}, usable : BOOLEAN, birth : BOOLEAN] \subseteq [by : Process, usable : BOOLEAN, birth : BOOLEAN]
          /\ OlderRecord \in [by : {Old, NoOne}, usable : {TRUE}, birth : BOOLEAN]
      BY DEF Process, OlderRecord
    <3>. QED
      BY <3>1, <3>2, RecordTypes
  <2>. QED
    BY <2>1, <2>2 DEF Init, TypeOK, Step, PreBind, Over, Process
<1>4. RefusalInv
    BY <1>1, <1>2, <1>3 DEF RefusalInv, Returns, FilesOfBound, OneRecord, OlderRecordStops,
        OthersMet, AloneCleans, RefusedMet, Removing, Cleaned, Bound
<1>5. OwnerInv
    BY <1>1 DEF OwnerInv, StartsApart, BoundOwns, EndingOwns, CleansTheDead, ExitedCleanly, Bound
<1>. QED
    BY <1>4, <1>5 DEF LifeInv

\* The strengthening holds in every reachable state.
LEMMA LifeIsInvariant == Spec => []LifeInv
<1>1. LifeInv /\ [Next]_vars => RefusalInv'
    BY StepType, StepReturns, StepFilesOfBound, StepOneRecord, StepOlder, StepMet, StepAlone,
       StepRefused
    DEF LifeInv, RefusalInv
<1>2. LifeInv /\ [Next]_vars /\ ~overlapped' => OwnerInv'
    BY StepApart, StepBound, StepEnding, StepDead, StepExited DEF OwnerInv
<1>3. LifeInv /\ [Next]_vars => LifeInv'
    BY <1>1, <1>2 DEF LifeInv
<1>. QED
    BY <1>3, InitLife, PTL DEF Spec

\* However many servers start, at once or not, crash at any step, or find any
\* mixture of files left behind: one that is refused met another that was running,
\* or stopped at the record of an older build whose process number is in use.
THEOREM RefusalsAreJustified == Spec => []RefusalJustified
<1>1. LifeInv => RefusalJustified
    BY DEF LifeInv, RefusalInv, RefusedMet, OlderRecordStops, RefusalJustified
<1>. QED
    BY <1>1, LifeIsInvariant, PTL

\* For any number of servers, as long as no two start at the same time: the one
\* that serves is the only one, the files of the name are its own, and one that
\* ended in order has removed its own and nobody else's.
THEOREM ServerOwnsName == Spec => []ServingOwnsName
<1>1. LifeInv => ServingOwnsName
    BY DEF LifeInv, OwnerInv, BoundOwns, ExitedCleanly, Bound, Record, ServingOwnsName
<1>. QED
    BY <1>1, LifeIsInvariant, PTL



HIDE ServersAssumption

----------------------------------------------------------------------------
(* The gateway: who holds the session, and how long it was silent. *)

\* The type invariant, but for the number of permits.
GatewayTypes ==
    /\ phase \in [Browsers -> {"off", "auth", "idle", "asking", "replacing", "occupied",
                               "bridging", "attached", "flushing"}]
    /\ browser \in [Browsers -> {"awake", "frozen", "gone"}]
    /\ transport \subseteq Media
    /\ link \in [Browsers -> Links]
    /\ noticed \subseteq Browsers /\ detaching \subseteq Browsers /\ running \in BOOLEAN
    /\ holder \in Browsers \cup {Nobody}
    /\ since \in 0..Never
    /\ seen \in [Browsers -> 0..Stall] /\ pinged \in [Browsers -> 0..(Stall - 1)]
    /\ ticked \in [Browsers -> BOOLEAN]

\* The permits in use are those of finitely many connections and Vivid sockets.
PermitsOK ==
    /\ IsFiniteSet({c \in Browsers : phase[c] # "off"}) /\ IsFiniteSet(transport)
    /\ Permitted <= Permits

\* Who is attached holds the session; and the session's client still has a
\* connection that the session has not heard the end of.
Holds ==
    /\ \A c \in Browsers :
         phase[c] \in {"bridging", "attached"} /\ c \notin noticed /\ link[c] = "open" => holder = c
    /\ holder \in Browsers =>
         /\ link[holder] = "cut" \/ phase[holder] \in {"bridging", "attached"}
         /\ link[holder] \in Uncut \cup {"cut"}

\* Each second that both a browser's silence and the oldest refusal have lasted
\* brought a ping, but for the one whose tick is due.
PingsKeepUp ==
    \A c \in Browsers :
        phase[c] = "attached" /\ since < Window =>
            LET due == IF ticked[c] THEN 0 ELSE 1
            IN  pinged[c] >= Stall - 1 \/ pinged[c] + due >= seen[c] \/ pinged[c] + due >= since

GatewayInv == GatewayTypes /\ Holds /\ PermitsOK /\ PingsKeepUp

\* A phase that stays on, or stays off, takes no permit.
LEMMA SamePermits ==
    ASSUME PermitsOK, transport' \subseteq transport,
           \A c \in Browsers : phase'[c] # "off" => phase[c] # "off"
    PROVE  PermitsOK'
<1>. DEFINE on == {c \in Browsers : phase[c] # "off"}
            onn == {c \in Browsers : phase'[c] # "off"}
<1>1. IsFiniteSet(on) /\ IsFiniteSet(transport) /\ Cardinality(on) + Cardinality(transport) <= Permits
    BY DEF PermitsOK, Permitted
<1>2. onn \subseteq on
    OBVIOUS
<1>3. IsFiniteSet(onn) /\ IsFiniteSet(transport')
      /\ Cardinality(onn) <= Cardinality(on) /\ Cardinality(transport') <= Cardinality(transport)
    BY <1>1, <1>2, FS_Subset
<1>4. Cardinality(on) \in Nat /\ Cardinality(transport) \in Nat /\ Cardinality(onn) \in Nat
      /\ Cardinality(transport') \in Nat /\ Permits \in Nat
    BY <1>1, <1>3, FS_CardinalityType, GatewayAssumption
<1>5. Cardinality(onn) + Cardinality(transport') <= Permits
    BY <1>1, <1>3, <1>4
<1>. QED
    BY <1>3, <1>5 DEF PermitsOK, Permitted

\* websocket_upgrade takes a permit only while one is left.
LEMMA ConnectPermits ==
    ASSUME PermitsOK, GatewayTypes, NEW c \in Browsers, OpenConnection(c)
    PROVE  PermitsOK'
<1>. DEFINE on == {d \in Browsers : phase[d] # "off"}
            onn == {d \in Browsers : phase'[d] # "off"}
<1>1. IsFiniteSet(on) /\ IsFiniteSet(transport) /\ Cardinality(on) + Cardinality(transport) < Permits
    BY DEF PermitsOK, Permitted, OpenConnection
<1>2. onn = on \cup {c} /\ c \notin on /\ transport' = transport
    BY DEF OpenConnection, Enter, GatewayTypes
<1>3. IsFiniteSet(onn) /\ Cardinality(onn) = Cardinality(on) + 1
    BY <1>1, <1>2, FS_AddElement
<1>4. Cardinality(on) \in Nat /\ Cardinality(transport) \in Nat /\ Permits \in Nat
    BY <1>1, FS_CardinalityType, GatewayAssumption
<1>5. Cardinality(onn) + Cardinality(transport') <= Permits
    BY <1>1, <1>2, <1>3, <1>4
<1>. QED
    BY <1>1, <1>2, <1>3, <1>5 DEF PermitsOK, Permitted

\* So does the upgrade of a Vivid socket.
LEMMA TransportPermits ==
    ASSUME PermitsOK, GatewayTypes, NEW c \in Browsers, OpenTransport(c)
    PROVE  PermitsOK'
<1>. DEFINE on == {d \in Browsers : phase[d] # "off"}
<1>1. IsFiniteSet(on) /\ IsFiniteSet(transport) /\ Cardinality(on) + Cardinality(transport) < Permits
    BY DEF PermitsOK, Permitted, OpenTransport
<1>2. on' = on /\ Cardinality(on') = Cardinality(on)
      /\ transport' = transport \cup {c} /\ c \notin transport
    BY DEF OpenTransport
<1>3. IsFiniteSet(transport') /\ Cardinality(transport') = Cardinality(transport) + 1
    BY <1>1, <1>2, FS_AddElement
<1>4. Cardinality(on) \in Nat /\ Cardinality(transport) \in Nat /\ Permits \in Nat
    BY <1>1, FS_CardinalityType, GatewayAssumption
<1>5. Cardinality(on') + Cardinality(transport') <= Permits
    BY <1>1, <1>2, <1>3, <1>4
<1>. QED
    BY <1>1, <1>2, <1>3, <1>5 DEF PermitsOK, Permitted

\* A loop that gives the session up, or ends, leaves nobody else's connection changed.
LEMMA LeaveKeeps ==
    ASSUME GatewayInv, NEW c \in Browsers, NEW p \in {"idle", "flushing"},
           phase[c] # "off", Leave(c, p), since' = since
    PROVE  GatewayInv'
<1>. USE GatewayAssumption
<1>1. GatewayTypes /\ Holds /\ PermitsOK /\ PingsKeepUp
    BY DEF GatewayInv
<1>2. GatewayTypes'
    BY <1>1 DEF GatewayTypes, Leave, Enter, Links, Uncut
<1>3. Holds'
  <2>1. \A d \in Browsers : d # c => phase'[d] = phase[d] /\ link'[d] = link[d]
    BY <1>1 DEF GatewayTypes, Leave, Enter
  <2>2. phase'[c] \notin {"bridging", "attached"} /\ noticed' = noticed \ {c} /\ holder' = holder
    BY <1>1 DEF GatewayTypes, Leave, Enter
  <2>3. link[c] \in Uncut \cup {"cut"} => link'[c] = "cut"
    BY <1>1 DEF GatewayTypes, Leave, Links, Uncut
  <2>. QED
    BY <1>1, <2>1, <2>2, <2>3 DEF Holds
<1>4. PermitsOK'
    BY <1>1, SamePermits DEF GatewayTypes, Leave, Enter
<1>5. PingsKeepUp'
    BY <1>1 DEF GatewayTypes, PingsKeepUp, Leave, Enter
<1>. QED
    BY <1>2, <1>3, <1>4, <1>5 DEF GatewayInv

\* A browser is granted the session, and the client it replaces is told.
LEMMA GrantedKeeps ==
    ASSUME GatewayInv, NEW c \in Browsers, Granted(c)
    PROVE  GatewayInv'
<1>. USE GatewayAssumption
<1>1. GatewayTypes /\ Holds /\ PermitsOK /\ PingsKeepUp
    BY DEF GatewayInv
<1>2. GatewayTypes' /\ Holds'
  <2>1. CASE holder \in Browsers
    <3>1. PICK to \in Links : /\ Notify(holder, to)
                              /\ link' = [link EXCEPT ![c] = "open", ![holder] = to]
        BY <2>1 DEF Granted
    <3>2. c # holder
        BY <1>1, <2>1 DEF Granted, Holds
    <3>3. GatewayTypes'
        BY <1>1, <2>1, <3>1, <3>2 DEF GatewayTypes, Granted, Notify, Enter, Links, clock
    <3>4. Holds'
        BY <1>1, <2>1, <3>1, <3>2 DEF GatewayTypes, Holds, Granted, Notify, Enter, Uncut
    <3>. QED
        BY <3>3, <3>4
  <2>2. CASE holder \notin Browsers
    <3>1. link' = [link EXCEPT ![c] = "open"] /\ noticed' = noticed
        BY <2>2 DEF Granted
    <3>2. GatewayTypes'
        BY <1>1, <3>1 DEF GatewayTypes, Granted, Enter, Links, clock
    <3>3. Holds'
        BY <1>1, <2>2, <3>1 DEF GatewayTypes, Holds, Granted, Enter, Uncut
    <3>. QED
        BY <3>2, <3>3
  <2>. QED
    BY <2>1, <2>2
<1>3. PermitsOK'
    BY <1>1, SamePermits DEF GatewayTypes, Granted, Enter
<1>4. PingsKeepUp'
    BY <1>1 DEF GatewayTypes, PingsKeepUp, Granted, Enter, clock
<1>. QED
    BY <1>2, <1>3, <1>4 DEF GatewayInv

\* What leaves the links, the notices and the holder as they are.
LEMMA SameLinks ==
    ASSUME GatewayInv, UNCHANGED <<link, noticed, holder>>,
           \A c \in Browsers : /\ phase[c] \in {"bridging", "attached"} <=> phase'[c] \in {"bridging", "attached"}
    PROVE  Holds'
BY DEF GatewayInv, GatewayTypes, Holds

\* A connection before it is attached: check_client_liveness does not look at it.
LEMMA ConnectionKeeps ==
    ASSUME GatewayInv, NEW c \in Browsers,
           \/ OpenConnection(c) \/ Hello(c) \/ Occupied(c) \/ Unavailable(c) \/ Flushed(c)
           \/ \E takeover \in BOOLEAN : Attach(c, takeover)
           \/ OpenTransport(c) \/ \E state \in {"awake", "frozen", "gone"} : BrowserTurns(c, state)
    PROVE  GatewayInv'
<1>. USE GatewayAssumption
<1>1. GatewayTypes /\ Holds /\ PermitsOK /\ PingsKeepUp
    BY DEF GatewayInv
<1>2. CASE \/ OpenConnection(c) \/ Hello(c) \/ Flushed(c) \/ \E takeover \in BOOLEAN : Attach(c, takeover)
  <2>1. GatewayTypes' /\ UNCHANGED <<link, noticed, holder>> /\ transport' = transport
    BY <1>1, <1>2 DEF GatewayTypes, OpenConnection, Hello, Flushed, Attach, Enter, session, clock
  <2>2. PingsKeepUp'
    BY <1>1, <1>2 DEF GatewayTypes, PingsKeepUp, OpenConnection, Hello, Flushed, Attach, Enter, clock
  <2>3. Holds'
    BY <1>1, <1>2, <2>1 DEF GatewayTypes, Holds, OpenConnection, Hello, Flushed, Attach, Enter
  <2>4. PermitsOK'
    BY <1>1, <1>2, <2>1, SamePermits, ConnectPermits DEF GatewayTypes, Hello, Flushed, Attach, Enter
  <2>. QED
    BY <2>1, <2>2, <2>3, <2>4 DEF GatewayInv
<1>3. CASE Occupied(c) \/ Unavailable(c)
  <2>1. GatewayTypes' /\ UNCHANGED <<link, noticed, holder>> /\ transport' = transport
    BY <1>1, <1>3 DEF GatewayTypes, Occupied, Unavailable, Enter, session
  <2>2. PingsKeepUp'
    BY <1>1, <1>3 DEF GatewayTypes, PingsKeepUp, Occupied, Unavailable, Enter
  <2>3. Holds'
    BY <1>1, <1>3, <2>1 DEF GatewayTypes, Holds, Occupied, Unavailable, Enter
  <2>4. PermitsOK'
    BY <1>1, <1>3, <2>1, SamePermits DEF GatewayTypes, Occupied, Unavailable, Enter
  <2>. QED
    BY <2>1, <2>2, <2>3, <2>4 DEF GatewayInv
<1>4. CASE OpenTransport(c) \/ \E state \in {"awake", "frozen", "gone"} : BrowserTurns(c, state)
  <2>1. GatewayTypes' /\ UNCHANGED <<phase, link, noticed, holder, since, seen, ticked, pinged>>
    BY <1>1, <1>4 DEF GatewayTypes, OpenTransport, BrowserTurns, session, clock
  <2>2. PingsKeepUp' /\ Holds'
    BY <1>1, <2>1 DEF PingsKeepUp, Holds
  <2>3. PermitsOK'
    BY <1>1, <1>4, <2>1, SamePermits, TransportPermits DEF BrowserTurns
  <2>. QED
    BY <2>1, <2>2, <2>3 DEF GatewayInv
<1>. QED
    BY <1>2, <1>3, <1>4

\* What starts, ends or advances the waiting of a refused browser, and the clocks of
\* the connection it waits for.
LEMMA ClockKeeps ==
    ASSUME GatewayInv, NEW c \in Browsers,
           AnswerRefusal(c) \/ Finish(c) \/ Detach(c) \/ SendPing(c) \/ BrowserSpeaks(c)
    PROVE  GatewayInv'
<1>. USE GatewayAssumption
<1>1. GatewayTypes /\ Holds /\ PermitsOK /\ PingsKeepUp
    BY DEF GatewayInv
<1>2. CASE AnswerRefusal(c)
  <2>1. GatewayTypes' /\ UNCHANGED <<link, noticed, holder>> /\ transport' = transport
    BY <1>1, <1>2 DEF GatewayTypes, AnswerRefusal, record_contention, Enter, session, Never
  <2>2. PingsKeepUp'
    BY <1>1, <1>2 DEF GatewayTypes, PingsKeepUp, AnswerRefusal, record_contention, Enter, Never
  <2>3. Holds'
    BY <1>1, <1>2, <2>1 DEF GatewayTypes, Holds, AnswerRefusal, Enter
  <2>4. PermitsOK'
    BY <1>1, <1>2, <2>1, SamePermits DEF GatewayTypes, AnswerRefusal, Enter
  <2>. QED
    BY <2>1, <2>2, <2>3, <2>4 DEF GatewayInv
<1>3. CASE Finish(c)
  <2>1. GatewayTypes' /\ UNCHANGED <<link, noticed, holder>> /\ transport' = transport
    BY <1>1, <1>3 DEF GatewayTypes, Finish, clear_contention, Enter, session, clock, Never
  <2>2. PingsKeepUp'
    BY <1>1, <1>3 DEF GatewayTypes, PingsKeepUp, Finish, clear_contention, Enter, Never
  <2>3. Holds'
    BY <1>1, <1>3, <2>1 DEF GatewayTypes, Holds, Finish, Enter
  <2>4. PermitsOK'
    BY <1>1, <1>3, <2>1, SamePermits DEF GatewayTypes, Finish, Enter
  <2>. QED
    BY <2>1, <2>2, <2>3, <2>4 DEF GatewayInv
<1>4. CASE Detach(c) \/ SendPing(c) \/ BrowserSpeaks(c)
  <2>1. UNCHANGED <<conn, link, noticed, running, holder, since>> /\ detaching' \subseteq Browsers
    BY <1>1, <1>4 DEF GatewayTypes, Detach, SendPing, BrowserSpeaks, session
  <2>2. /\ seen' \in [Browsers -> 0..Stall] /\ pinged' \in [Browsers -> 0..(Stall - 1)]
        /\ ticked' \in [Browsers -> BOOLEAN]
    <3>1. CASE Detach(c) \/ BrowserSpeaks(c)
        BY <1>1, <3>1 DEF GatewayTypes, Detach, BrowserSpeaks
    <3>2. CASE SendPing(c)
        BY <1>1, <3>2 DEF GatewayTypes, SendPing
    <3>. QED
        BY <1>4, <3>1, <3>2
  <2>3. GatewayTypes' /\ UNCHANGED <<phase, transport, link, noticed, holder>>
    BY <1>1, <2>1, <2>2 DEF GatewayTypes, conn
  <2>4. PingsKeepUp'
    BY <1>1, <1>4 DEF GatewayTypes, PingsKeepUp, Detach, SendPing, BrowserSpeaks, TickIsDue, WaitedFor, conn, session
  <2>5. Holds' /\ PermitsOK'
    BY <1>1, <2>3, SamePermits DEF Holds
  <2>. QED
    BY <2>3, <2>4, <2>5 DEF GatewayInv
<1>. QED
    BY <1>2, <1>3, <1>4

\* Every way out of the loop of an attached connection.
LEMMA LoopEndsKeeps ==
    ASSUME GatewayInv, NEW c \in Browsers,
           BridgeFails(c) \/ RecvDetached(c) \/ RecvEnd(c) \/ LoopEnds(c) \/ Yield(c)
    PROVE  GatewayInv'
<1>1. phase[c] # "off" /\ since' = since /\ \E p \in {"idle", "flushing"} : Leave(c, p)
    BY DEF BridgeFails, RecvDetached, RecvEnd, LoopEnds, Yield, TickIsDue, BackToIdle, EndLoop
<1>. QED
    BY <1>1, LeaveKeeps

\* What the session and the adapter's reader do without the loop.
LEMMA SessionKeeps ==
    ASSUME GatewayInv,
           \/ \E c \in Browsers : Overloads(c) \/ Breaks(c) \/ SessionDetaches(c) \/ SessionHearsEnd(c)
           \/ SessionEnds
    PROVE  GatewayInv'
<1>. USE GatewayAssumption
<1>1. GatewayTypes /\ Holds /\ PermitsOK /\ PingsKeepUp
    BY DEF GatewayInv
<1>2. UNCHANGED <<phase, transport, since, seen, ticked, pinged, browser>>
    BY DEF Overloads, Breaks, SessionDetaches, SessionHearsEnd, SessionEnds, conn, clock
<1>3. PermitsOK' /\ PingsKeepUp'
    BY <1>1, <1>2, SamePermits DEF PingsKeepUp
<1>4. GatewayTypes' /\ Holds'
  <2>1. CASE \E c \in Browsers : Overloads(c) \/ Breaks(c)
    BY <1>1, <1>2, <2>1 DEF GatewayTypes, Holds, Overloads, Breaks, Links, Uncut
  <2>2. CASE \E c \in Browsers : SessionDetaches(c)
    <3>1. PICK c \in Browsers : SessionDetaches(c)
        BY <2>2
    <3>2. CASE holder = c
      <4>1. PICK to \in Links : Notify(c, to) /\ link' = [link EXCEPT ![c] = to]
        BY <3>1, <3>2 DEF SessionDetaches
      <4>. QED
        BY <1>1, <1>2, <3>1, <3>2, <4>1 DEF GatewayTypes, Holds, SessionDetaches, Notify, Links, Uncut
    <3>3. CASE holder # c
        BY <1>1, <1>2, <3>1, <3>3 DEF GatewayTypes, Holds, SessionDetaches
    <3>. QED
        BY <3>2, <3>3
  <2>3. CASE \E c \in Browsers : SessionHearsEnd(c)
    BY <1>1, <1>2, <2>3 DEF GatewayTypes, Holds, SessionHearsEnd, Heard, Links, Uncut
  <2>4. CASE SessionEnds
    BY <1>1, <1>2, <2>4 DEF GatewayTypes, Holds, SessionEnds, Heard, Links, Uncut
  <2>. QED
    BY <2>1, <2>2, <2>3, <2>4
<1>. QED
    BY <1>3, <1>4 DEF GatewayInv

\* A second passes.
LEMMA SecondKeeps ==
    ASSUME GatewayInv, Second
    PROVE  GatewayInv'
<1>. USE GatewayAssumption
<1>1. GatewayTypes /\ Holds /\ PermitsOK /\ PingsKeepUp
    BY DEF GatewayInv
<1>2. UNCHANGED <<phase, transport, link, noticed, holder, pinged>>
    BY DEF Second, conn, session
<1>3. PermitsOK' /\ Holds'
    BY <1>1, <1>2, SamePermits DEF Holds
<1>4. GatewayTypes'
    BY <1>1 DEF GatewayTypes, Second, conn, session, Never
<1>5. PingsKeepUp'
  <2>. SUFFICES ASSUME NEW c \in Browsers, phase[c] = "attached", since' < Window
                PROVE  pinged[c] >= Stall - 1 \/ pinged[c] + 1 >= seen'[c] \/ pinged[c] + 1 >= since'
    BY <1>2 DEF PingsKeepUp, Second
  <2>1. ticked[c] /\ since < Window /\ since' = since + 1
    BY <1>1 DEF Second, TickIsDue, GatewayTypes, Never
  <2>2. pinged[c] >= Stall - 1 \/ pinged[c] >= seen[c] \/ pinged[c] >= since
    BY <1>1, <2>1 DEF PingsKeepUp, GatewayTypes
  <2>3. seen'[c] <= seen[c] + 1
    BY <1>1 DEF Second, GatewayTypes
  <2>. QED
    BY <1>1, <2>1, <2>2, <2>3, <1>4 DEF GatewayTypes
<1>. QED
    BY <1>3, <1>4, <1>5 DEF GatewayInv

\* The gateway starts in the inductive invariant.
LEMMA GatewayStarts == GatewayInit => GatewayInv
<1>. SUFFICES ASSUME GatewayInit PROVE GatewayTypes /\ Holds /\ PermitsOK /\ PingsKeepUp
    BY DEF GatewayInv
<1>. USE GatewayAssumption
<1>1. GatewayTypes
    BY DEF GatewayInit, GatewayTypes, Links, Never
<1>2. Holds /\ PingsKeepUp
    BY DEF GatewayInit, Holds, PingsKeepUp, Never
<1>3. {c \in Browsers : phase[c] # "off"} = {} /\ transport = {}
    BY DEF GatewayInit
<1>4. IsFiniteSet({}) /\ Cardinality({}) = 0
    BY FS_EmptySet
<1>5. PermitsOK
    BY <1>3, <1>4 DEF PermitsOK, Permitted
<1>. QED
    BY <1>1, <1>2, <1>5

\* Every step of the gateway keeps it.
LEMMA GatewayStep == GatewayInv /\ [GatewayNext]_gateway_vars => GatewayInv'
<1>. SUFFICES ASSUME GatewayInv, [GatewayNext]_gateway_vars PROVE GatewayInv'
    OBVIOUS
<1>1. CASE \E c \in Browsers : Granted(c)
    BY <1>1, GrantedKeeps
<1>2. CASE \E c \in Browsers :
             \/ OpenConnection(c) \/ Hello(c) \/ Occupied(c) \/ Unavailable(c) \/ Flushed(c)
             \/ \E takeover \in BOOLEAN : Attach(c, takeover)
             \/ OpenTransport(c)
             \/ \E state \in {"awake", "frozen", "gone"} : BrowserTurns(c, state)
    BY <1>2, ConnectionKeeps
<1>3. CASE \E c \in Browsers : \/ AnswerRefusal(c) \/ Finish(c) \/ Detach(c)
                               \/ SendPing(c) \/ BrowserSpeaks(c)
    BY <1>3, ClockKeeps
<1>4. CASE \E c \in Browsers : \/ BridgeFails(c) \/ RecvDetached(c) \/ RecvEnd(c)
                               \/ LoopEnds(c) \/ Yield(c)
    BY <1>4, LoopEndsKeeps
<1>5. CASE \/ \E c \in Browsers : Overloads(c) \/ Breaks(c) \/ SessionDetaches(c) \/ SessionHearsEnd(c)
           \/ SessionEnds
    BY <1>5, SessionKeeps
<1>6. CASE Second
    BY <1>6, SecondKeeps
<1>7. CASE UNCHANGED gateway_vars
    BY <1>7 DEF gateway_vars, conn, session, clock, GatewayInv, GatewayTypes, Holds,
                PermitsOK, PingsKeepUp, Permitted
<1>. QED
    BY <1>1, <1>2, <1>3, <1>4, <1>5, <1>6, <1>7 DEF GatewayNext, Loop, LoopTick, Answer

\* For every number of browsers and permits: the browser whose loop in handle_connection
\* is attached is the client the session has, unless its Detached is on the way, and the
\* permits are never exceeded.
THEOREM HolderKept == GatewaySpec => []HolderAgrees
<1>1. GatewayInv => HolderAgrees
    BY DEF GatewayInv, GatewayTypes, Holds, PermitsOK, HolderAgrees, GatewayTypeOK
<1>. QED
    BY <1>1, GatewayStarts, GatewayStep, PTL DEF GatewaySpec

\* check_client_liveness takes the session from a browser only after it has sent it a
\* ping in each second of CLIENT_STALL_TIMEOUT but the one that ends it.
THEOREM PingsFirst == GatewaySpec => FullIntervalOfPings
<1>1. GatewayInv /\ [GatewayNext]_gateway_vars => (\A c \in Browsers : Yield(c) => pinged[c] >= Stall - 1)
  <2>. SUFFICES ASSUME GatewayInv, NEW c \in Browsers, Yield(c) PROVE pinged[c] >= Stall - 1
    OBVIOUS
  <2>. QED
    BY GatewayAssumption DEF GatewayInv, Yield, TickIsDue, WaitedFor, PingsKeepUp, GatewayTypes
<1>. QED
    BY <1>1, GatewayStarts, GatewayStep, PTL DEF GatewaySpec, FullIntervalOfPings
=============================================================================
