---------------------------- MODULE AppProcesses ----------------------------
(***************************************************************************)
(* Service apps (app/) under the generic supervisor (core/supervisor.rs):  *)
(* the database row of an app, the child process that the manager keeps    *)
(* for it, the pool of ports, and the actors that work on them without     *)
(* excluding each other: the supervisor's ticks, the agent's tool and the  *)
(* user's requests (deploy, start, restart, stop, destroy) and the proxy,  *)
(* which wakes a hibernated app.  Each lock or database call is one step;  *)
(* a location (at) is the next call of an actor.                           *)
(***************************************************************************)
EXTENDS Naturals

CONSTANTS
    Apps, NoApp,
    Requests,           \* calls of the agent's tool and of the user's routes
    Browsers,           \* requests to the proxy
    Sup,                \* the supervisor's loop
    Ports, NoPort,      \* port_range
    MaxRestartAttempts,
    RestartPolicy       \* effective_restart_policy of each app's manifest

ASSUME AppAssumption ==
    /\ NoApp \notin Apps /\ Sup \notin Requests \cup Browsers
    /\ Ports \subseteq Nat /\ NoPort \notin Ports
    /\ MaxRestartAttempts \in Nat \ {0}
    /\ RestartPolicy \in [Apps -> {"always", "on_failure", "never"}]

VARIABLES
    row,        \* the status of every app in the app table
    proc,       \* AppManager::processes: port, child and restart_count
    allocated,  \* AppManager::allocated_ports
    act,        \* the actors
    phase,      \* where the supervisor's loop is
    todo        \* the ids its current phase has still to visit

appVars == <<row, proc, allocated, act, phase, todo>>

Actors == Requests \cup Browsers \cup {Sup}
Live == {"Running", "Starting"}
\* Absent: not created yet.  Gone: destroyed, and the id is never used again.
\* Down: Stopped or Failed.
Status == Live \cup {"Absent", "Gone", "Hibernated", "Down"}
NoProc == [port |-> NoPort, child |-> "none", restarts |-> 0]
Proc == [port : Ports, child : {"up", "failed", "exited"}, restarts : Nat] \cup {NoProc}
Places == {"idle", "next", "kill", "store", "delete", "alloc", "spawn", "failed",
           "count", "record", "watch", "try", "giveup", "forget", "fix", "fixwrite",
           "panicked"}
\* What an actor is doing; starting stands for start, restart and wake, which
\* differ only in how they begin.
Ops == {"none", "deploy", "starting", "stop", "destroy", "watch", "revive", "hibernate"}
Actor == [at : Places, op : Ops, app : Apps \cup {NoApp}, seen : Status,
          port : Ports \cup {NoPort}, count : Nat]
Busy(place, op, a, s) == [at |-> place, op |-> op, app |-> a, seen |-> s,
                          port |-> NoPort, count |-> 0]
Idle == Busy("idle", "none", NoApp, "Absent")

TypeOK ==
    /\ row \in [Apps -> Status]
    /\ proc \in [Apps -> Proc]
    /\ allocated \subseteq Ports
    /\ act \in [Actors -> Actor]
    /\ phase \in {"boot", "restore", "sleep", "health", "hibernate"}
    /\ todo \subseteq Apps

\* The server starts: rows are left from before, nothing else is.
Init ==
    /\ row \in [Apps -> Status]
    /\ proc = [a \in Apps |-> NoProc]
    /\ allocated = {}
    /\ act = [w \in Actors |-> Idle]
    /\ phase = "boot"
    /\ todo = {}

-----------------------------------------------------------------------------
Managed(a) == proc[a] # NoProc
Dead(a) == proc[a].child \in {"failed", "exited"}

\* The actor goes on at another place; an actor that ends is idle again.
Goto(w, place) == act' = [act EXCEPT ![w].at = place]
\* What follows the last call of an operation: the supervisor visits the next id.
Done(w) == act' = [act EXCEPT ![w] = IF w = Sup THEN [Idle EXCEPT !.at = "next"] ELSE Idle]
Enter(w, op, a, place) ==
    act' = [act EXCEPT ![w] = Busy(place, op, a, IF op = "deploy" THEN row[a] ELSE "Absent")]

Exists(a) == row[a] \notin {"Absent", "Gone"}
\* An update of a row that was deleted writes nothing and is no error.
SetStatus(a, s) == row' = IF Exists(a) THEN [row EXCEPT ![a] = s] ELSE row

\* Variant: the entry stays, without its child.
StopKeepsEntry(a) ==
    /\ proc' = [proc EXCEPT ![a].child = "none"]
    /\ allocated' = allocated \ {proc[a].port}
\* stop_app, under the lock of processes: kill, wait, free the port.
StopApp(a) ==
    /\ proc' = [proc EXCEPT ![a] = NoProc]
    /\ allocated' = allocated \ {proc[a].port}
\* remove_process does the same to the manager's state without a kill.
RemoveProcess(a) == StopApp(a)

-----------------------------------------------------------------------------
(* Requests: the agent's tool, the user's routes, the proxy.               *)

Deploy(w, a) ==
    /\ act[w].at = "idle"
    /\ row[a] # "Gone"
    /\ Enter(w, "deploy", a, IF row[a] \in Live THEN "kill" ELSE "store")
    /\ UNCHANGED <<row, proc, allocated, phase, todo>>

StartRequest(w, a) ==
    /\ act[w].at = "idle"
    /\ Exists(a) /\ row[a] \notin Live
    /\ Enter(w, "starting", a, "alloc")
    /\ UNCHANGED <<row, proc, allocated, phase, todo>>

RestartRequest(w, a) ==
    /\ act[w].at = "idle"
    /\ Exists(a)
    /\ Enter(w, "starting", a, IF row[a] \in Live THEN "kill" ELSE "alloc")
    /\ UNCHANGED <<row, proc, allocated, phase, todo>>

StopRequest(w, a) ==
    /\ act[w].at = "idle"
    /\ Exists(a)
    /\ Enter(w, "stop", a, "kill")
    /\ UNCHANGED <<row, proc, allocated, phase, todo>>

Destroy(w, a) ==
    /\ act[w].at = "idle"
    /\ Exists(a)
    /\ Enter(w, "destroy", a,
             IF row[a] \in Live \cup {"Hibernated"} THEN "kill" ELSE "delete")
    /\ UNCHANGED <<row, proc, allocated, phase, todo>>

\* A proxied request finds the app hibernated.
Wake(w, a) ==
    /\ act[w].at = "idle"
    /\ row[a] = "Hibernated"
    /\ Enter(w, "starting", a, "alloc")
    /\ UNCHANGED <<row, proc, allocated, phase, todo>>

\* stop_app, as a step of whichever operation calls it.
Kill(w) ==
    /\ act[w].at = "kill"
    /\ StopApp(act[w].app)
    /\ Goto(w, CASE act[w].op \in {"deploy", "stop", "hibernate"} -> "store"
                 [] act[w].op \in {"starting", "revive", "watch"} -> "alloc"
                 [] OTHER -> "delete")  \* destroy
    /\ UNCHANGED <<row, phase, todo>>

\* deploy writes the row as Starting: it creates it, which the unique handle
\* refuses when another deploy was first, or updates the one it saw.  The
\* policy's reconciliation may then fail.
StoreStarting(w) ==
    LET a == act[w].app IN
    /\ act[w].at = "store" /\ act[w].op = "deploy"
    /\ IF act[w].seen = "Absent"
       THEN row' = IF row[a] = "Absent" THEN [row EXCEPT ![a] = "Starting"] ELSE row
       ELSE SetStatus(a, "Starting")
    /\ \/ /\ act[w].seen = "Absent" => row[a] = "Absent"
          /\ act' = [act EXCEPT ![w] = Busy("alloc", "deploy", a, "Absent")]
       \/ Done(w)
    /\ UNCHANGED <<proc, allocated, phase, todo>>

StoreStopped(w) ==
    /\ act[w].at = "store" /\ act[w].op = "stop"
    /\ SetStatus(act[w].app, "Down")
    /\ Done(w)
    /\ UNCHANGED <<proc, allocated, phase, todo>>

MarkHibernated(w) ==
    /\ act[w].at = "store" /\ act[w].op = "hibernate"
    /\ SetStatus(act[w].app, "Hibernated")
    /\ Done(w)
    /\ UNCHANGED <<proc, allocated, phase, todo>>

\* The policy's reconciliation may fail and leave the row.
Delete(w) ==
    /\ act[w].at = "delete"
    /\ row' \in {row, [row EXCEPT ![act[w].app] = "Gone"]}
    /\ Done(w)
    /\ UNCHANGED <<proc, allocated, phase, todo>>

-----------------------------------------------------------------------------
(* start_app                                                               *)

\* Variant: looks at the processes and not at the set of allocated ports.
LowestUnmanaged(p) == \A a \in Apps : proc[a].port # p
LowestFree(p) == p \in Ports \ allocated /\ \A q \in Ports \ allocated : p <= q

Alloc(w) ==
    /\ act[w].at = "alloc"
    /\ \/ \E p \in Ports : LowestFree(p) /\ allocated' = allocated \cup {p}
                           /\ act' = [act EXCEPT ![w].at = "spawn", ![w].port = p]
       \/ Ports \subseteq allocated /\ Goto(w, "failed") /\ UNCHANGED allocated
    /\ UNCHANGED <<row, proc, phase, todo>>

\* The child is spawned and becomes the app's process, in place of the one it had.
Spawn(w) ==
    /\ act[w].at = "spawn"
    /\ proc' = [proc EXCEPT ![act[w].app] = [port |-> act[w].port, child |-> "up", restarts |-> 0]]
    /\ act' = [act EXCEPT ![w].at = IF act[w].count > 0 THEN "count" ELSE "record", ![w].port = NoPort]
    /\ UNCHANGED <<row, allocated, phase, todo>>

\* spawn_process fails: the port stays allocated.
SpawnFails(w) ==
    /\ act[w].at = "spawn"
    /\ act' = [act EXCEPT ![w].at = "failed", ![w].port = NoPort]
    /\ UNCHANGED <<row, proc, allocated, phase, todo>>

\* The caller of start_app writes the row; deploy_and_await goes on to watch.
Record(w) ==
    LET a == act[w].app IN
    /\ act[w].at = "record"
    /\ SetStatus(a, "Running")
    /\ IF act[w].op \in {"deploy", "watch"}
       THEN act' = [act EXCEPT ![w] = Busy("watch", "watch", a, "Absent")]
       ELSE Done(w)
    /\ UNCHANGED <<proc, allocated, phase, todo>>

\* The start failed.  The supervisor marks the app as failed at a restore only.
Failed(w) ==
    LET a == act[w].app IN
    /\ act[w].at = "failed"
    /\ CASE act[w].op \in {"deploy", "starting"} ->
              SetStatus(a, "Down") /\ Done(w)
         [] act[w].op = "watch" \/ (act[w].op = "revive" /\ phase = "restore") ->
              SetStatus(a, "Down") /\ Goto(w, "forget")
         [] OTHER -> UNCHANGED row /\ Done(w)
    /\ UNCHANGED <<proc, allocated, phase, todo>>

-----------------------------------------------------------------------------
(* try_restart_crashed, of the supervisor and of deploy_and_await.         *)

ShouldRestart(a) ==
    \/ RestartPolicy[a] = "always"
    \/ RestartPolicy[a] = "on_failure" /\ proc[a].child # "exited"

\* Variant: the limit is looked at after the restart is counted.
TryRestartPastLimit(w) ==
    LET a == act[w].app IN
    /\ act[w].at = "try"
    /\ IF Managed(a) /\ ShouldRestart(a)
       THEN /\ proc' = [proc EXCEPT ![a].restarts = @ + 1]
            /\ act' = [act EXCEPT ![w].at = "kill", ![w].count = proc[a].restarts + 1]
       ELSE Goto(w, "failed") /\ UNCHANGED proc
    /\ UNCHANGED <<row, allocated, phase, todo>>

TryRestart(w) ==
    LET a == act[w].app IN
    /\ act[w].at = "try"
    /\ IF Managed(a) /\ proc[a].restarts < MaxRestartAttempts /\ ShouldRestart(a)
       THEN /\ proc' = [proc EXCEPT ![a].restarts = @ + 1]
            /\ act' = [act EXCEPT ![w].at = "kill", ![w].count = proc[a].restarts + 1]
       ELSE Goto(w, "failed") /\ UNCHANGED proc
    /\ UNCHANGED <<row, allocated, phase, todo>>

\* get_mut(..).expect("process just inserted by start_app")
SetCount(w) ==
    LET a == act[w].app IN
    /\ act[w].at = "count"
    /\ IF Managed(a)
       THEN proc' = [proc EXCEPT ![a].restarts = act[w].count] /\ Goto(w, "record")
       ELSE Goto(w, "panicked") /\ UNCHANGED proc
    /\ UNCHANGED <<row, allocated, phase, todo>>

\* deploy_and_await: healthy or out of time, or the child is dead.
Watch(w) ==
    /\ act[w].at = "watch"
    /\ \/ Done(w)
       \/ Dead(act[w].app) /\ Goto(w, "try")
    /\ UNCHANGED <<row, proc, allocated, phase, todo>>

Forget(w) ==
    /\ act[w].at = "forget"
    /\ RemoveProcess(act[w].app)
    /\ IF w = Sup /\ phase = "health" THEN Goto(w, "fix") ELSE Done(w)
    /\ UNCHANGED <<row, phase, todo>>

-----------------------------------------------------------------------------
(* The supervisor's loop.                                                  *)

\* run: restore, then a health check and a hibernation check after every sleep.
Phase(from, to, ids) ==
    /\ phase = from /\ act[Sup].at \in {"idle", "next"} /\ todo = {}
    /\ phase' = to /\ todo' = ids
    /\ act' = [act EXCEPT ![Sup] = [Idle EXCEPT !.at = IF to = "sleep" THEN "idle" ELSE "next"]]
    /\ UNCHANGED <<row, proc, allocated>>

FindRunning == Phase("boot", "restore", {a \in Apps : row[a] \in {"Running", "Hibernated"}})
\* Variant: the health check goes by the rows, as the check for idle apps does.
FindDeadRunning == Phase("sleep", "health", {a \in Apps : Dead(a) /\ row[a] = "Running"})
FindDead == Phase("sleep", "health", {a \in Apps : Dead(a)})
\* How long ago an app was used is left open.
FindIdle == \E S \in SUBSET {a \in Apps : row[a] = "Running"} : Phase("health", "hibernate", S)
Sleep == Phase("restore", "sleep", {}) \/ Phase("hibernate", "sleep", {})

\* start: with a process that is managed, try_restart_crashed; else from the row.
Revive(a) ==
    IF Managed(a) THEN Enter(Sup, "revive", a, "try")
    ELSE IF ~Exists(a) THEN UNCHANGED act
    ELSE Enter(Sup, "revive", a, "alloc")

Visit(a) ==
    /\ act[Sup].at = "next" /\ a \in todo
    /\ todo' = todo \ {a}
    /\ CASE phase = "hibernate" -> Enter(Sup, "hibernate", a, "kill")
         [] phase = "health" /\ proc[a].restarts >= MaxRestartAttempts ->
              Enter(Sup, "revive", a, "giveup")
         [] OTHER -> Revive(a)
    /\ UNCHANGED <<row, proc, allocated, phase>>

\* mark_failed; Forget follows.
GiveUp ==
    /\ act[Sup].at = "giveup"
    /\ SetStatus(act[Sup].app, "Down")
    /\ Goto(Sup, "forget")
    /\ UNCHANGED <<proc, allocated, phase, todo>>

\* attempt_auto_fix counts the attempt in the row, which is read and then
\* written back whole, unless an attempt was made before.
AutoFix ==
    LET a == act[Sup].app IN
    /\ act[Sup].at = "fix"
    /\ \/ Done(Sup)
       \/ Exists(a) /\ act' = [act EXCEPT ![Sup].at = "fixwrite", ![Sup].seen = row[a]]
    /\ UNCHANGED <<row, proc, allocated, phase, todo>>

AutoFixWrite ==
    /\ act[Sup].at = "fixwrite"
    /\ SetStatus(act[Sup].app, act[Sup].seen)
    /\ Done(Sup)
    /\ UNCHANGED <<proc, allocated, phase, todo>>

-----------------------------------------------------------------------------
\* A child ends by itself.
ChildEnds(a) ==
    /\ proc[a].child = "up"
    /\ \E c \in {"failed", "exited"} : proc' = [proc EXCEPT ![a].child = c]
    /\ UNCHANGED <<row, allocated, act, phase, todo>>

Request(w) == \E a \in Apps :
    Deploy(w, a) \/ StartRequest(w, a) \/ RestartRequest(w, a) \/ StopRequest(w, a)
    \/ Destroy(w, a)
Step(w) ==
    Kill(w) \/ StoreStarting(w) \/ StoreStopped(w) \/ MarkHibernated(w) \/ Delete(w)
    \/ Alloc(w) \/ Spawn(w) \/ SpawnFails(w) \/ Record(w) \/ Failed(w)
    \/ TryRestart(w) \/ SetCount(w) \/ Watch(w) \/ Forget(w)
Loop == FindRunning \/ FindDead \/ FindIdle \/ Sleep \/ GiveUp \/ AutoFix \/ AutoFixWrite
        \/ \E a \in Apps : Visit(a)

Next ==
    \/ \E w \in Requests : Request(w)
    \/ \E w \in Browsers, a \in Apps : Wake(w, a)
    \/ \E w \in Actors : Step(w)
    \/ Loop
    \/ \E a \in Apps : ChildEnds(a)

Spec == Init /\ [][Next]_appVars

\* The supervisor's task is always scheduled, and every call it awaits returns.
FairSpec == Spec /\ WF_appVars(Step(Sup) \/ Loop)

-----------------------------------------------------------------------------
\* Who holds a port: an app's process, or a start between allocate_port and
\* the insertion of its process.  Every port held is allocated and has one
\* holder, whatever restarts, stops and failed starts do at once.  About processes
\* the manager knows: a child that remove_process dropped alive is not one of them.
PortsExclusive ==
    /\ \A a \in Apps : Managed(a) =>
          /\ proc[a].port \in allocated
          /\ \A b \in Apps \ {a} : Managed(b) => proc[b].port # proc[a].port
    /\ \A w \in Actors : act[w].at = "spawn" =>
          /\ act[w].port \in allocated
          /\ \A v \in Actors \ {w} : act[v].at = "spawn" => act[v].port # act[w].port
          /\ \A a \in Apps : Managed(a) => proc[a].port # act[w].port

\* The supervisor and a deploy that waits count restarts of one process
\* without excluding each other, and still none is counted past the limit.
RestartsBounded ==
    /\ \A a \in Apps : proc[a].restarts <= MaxRestartAttempts
    /\ \A w \in Actors : act[w].count <= MaxRestartAttempts

\* A managed process that crashed does not stay: it is restarted, replaced or
\* given up, unless the supervisor's task itself is gone.
CrashIsHandled ==
    \A a \in Apps :
        RestartPolicy[a] # "never" /\ proc[a].child = "failed"
          ~> (proc[a].child # "failed" \/ act[Sup].at = "panicked")
=============================================================================
