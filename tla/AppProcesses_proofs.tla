------------------------ MODULE AppProcesses_proofs ------------------------
(***************************************************************************)
(* The ports of AppProcesses have one holder each and restarts stay within *)
(* the limit, for any number of apps, actors and ports.  Most steps move   *)
(* one actor and leave the manager alone, or move it and take one process  *)
(* out: a lemma for each, and the few other steps one by one.              *)
(***************************************************************************)
EXTENDS AppProcesses, TLAPS

\* Between operations an actor names no app.
Resting == {"idle", "next", "panicked"}
AppNamed == \A w \in Actors : act[w].at \notin Resting => act[w].app \in Apps

ManagerOK ==
    /\ proc \in [Apps -> Proc] /\ allocated \subseteq Ports /\ act \in [Actors -> Actor]
    /\ AppNamed /\ PortsExclusive /\ RestartsBounded

AppInv ==
    /\ row \in [Apps -> Status] /\ todo \subseteq Apps
    /\ phase \in {"boot", "restore", "sleep", "health", "hibernate"}
    /\ ManagerOK

\* A record an actor may become, where it holds no port.
Good(r) ==
    /\ r \in Actor /\ r.at # "spawn" /\ r.count <= MaxRestartAttempts
    /\ r.at \notin Resting => r.app \in Apps

\* One actor moves and the manager's state stays.
LEMMA ActorMoves ==
    ASSUME ManagerOK, NEW w \in Actors, NEW r, Good(r),
           act' = [act EXCEPT ![w] = r], UNCHANGED <<proc, allocated>>
    PROVE  ManagerOK'
BY DEF ManagerOK, Good, AppNamed, PortsExclusive, RestartsBounded, Managed

\* One actor moves and a process leaves the manager with its port.
LEMMA ActorStops ==
    ASSUME ManagerOK, NEW w \in Actors, NEW r, Good(r),
           act' = [act EXCEPT ![w] = r], NEW a \in Apps, StopApp(a)
    PROVE  ManagerOK'
<1>1. NoProc \in Proc /\ NoProc.restarts = 0
  BY DEF NoProc, Proc
<1>2. proc' \in [Apps -> Proc] /\ allocated' \subseteq Ports /\ act' \in [Actors -> Actor]
  BY <1>1 DEF ManagerOK, StopApp, Good
<1>3. \A b \in Apps : b # a => proc'[b] = proc[b]
  BY DEF ManagerOK, StopApp
<1>4. proc'[a] = NoProc
  BY DEF ManagerOK, StopApp
<1>5. \A v \in Actors : act'[v] = IF v = w THEN r ELSE act[v]
  BY DEF ManagerOK
<1>6. AppNamed'
  BY <1>5 DEF ManagerOK, AppNamed, Good
<1>7. RestartsBounded'
  BY <1>1, <1>3, <1>4, <1>5, AppAssumption DEF ManagerOK, RestartsBounded, Good
<1>8. \A b \in Apps : Managed(b)' => b # a /\ Managed(b)
  BY <1>3, <1>4 DEF Managed
<1>9. \A v \in Actors : act'[v].at = "spawn" => v # w /\ act[v].at = "spawn" /\ act'[v] = act[v]
  BY <1>5 DEF Good
<1>10. \A p \in allocated : (p \notin allocated') => Managed(a) /\ p = proc[a].port
  <2>1. allocated' = allocated \ {proc[a].port}
    BY DEF StopApp
  <2>2. ~Managed(a) => proc[a].port \notin Ports
    BY AppAssumption DEF Managed, NoProc
  <2>. QED  BY <2>1, <2>2 DEF ManagerOK
<1>11. PortsExclusive'
  <2>1. ASSUME NEW b \in Apps, Managed(b)'
        PROVE  /\ proc'[b].port \in allocated'
               /\ \A c \in Apps \ {b} : Managed(c)' => proc'[c].port # proc'[b].port
    BY <2>1, <1>3, <1>8, <1>10 DEF ManagerOK, PortsExclusive
  <2>2. ASSUME NEW v \in Actors, act'[v].at = "spawn"
        PROVE  /\ act'[v].port \in allocated'
               /\ \A u \in Actors \ {v} : act'[u].at = "spawn" => act'[u].port # act'[v].port
               /\ \A b \in Apps : Managed(b)' => proc'[b].port # act'[v].port
    BY <2>2, <1>3, <1>8, <1>9, <1>10 DEF ManagerOK, PortsExclusive
  <2>. QED  BY <2>1, <2>2 DEF PortsExclusive
<1>. QED  BY <1>2, <1>6, <1>7, <1>11 DEF ManagerOK

-----------------------------------------------------------------------------
\* The records an actor becomes.
LEMMA IdleGood == Good(Idle) /\ Good([Idle EXCEPT !.at = "next"]) /\ Idle \in Actor
BY AppAssumption DEF Good, Idle, Busy, Actor, Places, Ops, Status, Live, Resting

LEMMA GotoGood ==
    ASSUME ManagerOK, NEW w \in Actors, NEW place \in Places \ {"spawn"},
           act[w].at \notin Resting
    PROVE  Good([act[w] EXCEPT !.at = place])
BY AppAssumption DEF ManagerOK, Good, Actor, AppNamed, RestartsBounded

LEMMA BusyGood ==
    ASSUME NEW a \in Apps, NEW op \in Ops, NEW place \in Places \ {"spawn"}, NEW s \in Status
    PROVE  Good(Busy(place, op, a, s))
BY AppAssumption DEF Good, Busy, Actor

\* The three ways an actor moves, as steps of the manager's invariant.
LEMMA GotoKeeps ==
    ASSUME ManagerOK, NEW w \in Actors, NEW place \in Places \ {"spawn"},
           act[w].at \notin Resting, Goto(w, place), UNCHANGED <<proc, allocated>>
    PROVE  ManagerOK'
<1>1. act' = [act EXCEPT ![w] = [act[w] EXCEPT !.at = place]]
  BY DEF Goto, ManagerOK
<1>. QED  BY <1>1, GotoGood, ActorMoves

LEMMA DoneKeeps ==
    ASSUME ManagerOK, NEW w \in Actors, Done(w), UNCHANGED <<proc, allocated>>
    PROVE  ManagerOK'
BY IdleGood, ActorMoves DEF Done

LEMMA EnterKeeps ==
    ASSUME AppInv, NEW w \in Actors, NEW a \in Apps, NEW op \in Ops,
           NEW place \in Places \ {"spawn"}, Enter(w, op, a, place),
           UNCHANGED <<proc, allocated>>
    PROVE  ManagerOK'
<1>. DEFINE s == IF op = "deploy" THEN row[a] ELSE "Absent"
<1>1. s \in Status
  BY DEF AppInv, Status
<1>2. act' = [act EXCEPT ![w] = Busy(place, op, a, s)]
  BY DEF Enter
<1>. HIDE DEF s
<1>. QED  BY <1>1, <1>2, BusyGood, ActorMoves DEF AppInv

LEMMA StatusTyped ==
    ASSUME row \in [Apps -> Status], NEW a \in Apps, NEW s \in Status, SetStatus(a, s)
    PROVE  row' \in [Apps -> Status]
BY DEF SetStatus

-----------------------------------------------------------------------------
\* A request begins: its actor names an app and has no port.
LEMMA RequestStep == ASSUME AppInv, NEW w \in Requests, Request(w) PROVE AppInv'
<1>1. PICK a \in Apps : Deploy(w, a) \/ StartRequest(w, a) \/ RestartRequest(w, a)
                        \/ StopRequest(w, a) \/ Destroy(w, a)
  BY DEF Request
<1>2. w \in Actors
  BY DEF Actors
<1>3. UNCHANGED <<row, proc, allocated, phase, todo>>
  BY <1>1 DEF Deploy, StartRequest, RestartRequest, StopRequest, Destroy
<1>4. \E op \in Ops, place \in Places \ {"spawn"} : Enter(w, op, a, place)
  BY <1>1 DEF Deploy, StartRequest, RestartRequest, StopRequest, Destroy, Ops, Places
<1>. QED  BY <1>2, <1>3, <1>4, EnterKeeps DEF AppInv

LEMMA WakeStep == ASSUME AppInv, NEW w \in Browsers, NEW a \in Apps, Wake(w, a) PROVE AppInv'
<1>1. w \in Actors /\ UNCHANGED <<row, proc, allocated, phase, todo>>
  BY DEF Actors, Wake
<1>2. Enter(w, "starting", a, "alloc") /\ "starting" \in Ops /\ "alloc" \in Places \ {"spawn"}
  BY DEF Wake, Ops, Places
<1>. QED  BY <1>1, <1>2, EnterKeeps DEF AppInv

\* stop_app and remove_process, as steps of an operation.
LEMMA KillStep == ASSUME AppInv, NEW w \in Actors, Kill(w) PROVE AppInv'
<1>1. act[w].at \notin Resting /\ act[w].app \in Apps
  BY DEF Kill, AppInv, ManagerOK, AppNamed, Resting
<1>2. \E place \in Places \ {"spawn"} : Goto(w, place)
  BY DEF Kill, Places
<1>3. PICK place \in Places \ {"spawn"} : act' = [act EXCEPT ![w] = [act[w] EXCEPT !.at = place]]
  BY <1>2 DEF Goto, AppInv, ManagerOK
<1>. QED  BY <1>1, <1>3, GotoGood, ActorStops DEF AppInv, Kill

LEMMA ForgetStep == ASSUME AppInv, NEW w \in Actors, Forget(w) PROVE AppInv'
<1>1. act[w].at \notin Resting /\ act[w].app \in Apps /\ "fix" \in Places \ {"spawn"}
  BY DEF Forget, AppInv, ManagerOK, AppNamed, Resting, Places
<1>2. StopApp(act[w].app)
  BY DEF Forget, RemoveProcess
<1>3. CASE Goto(w, "fix")
  <2>1. act' = [act EXCEPT ![w] = [act[w] EXCEPT !.at = "fix"]]
    BY <1>3 DEF Goto, AppInv, ManagerOK
  <2>. QED  BY <1>1, <1>2, <2>1, GotoGood, ActorStops DEF AppInv, Forget
<1>4. CASE Done(w)
  BY <1>1, <1>2, <1>4, IdleGood, ActorStops DEF AppInv, Forget, Done
<1>. QED  BY <1>3, <1>4 DEF Forget

\* The steps that write the row, or only look at it.
LEMMA RowSteps ==
    ASSUME AppInv, NEW w \in Actors,
           StoreStarting(w) \/ StoreStopped(w) \/ MarkHibernated(w) \/ Delete(w)
             \/ Record(w) \/ Failed(w) \/ Watch(w)
    PROVE  AppInv'
<1>. UNCHANGED <<proc, allocated, phase, todo>>
  BY DEF StoreStarting, StoreStopped, MarkHibernated, Delete, Record, Failed, Watch
<1>1. act[w].at \notin Resting /\ act[w].app \in Apps
  BY DEF StoreStarting, StoreStopped, MarkHibernated, Delete, Record, Failed, Watch,
         AppInv, ManagerOK, AppNamed, Resting
<1>2. {"Starting", "Running", "Down", "Hibernated", "Absent", "Gone"} \subseteq Status
  BY DEF Status, Live
<1>3. row' \in [Apps -> Status]
  BY <1>1, <1>2, StatusTyped
  DEF AppInv, StoreStarting, StoreStopped, MarkHibernated, Delete, Record, Failed, Watch
<1>4. CASE Done(w)
  BY <1>3, <1>4, DoneKeeps DEF AppInv
<1>5. ASSUME NEW place \in Places \ {"spawn"}, Goto(w, place)  PROVE AppInv'
  BY <1>1, <1>3, <1>5, GotoKeeps DEF AppInv
<1>6. ASSUME NEW op \in Ops, NEW place \in Places \ {"spawn"},
             act' = [act EXCEPT ![w] = Busy(place, op, act[w].app, "Absent")]
      PROVE  AppInv'
  BY <1>1, <1>2, <1>3, <1>6, BusyGood, ActorMoves DEF AppInv
<1>7. {"watch", "deploy"} \subseteq Ops /\ {"watch", "alloc"} \subseteq Places \ {"spawn"}
  BY DEF Ops, Places
<1>8. {"try", "forget"} \subseteq Places \ {"spawn"}
  BY DEF Places
<1>. QED  BY <1>4, <1>5, <1>6, <1>7, <1>8
          DEF StoreStarting, StoreStopped, MarkHibernated, Delete, Record, Failed, Watch

-----------------------------------------------------------------------------
\* A start takes a port nobody has, then hands it to the process or loses it.
LEMMA AllocStep == ASSUME AppInv, NEW w \in Actors, Alloc(w) PROVE AppInv'
<1>1. act[w].at = "alloc" /\ act[w].app \in Apps /\ UNCHANGED <<row, proc, phase, todo>>
  BY DEF Alloc, AppInv, ManagerOK, AppNamed, Resting
<1>2. CASE Goto(w, "failed") /\ UNCHANGED allocated
  <2>1. "failed" \in Places \ {"spawn"} /\ act[w].at \notin Resting
    BY <1>1 DEF Places, Resting
  <2>. QED  BY <1>1, <1>2, <2>1, GotoKeeps DEF AppInv
<1>3. ASSUME NEW p \in Ports, LowestFree(p), allocated' = allocated \cup {p},
             act' = [act EXCEPT ![w].at = "spawn", ![w].port = p]
      PROVE  AppInv'
  <2>. DEFINE r == [act[w] EXCEPT !.at = "spawn", !.port = p]
  <2>1. act' = [act EXCEPT ![w] = r]
    BY <1>3 DEF AppInv, ManagerOK
  <2>2. r \in Actor
    BY DEF AppInv, ManagerOK, Actor, Places
  <2>3. r.at = "spawn" /\ r.port = p /\ r.app = act[w].app /\ r.count = act[w].count
    BY DEF AppInv, ManagerOK, Actor
  <2>. HIDE DEF r
  <2>4. p \notin allocated
    BY <1>3 DEF LowestFree
  <2>5. allocated' \subseteq Ports /\ act' \in [Actors -> Actor] /\ AppNamed' /\ RestartsBounded'
    BY <1>1, <1>3, <2>1, <2>2, <2>3 DEF AppInv, ManagerOK, AppNamed, RestartsBounded
  <2>6. \A v \in Actors \ {w} : act'[v] = act[v]
    BY <2>1 DEF AppInv, ManagerOK
  <2>7. act'[w] = r
    BY <2>1 DEF AppInv, ManagerOK
  <2>8. PortsExclusive'
    BY <1>1, <1>3, <2>3, <2>4, <2>6, <2>7 DEF AppInv, ManagerOK, PortsExclusive, Managed
  <2>. QED  BY <1>1, <2>5, <2>8 DEF AppInv, ManagerOK
<1>. QED  BY <1>2, <1>3 DEF Alloc

LEMMA SpawnFailsStep == ASSUME AppInv, NEW w \in Actors, SpawnFails(w) PROVE AppInv'
<1>. DEFINE r == [act[w] EXCEPT !.at = "failed", !.port = NoPort]
<1>1. act[w].at = "spawn" /\ UNCHANGED <<row, proc, allocated, phase, todo>>
  BY DEF SpawnFails
<1>2. act' = [act EXCEPT ![w] = r]
  BY DEF SpawnFails, AppInv, ManagerOK
<1>3. r \in Actor
  BY DEF AppInv, ManagerOK, Actor, Places
<1>4. r.at = "failed" /\ r.app = act[w].app /\ r.count = act[w].count
  BY DEF AppInv, ManagerOK, Actor
<1>. HIDE DEF r
<1>5. Good(r)
  BY <1>1, <1>3, <1>4 DEF AppInv, ManagerOK, AppNamed, RestartsBounded, Good, Resting
<1>. QED  BY <1>1, <1>2, <1>5, ActorMoves DEF AppInv

LEMMA SpawnStep == ASSUME AppInv, NEW w \in Actors, Spawn(w) PROVE AppInv'
<1>. DEFINE place == IF act[w].count > 0 THEN "count" ELSE "record"
            r == [act[w] EXCEPT !.at = place, !.port = NoPort]
            new == [port |-> act[w].port, child |-> "up", restarts |-> 0]
<1>1. act[w].at = "spawn" /\ UNCHANGED <<row, allocated, phase, todo>>
  BY DEF Spawn
<1>2. act' = [act EXCEPT ![w] = r]
  BY DEF Spawn, AppInv, ManagerOK
<1>3. place \in {"count", "record"}
  OBVIOUS
<1>4. r \in Actor /\ r.at # "spawn" /\ r.app = act[w].app /\ r.count = act[w].count
  BY <1>3 DEF AppInv, ManagerOK, Actor, Places
<1>. HIDE DEF r
<1>5. act[w].app \in Apps /\ act[w].port \in allocated
  BY <1>1 DEF AppInv, ManagerOK, AppNamed, Resting, PortsExclusive
<1>6. proc' = [proc EXCEPT ![act[w].app] = new]
  BY DEF Spawn
<1>7. new \in Proc
  BY <1>5 DEF Proc, AppInv, ManagerOK
<1>8. \A v \in Actors : act'[v] = IF v = w THEN r ELSE act[v]
  BY <1>2 DEF AppInv, ManagerOK
<1>9. \A a \in Apps : proc'[a] = IF a = act[w].app THEN new ELSE proc[a]
  BY <1>6 DEF AppInv, ManagerOK
<1>10. proc' \in [Apps -> Proc] /\ act' \in [Actors -> Actor]
  BY <1>2, <1>4, <1>6, <1>7 DEF AppInv, ManagerOK
<1>11. AppNamed'
  BY <1>4, <1>5, <1>8 DEF AppInv, ManagerOK, AppNamed
<1>12. RestartsBounded'
  BY <1>4, <1>8, <1>9, AppAssumption DEF AppInv, ManagerOK, RestartsBounded
<1>13. new.port = act[w].port
  OBVIOUS
<1>. HIDE DEF new
<1>14. PortsExclusive'
  <2>1. ASSUME NEW a \in Apps, Managed(a)'
        PROVE  /\ proc'[a].port \in allocated'
               /\ \A b \in Apps \ {a} : Managed(b)' => proc'[b].port # proc'[a].port
    BY <2>1, <1>1, <1>5, <1>9, <1>13 DEF AppInv, ManagerOK, PortsExclusive, Managed
  <2>2. ASSUME NEW v \in Actors, act'[v].at = "spawn"
        PROVE  /\ act'[v].port \in allocated'
               /\ \A u \in Actors \ {v} : act'[u].at = "spawn" => act'[u].port # act'[v].port
               /\ \A b \in Apps : Managed(b)' => proc'[b].port # act'[v].port
    BY <2>2, <1>1, <1>4, <1>5, <1>8, <1>9, <1>13 DEF AppInv, ManagerOK, PortsExclusive, Managed
  <2>. QED  BY <2>1, <2>2 DEF PortsExclusive
<1>. QED  BY <1>1, <1>10, <1>11, <1>12, <1>14 DEF AppInv, ManagerOK

-----------------------------------------------------------------------------
\* A process changes its count, or its child ends: the port is the same.
LEMMA EntryChanges ==
    ASSUME ManagerOK, NEW w \in Actors, NEW r, Good(r), act' = [act EXCEPT ![w] = r],
           NEW a \in Apps, NEW q \in Proc, Managed(a), q # NoProc, q.port = proc[a].port,
           q.restarts <= MaxRestartAttempts,
           proc' = [proc EXCEPT ![a] = q], UNCHANGED allocated
    PROVE  ManagerOK'
<1>1. \A v \in Actors : act'[v] = IF v = w THEN r ELSE act[v]
  BY DEF ManagerOK
<1>2. \A b \in Apps : proc'[b] = IF b = a THEN q ELSE proc[b]
  BY DEF ManagerOK
<1>3. proc' \in [Apps -> Proc] /\ act' \in [Actors -> Actor]
  BY DEF ManagerOK, Good
<1>4. AppNamed' /\ RestartsBounded'
  BY <1>1, <1>2 DEF ManagerOK, AppNamed, RestartsBounded, Good
<1>5. \A b \in Apps : (Managed(b)' <=> Managed(b)) /\ proc'[b].port = proc[b].port
  BY <1>2 DEF Managed
<1>6. \A v \in Actors : act'[v].at = "spawn" => act'[v] = act[v]
  BY <1>1 DEF Good
<1>7. PortsExclusive'
  BY <1>5, <1>6 DEF ManagerOK, PortsExclusive
<1>. QED  BY <1>3, <1>4, <1>7 DEF ManagerOK

\* A changed entry is one of the process, not the empty one.
LEMMA EntryTyped ==
    ASSUME NEW p \in Proc, p # NoProc
    PROVE  /\ \A n \in Nat : LET q == [p EXCEPT !.restarts = n] IN
                 q \in Proc /\ q # NoProc /\ q.port = p.port /\ q.restarts = n
           /\ \A c \in {"failed", "exited"} : LET q == [p EXCEPT !.child = c] IN
                 q \in Proc /\ q # NoProc /\ q.port = p.port /\ q.restarts = p.restarts
           /\ p.restarts \in Nat
BY AppAssumption DEF Proc, NoProc

LEMMA TryRestartStep == ASSUME AppInv, NEW w \in Actors, TryRestart(w) PROVE AppInv'
<1>. DEFINE a == act[w].app
<1>1. act[w].at = "try" /\ a \in Apps /\ UNCHANGED <<row, allocated, phase, todo>>
  BY DEF TryRestart, AppInv, ManagerOK, AppNamed, Resting
<1>2. CASE Goto(w, "failed") /\ UNCHANGED proc
  <2>1. "failed" \in Places \ {"spawn"} /\ act[w].at \notin Resting
    BY <1>1 DEF Places, Resting
  <2>. QED  BY <1>1, <1>2, <2>1, GotoKeeps DEF AppInv
<1>3. ASSUME Managed(a), proc[a].restarts < MaxRestartAttempts,
             proc' = [proc EXCEPT ![a].restarts = @ + 1],
             act' = [act EXCEPT ![w].at = "kill", ![w].count = proc[a].restarts + 1]
      PROVE  AppInv'
  <2>. DEFINE n == proc[a].restarts + 1
              r == [act[w] EXCEPT !.at = "kill", !.count = n]
              q == [proc[a] EXCEPT !.restarts = n]
  <2>1. proc[a] \in Proc /\ proc[a] # NoProc /\ proc[a].restarts \in Nat
    BY <1>1, <1>3, EntryTyped DEF AppInv, ManagerOK, Managed
  <2>2. n \in Nat /\ n <= MaxRestartAttempts
    BY <1>3, <2>1, AppAssumption
  <2>3. act' = [act EXCEPT ![w] = r] /\ proc' = [proc EXCEPT ![a] = q]
    BY <1>3 DEF AppInv, ManagerOK
  <2>. HIDE DEF n
  <2>4. r \in Actor /\ r.at = "kill" /\ r.app = a /\ r.count = n
    BY <2>2 DEF AppInv, ManagerOK, Actor, Places
  <2>5. q \in Proc /\ q # NoProc /\ q.port = proc[a].port /\ q.restarts = n
    BY <2>1, <2>2, EntryTyped
  <2>. HIDE DEF r, q
  <2>6. Good(r)
    BY <1>1, <2>2, <2>4 DEF Good
  <2>. QED  BY <1>1, <1>3, <2>2, <2>3, <2>5, <2>6, EntryChanges DEF AppInv
<1>. QED  BY <1>2, <1>3 DEF TryRestart

LEMMA SetCountStep == ASSUME AppInv, NEW w \in Actors, SetCount(w) PROVE AppInv'
<1>. DEFINE a == act[w].app
<1>1. act[w].at \notin Resting /\ a \in Apps /\ UNCHANGED <<row, allocated, phase, todo>>
  BY DEF SetCount, AppInv, ManagerOK, AppNamed, Resting
<1>2. {"panicked", "record"} \subseteq Places \ {"spawn"}
  BY DEF Places
<1>3. CASE Goto(w, "panicked") /\ UNCHANGED proc
  BY <1>1, <1>2, <1>3, GotoKeeps DEF AppInv
<1>4. ASSUME Managed(a), proc' = [proc EXCEPT ![a].restarts = act[w].count], Goto(w, "record")
      PROVE  AppInv'
  <2>. DEFINE n == act[w].count
              q == [proc[a] EXCEPT !.restarts = n]
  <2>1. proc[a] \in Proc /\ proc[a] # NoProc
    BY <1>1, <1>4 DEF AppInv, ManagerOK, Managed
  <2>2. n \in Nat /\ n <= MaxRestartAttempts
    BY DEF AppInv, ManagerOK, Actor, RestartsBounded
  <2>3. act' = [act EXCEPT ![w] = [act[w] EXCEPT !.at = "record"]] /\ proc' = [proc EXCEPT ![a] = q]
    BY <1>4 DEF AppInv, ManagerOK, Goto
  <2>. HIDE DEF n
  <2>4. q \in Proc /\ q # NoProc /\ q.port = proc[a].port /\ q.restarts = n
    BY <2>1, <2>2, EntryTyped
  <2>. HIDE DEF q
  <2>5. Good([act[w] EXCEPT !.at = "record"])
    BY <1>1, <1>2, GotoGood DEF AppInv
  <2>. QED  BY <1>1, <1>4, <2>2, <2>3, <2>4, <2>5, EntryChanges DEF AppInv
<1>. QED  BY <1>3, <1>4 DEF SetCount

LEMMA ChildEndsStep == ASSUME AppInv, NEW a \in Apps, ChildEnds(a) PROVE AppInv'
<1>1. PICK c \in {"failed", "exited"} : proc' = [proc EXCEPT ![a].child = c]
  BY DEF ChildEnds
<1>2. proc[a] \in Proc /\ proc[a] # NoProc
  BY DEF ChildEnds, NoProc, AppInv, ManagerOK
<1>. DEFINE q == [proc[a] EXCEPT !.child = c]
<1>3. q \in Proc /\ q # NoProc /\ q.port = proc[a].port /\ q.restarts = proc[a].restarts
  BY <1>2, EntryTyped
<1>4. proc' = [proc EXCEPT ![a] = q] /\ UNCHANGED <<row, allocated, act, phase, todo>>
  BY <1>1 DEF ChildEnds, AppInv, ManagerOK
<1>. HIDE DEF q
<1>5. proc' \in [Apps -> Proc] /\ AppNamed' /\ RestartsBounded'
  BY <1>3, <1>4 DEF AppInv, ManagerOK, AppNamed, RestartsBounded
<1>6. \A b \in Apps : (Managed(b)' <=> Managed(b)) /\ proc'[b].port = proc[b].port
  BY <1>2, <1>3, <1>4 DEF Managed, AppInv, ManagerOK
<1>7. PortsExclusive'
  BY <1>4, <1>6 DEF AppInv, ManagerOK, PortsExclusive
<1>. QED  BY <1>4, <1>5, <1>7 DEF AppInv, ManagerOK

-----------------------------------------------------------------------------
\* The loop of the supervisor only moves its own actor and writes rows.
LEMMA LoopStep == ASSUME AppInv, Loop PROVE AppInv'
<1>. Sup \in Actors /\ {"idle", "next", "kill", "try", "alloc", "giveup", "forget", "fixwrite"}
         \subseteq Places \ {"spawn"}
     /\ {"revive", "hibernate"} \subseteq Ops /\ "Down" \in Status
  BY DEF Actors, Places, Ops, Status
<1>1. ASSUME NEW from, NEW to \in {"restore", "sleep", "health", "hibernate"},
             NEW ids \in SUBSET Apps, Phase(from, to, ids)
      PROVE  AppInv'
  <2>1. UNCHANGED <<row, proc, allocated>> /\ phase' = to /\ todo' = ids
    BY <1>1 DEF Phase
  <2>2. \/ act' = [act EXCEPT ![Sup] = [Idle EXCEPT !.at = "next"]]
        \/ act' = [act EXCEPT ![Sup] = [Idle EXCEPT !.at = "idle"]]
    BY <1>1 DEF Phase
  <2>3. [Idle EXCEPT !.at = "idle"] = Idle
    BY DEF Idle, Busy
  <2>. QED  BY <2>1, <2>2, <2>3, IdleGood, ActorMoves DEF AppInv
<1>2. ASSUME NEW a \in Apps, Visit(a)  PROVE AppInv'
  <2>1. UNCHANGED <<row, proc, allocated, phase>> /\ todo' \subseteq Apps
    BY <1>2 DEF Visit, AppInv
  <2>2. CASE UNCHANGED act
    BY <2>1, <2>2 DEF AppInv, ManagerOK, AppNamed, PortsExclusive, RestartsBounded, Managed
  <2>3. ASSUME NEW op \in Ops, NEW place \in Places \ {"spawn"}, Enter(Sup, op, a, place)
        PROVE  AppInv'
    BY <2>1, <2>3, EnterKeeps DEF AppInv
  <2>. QED  BY <1>2, <2>2, <2>3 DEF Visit, Revive
<1>3. CASE GiveUp
  <2>1. act[Sup].at \notin Resting /\ act[Sup].app \in Apps
    BY <1>3 DEF GiveUp, AppInv, ManagerOK, AppNamed, Resting
  <2>. QED  BY <1>3, <2>1, GotoKeeps, StatusTyped DEF GiveUp, AppInv
<1>4. CASE AutoFix
  <2>1. act[Sup].at = "fix" /\ act[Sup].app \in Apps /\ UNCHANGED <<row, proc, allocated, phase, todo>>
    BY <1>4 DEF AutoFix, AppInv, ManagerOK, AppNamed, Resting
  <2>2. CASE Done(Sup)
    BY <2>1, <2>2, DoneKeeps DEF AppInv
  <2>3. ASSUME act' = [act EXCEPT ![Sup].at = "fixwrite", ![Sup].seen = row[act[Sup].app]]
        PROVE  AppInv'
    <3>. DEFINE s == row[act[Sup].app]
                r == [act[Sup] EXCEPT !.at = "fixwrite", !.seen = s]
    <3>1. s \in Status
      BY <2>1 DEF AppInv
    <3>2. act' = [act EXCEPT ![Sup] = r]
      BY <2>3 DEF AppInv, ManagerOK
    <3>. HIDE DEF s
    <3>3. r \in Actor /\ r.at = "fixwrite" /\ r.app = act[Sup].app /\ r.count = act[Sup].count
      BY <3>1 DEF AppInv, ManagerOK, Actor
    <3>. HIDE DEF r
    <3>4. Good(r)
      BY <2>1, <3>3 DEF Good, AppInv, ManagerOK, RestartsBounded
    <3>. QED  BY <2>1, <3>2, <3>4, ActorMoves DEF AppInv
  <2>. QED  BY <1>4, <2>2, <2>3 DEF AutoFix
<1>5. CASE AutoFixWrite
  <2>1. act[Sup].app \in Apps /\ act[Sup].seen \in Status
    BY <1>5 DEF AutoFixWrite, AppInv, ManagerOK, AppNamed, Resting, Actor
  <2>. QED  BY <1>5, <2>1, DoneKeeps, StatusTyped DEF AutoFixWrite, AppInv
<1>. QED  BY <1>1, <1>2, <1>3, <1>4, <1>5 DEF Loop, FindRunning, FindDead, FindIdle, Sleep

\* The strengthened invariant: one step per kind of step.
THEOREM AppInvariant == Spec => []AppInv
<1>1. Init => AppInv
  <2>. SUFFICES ASSUME Init PROVE AppInv
    OBVIOUS
  <2>1. proc \in [Apps -> Proc] /\ act \in [Actors -> Actor]
    BY IdleGood DEF Init, Proc
  <2>2. AppNamed
    BY DEF Init, AppNamed, Idle, Busy, Resting
  <2>3. PortsExclusive
    BY DEF Init, PortsExclusive, Managed, Idle, Busy
  <2>4. RestartsBounded
    BY AppAssumption DEF Init, RestartsBounded, NoProc, Idle, Busy
  <2>. QED  BY <2>1, <2>2, <2>3, <2>4 DEF Init, AppInv, ManagerOK
<1>2. AppInv /\ [Next]_appVars => AppInv'
  <2>. SUFFICES ASSUME AppInv, [Next]_appVars PROVE AppInv'
    OBVIOUS
  <2>1. ASSUME NEW w \in Actors, Step(w)  PROVE AppInv'
    BY <2>1, KillStep, ForgetStep, RowSteps, AllocStep, SpawnStep, SpawnFailsStep,
       TryRestartStep, SetCountStep DEF Step
  <2>2. CASE UNCHANGED appVars
    BY <2>2 DEF appVars, AppInv, ManagerOK, AppNamed, PortsExclusive, RestartsBounded, Managed
  <2>. QED  BY <2>1, <2>2, RequestStep, WakeStep, LoopStep, ChildEndsStep DEF Next
<1>. QED  BY <1>1, <1>2, PTL DEF Spec

\* Every variable of the app model keeps its type.
THEOREM AppTypeCorrect == Spec => []TypeOK
<1>1. AppInv => TypeOK
  BY DEF AppInv, ManagerOK, TypeOK
<1>. QED  BY <1>1, AppInvariant, PTL

\* allocate_port and the two ways a process leaves the manager keep every port
\* with one holder, however many actors start and stop apps at once.
THEOREM PortsStayExclusive == Spec => []PortsExclusive
<1>1. AppInv => PortsExclusive
  BY DEF AppInv, ManagerOK
<1>. QED  BY <1>1, AppInvariant, PTL

\* try_restart_crashed never counts past max_restart_attempts.
THEOREM RestartsStayBounded == Spec => []RestartsBounded
<1>1. AppInv => RestartsBounded
  BY DEF AppInv, ManagerOK
<1>. QED  BY <1>1, AppInvariant, PTL
=============================================================================
