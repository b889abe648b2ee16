------------------------------ MODULE Channels ------------------------------
(***************************************************************************)
(* The supervision of one channel.  The row of the channel holds what the  *)
(* operator wants (enabled, config) and what the supervisor observed       *)
(* (status).  A manager drives one connection after another until it is    *)
(* cancelled; the supervisor's map holds the manager that can be           *)
(* cancelled.  Starting one only spawns it: it enters the map later, or    *)
(* ends if there is an entry by then.  Every write of the row is broadcast *)
(* and every broadcast spawns a handler that compares the row with the map *)
(* and starts, stops or restarts; so do the operator's requests and the    *)
(* health check.  All writers read the row and write it back whole, in two *)
(* steps.  The messages a connection delivers are in Delivery.             *)
(***************************************************************************)
EXTENDS Naturals, FiniteSets

CONSTANTS
    Managers, NoManager,    \* managers (a pool of identifiers)
    Handlers,               \* handlers of a broadcast (a pool)
    Configs,                \* what an operator can set
    MaxRequests,            \* bound: requests of the operator
    MaxFaults,              \* bound: lost connections, panics and crashes together
    MaxNews                 \* bound: broadcasts not handled yet, of which more count as this many

ASSUME ChannelAssumption ==
    /\ NoManager \notin Managers /\ Configs # {}
    /\ MaxRequests \in Nat /\ MaxFaults \in Nat /\ MaxNews \in Nat

VARIABLES
    row,          \* the channel's row
    map,          \* channels: the manager in the supervisor's map
    manager,      \* where each manager is
    cancelled,    \* those whose channel_cancel is cancelled
    news,         \* broadcasts whose handler has not read the row yet
    handler,      \* what each other handler has read, and still has to act on
    request,      \* the operator's request
    tick,         \* the health check has found the row active
    mishap,       \* history: a row written back was no longer the one read, or
                  \* a manager ended without a word
    stray,        \* the connection of a manager that panicked goes on without it
    left          \* what is left of each bound

channelVars == <<row, map, manager, cancelled, news, handler, request, tick, mishap, stray, left>>

Status == {"Disconnected", "Connecting", "Connected", "Reconnecting", "Failed"}
Row == [exists : BOOLEAN, enabled : BOOLEAN, status : Status, config : Configs]
Place == {"free", "spawned", "load", "mark", "write", "build", "handshake", "up", "backoff",
          "leave", "panicked"}
Manager == [at : Place, next : Place, status : Status, seen : Row, config : Configs]
Ops == {"none", "start", "refuse", "stop", "update", "refresh", "delete"}
Request == [op : Ops, at : {"read", "write", "kick"}, seen : Row]
Bounds == {"requests", "faults"}
Limit(b) == IF b = "requests" THEN MaxRequests ELSE MaxFaults

FirstConfig == CHOOSE c \in Configs : TRUE
NewRow == [exists |-> TRUE, enabled |-> FALSE, status |-> "Disconnected", config |-> FirstConfig]
FreeManager == [at |-> "free", next |-> "free", status |-> "Disconnected", seen |-> NewRow,
                config |-> FirstConfig]
NoRequest == [op |-> "none", at |-> "read", seen |-> NewRow]
Idle == [busy |-> FALSE, seen |-> NewRow]

TypeOK ==
    /\ row \in Row
    /\ map \in Managers \cup {NoManager}
    /\ manager \in [Managers -> Manager]
    /\ cancelled \subseteq Managers
    /\ news \in 0 .. MaxNews
    /\ handler \in [Handlers -> [busy : BOOLEAN, seen : Row]]
    /\ request \in Request
    /\ tick \in BOOLEAN /\ mishap \in BOOLEAN /\ stray \in BOOLEAN
    /\ left \in [Bounds -> Nat]

\* ChannelService::create leaves the channel disabled.
Init ==
    /\ row = NewRow
    /\ map = NoManager /\ manager = [m \in Managers |-> FreeManager] /\ cancelled = {}
    /\ news = 0 /\ handler = [h \in Handlers |-> Idle]
    /\ request = NoRequest /\ tick = FALSE /\ mishap = FALSE /\ stray = FALSE
    /\ left = [b \in Bounds |-> Limit(b)]

-----------------------------------------------------------------------------
Use(b) == left[b] > 0 /\ left' = [left EXCEPT ![b] = @ - 1]

Broadcast == news' = IF news < MaxNews THEN news + 1 ELSE news
\* Variant: a write that is not broadcast.
WriteRowUnheard(seen, new) ==
    /\ news' = news
    /\ row' = IF row.exists THEN new ELSE row
    /\ mishap' = (mishap \/ row # seen)

\* repo.update of a copy, and the broadcast.  A deleted row is not written.
WriteRow(seen, new) ==
    /\ Broadcast
    /\ row' = IF row.exists THEN new ELSE row
    /\ mishap' = (mishap \/ row # seen)

(* Starting and stopping.                                                  *)
Spawn(m) == manager[m].at = "free" /\ manager' = [manager EXCEPT ![m].at = "spawned"]
\* Variant: a stop that does not ask whether there is a manager.
StopUnchecked == map' = NoManager /\ cancelled' = cancelled \cup {map}
Stop == map' = NoManager /\ cancelled' = cancelled \cup ({map} \ {NoManager})

\* Variant: a started manager enters the map whatever is there.
InsertAnyway(m) ==
    /\ manager[m].at = "spawned"
    /\ map' = m /\ manager' = [manager EXCEPT ![m].at = "load"]
    /\ UNCHANGED <<row, cancelled, news, handler, request, tick, mishap, stray, left>>

Insert(m) ==
    /\ manager[m].at = "spawned"
    /\ IF map = NoManager
       THEN map' = m /\ manager' = [manager EXCEPT ![m].at = "load"]
       ELSE manager' = [manager EXCEPT ![m] = FreeManager] /\ UNCHANGED map
    /\ UNCHANGED <<row, cancelled, news, handler, request, tick, mishap, stray, left>>

-----------------------------------------------------------------------------
(* A manager (run).                                                        *)
Move(m, place) == manager' = [manager EXCEPT ![m].at = place]
\* mark(status), and then on to the place.
MarkThen(m, status, place) ==
    manager' = [manager EXCEPT ![m].at = "mark", ![m].status = status, ![m].next = place]
\* Its manager panicked after the pipelines were spawned.
LeftBehind(m) == manager[m].at = "panicked" /\ manager[m].next = "up"
UnchangedByRun == <<row, map, cancelled, news, handler, request, tick, mishap, stray>>

Load(m) ==
    /\ manager[m].at = "load"
    /\ manager' = [manager EXCEPT ![m] =
          IF row.exists THEN [@ EXCEPT !.at = "mark", !.status = "Connecting", !.next = "build",
                                       !.config = row.config]
          ELSE [@ EXCEPT !.at = "leave"]]
    /\ UNCHANGED UnchangedByRun /\ UNCHANGED left

\* mark_status: the read, and the write.
MarkRead(m) ==
    /\ manager[m].at = "mark"
    /\ manager' = [manager EXCEPT ![m] = IF row.exists THEN [@ EXCEPT !.at = "write", !.seen = row]
                                         ELSE [FreeManager EXCEPT !.at = manager[m].next,
                                                                  !.config = manager[m].config]]
    /\ UNCHANGED UnchangedByRun /\ UNCHANGED left

MarkWrite(m) ==
    /\ manager[m].at = "write"
    /\ WriteRow(manager[m].seen, [manager[m].seen EXCEPT !.status = manager[m].status])
    /\ manager' = [manager EXCEPT ![m] = [FreeManager EXCEPT !.at = manager[m].next,
                                                             !.config = manager[m].config]]
    /\ UNCHANGED <<map, cancelled, handler, request, tick, stray, left>>

\* build_attempt.
BuildAttempt(m) ==
    /\ manager[m].at = "build"
    /\ \/ Move(m, "handshake") /\ UNCHANGED left
       \/ MarkThen(m, "Failed", "leave") /\ Use("faults")
    /\ UNCHANGED UnchangedByRun

Connected(m) ==
    /\ manager[m].at = "handshake"
    /\ MarkThen(m, "Connected", "up")
    /\ UNCHANGED UnchangedByRun /\ UNCHANGED left

\* A signal of the adapter, a deadline, a failed on_connect.
Disconnected(m) ==
    /\ manager[m].at \in {"handshake", "up"} /\ Use("faults")
    /\ \/ MarkThen(m, "Reconnecting", "backoff")
       \/ MarkThen(m, "Failed", "leave")
    /\ UNCHANGED UnchangedByRun

BackoffEnds(m) ==
    /\ manager[m].at = "backoff"
    /\ Move(m, "load")
    /\ UNCHANGED UnchangedByRun /\ UNCHANGED left

\* Variant: nothing is said when the cancel comes during the backoff.
NoticeCancelQuietly(m) ==
    /\ manager[m].at \in {"handshake", "up", "backoff"} /\ m \in cancelled
    /\ IF manager[m].at = "backoff" THEN Move(m, "leave") ELSE MarkThen(m, "Disconnected", "leave")
    /\ UNCHANGED UnchangedByRun /\ UNCHANGED left

\* finish_stopped
NoticeCancel(m) ==
    /\ manager[m].at \in {"handshake", "up", "backoff"} /\ m \in cancelled
    /\ MarkThen(m, "Disconnected", "leave")
    /\ UNCHANGED UnchangedByRun /\ UNCHANGED left

\* The unwinding leaves attempt_cancel as it is: a connection that was built goes on.
Panic(m) ==
    /\ manager[m].at \in {"build", "handshake", "up"} /\ Use("faults")
    /\ manager' = [manager EXCEPT ![m].at = "panicked",
                                  ![m].next = IF manager[m].at = "build" THEN "leave" ELSE "up"]
    /\ UNCHANGED UnchangedByRun

\* SlotGuard::drop, at the end of run or of its unwinding.  Whoever had cancelled the
\* manager by then has cancelled its connection as well; after this nobody can.
Leave(m) ==
    /\ manager[m].at \in {"leave", "panicked"}
    /\ map' = IF map = m THEN NoManager ELSE map
    /\ manager' = [manager EXCEPT ![m] = FreeManager] /\ cancelled' = cancelled \ {m}
    /\ mishap' = (mishap \/ manager[m].at = "panicked")
    /\ stray' = (stray \/ (LeftBehind(m) /\ m \notin cancelled))
    /\ UNCHANGED <<row, news, handler, request, tick, left>>

-----------------------------------------------------------------------------
(* Broadcasts.                                                             *)
HandlerReads(h) ==
    /\ news > 0 /\ news' = news - 1
    /\ ~handler[h].busy
    /\ handler' = [handler EXCEPT ![h] = [busy |-> TRUE, seen |-> [row EXCEPT !.status = "Disconnected"]]]
    /\ UNCHANGED <<row, map, manager, cancelled, request, tick, mishap, stray, left>>

\* live: from the start of the handshake to the teardown, which a panic skips.
Live(m) ==
    \/ manager[m].at \in {"handshake", "up"} \/ LeftBehind(m)
    \/ manager[m].at \in {"mark", "write"} /\ manager[m].next = "up"

\* The row is gone, or the intent flipped on or off, or the config changed.
HandlerActs(h) ==
    LET seen == handler[h].seen IN
    /\ handler[h].busy
    /\ \/ /\ ~(seen.exists /\ seen.enabled)
          /\ Stop /\ UNCHANGED manager
       \/ /\ seen.exists /\ seen.enabled /\ map = NoManager
          /\ \E m \in Managers : Spawn(m)
          /\ UNCHANGED <<map, cancelled>>
       \/ /\ seen.exists /\ seen.enabled /\ map # NoManager
          /\ IF Live(map) /\ manager[map].config # seen.config
             THEN Stop /\ \E m \in Managers : Spawn(m)
             ELSE UNCHANGED <<map, manager, cancelled>>
    /\ handler' = [handler EXCEPT ![h] = Idle]
    /\ UNCHANGED <<row, news, request, tick, mishap, stray, left>>

-----------------------------------------------------------------------------
(* The operator.                                                           *)

\* find_owned, and what the request does before it writes.
Ask(op) ==
    /\ request.op = "none" /\ Use("requests")
    /\ op # "none" /\ row.exists
    /\ op = "stop" => row.enabled
    /\ request' = [op |-> op, at |-> IF op \in {"refresh", "delete"} THEN "kick"
                                     ELSE IF op = "update" THEN "write" ELSE "read", seen |-> row]
    /\ UNCHANGED <<row, map, manager, cancelled, news, handler, tick, mishap, stray>>

\* set_enabled reads the row again.
AskRead ==
    /\ request.op # "none" /\ request.at = "read"
    /\ request' = IF row.exists THEN [request EXCEPT !.at = "write", !.seen = row] ELSE NoRequest
    /\ UNCHANGED <<row, map, manager, cancelled, news, handler, tick, mishap, stray, left>>

\* set_enabled and update write it.  missing: a required field is missing.
Wanted(op, seen, c, missing) ==
    CASE op = "start" -> [seen EXCEPT !.enabled = TRUE]
      [] op \in {"stop", "refuse"} -> [seen EXCEPT !.enabled = FALSE]
      [] op = "update" -> [seen EXCEPT !.config = c,
                                       !.status = IF seen.enabled \/ missing THEN @ ELSE "Disconnected"]

AskWrite ==
    /\ request.op \in {"start", "stop", "refuse", "update"} /\ request.at = "write"
    /\ \E c \in Configs, missing \in BOOLEAN :
          WriteRow(request.seen, Wanted(request.op, request.seen, c, missing))
    /\ request' = IF request.op \in {"start", "stop"} THEN [NoRequest EXCEPT !.op = request.op, !.at = "kick"]
                  ELSE NoRequest
    /\ UNCHANGED <<map, manager, cancelled, handler, tick, stray, left>>

AskKick ==
    /\ request.op # "none" /\ request.at = "kick"
    /\ IF request.op = "start" THEN UNCHANGED <<map, cancelled>> ELSE Stop
    /\ IF request.op \in {"start", "refresh"} THEN \E m \in Managers : Spawn(m) ELSE UNCHANGED manager
    /\ request' = IF request.op = "delete" THEN [request EXCEPT !.at = "write"] ELSE NoRequest
    /\ UNCHANGED <<row, news, handler, tick, mishap, stray, left>>

DeleteRow ==
    /\ request.op = "delete" /\ request.at = "write"
    /\ Broadcast
    /\ row' = [row EXCEPT !.exists = FALSE]
    /\ request' = NoRequest
    /\ UNCHANGED <<map, manager, cancelled, handler, tick, mishap, stray, left>>

-----------------------------------------------------------------------------
(* The supervision (restore and health_tick).                              *)

\* Variant: only what failed is started again.
FindActiveFailed ==
    /\ ~tick
    /\ row.exists /\ row.enabled /\ row.status = "Failed"
    /\ tick' = TRUE
    /\ UNCHANGED <<row, map, manager, cancelled, news, handler, request, mishap, stray, left>>

FindActive ==
    /\ ~tick
    /\ row.exists /\ row.enabled /\ row.status # "Failed"
    /\ tick' = TRUE
    /\ UNCHANGED <<row, map, manager, cancelled, news, handler, request, mishap, stray, left>>

StartDead ==
    /\ tick /\ tick' = FALSE
    /\ IF map = NoManager THEN \E m \in Managers : Spawn(m) ELSE UNCHANGED manager
    /\ UNCHANGED <<row, map, cancelled, news, handler, request, mishap, stray, left>>

Crash ==
    /\ Use("faults")
    /\ map' = NoManager /\ manager' = [m \in Managers |-> FreeManager] /\ cancelled' = {}
    /\ news' = 0 /\ handler' = [h \in Handlers |-> Idle]
    /\ request' = NoRequest /\ tick' = FALSE /\ mishap' = TRUE /\ stray' = FALSE
    /\ UNCHANGED row

-----------------------------------------------------------------------------
Run(m) == Load(m) \/ MarkRead(m) \/ MarkWrite(m) \/ BuildAttempt(m) \/ Connected(m)
          \/ BackoffEnds(m) \/ NoticeCancel(m) \/ Leave(m)
Serve == AskRead \/ AskWrite \/ AskKick \/ DeleteRow
Check == FindActive \/ StartDead

Next ==
    \/ \E m \in Managers : Insert(m) \/ Run(m) \/ Disconnected(m) \/ Panic(m)
    \/ \E h \in Handlers : HandlerReads(h) \/ HandlerActs(h)
    \/ \E op \in Ops : Ask(op)
    \/ Serve \/ Check \/ Crash

Spec == Init /\ [][Next]_channelVars

\* Spawned tasks and requests go on, and the health check comes back.
FairSpec ==
    /\ Spec
    /\ \A m \in Managers : WF_channelVars(Insert(m)) /\ WF_channelVars(Run(m))
    /\ \A h \in Handlers : WF_channelVars(HandlerReads(h)) /\ WF_channelVars(HandlerActs(h))
    /\ WF_channelVars(Serve) /\ WF_channelVars(Check)

-----------------------------------------------------------------------------
Running(m) == manager[m].at \notin {"free", "spawned", "leave"}

\* A manager that nobody has cancelled is the one the map holds: no second manager of
\* the channel drives a connection that no stop can reach, up to the moment SlotGuard
\* takes out the one that panicked (SlotGuard, start).
RunningIsMapped == \A m \in Managers : Running(m) /\ m \notin cancelled => map = m

Quiet ==
    /\ \A m \in Managers : manager[m].at = "free"
    /\ news = 0 /\ request.op = "none" /\ ~tick
    /\ \A h \in Handlers : ~handler[h].busy

\* When all is over and the channel is off, its row says so, unless a row was
\* written from an old copy or a manager ended without a word.
StoppedIsShown ==
    Quiet /\ row.exists /\ ~row.enabled => mishap \/ row.status \in {"Disconnected", "Failed"}

\* It never stays so that an enabled channel has no manager, whoever stopped,
\* crashed or gave way last (health_tick, start).
EnabledIsArmed ==
    []<>(row.exists /\ row.enabled /\ row.status # "Failed" => map # NoManager)

\* Nor that a channel that is switched off, or deleted, has a manager running,
\* whatever started it late or wrote its row from an old copy (the broadcasts).
\* This is about managers; the connection one leaves behind is in StopReachesAll.
DisabledEnds ==
    []<>((row.exists /\ row.enabled) \/ (\A m \in Managers : ~Running(m)))

\* A stop that is through has reached whatever runs of the channel: a claim, of
\* ctx.cancel, that it is how stop_channel tells an adapter to end (models.rs).
StopReachesAll == [][request.op = "stop" /\ AskKick => ~stray]_channelVars
=============================================================================
