# A verification project for frona

frona is a server on which users run AI agents: chats, tasks that agents carry
out on their own, tools, channels to messaging services, long-term memory. The
Rust code under `src/crates/frona-server/src` (S/ below) is a single process
with one embedded database. It is almost entirely asynchronous: every request,
every turn of an agent and every task is a tokio future, all of them read and
write the same rows without transactions, and a few maps behind locks keep them
apart. That is where it can go wrong and where tests reach least, so that is
what is modelled here.

Contents: [1 the system](#1-the-system), [2 the modules](#2-the-modules),
[3 the runs](#3-the-runs), [4 what the code does otherwise](#4-what-the-code-does-otherwise),
[5 fairness](#5-fairness), [6 the proofs](#6-the-proofs),
[7 limits of the model](#7-limits-of-the-model), [8 the plan](#8-the-plan).

## 1 The system

| component | state | operations | interacts with |
|---|---|---|---|
| **Task executor** `agent/task/executor.rs` | `active_tasks` (task key -> cancel token), running `run_task` futures | `run_task`, `execute_task`, `cancel_task`, `resume_all`, `check_and_resume_parent`, `run_with_injected_message` | task rows, chat messages, active sessions, tool loop, scheduler |
| **Task service and API** `agent/task/service.rs`, `api/routes/tasks.rs` | task rows: status, `run_at`, chat, kind | create, update, delete, cancel, `mark_*` | executor, scheduler |
| **Active sessions** `core/state.rs` | chat -> (generation, token) | `register`, `register_token`, `cancel`, `is_current`, `remove` | every turn; Stop |
| **Chat turns, human answers** `agent/harness.rs`, `chat/service.rs`, `api/routes/messages/*`, `chat/channel/hitl.rs` | messages and their status, tool calls and their question | send, answer, resume, complete, pause, cancel, fail, `resume_all` | active sessions, tool loop, channels |
| **Tool loop** `inference/tool_loop.rs` | none of its own; looks at the token | run tools in batches, ask a human, report an outcome | harness, executor |
| **Scheduler** `scheduler/mod.rs` | none; polls rows | sweeps of pending and deferred tasks, cron, signal timeouts, heartbeats | task rows, executor |
| **Signals** `agent/signal/`, `tool/await_signal.rs` | index of watches (user -> task -> watch), rebuilt from the rows at start | await, register, evaluate a candidate, fire within a budget, expire | inbound messages, task rows, executor |
| **Process supervisor** `core/supervisor.rs`, with **apps** `app/` and **MCP servers** `tool/mcp/` | children, their ports and restart counts; status rows | restore, health tick, hibernate; deploy, start, restart, stop, destroy, wake by the proxy | agent's tool, user's routes, proxy, notifications |
| **Channels** `chat/channel/` | a row per channel (intent and observation), a map of managers, the live adapter; per message a delivery state with a segment cursor | start, stop, update, connect, reconnect; attempt, record, retry, reconcile, carrier status | chat service, broadcasts, adapters, scheduler |
| **Knowledge memory** `memory/pkm/` | consolidation records, watermarks, vault files | sweep, sync, rename, reset, recovery | database, inference |
| **Auth** `auth/` | refresh pairs, failure counters, reset secrets | refresh, lock, issue, consume | database |
| **Credentials** `credential/` | encrypted rows, key pairs, grants | resolve, grant, rotate keys | vaults |
| Inference, policy, sandbox, storage, notifications, mail, calls, cost, spaces, contacts | mostly records and I/O | | |

How a task runs, in short: a row is created *Pending* and a future is spawned.
`run_task` takes a slot under the `active_tasks` lock or returns; `execute_task`
reads the status again, marks the row *InProgress*, and runs turns. A turn writes
into a message that is *Executing* and ends in a reply, a lifecycle event
(`complete_task`, `fail_task`, `defer_task`), a question for a human (the message
is *Paused* and the run ends), a cancellation or an error. A lifecycle event is
written to the row and delivered to the chat the task came from; the last child
of a parent starts the parent again. A *signal task* waits instead: an inbound
message is evaluated against the index of watches, and a match spawns a run of
the task with the message injected, beside the executor's slots.

How a message leaves, in short: a channel has a manager, which connects an
adapter and spawns a pipeline that listens to the broadcasts. When an agent
message is completed, the pipeline stamps its row with a delivery and walks its
segments (the texts of the tool calls, then the content); after each one it moves
a cursor in the row. The scheduler's poller walks the same rows when they are
due, and a fresh connection stamps the messages that nobody stamped.

What makes the components correct:

* executor: limits hold; one run per task; a slot is given back; a stop reaches
  every run; what is left Pending is driven again; a parent is resumed once;
* sessions: Stop finds the run that goes on; a superseded run harms nobody;
* chat turns: one turn per answered message, none before the last answer, none
  forgotten after a crash;
* signals: a pending wait hears the next candidate, fires within its budget, and
  ends when it expires;
* supervisor: a crashing process is restarted up to the limit, no port has two holders;
* channels: no manager that a stop cannot reach, and none of a disabled channel; an
  enabled channel is driven again; a completed message gets out, whole, and what is
  left to do is found again;
* memory: one pass per user, a window is not skipped, a crash repeats no window;
* auth and credentials: a refresh pair is consumed once; a rotation that failed
  half way can be finished.

The behaviours that are hard to test are listed, each at its line, under
`hazards` in `PROJECT.json`, with the properties that cover them or the reason
why none does.

## 2 The modules

| module | what it is |
|---|---|
| `SlotPool` | abstract: what admission promises, a pool of slots with a global and a per-owner limit |
| `TaskExecution` | the task executor with the rows, runs, messages, requests, sweeps and crashes around it; implements `SlotPool` |
| `ActiveSessions` | the registry of running turns |
| `ChatTurn` | turns of chats without a task; implements `ActiveSessions` as its user |
| `Signals` | signal tasks: rows, watches, evaluations, runs, expiry, crash and rebuild |
| `AppProcesses` | service apps under the process supervisor |
| `Channels` | the supervision of a channel: row, map, managers, broadcasts, operator |
| `Delivery` | the delivery of one message over such a channel |
| `..._proofs` | the theorems of the eight modules above |
| `MC...` | small instances for TLC |

Conventions. Modules keep the names of the code where they can. One action is
the code of one actor between two awaits at which another actor can observe it
or interfere. Bounds are CONSTANTS called `Max...` (and `Slots`, `Runs`, `Reqs`,
`Msgs`, `Calls`, pools of identifiers) and each is named as a bound where it is
declared. History variables (`stopped`, `checked`, `resumed`;
`open`, `byUser`, `raced`; `astray`; `given`, `overlap`, `deaf`; `mishap`, `stray`) are read
by properties only; `begun` in `Delivery` also says whether a carrier has something
to report. An operator under a comment
*Variant* is a wrong version of the definition after it; the properties are
tested by putting it in the definition's place (`mutants` in `PROJECT.json`).

### TaskExecution

State: `row` is the task table (`agent/task/models.rs`), `msg` the agent messages
of each task's chat as far as they decide whether a run starts or pauses,
`active` the `active_tasks` map, `run` the futures with a program counter,
`fired` their tokens, `stop` and `edit` requests that are half done, `booting`
what `resume_all` has found.

| actions | code |
|---|---|
| `CreateByApi`, `CreateByTool` | `TaskService::create` and who calls it |
| `Admit`, `RejectDuplicate`, `RejectAtLimit` | `run_task`, one critical section |
| `CheckStatus`, `MarkInProgress`, `BeginTurn`, `AutoComplete` | `execute_task` up to `run_loop`, and after the last turn |
| `EndTurn`, `EndWithEvent`, `TurnFails`, `TurnCancelled`, `AskHuman`, `ReportPending`, `PauseMessage` | the outcomes of the tool loop |
| `WriteOutcome`, `Deliver`, `CheckParent`, `ParentReturned`, `ReleaseSlot` | `handle_lifecycle_action`, `deliver_event_to_source`, `check_and_resume_parent`, `ActiveGuard` |
| `Answer` | `resolve_typed_and_resume` in a task's chat |
| `StopInChat`, `CancelByApi`, `DeleteByApi`, `MarkCancelled`, `FireToken`, `DeleteRow`, `InterruptTurn` | the four ways to stop a task |
| `ReadForEdit`, `WriteEdit` | `TaskService::update` with a title |
| `DeferralElapses`, `Sweep`, `Crash`, `Restart`, `SpawnResumed` | time, scheduler, process |

The run's slot is held from `Admitted` to `Releasing`: the guard spawns the
removal, so the future has returned (and its awaiter goes on) before the entry
is gone. The `mark_*` functions read and write the whole row but all set the
status themselves, and are one step; `update` writes back a status it read, and
is two.

### ActiveSessions

`entry` and `nextId` are the struct; `lease` is what a run got from `register`
and must pass to `remove`; `fired` are the cancelled tokens. Every operation
holds the lock and is one step. `FireOwn` is the task executor cancelling its
own token.

### ChatTurn

`message`, `call` are rows; `turn` the spawned turns; `req` the requests being
served, each with its place between two awaits; `entry`, `nextId`, `fired`,
`lease` the registry, changed only through the actions of `ActiveSessions`.
`SendMessage`, `CreateMessage`, `RegisterAndSpawn` are `stream_message`;
`Answer`, `WriteAnswer`, `Flip` are the typed answer of the web and of a channel
(the channel's turn registers itself: `RegisterSelf`); `ResolveUntyped` is the
answer without a typed response, which flips nothing; `ReturnCancelled`,
`CancelMessage`, `Notify` are `Harness::finalize` with its question to
`is_current`; `FindExecuting`, `SpawnResumed` are `Harness::resume_all`, which
runs beside the requests of a server that is already up.

### Signals

State: `row` (status, `evaluation_count`, `run_at`, whether the task has a chat),
`watch` is the index, `registering` the tool calls between the row and the
watch, `eval` the calls of `evaluate` with what they have read, `run` the spawned
futures, `sweep` is `run_signal_timeouts`.

| actions | code |
|---|---|
| `AwaitSignal`, `Register` | `await_signal`: the row first, then the watch |
| `Evaluate`, `ReadTask`, `EndExceeded`, `Unregister`, `Fire`, `EvalEnds` | `evaluate` and `fire_signal`: read the row, count in the copy, save it whole, spawn |
| `LinkChat`, `TurnEnds`, `MarkOutcome`, `Tell` | `run_with_injected_message` (its first run saves the row it was given), `handle_lifecycle_action` |
| `Admit`, `CheckStatus`, `MarkInProgress` | the ordinary runs that `resume_all` and `run_deferred_tasks` start for the same rows |
| `FindExpired`, `EndExpired`, `UnregisterExpired`, `SweepEnds` | `run_signal_timeouts` |
| `Cancel`, `Delete`, `Crash`, `Restart`, `FindResumable`, `RunResumed` | requests; the index is rebuilt from the Pending rows, then `resume_all` |

Which watches match and which the policy lets through is a free choice of a
subset (`Evaluate`). The two halves of `cancel_task` (status, token) are one
step. A `mark_*` function reads the row but sets the status whatever it read,
and is one step; the saves of `fire_signal` and of the first run write what they
read before, and are two. `report_signal` changes none of this state.

### AppProcesses

`row` keeps the status only (`Down` is *Stopped* or *Failed*, which no code path
tells apart here), `proc` is the manager's map with each child and its
`restart_count`, `allocated` the pool of ports, `act` the actors (requests,
proxied calls, the supervisor) with the next call of each, `phase` and `todo` the
loop of `core/supervisor.rs`.

| actions | code |
|---|---|
| `Deploy`, `StartRequest`, `RestartRequest`, `StopRequest`, `Destroy`, `Wake` | how `AppService` and the proxy begin: the row is read, and what it said decides what follows |
| `Kill`, `Alloc`, `Spawn`, `SpawnFails`, `Record`, `Failed` | `stop_app`, `start_app` and what its callers write |
| `StoreStarting`, `StoreStopped`, `MarkHibernated`, `Delete` | their writes of the row |
| `TryRestart`, `SetCount`, `Watch`, `Forget` | `try_restart_crashed` of the supervisor and of `deploy_and_await` |
| `FindRunning`, `FindDead`, `FindIdle`, `Sleep`, `Visit`, `GiveUp`, `AutoFix`, `AutoFixWrite` | the supervisor |
| `ChildEnds` | a child exits or crashes |

Every lock and every database call is a step of its own; nothing in the code
keeps two actors from working on one app at once. Start, restart and wake share
the operation `starting` because they differ only in how they begin. `SetCount`
is the `expect` after a restart: if a stop came in between, the actor panics.

### Channels

`row` is one channel: `enabled` and `config` are what the operator wants,
`status` what was observed. `map` is the supervisor's map, `manager` the spawned
managers, `cancelled` their tokens, `news` the broadcasts no handler has looked
at, `handler` what a handler has read, `request` the operator's request, `tick` a
health check that found the channel.

| actions | code |
|---|---|
| `Insert` | the task that `start` spawns: it enters the map, or gives way |
| `Load`, `MarkRead`, `MarkWrite`, `BuildAttempt`, `Connected`, `Disconnected`, `BackoffEnds`, `NoticeCancel`, `Panic`, `Leave` | `ChannelManager::run`, `mark_status`, `SlotGuard` |
| `HandlerReads`, `HandlerActs` | the broadcast watcher |
| `Ask`, `AskRead`, `AskWrite`, `AskKick`, `DeleteRow` | `start`, `stop`, `update`, `delete`, refresh of the setup |
| `FindActive`, `StartDead` | `restore` and `health_tick` with `find_running`, `find_dead` |
| `Crash` | the process ends and starts again |

Everybody reads the row and writes it back whole, in two steps, and every write
is broadcast. What a handler finds in the row and in the map are two reads in the
code and one step here: between them the handler holds nothing, and the map may
change before it acts in any case (`start` decides when the manager is inserted).
After `Panic` a manager is at the place `panicked`: only its `SlotGuard` still runs,
which is `Leave`. If it had built its connection, the connection's two pipelines go
on without it (`LeftBehind`), and `Leave` records that in `stray`: only a crash of the
process ends them.

### Delivery

`row` is the delivery field of one message, `writer` each walk of its segments
(the pipelines and the poller) and one request, with the copy it will write back;
`pipeline`, `inbox`, `current`, `link` are the connection as far as the message
sees it.

| actions | code |
|---|---|
| `Complete`, `Announce`, `Request` | `complete_agent_message` and its broadcast; a carrier's report, an edit of the metadata |
| `Build`, `Subscribe`, `ResumeDeliveries`, `Reconcile`, `StampOrphan`, `Drop`, `PipelineEnds`, `Crash` | a connection, its pipeline, and what it does for older messages |
| `TakeEvent`, `EnsureRead`, `EnsureWrite` | `handle_outbound_event`, `ensure_pending_delivery` |
| `FindDue`, `FindAdapter`, `Reload` | the poller; each turn of `attempt_all_segments` |
| `Skip`, `SendContent`, `AdapterTakes`, `AdapterFails`, `RecordWrite` | `attempt_send` and the `record_*` functions |
| `BackoffElapses` | time |

The call of the adapter and the read of the record after it are one step: what
happens between them is the same as what happens just before the call, because
the walk reads nothing in between. `Progressed`, `Finished`, `Failed` and
`Reported` are the four records as functions of the copy.

## 3 The runs

All runs that pass explore their whole state space.

| run | instance | question |
|---|---|---|
| `TaskPool` | a parent and 2 children, 4 runs, 2 slots, 2 agents with limits 1 and 2 | the server's limit, one run per task, slots owned: sweeps race the runs of earlier sweeps; is the parent resumed when its children ended by themselves |
| `TaskStop` | 1 task, 2 runs, 2 stops, 1 edit, 1 deferral, 1 question | is a stopped task really stopped, whatever the stop meets |
| `TaskLive` | 2 tasks of an agent with 1 slot, 2 slots, 1 crash | the agent's limit; are due tasks taken and slots given back |
| `Sessions` | 3 runs, 2 chats, 4 registrations | who supersedes whom, who removes what |
| `ChatTurns` | 2 messages, 1 Stop, 1 crash | Stop (of a message's turn from its spawn on), interruption, registry; does every executing message end |
| `ChatAnswers` | 1 message, 2 questions, 2 requests, 1 untyped answer, 1 Stop, 1 crash | answers that race each other, a Stop and a restart |
| `Apps` | 1 app, supervisor, 1 request, 1 proxied call, 3 ports, restart limit 1 | ports, restart limit, crashes that nobody handles |
| `Signals` | 1 wait for one message, budget 1, 1 evaluation, 2 runs, 1 stop, 1 deferral, 1 crash | budget, is a pending wait heard, does an expired one end |
| `Channels` | 1 channel, 2 managers, 1 handler, 2 configurations, 2 requests, 1 fault | managers out of reach, a channel left undriven, a disabled one left with a manager |
| `ClaimStops` | the same | section 4 |
| `Delivery` | 2 tool calls (one silent), 1 pipeline, the poller, 1 request, 1 fault, 2 attempts | is the rest found again, are segments skipped, does the message get out |
| `ClaimSent` | 2 tool calls, 2 pipelines, no request | section 4 |

Why these bounds are enough.

*Tasks and chats.* The races of the executor are between a run and one
other actor (a second run of the task, a stop, a sweep, a sibling), and each
instance has both and one more. With four runs two slots can be taken, a third
run rejected and a fourth spawned by the next sweep at the same time. Each limit is
reached where the other leaves room: in `TaskPool` a parent and two children, for
all of which their agents have room, compete for two slots; in `TaskLive` two tasks
compete for the one slot of their agent on a server with two. The two children look
at their siblings at once, and the parent they resume may find the limit reached.
`MaxTurns = 1` keeps the loop (one turn, then automatic completion); a second
turn repeats the same steps from the same kind of state. Two stop requests are
the fewest that stop a run, let a second start and stop that. Two requests
answer the same question twice or both questions at once; that a third changes
nothing is proved. `MaxId` is
never the reason why a run ends without its `Register`: it is at least the
number of turns an instance can start, and more than that in `ChatTurns`, which
checks liveness. Symmetry is used for runs, requests and
the two children, which no definition of those instances tells apart,
and never in a run that checks liveness.

*Apps.* No definition relates two apps but the pool of ports, and for the pool a
second holder is a second start of the same app: the request, the proxied call
and the supervisor are three that can hold a port between allocation and
insertion. Three ports are enough for one to leak, one to be held and one to be
allocated, and few enough to run out. A limit of one restart is reached and
passed on to `mark_failed`.

*Signals.* One evaluation at a time still overlaps with a run, a sweep, a stop
and a deferral, which are the other writers of the row; two runs are a candidate's
and an ordinary one. Two evaluations only add a second stale copy, which the
proof of `BudgetKept` covers for any number. The instance is a wait for one
message; a monitor (`continuous`) differs in the status its end gets and in that
it cannot be deferred, and is covered by the proofs.

*Channels.* Two managers are the old and the new one of a restart; a third start
gives way at the map like the second. `MaxNews = 1` merges broadcasts that nobody
has handled: a handler reads the row when it runs, so of two unhandled broadcasts
the second finds the same row as the first could. Two requests let the operator
stop what they started, or change the configuration under a manager.

*Delivery.* Two tool calls give a segment to skip that is neither the first nor
the content. One pipeline and the poller already overlap (`overlap`), and a report
or an edit is a third writer. The safety properties were also explored with two
pipelines and with two faults, and are proved for any number.

`CHECK_DEADLOCK FALSE` where everything may be over: all tasks ended, all
messages settled, all apps gone, bounds used up. `Sessions` can always restart
and needs none.

What some properties leave out, and why:

* `StopClosesStartupWindow` states the comment in `cancel_generation`
  (S/`api/routes/messages/mod.rs:114-122`): the status is persisted before the
  token is fired, "which closes the startup window too".
* `LastChildResumesParent` speaks of children that ended by themselves and whose
  run has looked at its siblings (`checked`). A child falls out again when the
  process crashes or a title edit writes an old status over its outcome: what it
  saw is then not what is in the table (section 4, Tasks).
* `OneTurnPerMessage`, `OutcomeIsFinal` and `AnsweredBeforeResume` leave out the
  messages in `raced`: those that `resume_all` found *Executing* because a
  request of the running process had just started their turn (section 4, Chats).
* `LastAnswerResumes` speaks only of messages that were paused with a question
  open and answered by typed answers of the same process; section 4 tells what
  happens to the others.
* `ExecutingEnds` is checked without questions, because what a turn does that is
  resumed with an open question lies inside the inference.
* `PendingIsHeard` leaves out the tasks in `astray`: those whose end was
  overwritten by an older copy (nothing registers their watch again) and those
  that were *InProgress* when the process restarted (the index is rebuilt from
  the *Pending* ones).
* `CompletedGetsOut` leaves out the histories in which the message's event fell
  between the connection's reconciliation and the pipeline's subscription
  (`deaf`): the code then waits for the next connection.
* `NoGapAlone` holds for one writer at a time; with two it is false, which is
  `ClaimSent`.
* `StoppedIsShown` leaves out histories in which a row was written from an old
  copy, a manager panicked or the process crashed (`mishap`): all three leave a
  status behind that nobody corrects.
* `EnabledIsArmed` and `DisabledEnds` leave out no history, but like
  `RunningIsMapped` they speak of managers: what a manager that panicked leaves
  behind is `ClaimStops`. They are of the form "again and again" and not "from some
  time on": two marks with old copies can keep switching `enabled`, each write
  being broadcast and starting or stopping what marks the next.
* `StopReachesTurns` speaks of the turn of a message from the moment it is spawned,
  and of other turns from their first step on: the turn that a channel's answer or
  the boot resume starts registers itself when it runs, and a Stop before that
  finds nothing.
* `BudgetKept` and `RestartsBounded` bound a count from above. What loses a count
  makes the number smaller and is not seen by them.
* `CrashIsHandled` lets the supervisor's own panic excuse it (section 4).

## 4 What the code does otherwise

Two runs end in a counterexample; `findings` in `PROJECT.json` quotes the lines.

**`ClaimSent`.** The cursor is said to walk each tool call's text and then the content. The
pipeline stamps a message *Pending* and due at once, so the scheduler's poller
finds it while the pipeline sends its first segment. Both send it, and each adds
one to the cursor it reads: the second segment is never sent, and the row says
*Sent*. No fault is needed.

**`ClaimStops`.** The token of the context is said to be the one signal by which
`stop_channel` ends an adapter's work, and `SlotGuard` to cover a panic. A panic of
`ChannelManager::run` gives no signal. Dropping `attempt_cancel`
(`chat/channel/supervisor.rs:196`) cancels nothing, the teardown that would is
skipped, and `SlotGuard` takes out of the map the last way to its parent token. The
pipelines of the attempt (405-426) keep adapter and context, and `run_outbound`
(793-820) looks neither at the map nor at `enabled`. So a stop finds no manager, and
the stopped or deleted channel goes on sending until the process ends. Without that
stop the health check starts a second manager: messages are then dispatched by two
connections, and a later stop reaches the new one only.

The following behaviours are in the models of the passing runs, whose properties
say what holds in spite of them. Each is a hazard in `PROJECT.json`.

*Tasks.*

1. "limit reached, task stays Pending" (`executor.rs:431`). A task that paused
   for a human is *InProgress* and holds no slot. If its answer arrives while the
   limit is full, the run is rejected and the row stays *InProgress*: the sweeps
   look for *Pending* rows only, so nothing drives it until the process restarts.
2. Cancelling a live task is said to be idempotent (`executor.rs:496-498`). A run
   that has looked at its token for the last time writes its own outcome over
   *Cancelled*; with `defer_task` that outcome is *Pending* and the cancelled
   task runs again later.
3. "You will be resumed with the result." (`tool/task.rs:515`). A cancelled child
   never looks at its siblings. When it is the last to end, the parent is not
   resumed, although the sibling's result is there.
4. A title edit writes back an old status; a crash between `mark_completed` and
   the delivery loses the result; a paused task is run again at boot; a parent is
   rejected by the limit that the child which awaits it fills.

*Chats.* An answer resumes the turn. A question can be answered as soon as it is
stored, while the turn still runs its other tools. Such an answer finds the
message *Executing* and starts nothing; the turn then pauses the message without
looking again. It stays *Paused* with nothing to answer.

`resume_all` runs beside the requests of a server that is already up (`main.rs`
spawns it) and takes every *Executing* message for one left behind by the earlier
process: a message sent or answered before its query has its own turn and gets a
second one, and the later of their outcomes stays.

*Signals.* A restart runs pending waits as ordinary tasks without a candidate,
because `find_resumable` does not leave them out. `fire_signal` saves the whole
row it read and undoes a cancel or a timeout that came in between. A run by a
candidate has a token that nobody holds, so no stop reaches it. A timeout tells
no parent.

*Apps.* A start that fails to spawn keeps its port; two wakes of a hibernated app
start two children, of which the first is lost with its port; a stop during a
supervised restart makes `expect("process just inserted by start_app")` panic,
which ends the supervisor; an automatic fix writes back an old status.

*Channels.* A comment in the code says that `status` is written by the supervisor
and `enabled` by the service (`chat/channel/models.rs:84-88`); both write the
whole row, so a mark can switch a stopped channel on again. A manager that is
being replaced marks *Disconnected* over its successor's *Connected*. A start that
was asked for before a stop can enter the map after it; the next broadcast ends
it. A manager that panics leaves its last status behind, and its connection
(`ClaimStops`).

*Delivery.* A crash between a send and its record sends the segment again. A
carrier's report on the first part of a message whose rest then fails leaves a row
that is *Delivered* and due, which the poller finds on every turn. A report or an
edit written from an old copy can undo *Sent*.

## 5 Fairness

`TaskExecution!FairSpec`: every future that can go on is polled (weak fairness
of `RunStep` and of `Handler`, the rest of an accepted request); a turn ends,
because inference and tools have timeouts and the tool loop has a turn limit;
time passes (`DeferralElapses`); a crashed server is started again; and the
scheduler sweeps in a loop (`scheduler/mod.rs`, both sweeps on every tick). The
sweep and the spawn at boot are *strongly* fair only because `Runs` is a pool of
the model: a spawn in the code never waits for an idle identifier, in the model
it may be disabled again and again. Users owe nothing: no fairness on requests,
answers or Stop; and none on crashes, deferrals or questions.

`ChatTurn!FairSpec` is the same for requests being served, turns and the boot
resume. A request being served goes on: the model has no handler that is dropped
because its client disconnected between the write, the flip and the registration
(section 7).

`Signals!FairSpec`: the scheduler's sweep of expired waits and the restart, and
nothing else; `ExpiredIsEnded` needs neither candidates nor runs.

`AppProcesses!FairSpec`: the supervisor's own steps, each of which is a call that
returns, and its loop. Requests, proxied calls and children owe nothing.

`Channels!FairSpec`: spawned tasks, accepted requests, handlers and the health
check. An adapter need not stay connected, and no request need come.

`Delivery!FairSpec`: the announcement by whoever completed the message, the
connection (the manager reconnects with a backoff that is bounded), pipelines,
walks, the poller (a loop of the scheduler) and the time of a backoff. An adapter
that is called returns, with one result or the other.

## 6 The proofs

The theorems hold for every value of the constants that satisfies the named
assumptions (`TaskAssumption`, `SessionAssumption`, `ChatAssumption`,
`AppAssumption`, `SignalAssumption`, `DeliveryAssumption`, `ChannelAssumption`):
any number of tasks, agents, runs, chats, messages, apps, ports, managers and
requests, and any limits.

* `SlotPool_proofs`, **`LimitsHold`**: `CapsRespected` by the inductive invariant
  `PoolInv`, which adds that the set of holders is finite: without it a
  cardinality means nothing.
* `TaskExecution_proofs`, **`TypeCorrect`**: `TypeOK` is not inductive: where a
  run is decides what it must carry (a task, a message, a turn below the limit,
  an outcome, a parent). `TypeInv` adds that (`RunOK`).
* **`SlotsOwned`**: given `TypeInv`, `SlotOwned` is inductive. It links the map to
  the futures in both directions; one direction alone is not preserved (a release
  by key could remove the entry of another run of the same task).
* **`AtMostOneRun`** follows from `SlotOwned`: two working runs of a task are both
  the one the map names.
* **`ExecutorIsAPool`**: under the refinement `held <- Held`, `Admit` is
  `Acquire`, `ReleaseSlot` is `Release`, `Crash` is `Reset` and every other step
  stutters. `ReleaseSlot` needs `SlotOwned`: the key it removes is held.
* **`LimitsRespected`** combines the refinement with `LimitsHold`.
* **`StopReachesTheRun`** (`StopClosesStartupWindow`): that no turn of a stopped task
  lacks a fired token now says nothing of the turn that begins a moment later.
  `StopOK` does: a stopped task is *Cancelled* or deleted, or its run, the one in
  the map, is cancelled (`Ending`); and a run that will still look at its token or
  at the row is cancelled, or will find that status when it looks (`Told`).
  `SlotOwned` makes the run in the map the only one of the task. What overwrites
  the status (an outcome, a stale edit) takes the task out of `stopped`.
* **`LastChildSeesAll`** (`LastChildResumesParent`): `FamilyOK` says that while nobody
  has resumed the parent, some child has not ended or has still to deliver its
  result or to look at its siblings: the last one to write its outcome looks after
  all the others wrote theirs. Both proofs need `Born`: a task that is not created
  yet has no requests, no runs and no created children.
* `ActiveSessions_proofs`, **`SessionInvariant`**: `CurrentOrCancelled` and
  `NoOrphanEntry` hold each other up, and both need that generation numbers in
  use are distinct and below the counter (`LeasesDistinct`): with a number used
  twice a superseded run could remove its successor. **`SessionTypeCorrect`**,
  **`EntryHasItsRun`**, **`StopReachesRun`**, **`AtMostOneUncancelled`** and
  **`RemovedByOwner`** follow.
* `ChatTurn_proofs`, **`TurnsUseSessions`**: a turn or request under way has a
  message (`ActorsTyped`), so every registration is for a chat, and each step is
  an operation of `ActiveSessions` or leaves the registry alone. `SessionInv`
  carries over by that refinement; it is not proved a second time.
* **`StopReaches`** adds `TurnsPlaced`: a turn past its start, and the turn of a
  message from its spawn on, has a lease of its message's chat, an idle run has none. A turn in the tool loop is then the
  current entry of its chat, which Stop cancels, or it is cancelled already.
* **`SupersededStaysSilent`** rests on `FiredByUser`: a token that is fired while
  its entry is current was fired by a Stop. A registration keeps that because it
  replaces the entry in the same step as it cancels, and because a generation
  number in use is never handed out again (`LeasesDistinct`).
* **`TypeCorrect`** puts `ActorsTyped` and `SessionInv` together.
* **`OneTurnAtATime`** (`OneTurnPerMessage`): a turn is not the only one that holds a
  message; so do a request between the flip and the registration, and the boot
  resume. `HeldOK` says of each message outside `raced` that it has at most one
  holder of the three kinds, and that it is *Executing* when it has one: the flip,
  which wants *Paused*, then finds nobody. A turn holds its message until the
  outcome is written (`Holding`), which is longer than the property asks.
  `FreshOK` is where this begins: a message that is not created yet belongs to the
  one request that creates it.
* **`OutcomesAreFinal`** (`OutcomeIsFinal`) follows from `HeldOK` and `FreshOK`: who
  writes an outcome holds the message, so it was *Executing*; a flip wants *Paused*.
* **`ResumedWithAnswers`** (`AnsweredBeforeResume`): `ReadyOK` extends the promise to
  the request that flipped the message and has still to register. New questions
  are asked by a turn that works, and `HeldOK` excludes that one beside it.
* **`LastAnswerIsSeen`** (`LastAnswerResumes`): `OpenOK`, which is the property by
  message: the request that resolves the last question is the one about to flip.
* `AppProcesses_proofs`, **`AppInvariant`**: `PortsExclusive` is inductive only
  with the start in it (a port between allocation and insertion has a holder too)
  and with `AppNamed`: an actor that is under way has an app. A kill frees the
  port of a process; nobody else can hold it, because every port held has one
  holder. **`RestartsStayBounded`** needs the counts that actors carry as well as
  those of the processes: a restart writes its count into a new process.
* `Signals_proofs`, **`SignalInvariant`**: **`BudgetIsKept`** needs the budget of
  every copy that will be written (`EvalOK`, `RunOK`). **`PendingStaysHeard`** is
  not inductive: a task that is *InProgress* can become *Pending* again when its
  run defers it, so `Heard` says of every waiting task, not only of the pending
  ones, that it has its watch; and whoever is about to unregister a watch has
  seen that the task is over, which stays so unless the task is `astray`.
* `Delivery_proofs`, **`DeliveryInvariant`**: every copy of the row is as sound as
  the row (`Sound`, `CopyOK`: *Pending* with a due time, *Sent* only with the
  content given), which is why it does not matter who writes last. For
  **`NoGapWithoutOverlap`**, `InStep` adds that while writers never overlapped
  the only copy is the row itself and a record of progress follows a segment that
  was given.
* `Channels_proofs`, **`ChannelInvariant`**: `RunningIsMapped` with the converse,
  that the manager in the map is at work and not cancelled (`Mapped`), and that a
  manager that rests is not cancelled (`RestingOK`): otherwise a manager could be
  reused with the token of an earlier one. A manager that panicked counts as running
  until its `SlotGuard` has taken it out; its connection is no part of the theorem. `MarkOK` says where a mark leads, so
  that a mark does not start a manager anew.
* **`StoppedStaysShown`** (`StoppedIsShown`): quiet states are only the end of the
  story, so `Shown` says of every state that a row which shows a connection has a
  manager at work, unless there was a `mishap`; `LeavesOver` adds that a manager
  that is about to leave writes *Disconnected* or *Failed* before it does.

Every invariant and every safety property of a passing run is proved. Only
model-checked: liveness (`DueTaskIsTaken`, `SlotsComeBack`, `ExecutingEnds`,
`CrashIsHandled`, `ExpiredIsEnded`, `EnabledIsArmed`, `DisabledEnds`,
`CompletedGetsOut`), as fairness and ENABLED are beyond the prover; of the last one
a safety part is proved (`PendingStaysDue`: a pending message always has a time at
which the poller finds it). Nothing in the proofs rests on induction over data: no
module that is proved about declares a recursive operator.

## 7 Limits of the model

* Texts, prompts, attachments, titles, usage records and broadcasts are left
  out, apart from the cancelled event that `SupersededIsSilent` is about, the
  broadcasts of channel rows and those of a completed message.
* Database errors are left out. An update of a deleted row writes nothing; the
  `mark_*` functions, which read the row first, fail on it.
* In `TaskExecution`: the status field of `update` (only its title edit is
  there), cron templates and runs, children created without `process_result`,
  graceful shutdown. A chat has a few message slots that are used again once
  settled. Signal tasks are in `Signals`, without slots and messages. Also left out:
  a parent that is a user's chat, which `check_and_resume_parent` resumes with a
  fresh message (`executor.rs:1243-1279`); and the second chat that a swept row
  read before its first chat was linked makes (`executor.rs:575`, 1066-1087).
  `EndTurn` joins the last look at the token with the settling of the message.
* `execute_task` first looks for a lifecycle event left in the chat by an
  earlier process (`executor.rs:585`). Nothing under src/ but tests writes such
  a row (`save_system_event`), so the search never finds one and is left out.
* In `ChatTurn`: a handler that the HTTP server drops when its client disconnects.
  Dropped between the flip and the registration it would leave an *Executing*
  message without a turn, and dropped before the flip a *Paused* one whose questions
  are all answered; `ExecutingEnds` and `LastAnswerResumes` hold for handlers that
  run to their end.
* Also in `ChatTurn`: slash commands, edits, the delivery of questions to other
  surfaces, and chats that belong to a task (their Stop, interruption and
  answers are in `TaskExecution`).
* In `Signals`: the matcher, the policy, categories and annotations; which
  watches a candidate fires is open. Limits on admission are a free choice of
  `Admit`. A run that asks a human ends (`TurnEnds`); the answer that resumes it is
  not there.
* In `AppProcesses`: static apps, which have no process; access times, so that
  which app is idle is open; approvals, credentials and manifests apart from the
  restart policy; children that outlive a crashed server (`Init` starts with any
  rows and no children). Identifiers of apps are not used again. Only children that
  the manager holds are represented: `remove_process` (`app/manager.rs:250-255`, from
  `app/service.rs:432-436`) may drop one that lives without killing it, and frees its
  port; `PortsExclusive` does not count that orphan. `update_last_accessed`, which
  writes a whole row it read (`app/service.rs:343`), and the supervisor's shutdown
  branch (`core/supervisor.rs:71-79`) are left out; the two reads of `Visit` are one
  step.
* In `Channels`: pairing and the setup overlay (written to the same row, by the
  same two steps), secrets, bindings, webhooks. One channel: managers of two
  channels share only the lock of the map. A manager panics while it builds,
  shakes hands or is connected, not between the read and the write of a mark.
* In `Delivery`: one message, from its completion on; prompts for questions,
  which count as segments without a text; the cap of 256 segments per dispatch;
  the adapters, each of which takes a segment or fails.

Not modelled, each with its reason in `PROJECT.json`: MCP servers (their manager
and leases; the supervisor loop they share is in `AppProcesses`), cron and
heartbeats, the inside of the tool loop, knowledge memory, basic memory and
compaction, auth tokens, lockout and password reset, users and groups,
credentials and key rotation, inference providers, the execution registry,
configuration, policies, the sandbox, calls, notifications, storage, the other
crates and the web client. Most of these are records and I/O of one request at a
time, or algorithms over text and vectors, where a model of the control would say
little. Three of them have hazards of their own, which are listed: cron templates
(`scheduler/mod.rs:286`), MCP restart counts (`tool/mcp/manager.rs:419`) and key
rotation (`credential/key_rotation.rs:84`).

## 8 The plan

Done: 1 `SlotPool` and `TaskExecution`; 2 `ActiveSessions`; 3 `ChatTurn`;
4 `AppProcesses`; 5 `Signals`; 6 `Channels`; 7 `Delivery`; each with proofs.

What would come next, in this order: a composition of `ChatTurn` and
`TaskExecution` over one task chat (a chat message that answers a task's question
bypasses the executor); `CronScheduler`, firing against advancing and cancel; the
manager of MCP servers under the loop of `AppProcesses`; the stages of a
consolidation (pkm) with its crash points. Theorems to come: the safety steps of
the liveness properties (for `SlotsComeBack`, that a run which left its loop only
moves towards its release), and sharper versions of properties that leave out
whole histories: `StoppedIsShown` from the first fresh mark after a mishap,
`PendingIsHeard` for a task that was astray and is registered again.
