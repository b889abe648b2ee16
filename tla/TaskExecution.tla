--------------------------- MODULE TaskExecution ---------------------------
(***************************************************************************)
(* The life of a one-off task: its row in the task table, the executor's   *)
(* active_tasks map, every spawned run_task future, the messages of the    *)
(* task's chat as far as they decide whether a run starts, pauses or       *)
(* resumes, the requests that stop, delete or edit the task, the           *)
(* scheduler's sweeps and a crash with the restart that follows it.        *)
(*                                                                         *)
(* One step of a run is the code between two awaits that other actors can  *)
(* observe.  The services' mark_* functions read the row and write it      *)
(* back; they always set the status themselves, and run_at is written by   *)
(* mark_deferred alone, so each of them is one step here.  The title edit  *)
(* (TaskService::update) writes back the status it read and is two steps.  *)
(*                                                                         *)
(* A definition called a variant is a wrong one, which the properties must *)
(* tell from the code's.  Cron templates, cron runs and signal matchers    *)
(* are not in this module.                                                 *)
(***************************************************************************)
EXTENDS Naturals, FiniteSets

CONSTANTS
    Tasks, NoTask,
    Agents, AgentOf,    \* the agent a task runs under
    ParentOf,           \* the task whose chat a task was created from with
                        \* resume_parent, NoTask for a task of the API
    Runs, NoRun,        \* spawned run_task futures (a pool of identifiers)
    MaxConcurrent,      \* server.max_concurrent_tasks
    AgentMax,           \* max_concurrent_tasks of each agent, 3 by default
    MaxTurns,           \* MAX_TASK_RETRIES
    Slots,              \* bound: agent messages of a chat not yet settled
    MaxStops,           \* bound: stop, cancel, delete and interrupt requests
    MaxEdits,           \* bound: title edits
    MaxDefers,          \* bound: defer_task calls
    MaxAsks,            \* bound: tool calls that wait for a human
    MaxCrashes          \* bound: crashes

ASSUME TaskAssumption ==
    /\ AgentOf \in [Tasks -> Agents]
    /\ ParentOf \in [Tasks -> Tasks \cup {NoTask}]
    /\ NoTask \notin Tasks
    /\ NoRun \notin Runs
    /\ MaxConcurrent \in Nat /\ AgentMax \in [Agents -> Nat]
    /\ MaxTurns \in Nat \ {0}
    /\ MaxStops \in Nat /\ MaxEdits \in Nat /\ MaxDefers \in Nat
    /\ MaxAsks \in Nat /\ MaxCrashes \in Nat
    /\ 0 \notin Slots

VARIABLES
    row,        \* the task table
    msg,        \* the agent messages of each task's chat
    active,     \* active_tasks: task -> the run whose token it maps to
    run,        \* the spawned futures
    fired,      \* the runs whose CancellationToken is cancelled
    stop,       \* the stop request being served for each task
    edit,       \* the row an edit request has read and not yet written
    booting,    \* tasks resume_all found and has not spawned yet
    up,         \* the process is alive
    stopped,    \* history: tasks a completed stop request cancelled, not requeued since
    checked,    \* history: tasks whose run has looked at its siblings, in this
                \* process and with no stale row written over its own since
    resumed,    \* history: parents a child's run has resumed
    left        \* what is left of each bound

vars == <<row, msg, active, run, fired, stop, edit, booting, up, stopped,
          checked, resumed, left>>
history == <<stopped, checked, resumed>>

-----------------------------------------------------------------------------
Terminal == {"Completed", "Failed", "Cancelled"}
Status == {"Pending", "InProgress"} \cup Terminal
\* A row before create and after delete is no row at all; chat says that the
\* row names the task's chat, which the first run creates.
RowStatus == Status \cup {"Uncreated", "Deleted"}
Row == [status : RowStatus, runAt : {"None", "Later", "Due"}, chat : BOOLEAN]
NoRow(s) == [status |-> s, runAt |-> "None", chat |-> FALSE]

Outcome == {"Completed", "Failed", "Deferred", "Cancelled"}
\* Where a run_task future stands.  The future holds a slot from Admitted to
\* Releasing: the entry is removed by a task that ActiveGuard::drop spawns.
Holding == {"Admitted", "Starting", "Turn", "Inference", "Asking", "Pausing",
            "Finishing", "Delivering", "Checking", "Awaiting", "Releasing"}
PC == Holding \cup {"Idle", "Spawned"}
Run == [pc : PC, task : Tasks \cup {NoTask}, turn : 0..MaxTurns,
        msg : Slots \cup {0}, outcome : Outcome \cup {"None"},
        waiter : Runs \cup {NoRun}]
IdleRun == [pc |-> "Idle", task |-> NoTask, turn |-> 0, msg |-> 0,
            outcome |-> "None", waiter |-> NoRun]

\* A message is settled when it is completed, cancelled or failed, or when the
\* slot is unused; pending says that it has a tool call a human must answer.
Message == [status : {"Settled", "Executing", "Paused"}, pending : BOOLEAN]
Settled == [status |-> "Settled", pending |-> FALSE]

Stages == {"None", "Mark", "Fire", "DeleteMark", "DeleteFire", "DeleteRow"}
NoEdit == NoRow("Deleted")
Bounds == {"stops", "edits", "defers", "asks", "crashes"}
Limit(b) == CASE b = "stops" -> MaxStops   [] b = "edits" -> MaxEdits
              [] b = "defers" -> MaxDefers [] b = "asks" -> MaxAsks
              [] b = "crashes" -> MaxCrashes

Exists(t) == row[t].status \in Status
Children(p) == {t \in Tasks : ParentOf[t] = p}
Live(r) == run[r].pc \in Holding

TypeOK ==
    /\ row \in [Tasks -> Row]
    /\ msg \in [Tasks -> [Slots -> Message]]
    /\ active \in [Tasks -> Runs \cup {NoRun}]
    /\ run \in [Runs -> Run]
    /\ fired \subseteq Runs
    /\ stop \in [Tasks -> Stages]
    /\ edit \in [Tasks -> Row]
    /\ booting \subseteq Tasks
    /\ up \in BOOLEAN
    /\ stopped \subseteq Tasks
    /\ checked \subseteq Tasks
    /\ resumed \subseteq Tasks
    /\ left \in [Bounds -> Nat]

\* What a run carries at each place; with TypeOK it is inductive.
RunOK(x) ==
    /\ x.pc # "Idle" => x.task \in Tasks
    /\ x.pc \in {"Inference", "Asking"} => x.turn < MaxTurns
    /\ x.pc \in {"Inference", "Asking", "Pausing"} => x.msg \in Slots
    /\ x.pc = "Finishing" => x.outcome \in Outcome
    /\ x.pc = "Checking" => ParentOf[x.task] # NoTask
TypeInv == TypeOK /\ \A r \in Runs : RunOK(run[r])

Init ==
    /\ row = [t \in Tasks |-> NoRow("Uncreated")]
    /\ msg = [t \in Tasks |-> [m \in Slots |-> Settled]]
    /\ active = [t \in Tasks |-> NoRun]
    /\ run = [r \in Runs |-> IdleRun]
    /\ fired = {}
    /\ stop = [t \in Tasks |-> "None"]
    /\ edit = [t \in Tasks |-> NoEdit]
    /\ booting = {}
    /\ up = TRUE
    /\ stopped = {} /\ checked = {} /\ resumed = {}
    /\ left = [b \in Bounds |-> Limit(b)]

-----------------------------------------------------------------------------
\* tokio::spawn of run_task(task), awaited by w when w is a run.
Future(t, w) == [IdleRun EXCEPT !.pc = "Spawned", !.task = t, !.waiter = w]
Spawn(t) == \E r \in Runs : /\ run[r].pc = "Idle"
                            /\ run' = [run EXCEPT ![r] = Future(t, NoRun)]
                            /\ fired' = fired \ {r}
SetStatus(t, s) == row' = [row EXCEPT ![t].status = s]
\* The chat of a deleted task has no messages left to write.
SetMessage(t, m, v) == msg' = IF Exists(t) THEN [msg EXCEPT ![t][m] = v] ELSE msg
Goto(r, p) == run' = [run EXCEPT ![r].pc = p]
\* Variant: an early return leaves the entry in active_tasks.
ReturnLeakingSlot(r) == run' = [run EXCEPT ![r] = IdleRun]
\* The future returns: whoever awaits it goes on, its slot is not yet removed.
Return(r) == run' = [run EXCEPT ![r].pc = "Releasing", ![r].waiter = NoRun]
Use(b) == left[b] > 0 /\ left' = [left EXCEPT ![b] = @ - 1]

\* TaskService::create: a task that is due starts at once, one with a later
\* run_at waits for the scheduler.
Create(t) ==
    \/ SetStatus(t, "Pending") /\ Spawn(t)
    \/ /\ row' = [row EXCEPT ![t].status = "Pending", ![t].runAt = "Later"]
       /\ UNCHANGED <<run, fired>>

\* POST /api/tasks.
CreateByApi(t) ==
    /\ up /\ row[t].status = "Uncreated" /\ ParentOf[t] = NoTask
    /\ Create(t)
    /\ UNCHANGED <<msg, active, stop, edit, booting, up, history, left>>

\* The create_task tool with process_result, called in a turn of the parent.
CreateByTool(r, t) ==
    /\ up /\ row[t].status = "Uncreated" /\ ParentOf[t] # NoTask
    /\ run[r].pc = "Inference" /\ run[r].task = ParentOf[t] /\ r \notin fired
    /\ Create(t)
    /\ UNCHANGED <<msg, active, stop, edit, booting, up, history, left>>

-----------------------------------------------------------------------------
(* run_task: admission under the active_tasks lock. *)
Held == {t \in Tasks : active[t] # NoRun}
\* Variant: the global limit admits one more.
RoomOffByOne(t) == /\ Cardinality(Held) <= MaxConcurrent
                   /\ Cardinality({u \in Held : AgentOf[u] = AgentOf[t]}) < AgentMax[AgentOf[t]]
\* Variant: the limit of the agent is forgotten.
RoomOnServer(t) == Cardinality(Held) < MaxConcurrent
Room(t) == /\ Cardinality(Held) < MaxConcurrent
           /\ Cardinality({u \in Held : AgentOf[u] = AgentOf[t]}) < AgentMax[AgentOf[t]]

\* Variant: no look for a run of the same task.
AdmitDuplicate(r) ==
    LET t == run[r].task IN
    /\ run[r].pc = "Spawned" /\ Room(t)
    /\ active' = [active EXCEPT ![t] = r]
    /\ Goto(r, "Admitted")
    /\ UNCHANGED <<row, msg, fired, stop, edit, booting, up, history, left>>

Admit(r) ==
    LET t == run[r].task IN
    /\ run[r].pc = "Spawned"
    /\ active[t] = NoRun /\ Room(t)
    /\ active' = [active EXCEPT ![t] = r]
    /\ Goto(r, "Admitted")
    /\ UNCHANGED <<row, msg, fired, stop, edit, booting, up, history, left>>

RejectDuplicate(r) ==
    /\ run[r].pc = "Spawned" /\ active[run[r].task] # NoRun
    /\ run' = [run EXCEPT ![r] = IdleRun]
    /\ UNCHANGED <<row, msg, active, fired, stop, edit, booting, up, history, left>>

RejectAtLimit(r) ==
    /\ run[r].pc = "Spawned"
    /\ active[run[r].task] = NoRun /\ ~Room(run[r].task)
    /\ run' = [run EXCEPT ![r] = IdleRun]
    /\ UNCHANGED <<row, msg, active, fired, stop, edit, booting, up, history, left>>

(* execute_task, up to the turn loop. *)
\* Variant: the status is not read again after admission.
CheckNothing(r) ==
    /\ run[r].pc = "Admitted"
    /\ Goto(r, "Starting")
    /\ UNCHANGED <<row, msg, active, fired, stop, edit, booting, up, history, left>>

CheckStatus(r) ==
    /\ run[r].pc = "Admitted"
    /\ IF row[run[r].task].status = "Cancelled" THEN Return(r) ELSE Goto(r, "Starting")
    /\ UNCHANGED <<row, msg, active, fired, stop, edit, booting, up, history, left>>

\* mark_in_progress fails with NotFound on a deleted row and ends the run.
MarkInProgress(r) ==
    LET t == run[r].task IN
    /\ run[r].pc = "Starting"
    /\ IF Exists(t)
       THEN /\ row' = [row EXCEPT ![t].status = "InProgress", ![t].chat = TRUE]
            /\ Goto(r, "Turn")
       ELSE Return(r) /\ UNCHANGED row
    /\ UNCHANGED <<msg, active, fired, stop, edit, booting, up, history, left>>

\* Variant: one turn too many.
BeginTurnOffByOne(r) ==
    /\ run[r].pc = "Turn" /\ run[r].turn <= MaxTurns
    /\ \E m \in {k \in Slots : msg[run[r].task][k] = Settled} :
          /\ SetMessage(run[r].task, m, [Settled EXCEPT !.status = "Executing"])
          /\ run' = [run EXCEPT ![r].pc = "Inference", ![r].msg = m]
    /\ UNCHANGED <<row, active, fired, stop, edit, booting, up, history, left>>

\* A turn writes into the chat's executing message, a fresh one if there is none.
BeginTurn(r) ==
    LET t == run[r].task
        executing == {m \in Slots : msg[t][m].status = "Executing"}
        unused == {m \in Slots : msg[t][m] = Settled}
    IN
    /\ run[r].pc = "Turn" /\ run[r].turn < MaxTurns
    /\ \E m \in IF executing # {} THEN executing ELSE unused :
          /\ SetMessage(t, m, [msg[t][m] EXCEPT !.status = "Executing"])
          /\ run' = [run EXCEPT ![r].pc = "Inference", ![r].msg = m]
    /\ UNCHANGED <<row, active, fired, stop, edit, booting, up, history, left>>

\* After the last turn the task is completed on its behalf.
AutoComplete(r) ==
    /\ run[r].pc = "Turn" /\ run[r].turn = MaxTurns
    /\ run' = [run EXCEPT ![r].pc = "Finishing", ![r].outcome = "Completed"]
    /\ UNCHANGED <<row, msg, active, fired, stop, edit, booting, up, history, left>>

-----------------------------------------------------------------------------
(* The outcome of a turn.  The tool loop looks at the token before it        *)
(* reports anything but an error, and never again.                           *)
SettleAs(r, p, o) ==
    /\ SetMessage(run[r].task, run[r].msg, Settled)
    /\ run' = [run EXCEPT ![r].pc = p, ![r].msg = 0, ![r].outcome = o,
                          ![r].turn = IF p = "Turn" THEN @ + 1 ELSE @]

EndTurn(r) ==
    /\ run[r].pc = "Inference" /\ r \notin fired
    /\ SettleAs(r, "Turn", "None")
    /\ UNCHANGED <<row, active, fired, stop, edit, booting, up, history, left>>

\* complete_task, fail_task or defer_task ended the turn.
EndWithEvent(r) ==
    /\ run[r].pc = "Inference" /\ r \notin fired
    /\ \/ /\ \E o \in {"Completed", "Failed"} : SettleAs(r, "Finishing", o)
          /\ UNCHANGED left
       \/ SettleAs(r, "Finishing", "Deferred") /\ Use("defers")
    /\ UNCHANGED <<row, active, fired, stop, edit, booting, up, history>>

TurnFails(r) ==
    /\ run[r].pc = "Inference"
    /\ SettleAs(r, "Finishing", "Failed")
    /\ UNCHANGED <<row, active, fired, stop, edit, booting, up, history, left>>

TurnCancelled(r) ==
    /\ run[r].pc \in {"Inference", "Asking"} /\ r \in fired
    /\ SettleAs(r, "Finishing", "Cancelled")
    /\ UNCHANGED <<row, active, fired, stop, edit, booting, up, history, left>>

\* A tool wants a human: set_hitl persists the question, which can be
\* answered from now on, while the other calls of the turn still run.
AskHuman(r) ==
    LET t == run[r].task IN
    /\ run[r].pc = "Inference" /\ Use("asks")
    /\ SetMessage(t, run[r].msg, [msg[t][run[r].msg] EXCEPT !.pending = TRUE])
    /\ Goto(r, "Asking")
    /\ UNCHANGED <<row, active, fired, stop, edit, booting, up, history>>

ReportPending(r) ==
    /\ run[r].pc = "Asking" /\ r \notin fired
    /\ Goto(r, "Pausing")
    /\ UNCHANGED <<row, msg, active, fired, stop, edit, booting, up, history, left>>

\* pause_agent_message does not look at the tool call again.
PauseMessage(r) ==
    LET t == run[r].task IN
    /\ run[r].pc = "Pausing"
    /\ SetMessage(t, run[r].msg, [msg[t][run[r].msg] EXCEPT !.status = "Paused"])
    /\ run' = [run EXCEPT ![r].pc = "Releasing", ![r].waiter = NoRun, ![r].msg = 0]
    /\ UNCHANGED <<row, active, fired, stop, edit, booting, up, history, left>>

-----------------------------------------------------------------------------
(* The end of a run: persist the outcome, deliver it, resume the parent.     *)
WriteOutcome(r) ==
    LET t == run[r].task
        o == run[r].outcome
    IN
    /\ run[r].pc = "Finishing"
    /\ IF ~Exists(t)
       THEN Return(r) /\ UNCHANGED <<row, stopped>>
       ELSE /\ row' = [row EXCEPT ![t] =
                         IF o = "Deferred"
                         THEN [@ EXCEPT !.status = "Pending", !.runAt = "Later"]
                         ELSE [@ EXCEPT !.status = o]]
            /\ stopped' = IF o = "Cancelled" THEN stopped ELSE stopped \ {t}
            /\ IF o \in {"Completed", "Failed"} THEN Goto(r, "Delivering") ELSE Return(r)
    /\ UNCHANGED <<msg, active, fired, stop, edit, booting, up, checked,
                   resumed, left>>

Deliver(r) ==
    LET t == run[r].task IN
    /\ run[r].pc = "Delivering"
    /\ IF ParentOf[t] = NoTask THEN Return(r) ELSE Goto(r, "Checking")
    /\ UNCHANGED <<row, msg, active, fired, stop, edit, booting, up, stopped, checked,
                   resumed, left>>

\* Variant: a sibling that failed counts as still under way.
CheckParentCompletedOnly(r) ==
    LET p == ParentOf[run[r].task] IN
    /\ run[r].pc = "Checking"
    /\ checked' = checked \cup {run[r].task}
    /\ IF Exists(p) /\ \A c \in Children(p) : row[c].status = "Completed"
       THEN /\ \E n \in Runs :
                 /\ run[n].pc = "Idle"
                 /\ run' = [run EXCEPT ![n] = Future(p, r), ![r].pc = "Awaiting"]
                 /\ fired' = fired \ {n}
            /\ resumed' = resumed \cup {p}
       ELSE Return(r) /\ UNCHANGED <<fired, resumed>>
    /\ UNCHANGED <<row, msg, active, stop, edit, booting, up, stopped, left>>

\* check_and_resume_parent awaits the parent's run inside the child's own.
CheckParent(r) ==
    LET p == ParentOf[run[r].task]
        done == \A c \in Children(p) : Exists(c) => row[c].status \in Terminal
    IN
    /\ run[r].pc = "Checking"
    /\ checked' = checked \cup {run[r].task}
    /\ IF done /\ Exists(p)
       THEN /\ \E n \in Runs :
                 /\ run[n].pc = "Idle"
                 /\ run' = [run EXCEPT ![n] = Future(p, r), ![r].pc = "Awaiting"]
                 /\ fired' = fired \ {n}
            /\ resumed' = resumed \cup {p}
       ELSE Return(r) /\ UNCHANGED <<fired, resumed>>
    /\ UNCHANGED <<row, msg, active, stop, edit, booting, up, stopped, left>>

ParentReturned(r) ==
    /\ run[r].pc = "Awaiting" /\ \A n \in Runs : run[n].waiter # r
    /\ Return(r)
    /\ UNCHANGED <<row, msg, active, fired, stop, edit, booting, up, history, left>>

\* The task spawned by ActiveGuard::drop removes the entry by its key.
ReleaseSlot(r) ==
    /\ run[r].pc = "Releasing"
    /\ active' = [active EXCEPT ![run[r].task] = NoRun]
    /\ run' = [run EXCEPT ![r] = IdleRun]
    /\ UNCHANGED <<row, msg, fired, stop, edit, booting, up, history, left>>

-----------------------------------------------------------------------------
(* A human answers: the tool call is resolved or denied, and                 *)
(* mark_message_executing flips the message back if it was paused; only the  *)
(* answer that flips it starts the task again (run_task_by_id).              *)
Answer(t, m) ==
    /\ up /\ msg[t][m].pending
    /\ IF msg[t][m].status = "Paused"
       THEN /\ SetMessage(t, m, [status |-> "Executing", pending |-> FALSE])
            /\ Spawn(t)
       ELSE /\ SetMessage(t, m, [msg[t][m] EXCEPT !.pending = FALSE])
            /\ UNCHANGED <<run, fired>>
    /\ UNCHANGED <<row, active, stop, edit, booting, up, history, left>>

-----------------------------------------------------------------------------
(* Requests that stop a task.  Stop in the task's chat fires the session of  *)
(* the turn, if one is registered, and goes on only if the task has not      *)
(* ended; the tasks API cancels it in the service, which leaves an ended     *)
(* task alone, and then calls the executor, which does not.                  *)
InTurn(t) == {r \in Runs : run[r].task = t /\ run[r].pc \in {"Inference", "Asking"}}

StopInChat(t) ==
    /\ up /\ stop[t] = "None" /\ Exists(t) /\ row[t].chat /\ Use("stops")
    /\ fired' = fired \cup InTurn(t)
    /\ stop' = IF row[t].status \in Terminal THEN stop ELSE [stop EXCEPT ![t] = "Mark"]
    /\ UNCHANGED <<row, msg, active, run, edit, booting, up, history>>

CancelByApi(t) ==
    /\ up /\ stop[t] = "None" /\ Exists(t) /\ Use("stops")
    /\ IF row[t].status \in Terminal THEN UNCHANGED row ELSE SetStatus(t, "Cancelled")
    /\ stop' = [stop EXCEPT ![t] = "Mark"]
    /\ UNCHANGED <<msg, active, run, fired, edit, booting, up, history>>

DeleteByApi(t) ==
    /\ up /\ stop[t] = "None" /\ Exists(t) /\ Use("stops")
    /\ stop' = [stop EXCEPT ![t] = "DeleteMark"]
    /\ UNCHANGED <<row, msg, active, run, fired, edit, booting, up, history>>

\* TaskExecutor::cancel_task, first half: the status is always persisted.
MarkCancelled(t) ==
    /\ stop[t] \in {"Mark", "DeleteMark"}
    /\ IF Exists(t) THEN SetStatus(t, "Cancelled") ELSE UNCHANGED row
    /\ stop' = [stop EXCEPT ![t] = IF @ = "Mark" THEN "Fire" ELSE "DeleteFire"]
    /\ UNCHANGED <<msg, active, run, fired, edit, booting, up, history, left>>

\* A run that will look at its token again.
Attentive == {"Admitted", "Starting", "Turn", "Inference", "Asking"}

\* Second half: the token of the task's entry in active_tasks, if it has one.
FireToken(t) ==
    /\ stop[t] \in {"Fire", "DeleteFire"}
    /\ fired' = IF active[t] = NoRun THEN fired ELSE fired \cup {active[t]}
    /\ stop' = [stop EXCEPT ![t] = IF @ = "Fire" THEN "None" ELSE "DeleteRow"]
    /\ stopped' = IF \/ row[t].status = "Cancelled"
                     \/ active[t] # NoRun /\ run[active[t]].pc \in Attentive
                  THEN stopped \cup {t} ELSE stopped
    /\ UNCHANGED <<row, msg, active, run, edit, booting, up, checked,
                   resumed, left>>

\* The row goes, and with it the chat (cascade_delete_task_chat).
DeleteRow(t) ==
    /\ stop[t] = "DeleteRow"
    /\ SetStatus(t, "Deleted")
    /\ msg' = [msg EXCEPT ![t] = [m \in Slots |-> Settled]]
    /\ stop' = [stop EXCEPT ![t] = "None"]
    /\ UNCHANGED <<active, run, fired, edit, booting, up, history, left>>

\* A user's message in the task's chat registers a session of its own for that
\* chat, which cancels the token of the running turn.
InterruptTurn(t) ==
    /\ up /\ InTurn(t) # {} /\ Use("stops")
    /\ fired' = fired \cup InTurn(t)
    /\ UNCHANGED <<row, msg, active, run, stop, edit, booting, up, history>>

\* TaskService::update with a new title: the row read before is written whole.
ReadForEdit(t) ==
    /\ up /\ Exists(t) /\ edit[t] = NoEdit /\ Use("edits")
    /\ edit' = [edit EXCEPT ![t] = row[t]]
    /\ UNCHANGED <<row, msg, active, run, fired, stop, booting, up, history>>

WriteEdit(t) ==
    /\ edit[t] # NoEdit
    /\ edit' = [edit EXCEPT ![t] = NoEdit]
    /\ row' = IF Exists(t) THEN [row EXCEPT ![t] = edit[t]] ELSE row
    /\ stopped' = stopped \ {t} /\ checked' = checked \ {t}
    /\ UNCHANGED <<msg, active, run, fired, stop, booting, up, resumed, left>>

-----------------------------------------------------------------------------
(* Time, the scheduler's sweeps, crash and restart. *)
DeferralElapses(t) ==
    /\ row[t].runAt = "Later"
    /\ row' = [row EXCEPT ![t].runAt = "Due"]
    /\ UNCHANGED <<msg, active, run, fired, stop, edit, booting, up, history, left>>

\* run_pending_tasks and run_deferred_tasks spawn one run per task they find.
Sweepable(t) == row[t].status = "Pending" /\ row[t].runAt \in {"None", "Due"}
\* Variant: only tasks with a run_at are swept.
SweepDeferredOnly(t) ==
    /\ up /\ Sweepable(t) /\ row[t].runAt = "Due" /\ Spawn(t)
    /\ UNCHANGED <<row, msg, active, stop, edit, booting, up, history, left>>

Sweep(t) ==
    /\ up /\ Sweepable(t) /\ Spawn(t)
    /\ UNCHANGED <<row, msg, active, stop, edit, booting, up, history, left>>

Crash ==
    /\ up /\ Use("crashes")
    /\ up' = FALSE
    /\ active' = [t \in Tasks |-> NoRun]
    /\ run' = [r \in Runs |-> IdleRun]
    /\ fired' = {}
    /\ stop' = [t \in Tasks |-> "None"]
    /\ edit' = [t \in Tasks |-> NoEdit]
    /\ booting' = {} /\ stopped' = {} /\ checked' = {}
    /\ UNCHANGED <<row, msg, resumed>>

\* resume_all runs what find_resumable returns.
Resumable(t) == row[t].status \in {"Pending", "InProgress"} /\ row[t].runAt # "Later"
Restart ==
    /\ ~up /\ up' = TRUE
    /\ booting' = {t \in Tasks : Resumable(t)}
    /\ UNCHANGED <<row, msg, active, run, fired, stop, edit, history, left>>

SpawnResumed(t) ==
    /\ t \in booting /\ Spawn(t)
    /\ booting' = booting \ {t}
    /\ UNCHANGED <<row, msg, active, stop, edit, up, history, left>>

-----------------------------------------------------------------------------
RunStep(r) ==
    \/ Admit(r) \/ RejectDuplicate(r) \/ RejectAtLimit(r)
    \/ CheckStatus(r) \/ MarkInProgress(r)
    \/ BeginTurn(r) \/ AutoComplete(r)
    \/ EndTurn(r) \/ EndWithEvent(r) \/ TurnFails(r) \/ TurnCancelled(r)
    \/ AskHuman(r) \/ ReportPending(r) \/ PauseMessage(r)
    \/ WriteOutcome(r) \/ Deliver(r) \/ CheckParent(r) \/ ParentReturned(r)
    \/ ReleaseSlot(r)

Request(t) ==
    \/ CreateByApi(t) \/ StopInChat(t) \/ CancelByApi(t) \/ DeleteByApi(t)
    \/ InterruptTurn(t) \/ ReadForEdit(t)
    \/ \E m \in Slots : Answer(t, m)

\* What a request that was accepted still has to do.
Handler(t) == MarkCancelled(t) \/ FireToken(t) \/ DeleteRow(t) \/ WriteEdit(t)

Next ==
    \/ \E r \in Runs : RunStep(r)
    \/ \E r \in Runs, t \in Tasks : CreateByTool(r, t)
    \/ \E t \in Tasks : Request(t) \/ Handler(t) \/ DeferralElapses(t) \/ Sweep(t)
    \/ Crash \/ Restart
    \/ \E t \in Tasks : SpawnResumed(t)

Spec == Init /\ [][Next]_vars

(***************************************************************************)
(* Fairness: tokio polls every future that can go on, a turn ends (the     *)
(* inference has a timeout, the tool loop a bound), time passes, and the   *)
(* scheduler's loop sweeps again and again.  A sweep is strongly fair      *)
(* because Runs is a bound of the model: in the code a spawn never waits.  *)
(* Requests, answers and crashes are never owed.                           *)
(***************************************************************************)
FairSpec ==
    /\ Spec
    /\ \A r \in Runs : WF_vars(RunStep(r))
    /\ \A t \in Tasks : WF_vars(Handler(t)) /\ WF_vars(DeferralElapses(t))
                        /\ SF_vars(Sweep(t)) /\ SF_vars(SpawnResumed(t))
    /\ WF_vars(Restart)

-----------------------------------------------------------------------------
(***************************************************************************)
(* A slot belongs to exactly one run of its task, and a run that works     *)
(* holds its slot: run_task inserts, the guard removes, nothing else does. *)
(* So two runs of a task never work at the same time and a stop request    *)
(* finds the token of every run at work.                                   *)
(***************************************************************************)
SlotOwned ==
    /\ \A t \in Tasks : active[t] # NoRun =>
          run[active[t]].task = t /\ Live(active[t])
    /\ \A r \in Runs : Live(r) => active[run[r].task] = r

\* No two runs of one task are past admission (run_task, the duplicate check).
OneRunPerTask ==
    \A r, s \in Runs : Live(r) /\ Live(s) /\ run[r].task = run[s].task => r = s

\* cancel_task persists Cancelled before it looks for a token, so that a run
\* admitted too late for the token still sees the status: once a stop request
\* has been served, no run of the task is in a turn that nothing will cancel.
StopClosesStartupWindow ==
    \A r \in Runs : run[r].pc \in {"Inference", "Asking"} /\ run[r].task \in stopped
                       => r \in fired

\* The last of a parent's children to end sees all the others ended: when all
\* have ended by their own outcome and have looked at their siblings, and
\* nothing is running, one of them has resumed the parent, if it is still there.
LastChildResumesParent ==
    \A p \in Tasks :
        /\ Children(p) # {} /\ Children(p) \subseteq checked
        /\ \A c \in Children(p) : row[c].status \in {"Completed", "Failed"}
        /\ \A r \in Runs :
              run[r].task \in Children(p) => run[r].pc \in {"Idle", "Spawned"}
        => p \in resumed \/ ~Exists(p)

\* The executor is a SlotPool.
Pool == INSTANCE SlotPool WITH held <- Held
PoolSpec == Pool!Spec

\* Liveness, under FairSpec: the scheduler re-drives a due task that a limit
\* kept out until a run takes it.
DueTaskIsTaken ==
    \A t \in Tasks : Sweepable(t) ~> ~Sweepable(t)

\* Liveness, under FairSpec: every slot taken is given back, so the limits can
\* not be used up by runs that are over.
SlotsComeBack ==
    \A t \in Tasks : active[t] # NoRun ~> active[t] = NoRun
=============================================================================
