------------------------------ MODULE Signals ------------------------------
(***************************************************************************)
(* Signal tasks: a task that waits for an inbound message (await_signal).  *)
(* The task table, the in-memory index of watches (agent/signal), the      *)
(* evaluations of candidate messages, the runs that a candidate starts     *)
(* (run_with_injected_message), the ordinary runs that the executor starts *)
(* for the same tasks (resume_all, run_deferred_tasks), the scheduler's    *)
(* sweep of expired waits, stop and delete requests, and a crash with the  *)
(* restart that rebuilds the index from the table.                         *)
(*                                                                         *)
(* An evaluation reads a row and writes it back whole, and so does the     *)
(* first run of a task; mark_* and a stop are one step each, since they    *)
(* set the status whatever they read.  What a run does with its slot and   *)
(* its messages is in TaskExecution.                                       *)
(***************************************************************************)
EXTENDS Naturals

CONSTANTS
    Tasks, NoTask,
    Mode,               \* "once" or "continuous"
    MaxEvaluations,
    Expiring,           \* the tasks with an expires_at
    Evals,              \* concurrent calls of evaluate
    Runs,               \* spawned futures (a pool of identifiers)
    MaxStops,           \* bound: cancel and delete requests
    MaxDefers,          \* bound: defer_task calls
    MaxCrashes          \* bound: crashes

ASSUME SignalAssumption ==
    /\ NoTask \notin Tasks
    /\ Mode \in [Tasks -> {"once", "continuous"}]
    /\ MaxEvaluations \in [Tasks -> Nat]
    /\ Expiring \subseteq Tasks
    /\ MaxStops \in Nat /\ MaxDefers \in Nat /\ MaxCrashes \in Nat

VARIABLES
    row,          \* the task table
    watch,        \* SignalService::watches
    registering,  \* tasks created by a tool call that has not registered its watch
    eval,         \* the evaluations
    run,          \* the runs
    sweep,        \* run_signal_timeouts
    late,         \* the tasks whose expires_at has passed
    scan,         \* resume_all has not looked for tasks yet
    booting,      \* the tasks it found and has not spawned yet
    up,           \* the process is alive
    astray,       \* history: tasks whose end was overwritten, or that were in
                  \* an ordinary run when the process restarted
    left          \* what is left of each bound

signalVars == <<row, watch, registering, eval, run, sweep, late, scan, booting, up,
                astray, left>>

Terminal == {"Completed", "Failed", "Cancelled"}
Waiting == {"Pending", "InProgress"}
Status == Waiting \cup Terminal \cup {"Uncreated", "Deleted"}
Row == [status : Status, count : Nat, runAt : {"None", "Later", "Due"}, chat : BOOLEAN]
NoRow(s) == [status |-> s, count |-> 0, runAt |-> "None", chat |-> FALSE]
Eval == [at : {"idle", "next", "exceeded", "save", "unregister"}, todo : SUBSET Tasks,
         task : Tasks \cup {NoTask}, seen : Row]
IdleEval == [at |-> "idle", todo |-> {}, task |-> NoTask, seen |-> NoRow("Uncreated")]
\* A run by a candidate goes from link (or turn) on, an ordinary one from spawned.
Working == {"check", "start", "turn", "mark", "tell"}
Run == [at : {"idle", "spawned", "link"} \cup Working, task : Tasks \cup {NoTask},
        ordinary : BOOLEAN, cancelled : BOOLEAN, seen : Row,
        outcome : {"None", "Completed", "Failed", "Cancelled", "Deferred"}]
NewRun(at, t, ordinary, seen) ==
    [at |-> at, task |-> t, ordinary |-> ordinary, cancelled |-> FALSE, seen |-> seen,
     outcome |-> "None"]
IdleRun == NewRun("idle", NoTask, FALSE, NoRow("Uncreated"))
Bounds == {"stops", "defers", "crashes"}
Limit(b) == CASE b = "stops" -> MaxStops [] b = "defers" -> MaxDefers
              [] b = "crashes" -> MaxCrashes

TypeOK ==
    /\ row \in [Tasks -> Row]
    /\ watch \subseteq Tasks /\ registering \subseteq Tasks
    /\ eval \in [Evals -> Eval]
    /\ run \in [Runs -> Run]
    /\ sweep \in [at : {"idle", "mark", "unregister"}, todo : SUBSET Tasks,
                  task : Tasks \cup {NoTask}]
    /\ late \subseteq Expiring /\ booting \subseteq Tasks
    /\ scan \in BOOLEAN /\ up \in BOOLEAN
    /\ astray \subseteq Tasks
    /\ left \in [Bounds -> Nat]

IdleSweep == [at |-> "idle", todo |-> {}, task |-> NoTask]
Init ==
    /\ row = [t \in Tasks |-> NoRow("Uncreated")]
    /\ watch = {} /\ registering = {}
    /\ eval = [e \in Evals |-> IdleEval]
    /\ run = [r \in Runs |-> IdleRun]
    /\ sweep = IdleSweep
    /\ late = {} /\ booting = {} /\ scan = FALSE /\ up = TRUE
    /\ astray = {}
    /\ left = [b \in Bounds |-> Limit(b)]

-----------------------------------------------------------------------------
Exists(t) == row[t].status \notin {"Uncreated", "Deleted"}
\* An update of a row that was deleted writes nothing and is no error.
Write(t, r) ==
    /\ row' = IF Exists(t) THEN [row EXCEPT ![t] = r] ELSE row
    /\ astray' = IF row[t].status \in Terminal /\ r.status \in Waiting
                 THEN astray \cup {t} ELSE astray
SetStatus(t, s) == Write(t, [row[t] EXCEPT !.status = s])
\* How a wait ends by itself: a continuous one ran for as long as it should.
Ended(t) == IF Mode[t] = "continuous" THEN "Completed" ELSE "Failed"
\* watch.max_evaluations.max(1)
Budget(t) == IF MaxEvaluations[t] = 0 THEN 1 ELSE MaxEvaluations[t]
Use(b) == left[b] > 0 /\ left' = [left EXCEPT ![b] = @ - 1]
Spawn(new) == \E r \in Runs : run[r].at = "idle" /\ run' = [run EXCEPT ![r] = new]
NextWatch(e) == eval' = [eval EXCEPT ![e] = [IdleEval EXCEPT !.at = "next", !.todo = eval[e].todo]]
GotoR(r, place) == run' = [run EXCEPT ![r].at = place]
Return(r) == run' = [run EXCEPT ![r] = IdleRun]

(* The await_signal tool: the row, then the watch.                         *)
AwaitSignal(t) ==
    /\ up /\ row[t].status = "Uncreated"
    /\ row' = [row EXCEPT ![t].status = "Pending"]
    /\ registering' = registering \cup {t}
    /\ UNCHANGED <<astray, watch, eval, run, sweep, late, scan, booting, up, left>>

Register(t) ==
    /\ t \in registering
    /\ registering' = registering \ {t}
    /\ watch' = watch \cup {t}
    /\ UNCHANGED <<astray, row, eval, run, sweep, late, scan, booting, up, left>>

-----------------------------------------------------------------------------
(* evaluate: the watches are copied out of the index; those that match the *)
(* candidate, and whose agent may receive it, are fired one by one.        *)
Evaluate(e) ==
    /\ up /\ eval[e].at = "idle"
    /\ \E S \in SUBSET watch \ {{}} :
          eval' = [eval EXCEPT ![e] = [IdleEval EXCEPT !.at = "next", !.todo = S]]
    /\ UNCHANGED <<astray, row, watch, registering, run, sweep, late, scan, booting, up, left>>

\* Variant: a task in a run does not wait any more.
ReadTaskPendingOnly(e) ==
    /\ eval[e].at = "next"
    /\ \E t \in eval[e].todo :
          LET copy == [row[t] EXCEPT !.count = @ + 1]
              place == IF row[t].status # "Pending" THEN "unregister"
                       ELSE IF copy.count > Budget(t) THEN "exceeded" ELSE "save"
          IN eval' = [eval EXCEPT ![e] =
                 [at |-> place, todo |-> @.todo \ {t}, task |-> t,
                  seen |-> IF place = "save" THEN copy ELSE IdleEval.seen]]
    /\ UNCHANGED <<astray, row, watch, registering, run, sweep, late, scan, booting, up, left>>

\* Variant: the budget is looked at before the candidate is counted.
ReadTaskOffByOne(e) ==
    /\ eval[e].at = "next"
    /\ \E t \in eval[e].todo :
          LET copy == [row[t] EXCEPT !.count = @ + 1]
              place == IF row[t].status \notin Waiting THEN "unregister"
                       ELSE IF row[t].count > Budget(t) THEN "exceeded" ELSE "save"
          IN eval' = [eval EXCEPT ![e] =
                 [at |-> place, todo |-> @.todo \ {t}, task |-> t,
                  seen |-> IF place = "save" THEN copy ELSE IdleEval.seen]]
    /\ UNCHANGED <<astray, row, watch, registering, run, sweep, late, scan, booting, up, left>>

\* fire_signal reads the row and counts the candidate in its copy.
ReadTask(e) ==
    /\ eval[e].at = "next"
    /\ \E t \in eval[e].todo :
          LET copy == [row[t] EXCEPT !.count = @ + 1]
              place == IF row[t].status \notin Waiting THEN "unregister"
                       ELSE IF copy.count > Budget(t) THEN "exceeded" ELSE "save"
          IN eval' = [eval EXCEPT ![e] =
                 [at |-> place, todo |-> @.todo \ {t}, task |-> t,
                  seen |-> IF place = "save" THEN copy ELSE IdleEval.seen]]
    /\ UNCHANGED <<astray, row, watch, registering, run, sweep, late, scan, booting, up, left>>

\* mark_completed or mark_failed; on a deleted row that is an error, and the
\* watch stays until the next candidate.
EndExceeded(e) ==
    LET t == eval[e].task IN
    /\ eval[e].at = "exceeded"
    /\ SetStatus(t, Ended(t))
    /\ IF Exists(t) THEN eval' = [eval EXCEPT ![e].at = "unregister"] ELSE NextWatch(e)
    /\ UNCHANGED <<watch, registering, run, sweep, late, scan, booting, up, left>>

Unregister(e) ==
    /\ eval[e].at = "unregister"
    /\ watch' = watch \ {eval[e].task}
    /\ NextWatch(e)
    /\ UNCHANGED <<astray, row, registering, run, sweep, late, scan, booting, up, left>>

\* save(&task), then tokio::spawn of the run, which has its copy of the row.
Fire(e) ==
    LET t == eval[e].task
        seen == eval[e].seen
    IN
    /\ eval[e].at = "save"
    /\ Write(t, seen)
    /\ Spawn(IF seen.chat THEN NewRun("turn", t, FALSE, IdleRun.seen) ELSE NewRun("link", t, FALSE, seen))
    /\ NextWatch(e)
    /\ UNCHANGED <<watch, registering, sweep, late, scan, booting, up, left>>

\* All are done, or an error of the policy check ends the evaluation.
EvalEnds(e) ==
    /\ eval[e].at = "next"
    /\ eval' = [eval EXCEPT ![e] = IdleEval]
    /\ UNCHANGED <<astray, row, watch, registering, run, sweep, late, scan, booting, up, left>>

-----------------------------------------------------------------------------
(* Runs.                                                                   *)

\* run_with_injected_message creates the task's chat and saves the copy.
LinkChat(r) ==
    /\ run[r].at = "link"
    /\ Write(run[r].task, [run[r].seen EXCEPT !.chat = TRUE])
    /\ run' = [run EXCEPT ![r].at = "turn", ![r].seen = IdleRun.seen]
    /\ UNCHANGED <<watch, registering, eval, sweep, late, scan, booting, up, left>>

\* run_task: another run of the task, or a limit, turns it away.
Admit(r) ==
    /\ run[r].at = "spawned"
    /\ \/ Return(r)
       \/ /\ \A s \in Runs : run[s].task = run[r].task /\ run[s].ordinary => run[s].at \notin Working
          /\ GotoR(r, "check")
    /\ UNCHANGED <<astray, row, watch, registering, eval, sweep, late, scan, booting, up, left>>

CheckStatus(r) ==
    /\ run[r].at = "check"
    /\ IF row[run[r].task].status = "Cancelled" THEN Return(r) ELSE GotoR(r, "start")
    /\ UNCHANGED <<astray, row, watch, registering, eval, sweep, late, scan, booting, up, left>>

MarkInProgress(r) ==
    LET t == run[r].task IN
    /\ run[r].at = "start"
    /\ Write(t, [row[t] EXCEPT !.status = "InProgress", !.chat = TRUE])
    /\ IF Exists(t) THEN GotoR(r, "turn") ELSE Return(r)
    /\ UNCHANGED <<watch, registering, eval, sweep, late, scan, booting, up, left>>

\* A turn of a candidate's run that calls no tool ends the run, and so does its
\* error.  An ordinary run is retried until a tool or the retry limit ends it, or
\* pauses for a human.  report_signal tells of a match and changes nothing here.
TurnEnds(r) ==
    LET Outcomes == IF run[r].ordinary /\ run[r].cancelled THEN {"Cancelled", "Failed"}
                    ELSE {"Completed", "Failed"}
    IN
    /\ run[r].at = "turn"
    /\ \/ Return(r) /\ UNCHANGED left
       \/ \E o \in Outcomes : run' = [run EXCEPT ![r].at = "mark", ![r].outcome = o]
                              /\ UNCHANGED left
       \/ /\ Mode[run[r].task] = "once" /\ "Completed" \in Outcomes /\ Use("defers")
          /\ run' = [run EXCEPT ![r].at = "mark", ![r].outcome = "Deferred"]
    /\ UNCHANGED <<astray, row, watch, registering, eval, sweep, late, scan, booting, up>>

\* Variant: a deferral is written as if it were an end.
MarkOutcomeAsIs(r) ==
    /\ run[r].at = "mark"
    /\ SetStatus(run[r].task, run[r].outcome)
    /\ Return(r)
    /\ UNCHANGED <<watch, registering, eval, sweep, late, scan, booting, up, left>>

\* mark_completed, mark_failed, mark_cancelled, mark_deferred.
MarkOutcome(r) ==
    LET t == run[r].task
        o == run[r].outcome
    IN
    /\ run[r].at = "mark"
    /\ IF o = "Deferred" THEN Write(t, [row[t] EXCEPT !.status = "Pending", !.runAt = "Later"])
       ELSE SetStatus(t, o)
    /\ IF Exists(t) /\ o \in {"Completed", "Failed"} THEN GotoR(r, "tell") ELSE Return(r)
    /\ UNCHANGED <<watch, registering, eval, sweep, late, scan, booting, up, left>>

\* deliver_event_to_source and resume_parent_if_requested.
Tell(r) ==
    /\ run[r].at = "tell"
    /\ Return(r)
    /\ UNCHANGED <<astray, row, watch, registering, eval, sweep, late, scan, booting, up, left>>

-----------------------------------------------------------------------------
(* The scheduler, and time.                                                *)
Expire(t) ==
    /\ t \in Expiring /\ Exists(t)
    /\ late' = late \cup {t}
    /\ UNCHANGED <<astray, row, watch, registering, eval, run, sweep, scan, booting, up, left>>

DeferralElapses(t) ==
    /\ row[t].runAt = "Later"
    /\ row' = [row EXCEPT ![t].runAt = "Due"]
    /\ UNCHANGED <<astray, watch, registering, eval, run, sweep, late, scan, booting, up, left>>

\* run_deferred_tasks
RunDeferred(t) ==
    /\ up /\ row[t].status = "Pending" /\ row[t].runAt = "Due"
    /\ Spawn(NewRun("spawned", t, TRUE, IdleRun.seen))
    /\ UNCHANGED <<astray, row, watch, registering, eval, sweep, late, scan, booting, up, left>>

\* Variant: looks for expired waits in the index.
FindExpiredWatches ==
    /\ up /\ sweep.at = "idle"
    /\ sweep' = [IdleSweep EXCEPT !.at = "mark", !.todo = {t \in late \cap watch : row[t].status = "Pending"}]
    /\ UNCHANGED <<astray, row, watch, registering, eval, run, late, scan, booting, up, left>>

FindExpired ==
    /\ up /\ sweep.at = "idle"
    /\ sweep' = [IdleSweep EXCEPT !.at = "mark", !.todo = {t \in late : row[t].status = "Pending"}]
    /\ UNCHANGED <<astray, row, watch, registering, eval, run, late, scan, booting, up, left>>

\* The status is not read again; nobody is told.
EndExpired ==
    /\ sweep.at = "mark"
    /\ \E t \in sweep.todo :
          /\ SetStatus(t, Ended(t))
          /\ sweep' = [at |-> IF Exists(t) THEN "unregister" ELSE "mark",
                       todo |-> sweep.todo \ {t}, task |-> t]
    /\ UNCHANGED <<watch, registering, eval, run, late, scan, booting, up, left>>

UnregisterExpired ==
    /\ sweep.at = "unregister"
    /\ watch' = watch \ {sweep.task}
    /\ sweep' = [sweep EXCEPT !.at = "mark"]
    /\ UNCHANGED <<astray, row, registering, eval, run, late, scan, booting, up, left>>

SweepEnds ==
    /\ sweep.at = "mark" /\ sweep.todo = {}
    /\ sweep' = IdleSweep
    /\ UNCHANGED <<astray, row, watch, registering, eval, run, late, scan, booting, up, left>>

-----------------------------------------------------------------------------
(* Requests, crash and restart.                                            *)

\* cancel_task: the status, and the token of the task's ordinary run.  A run
\* by a candidate has a token that nobody else knows.
Cancel(t) ==
    /\ up /\ Exists(t) /\ Use("stops")
    /\ SetStatus(t, "Cancelled")
    /\ run' = [r \in Runs |-> IF run[r].task = t /\ run[r].ordinary /\ run[r].at \in Working
                              THEN [run[r] EXCEPT !.cancelled = TRUE] ELSE run[r]]
    /\ UNCHANGED <<watch, registering, eval, sweep, late, scan, booting, up>>

Delete(t) ==
    /\ up /\ row[t].status \in Terminal
    /\ SetStatus(t, "Deleted")
    /\ UNCHANGED <<watch, registering, eval, run, sweep, late, scan, booting, up, left>>

Crash ==
    /\ up /\ Use("crashes")
    /\ up' = FALSE
    /\ watch' = {} /\ registering' = {} /\ booting' = {} /\ scan' = FALSE
    /\ eval' = [e \in Evals |-> IdleEval]
    /\ run' = [r \in Runs |-> IdleRun]
    /\ sweep' = IdleSweep
    /\ UNCHANGED <<astray, row, late>>

\* rebuild_from_db is awaited before anything is served.
Restart ==
    /\ ~up /\ up' = TRUE
    /\ watch' = {t \in Tasks : row[t].status = "Pending"}
    /\ scan' = TRUE
    /\ astray' = astray \cup {t \in Tasks : row[t].status = "InProgress"}
    /\ UNCHANGED <<row, registering, eval, run, sweep, late, booting, left>>

\* resume_all: find_resumable leaves out templates, and not signal tasks.
FindResumable ==
    /\ scan /\ scan' = FALSE
    /\ booting' = {t \in Tasks : row[t].status \in Waiting /\ row[t].runAt # "Later"}
    /\ UNCHANGED <<astray, row, watch, registering, eval, run, sweep, late, up, left>>

RunResumed(t) ==
    /\ t \in booting
    /\ booting' = booting \ {t}
    /\ Spawn(NewRun("spawned", t, TRUE, IdleRun.seen))
    /\ UNCHANGED <<astray, row, watch, registering, eval, sweep, late, scan, up, left>>

-----------------------------------------------------------------------------
EvalStep(e) == Evaluate(e) \/ ReadTask(e) \/ EndExceeded(e) \/ Unregister(e) \/ Fire(e) \/ EvalEnds(e)
RunStep(r) == LinkChat(r) \/ Admit(r) \/ CheckStatus(r) \/ MarkInProgress(r) \/ TurnEnds(r)
              \/ MarkOutcome(r) \/ Tell(r)
TaskStep(t) == AwaitSignal(t) \/ Register(t) \/ Expire(t) \/ DeferralElapses(t) \/ RunDeferred(t)
               \/ Cancel(t) \/ Delete(t) \/ RunResumed(t)
Sweep == FindExpired \/ EndExpired \/ UnregisterExpired \/ SweepEnds

Next ==
    \/ \E e \in Evals : EvalStep(e)
    \/ \E r \in Runs : RunStep(r)
    \/ \E t \in Tasks : TaskStep(t)
    \/ Sweep \/ Crash \/ Restart \/ FindResumable

Spec == Init /\ [][Next]_signalVars

\* The scheduler's loop goes on sweeping, and the process is started again.
FairSpec == Spec /\ WF_signalVars(Sweep) /\ WF_signalVars(Restart)

-----------------------------------------------------------------------------
\* However many candidates are evaluated at once and whichever copy of the row
\* is written last, the count of a row, or of a copy that will be written, is
\* within the budget (fire_signal).
BudgetKept ==
    /\ \A t \in Tasks : row[t].count <= Budget(t)
    /\ \A e \in Evals : eval[e].at = "save" => eval[e].seen.count <= Budget(eval[e].task)
    /\ \A r \in Runs : run[r].at = "link" => run[r].seen.count <= Budget(run[r].task)

\* A wait that is pending hears the next candidate: its watch is in the index
\* or about to be, unless its end was overwritten by a copy read before, or an
\* ordinary run had it when the process restarted (the index leaves those out).
PendingIsHeard ==
    \A t \in Tasks \ astray :
        up /\ row[t].status = "Pending" => t \in watch \cup registering

\* A wait past its expiry does not stay pending, also when its watch was lost.
ExpiredIsEnded ==
    \A t \in Expiring : t \in late /\ row[t].status = "Pending" ~> row[t].status # "Pending"
=============================================================================
