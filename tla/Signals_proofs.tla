--------------------------- MODULE Signals_proofs ---------------------------
(***************************************************************************)
(* What Signals promises for every set of tasks, evaluations and runs.     *)
(*                                                                         *)
(* PendingIsHeard is not inductive: a run may put an InProgress task back  *)
(* to Pending, and an evaluation may be about to take a watch away.  The   *)
(* invariant says that a task that waits in either status is heard, and    *)
(* that a watch is only taken away from a task that is over for good or    *)
(* astray (Over).  Every write of a row is Tame: it creates no task, keeps *)
(* what is over over, and brings no task back but into astray.             *)
(***************************************************************************)
EXTENDS Signals, TLAPS

Created(t) == row[t].status # "Uncreated"
Over(t) == row[t].status \in Terminal \cup {"Deleted"} \/ t \in astray
Copied(t, seen) == seen.status \in Waiting /\ seen.count <= Budget(t)

EvalOK(e) ==
    /\ \A t \in eval[e].todo : Created(t)
    /\ eval[e].at \in {"exceeded", "save", "unregister"} =>
          eval[e].task \in Tasks /\ Created(eval[e].task)
    /\ eval[e].at = "save" => Copied(eval[e].task, eval[e].seen)
    /\ eval[e].at = "unregister" => Over(eval[e].task)
RunOK(r) ==
    /\ run[r].at # "idle" => run[r].task \in Tasks
    /\ run[r].at = "link" => Copied(run[r].task, run[r].seen)
    /\ run[r].at = "mark" => run[r].outcome # "None"
SweepOK ==
    sweep.at = "unregister" => sweep.task \in Tasks /\ Over(sweep.task)
Indexed == \A t \in watch \cup registering : Created(t)
Heard ==
    up => \A t \in Tasks \ astray : row[t].status \in Waiting => t \in watch \cup registering
Counted == \A t \in Tasks : row[t].count <= Budget(t)

Inv ==
    /\ TypeOK
    /\ \A e \in Evals : EvalOK(e)
    /\ \A r \in Runs : RunOK(r)
    /\ SweepOK /\ Indexed /\ Heard /\ Counted

Tame ==
    /\ row' \in [Tasks -> Row] /\ Counted' /\ astray' \subseteq Tasks
    /\ \A t \in Tasks :
          /\ Created(t) => Created(t)'
          /\ Over(t) => Over(t)'
          /\ t \notin astray' /\ row'[t].status \in Waiting =>
                t \notin astray /\ row[t].status \in Waiting

-----------------------------------------------------------------------------
\* Every update of a row is tame (Write).
LEMMA WriteTame ==
    ASSUME Inv, NEW t \in Tasks, NEW new \in Row, Write(t, new),
           new.count <= Budget(t), new.status # "Uncreated"
    PROVE  Tame
<1>1. row' \in [Tasks -> Row] /\ astray' \subseteq Tasks
  BY DEF Inv, TypeOK, Write
<1>2. Counted'
  BY DEF Inv, TypeOK, Counted, Write, Budget
<1>3. ASSUME NEW u \in Tasks
      PROVE  /\ Created(u) => Created(u)'
             /\ Over(u) => Over(u)'
             /\ u \notin astray' /\ row'[u].status \in Waiting =>
                   u \notin astray /\ row[u].status \in Waiting
  <2>1. row'[u] = IF u = t /\ Exists(t) THEN new ELSE row[u]
    BY DEF Inv, TypeOK, Write
  <2>2. new.status \in Terminal \cup Waiting \cup {"Deleted"}
        /\ row[u].status \in Terminal \cup Waiting \cup {"Deleted", "Uncreated"}
    BY DEF Row, Status, Inv, TypeOK
  <2>3. astray \subseteq astray'
        /\ (row[t].status \in Terminal /\ new.status \in Waiting => t \in astray')
    BY DEF Write
  <2>4. CASE u # t
    BY <2>1, <2>3, <2>4 DEF Created, Over
  <2>5. CASE u = t /\ ~Exists(t)
    BY <2>1, <2>3, <2>5 DEF Created, Over
  <2>6. CASE u = t /\ Exists(t)
    <3>1. Created(u)'
      BY <2>1, <2>6 DEF Created
    <3>2. row[t].status \in Terminal \cup Waiting
      BY <2>2, <2>6 DEF Exists
    <3>. QED  BY <2>1, <2>2, <2>3, <2>6, <3>1, <3>2 DEF Over, Terminal, Waiting
  <2>. QED  BY <2>4, <2>5, <2>6
<1>. QED  BY <1>1, <1>2, <1>3 DEF Tame

LEMMA StatusTame ==
    ASSUME Inv, NEW t \in Tasks, NEW s \in Status \ {"Uncreated"}, SetStatus(t, s)
    PROVE  Tame
<1>. DEFINE new == [row[t] EXCEPT !.status = s]
<1>1. new \in Row /\ new.count <= Budget(t) /\ new.status # "Uncreated"
  BY DEF Inv, TypeOK, Row, Counted
<1>2. Write(t, new)
  BY DEF SetStatus
<1>. HIDE DEF new
<1>. QED  BY <1>1, <1>2, WriteTame

LEMMA UnwrittenTame == ASSUME Inv, UNCHANGED <<row, astray>> PROVE Tame
BY DEF Inv, TypeOK, Tame, Created, Over, Counted, Budget

-----------------------------------------------------------------------------
\* What a tame step leaves alone keeps its part of the invariant.
LEMMA EvalsKept ==
    ASSUME Inv, Tame, NEW e \in Evals, eval'[e] = eval[e]  PROVE EvalOK(e)'
<1>1. eval[e] \in Eval /\ EvalOK(e)
  BY DEF Inv, TypeOK
<1>2. Copied(eval[e].task, eval[e].seen)' <=> Copied(eval[e].task, eval[e].seen)
  BY DEF Copied, Budget
<1>. QED  BY <1>1, <1>2 DEF EvalOK, Tame, Eval, Copied, Budget

LEMMA RunsKept ==
    ASSUME Inv, NEW r \in Runs, run'[r] = run[r]  PROVE RunOK(r)'
BY DEF Inv, RunOK, Copied, Budget

LEMMA SweepKept == ASSUME Inv, Tame, UNCHANGED sweep  PROVE SweepOK'
BY DEF Inv, SweepOK, Tame

LEMMA IndexKept ==
    ASSUME Inv, Tame, UNCHANGED <<watch, registering, up>>  PROVE Indexed' /\ Heard'
BY DEF Inv, TypeOK, Indexed, Heard, Tame

\* A watch is taken away from a task that is over.
LEMMA WatchRemoved ==
    ASSUME Inv, NEW t \in Tasks, Over(t), watch' = watch \ {t},
           UNCHANGED <<row, astray, registering, up>>
    PROVE  Indexed' /\ Heard'
<1>1. Indexed'
  BY DEF Inv, Indexed, Created
<1>2. t \notin astray => row[t].status \notin Waiting
  BY DEF Over, Terminal, Waiting
<1>. QED  BY <1>1, <1>2 DEF Inv, Heard

LEMMA UseTyped ==
    ASSUME left \in [Bounds -> Nat], NEW b \in Bounds, Use(b)  PROVE left' \in [Bounds -> Nat]
BY DEF Use

-----------------------------------------------------------------------------
(* The tool and the evaluations.                                           *)
LEMMA AwaitStep == ASSUME Inv, NEW t \in Tasks, AwaitSignal(t) PROVE Inv'
<1>. row' = [row EXCEPT ![t].status = "Pending"] /\ registering' = registering \cup {t}
     /\ row[t].status = "Uncreated"
     /\ UNCHANGED <<astray, watch, eval, run, sweep, late, scan, booting, up, left>>
  BY DEF AwaitSignal
<1>1. TypeOK'
  BY DEF Inv, TypeOK, Row, Status, Waiting
<1>2. \A u \in Tasks : /\ Created(u) => Created(u)'
                       /\ Over(u) => Over(u)'
                       /\ u # t => row'[u] = row[u]
  BY DEF Inv, TypeOK, Created, Over, Terminal
<1>3. row'[t].status = "Pending" /\ row'[t].count = row[t].count
  BY DEF Inv, TypeOK, Row
<1>4. ASSUME NEW e \in Evals  PROVE EvalOK(e)'
  <2>1. eval[e] \in Eval /\ EvalOK(e)
    BY DEF Inv, TypeOK
  <2>. QED  BY <1>2, <2>1 DEF EvalOK, Eval, Copied, Budget
<1>5. \A r \in Runs : RunOK(r)'
  BY RunsKept DEF Inv, TypeOK
<1>6. SweepOK'
  BY <1>2 DEF Inv, SweepOK
<1>7. Indexed' /\ Heard'
  BY <1>2, <1>3 DEF Inv, TypeOK, Indexed, Heard, Created
<1>8. Counted'
  BY <1>2, <1>3 DEF Inv, Counted, Budget
<1>. QED  BY <1>1, <1>4, <1>5, <1>6, <1>7, <1>8 DEF Inv

LEMMA RegisterStep == ASSUME Inv, NEW t \in Tasks, Register(t) PROVE Inv'
<1>1. Tame
  BY UnwrittenTame DEF Register
<1>2. TypeOK'
  BY <1>1 DEF Inv, TypeOK, Register, Tame
<1>3. Indexed' /\ Heard'
  BY DEF Inv, Indexed, Heard, Register, Created
<1>. QED  BY <1>1, <1>2, <1>3, EvalsKept, RunsKept, SweepKept DEF Inv, Register, Tame

\* A step of an evaluation that leaves the rows alone and becomes rec.
LEMMA EvalMoves ==
    ASSUME Inv, Tame, NEW e \in Evals, NEW rec \in Eval,
           eval' = [eval EXCEPT ![e] = rec], EvalOK(e)',
           UNCHANGED <<watch, registering, run, sweep, late, scan, booting, up, left>>
    PROVE  Inv'
<1>1. TypeOK'
  BY DEF Inv, TypeOK, Tame
<1>2. \A d \in Evals : EvalOK(d)'
  BY EvalsKept DEF Inv, TypeOK
<1>. QED  BY <1>1, <1>2, RunsKept, SweepKept, IndexKept DEF Inv, Tame

LEMMA EvaluateStep == ASSUME Inv, NEW e \in Evals, Evaluate(e) PROVE Inv'
<1>1. PICK S \in SUBSET watch \ {{}} :
         eval' = [eval EXCEPT ![e] = [IdleEval EXCEPT !.at = "next", !.todo = S]]
  BY DEF Evaluate
<1>. DEFINE rec == [IdleEval EXCEPT !.at = "next", !.todo = S]
<1>2. Tame
  BY UnwrittenTame DEF Evaluate
<1>3. rec \in Eval /\ rec.at = "next" /\ rec.todo = S
  BY DEF Inv, TypeOK, IdleEval, Eval, Row, NoRow, Status
<1>4. eval'[e] = rec
  BY <1>1 DEF Inv, TypeOK
<1>. HIDE DEF rec
<1>5. EvalOK(e)'
  BY <1>2, <1>3, <1>4 DEF EvalOK, Inv, TypeOK, Indexed, Tame
<1>. QED  BY <1>1, <1>2, <1>3, <1>5, EvalMoves DEF Evaluate, rec

LEMMA ReadStep == ASSUME Inv, NEW e \in Evals, ReadTask(e) PROVE Inv'
<1>1. PICK t \in eval[e].todo :
         LET copy == [row[t] EXCEPT !.count = @ + 1]
             place == IF row[t].status \notin Waiting THEN "unregister"
                      ELSE IF copy.count > Budget(t) THEN "exceeded" ELSE "save"
         IN eval' = [eval EXCEPT ![e] = [at |-> place, todo |-> @.todo \ {t}, task |-> t,
                        seen |-> IF place = "save" THEN copy ELSE IdleEval.seen]]
  BY DEF ReadTask
<1>. DEFINE copy == [row[t] EXCEPT !.count = @ + 1]
            place == IF row[t].status \notin Waiting THEN "unregister"
                     ELSE IF copy.count > Budget(t) THEN "exceeded" ELSE "save"
            rec == [at |-> place, todo |-> eval[e].todo \ {t}, task |-> t,
                    seen |-> IF place = "save" THEN copy ELSE IdleEval.seen]
<1>2. Tame
  BY UnwrittenTame DEF ReadTask
<1>3. t \in Tasks /\ Created(t) /\ eval[e].todo \subseteq Tasks /\ EvalOK(e)
  BY DEF Inv, TypeOK, Eval, EvalOK
<1>4. /\ copy \in Row /\ copy.status = row[t].status /\ IdleEval.seen \in Row
      /\ row[t].count \in Nat /\ copy.count = row[t].count + 1
  BY <1>3 DEF Inv, TypeOK, Row, IdleEval, NoRow, Status
<1>5. rec \in Eval
  BY <1>3, <1>4 DEF Eval
<1>6. eval' = [eval EXCEPT ![e] = rec] /\ eval'[e] = rec
  BY <1>1 DEF Inv, TypeOK
<1>7. Budget(t) \in Nat
  BY <1>3, SignalAssumption DEF Budget
<1>8. place = "save" => copy.status \in Waiting /\ copy.count <= Budget(t)
  BY <1>4, <1>7
<1>9. place = "unregister" => Over(t)
  BY <1>3 DEF Over, Created, Waiting, Terminal, Inv, TypeOK, Row, Status
<1>10. rec.at = place /\ rec.todo \subseteq eval[e].todo /\ rec.task = t
       /\ (place = "save" => rec.seen = copy)
  OBVIOUS
<1>. HIDE DEF rec, place, copy
<1>11. Copied(t, copy)' <=> copy.status \in Waiting /\ copy.count <= Budget(t)
  BY <1>1 DEF Copied, Budget, copy, ReadTask
<1>12. EvalOK(e)'
  BY <1>2, <1>3, <1>6, <1>8, <1>9, <1>10, <1>11 DEF EvalOK, Tame, Copied, Budget
<1>. QED  BY <1>2, <1>5, <1>6, <1>12, EvalMoves DEF ReadTask

LEMMA NextWatchMoves ==
    ASSUME Inv, Tame, NEW e \in Evals, NextWatch(e)
    PROVE  /\ eval' \in [Evals -> Eval]
           /\ \A d \in Evals : EvalOK(d)'
<1>. DEFINE rec == [IdleEval EXCEPT !.at = "next", !.todo = eval[e].todo]
<1>1. rec \in Eval /\ rec.at = "next" /\ rec.todo = eval[e].todo
  BY DEF Inv, TypeOK, IdleEval, Eval, Row, NoRow, Status
<1>2. eval' = [eval EXCEPT ![e] = rec]
  BY DEF NextWatch
<1>. HIDE DEF rec
<1>3. eval' \in [Evals -> Eval] /\ eval'[e] = rec
  BY <1>1, <1>2 DEF Inv, TypeOK
<1>4. EvalOK(e)'
  BY <1>1, <1>3 DEF Inv, TypeOK, Eval, EvalOK, Tame
<1>. QED  BY <1>2, <1>3, <1>4, EvalsKept DEF Inv, TypeOK

LEMMA EndExceededStep == ASSUME Inv, NEW e \in Evals, EndExceeded(e) PROVE Inv'
<1>1. PICK t \in Tasks : t = eval[e].task /\ Created(t) /\ eval[e] \in Eval /\ EvalOK(e)
  BY DEF Inv, TypeOK, EvalOK, EndExceeded
<1>2. SetStatus(t, Ended(t)) /\ Ended(t) \in Status \ {"Uncreated"} /\ Ended(t) \in Terminal
  BY <1>1 DEF EndExceeded, Ended, Status, Terminal
<1>3. Tame
  BY <1>1, <1>2, StatusTame
<1>. UNCHANGED <<watch, registering, run, sweep, late, scan, booting, up, left>>
  BY DEF EndExceeded
<1>4. CASE ~Exists(t)
  <2>1. NextWatch(e)
    BY <1>1, <1>4 DEF EndExceeded
  <2>. QED  BY <1>3, <2>1, NextWatchMoves, RunsKept, SweepKept, IndexKept DEF Inv, TypeOK, Tame
<1>5. CASE Exists(t)
  <2>. DEFINE rec == [eval[e] EXCEPT !.at = "unregister"]
  <2>1. eval' = [eval EXCEPT ![e] = rec]
    BY <1>1, <1>5 DEF EndExceeded, Inv, TypeOK
  <2>2. rec \in Eval /\ rec.at = "unregister" /\ rec.todo = eval[e].todo /\ rec.task = t
    BY <1>1 DEF Eval
  <2>3. Over(t)'
    BY <1>1, <1>2, <1>5 DEF Over, SetStatus, Write, Inv, TypeOK, Row
  <2>. HIDE DEF rec
  <2>4. eval'[e] = rec
    BY <2>1 DEF Inv, TypeOK
  <2>5. EvalOK(e)'
    BY <1>1, <1>3, <2>2, <2>3, <2>4 DEF EvalOK, Tame, Eval
  <2>. QED  BY <1>3, <2>1, <2>2, <2>5, EvalMoves
<1>. QED  BY <1>4, <1>5

LEMMA UnregisterStep == ASSUME Inv, NEW e \in Evals, Unregister(e) PROVE Inv'
<1>1. Tame
  BY UnwrittenTame DEF Unregister
<1>2. eval[e].task \in Tasks /\ Over(eval[e].task)
  BY DEF Inv, EvalOK, Unregister
<1>3. Indexed' /\ Heard'
  BY <1>2, WatchRemoved DEF Unregister
<1>4. watch' \subseteq Tasks
  BY DEF Inv, TypeOK, Unregister
<1>. QED  BY <1>1, <1>3, <1>4, NextWatchMoves, RunsKept, SweepKept
          DEF Inv, TypeOK, Tame, Unregister

-----------------------------------------------------------------------------
(* Runs.                                                                   *)
LEMMA NewRunOK ==
    ASSUME NEW t \in Tasks, NEW seen \in Row, NEW ordinary \in BOOLEAN,
           NEW at \in {"spawned", "link", "turn"}
    PROVE  /\ NewRun(at, t, ordinary, seen) \in Run
           /\ NewRun(at, t, ordinary, seen).at = at
           /\ NewRun(at, t, ordinary, seen).task = t
           /\ NewRun(at, t, ordinary, seen).seen = seen
BY DEF NewRun, Run, Working

LEMMA IdleRunOK == IdleRun \in Run /\ IdleRun.at = "idle" /\ IdleRun.seen \in Row
BY DEF IdleRun, NewRun, Run, NoRow, Row, Status

\* A step of one run that becomes rec.
LEMMA RunMoves ==
    ASSUME Inv, NEW r \in Runs, NEW rec \in Run, run' = [run EXCEPT ![r] = rec],
           rec.at # "idle" => rec.task \in Tasks,
           rec.at = "link" => Copied(rec.task, rec.seen),
           rec.at = "mark" => rec.outcome # "None"
    PROVE  run' \in [Runs -> Run] /\ \A s \in Runs : RunOK(s)'
<1>1. run' \in [Runs -> Run] /\ run'[r] = rec /\ \A s \in Runs \ {r} : run'[s] = run[s]
  BY DEF Inv, TypeOK
<1>2. RunOK(r)'
  BY <1>1 DEF RunOK, Copied, Budget
<1>. QED  BY <1>1, <1>2, RunsKept

LEMMA SpawnMoves ==
    ASSUME Inv, NEW t \in Tasks, NEW seen \in Row, NEW ordinary \in BOOLEAN,
           NEW at \in {"spawned", "link", "turn"}, at = "link" => Copied(t, seen),
           Spawn(NewRun(at, t, ordinary, seen))
    PROVE  run' \in [Runs -> Run] /\ \A s \in Runs : RunOK(s)'
<1>1. PICK r \in Runs : run' = [run EXCEPT ![r] = NewRun(at, t, ordinary, seen)]
  BY DEF Spawn
<1>. DEFINE rec == NewRun(at, t, ordinary, seen)
<1>2. rec \in Run /\ rec.at = at /\ rec.task = t /\ rec.seen = seen
  BY NewRunOK
<1>. HIDE DEF rec
<1>3. rec.at # "mark" /\ (rec.at = "link" => Copied(rec.task, rec.seen))
  BY <1>2
<1>4. run' = [run EXCEPT ![r] = rec]
  BY <1>1 DEF rec
<1>. QED  BY <1>2, <1>3, <1>4, RunMoves

LEMMA FireStep == ASSUME Inv, NEW e \in Evals, Fire(e) PROVE Inv'
<1>. DEFINE t == eval[e].task
            seen == eval[e].seen
<1>1. t \in Tasks /\ Copied(t, seen) /\ seen \in Row
  BY DEF Inv, TypeOK, Eval, EvalOK, Fire
<1>2. seen.count <= Budget(t) /\ seen.status # "Uncreated" /\ Write(t, seen)
  BY <1>1 DEF Copied, Waiting, Fire
<1>3. Tame
  BY <1>1, <1>2, WriteTame
<1>4. run' \in [Runs -> Run] /\ \A s \in Runs : RunOK(s)'
  <2>1. CASE seen.chat
    BY <1>1, <2>1, IdleRunOK, SpawnMoves DEF Fire
  <2>2. CASE ~seen.chat
    BY <1>1, <2>2, SpawnMoves DEF Fire
  <2>. QED  BY <2>1, <2>2
<1>. QED  BY <1>3, <1>4, NextWatchMoves, SweepKept, IndexKept DEF Inv, TypeOK, Tame, Fire

LEMMA EvalEndsStep == ASSUME Inv, NEW e \in Evals, EvalEnds(e) PROVE Inv'
<1>1. Tame
  BY UnwrittenTame DEF EvalEnds
<1>2. IdleEval \in Eval /\ IdleEval.at = "idle" /\ IdleEval.todo = {}
  BY DEF IdleEval, Eval, Row, NoRow, Status
<1>3. EvalOK(e)'
  BY <1>2 DEF EvalOK, EvalEnds, Inv, TypeOK
<1>. QED  BY <1>1, <1>2, <1>3, EvalMoves DEF EvalEnds

\* What is left to show of a step of a run, when the rows stay or were written.
LEMMA RunStepKeeps ==
    ASSUME Inv, Tame, run' \in [Runs -> Run], \A s \in Runs : RunOK(s)',
           left' \in [Bounds -> Nat],
           UNCHANGED <<watch, registering, eval, sweep, late, scan, booting, up>>
    PROVE  Inv'
<1>1. TypeOK'
  BY DEF Inv, TypeOK, Tame
<1>. QED  BY <1>1, EvalsKept, SweepKept, IndexKept DEF Inv, Tame

LEMMA GotoMoves ==
    ASSUME Inv, NEW r \in Runs, run[r].at # "idle", NEW place \in Working \ {"mark"}, GotoR(r, place)
    PROVE  run' \in [Runs -> Run] /\ \A s \in Runs : RunOK(s)'
<1>. DEFINE rec == [run[r] EXCEPT !.at = place]
<1>1. rec \in Run /\ rec.at = place /\ rec.task \in Tasks
  BY DEF Inv, TypeOK, Run, RunOK
<1>2. run' = [run EXCEPT ![r] = rec] /\ place # "link"
  BY DEF GotoR, Inv, TypeOK, Working
<1>. HIDE DEF rec
<1>. QED  BY <1>1, <1>2, RunMoves

LEMMA ReturnMoves ==
    ASSUME Inv, NEW r \in Runs, Return(r)
    PROVE  run' \in [Runs -> Run] /\ \A s \in Runs : RunOK(s)'
BY IdleRunOK, RunMoves DEF Return

LEMMA LinkStep == ASSUME Inv, NEW r \in Runs, LinkChat(r) PROVE Inv'
<1>. DEFINE t == run[r].task
            new == [run[r].seen EXCEPT !.chat = TRUE]
            rec == [[run[r] EXCEPT !.at = "turn"] EXCEPT !.seen = IdleRun.seen]
<1>1. t \in Tasks /\ Copied(t, run[r].seen) /\ run[r].seen \in Row /\ run[r] \in Run
  BY DEF Inv, TypeOK, Run, RunOK, LinkChat
<1>2. new \in Row /\ new.count <= Budget(t) /\ new.status # "Uncreated"
  BY <1>1 DEF Row, Copied, Waiting
<1>3. Write(t, new)
  BY DEF LinkChat
<1>. HIDE DEF new
<1>4. Tame
  BY <1>1, <1>2, <1>3, WriteTame
<1>5. rec \in Run /\ rec.at = "turn" /\ rec.task = t
  BY <1>1, IdleRunOK DEF Run, Working
<1>6. run' = [run EXCEPT ![r] = rec]
  BY DEF LinkChat, Inv, TypeOK
<1>. HIDE DEF rec
<1>7. run' \in [Runs -> Run] /\ \A s \in Runs : RunOK(s)'
  BY <1>1, <1>5, <1>6, RunMoves
<1>. QED  BY <1>4, <1>7, RunStepKeeps DEF LinkChat, Inv, TypeOK

LEMMA AdmitSteps == ASSUME Inv, NEW r \in Runs, Admit(r) \/ CheckStatus(r) PROVE Inv'
<1>1. Tame
  BY UnwrittenTame DEF Admit, CheckStatus
<1>2. {"check", "start"} \subseteq Working \ {"mark"} /\ run[r].at # "idle"
  BY DEF Working, Admit, CheckStatus
<1>3. run' \in [Runs -> Run] /\ \A s \in Runs : RunOK(s)'
  BY <1>2, GotoMoves, ReturnMoves DEF Admit, CheckStatus
<1>. QED  BY <1>1, <1>3, RunStepKeeps DEF Inv, TypeOK, Admit, CheckStatus

LEMMA InProgressStep == ASSUME Inv, NEW r \in Runs, MarkInProgress(r) PROVE Inv'
<1>. DEFINE t == run[r].task
            new == [[row[t] EXCEPT !.status = "InProgress"] EXCEPT !.chat = TRUE]
<1>1. t \in Tasks /\ row[t] \in Row /\ row[t].count <= Budget(t)
  BY DEF Inv, TypeOK, RunOK, Counted, MarkInProgress
<1>2. new \in Row /\ new.count = row[t].count /\ new.status = "InProgress"
  BY <1>1 DEF Row, Status, Waiting
<1>3. Write(t, new)
  BY DEF MarkInProgress
<1>. HIDE DEF new
<1>4. Tame
  BY <1>1, <1>2, <1>3, WriteTame
<1>5. "turn" \in Working \ {"mark"} /\ run[r].at # "idle"
  BY DEF Working, MarkInProgress
<1>6. run' \in [Runs -> Run] /\ \A s \in Runs : RunOK(s)'
  BY <1>5, GotoMoves, ReturnMoves DEF MarkInProgress
<1>. QED  BY <1>4, <1>6, RunStepKeeps DEF MarkInProgress, Inv, TypeOK

LEMMA TurnStep == ASSUME Inv, NEW r \in Runs, TurnEnds(r) PROVE Inv'
<1>1. Tame
  BY UnwrittenTame DEF TurnEnds
<1>2. run[r] \in Run /\ run[r].task \in Tasks
  BY DEF Inv, TypeOK, RunOK, TurnEnds
<1>3. ASSUME NEW o \in {"Completed", "Failed", "Cancelled", "Deferred"},
             run' = [run EXCEPT ![r].at = "mark", ![r].outcome = o]
      PROVE  run' \in [Runs -> Run] /\ \A s \in Runs : RunOK(s)'
  <2>. DEFINE rec == [[run[r] EXCEPT !.at = "mark"] EXCEPT !.outcome = o]
  <2>1. rec \in Run /\ rec.at = "mark" /\ rec.task = run[r].task /\ rec.outcome = o
    BY <1>2 DEF Run, Working
  <2>2. run' = [run EXCEPT ![r] = rec]
    BY <1>3 DEF Inv, TypeOK
  <2>. HIDE DEF rec
  <2>. QED  BY <1>2, <2>1, <2>2, RunMoves
<1>4. run' \in [Runs -> Run] /\ \A s \in Runs : RunOK(s)'
  <2>1. CASE Return(r)
    BY <2>1, ReturnMoves
  <2>2. CASE \E o \in {"Completed", "Failed", "Cancelled", "Deferred"} :
                run' = [run EXCEPT ![r].at = "mark", ![r].outcome = o]
    BY <1>3, <2>2
  <2>. QED  BY <2>1, <2>2 DEF TurnEnds
<1>5. left' \in [Bounds -> Nat]
  BY UseTyped DEF Inv, TypeOK, TurnEnds, Bounds
<1>. QED  BY <1>1, <1>4, <1>5, RunStepKeeps DEF TurnEnds, Inv, TypeOK

LEMMA OutcomeStep == ASSUME Inv, NEW r \in Runs, MarkOutcome(r) PROVE Inv'
<1>1. PICK t \in Tasks : t = run[r].task /\ row[t] \in Row /\ row[t].count <= Budget(t)
  BY DEF Inv, TypeOK, RunOK, Counted, MarkOutcome
<1>2. PICK o \in {"Completed", "Failed", "Cancelled", "Deferred"} : o = run[r].outcome
  BY DEF Inv, TypeOK, Run, RunOK, MarkOutcome
<1>. DEFINE new == [[row[t] EXCEPT !.status = "Pending"] EXCEPT !.runAt = "Later"]
<1>3. new \in Row /\ new.count = row[t].count /\ new.status = "Pending"
  BY <1>1 DEF Row, Status, Waiting
<1>4. ASSUME o = "Deferred"  PROVE Tame
  <2>1. Write(t, new)
    BY <1>1, <1>2, <1>4 DEF MarkOutcome
  <2>2. new.count <= Budget(t) /\ new.status # "Uncreated"
    BY <1>1, <1>3
  <2>. HIDE DEF new
  <2>. QED  BY <1>3, <2>1, <2>2, WriteTame
<1>5. ASSUME o # "Deferred"  PROVE Tame
  <2>1. SetStatus(t, o)
    BY <1>1, <1>2, <1>5 DEF MarkOutcome
  <2>2. o \in Status \ {"Uncreated"}
    BY <1>5 DEF Status, Terminal
  <2>. QED  BY <2>1, <2>2, StatusTame
<1>6. "tell" \in Working \ {"mark"} /\ run[r].at # "idle"
  BY DEF Working, MarkOutcome
<1>7. run' \in [Runs -> Run] /\ \A s \in Runs : RunOK(s)'
  BY <1>6, GotoMoves, ReturnMoves DEF MarkOutcome
<1>8. Tame
  BY <1>4, <1>5
<1>. QED  BY <1>7, <1>8, RunStepKeeps DEF MarkOutcome, Inv, TypeOK

LEMMA TellStep == ASSUME Inv, NEW r \in Runs, Tell(r) PROVE Inv'
<1>1. Tame
  BY UnwrittenTame DEF Tell
<1>. QED  BY <1>1, ReturnMoves, RunStepKeeps DEF Tell, Inv, TypeOK

-----------------------------------------------------------------------------
(* The scheduler, requests, crash and restart.                             *)
LEMMA TimeSteps == ASSUME Inv, NEW t \in Tasks, Expire(t) \/ DeferralElapses(t) PROVE Inv'
<1>1. CASE Expire(t)
  <2>1. Tame
    BY <1>1, UnwrittenTame DEF Expire
  <2>2. late' \subseteq Expiring
    BY <1>1 DEF Expire, Inv, TypeOK
  <2>. QED  BY <1>1, <2>1, <2>2, EvalsKept, RunsKept, SweepKept, IndexKept
            DEF Expire, Inv, TypeOK, Tame
<1>2. CASE DeferralElapses(t)
  <2>1. row' = [row EXCEPT ![t].runAt = "Due"]
        /\ UNCHANGED <<astray, watch, registering, eval, run, sweep, late, scan, booting, up, left>>
    BY <1>2 DEF DeferralElapses
  <2>2. row' \in [Tasks -> Row] /\ \A u \in Tasks : row'[u].status = row[u].status
                                                    /\ row'[u].count = row[u].count
    BY <2>1 DEF Inv, TypeOK, Row
  <2>3. Tame
    BY <2>1, <2>2 DEF Inv, TypeOK, Tame, Created, Over, Counted, Budget
  <2>. QED  BY <2>1, <2>3, EvalsKept, RunsKept, SweepKept, IndexKept DEF Inv, TypeOK, Tame
<1>. QED  BY <1>1, <1>2

LEMMA SpawnSteps == ASSUME Inv, NEW t \in Tasks, RunDeferred(t) \/ RunResumed(t) PROVE Inv'
<1>1. Tame
  BY UnwrittenTame DEF RunDeferred, RunResumed
<1>2. run' \in [Runs -> Run] /\ \A s \in Runs : RunOK(s)'
  BY IdleRunOK, SpawnMoves DEF RunDeferred, RunResumed
<1>3. TypeOK'
  BY <1>1, <1>2 DEF Inv, TypeOK, Tame, RunDeferred, RunResumed
<1>. QED  BY <1>1, <1>2, <1>3, EvalsKept, SweepKept, IndexKept
          DEF Inv, Tame, RunDeferred, RunResumed

LEMMA SweepSteps == ASSUME Inv, Sweep PROVE Inv'
<1>1. CASE FindExpired \/ SweepEnds
  <2>1. Tame
    BY <1>1, UnwrittenTame DEF FindExpired, SweepEnds
  <2>2. sweep' \in [at : {"idle", "mark", "unregister"}, todo : SUBSET Tasks,
                    task : Tasks \cup {NoTask}] /\ sweep'.at # "unregister"
    <3>1. CASE FindExpired
      BY <3>1, SignalAssumption DEF FindExpired, IdleSweep, Inv, TypeOK
    <3>2. CASE SweepEnds
      BY <3>2 DEF SweepEnds, IdleSweep
    <3>. QED  BY <1>1, <3>1, <3>2
  <2>. QED  BY <1>1, <2>1, <2>2, EvalsKept, RunsKept, IndexKept
            DEF FindExpired, SweepEnds, Inv, TypeOK, Tame, SweepOK
<1>2. CASE EndExpired
  <2>1. PICK t \in sweep.todo :
           /\ SetStatus(t, Ended(t))
           /\ sweep' = [at |-> IF Exists(t) THEN "unregister" ELSE "mark",
                        todo |-> sweep.todo \ {t}, task |-> t]
    BY <1>2 DEF EndExpired
  <2>2. t \in Tasks /\ Ended(t) \in Status \ {"Uncreated"} /\ Ended(t) \in Terminal
    BY DEF Inv, TypeOK, Ended, Status, Terminal
  <2>3. Tame
    BY <2>1, <2>2, StatusTame
  <2>4. Exists(t) => Over(t)'
    BY <2>1, <2>2 DEF Over, SetStatus, Write, Inv, TypeOK, Row
  <2>5. SweepOK' /\ sweep' \in [at : {"idle", "mark", "unregister"}, todo : SUBSET Tasks,
                                task : Tasks \cup {NoTask}]
    BY <2>1, <2>2, <2>4 DEF SweepOK, Inv, TypeOK
  <2>. QED  BY <1>2, <2>3, <2>5, EvalsKept, RunsKept, IndexKept DEF EndExpired, Inv, TypeOK, Tame
<1>3. CASE UnregisterExpired
  <2>1. Tame
    BY <1>3, UnwrittenTame DEF UnregisterExpired
  <2>2. sweep.task \in Tasks /\ Over(sweep.task)
    BY <1>3 DEF UnregisterExpired, Inv, SweepOK
  <2>3. Indexed' /\ Heard'
    BY <1>3, <2>2, WatchRemoved DEF UnregisterExpired
  <2>4. TypeOK' /\ SweepOK'
    BY <1>3, <2>1 DEF UnregisterExpired, Inv, TypeOK, Tame, SweepOK
  <2>. QED  BY <1>3, <2>1, <2>3, <2>4, EvalsKept, RunsKept DEF UnregisterExpired, Inv, Tame
<1>. QED  BY <1>1, <1>2, <1>3 DEF Sweep

LEMMA StopSteps == ASSUME Inv, NEW t \in Tasks, Cancel(t) \/ Delete(t) PROVE Inv'
<1>1. Tame
  BY StatusTame DEF Cancel, Delete, Status, Terminal
<1>2. run' \in [Runs -> Run] /\ \A s \in Runs : RunOK(s)'
  <2>1. CASE Cancel(t)
    <3>1. \A s \in Runs : /\ run'[s] \in Run /\ run'[s].at = run[s].at
                          /\ run'[s].task = run[s].task /\ run'[s].seen = run[s].seen
                          /\ run'[s].outcome = run[s].outcome
      BY <2>1 DEF Cancel, Inv, TypeOK, Run
    <3>. QED  BY <2>1, <3>1 DEF Cancel, Inv, RunOK, Copied, Budget
  <2>2. CASE Delete(t)
    BY <2>2, RunsKept DEF Delete, Inv, TypeOK
  <2>. QED  BY <2>1, <2>2
<1>3. left' \in [Bounds -> Nat]
  BY UseTyped DEF Cancel, Delete, Inv, TypeOK, Bounds
<1>4. TypeOK'
  BY <1>1, <1>2, <1>3 DEF Inv, TypeOK, Tame, Cancel, Delete
<1>. QED  BY <1>1, <1>2, <1>4, EvalsKept, SweepKept, IndexKept DEF Inv, Tame, Cancel, Delete

LEMMA CrashSteps == ASSUME Inv, Crash \/ Restart \/ FindResumable PROVE Inv'
<1>1. CASE Crash
  <2>1. IdleEval \in Eval /\ IdleEval.at = "idle" /\ IdleEval.todo = {}
    BY DEF IdleEval, Eval, Row, NoRow, Status
  <2>2. /\ eval' = [e \in Evals |-> IdleEval] /\ run' = [r \in Runs |-> IdleRun]
        /\ sweep' = IdleSweep /\ up' = FALSE /\ watch' = {} /\ registering' = {}
        /\ booting' = {} /\ scan' = FALSE /\ Use("crashes")
        /\ UNCHANGED <<astray, row, late>>
    BY <1>1 DEF Crash
  <2>3. left' \in [Bounds -> Nat]
    BY <2>2, UseTyped DEF Inv, TypeOK, Bounds
  <2>4. TypeOK'
    BY <2>1, <2>2, <2>3, IdleRunOK DEF Inv, TypeOK, IdleSweep
  <2>5. (\A e \in Evals : EvalOK(e)') /\ (\A r \in Runs : RunOK(r)')
    BY <2>1, <2>2, IdleRunOK DEF EvalOK, RunOK
  <2>6. SweepOK' /\ Indexed' /\ Heard' /\ Counted'
    BY <2>2 DEF SweepOK, IdleSweep, Indexed, Heard, Counted, Inv, Budget
  <2>. QED  BY <2>4, <2>5, <2>6 DEF Inv
<1>2. CASE Restart
  <2>1. /\ up' = TRUE /\ watch' = {t \in Tasks : row[t].status = "Pending"} /\ scan' = TRUE
        /\ astray' = astray \cup {t \in Tasks : row[t].status = "InProgress"}
        /\ UNCHANGED <<row, registering, eval, run, sweep, late, booting, left>>
    BY <1>2 DEF Restart
  <2>2. TypeOK'
    BY <2>1 DEF Inv, TypeOK
  <2>3. \A t : /\ Created(t) => Created(t)'
               /\ Over(t) => Over(t)'
    BY <2>1 DEF Created, Over
  <2>4. ASSUME NEW e \in Evals  PROVE EvalOK(e)'
    BY <2>1, <2>3 DEF Inv, EvalOK, Copied, Budget
  <2>5. SweepOK' /\ Counted' /\ Indexed' /\ Heard'
    BY <2>1, <2>3 DEF Inv, SweepOK, Counted, Budget, Indexed, Heard, Created, Waiting
  <2>. QED  BY <2>1, <2>2, <2>4, <2>5, RunsKept DEF Inv
<1>3. CASE FindResumable
  <2>1. Tame
    BY <1>3, UnwrittenTame DEF FindResumable
  <2>2. TypeOK'
    BY <1>3, <2>1 DEF FindResumable, Inv, TypeOK, Tame
  <2>. QED  BY <1>3, <2>1, <2>2, EvalsKept, RunsKept, SweepKept, IndexKept
            DEF FindResumable, Inv, Tame
<1>. QED  BY <1>1, <1>2, <1>3

-----------------------------------------------------------------------------
LEMMA InitInv == Init => Inv
<1>. SUFFICES ASSUME Init PROVE Inv
  OBVIOUS
<1>1. IdleEval \in Eval /\ IdleEval.at = "idle" /\ IdleEval.todo = {}
  BY DEF IdleEval, Eval, Row, NoRow, Status
<1>2. \A b \in Bounds : Limit(b) \in Nat
  BY SignalAssumption DEF Bounds, Limit
<1>3. TypeOK
  BY <1>1, <1>2, IdleRunOK, SignalAssumption
  DEF Init, TypeOK, IdleSweep, Row, NoRow, Status
<1>4. (\A e \in Evals : EvalOK(e)) /\ (\A r \in Runs : RunOK(r))
  BY <1>1, IdleRunOK DEF Init, EvalOK, RunOK
<1>5. SweepOK /\ Indexed /\ Heard
  BY DEF Init, SweepOK, IdleSweep, Indexed, Heard, NoRow, Waiting
<1>6. Counted
  <2>. SUFFICES ASSUME NEW t \in Tasks  PROVE row[t].count <= Budget(t)
    BY DEF Counted
  <2>1. row[t].count = 0
    BY DEF Init, NoRow
  <2>2. MaxEvaluations[t] \in Nat
    BY SignalAssumption
  <2>. QED  BY <2>1, <2>2 DEF Budget
<1>. QED  BY <1>3, <1>4, <1>5, <1>6 DEF Inv

LEMMA StepInv == Inv /\ [Next]_signalVars => Inv'
<1>. SUFFICES ASSUME Inv, [Next]_signalVars PROVE Inv'
  OBVIOUS
<1>1. ASSUME NEW e \in Evals, EvalStep(e)  PROVE Inv'
  BY <1>1, EvaluateStep, ReadStep, EndExceededStep, UnregisterStep, FireStep, EvalEndsStep
  DEF EvalStep
<1>2. ASSUME NEW r \in Runs, RunStep(r)  PROVE Inv'
  BY <1>2, LinkStep, AdmitSteps, InProgressStep, TurnStep, OutcomeStep, TellStep DEF RunStep
<1>3. ASSUME NEW t \in Tasks, TaskStep(t)  PROVE Inv'
  BY <1>3, AwaitStep, RegisterStep, TimeSteps, SpawnSteps, StopSteps DEF TaskStep
<1>4. CASE UNCHANGED signalVars
  <2>. USE <1>4 DEF signalVars
  <2>1. Tame
    BY UnwrittenTame
  <2>2. TypeOK'
    BY DEF Inv, TypeOK
  <2>. QED  BY <2>1, <2>2, EvalsKept, RunsKept, SweepKept, IndexKept DEF Inv, Tame
<1>. QED  BY <1>1, <1>2, <1>3, <1>4, SweepSteps, CrashSteps DEF Next

\* The invariant of the waits.
THEOREM SignalInvariant == Spec => []Inv
BY InitInv, StepInv, PTL DEF Spec

\* Rows, watches, evaluations and runs are what their declarations say, for
\* any number of tasks, of concurrent candidates and of runs.
THEOREM SignalTypeCorrect == Spec => []TypeOK
<1>1. Inv => TypeOK
  BY DEF Inv
<1>. QED  BY <1>1, SignalInvariant, PTL

\* No copy of a row written late takes a count past the budget (fire_signal).
THEOREM BudgetIsKept == Spec => []BudgetKept
<1>1. Inv => BudgetKept
  BY DEF Inv, BudgetKept, Counted, EvalOK, RunOK, Copied
<1>. QED  BY <1>1, SignalInvariant, PTL

\* A pending wait is in the index of watches, or its end was overwritten, or it
\* was in an ordinary run when the process restarted (register, rebuild_from_db).
THEOREM PendingStaysHeard == Spec => []PendingIsHeard
<1>1. Inv => PendingIsHeard
  BY DEF Inv, PendingIsHeard, Heard, Waiting
<1>. QED  BY <1>1, SignalInvariant, PTL
=============================================================================
