------------------------ MODULE TaskExecution_proofs ------------------------
(***************************************************************************)
(* What holds of TaskExecution for every set of tasks, agents and runs,    *)
(* every limit and every bound.                                            *)
(***************************************************************************)
EXTENDS TaskExecution, TLAPS

(* The parts of TypeInv that the operators of the module touch, and what   *)
(* each of those operators preserves.                                      *)
RunsTyped == run \in [Runs -> Run] /\ \A r \in Runs : RunOK(run[r])
MsgTyped == msg \in [Tasks -> [Slots -> Message]]

LEMMA UpdateRun ==
    ASSUME RunsTyped, NEW r \in Runs, NEW x \in Run, RunOK(x),
           run' = [run EXCEPT ![r] = x]
    PROVE  RunsTyped'
  BY DEF RunsTyped

LEMMA IdleTyped == IdleRun \in Run /\ RunOK(IdleRun)
  BY TaskAssumption DEF IdleRun, Run, PC, RunOK

LEMMA FutureTyped ==
    ASSUME NEW t \in Tasks, NEW w \in Runs \cup {NoRun}
    PROVE  Future(t, w) \in Run /\ RunOK(Future(t, w))
<1>1. IdleRun \in Run
  BY IdleTyped
<1>2. Future(t, w) \in Run
  BY <1>1 DEF Future, Run, PC
<1>3. Future(t, w).pc = "Spawned" /\ Future(t, w).task = t
  BY <1>1 DEF Future, Run
<1> QED BY <1>2, <1>3 DEF RunOK

LEMMA GotoTyped ==
    ASSUME RunsTyped, NEW r \in Runs, run[r].pc # "Idle",
           NEW p \in PC, Goto(r, p),
           p \in {"Inference", "Asking"} => run[r].turn < MaxTurns,
           p \in {"Inference", "Asking", "Pausing"} => run[r].msg \in Slots,
           p = "Finishing" => run[r].outcome \in Outcome,
           p = "Checking" => ParentOf[run[r].task] # NoTask
    PROVE  RunsTyped'
<1> DEFINE x == [run[r] EXCEPT !.pc = p]
<1>1. run[r] \in Run /\ RunOK(run[r])
  BY DEF RunsTyped
<1>2. x \in Run /\ RunOK(x)
  BY <1>1 DEF Run, RunOK
<1> QED BY <1>2, UpdateRun DEF Goto

LEMMA ReturnTyped ==
    ASSUME RunsTyped, NEW r \in Runs, run[r].pc # "Idle", Return(r)
    PROVE  RunsTyped'
<1> DEFINE x == [run[r] EXCEPT !.pc = "Releasing", !.waiter = NoRun]
<1>1. run[r] \in Run /\ RunOK(run[r])
  BY DEF RunsTyped
<1>2. x \in Run /\ RunOK(x)
  BY <1>1 DEF Run, RunOK, PC, Holding
<1> QED BY <1>2, UpdateRun DEF Return

LEMMA SpawnTyped ==
    ASSUME RunsTyped, fired \subseteq Runs, NEW t \in Tasks, Spawn(t)
    PROVE  RunsTyped' /\ fired' \subseteq Runs
  BY FutureTyped, UpdateRun DEF Spawn

LEMMA MessageTyped ==
    ASSUME MsgTyped, NEW t \in Tasks, NEW m \in Slots, NEW v \in Message,
           SetMessage(t, m, v)
    PROVE  MsgTyped'
  BY DEF SetMessage, MsgTyped

LEMMA SettleTyped ==
    ASSUME RunsTyped, MsgTyped, NEW r \in Runs, run[r].pc \in {"Inference", "Asking"},
           NEW p, NEW o, SettleAs(r, p, o),
           \/ p = "Turn" /\ o = "None"
           \/ p = "Finishing" /\ o \in Outcome
    PROVE  RunsTyped' /\ MsgTyped'
<1>1. run[r] \in Run /\ RunOK(run[r])
  BY DEF RunsTyped
<1>2. MsgTyped'
  BY <1>1, MessageTyped DEF SettleAs, Settled, Message, RunOK
<1> DEFINE x == [run[r] EXCEPT !.pc = p, !.msg = 0, !.outcome = o,
                               !.turn = IF p = "Turn" THEN @ + 1 ELSE @]
<1>3. run[r].turn \in 0..MaxTurns /\ run[r].turn < MaxTurns
  BY <1>1 DEF Run, RunOK
<1>4. x \in Run
  <2>1. CASE p = "Turn"
    <3>1. run[r].turn + 1 \in 0..MaxTurns
      BY <1>3, TaskAssumption
    <3> QED BY <1>1, <2>1, <3>1 DEF Run, PC, Holding
  <2>2. CASE p = "Finishing"
    BY <1>1, <2>2 DEF Run, PC, Holding
  <2> QED BY <2>1, <2>2
<1>5. RunOK(x)
  BY <1>1 DEF Run, RunOK
<1>6. run' = [run EXCEPT ![r] = x]
  BY DEF SettleAs
<1> QED BY <1>2, <1>4, <1>5, <1>6, UpdateRun

LEMMA UseTyped ==
    ASSUME left \in [Bounds -> Nat], NEW b \in Bounds, Use(b)
    PROVE  left' \in [Bounds -> Nat]
  BY DEF Use
-----------------------------------------------------------------------------
LEMMA RowTyped ==
    ASSUME NEW x \in Row
    PROVE  /\ \A s \in RowStatus : [x EXCEPT !.status = s] \in Row
           /\ \A s \in RowStatus, c \in {"None", "Later", "Due"} :
                 [x EXCEPT !.status = s, !.runAt = c] \in Row
           /\ \A s \in RowStatus, b \in BOOLEAN :
                 [x EXCEPT !.status = s, !.chat = b] \in Row
           /\ [x EXCEPT !.runAt = "Due"] \in Row
  BY DEF Row

LEMMA MessageUpdated ==
    ASSUME NEW x \in Message
    PROVE  /\ \A s \in {"Settled", "Executing", "Paused"} :
                 [x EXCEPT !.status = s] \in Message
           /\ \A b \in BOOLEAN : [x EXCEPT !.pending = b] \in Message
           /\ Settled \in Message
  BY DEF Message, Settled

LEMMA RunStepTyped ==
    ASSUME TypeInv, NEW r \in Runs, RunStep(r)
    PROVE  TypeInv'
<1> DEFINE t == run[r].task
<1>1. RunsTyped /\ MsgTyped
  BY DEF TypeInv, TypeOK, RunsTyped, MsgTyped
<1>2. run[r] \in Run /\ RunOK(run[r])
  BY <1>1 DEF RunsTyped
<1>0. /\ \A u \in Tasks : row[u] \in Row
      /\ \A u \in Tasks, k \in Slots : msg[u][k] \in Message
  BY DEF TypeInv, TypeOK
<1> USE DEF TypeInv, TypeOK
<1>3. CASE Admit(r)
  <2>1. run[r].pc # "Idle"
    BY <1>3 DEF Admit
  <2>2. RunsTyped'
    BY <1>3, <1>1, <1>2, <2>1, GotoTyped, ReturnTyped DEF Admit, PC, Holding, RunOK
  <2> QED BY <1>3, <1>1, <1>2, <2>1, <2>2 DEF Admit, RunsTyped, MsgTyped, history, RunOK
<1>4. CASE RejectDuplicate(r)
  <2>1. RunsTyped'
    BY <1>4, <1>1, IdleTyped, UpdateRun DEF RejectDuplicate
  <2> QED BY <1>4, <2>1 DEF RejectDuplicate, RunsTyped, MsgTyped, history
<1>5. CASE RejectAtLimit(r)
  <2>1. RunsTyped'
    BY <1>5, <1>1, IdleTyped, UpdateRun DEF RejectAtLimit
  <2> QED BY <1>5, <2>1 DEF RejectAtLimit, RunsTyped, MsgTyped, history
<1>6. CASE CheckStatus(r)
  <2>1. run[r].pc # "Idle"
    BY <1>6 DEF CheckStatus
  <2>2. RunsTyped'
    BY <1>6, <1>1, <1>2, <2>1, GotoTyped, ReturnTyped DEF CheckStatus, PC, Holding, RunOK
  <2> QED BY <1>6, <1>1, <1>2, <2>1, <2>2
    DEF CheckStatus, RunsTyped, MsgTyped, history, RunOK
<1>7. CASE MarkInProgress(r)
  <2>1. RunsTyped'
    BY <1>7, <1>1, GotoTyped, ReturnTyped DEF MarkInProgress, PC, Holding
  <2>2. ASSUME NEW u \in Tasks
        PROVE  [row[u] EXCEPT !.status = "InProgress", !.chat = TRUE] \in Row
    BY <1>0, RowTyped DEF RowStatus, Status
  <2>3. row' \in [Tasks -> Row]
    <3>1. t \in Tasks
      BY <1>7, <1>2 DEF MarkInProgress, RunOK
    <3>2. CASE Exists(t)
      <4>1. row' = [row EXCEPT ![t] = [row[t] EXCEPT !.status = "InProgress", !.chat = TRUE]]
        BY <1>7, <3>2 DEF MarkInProgress
      <4> QED BY <2>2, <3>1, <4>1
    <3> QED BY <1>7, <3>2 DEF MarkInProgress
  <2> QED BY <1>7, <2>1, <2>3 DEF MarkInProgress, RunsTyped, MsgTyped, history
<1>8. CASE BeginTurn(r)
  <2>1. PICK m \in Slots :
          /\ SetMessage(t, m, [msg[t][m] EXCEPT !.status = "Executing"])
          /\ run' = [run EXCEPT ![r].pc = "Inference", ![r].msg = m]
    BY <1>8 DEF BeginTurn
  <2>2. t \in Tasks /\ run[r].turn < MaxTurns
    BY <1>8, <1>2 DEF BeginTurn, RunOK
  <2>3. [msg[t][m] EXCEPT !.status = "Executing"] \in Message
    BY <1>0, <2>2, MessageUpdated
  <2>4. MsgTyped'
    BY <1>1, <2>1, <2>2, <2>3, MessageTyped
  <2> DEFINE x == [run[r] EXCEPT !.pc = "Inference", !.msg = m]
  <2>5. x \in Run /\ RunOK(x)
    BY <1>2, <2>2 DEF Run, RunOK, PC, Holding
  <2>6. RunsTyped'
    BY <1>1, <2>1, <2>5, UpdateRun
  <2> QED BY <1>8, <2>4, <2>6 DEF BeginTurn, RunsTyped, MsgTyped, history
<1>9. CASE AutoComplete(r)
  <2> DEFINE x == [run[r] EXCEPT !.pc = "Finishing", !.outcome = "Completed"]
  <2>1. x \in Run /\ RunOK(x)
    BY <1>9, <1>2 DEF AutoComplete, Run, RunOK, PC, Holding, Outcome
  <2>2. RunsTyped'
    BY <1>9, <1>1, <2>1, UpdateRun DEF AutoComplete
  <2> QED BY <1>9, <2>2 DEF AutoComplete, RunsTyped, MsgTyped, history
<1>10. CASE EndTurn(r)
  <2>1. SettleAs(r, "Turn", "None") /\ run[r].pc \in {"Inference", "Asking"}
    BY <1>10 DEF EndTurn
  <2>2. RunsTyped' /\ MsgTyped'
    BY <1>1, <2>1, SettleTyped
  <2> QED BY <1>10, <2>2 DEF EndTurn, RunsTyped, MsgTyped, history
<1>11. CASE TurnFails(r)
  <2>1. RunsTyped' /\ MsgTyped'
    BY <1>11, <1>1, SettleTyped DEF TurnFails, Outcome
  <2> QED BY <1>11, <2>1 DEF TurnFails, RunsTyped, MsgTyped, history
<1>12. CASE TurnCancelled(r)
  <2>1. RunsTyped' /\ MsgTyped'
    BY <1>12, <1>1, SettleTyped DEF TurnCancelled, Outcome
  <2> QED BY <1>12, <2>1 DEF TurnCancelled, RunsTyped, MsgTyped, history
<1>13. CASE EndWithEvent(r)
  <2>1. RunsTyped' /\ MsgTyped'
    BY <1>13, <1>1, SettleTyped DEF EndWithEvent, Outcome
  <2>2. left' \in [Bounds -> Nat]
    BY <1>13, UseTyped DEF EndWithEvent, Bounds
  <2> QED BY <1>13, <2>1, <2>2 DEF EndWithEvent, RunsTyped, MsgTyped, history
<1>14. CASE AskHuman(r)
  <2>1. RunsTyped'
    BY <1>14, <1>1, <1>2, GotoTyped DEF AskHuman, PC, Holding, RunOK
  <2>2. left' \in [Bounds -> Nat]
    BY <1>14, UseTyped DEF AskHuman, Bounds
  <2>3. t \in Tasks /\ run[r].msg \in Slots
    BY <1>14, <1>2 DEF AskHuman, RunOK
  <2>4. [msg[t][run[r].msg] EXCEPT !.pending = TRUE] \in Message
    BY <1>0, <2>3, MessageUpdated
  <2>5. MsgTyped'
    BY <1>14, <1>1, <2>3, <2>4, MessageTyped DEF AskHuman
  <2> QED BY <1>14, <2>1, <2>2, <2>5 DEF AskHuman, RunsTyped, MsgTyped, history
<1>15. CASE ReportPending(r)
  <2>1. run[r].pc # "Idle"
    BY <1>15 DEF ReportPending
  <2>2. RunsTyped'
    BY <1>15, <1>1, <1>2, <2>1, GotoTyped, ReturnTyped
      DEF ReportPending, PC, Holding, RunOK
  <2> QED BY <1>15, <1>1, <1>2, <2>1, <2>2
    DEF ReportPending, RunsTyped, MsgTyped, history, RunOK
<1>16. CASE PauseMessage(r)
  <2>1. t \in Tasks /\ run[r].msg \in Slots
    BY <1>16, <1>2 DEF PauseMessage, RunOK
  <2>2. [msg[t][run[r].msg] EXCEPT !.status = "Paused"] \in Message
    BY <1>0, <2>1, MessageUpdated
  <2>3. MsgTyped'
    BY <1>16, <1>1, <2>1, <2>2, MessageTyped DEF PauseMessage
  <2> DEFINE x == [run[r] EXCEPT !.pc = "Releasing", !.waiter = NoRun, !.msg = 0]
  <2>4. x \in Run /\ RunOK(x)
    BY <1>16, <1>2 DEF PauseMessage, Run, RunOK, PC, Holding
  <2>5. RunsTyped'
    BY <1>16, <1>1, <2>4, UpdateRun DEF PauseMessage
  <2> QED BY <1>16, <2>3, <2>5 DEF PauseMessage, RunsTyped, MsgTyped, history
<1>17. CASE WriteOutcome(r)
  <2>1. RunsTyped'
    BY <1>17, <1>1, GotoTyped, ReturnTyped DEF WriteOutcome, PC, Holding
  <2>2. t \in Tasks /\ run[r].outcome \in Outcome
    BY <1>17, <1>2 DEF WriteOutcome, RunOK
  <2>3. [row[t] EXCEPT !.status = "Pending", !.runAt = "Later"] \in Row
    BY <1>0, <2>2, RowTyped DEF RowStatus, Status
  <2>4. run[r].outcome # "Deferred" => [row[t] EXCEPT !.status = run[r].outcome] \in Row
    BY <1>0, <2>2, RowTyped DEF RowStatus, Status, Terminal, Outcome
  <2>5. row' \in [Tasks -> Row]
    BY <1>17, <2>2, <2>3, <2>4 DEF WriteOutcome
  <2> QED BY <1>17, <2>1, <2>5 DEF WriteOutcome, RunsTyped, MsgTyped, history
<1>18. CASE Deliver(r)
  <2>1. run[r].pc # "Idle"
    BY <1>18 DEF Deliver
  <2>2. RunsTyped'
    BY <1>18, <1>1, <1>2, <2>1, GotoTyped, ReturnTyped DEF Deliver, PC, Holding, RunOK
  <2> QED BY <1>18, <1>1, <1>2, <2>1, <2>2
    DEF Deliver, RunsTyped, MsgTyped, history, RunOK
<1>19. CASE CheckParent(r)
  <2> DEFINE p == ParentOf[t]
  <2>1. t \in Tasks /\ p \in Tasks
    BY <1>19, <1>2, TaskAssumption DEF CheckParent, RunOK
  <2>2. CASE Return(r) /\ UNCHANGED <<fired, resumed>>
    BY <1>19, <1>1, <2>1, <2>2, ReturnTyped DEF CheckParent, RunsTyped, MsgTyped, history
  <2>3. CASE resumed' = resumed \cup {p} /\ \E k \in Runs :
               /\ run[k].pc = "Idle"
               /\ run' = [run EXCEPT ![k] = Future(p, r), ![r].pc = "Awaiting"]
               /\ fired' = fired \ {k}
    <3>1. PICK k \in Runs :
            /\ run[k].pc = "Idle"
            /\ run' = [run EXCEPT ![k] = Future(p, r), ![r].pc = "Awaiting"]
            /\ fired' = fired \ {k}
      BY <2>3
    <3> DEFINE x == [run[r] EXCEPT !.pc = "Awaiting"]
    <3>2. x \in Run /\ RunOK(x)
      BY <1>19, <1>2 DEF CheckParent, Run, RunOK, PC, Holding
    <3>3. Future(p, r) \in Run /\ RunOK(Future(p, r))
      BY <2>1, FutureTyped
    <3>4. r # k
      BY <1>19, <3>1 DEF CheckParent
    <3>5. run' = [[run EXCEPT ![k] = Future(p, r)] EXCEPT ![r] = x]
      BY <1>1, <3>1, <3>4 DEF RunsTyped
    <3>6. RunsTyped'
      BY <1>1, <3>2, <3>3, <3>4, <3>5 DEF RunsTyped
    <3> QED BY <1>19, <2>1, <2>3, <3>1, <3>6 DEF CheckParent, RunsTyped, MsgTyped, history
  <2> QED BY <1>19, <2>2, <2>3 DEF CheckParent
<1>20. CASE ParentReturned(r)
  <2>1. RunsTyped'
    BY <1>20, <1>1, ReturnTyped DEF ParentReturned
  <2> QED BY <1>20, <2>1 DEF ParentReturned, RunsTyped, MsgTyped, history
<1>21. CASE ReleaseSlot(r)
  <2>1. RunsTyped'
    BY <1>21, <1>1, IdleTyped, UpdateRun DEF ReleaseSlot
  <2> QED BY <1>21, <2>1 DEF ReleaseSlot, RunsTyped, MsgTyped, history
<1> QED
  BY <1>3, <1>4, <1>5, <1>6, <1>7, <1>8, <1>9, <1>10, <1>11, <1>12, <1>13, <1>14, <1>15,
     <1>16, <1>17, <1>18, <1>19, <1>20, <1>21
    DEF RunStep

-----------------------------------------------------------------------------
LEMMA TaskStepTyped ==
    ASSUME TypeInv, NEW t \in Tasks,
           \/ Request(t) \/ Handler(t) \/ DeferralElapses(t)
           \/ Sweep(t) \/ SpawnResumed(t)
           \/ \E r \in Runs : CreateByTool(r, t)
    PROVE  TypeInv'
<1>1. RunsTyped /\ MsgTyped
  BY DEF TypeInv, TypeOK, RunsTyped, MsgTyped
<1>2. row[t] \in Row /\ \A k \in Slots : msg[t][k] \in Message
  BY DEF TypeInv, TypeOK
<1>3. \A s \in RowStatus : SetStatus(t, s) => row' \in [Tasks -> Row]
  BY <1>2, RowTyped DEF SetStatus, TypeInv, TypeOK
<1>4. ASSUME Spawn(t) PROVE RunsTyped' /\ fired' \subseteq Runs
  BY <1>1, <1>4, SpawnTyped DEF TypeInv, TypeOK
<1>5. \A b \in Bounds : Use(b) => left' \in [Bounds -> Nat]
  BY UseTyped DEF TypeInv, TypeOK
<1>created. ASSUME Create(t)
       PROVE  row' \in [Tasks -> Row] /\ RunsTyped' /\ fired' \subseteq Runs
  <2>1. [row[t] EXCEPT !.status = "Pending", !.runAt = "Later"] \in Row
    BY <1>2, RowTyped DEF RowStatus, Status
  <2>2. \/ SetStatus(t, "Pending") /\ Spawn(t)
        \/ /\ row' = [row EXCEPT ![t] =
                        [row[t] EXCEPT !.status = "Pending", !.runAt = "Later"]]
           /\ UNCHANGED <<run, fired>>
    BY <1>created DEF Create
  <2> QED
    BY <1>1, <1>3, <1>4, <2>1, <2>2 DEF TypeInv, TypeOK, RunsTyped, RowStatus, Status
<1> USE DEF TypeInv, TypeOK
<1>6. CASE CreateByApi(t)
  BY <1>6, <1>created DEF CreateByApi, RunsTyped, MsgTyped, history
<1>7. ASSUME NEW r \in Runs, CreateByTool(r, t) PROVE TypeInv'
  BY <1>7, <1>created DEF CreateByTool, RunsTyped, MsgTyped, history
<1>8. ASSUME NEW m \in Slots, Answer(t, m) PROVE TypeInv'
  <2>1. MsgTyped'
    <3>1. [status |-> "Executing", pending |-> FALSE] \in Message
      BY DEF Message
    <3>2. [msg[t][m] EXCEPT !.pending = FALSE] \in Message
      BY <1>2, MessageUpdated
    <3> QED BY <1>8, <1>1, <3>1, <3>2, MessageTyped DEF Answer
  <2>2. RunsTyped' /\ fired' \subseteq Runs
    BY <1>8, <1>1, <1>4 DEF Answer, RunsTyped
  <2> QED BY <1>8, <2>1, <2>2 DEF Answer, RunsTyped, MsgTyped, history
<1>9. CASE StopInChat(t)
  <2>1. left' \in [Bounds -> Nat]
    BY <1>9, <1>5 DEF StopInChat, Bounds
  <2> QED BY <1>9, <1>1, <2>1 DEF StopInChat, Stages, InTurn, RunsTyped, MsgTyped, history
<1>10. CASE DeleteByApi(t)
  <2>1. left' \in [Bounds -> Nat]
    BY <1>10, <1>5 DEF DeleteByApi, Bounds
  <2> QED BY <1>10, <1>1, <2>1 DEF DeleteByApi, Stages, RunsTyped, MsgTyped, history
<1>11. CASE InterruptTurn(t)
  <2>1. left' \in [Bounds -> Nat]
    BY <1>11, <1>5 DEF InterruptTurn, Bounds
  <2> QED BY <1>11, <1>1, <2>1 DEF InterruptTurn, InTurn, RunsTyped, MsgTyped, history
<1>12. CASE CancelByApi(t)
  <2>1. left' \in [Bounds -> Nat]
    BY <1>12, <1>5 DEF CancelByApi, Bounds
  <2>2. row' \in [Tasks -> Row]
    BY <1>12, <1>3 DEF CancelByApi, RowStatus, Status, Terminal
  <2> QED BY <1>12, <1>1, <2>1, <2>2 DEF CancelByApi, Stages, RunsTyped, MsgTyped, history
<1>13. CASE ReadForEdit(t)
  <2>1. left' \in [Bounds -> Nat]
    BY <1>13, <1>5 DEF ReadForEdit, Bounds
  <2> QED BY <1>13, <1>1, <1>2, <2>1 DEF ReadForEdit, RunsTyped, MsgTyped, history
<1>14. CASE MarkCancelled(t)
  <2>1. row' \in [Tasks -> Row]
    BY <1>14, <1>3 DEF MarkCancelled, RowStatus, Status, Terminal
  <2> QED BY <1>14, <1>1, <2>1 DEF MarkCancelled, Stages, RunsTyped, MsgTyped, history
<1>15. CASE FireToken(t)
  BY <1>15, <1>1 DEF FireToken, Stages, RunsTyped, MsgTyped, history
<1>16. CASE DeleteRow(t)
  <2>1. row' \in [Tasks -> Row]
    BY <1>16, <1>3 DEF DeleteRow, RowStatus
  <2>2. [k \in Slots |-> Settled] \in [Slots -> Message]
    BY DEF Settled, Message
  <2>3. MsgTyped'
    BY <1>16, <1>1, <2>2 DEF DeleteRow, MsgTyped
  <2> QED BY <1>16, <1>1, <2>1, <2>3 DEF DeleteRow, Stages, RunsTyped, MsgTyped, history
<1>17. CASE WriteEdit(t)
  <2>1. NoEdit \in Row
    BY DEF NoEdit, NoRow, Row, RowStatus
  <2>2. edit' \in [Tasks -> Row]
    BY <1>17, <2>1 DEF WriteEdit
  <2>3. row' \in [Tasks -> Row]
    BY <1>17 DEF WriteEdit
  <2> QED BY <1>17, <1>1, <2>2, <2>3 DEF WriteEdit, RunsTyped, MsgTyped, history
<1>18. CASE DeferralElapses(t)
  <2>1. row' \in [Tasks -> Row]
    BY <1>18, <1>2, RowTyped DEF DeferralElapses
  <2> QED BY <1>18, <1>1, <2>1 DEF DeferralElapses, RunsTyped, MsgTyped, history
<1>19. CASE Sweep(t)
  BY <1>19, <1>4 DEF Sweep, RunsTyped, MsgTyped, history
<1>20. CASE SpawnResumed(t)
  BY <1>20, <1>4 DEF SpawnResumed, RunsTyped, MsgTyped, history
<1> QED
  BY <1>6, <1>7, <1>8, <1>9, <1>10, <1>11, <1>12, <1>13, <1>14, <1>15, <1>16, <1>17,
     <1>18, <1>19, <1>20
    DEF Request, Handler

LEMMA TypeStep ==
    ASSUME TypeInv, [Next]_vars
    PROVE  TypeInv'
<1> USE DEF TypeInv, TypeOK
<1>1. CASE Crash
  <2>1. RunsTyped'
    BY <1>1, IdleTyped DEF Crash, RunsTyped
  <2>2. left' \in [Bounds -> Nat]
    BY <1>1, UseTyped DEF Crash, Bounds
  <2>3. NoEdit \in Row
    BY DEF NoEdit, NoRow, Row, RowStatus
  <2> QED BY <1>1, <2>1, <2>2, <2>3 DEF Crash, RunsTyped, Stages
<1>2. CASE Restart
  BY <1>2 DEF Restart, history
<1>3. CASE UNCHANGED vars
  BY <1>3 DEF vars, history
<1> QED BY <1>1, <1>2, <1>3, RunStepTyped, TaskStepTyped DEF Next

(* Rows, messages, futures, requests and bounds have their types, and every  *)
(* future carries what its place in run_task and execute_task needs.         *)
LEMMA TypeInvariant == Spec => []TypeInv
<1>1. Init => TypeInv
  <2> SUFFICES ASSUME Init PROVE TypeInv
    OBVIOUS
  <2>1. \A s \in RowStatus : NoRow(s) \in Row
    BY DEF NoRow, Row
  <2>2. Settled \in Message
    BY DEF Settled, Message
  <2>3. left \in [Bounds -> Nat]
    BY TaskAssumption DEF Init, Bounds, Limit
  <2>4. "Uncreated" \in RowStatus /\ "Deleted" \in RowStatus /\ "None" \in Stages
    BY DEF RowStatus, Stages
  <2> QED BY <2>1, <2>2, <2>3, <2>4, IdleTyped DEF Init, TypeInv, TypeOK, NoEdit
<1> QED BY <1>1, TypeStep, PTL DEF Spec

(* The row, the messages, the futures and the requests of every task stay    *)
(* within their types, whatever the bounds.                                  *)
THEOREM TypeCorrect == Spec => []TypeOK
<1>1. TypeInv => TypeOK
  BY DEF TypeInv
<1> QED BY <1>1, TypeInvariant, PTL

-----------------------------------------------------------------------------
(* Slots.  A step of a run that holds a slot keeps the slot, a step that      *)
(* spawns a future leaves every slot alone, and only Admit, ReleaseSlot and   *)
(* Crash touch active_tasks.                                                  *)
Moves(r) == /\ active' = active
            /\ Live(r)
            /\ \E x : /\ run' = [run EXCEPT ![r] = x]
                      /\ x.pc \in Holding /\ x.task = run[r].task

Spawns == /\ active' = active
          /\ \/ run' = run
             \/ \E t \in Tasks : Spawn(t)

LEMMA MovesKeepsSlots ==
    ASSUME TypeInv, SlotOwned, NEW r \in Runs, Moves(r)
    PROVE  SlotOwned'
<1>1. run \in [Runs -> Run] /\ active \in [Tasks -> Runs \cup {NoRun}]
  BY DEF TypeInv, TypeOK
<1>2. PICK x : run' = [run EXCEPT ![r] = x] /\ x.pc \in Holding /\ x.task = run[r].task
  BY DEF Moves
<1>3. \A s \in Runs : run'[s].task = run[s].task /\ (Live(s)' <=> Live(s))
  BY <1>1, <1>2 DEF Moves, Live
<1> QED BY <1>1, <1>3 DEF SlotOwned, Moves

LEMMA SpawnKeepsSlots ==
    ASSUME TypeInv, SlotOwned, Spawns
    PROVE  SlotOwned'
<1>1. run \in [Runs -> Run] /\ active \in [Tasks -> Runs \cup {NoRun}]
  BY DEF TypeInv, TypeOK
<1>2. CASE run' = run
  BY <1>2 DEF SlotOwned, Spawns, Live
<1>3. ASSUME NEW t \in Tasks, Spawn(t) PROVE SlotOwned'
  <2>1. PICK k \in Runs : run[k].pc = "Idle" /\ run' = [run EXCEPT ![k] = Future(t, NoRun)]
    BY <1>3 DEF Spawn
  <2>2. Future(t, NoRun).pc = "Spawned"
    BY IdleTyped DEF Future, Run
  <2>3. ~Live(k) /\ ~Live(k)' /\ \A s \in Runs \ {k} : run'[s] = run[s]
    BY <1>1, <2>1, <2>2 DEF Live, Holding
  <2> QED BY <1>1, <2>3 DEF SlotOwned, Spawns, Live
<1> QED BY <1>2, <1>3 DEF Spawns

LEMMA GotoMoves ==
    ASSUME TypeInv, NEW r \in Runs, Live(r), active' = active, NEW p \in Holding,
           Goto(r, p)
    PROVE  Moves(r)
<1>1. run[r] \in Run
  BY DEF TypeInv, TypeOK
<1> DEFINE x == [run[r] EXCEPT !.pc = p]
<1>2. x.pc = p /\ x.task = run[r].task
  BY <1>1 DEF Run
<1>3. run' = [run EXCEPT ![r] = x]
  BY DEF Goto
<1> QED BY <1>2, <1>3 DEF Moves

LEMMA ReturnMoves ==
    ASSUME TypeInv, NEW r \in Runs, Live(r), active' = active, Return(r)
    PROVE  Moves(r)
<1>1. run[r] \in Run
  BY DEF TypeInv, TypeOK
<1> DEFINE x == [run[r] EXCEPT !.pc = "Releasing", !.waiter = NoRun]
<1>2. x.pc = "Releasing" /\ x.task = run[r].task
  BY <1>1 DEF Run
<1>3. run' = [run EXCEPT ![r] = x]
  BY DEF Return
<1> QED BY <1>2, <1>3 DEF Moves, Holding

LEMMA SettleMoves ==
    ASSUME TypeInv, NEW r \in Runs, Live(r), active' = active, NEW p \in Holding, NEW o,
           SettleAs(r, p, o)
    PROVE  Moves(r)
<1>1. run[r] \in Run
  BY DEF TypeInv, TypeOK
<1> DEFINE x == [run[r] EXCEPT !.pc = p, !.msg = 0, !.outcome = o,
                               !.turn = IF p = "Turn" THEN @ + 1 ELSE @]
<1>2. x.pc = p /\ x.task = run[r].task
  BY <1>1 DEF Run
<1>3. run' = [run EXCEPT ![r] = x]
  BY DEF SettleAs
<1> QED BY <1>2, <1>3 DEF Moves

LEMMA SlotStep ==
    ASSUME TypeInv, SlotOwned, [Next]_vars
    PROVE  SlotOwned'
<1>1. run \in [Runs -> Run] /\ active \in [Tasks -> Runs \cup {NoRun}]
      /\ \A r \in Runs : run[r] \in Run /\ RunOK(run[r])
  BY DEF TypeInv, TypeOK
<1>2. IdleRun.pc = "Idle"
  BY DEF IdleRun
<1>3. ASSUME NEW r \in Runs, Admit(r) PROVE SlotOwned'
  <2> DEFINE t == run[r].task
  <2>1. t \in Tasks /\ active[t] = NoRun /\ ~Live(r)
    BY <1>3, <1>1 DEF Admit, RunOK, Live, Holding
  <2>2. /\ active' = [active EXCEPT ![t] = r]
        /\ run' = [run EXCEPT ![r] = [run[r] EXCEPT !.pc = "Admitted"]]
    BY <1>3 DEF Admit, Goto
  <2>3. run'[r].pc = "Admitted" /\ run'[r].task = t /\ \A s \in Runs \ {r} : run'[s] = run[s]
    BY <1>1, <2>2 DEF Run
  <2>4. Live(r)' /\ \A s \in Runs \ {r} : Live(s)' <=> Live(s)
    BY <2>3 DEF Live, Holding
  <2>5. ASSUME NEW u \in Tasks, active'[u] # NoRun
        PROVE  (run[active[u]].task = u /\ Live(active[u]))'
    <3>1. CASE u = t
      BY <1>1, <2>1, <2>2, <2>3, <2>4, <3>1 DEF Live
    <3>2. CASE u # t
      <4>1. active'[u] = active[u] /\ active[u] \in Runs
        BY <1>1, <2>2, <2>5, <3>2
      <4>2. run[active[u]].task = u /\ Live(active[u])
        BY <2>5, <4>1 DEF SlotOwned
      <4>3. active[u] # r
        BY <2>1, <4>2
      <4> QED BY <2>3, <2>4, <4>1, <4>2, <4>3 DEF Live
    <3> QED BY <3>1, <3>2
  <2>6. ASSUME NEW s \in Runs, Live(s)'
        PROVE  (active[run[s].task] = s)'
    <3>1. CASE s = r
      BY <1>1, <2>1, <2>2, <2>3, <3>1
    <3>2. CASE s # r
      <4>1. active[run[s].task] = s /\ run'[s] = run[s]
        BY <2>3, <2>4, <2>6, <3>2 DEF SlotOwned
      <4>2. run[s].task # t
        BY <2>1, <4>1, TaskAssumption
      <4> QED BY <1>1, <2>2, <4>1, <4>2
    <3> QED BY <3>1, <3>2
  <2> QED BY <2>5, <2>6 DEF SlotOwned
<1>4. ASSUME NEW r \in Runs, ReleaseSlot(r) PROVE SlotOwned'
  <2> DEFINE t == run[r].task
  <2>1. t \in Tasks /\ Live(r) /\ active[t] = r
    BY <1>4, <1>1 DEF ReleaseSlot, RunOK, Live, Holding, SlotOwned
  <2>2. active' = [active EXCEPT ![t] = NoRun] /\ run' = [run EXCEPT ![r] = IdleRun]
    BY <1>4 DEF ReleaseSlot
  <2>3. ~Live(r)' /\ \A s \in Runs \ {r} : run'[s] = run[s] /\ (Live(s)' <=> Live(s))
    BY <1>1, <1>2, <2>2 DEF Live, Holding
  <2>4. ASSUME NEW u \in Tasks, active'[u] # NoRun
        PROVE  (run[active[u]].task = u /\ Live(active[u]))'
    <3>1. u # t /\ active'[u] = active[u] /\ active[u] \in Runs
      BY <1>1, <2>1, <2>2, <2>4
    <3>2. run[active[u]].task = u /\ Live(active[u])
      BY <2>4, <3>1 DEF SlotOwned
    <3>3. active[u] # r
      BY <3>1, <3>2
    <3> QED BY <2>3, <3>1, <3>2, <3>3 DEF Live
  <2>5. ASSUME NEW s \in Runs, Live(s)'
        PROVE  (active[run[s].task] = s)'
    <3>1. s # r /\ run'[s] = run[s] /\ active[run[s].task] = s
      BY <2>3, <2>5 DEF SlotOwned
    <3>2. run[s].task # t
      BY <2>1, <3>1
    <3> QED BY <1>1, <2>2, <3>1, <3>2
  <2> QED BY <2>4, <2>5 DEF SlotOwned
<1>5. ASSUME NEW r \in Runs, RejectDuplicate(r) \/ RejectAtLimit(r) PROVE SlotOwned'
  <2>1. run' = [run EXCEPT ![r] = IdleRun] /\ active' = active /\ run[r].pc = "Spawned"
    BY <1>5 DEF RejectDuplicate, RejectAtLimit
  <2>2. ~Live(r) /\ ~Live(r)' /\ \A s \in Runs \ {r} : run'[s] = run[s]
    BY <1>1, <1>2, <2>1 DEF Live, Holding
  <2> QED BY <1>1, <2>1, <2>2 DEF SlotOwned, Live
<1>6. ASSUME NEW r \in Runs, CheckParent(r) PROVE SlotOwned'
  <2> DEFINE p == ParentOf[run[r].task]
  <2>1. Live(r) /\ active' = active /\ p \in Tasks
    BY <1>6, <1>1, TaskAssumption DEF CheckParent, Live, Holding, RunOK
  <2>2. CASE Return(r)
    BY <2>1, <2>2, ReturnMoves, MovesKeepsSlots
  <2>3. ASSUME NEW k \in Runs, run[k].pc = "Idle",
               run' = [run EXCEPT ![k] = Future(p, r), ![r].pc = "Awaiting"]
        PROVE  SlotOwned'
    <3>1. Future(p, r).pc = "Spawned"
      BY IdleTyped DEF Future, Run
    <3>2. r # k
      BY <2>3, <1>6 DEF CheckParent
    <3>3. run' = [[run EXCEPT ![k] = Future(p, r)]
                    EXCEPT ![r] = [run[r] EXCEPT !.pc = "Awaiting"]]
      BY <1>1, <2>3, <3>2
    <3>4. run'[r].pc = "Awaiting" /\ run'[r].task = run[r].task
      BY <1>1, <3>2, <3>3 DEF Run
    <3>5. run'[k].pc = "Spawned" /\ \A s \in Runs \ {r, k} : run'[s] = run[s]
      BY <1>1, <3>1, <3>2, <3>3
    <3>6. ~Live(k) /\ ~Live(k)' /\ Live(r)' /\ \A s \in Runs \ {r, k} : Live(s)' <=> Live(s)
      BY <2>3, <3>4, <3>5 DEF Live, Holding
    <3>7. \A s \in Runs : Live(s)' <=> Live(s)
      BY <2>1, <3>6
    <3>8. \A s \in Runs : Live(s) => run'[s].task = run[s].task
      BY <3>4, <3>5, <3>6
    <3> QED BY <1>1, <2>1, <3>7, <3>8 DEF SlotOwned
  <2> QED BY <1>6, <2>2, <2>3 DEF CheckParent
<1>7. ASSUME NEW r \in Runs, CheckStatus(r) PROVE Moves(r)
  BY <1>7, GotoMoves, ReturnMoves DEF CheckStatus, Live, Holding
<1>8. ASSUME NEW r \in Runs, MarkInProgress(r) PROVE Moves(r)
  BY <1>8, GotoMoves, ReturnMoves DEF MarkInProgress, Live, Holding
<1>9. ASSUME NEW r \in Runs, EndTurn(r) PROVE Moves(r)
  BY <1>9, SettleMoves DEF EndTurn, Live, Holding
<1>10. ASSUME NEW r \in Runs, EndWithEvent(r) PROVE Moves(r)
  BY <1>10, SettleMoves DEF EndWithEvent, Live, Holding
<1>11. ASSUME NEW r \in Runs, TurnFails(r) PROVE Moves(r)
  BY <1>11, SettleMoves DEF TurnFails, Live, Holding
<1>12. ASSUME NEW r \in Runs, TurnCancelled(r) PROVE Moves(r)
  BY <1>12, SettleMoves DEF TurnCancelled, Live, Holding
<1>13. ASSUME NEW r \in Runs, AskHuman(r) PROVE Moves(r)
  BY <1>13, GotoMoves, ReturnMoves DEF AskHuman, Live, Holding
<1>14. ASSUME NEW r \in Runs, ReportPending(r) PROVE Moves(r)
  BY <1>14, GotoMoves, ReturnMoves DEF ReportPending, Live, Holding
<1>15. ASSUME NEW r \in Runs, WriteOutcome(r) PROVE Moves(r)
  BY <1>15, GotoMoves, ReturnMoves DEF WriteOutcome, Live, Holding
<1>16. ASSUME NEW r \in Runs, Deliver(r) PROVE Moves(r)
  BY <1>16, GotoMoves, ReturnMoves DEF Deliver, Live, Holding
<1>17. ASSUME NEW r \in Runs, ParentReturned(r) PROVE Moves(r)
  BY <1>17, GotoMoves, ReturnMoves DEF ParentReturned, Live, Holding
<1>18. ASSUME NEW r \in Runs, BeginTurn(r) PROVE Moves(r)
  <2>1. PICK m : run' = [run EXCEPT ![r] = [run[r] EXCEPT !.pc = "Inference", !.msg = m]]
    BY <1>18 DEF BeginTurn
  <2>2. [run[r] EXCEPT !.pc = "Inference", !.msg = m].pc = "Inference"
        /\ [run[r] EXCEPT !.pc = "Inference", !.msg = m].task = run[r].task
    BY <1>1 DEF Run
  <2>3. Live(r) /\ active' = active
    BY <1>18 DEF BeginTurn, Live, Holding
  <2> QED BY <2>1, <2>2, <2>3 DEF Moves, Holding
<1>19. ASSUME NEW r \in Runs, AutoComplete(r) PROVE Moves(r)
  <2> DEFINE x == [run[r] EXCEPT !.pc = "Finishing", !.outcome = "Completed"]
  <2>1. run' = [run EXCEPT ![r] = x] /\ active' = active /\ Live(r)
    BY <1>19 DEF AutoComplete, Live, Holding
  <2>2. x.pc \in Holding /\ x.task = run[r].task
    BY <1>1 DEF Run, Holding
  <2> QED BY <2>1, <2>2 DEF Moves
<1>20. ASSUME NEW r \in Runs, PauseMessage(r) PROVE Moves(r)
  <2> DEFINE x == [run[r] EXCEPT !.pc = "Releasing", !.waiter = NoRun, !.msg = 0]
  <2>1. run' = [run EXCEPT ![r] = x] /\ active' = active /\ Live(r)
    BY <1>20 DEF PauseMessage, Live, Holding
  <2>2. x.pc \in Holding /\ x.task = run[r].task
    BY <1>1 DEF Run, Holding
  <2> QED BY <2>1, <2>2 DEF Moves
<1>21. ASSUME NEW t \in Tasks, Request(t) PROVE Spawns
  BY <1>21
    DEF Request, Spawns, CreateByApi, Create, StopInChat, CancelByApi, DeleteByApi,
        InterruptTurn, ReadForEdit, Answer
<1>22. ASSUME NEW t \in Tasks,
              \/ Handler(t) \/ DeferralElapses(t)
              \/ Sweep(t) \/ SpawnResumed(t)
              \/ \E r \in Runs : CreateByTool(r, t)
       PROVE  Spawns
  BY <1>22
    DEF Handler, MarkCancelled, FireToken, DeleteRow, WriteEdit, DeferralElapses,
        Sweep, SpawnResumed, CreateByTool, Create, Spawns
<1>23. CASE Crash
  BY <1>23, <1>2 DEF Crash, SlotOwned, Live, Holding
<1>24. CASE Restart \/ UNCHANGED vars
  BY <1>24, SpawnKeepsSlots DEF Restart, vars, Spawns
<1> QED
  BY <1>3, <1>4, <1>5, <1>6, <1>7, <1>8, <1>9, <1>10, <1>11, <1>12, <1>13, <1>14,
     <1>15, <1>16, <1>17, <1>18, <1>19, <1>20, <1>21, <1>22, <1>23, <1>24,
     MovesKeepsSlots, SpawnKeepsSlots DEF Next, RunStep

(* active_tasks and the runs at work name each other: run_task inserts the     *)
(* entry, the guard of the same run removes it, and nothing else does.          *)
THEOREM SlotsOwned == Spec => []SlotOwned
<1>1. Init => SlotOwned
  <2>1. IdleRun.pc = "Idle"
    BY DEF IdleRun
  <2> QED BY <2>1 DEF Init, SlotOwned, Live, Holding
<1> QED BY <1>1, SlotStep, TypeInvariant, PTL DEF Spec

(* The duplicate check of run_task is enough: no two runs of a task are past     *)
(* admission, whoever spawned them and however they interleave.                 *)
THEOREM AtMostOneRun == Spec => []OneRunPerTask
<1>1. SlotOwned => OneRunPerTask
  <2> SUFFICES ASSUME SlotOwned, NEW r \in Runs, NEW s \in Runs, Live(r), Live(s),
                      run[r].task = run[s].task
               PROVE  r = s
    BY DEF OneRunPerTask
  <2>1. active[run[r].task] = r /\ active[run[s].task] = s
    BY DEF SlotOwned
  <2> QED BY <2>1
<1> QED BY <1>1, SlotsOwned, PTL

-----------------------------------------------------------------------------
(* The tasks with an entry in active_tasks are the keys of a SlotPool: Admit   *)
(* acquires, ReleaseSlot releases, Crash resets, and no other step counts.     *)
LEMMA PoolCardinality == ASSUME NEW S PROVE Pool!Cardinality(S) = Cardinality(S)
  BY DEF Pool!Cardinality, Cardinality

LEMMA PoolStep ==
    ASSUME TypeInv, SlotOwned, [Next]_vars
    PROVE  [Pool!Next]_Held
<1>1. /\ active \in [Tasks -> Runs \cup {NoRun}]
      /\ \A r \in Runs : RunOK(run[r])
  BY DEF TypeInv, TypeOK
<1>2. active' = active => Held' = Held
  BY DEF Held
<1>3. ASSUME NEW r \in Runs, Admit(r) PROVE Pool!Next
  <2> DEFINE t == run[r].task
  <2>1. t \in Tasks
    BY <1>1, <1>3 DEF Admit, RunOK
  <2>2. active' = [active EXCEPT ![t] = r] /\ active[t] = NoRun /\ Room(t)
    BY <1>3 DEF Admit
  <2>3. Held' = Held \cup {t} /\ t \notin Held
    BY <1>1, <2>1, <2>2, TaskAssumption DEF Held
  <2>4. Pool!OfAgent(Held, AgentOf[t]) = {u \in Held : AgentOf[u] = AgentOf[t]}
    BY DEF Pool!OfAgent
  <2>5. Pool!Acquire(t)
    BY <2>2, <2>3, <2>4, PoolCardinality DEF Pool!Acquire, Room
  <2> QED BY <2>1, <2>5 DEF Pool!Next
<1>4. ASSUME NEW r \in Runs, ReleaseSlot(r) PROVE Pool!Next
  <2> DEFINE t == run[r].task
  <2>1. t \in Tasks /\ active[t] = r
    BY <1>1, <1>4 DEF ReleaseSlot, RunOK, SlotOwned, Live, Holding
  <2>2. active' = [active EXCEPT ![t] = NoRun]
    BY <1>4 DEF ReleaseSlot
  <2>3. Held' = Held \ {t} /\ t \in Held
    BY <1>1, <2>1, <2>2, TaskAssumption DEF Held
  <2> QED BY <2>1, <2>3 DEF Pool!Release, Pool!Next
<1>5. CASE Crash
  <2>1. Held' = {}
    BY <1>5 DEF Crash, Held
  <2> QED BY <2>1 DEF Pool!Reset, Pool!Next
<1>6. ASSUME NEW r \in Runs, RunStep(r), ~Admit(r), ~ReleaseSlot(r) PROVE active' = active
  BY <1>6
    DEF RunStep, RejectDuplicate, RejectAtLimit, CheckStatus, MarkInProgress, BeginTurn,
              AutoComplete, EndTurn, EndWithEvent, TurnFails, TurnCancelled, AskHuman,
              ReportPending, PauseMessage, WriteOutcome, Deliver, CheckParent, ParentReturned
<1>7. ASSUME NEW t \in Tasks,
             \/ Request(t) \/ Handler(t) \/ DeferralElapses(t)
             \/ Sweep(t) \/ SpawnResumed(t)
             \/ \E r \in Runs : CreateByTool(r, t)
      PROVE  active' = active
  BY <1>7 DEF Request, CreateByApi, StopInChat, CancelByApi, DeleteByApi, InterruptTurn,
              ReadForEdit, Answer, Handler, MarkCancelled, FireToken, DeleteRow, WriteEdit,
              DeferralElapses, Sweep, SpawnResumed, CreateByTool
<1>8. CASE Restart \/ UNCHANGED vars
  BY <1>2, <1>8 DEF Restart, vars
<1> QED BY <1>2, <1>3, <1>4, <1>5, <1>6, <1>7, <1>8 DEF Next

(* The executor implements the pool: its admissions, removals and crashes are   *)
(* the pool's, whatever else happens to rows, messages, tokens and requests.    *)
THEOREM ExecutorIsAPool == Spec => PoolSpec
<1>1. Init => Pool!Init
  BY DEF Init, Pool!Init, Held
<1> QED BY <1>1, PoolStep, TypeInvariant, SlotsOwned, PTL DEF Spec, PoolSpec, Pool!Spec

PoolFacts == INSTANCE SlotPool_proofs WITH held <- Held

(* So both limits of run_task hold in every state of the executor: no more than  *)
(* max_concurrent_tasks runs hold a slot, and no more than its own limit of any   *)
(* agent, across duplicates, stops, deletions, deferrals, restarts and crashes.   *)
THEOREM LimitsRespected == Spec => []Pool!CapsRespected
<1>1. PoolFacts!PoolAssumption
  BY TaskAssumption DEF PoolFacts!PoolAssumption
<1>2. PoolFacts!Spec => []PoolFacts!CapsRespected
  BY <1>1, PoolFacts!LimitsHold
<1>3. Pool!Init <=> PoolFacts!Init
  BY DEF Pool!Init, PoolFacts!Init
<1>4. ASSUME NEW S PROVE Pool!Cardinality(S) = PoolFacts!Cardinality(S)
  BY DEF Pool!Cardinality, PoolFacts!Cardinality
<1>5. ASSUME NEW S, NEW a PROVE Pool!OfAgent(S, a) = PoolFacts!OfAgent(S, a)
  BY DEF Pool!OfAgent, PoolFacts!OfAgent
<1>6. Pool!Next <=> PoolFacts!Next
  BY <1>4, <1>5
  DEF Pool!Next, Pool!Acquire, Pool!Release, Pool!Reset,
      PoolFacts!Next, PoolFacts!Acquire, PoolFacts!Release, PoolFacts!Reset
<1>7. Pool!CapsRespected <=> PoolFacts!CapsRespected
  BY <1>4, <1>5 DEF Pool!CapsRespected, PoolFacts!CapsRespected
<1> QED
  BY <1>2, <1>3, <1>6, <1>7, ExecutorIsAPool, PTL DEF PoolSpec, Pool!Spec, PoolFacts!Spec

-----------------------------------------------------------------------------
(* What one step leaves alone.  A step of a run touches the row, the chat and  *)
(* the entry of its own task only; among the other runs it may turn an idle     *)
(* one into the future of a task that exists.                                   *)
OnlyRun(r) ==
    LET u == run[r].task IN
    /\ run[r].pc # "Idle" /\ u \in Tasks
    /\ \A v \in Tasks \ {u} :
          row'[v] = row[v] /\ msg'[v] = msg[v] /\ active'[v] = active[v]
    /\ row[u].status # "Uncreated" => row'[u].status # "Uncreated"
    /\ ~Exists(u) => row' = row
    /\ run'[r].pc # "Idle" => run'[r].task = u
    /\ \A s \in Runs \ {r} :
          \/ run'[s] = run[s]
          \/ run[s].pc = "Idle" /\ run'[s].pc = "Spawned" /\ Exists(run'[s].task)
    /\ \A s \in Runs : run[s].pc # "Idle" => (s \in fired' <=> s \in fired)
    /\ stop' = stop /\ edit' = edit /\ booting' = booting
    /\ stopped' \subseteq stopped /\ checked' \subseteq checked \cup {u}
    /\ resumed \subseteq resumed'

(* A step for a task touches what is that task's; the only future it spawns is  *)
(* one of that task, and no token of a run at work is renewed.                  *)
OnlyTask(t) ==
    /\ \A v \in Tasks \ {t} : /\ row'[v] = row[v] /\ msg'[v] = msg[v]
                              /\ stop'[v] = stop[v] /\ edit'[v] = edit[v]
    /\ active' = active /\ resumed' = resumed
    /\ \A s \in Runs :
          \/ run'[s] = run[s]
          \/ run[s].pc = "Idle" /\ run'[s].pc = "Spawned" /\ run'[s].task = t
    /\ \A s \in Runs : s \in fired /\ run[s].pc # "Idle" => s \in fired'
    /\ booting' \subseteq booting /\ checked' \subseteq checked
    /\ \A v \in Tasks \ {t} : v \in stopped' => v \in stopped

LEMMA OnlyRunChange ==
    ASSUME TypeInv, NEW r \in Runs, run[r].pc # "Idle", NEW x,
           run' = [run EXCEPT ![r] = x],
           x.pc # "Idle" => x.task = run[r].task
    PROVE  /\ run'[r].pc # "Idle" => run'[r].task = run[r].task
           /\ \A s \in Runs \ {r} : run'[s] = run[s]
  BY DEF TypeInv, TypeOK

LEMMA GotoOnlyRun ==
    ASSUME TypeInv, NEW r \in Runs, run[r].pc # "Idle", NEW p, Goto(r, p) \/ Return(r)
    PROVE  /\ run'[r].pc # "Idle" => run'[r].task = run[r].task
           /\ \A s \in Runs \ {r} : run'[s] = run[s]
<1>1. run[r] \in Run
  BY DEF TypeInv, TypeOK
<1>2. CASE Goto(r, p)
  BY <1>1, <1>2, OnlyRunChange DEF Goto, Run
<1>3. CASE Return(r)
  <2> DEFINE x == [run[r] EXCEPT !.pc = "Releasing", !.waiter = NoRun]
  <2>1. x.task = run[r].task /\ run' = [run EXCEPT ![r] = x]
    BY <1>1, <1>3 DEF Return, Run
  <2> QED BY <2>1, OnlyRunChange
<1> QED BY <1>2, <1>3

LEMMA SettleOnlyRun ==
    ASSUME TypeInv, NEW r \in Runs, run[r].pc # "Idle", NEW p, NEW o, SettleAs(r, p, o)
    PROVE  /\ run'[r].pc = p /\ run'[r].task = run[r].task
           /\ \A s \in Runs \ {r} : run'[s] = run[s]
           /\ \A v \in Tasks \ {run[r].task} : msg'[v] = msg[v]
<1>1. run[r] \in Run /\ run \in [Runs -> Run] /\ msg \in [Tasks -> [Slots -> Message]]
  BY DEF TypeInv, TypeOK
<1> DEFINE x == [run[r] EXCEPT !.pc = p, !.msg = 0, !.outcome = o,
                               !.turn = IF p = "Turn" THEN @ + 1 ELSE @]
<1>2. x.pc = p /\ x.task = run[r].task
  BY <1>1 DEF Run
<1>3. run' = [run EXCEPT ![r] = x]
  BY DEF SettleAs
<1>4. \A v \in Tasks \ {run[r].task} : msg'[v] = msg[v]
  BY <1>1 DEF SettleAs, SetMessage
<1> QED BY <1>1, <1>2, <1>3, <1>4

LEMMA RunStepOnly ==
    ASSUME TypeInv, NEW r \in Runs, RunStep(r)
    PROVE  OnlyRun(r)
<1> DEFINE u == run[r].task
<1>1. /\ run \in [Runs -> Run] /\ run[r] \in Run /\ RunOK(run[r])
      /\ row \in [Tasks -> Row] /\ msg \in [Tasks -> [Slots -> Message]]
      /\ active \in [Tasks -> Runs \cup {NoRun}]
  BY DEF TypeInv, TypeOK
<1>2. run[r].pc # "Idle" /\ u \in Tasks
  <2>1. run[r].pc # "Idle"
    BY DEF RunStep, Admit, RejectDuplicate, RejectAtLimit, CheckStatus, MarkInProgress,
           BeginTurn, AutoComplete, EndTurn, EndWithEvent, TurnFails, TurnCancelled, AskHuman,
           ReportPending, PauseMessage, WriteOutcome, Deliver, CheckParent, ParentReturned,
           ReleaseSlot
  <2> QED BY <1>1, <2>1 DEF RunOK
<1>3. IdleRun.pc = "Idle"
  BY DEF IdleRun
<1>4. CASE Admit(r)
  BY <1>1, <1>2, <1>4, GotoOnlyRun DEF Admit, OnlyRun, history
<1>5. CASE RejectDuplicate(r) \/ RejectAtLimit(r)
  BY <1>1, <1>2, <1>3, <1>5, OnlyRunChange
    DEF RejectDuplicate, RejectAtLimit, OnlyRun, history
<1>6. CASE ReleaseSlot(r)
  BY <1>1, <1>2, <1>3, <1>6, OnlyRunChange DEF ReleaseSlot, OnlyRun, history
<1>7. CASE CheckStatus(r) \/ ReportPending(r) \/ ParentReturned(r)
  BY <1>1, <1>2, <1>7, GotoOnlyRun
    DEF CheckStatus, ReportPending, ParentReturned, OnlyRun, history
<1>8. CASE MarkInProgress(r)
  <2>1. \A v \in Tasks \ {u} : row'[v] = row[v]
    BY <1>1, <1>8 DEF MarkInProgress
  <2>2. row[u].status # "Uncreated" => row'[u].status # "Uncreated"
    BY <1>1, <1>2, <1>8 DEF MarkInProgress, Row
  <2> QED BY <1>1, <1>2, <1>8, <2>1, <2>2, GotoOnlyRun DEF MarkInProgress, OnlyRun, history
<1>9. CASE BeginTurn(r)
  <2>1. PICK m \in Slots :
          /\ SetMessage(u, m, [msg[u][m] EXCEPT !.status = "Executing"])
          /\ run' = [run EXCEPT ![r].pc = "Inference", ![r].msg = m]
    BY <1>9 DEF BeginTurn
  <2> DEFINE x == [run[r] EXCEPT !.pc = "Inference", !.msg = m]
  <2>2. x.task = u /\ run' = [run EXCEPT ![r] = x]
    BY <1>1, <2>1 DEF Run
  <2>3. \A v \in Tasks \ {u} : msg'[v] = msg[v]
    BY <1>1, <2>1 DEF SetMessage
  <2> QED BY <1>1, <1>2, <1>9, <2>2, <2>3, OnlyRunChange DEF BeginTurn, OnlyRun, history
<1>10. CASE AutoComplete(r)
  <2> DEFINE x == [run[r] EXCEPT !.pc = "Finishing", !.outcome = "Completed"]
  <2>1. x.task = u /\ run' = [run EXCEPT ![r] = x]
    BY <1>1, <1>10 DEF Run, AutoComplete
  <2> QED BY <1>1, <1>2, <1>10, <2>1, OnlyRunChange DEF AutoComplete, OnlyRun, history
<1>11. CASE EndTurn(r) \/ EndWithEvent(r) \/ TurnFails(r) \/ TurnCancelled(r)
  <2>1. \E p, o : SettleAs(r, p, o)
    BY <1>11 DEF EndTurn, EndWithEvent, TurnFails, TurnCancelled
  <2>2. UNCHANGED <<row, active, fired, stop, edit, booting, history>>
    BY <1>11 DEF EndTurn, EndWithEvent, TurnFails, TurnCancelled, history
  <2> QED BY <1>1, <1>2, <2>1, <2>2, SettleOnlyRun DEF OnlyRun, history
<1>12. CASE AskHuman(r)
  <2>1. \A v \in Tasks \ {u} : msg'[v] = msg[v]
    BY <1>1, <1>12 DEF AskHuman, SetMessage
  <2> QED BY <1>1, <1>2, <1>12, <2>1, GotoOnlyRun DEF AskHuman, OnlyRun, history
<1>13. CASE PauseMessage(r)
  <2> DEFINE x == [run[r] EXCEPT !.pc = "Releasing", !.waiter = NoRun, !.msg = 0]
  <2>1. x.task = u /\ run' = [run EXCEPT ![r] = x]
    BY <1>1, <1>13 DEF Run, PauseMessage
  <2>2. \A v \in Tasks \ {u} : msg'[v] = msg[v]
    BY <1>1, <1>13 DEF PauseMessage, SetMessage
  <2> QED BY <1>1, <1>2, <1>13, <2>1, <2>2, OnlyRunChange DEF PauseMessage, OnlyRun, history
<1>14. CASE WriteOutcome(r)
  <2>1. \A v \in Tasks \ {u} : row'[v] = row[v]
    BY <1>1, <1>14 DEF WriteOutcome
  <2>2. row[u].status # "Uncreated" => row'[u].status # "Uncreated"
    <3>1. run[r].outcome # "Uncreated" /\ row[u] \in Row
      BY <1>1, <1>2, <1>14 DEF WriteOutcome, RunOK, Outcome
    <3>2. /\ [row[u] EXCEPT !.status = "Pending", !.runAt = "Later"].status = "Pending"
          /\ [row[u] EXCEPT !.status = run[r].outcome].status = run[r].outcome
      BY <3>1 DEF Row
    <3> QED BY <1>1, <1>2, <1>14, <3>1, <3>2 DEF WriteOutcome
  <2>3. stopped' \subseteq stopped /\ (~Exists(u) => row' = row)
    BY <1>14 DEF WriteOutcome
  <2> QED BY <1>1, <1>2, <1>14, <2>1, <2>2, <2>3, GotoOnlyRun DEF WriteOutcome, OnlyRun
<1>15. CASE Deliver(r)
  BY <1>1, <1>2, <1>15, GotoOnlyRun DEF Deliver, OnlyRun
<1>16. CASE CheckParent(r)
  <2> DEFINE p == ParentOf[u]
  <2>1. CASE Return(r) /\ UNCHANGED <<fired, resumed>>
    BY <1>1, <1>2, <1>16, <2>1, GotoOnlyRun DEF CheckParent, OnlyRun
  <2>2. ASSUME Exists(p), resumed' = resumed \cup {p}, NEW k \in Runs, run[k].pc = "Idle",
               run' = [run EXCEPT ![k] = Future(p, r), ![r].pc = "Awaiting"],
               fired' = fired \ {k}
        PROVE  OnlyRun(r)
    <3>1. Future(p, r).pc = "Spawned" /\ Future(p, r).task = p
      BY DEF Future, IdleRun
    <3>2. r # k
      BY <1>2, <2>2
    <3>3. run'[r].task = u /\ run'[k] = Future(p, r)
          /\ \A s \in Runs \ {r, k} : run'[s] = run[s]
      BY <1>1, <2>2, <3>2 DEF Run
    <3> QED BY <1>1, <1>2, <1>16, <2>2, <3>1, <3>3 DEF CheckParent, OnlyRun
  <2> QED BY <1>16, <2>1, <2>2 DEF CheckParent
<1> QED
  BY <1>4, <1>5, <1>6, <1>7, <1>8, <1>9, <1>10, <1>11, <1>12, <1>13, <1>14, <1>15, <1>16
    DEF RunStep

LEMMA SpawnOnlyTask ==
    ASSUME TypeInv, NEW t \in Tasks, Spawn(t) \/ UNCHANGED <<run, fired>>
    PROVE  /\ \A s \in Runs :
                 \/ run'[s] = run[s]
                 \/ run[s].pc = "Idle" /\ run'[s].pc = "Spawned" /\ run'[s].task = t
           /\ \A s \in Runs : s \in fired /\ run[s].pc # "Idle" => s \in fired'
<1>1. CASE Spawn(t)
  <2>1. Future(t, NoRun).pc = "Spawned" /\ Future(t, NoRun).task = t
    BY DEF Future, IdleRun
  <2> QED BY <1>1, <2>1 DEF Spawn, TypeInv, TypeOK
<1> QED BY <1>1

LEMMA TaskStepOnly ==
    ASSUME TypeInv, NEW t \in Tasks,
           \/ Request(t) \/ Handler(t) \/ DeferralElapses(t)
           \/ Sweep(t) \/ SpawnResumed(t)
           \/ \E r \in Runs : CreateByTool(r, t)
    PROVE  OnlyTask(t)
<1>1. /\ row \in [Tasks -> Row] /\ msg \in [Tasks -> [Slots -> Message]]
      /\ stop \in [Tasks -> Stages] /\ edit \in [Tasks -> Row]
  BY DEF TypeInv, TypeOK
<1>2. /\ Spawn(t) \/ UNCHANGED <<run, fired>> \/ (run' = run /\ fired \subseteq fired')
      /\ active' = active /\ resumed' = resumed
      /\ booting' \subseteq booting /\ checked' \subseteq checked
  BY DEF Request, CreateByApi, Create, StopInChat, CancelByApi, DeleteByApi, InterruptTurn,
         ReadForEdit, Answer, Handler, MarkCancelled, FireToken, DeleteRow, WriteEdit,
         DeferralElapses, Sweep, SpawnResumed, CreateByTool, history
<1>3. \A v \in Tasks \ {t} :
         /\ row'[v] = row[v] /\ stop'[v] = stop[v] /\ edit'[v] = edit[v]
         /\ v \in stopped' => v \in stopped
  <2>1. CASE Request(t)
    BY <1>1, <2>1
      DEF Request, CreateByApi, Create, SetStatus, StopInChat, CancelByApi, DeleteByApi,
          InterruptTurn, ReadForEdit, Answer, history
  <2>2. CASE Handler(t)
    BY <1>1, <2>2 DEF Handler, MarkCancelled, FireToken, DeleteRow, WriteEdit, SetStatus, history
  <2>3. CASE DeferralElapses(t) \/ Sweep(t) \/ SpawnResumed(t)
             \/ \E r \in Runs : CreateByTool(r, t)
    BY <1>1, <2>3
      DEF DeferralElapses, Sweep, SpawnResumed, CreateByTool, Create, SetStatus, history
  <2> QED BY <2>1, <2>2, <2>3
<1>4. \A v \in Tasks \ {t} : msg'[v] = msg[v]
  <2>1. CASE \E m \in Slots : Answer(t, m)
    BY <1>1, <2>1 DEF Answer, SetMessage
  <2>2. CASE DeleteRow(t)
    BY <1>1, <2>2 DEF DeleteRow
  <2>3. CASE ~DeleteRow(t) /\ \A m \in Slots : ~Answer(t, m)
    BY <2>3
      DEF Request, CreateByApi, StopInChat, CancelByApi, DeleteByApi, InterruptTurn,
          ReadForEdit, Handler, MarkCancelled, FireToken, WriteEdit,
          DeferralElapses, Sweep, SpawnResumed, CreateByTool
  <2> QED BY <2>1, <2>2, <2>3
<1>5. /\ \A s \in Runs :
           \/ run'[s] = run[s]
           \/ run[s].pc = "Idle" /\ run'[s].pc = "Spawned" /\ run'[s].task = t
      /\ \A s \in Runs : s \in fired /\ run[s].pc # "Idle" => s \in fired'
  BY <1>2, SpawnOnlyTask
<1> QED BY <1>2, <1>3, <1>4, <1>5 DEF OnlyTask

-----------------------------------------------------------------------------
(* Before a task is created nothing refers to it: no future, request, edit or   *)
(* question, and no child, because create_task is called in a turn of the        *)
(* parent.                                                                       *)
Unborn(t) ==
    /\ stop[t] = "None" /\ edit[t] = NoEdit
    /\ t \notin booting /\ t \notin stopped /\ t \notin checked
    /\ \A r \in Runs : run[r].task = t => run[r].pc = "Idle"
    /\ \A m \in Slots : ~msg[t][m].pending
    /\ \A c \in Children(t) : row[c].status = "Uncreated"
Born == \A t \in Tasks : /\ edit[t].status # "Uncreated"
                         /\ row[t].status = "Uncreated" => Unborn(t)

LEMMA BornRun ==
    ASSUME TypeInv, Born, NEW r \in Runs, RunStep(r)
    PROVE  Born'
<1> DEFINE u == run[r].task
<1>1. OnlyRun(r)
  BY RunStepOnly
<1>2. row[u].status # "Uncreated" /\ row'[u].status # "Uncreated"
  BY <1>1 DEF OnlyRun, Born, Unborn
<1>3. ASSUME NEW t \in Tasks, row'[t].status = "Uncreated" PROVE Unborn(t)'
  <2>1. t # u /\ row[t] = row'[t] /\ Unborn(t)
    BY <1>1, <1>2, <1>3 DEF OnlyRun, Born
  <2>2. ASSUME NEW s \in Runs, run'[s].task = t PROVE run'[s].pc = "Idle"
    <3>1. CASE s = r
      BY <1>1, <2>1, <2>2, <3>1 DEF OnlyRun
    <3>2. CASE s # r
      <4>1. ~Exists(t)
        BY <1>3, <2>1 DEF Exists, Status, Terminal
      <4> QED BY <1>1, <2>1, <2>2, <3>2, <4>1 DEF OnlyRun, Unborn
    <3> QED BY <3>1, <3>2
  <2>3. \A c \in Children(t) : row'[c].status = "Uncreated"
    BY <1>1, <1>2, <2>1 DEF OnlyRun, Unborn, Children
  <2> QED BY <1>1, <2>1, <2>2, <2>3 DEF OnlyRun, Unborn, Children
<1> QED BY <1>1, <1>3 DEF OnlyRun, Born

LEMMA BornOther ==
    ASSUME Born, NEW t \in Tasks, OnlyTask(t),
           edit'[t].status # "Uncreated", row'[t].status # "Uncreated",
           row[t].status = "Uncreated" =>
              \A v \in Tasks : t \in Children(v) => row[v].status # "Uncreated"
    PROVE  Born'
<1>1. ASSUME NEW v \in Tasks, row'[v].status = "Uncreated" PROVE Unborn(v)'
  <2>1. v # t /\ row[v].status = "Uncreated" /\ Unborn(v)
    BY <1>1 DEF OnlyTask, Born
  <2>2. \A c \in Children(v) : c # t /\ row'[c].status = "Uncreated"
    BY <2>1 DEF OnlyTask, Unborn, Children
  <2>3. \A s \in Runs : run'[s].task = v => run'[s].pc = "Idle"
    BY <2>1 DEF OnlyTask, Unborn
  <2> QED BY <2>1, <2>2, <2>3 DEF OnlyTask, Unborn, Children
<1> QED BY <1>1 DEF OnlyTask, Born

LEMMA BornTask ==
    ASSUME TypeInv, Born, NEW t \in Tasks,
           \/ Request(t) \/ Handler(t) \/ DeferralElapses(t)
           \/ Sweep(t) \/ SpawnResumed(t)
           \/ \E r \in Runs : CreateByTool(r, t)
    PROVE  Born'
<1>1. OnlyTask(t)
  BY TaskStepOnly
<1>2. /\ row \in [Tasks -> Row] /\ edit \in [Tasks -> Row] /\ edit[t].status # "Uncreated"
      /\ row[t].status = "Uncreated" => Unborn(t)
  BY DEF TypeInv, TypeOK, Born
<1>3. \A s : SetStatus(t, s) => row'[t].status = s
  BY <1>2 DEF SetStatus, Row
<1>4. Create(t) => row'[t].status = "Pending"
  <2>1. [row[t] EXCEPT !.status = "Pending", !.runAt = "Later"].status = "Pending"
    BY <1>2 DEF Row
  <2> QED BY <1>2, <1>3, <2>1 DEF Create
<1>5. CASE CreateByApi(t)
  <2>1. \A v \in Tasks : t \notin Children(v)
    BY <1>5, TaskAssumption DEF CreateByApi, Children
  <2> QED BY <1>1, <1>2, <1>4, <1>5, <2>1, BornOther DEF CreateByApi
<1>6. ASSUME NEW r \in Runs, CreateByTool(r, t) PROVE Born'
  <2>1. \A v \in Tasks : t \in Children(v) => row[v].status # "Uncreated"
    BY <1>6 DEF CreateByTool, Children, Born, Unborn
  <2> QED BY <1>1, <1>2, <1>4, <1>6, <2>1, BornOther DEF CreateByTool
<1>7. CASE DeferralElapses(t)
  <2>1. \A v \in Tasks : row'[v].status = row[v].status
    BY <1>2, <1>7 DEF DeferralElapses, Row
  <2> QED BY <1>7, <2>1 DEF DeferralElapses, history, Born, Unborn, Children
<1>8. CASE StopInChat(t) \/ DeleteByApi(t) \/ Sweep(t)
  BY <1>1, <1>2, <1>8, BornOther DEF StopInChat, DeleteByApi, Sweep, Sweepable,
     Exists, Status, Terminal
<1>9. CASE InterruptTurn(t) \/ SpawnResumed(t) \/ \E m \in Slots : Answer(t, m)
  <2>1. row[t].status # "Uncreated"
    BY <1>2, <1>9 DEF InterruptTurn, InTurn, SpawnResumed, Answer, Unborn
  <2> QED BY <1>1, <1>2, <1>9, <2>1, BornOther DEF InterruptTurn, SpawnResumed, Answer
<1>10. CASE CancelByApi(t)
  BY <1>1, <1>2, <1>3, <1>10, BornOther DEF CancelByApi, Exists, Status, Terminal
<1>11. CASE ReadForEdit(t)
  <2>1. row[t].status # "Uncreated" /\ edit'[t] = row[t]
    BY <1>2, <1>11 DEF ReadForEdit, Exists, Status, Terminal
  <2> QED BY <1>1, <1>2, <1>11, <2>1, BornOther DEF ReadForEdit
<1>12. CASE MarkCancelled(t) \/ FireToken(t) \/ DeleteRow(t)
  <2>1. row[t].status # "Uncreated" /\ edit' = edit
    BY <1>2, <1>12 DEF MarkCancelled, FireToken, DeleteRow, Unborn
  <2>2. row'[t].status # "Uncreated"
    BY <1>2, <1>3, <1>12, <2>1 DEF MarkCancelled, FireToken, DeleteRow
  <2> QED BY <1>1, <1>2, <2>1, <2>2, BornOther
<1>13. CASE WriteEdit(t)
  <2>1. row[t].status # "Uncreated"
    BY <1>2, <1>13 DEF WriteEdit, Unborn
  <2>2. row'[t].status # "Uncreated"
    BY <1>2, <1>13, <2>1 DEF WriteEdit
  <2>3. edit'[t].status # "Uncreated"
    BY <1>2, <1>13 DEF WriteEdit, NoEdit, NoRow
  <2> QED BY <1>1, <2>1, <2>2, <2>3, BornOther
<1> QED
  BY <1>5, <1>6, <1>7, <1>8, <1>9, <1>10, <1>11, <1>12, <1>13 DEF Request, Handler

LEMMA BornStep ==
    ASSUME TypeInv, Born, [Next]_vars
    PROVE  Born'
<1>1. CASE Crash
  BY <1>1 DEF Crash, Born, Unborn, IdleRun, NoEdit, NoRow, Children
<1>2. CASE Restart
  BY <1>2 DEF Restart, Resumable, history, Born, Unborn, Children
<1>3. CASE UNCHANGED vars
  BY <1>3 DEF vars, Born, Unborn, Children
<1> QED BY <1>1, <1>2, <1>3, BornRun, BornTask DEF Next

LEMMA BornInvariant == Spec => []Born
<1>1. Init => Born
  BY DEF Init, Born, Unborn, NoEdit, NoRow, IdleRun, Settled, Children
<1> QED BY <1>1, BornStep, TypeInvariant, PTL DEF Spec

-----------------------------------------------------------------------------
(* Stop requests.  A task of stopped is over in the table, or the run that      *)
(* holds its slot has been told and has not yet written its own outcome; and     *)
(* the run that holds the slot, if it will look at its token again, has been     *)
(* told, or is about to read the Cancelled status, or to find no row.            *)
Over(t) == row[t].status \in {"Cancelled", "Deleted"}
Ending(t) == /\ active[t] # NoRun /\ active[t] \in fired
             /\ run[active[t]].pc \in Attentive \cup {"Finishing"}
Told(t) == active[t] # NoRun /\ run[active[t]].pc \in Attentive =>
              \/ active[t] \in fired
              \/ run[active[t]].pc = "Admitted" /\ Over(t)
              \/ run[active[t]].pc = "Starting" /\ row[t].status = "Deleted"
StopHeld(t) == (Over(t) \/ Ending(t)) /\ Told(t)
StopOK == \A t \in stopped : StopHeld(t)

LEMMA StopKept ==
    ASSUME NEW t \in Tasks, StopHeld(t), active'[t] = active[t],
           Over(t) => Over(t)',
           row[t].status = "Deleted" => row'[t].status = "Deleted",
           active[t] # NoRun =>
              /\ run'[active[t]].pc = run[active[t]].pc
              /\ active[t] \in fired => active[t] \in fired'
    PROVE  StopHeld(t)'
  BY DEF StopHeld, Told, Ending, Over

LEMMA PlaceAfter ==
    ASSUME TypeInv, NEW r \in Runs
    PROVE  /\ \A p : Goto(r, p) => run'[r].pc = p
           /\ Return(r) => run'[r].pc = "Releasing"
<1>1. run[r] \in Run /\ run \in [Runs -> Run]
  BY DEF TypeInv, TypeOK
<1>2. \A p : [run[r] EXCEPT !.pc = p].pc = p
  BY <1>1 DEF Run
<1>3. [run[r] EXCEPT !.pc = "Releasing", !.waiter = NoRun].pc = "Releasing"
  BY <1>1 DEF Run
<1> QED BY <1>1, <1>2, <1>3 DEF Goto, Return

LEMMA StopOfOthers ==
    ASSUME TypeInv, SlotOwned, StopOK, NEW r \in Runs, OnlyRun(r),
           NEW t \in stopped, t # run[r].task
    PROVE  StopHeld(t)'
<1>1. t \in Tasks /\ active[t] \in Runs \cup {NoRun}
  BY DEF TypeInv, TypeOK
<1>2. row'[t] = row[t] /\ active'[t] = active[t]
  BY <1>1 DEF OnlyRun
<1>3. ASSUME active[t] # NoRun
      PROVE  /\ run'[active[t]].pc = run[active[t]].pc
             /\ active[t] \in fired => active[t] \in fired'
  <2>1. active[t] \in Runs /\ active[t] # r /\ run[active[t]].pc # "Idle"
    BY <1>1, <1>3 DEF SlotOwned, Live, Holding
  <2> QED BY <2>1 DEF OnlyRun
<1> QED BY <1>1, <1>2, <1>3, StopKept DEF StopOK, Over

(* The same for the task of the run that takes the step: the run holds the slot,  *)
(* so it is the one that Ending and Told speak of.                               *)
LEMMA StopOfMine ==
    ASSUME TypeInv, SlotOwned, Born, StopOK, NEW r \in Runs, RunStep(r),
           NEW t \in stopped', t = run[r].task
    PROVE  StopHeld(t)'
<1>1. OnlyRun(r)
  BY RunStepOnly
<1>2. /\ t \in Tasks /\ t \in stopped /\ StopHeld(t)
      /\ run \in [Runs -> Run] /\ run[r] \in Run /\ r # NoRun
      /\ row \in [Tasks -> Row] /\ row[t].status # "Uncreated"
      /\ active \in [Tasks -> Runs \cup {NoRun}]
      /\ r \in fired' <=> r \in fired
  BY <1>1, TaskAssumption DEF OnlyRun, StopOK, TypeInv, TypeOK, Born, Unborn
<1>3. Live(r) => active[t] = r
  BY DEF SlotOwned
<1>4. ~Exists(t) => row[t].status = "Deleted"
  BY <1>2 DEF Exists, Row, RowStatus
<1> USE DEF StopHeld, Told, Ending, Over
<1>5. CASE Admit(r)
  <2>1. active[t] = NoRun /\ active'[t] = r /\ row' = row
    BY <1>2, <1>5 DEF Admit
  <2>2. run'[r].pc = "Admitted"
    BY <1>2, <1>5, PlaceAfter DEF Admit
  <2> QED BY <1>2, <2>1, <2>2
<1>6. CASE RejectDuplicate(r) \/ RejectAtLimit(r)
  <2>1. ~Live(r) /\ active' = active /\ row' = row /\ fired' = fired
    BY <1>6 DEF RejectDuplicate, RejectAtLimit, Live, Holding
  <2>2. active[t] # NoRun => active[t] \in Runs \ {r}
    BY <1>2, <2>1 DEF SlotOwned
  <2>3. active[t] # NoRun => run'[active[t]] = run[active[t]]
    BY <1>2, <1>6, <2>2 DEF RejectDuplicate, RejectAtLimit
  <2> QED BY <1>2, <2>1, <2>3, StopKept
<1>7. CASE CheckStatus(r)
  <2>1. active[t] = r /\ active' = active /\ row' = row /\ run[r].pc = "Admitted"
    BY <1>3, <1>7 DEF CheckStatus, Live, Holding
  <2>2. CASE row[t].status = "Cancelled"
    <3>1. run'[r].pc = "Releasing"
      BY <1>2, <1>7, <2>2, PlaceAfter DEF CheckStatus
    <3> QED BY <1>2, <2>1, <2>2, <3>1 DEF Attentive
  <2>3. CASE row[t].status # "Cancelled"
    <3>1. run'[r].pc = "Starting"
      BY <1>2, <1>7, <2>3, PlaceAfter DEF CheckStatus
    <3> QED BY <1>2, <2>1, <2>3, <3>1 DEF Attentive
  <2> QED BY <2>2, <2>3
<1>8. CASE MarkInProgress(r)
  <2>1. active[t] = r /\ active' = active /\ run[r].pc = "Starting"
    BY <1>3, <1>8 DEF MarkInProgress, Live, Holding
  <2>2. CASE Exists(t)
    <3>1. run'[r].pc = "Turn" /\ row[t].status # "Deleted"
      BY <1>2, <1>8, <2>2, PlaceAfter DEF MarkInProgress, Exists, Status, Terminal
    <3> QED BY <1>2, <2>1, <3>1 DEF Attentive
  <2>3. CASE ~Exists(t)
    <3>1. run'[r].pc = "Releasing" /\ row' = row
      BY <1>2, <1>8, <2>3, PlaceAfter DEF MarkInProgress
    <3> QED BY <1>2, <1>4, <2>1, <2>3, <3>1 DEF Attentive
  <2> QED BY <2>2, <2>3
<1>9. CASE EndTurn(r) \/ EndWithEvent(r) \/ ReportPending(r)
  <2>1. active[t] = r /\ r \notin fired /\ run[r].pc \in {"Inference", "Asking"}
    BY <1>3, <1>9 DEF EndTurn, EndWithEvent, ReportPending, Live, Holding
  <2> QED BY <1>2, <2>1 DEF Attentive
<1>10. CASE \/ BeginTurn(r) \/ AutoComplete(r) \/ TurnFails(r) \/ TurnCancelled(r)
            \/ AskHuman(r)
  <2>1. /\ active[t] = r /\ active' = active /\ row' = row
        /\ run[r].pc \in {"Turn", "Inference", "Asking"}
    BY <1>3, <1>10
      DEF BeginTurn, AutoComplete, TurnFails, TurnCancelled, AskHuman, Live, Holding
  <2>2. run'[r].pc \in Attentive \cup {"Finishing"}
    <3>1. CASE TurnFails(r) \/ TurnCancelled(r)
      BY <1>1, <3>1, SettleOnlyRun DEF TurnFails, TurnCancelled, OnlyRun
    <3>2. CASE BeginTurn(r) \/ AutoComplete(r) \/ AskHuman(r)
      <4>1. BeginTurn(r) => run'[r].pc = "Inference"
        BY <1>2 DEF BeginTurn, Run
      <4>2. AutoComplete(r) => run'[r].pc = "Finishing"
        BY <1>2 DEF AutoComplete, Run
      <4>3. AskHuman(r) => run'[r].pc = "Asking"
        BY PlaceAfter DEF AskHuman
      <4> QED BY <3>2, <4>1, <4>2, <4>3 DEF Attentive
    <3> QED BY <1>10, <3>1, <3>2
  <2>3. r \in fired
    BY <1>2, <2>1 DEF Attentive
  <2> QED BY <1>2, <2>1, <2>2, <2>3
<1>11. CASE WriteOutcome(r)
  <2>1. active[t] = r /\ active' = active /\ run[r].pc = "Finishing"
    BY <1>3, <1>11 DEF WriteOutcome, Live, Holding
  <2>2. run'[r].pc \in {"Delivering", "Releasing"}
    BY <1>2, <1>11, PlaceAfter DEF WriteOutcome
  <2>3. Over(t)'
    <3>1. CASE ~Exists(t)
      BY <1>4, <1>11, <3>1 DEF WriteOutcome
    <3>2. CASE Exists(t)
      <4>1. run[r].outcome = "Cancelled"
        BY <1>11, <3>2 DEF WriteOutcome
      <4>2. row' = [row EXCEPT ![t] = [row[t] EXCEPT !.status = "Cancelled"]]
        BY <1>11, <3>2, <4>1 DEF WriteOutcome
      <4> QED BY <1>2, <4>2 DEF Row
    <3> QED BY <3>1, <3>2
  <2> QED BY <1>2, <2>1, <2>2, <2>3 DEF Attentive
<1>12. CASE PauseMessage(r) \/ Deliver(r) \/ CheckParent(r) \/ ParentReturned(r)
  <2>1. /\ active[t] = r /\ active' = active /\ row' = row
        /\ run[r].pc \in {"Pausing", "Delivering", "Checking", "Awaiting"}
    BY <1>3, <1>12 DEF PauseMessage, Deliver, CheckParent, ParentReturned, Live, Holding
  <2>2. run'[r].pc \in {"Releasing", "Checking", "Awaiting"}
    <3>1. CASE PauseMessage(r) \/ Deliver(r) \/ ParentReturned(r)
      BY <1>2, <3>1, PlaceAfter DEF PauseMessage, Deliver, ParentReturned, Run
    <3>2. CASE CheckParent(r)
      <4>1. CASE Return(r)
        BY <1>2, <4>1, PlaceAfter
      <4>2. CASE \E k \in Runs :
                    /\ run[k].pc = "Idle"
                    /\ run' = [run EXCEPT ![k] = Future(ParentOf[t], r), ![r].pc = "Awaiting"]
        BY <1>2, <2>1, <4>2 DEF Run
      <4> QED BY <3>2, <4>1, <4>2 DEF CheckParent
    <3> QED BY <1>12, <3>1, <3>2
  <2> QED BY <1>2, <2>1, <2>2 DEF Attentive
<1>13. CASE ReleaseSlot(r)
  <2>1. active[t] = r /\ active'[t] = NoRun /\ row' = row /\ run[r].pc = "Releasing"
    BY <1>2, <1>3, <1>13 DEF ReleaseSlot, Live, Holding
  <2> QED BY <1>2, <2>1 DEF Attentive
<1> QED
  BY <1>5, <1>6, <1>7, <1>8, <1>9, <1>10, <1>11, <1>12, <1>13 DEF RunStep

LEMMA StopRun ==
    ASSUME TypeInv, SlotOwned, Born, StopOK, NEW r \in Runs, RunStep(r)
    PROVE  StopOK'
<1>1. OnlyRun(r)
  BY RunStepOnly
<1>2. ASSUME NEW t \in stopped', t # run[r].task PROVE StopHeld(t)'
  BY <1>1, <1>2, StopOfOthers DEF OnlyRun
<1> QED BY <1>2, StopOfMine DEF StopOK

LEMMA StopTask ==
    ASSUME TypeInv, SlotOwned, Born, StopOK, NEW t \in Tasks,
           \/ Request(t) \/ Handler(t) \/ DeferralElapses(t)
           \/ Sweep(t) \/ SpawnResumed(t)
           \/ \E r \in Runs : CreateByTool(r, t)
    PROVE  StopOK'
<1>1. OnlyTask(t)
  BY TaskStepOnly
<1>2. /\ row \in [Tasks -> Row] /\ active \in [Tasks -> Runs \cup {NoRun}]
      /\ stopped' \subseteq Tasks
  BY TypeStep DEF Next, TypeInv, TypeOK
<1>3. \A s : SetStatus(t, s) => row'[t].status = s
  BY <1>2 DEF SetStatus, Row
<1>4. ASSUME NEW v \in Tasks, active[v] # NoRun
      PROVE  /\ run'[active[v]].pc = run[active[v]].pc
             /\ active[v] \in fired => active[v] \in fired'
  <2>1. active[v] \in Runs /\ run[active[v]].pc # "Idle"
    BY <1>2, <1>4 DEF SlotOwned, Live, Holding
  <2> QED BY <1>1, <2>1 DEF OnlyTask
<1>5. ASSUME NEW v \in stopped', v # t PROVE StopHeld(v)'
  <2>1. v \in stopped /\ v \in Tasks /\ row'[v] = row[v] /\ active' = active
    BY <1>1, <1>2, <1>5 DEF OnlyTask
  <2> QED BY <1>4, <2>1, StopKept DEF StopOK, Over
<1>6. ASSUME t \in stopped, Over(t) => Over(t)',
             row[t].status = "Deleted" => row'[t].status = "Deleted"
      PROVE  StopHeld(t)'
  BY <1>1, <1>4, <1>6, StopKept DEF StopOK, OnlyTask
<1>7. CASE FireToken(t)
  <2>1. /\ row' = row /\ active' = active /\ run' = run
        /\ fired' = IF active[t] = NoRun THEN fired ELSE fired \cup {active[t]}
    BY <1>7 DEF FireToken
  <2>2. CASE t \in stopped
    BY <1>5, <1>6, <2>1, <2>2 DEF StopOK, Over
  <2>3. CASE t \notin stopped /\ t \in stopped'
    <3>1. \/ row[t].status = "Cancelled"
          \/ active[t] # NoRun /\ run[active[t]].pc \in Attentive
      BY <1>7, <2>3 DEF FireToken
    <3>2. StopHeld(t)'
      BY <2>1, <3>1 DEF StopHeld, Over, Ending, Told
    <3> QED BY <1>5, <3>2 DEF StopOK
  <2> QED BY <1>5, <2>2, <2>3 DEF StopOK
<1>8. CASE WriteEdit(t)
  BY <1>5, <1>8 DEF WriteEdit, StopOK
<1>9. CASE CreateByApi(t) \/ \E r \in Runs : CreateByTool(r, t)
  <2>1. t \notin stopped /\ stopped' = stopped
    BY <1>9 DEF CreateByApi, CreateByTool, Born, Unborn, history
  <2> QED BY <1>5, <2>1 DEF StopOK
<1>10. CASE CancelByApi(t) \/ MarkCancelled(t) \/ DeleteRow(t)
  <2>1. /\ stopped' = stopped
        /\ \/ row' = row \/ SetStatus(t, "Deleted")
           \/ Exists(t) /\ SetStatus(t, "Cancelled")
    BY <1>10 DEF CancelByApi, MarkCancelled, DeleteRow, history
  <2>2. Over(t) => Over(t)'
    BY <1>3, <2>1 DEF Over
  <2>3. row[t].status = "Deleted" => row'[t].status = "Deleted"
    BY <1>3, <2>1 DEF Exists, Status, Terminal
  <2> QED BY <1>5, <1>6, <2>1, <2>2, <2>3 DEF StopOK
<1>11. CASE \/ StopInChat(t) \/ DeleteByApi(t) \/ InterruptTurn(t) \/ ReadForEdit(t)
            \/ Sweep(t) \/ SpawnResumed(t) \/ DeferralElapses(t)
            \/ \E m \in Slots : Answer(t, m)
  <2>1. stopped' = stopped /\ row'[t].status = row[t].status
    BY <1>2, <1>11
      DEF StopInChat, DeleteByApi, InterruptTurn, ReadForEdit, Sweep, SpawnResumed,
          DeferralElapses, Answer, history, Row
  <2> QED BY <1>5, <1>6, <2>1 DEF StopOK, Over
<1> QED BY <1>7, <1>8, <1>9, <1>10, <1>11 DEF Request, Handler

LEMMA StopStep ==
    ASSUME TypeInv, SlotOwned, Born, StopOK, [Next]_vars
    PROVE  StopOK'
<1>1. CASE Crash
  BY <1>1 DEF Crash, StopOK
<1>2. CASE Restart \/ UNCHANGED vars
  BY <1>2 DEF Restart, vars, history, StopOK, StopHeld, Told, Ending, Over
<1> QED BY <1>1, <1>2, StopRun, StopTask DEF Next

(* cancel_task persists Cancelled before it looks for a token, and               *)
(* execute_task reads the status after it is admitted: however admission and a     *)
(* stop request interleave, once the request has been served no run of the task   *)
(* is in a turn that nothing will cancel.                                         *)
THEOREM StopReachesTheRun == Spec => []StopClosesStartupWindow
<1>1. Init => StopOK
  BY DEF Init, StopOK
<1>2. Spec => []StopOK
  BY <1>1, StopStep, TypeInvariant, SlotsOwned, BornInvariant, PTL DEF Spec
<1>3. SlotOwned /\ StopOK => StopClosesStartupWindow
  <2> SUFFICES ASSUME SlotOwned, StopOK, NEW r \in Runs,
                      run[r].pc \in {"Inference", "Asking"}, run[r].task \in stopped
               PROVE  r \in fired
    BY DEF StopClosesStartupWindow
  <2>1. active[run[r].task] = r /\ r # NoRun
    BY TaskAssumption DEF SlotOwned, Live, Holding
  <2> QED BY <2>1 DEF StopOK, StopHeld, Told, Attentive
<1> QED BY <1>2, <1>3, SlotsOwned, PTL

-----------------------------------------------------------------------------
(* Families.  While all of a parent's children have looked at their siblings     *)
(* and the parent is there, one of them has resumed it, or one has been given     *)
(* back to the executor or is still between its outcome and that look.            *)
Settles(c) == \/ row[c].status \notin {"Completed", "Failed"}
              \/ \E r \in Runs : run[r].task = c /\ run[r].pc \in {"Delivering", "Checking"}
FamilyOK ==
    \A p \in Tasks : Children(p) # {} /\ Children(p) \subseteq checked /\ Exists(p) =>
       p \in resumed \/ \E c \in Children(p) : Settles(c)

LEMMA FamilyKept ==
    ASSUME FamilyOK, Born, checked' \subseteq checked, resumed \subseteq resumed',
           \A p \in Tasks : Exists(p)' => Exists(p) \/ row[p].status = "Uncreated",
           \A c \in checked' : ParentOf[c] \in Tasks /\ Settles(c) => Settles(c)'
    PROVE  FamilyOK'
<1> SUFFICES ASSUME NEW p \in Tasks, Children(p) # {}, Children(p) \subseteq checked', Exists(p)'
             PROVE  (p \in resumed \/ \E c \in Children(p) : Settles(c))'
  BY DEF FamilyOK, Children
<1>1. row[p].status # "Uncreated"
  BY DEF Born, Unborn, Children
<1>2. p \in resumed \/ \E c \in Children(p) : Settles(c)
  BY <1>1 DEF FamilyOK
<1>3. ASSUME NEW c \in Children(p), Settles(c) PROVE Settles(c)'
  BY <1>3 DEF Children
<1> QED BY <1>2, <1>3 DEF Children

LEMMA SettlesElsewhere ==
    ASSUME TypeInv, NEW r \in Runs, OnlyRun(r), NEW c \in Tasks, c # run[r].task, Settles(c)
    PROVE  Settles(c)'
  BY DEF OnlyRun, Settles

LEMMA FamilyRun ==
    ASSUME TypeInv, Born, FamilyOK, NEW r \in Runs, RunStep(r)
    PROVE  FamilyOK'
<1> DEFINE u == run[r].task
<1>1. OnlyRun(r)
  BY RunStepOnly
<1>2. /\ run \in [Runs -> Run] /\ run[r] \in Run /\ RunOK(run[r]) /\ u \in Tasks
      /\ row \in [Tasks -> Row] /\ checked \subseteq Tasks
  BY <1>1 DEF TypeInv, TypeOK, OnlyRun
<1>3. \A p \in Tasks : Exists(p)' => Exists(p)
  BY <1>1 DEF OnlyRun, Exists
<1>4. ASSUME checked' = checked,
             ParentOf[u] \in Tasks /\ Settles(u) =>
                \/ row'[u].status \notin {"Completed", "Failed"}
                \/ \E s \in Runs : run'[s].task = u /\ run'[s].pc \in {"Delivering", "Checking"}
      PROVE  FamilyOK'
  <2>1. ASSUME NEW c \in checked', ParentOf[c] \in Tasks, Settles(c) PROVE Settles(c)'
    <3>1. CASE c = u
      BY <1>4, <2>1, <3>1 DEF Settles
    <3>2. CASE c # u
      BY <1>1, <1>2, <1>4, <2>1, <3>2, SettlesElsewhere
    <3> QED BY <3>1, <3>2
  <2> QED BY <1>1, <1>3, <1>4, <2>1, FamilyKept DEF OnlyRun
<1>5. ASSUME checked' = checked, row' = row, run[r].pc \notin {"Delivering", "Checking"}
      PROVE  FamilyOK'
  <2>1. ASSUME NEW s \in Runs, run[s].task = u, run[s].pc \in {"Delivering", "Checking"}
        PROVE  run'[s] = run[s]
    BY <1>1, <1>5, <2>1 DEF OnlyRun
  <2> QED BY <1>4, <1>5, <2>1 DEF Settles
<1>6. CASE \/ Admit(r) \/ RejectDuplicate(r) \/ RejectAtLimit(r) \/ CheckStatus(r)
           \/ BeginTurn(r) \/ AutoComplete(r) \/ EndTurn(r) \/ EndWithEvent(r)
           \/ TurnFails(r) \/ TurnCancelled(r) \/ AskHuman(r) \/ ReportPending(r)
           \/ PauseMessage(r) \/ ParentReturned(r) \/ ReleaseSlot(r)
  BY <1>5, <1>6
    DEF Admit, RejectDuplicate, RejectAtLimit, CheckStatus, BeginTurn, AutoComplete, EndTurn,
        EndWithEvent, TurnFails, TurnCancelled, AskHuman, ReportPending, PauseMessage,
        ParentReturned, ReleaseSlot, history
<1>7. CASE MarkInProgress(r)
  <2>1. CASE Exists(u)
    <3>1. [row[u] EXCEPT !.status = "InProgress", !.chat = TRUE].status = "InProgress"
      BY <1>2 DEF Row
    <3>2. row'[u].status = "InProgress" /\ checked' = checked
      BY <1>2, <1>7, <2>1, <3>1 DEF MarkInProgress, history
    <3> QED BY <1>4, <3>2
  <2>2. CASE ~Exists(u)
    BY <1>5, <1>7, <2>2 DEF MarkInProgress, history
  <2> QED BY <2>1, <2>2
<1>8. CASE WriteOutcome(r)
  <2>1. CASE Exists(u)
    <3>1. /\ [row[u] EXCEPT !.status = "Pending", !.runAt = "Later"].status = "Pending"
          /\ [row[u] EXCEPT !.status = run[r].outcome].status = run[r].outcome
      BY <1>2 DEF Row
    <3>2. CASE run[r].outcome \in {"Completed", "Failed"}
      <4>1. run'[r].pc = "Delivering"
        BY <1>8, <2>1, <3>2, PlaceAfter DEF WriteOutcome
      <4>2. run'[r].task = u /\ checked' = checked
        BY <1>1, <1>8, <4>1 DEF OnlyRun, WriteOutcome
      <4> QED BY <1>4, <4>1, <4>2
    <3>3. CASE run[r].outcome \notin {"Completed", "Failed"}
      <4>1. row'[u].status \notin {"Completed", "Failed"} /\ checked' = checked
        BY <1>2, <1>8, <2>1, <3>1, <3>3 DEF WriteOutcome
      <4> QED BY <1>4, <4>1
    <3> QED BY <3>2, <3>3
  <2>2. CASE ~Exists(u)
    BY <1>5, <1>8, <2>2 DEF WriteOutcome
  <2> QED BY <2>1, <2>2
<1>9. CASE Deliver(r)
  <2>1. CASE ParentOf[u] = NoTask
    BY <1>4, <1>9, <2>1, TaskAssumption DEF Deliver
  <2>2. CASE ParentOf[u] # NoTask
    <3>1. run'[r].pc = "Checking"
      BY <1>9, <2>2, PlaceAfter DEF Deliver
    <3>2. run'[r].task = u /\ checked' = checked
      BY <1>1, <1>9, <3>1 DEF OnlyRun, Deliver
    <3> QED BY <1>4, <3>1, <3>2
  <2> QED BY <2>1, <2>2
<1>10. CASE CheckParent(r)
  <2> DEFINE q == ParentOf[u]
  <2>1. /\ row' = row /\ checked' = checked \cup {u}
        /\ \/ q \in resumed'
           \/ ~Exists(q)
           \/ \E c \in Children(q) : Exists(c) /\ row[c].status \notin Terminal
    BY <1>10 DEF CheckParent
  <2> SUFFICES ASSUME NEW p \in Tasks, Children(p) # {}, Children(p) \subseteq checked',
                      Exists(p)'
               PROVE  (p \in resumed \/ \E c \in Children(p) : Settles(c))'
    BY DEF FamilyOK, Children
  <2>2. CASE p = q
    <3>1. CASE q \in resumed'
      BY <2>2, <3>1
    <3>2. CASE ~Exists(q)
      BY <1>3, <2>2, <3>2
    <3>3. ASSUME NEW c \in Children(q), row[c].status \notin Terminal
          PROVE  \E d \in Children(p) : Settles(d)'
      <4>1. c \in Children(p) /\ Settles(c)'
        BY <2>1, <2>2, <3>3 DEF Settles, Terminal, Children
      <4> QED BY <4>1
    <3> QED BY <2>1, <3>1, <3>2, <3>3 DEF Children
  <2>3. CASE p # q
    <3>1. u \notin Children(p)
      BY <2>3 DEF Children
    <3>2. p \in resumed \/ \E c \in Children(p) : Settles(c)
      BY <1>3, <2>1, <3>1 DEF FamilyOK
    <3>3. \A c \in Children(p) : Settles(c) => Settles(c)'
      BY <1>1, <3>1, SettlesElsewhere DEF Children
    <3> QED BY <1>1, <3>2, <3>3 DEF OnlyRun, Children
  <2> QED BY <2>2, <2>3
<1> QED BY <1>6, <1>7, <1>8, <1>9, <1>10 DEF RunStep

LEMMA FamilyTask ==
    ASSUME TypeInv, Born, FamilyOK, NEW t \in Tasks,
           \/ Request(t) \/ Handler(t) \/ DeferralElapses(t)
           \/ Sweep(t) \/ SpawnResumed(t)
           \/ \E r \in Runs : CreateByTool(r, t)
    PROVE  FamilyOK'
<1>1. OnlyTask(t)
  BY TaskStepOnly
<1>2. row \in [Tasks -> Row] /\ checked \subseteq Tasks
  BY DEF TypeInv, TypeOK
<1>3. \A s : SetStatus(t, s) => row'[t].status = s
  BY <1>2 DEF SetStatus, Row
<1>4. ASSUME \/ row'[t].status = row[t].status
             \/ row'[t].status \notin {"Completed", "Failed"}
             \/ t \notin checked',
             Exists(t)' => Exists(t) \/ row[t].status = "Uncreated"
      PROVE  FamilyOK'
  <2>1. ASSUME NEW c \in checked', Settles(c) PROVE Settles(c)'
    <3>1. c \in Tasks
      BY <1>1, <1>2 DEF OnlyTask
    <3>2. row'[c].status = row[c].status \/ row'[c].status \notin {"Completed", "Failed"}
      BY <1>1, <1>4, <3>1 DEF OnlyTask
    <3>3. \A s \in Runs : run[s].pc \in {"Delivering", "Checking"} => run'[s] = run[s]
      BY <1>1 DEF OnlyTask
    <3> QED BY <2>1, <3>2, <3>3 DEF Settles
  <2>2. \A p \in Tasks : Exists(p)' => Exists(p) \/ row[p].status = "Uncreated"
    BY <1>1, <1>4 DEF OnlyTask, Exists
  <2> QED BY <1>1, <2>1, <2>2, FamilyKept DEF OnlyTask
<1>5. CASE CreateByApi(t) \/ \E r \in Runs : CreateByTool(r, t)
  <2>1. [row[t] EXCEPT !.status = "Pending", !.runAt = "Later"].status = "Pending"
    BY <1>2 DEF Row
  <2>2. row'[t].status = "Pending" /\ row[t].status = "Uncreated"
    BY <1>2, <1>3, <1>5, <2>1 DEF CreateByApi, CreateByTool, Create
  <2> QED BY <1>4, <2>2
<1>6. CASE CancelByApi(t) \/ MarkCancelled(t) \/ DeleteRow(t)
  <2>1. \/ row' = row \/ SetStatus(t, "Deleted")
        \/ Exists(t) /\ SetStatus(t, "Cancelled")
    BY <1>6 DEF CancelByApi, MarkCancelled, DeleteRow
  <2>2. Exists(t)' => Exists(t)
    BY <1>3, <2>1 DEF Exists, Status, Terminal
  <2>3. row' = row \/ row'[t].status \in {"Deleted", "Cancelled"}
    BY <1>3, <2>1
  <2> QED BY <1>4, <2>2, <2>3
<1>7. CASE WriteEdit(t)
  BY <1>4, <1>7 DEF WriteEdit, Exists
<1>8. CASE \/ StopInChat(t) \/ DeleteByApi(t) \/ InterruptTurn(t) \/ ReadForEdit(t)
           \/ Sweep(t) \/ SpawnResumed(t) \/ DeferralElapses(t) \/ FireToken(t)
           \/ \E m \in Slots : Answer(t, m)
  <2>1. row'[t].status = row[t].status
    BY <1>2, <1>8
      DEF StopInChat, DeleteByApi, InterruptTurn, ReadForEdit, Sweep, SpawnResumed,
          DeferralElapses, FireToken, Answer, Row
  <2> QED BY <1>4, <2>1 DEF Exists
<1> QED BY <1>5, <1>6, <1>7, <1>8 DEF Request, Handler

LEMMA FamilyStep ==
    ASSUME TypeInv, Born, FamilyOK, [Next]_vars
    PROVE  FamilyOK'
<1>1. CASE Crash
  BY <1>1 DEF Crash, FamilyOK, Children
<1>2. CASE Restart \/ UNCHANGED vars
  BY <1>2 DEF Restart, vars, history, FamilyOK, Settles, Exists, Children
<1> QED BY <1>1, <1>2, FamilyRun, FamilyTask DEF Next

(* check_and_resume_parent reads the siblings after the child's own outcome is    *)
(* in the table, so the child that ends last sees all of them ended: children      *)
(* that finish at the same time cannot all miss each other and leave the parent    *)
(* asleep.                                                                         *)
THEOREM LastChildSeesAll == Spec => []LastChildResumesParent
<1>1. Init => FamilyOK
  BY DEF Init, FamilyOK
<1>2. Spec => []FamilyOK
  BY <1>1, FamilyStep, TypeInvariant, BornInvariant, PTL DEF Spec
<1>3. FamilyOK => LastChildResumesParent
  <2> SUFFICES ASSUME FamilyOK, NEW p \in Tasks,
                      Children(p) # {}, Children(p) \subseteq checked,
                      \A c \in Children(p) : row[c].status \in {"Completed", "Failed"},
                      \A r \in Runs :
                         run[r].task \in Children(p) => run[r].pc \in {"Idle", "Spawned"},
                      Exists(p)
               PROVE  p \in resumed
    BY DEF LastChildResumesParent
  <2> QED BY DEF FamilyOK, Settles
<1> QED BY <1>2, <1>3, PTL
=============================================================================
