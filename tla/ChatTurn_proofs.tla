--------------------------- MODULE ChatTurn_proofs ---------------------------
(***************************************************************************)
(* What holds of ChatTurn for every set of chats, messages, runs and       *)
(* requests: its turns use the registry as ActiveSessions says, a Stop     *)
(* reaches every turn of the chat that is in its tool loop, only a turn    *)
(* that a Stop ended tells the client that it was cancelled; an answer     *)
(* starts at most one turn, with all questions answered, the last answer   *)
(* is not lost, and an outcome stays.                                      *)
(***************************************************************************)
EXTENDS ChatTurn, TLAPS

USE ChatAssumption

(* A turn and a request that are under way have a message. *)
TurnOK(x) == x.pc # "Idle" => x.msg \in Msgs
ReqOK(x) == x.pc # "Idle" => x.msg \in Msgs
TurnsTyped == turn \in [Runs -> Turn] /\ \A r \in Runs : TurnOK(turn[r])
ReqsTyped == req \in [Reqs -> Req] /\ \A q \in Reqs : ReqOK(req[q])
ActorsTyped == TurnsTyped /\ ReqsTyped /\ booting \subseteq Msgs

LEMMA UpdateTurn ==
    ASSUME TurnsTyped, NEW r \in Runs, NEW x \in Turn, TurnOK(x),
           turn' = [turn EXCEPT ![r] = x]
    PROVE  TurnsTyped'
  BY DEF TurnsTyped

LEMMA UpdateReq ==
    ASSUME ReqsTyped, NEW q \in Reqs, NEW x \in Req, ReqOK(x),
           req' = [req EXCEPT ![q] = x]
    PROVE  ReqsTyped'
  BY DEF ReqsTyped

LEMMA IdleTyped ==
    /\ IdleTurn \in Turn /\ TurnOK(IdleTurn)
    /\ IdleReq \in Req /\ ReqOK(IdleReq)
  BY DEF IdleTurn, Turn, TurnPC, TurnOK, IdleReq, Req, ReqOK

LEMMA NewTurnTyped ==
    ASSUME NEW m \in Msgs, NEW w \in {"Message", "Answer", "Boot"}
    PROVE  /\ NewTurn(m, w) \in Turn /\ TurnOK(NewTurn(m, w))
           /\ NewTurn(m, w).pc = "Spawned" /\ NewTurn(m, w).msg = m
<1>1. IdleTurn \in Turn
  BY IdleTyped
<1>2. NewTurn(m, w) \in Turn
  BY <1>1 DEF NewTurn, Turn, TurnPC
<1>3. NewTurn(m, w).pc = "Spawned" /\ NewTurn(m, w).msg = m
  BY <1>1 DEF NewTurn, Turn
<1> QED BY <1>2, <1>3 DEF TurnOK

\* Goto and the like change the place of a turn or request, never its message.
LEMMA GotoTyped ==
    ASSUME TurnsTyped, NEW r \in Runs, turn[r].pc # "Idle", NEW p \in TurnPC \ {"Idle"},
           Goto(r, p)
    PROVE  TurnsTyped'
<1> DEFINE x == [turn[r] EXCEPT !.pc = p]
<1>1. x \in Turn /\ TurnOK(x)
  BY DEF TurnsTyped, Turn, TurnOK
<1>2. turn' = [turn EXCEPT ![r] = x]
  BY DEF Goto
<1> QED BY <1>1, <1>2, UpdateTurn

LEMMA GotoReqTyped ==
    ASSUME ReqsTyped, NEW q \in Reqs, req[q].pc # "Idle",
           NEW p \in {"Creating", "Resuming", "Flipping", "Registering"}, GotoReq(q, p)
    PROVE  ReqsTyped'
<1> DEFINE x == [req[q] EXCEPT !.pc = p]
<1>1. x \in Req /\ ReqOK(x)
  BY DEF ReqsTyped, Req, ReqOK
<1>2. req' = [req EXCEPT ![q] = x]
  BY DEF GotoReq
<1> QED BY <1>1, <1>2, UpdateReq

LEMMA DropTyped ==
    ASSUME ReqsTyped, NEW q \in Reqs, Drop(q) PROVE ReqsTyped'
  BY IdleTyped, UpdateReq DEF Drop

LEMMA ActorsUnchanged ==
    /\ TurnsTyped /\ UNCHANGED turn => TurnsTyped'
    /\ ReqsTyped /\ UNCHANGED req => ReqsTyped'
  BY DEF TurnsTyped, ReqsTyped
-----------------------------------------------------------------------------
LEMMA TurnStepTyped ==
    ASSUME ActorsTyped, NEW r \in Runs, TurnStep(r)
    PROVE  ActorsTyped'
<1>0. TurnsTyped /\ ReqsTyped /\ booting \subseteq Msgs
  BY DEF ActorsTyped
<1> USE DEF Working
<1>1. CASE RegisterSelf(r)
  BY <1>1, <1>0, ActorsUnchanged DEF RegisterSelf, boot, ActorsTyped
<1>2. CASE BeginTurn(r)
  BY <1>2, <1>0, ActorsUnchanged, GotoTyped DEF BeginTurn, TurnPC, boot, ActorsTyped
<1>3. ASSUME NEW k \in Calls, AskHuman(r, k) PROVE ActorsTyped'
  BY <1>3, <1>0, ActorsUnchanged, GotoTyped DEF AskHuman, TurnPC, boot, ActorsTyped
<1>4. CASE ReturnReply(r)
  BY <1>4, <1>0, ActorsUnchanged, GotoTyped DEF ReturnReply, TurnPC, boot, ActorsTyped
<1>5. CASE ReturnPending(r)
  BY <1>5, <1>0, ActorsUnchanged, GotoTyped DEF ReturnPending, TurnPC, boot, ActorsTyped
<1>6. CASE ReturnCancelled(r)
  <2>1. turn' = [turn EXCEPT ![r] = [turn[r] EXCEPT !.pc = "Cancelling",
                                                    !.notify = AS!IsCurrent(r)]]
    BY <1>6, <1>0 DEF ReturnCancelled, TurnsTyped
  <2>2. AS!IsCurrent(r) \in BOOLEAN
    BY DEF AS!IsCurrent, AS!Registered
  <2>3. PICK b \in BOOLEAN :
           turn' = [turn EXCEPT ![r] = [turn[r] EXCEPT !.pc = "Cancelling", !.notify = b]]
    BY <2>1, <2>2
  <2> DEFINE x == [turn[r] EXCEPT !.pc = "Cancelling", !.notify = b]
  <2>4. turn[r] \in Turn /\ turn[r].msg \in Msgs
    BY <1>6, <1>0 DEF ReturnCancelled, TurnsTyped, TurnOK
  <2>5. x \in Turn /\ x.msg = turn[r].msg
    BY <2>4 DEF Turn, TurnPC
  <2> QED
    BY <1>6, <1>0, <2>3, <2>4, <2>5, ActorsUnchanged, UpdateTurn
    DEF ReturnCancelled, boot, ActorsTyped, TurnOK
<1>7. CASE FailTurn(r)
  BY <1>7, <1>0, ActorsUnchanged, GotoTyped DEF FailTurn, TurnPC, boot, ActorsTyped
<1>8. CASE CompleteMessage(r)
  BY <1>8, <1>0, ActorsUnchanged, GotoTyped DEF CompleteMessage, TurnPC, boot, ActorsTyped
<1>9. CASE PauseMessage(r)
  BY <1>9, <1>0, ActorsUnchanged, GotoTyped DEF PauseMessage, TurnPC, boot, ActorsTyped
<1>10. CASE CancelMessage(r)
  BY <1>10, <1>0, ActorsUnchanged, GotoTyped DEF CancelMessage, TurnPC, boot, ActorsTyped
<1>11. CASE Notify(r)
  BY <1>11, <1>0, ActorsUnchanged, GotoTyped DEF Notify, TurnPC, boot, ActorsTyped
<1>12. CASE RemoveSession(r)
  BY <1>12, <1>0, ActorsUnchanged, IdleTyped, UpdateTurn DEF RemoveSession, boot, ActorsTyped
<1> QED
  BY <1>1, <1>2, <1>3, <1>4, <1>5, <1>6, <1>7, <1>8, <1>9, <1>10, <1>11, <1>12 DEF TurnStep

LEMMA ServeTyped ==
    ASSUME ActorsTyped, NEW q \in Reqs, Serve(q)
    PROVE  ActorsTyped'
<1>0. TurnsTyped /\ ReqsTyped /\ booting \subseteq Msgs
  BY DEF ActorsTyped
<1>1. CASE CreateMessage(q)
  BY <1>1, <1>0, ActorsUnchanged, GotoReqTyped DEF CreateMessage, boot, ActorsTyped
<1>2. CASE RegisterAndSpawn(q)
  <2>1. req[q].msg \in Msgs
    BY <1>2, <1>0 DEF RegisterAndSpawn, ReqsTyped, ReqOK
  <2>2. PICK r \in Runs, w \in {"Message", "Answer"} :
           turn' = [turn EXCEPT ![r] = NewTurn(req[q].msg, w)]
    BY <1>2 DEF RegisterAndSpawn
  <2>3. TurnsTyped'
    BY <1>0, <2>1, <2>2, NewTurnTyped, UpdateTurn
  <2> QED BY <1>2, <1>0, <2>3, DropTyped DEF RegisterAndSpawn, boot, ActorsTyped
<1>3. CASE WriteAnswer(q)
  BY <1>3, <1>0, ActorsUnchanged, GotoReqTyped, DropTyped DEF WriteAnswer, boot, ActorsTyped
<1>4. CASE Flip(q)
  <2>1. req[q].msg \in Msgs
    BY <1>4, <1>0 DEF Flip, ReqsTyped, ReqOK
  <2>2. ReqsTyped'
    BY <1>4, <1>0, GotoReqTyped, DropTyped DEF Flip
  <2>3. ASSUME NEW r \in Runs, turn' = [turn EXCEPT ![r] = NewTurn(req[q].msg, "Answer")]
        PROVE  TurnsTyped'
    BY <1>0, <2>1, <2>3, NewTurnTyped, UpdateTurn
  <2> QED BY <1>4, <1>0, <2>2, <2>3, ActorsUnchanged DEF Flip, boot, ActorsTyped
<1> QED BY <1>1, <1>2, <1>3, <1>4 DEF Serve

LEMMA ActorsStep == ActorsTyped /\ [Next]_vars => ActorsTyped'
<1> SUFFICES ASSUME ActorsTyped, [Next]_vars PROVE ActorsTyped'
  OBVIOUS
<1>0. TurnsTyped /\ ReqsTyped /\ booting \subseteq Msgs
  BY DEF ActorsTyped
<1>1. ASSUME NEW q \in Reqs, NEW m \in Msgs, SendMessage(q, m) PROVE ActorsTyped'
  <2> DEFINE x == [IdleReq EXCEPT !.pc = "Creating", !.msg = m]
  <2>1. IdleReq \in Req
    BY IdleTyped
  <2>2. x \in Req /\ x.msg = m
    BY <2>1 DEF Req
  <2> QED
    BY <1>1, <1>0, <2>2, ActorsUnchanged, UpdateReq DEF SendMessage, boot, ActorsTyped, ReqOK
<1>2. ASSUME NEW q \in Reqs, NEW m \in Msgs, NEW k \in Calls, NEW h \in {"Http", "Channel"},
             Answer(q, m, k, h)
      PROVE  ActorsTyped'
  <2> DEFINE x == [pc |-> "Resuming", msg |-> m, call |-> k, how |-> h]
  <2>1. x \in Req /\ ReqOK(x)
    BY DEF Req, ReqOK
  <2> QED
    BY <1>2, <1>0, <2>1, ActorsUnchanged, UpdateReq DEF Answer, boot, ActorsTyped
<1>3. ASSUME NEW m \in Msgs, NEW k \in Calls, ResolveUntyped(m, k) PROVE ActorsTyped'
  BY <1>3, <1>0, ActorsUnchanged DEF ResolveUntyped, boot, ActorsTyped
<1>4. ASSUME NEW c \in Chats, Stop(c) PROVE ActorsTyped'
  BY <1>4, <1>0, ActorsUnchanged DEF Stop, boot, ActorsTyped
<1>5. CASE Crash
  BY <1>5, IdleTyped DEF Crash, ActorsTyped, TurnsTyped, ReqsTyped
<1>6. CASE Restart
  BY <1>6, <1>0, ActorsUnchanged DEF Restart, ActorsTyped
<1>7. CASE FindExecuting
  BY <1>7, <1>0, ActorsUnchanged DEF FindExecuting, ActorsTyped
<1>8. ASSUME NEW m \in Msgs, SpawnResumed(m) PROVE ActorsTyped'
  BY <1>8, <1>0, ActorsUnchanged, NewTurnTyped, UpdateTurn DEF SpawnResumed, ActorsTyped
<1>9. CASE UNCHANGED vars
  BY <1>9, <1>0, ActorsUnchanged DEF vars, boot, ActorsTyped
<1> QED
  BY <1>1, <1>2, <1>3, <1>4, <1>5, <1>6, <1>7, <1>8, <1>9, TurnStepTyped, ServeTyped DEF Next

LEMMA ActorsInvariant == Spec => []ActorsTyped
<1>1. Init => ActorsTyped
  BY IdleTyped DEF Init, ActorsTyped, TurnsTyped, ReqsTyped
<1> QED BY <1>1, ActorsStep, PTL DEF Spec

-----------------------------------------------------------------------------
(* Who touches the registry, and how. *)
LEMMA SessionsStep ==
    ASSUME ActorsTyped, [Next]_vars
    PROVE  [AS!Next]_(AS!sessionVars)
<1>0. /\ \A r \in Runs : TurnOK(turn[r])
      /\ \A q \in Reqs : ReqOK(req[q])
      /\ \A m \in Msgs : ChatOf[m] \in Chats
  BY DEF ActorsTyped, TurnsTyped, ReqsTyped
<1>1. ASSUME NEW q \in Reqs, RegisterAndSpawn(q) PROVE AS!Next
  <2>1. ChatOf[req[q].msg] \in Chats
    BY <1>1, <1>0 DEF RegisterAndSpawn, ReqOK
  <2>2. PICK r \in Runs : AS!Register(r, ChatOf[req[q].msg])
    BY <1>1 DEF RegisterAndSpawn
  <2> QED BY <2>1, <2>2 DEF AS!Next
<1>2. ASSUME NEW r \in Runs, RegisterSelf(r) PROVE AS!Next
  <2>1. ChatOf[turn[r].msg] \in Chats
    BY <1>2, <1>0 DEF RegisterSelf, TurnOK
  <2> QED BY <1>2, <2>1 DEF RegisterSelf, AS!Next
<1>3. ASSUME NEW r \in Runs, RemoveSession(r) PROVE AS!Next
  BY <1>3 DEF RemoveSession, AS!Next
<1>4. ASSUME NEW c \in Chats, Stop(c) PROVE AS!Next
  BY <1>4 DEF Stop, AS!Next
<1>5. CASE Crash
  BY <1>5 DEF Crash, AS!Next
<1>6. ASSUME NEW q \in Reqs, CreateMessage(q) \/ WriteAnswer(q) \/ Flip(q)
      PROVE  UNCHANGED sessions
  BY <1>6 DEF CreateMessage, WriteAnswer, Flip
<1>7. ASSUME NEW r \in Runs, TurnStep(r), ~RegisterSelf(r), ~RemoveSession(r)
      PROVE  UNCHANGED sessions
  BY <1>7
    DEF TurnStep, BeginTurn, AskHuman, ReturnReply, ReturnPending, ReturnCancelled, FailTurn,
        CompleteMessage, PauseMessage, CancelMessage, Notify
<1>8. ASSUME NEW q \in Reqs, NEW m \in Msgs,
             \/ SendMessage(q, m)
             \/ \E k \in Calls, how \in {"Http", "Channel"} : Answer(q, m, k, how)
             \/ \E k \in Calls : ResolveUntyped(m, k)
             \/ SpawnResumed(m)
      PROVE  UNCHANGED sessions
  BY <1>8 DEF SendMessage, Answer, ResolveUntyped, SpawnResumed
<1>9. ASSUME NEW m \in Msgs, (\E k \in Calls : ResolveUntyped(m, k)) \/ SpawnResumed(m)
      PROVE  UNCHANGED sessions
  BY <1>9 DEF ResolveUntyped, SpawnResumed
<1>10. ASSUME Restart \/ FindExecuting \/ UNCHANGED vars PROVE UNCHANGED sessions
  BY <1>10 DEF Restart, FindExecuting, vars
<1>11. UNCHANGED sessions => UNCHANGED AS!sessionVars
  BY DEF sessions, AS!sessionVars
<1> QED
  BY <1>11, <1>1, <1>2, <1>3, <1>4, <1>5, <1>6, <1>7, <1>8, <1>9, <1>10 DEF Next, Serve

(* The turns use the registry only through its operations, so each promise of   *)
(* ActiveSessions holds of the chats: chat/service.rs and Harness::resume        *)
(* register, the guard of a turn removes, Stop cancels, a crash empties it.      *)
THEOREM TurnsUseSessions == Spec => SessionsSpec
<1>1. Init => AS!Init
  BY DEF Init
<1> QED BY <1>1, SessionsStep, ActorsInvariant, PTL DEF Spec, SessionsSpec, AS!Spec

Registry == INSTANCE ActiveSessions_proofs

LEMMA SessionsInvariant == Spec => []AS!SessionInv
<1>1. Registry!SessionAssumption
  BY DEF Registry!SessionAssumption
<1>2. Registry!Spec => []Registry!SessionInv
  BY <1>1, Registry!SessionInvariant
<1>3. AS!Init <=> Registry!Init
  BY DEF AS!Init, Registry!Init, AS!NoEntry, Registry!NoEntry, AS!NoLease, Registry!NoLease
<1>4. AS!Next <=> Registry!Next
  BY DEF AS!Next, AS!Register, AS!RegisterToken, AS!Enter, AS!Replaced, AS!Cancel, AS!Remove,
         AS!IsCurrent, AS!Registered, AS!FireOwn, AS!Restart, AS!NoEntry, AS!NoLease,
         Registry!Next, Registry!Register, Registry!RegisterToken, Registry!Enter,
         Registry!Replaced, Registry!Cancel, Registry!Remove, Registry!IsCurrent,
         Registry!Registered, Registry!FireOwn, Registry!Restart, Registry!NoEntry,
         Registry!NoLease
<1>5. [AS!Next]_(AS!sessionVars) <=> [Registry!Next]_(Registry!sessionVars)
  BY <1>4 DEF AS!sessionVars, Registry!sessionVars
<1>6. AS!SessionInv <=> Registry!SessionInv
  BY DEF AS!SessionInv, AS!TypeOK, AS!CurrentOrCancelled, AS!NoOrphanEntry, AS!LeasesDistinct,
         AS!Registered, AS!Entry, AS!NoEntry, AS!Lease,
         Registry!SessionInv, Registry!TypeOK, Registry!CurrentOrCancelled,
         Registry!NoOrphanEntry, Registry!LeasesDistinct, Registry!Registered,
         Registry!Entry, Registry!NoEntry, Registry!Lease
<1> QED
  BY <1>2, <1>3, <1>4, <1>5, <1>6, TurnsUseSessions, PTL
  DEF SessionsSpec, AS!Spec, Registry!Spec

-----------------------------------------------------------------------------
(* A turn past its start, or that of a message, has an entry for the chat of    *)
(* its message, an idle run has none: without this a Stop could find nobody in  *)
(* the registry.                                                                *)
Placed(x, l) ==
    /\ x.pc = "Idle" => l.chat = "None"
    /\ x.pc = "Spawned" => l.chat \in {"None", ChatOf[x.msg]}
    /\ x.pc = "Spawned" /\ x.why = "Message" => l.chat = ChatOf[x.msg]
    /\ x.pc \notin {"Idle", "Spawned"} => l.chat = ChatOf[x.msg]
TurnsPlaced == \A r \in Runs : Placed(turn[r], lease[r])
LeasesTyped == lease \in [Runs -> AS!Lease]

LEMMA PlacedTurn ==
    ASSUME TurnsTyped, TurnsPlaced, UNCHANGED lease,
           NEW r \in Runs, NEW x, Placed(x, lease[r]), turn' = [turn EXCEPT ![r] = x]
    PROVE  TurnsPlaced'
  BY DEF TurnsTyped, TurnsPlaced

\* A turn that has begun stays where it is registered.
LEMMA GotoPlaced ==
    ASSUME TurnsTyped, TurnsPlaced, UNCHANGED lease, NEW r \in Runs,
           NEW p \in TurnPC \ {"Idle", "Spawned"}, Goto(r, p),
           lease[r].chat = ChatOf[turn[r].msg]
    PROVE  TurnsPlaced'
<1> DEFINE x == [turn[r] EXCEPT !.pc = p]
<1>1. x.pc = p /\ x.msg = turn[r].msg
  BY DEF TurnsTyped, Turn
<1>2. turn' = [turn EXCEPT ![r] = x]
  BY DEF Goto
<1> QED BY <1>1, <1>2, PlacedTurn DEF Placed

LEMMA SpawnPlaced ==
    ASSUME TurnsTyped, TurnsPlaced, UNCHANGED lease, NEW r \in Runs, turn[r].pc = "Idle",
           NEW m \in Msgs, NEW w \in {"Answer", "Boot"},
           turn' = [turn EXCEPT ![r] = NewTurn(m, w)]
    PROVE  TurnsPlaced'
<1>1. Placed(NewTurn(m, w), lease[r])
  <2>1. lease[r].chat = "None" /\ w # "Message"
    BY DEF TurnsPlaced, Placed
  <2>2. NewTurn(m, w).pc = "Spawned" /\ NewTurn(m, w).why = w
    BY DEF NewTurn, IdleTurn
  <2> QED BY <2>1, <2>2 DEF Placed
<1> QED BY <1>1, PlacedTurn

LEMMA TurnStepPlaced ==
    ASSUME ActorsTyped, LeasesTyped, TurnsPlaced, NEW r \in Runs, TurnStep(r)
    PROVE  TurnsPlaced'
<1>0. TurnsTyped /\ turn[r] \in Turn /\ Placed(turn[r], lease[r]) /\ TurnOK(turn[r])
  BY DEF ActorsTyped, TurnsTyped, TurnsPlaced
<1> USE DEF Working
<1>1. CASE RegisterSelf(r)
  <2>1. /\ turn' = turn /\ turn[r].pc = "Spawned"
        /\ lease' = [lease EXCEPT ![r] = [id |-> nextId, chat |-> ChatOf[turn[r].msg]]]
    BY <1>1 DEF RegisterSelf, AS!Register, AS!Enter
  <2> QED BY <2>1 DEF TurnsPlaced, Placed, LeasesTyped
<1>2. CASE BeginTurn(r)
  BY <1>2, <1>0, GotoPlaced DEF BeginTurn, TurnPC, sessions, Placed, AS!Registered
<1>3. ASSUME NEW k \in Calls, AskHuman(r, k) PROVE TurnsPlaced'
  BY <1>3, <1>0, GotoPlaced DEF AskHuman, TurnPC, sessions, Placed
<1>4. CASE ReturnReply(r) \/ ReturnPending(r)
  BY <1>4, <1>0, GotoPlaced DEF ReturnReply, ReturnPending, TurnPC, sessions, Placed
<1>5. CASE ReturnCancelled(r)
  <2> DEFINE x == [turn[r] EXCEPT !.pc = "Cancelling", !.notify = AS!IsCurrent(r)]
  <2>1. turn' = [turn EXCEPT ![r] = x]
    BY <1>5, <1>0 DEF ReturnCancelled, TurnsTyped
  <2>2. x.pc = "Cancelling" /\ x.msg = turn[r].msg
    BY <1>0 DEF Turn
  <2>3. Placed(x, lease[r])
    BY <1>5, <1>0, <2>2 DEF ReturnCancelled, Placed
  <2> QED BY <1>5, <1>0, <2>1, <2>3, PlacedTurn DEF ReturnCancelled, sessions
<1>6. CASE FailTurn(r) \/ CompleteMessage(r)
  BY <1>6, <1>0, GotoPlaced DEF FailTurn, CompleteMessage, TurnPC, sessions, Placed
<1>7. CASE PauseMessage(r) \/ CancelMessage(r) \/ Notify(r)
  BY <1>7, <1>0, GotoPlaced
  DEF PauseMessage, CancelMessage, Notify, TurnPC, sessions, Placed
<1>8. CASE RemoveSession(r)
  <2>1. /\ turn' = [turn EXCEPT ![r] = IdleTurn]
        /\ lease' = [lease EXCEPT ![r] = AS!NoLease]
    BY <1>8 DEF RemoveSession, AS!Remove
  <2>2. Placed(IdleTurn, AS!NoLease)
    BY DEF Placed, IdleTurn, AS!NoLease
  <2> QED BY <1>0, <2>1, <2>2 DEF TurnsPlaced, TurnsTyped, LeasesTyped
<1> QED BY <1>1, <1>2, <1>3, <1>4, <1>5, <1>6, <1>7, <1>8 DEF TurnStep

LEMMA PlacedStep ==
    ASSUME ActorsTyped, AS!SessionInv, TurnsPlaced, [Next]_vars
    PROVE  TurnsPlaced'
<1>0. TurnsTyped /\ LeasesTyped
  BY DEF ActorsTyped, LeasesTyped, AS!SessionInv, AS!TypeOK
<1>1. UNCHANGED <<sessions, turn>> => TurnsPlaced'
  BY DEF TurnsPlaced, sessions
<1>2. ASSUME NEW q \in Reqs, RegisterAndSpawn(q) PROVE TurnsPlaced'
  <2> DEFINE m == req[q].msg
  <2>1. m \in Msgs
    BY <1>2 DEF RegisterAndSpawn, ActorsTyped, ReqsTyped, ReqOK
  <2>2. PICK r \in Runs, w \in {"Message", "Answer"} :
           /\ turn' = [turn EXCEPT ![r] = NewTurn(m, w)]
           /\ lease' = [lease EXCEPT ![r] = [id |-> nextId, chat |-> ChatOf[m]]]
    BY <1>2 DEF RegisterAndSpawn, AS!Register, AS!Enter
  <2>3. Placed(NewTurn(m, w), [id |-> nextId, chat |-> ChatOf[m]])
    BY <2>1, NewTurnTyped DEF Placed
  <2> QED BY <1>0, <2>2, <2>3 DEF TurnsPlaced, TurnsTyped, LeasesTyped
<1>3. ASSUME NEW q \in Reqs, CreateMessage(q) \/ WriteAnswer(q) PROVE TurnsPlaced'
  BY <1>1, <1>3 DEF CreateMessage, WriteAnswer
<1>4. ASSUME NEW q \in Reqs, Flip(q) PROVE TurnsPlaced'
  <2>1. req[q].msg \in Msgs
    BY <1>4 DEF Flip, ActorsTyped, ReqsTyped, ReqOK
  <2>2. UNCHANGED lease /\ UNCHANGED sessions
    BY <1>4 DEF Flip, sessions
  <2>3. ASSUME NEW r \in Runs, turn[r].pc = "Idle",
               turn' = [turn EXCEPT ![r] = NewTurn(req[q].msg, "Answer")]
        PROVE  TurnsPlaced'
    BY <1>0, <2>1, <2>2, <2>3, SpawnPlaced
  <2>4. turn' = turn \/ \E r \in Runs : /\ turn[r].pc = "Idle"
                                        /\ turn' = [turn EXCEPT ![r] = NewTurn(req[q].msg, "Answer")]
    BY <1>4 DEF Flip
  <2> QED BY <1>1, <2>2, <2>3, <2>4
<1>5. ASSUME NEW m \in Msgs, SpawnResumed(m) PROVE TurnsPlaced'
  BY <1>0, <1>5, SpawnPlaced DEF SpawnResumed, sessions
<1>6. ASSUME NEW q \in Reqs, NEW m \in Msgs,
             \/ SendMessage(q, m)
             \/ \E k \in Calls, how \in {"Http", "Channel"} : Answer(q, m, k, how)
      PROVE  TurnsPlaced'
  BY <1>1, <1>6 DEF SendMessage, Answer
<1>7. ASSUME NEW m \in Msgs, NEW k \in Calls, ResolveUntyped(m, k) PROVE TurnsPlaced'
  BY <1>1, <1>7 DEF ResolveUntyped
<1>8. ASSUME NEW c \in Chats, Stop(c) PROVE TurnsPlaced'
  BY <1>8 DEF Stop, AS!Cancel, TurnsPlaced
<1>9. CASE Crash
  <2>1. Placed(IdleTurn, AS!NoLease)
    BY DEF Placed, IdleTurn, AS!NoLease
  <2> QED BY <1>9, <2>1 DEF Crash, AS!Restart, TurnsPlaced
<1>10. CASE Restart \/ FindExecuting \/ UNCHANGED vars
  BY <1>1, <1>10 DEF Restart, FindExecuting, vars
<1> QED
  BY <1>0, <1>2, <1>3, <1>4, <1>5, <1>6, <1>7, <1>8, <1>9, <1>10, TurnStepPlaced DEF Next, Serve

(* Stop reaches every turn of its chat that is in the tool loop, and the turn of *)
(* a message as soon as it is spawned: the turn is registered, its entry is      *)
(* current or its token is cancelled already, and no turn that ended took the    *)
(* entry with it (chat/service.rs, state.rs, stream.rs).                         *)
THEOREM StopReaches == Spec => StopReachesTurns
<1>1. Init => TurnsPlaced
  BY DEF Init, AS!Init, TurnsPlaced, Placed, IdleTurn, AS!NoLease
<1>2. Spec => []TurnsPlaced
  BY <1>1, PlacedStep, ActorsInvariant, SessionsInvariant, PTL DEF Spec
<1>3. ASSUME ActorsTyped, AS!SessionInv, TurnsPlaced, [Next]_vars
      PROVE  [\A c \in Chats, r \in Runs :
                 Stop(c) /\ Reachable(turn[r]) /\ ChatOf[turn[r].msg] = c
                     => r \in fired']_vars
  <2> SUFFICES ASSUME NEW c \in Chats, NEW r \in Runs, Stop(c), Reachable(turn[r]),
                      ChatOf[turn[r].msg] = c, r \notin fired
               PROVE  r \in fired'
    BY DEF Stop, AS!Cancel
  <2>1. lease[r].chat = c
    BY <1>3 DEF TurnsPlaced, Placed, Working, Reachable
  <2>2. AS!Registered(r)
    BY <2>1 DEF AS!Registered
  <2>3. entry[lease[r].chat] = [id |-> lease[r].id, run |-> r]
    BY <1>3, <2>2 DEF AS!SessionInv, AS!CurrentOrCancelled
  <2>4. entry[c].run = r
    BY <2>1, <2>3
  <2> QED BY <2>4 DEF Stop, AS!Cancel, AS!Replaced
<1> QED
  BY <1>2, <1>3, ActorsInvariant, SessionsInvariant, PTL DEF Spec, StopReachesTurns

-----------------------------------------------------------------------------
(* A token that is fired while its entry is current was fired by a Stop: a later *)
(* registration replaces the entry before it cancels.  finalize decides by that. *)
FiredByUser == \A r \in Runs : AS!IsCurrent(r) /\ r \in fired => r \in byUser
Telling(x) ==
    /\ x.pc \in {"Idle", "Spawned"} => ~x.notify
    /\ x.pc = "Notifying" => x.notify
NotifyOK == \A r \in Runs : Telling(turn[r]) /\ (turn[r].notify => r \in byUser)

LEMMA FiredStep ==
    ASSUME AS!SessionInv, FiredByUser, ActorsTyped, [Next]_vars
    PROVE  FiredByUser'
<1> USE DEF AS!IsCurrent, AS!Registered
<1>0. /\ lease \in [Runs -> AS!Lease] /\ entry \in [Chats -> AS!Entry]
      /\ AS!NoOrphanEntry /\ AS!LeasesDistinct /\ nextId \in Nat
  BY DEF AS!SessionInv, AS!TypeOK
<1>1. ASSUME NEW r \in Runs, NEW c \in Chats, AS!Register(r, c), byUser' = byUser \ {r}
      PROVE  FiredByUser'
  <2> SUFFICES ASSUME NEW s \in Runs, AS!IsCurrent(s)', s \in fired' PROVE s \in byUser'
    BY DEF FiredByUser
  <2>1. s # r /\ lease'[s] = lease[s] /\ AS!Registered(s)
    BY <1>0, <1>1 DEF AS!Register, AS!Enter
  <2>2. lease[s].chat # c
    BY <1>0, <1>1, <2>1 DEF AS!Register, AS!Enter, AS!LeasesDistinct
  <2>3. entry'[lease[s].chat] = entry[lease[s].chat]
    BY <1>0, <1>1, <2>2 DEF AS!Register, AS!Enter
  <2>4. s \notin AS!Replaced(c)
    <3> SUFFICES ASSUME entry[c].run = s PROVE FALSE
      BY DEF AS!Replaced
    <3>1. lease[s] = [id |-> entry[c].id, chat |-> c]
      BY <1>0 DEF AS!NoOrphanEntry
    <3> QED BY <2>2, <3>1
  <2>5. AS!IsCurrent(s) /\ s \in fired
    BY <1>1, <2>1, <2>3, <2>4 DEF AS!Register
  <2> QED BY <1>1, <2>1, <2>5 DEF FiredByUser
<1>2. ASSUME NEW q \in Reqs, RegisterAndSpawn(q) PROVE FiredByUser'
  <2>1. ChatOf[req[q].msg] \in Chats
    BY <1>2 DEF RegisterAndSpawn, ActorsTyped, ReqsTyped, ReqOK
  <2> QED BY <1>1, <1>2, <2>1 DEF RegisterAndSpawn
<1>3. ASSUME NEW r \in Runs, RegisterSelf(r) PROVE FiredByUser'
  <2>1. ChatOf[turn[r].msg] \in Chats
    BY <1>3 DEF RegisterSelf, ActorsTyped, TurnsTyped, TurnOK
  <2> QED BY <1>1, <1>3, <2>1 DEF RegisterSelf
<1>4. ASSUME NEW r \in Runs, RemoveSession(r) PROVE FiredByUser'
  <2> SUFFICES ASSUME NEW s \in Runs, AS!IsCurrent(s)', s \in fired' PROVE s \in byUser'
    BY DEF FiredByUser
  <2>1. s # r /\ lease'[s] = lease[s] /\ fired' = fired /\ byUser' = byUser
    BY <1>0, <1>4 DEF RemoveSession, AS!Remove, AS!NoLease
  <2>2. entry'[lease[s].chat] = entry[lease[s].chat]
    BY <1>0, <1>4, <2>1 DEF RemoveSession, AS!Remove, AS!NoEntry
  <2> QED BY <2>1, <2>2 DEF FiredByUser
<1>5. ASSUME NEW c \in Chats, Stop(c) PROVE FiredByUser'
  BY <1>5 DEF Stop, AS!Cancel, FiredByUser
<1>6. CASE Crash
  BY <1>6 DEF Crash, AS!Restart, AS!NoLease, FiredByUser
<1>7. UNCHANGED <<entry, lease, fired, byUser>> => FiredByUser'
  BY DEF FiredByUser
<1>8. ASSUME NEW q \in Reqs, CreateMessage(q) \/ WriteAnswer(q) \/ Flip(q)
      PROVE  UNCHANGED <<entry, lease, fired, byUser>>
  BY <1>8 DEF CreateMessage, WriteAnswer, Flip, sessions
<1>9. ASSUME NEW r \in Runs, TurnStep(r), ~RegisterSelf(r), ~RemoveSession(r)
      PROVE  UNCHANGED <<entry, lease, fired, byUser>>
  BY <1>9
    DEF TurnStep, BeginTurn, AskHuman, ReturnReply, ReturnPending, ReturnCancelled, FailTurn,
        CompleteMessage, PauseMessage, CancelMessage, Notify, sessions
<1>10. ASSUME NEW q \in Reqs, NEW m \in Msgs,
              \/ SendMessage(q, m)
              \/ \E k \in Calls, how \in {"Http", "Channel"} : Answer(q, m, k, how)
       PROVE  UNCHANGED <<entry, lease, fired, byUser>>
  BY <1>10 DEF SendMessage, Answer, sessions
<1>11. ASSUME NEW m \in Msgs, (\E k \in Calls : ResolveUntyped(m, k)) \/ SpawnResumed(m)
       PROVE  UNCHANGED <<entry, lease, fired, byUser>>
  BY <1>11 DEF ResolveUntyped, SpawnResumed, sessions
<1>12. ASSUME Restart \/ FindExecuting \/ UNCHANGED vars
       PROVE  UNCHANGED <<entry, lease, fired, byUser>>
  BY <1>12 DEF Restart, FindExecuting, vars, sessions
<1> QED
  BY <1>2, <1>3, <1>4, <1>5, <1>6, <1>7, <1>8, <1>9, <1>10, <1>11, <1>12 DEF Next, Serve

\* turn' changes one turn, or none: what NotifyOK asks of the new one.
LEMMA TellOne ==
    ASSUME TurnsTyped, NotifyOK, NEW r \in Runs, NEW x, turn' = [turn EXCEPT ![r] = x],
           Telling(x), x.notify => r \in byUser', byUser \ {r} \subseteq byUser'
    PROVE  NotifyOK'
  BY DEF TurnsTyped, NotifyOK

LEMMA GotoTells ==
    ASSUME TurnsTyped, NotifyOK, UNCHANGED byUser, NEW r \in Runs,
           NEW p \in TurnPC \ {"Idle", "Spawned", "Notifying"}, Goto(r, p)
    PROVE  NotifyOK'
<1> DEFINE x == [turn[r] EXCEPT !.pc = p]
<1>1. x.pc = p /\ x.notify = turn[r].notify
  BY DEF TurnsTyped, Turn
<1>2. turn' = [turn EXCEPT ![r] = x]
  BY DEF Goto
<1>3. Telling(x) /\ (x.notify => r \in byUser)
  BY <1>1 DEF Telling, NotifyOK
<1> QED BY <1>2, <1>3, TellOne

LEMMA NewTurnSilent ==
    ASSUME NEW m \in Msgs, NEW w \in {"Message", "Answer", "Boot"}
    PROVE  Telling(NewTurn(m, w)) /\ ~NewTurn(m, w).notify
<1>1. IdleTurn \in Turn /\ IdleTurn.notify = FALSE
  BY IdleTyped DEF IdleTurn
<1>2. NewTurn(m, w).notify = FALSE
  BY <1>1 DEF NewTurn, Turn
<1> QED BY <1>2, NewTurnTyped DEF Telling

LEMMA TurnStepTells ==
    ASSUME ActorsTyped, FiredByUser, NotifyOK, NEW r \in Runs, TurnStep(r)
    PROVE  NotifyOK'
<1>0. TurnsTyped /\ turn[r] \in Turn /\ Telling(turn[r]) /\ (turn[r].notify => r \in byUser)
  BY DEF ActorsTyped, TurnsTyped, NotifyOK
<1> USE DEF Working
<1>1. CASE RegisterSelf(r)
  BY <1>1, <1>0 DEF RegisterSelf, NotifyOK, Telling
<1>2. CASE BeginTurn(r)
  BY <1>2, <1>0, GotoTells DEF BeginTurn, TurnPC
<1>3. ASSUME NEW k \in Calls, AskHuman(r, k) PROVE NotifyOK'
  BY <1>3, <1>0, GotoTells DEF AskHuman, TurnPC
<1>4. CASE ReturnReply(r) \/ ReturnPending(r)
  BY <1>4, <1>0, GotoTells DEF ReturnReply, ReturnPending, TurnPC
<1>5. CASE ReturnCancelled(r)
  <2> DEFINE x == [turn[r] EXCEPT !.pc = "Cancelling", !.notify = AS!IsCurrent(r)]
  <2>1. turn' = [turn EXCEPT ![r] = x]
    BY <1>5, <1>0 DEF ReturnCancelled, TurnsTyped
  <2>2. x.pc = "Cancelling" /\ x.notify = AS!IsCurrent(r)
    BY <1>0 DEF Turn
  <2>3. Telling(x) /\ (x.notify => r \in byUser)
    BY <1>5, <2>2 DEF ReturnCancelled, Telling, FiredByUser
  <2> QED BY <1>5, <1>0, <2>1, <2>3, TellOne DEF ReturnCancelled
<1>6. CASE FailTurn(r) \/ CompleteMessage(r)
  BY <1>6, <1>0, GotoTells DEF FailTurn, CompleteMessage, TurnPC
<1>7. CASE PauseMessage(r) \/ Notify(r)
  BY <1>7, <1>0, GotoTells DEF PauseMessage, Notify, TurnPC
<1>8. CASE CancelMessage(r)
  <2>1. CASE turn[r].notify
    <3> DEFINE x == [turn[r] EXCEPT !.pc = "Notifying"]
    <3>1. x.pc = "Notifying" /\ x.notify
      BY <1>0, <2>1 DEF Turn
    <3>2. turn' = [turn EXCEPT ![r] = x]
      BY <1>8, <2>1 DEF CancelMessage, Goto
    <3> QED BY <1>8, <1>0, <2>1, <3>1, <3>2, TellOne DEF CancelMessage, Telling
  <2>2. CASE ~turn[r].notify
    BY <1>8, <1>0, <2>2, GotoTells DEF CancelMessage, TurnPC
  <2> QED BY <2>1, <2>2
<1>9. CASE RemoveSession(r)
  BY <1>9, <1>0, TellOne DEF RemoveSession, IdleTurn, Telling
<1> QED BY <1>1, <1>2, <1>3, <1>4, <1>5, <1>6, <1>7, <1>8, <1>9 DEF TurnStep

LEMMA NotifyStep ==
    ASSUME ActorsTyped, FiredByUser, NotifyOK, [Next]_vars
    PROVE  NotifyOK'
<1>0. TurnsTyped
  BY DEF ActorsTyped
<1>1. UNCHANGED <<turn, byUser>> => NotifyOK'
  BY DEF NotifyOK
<1>2. ASSUME NEW q \in Reqs, RegisterAndSpawn(q) PROVE NotifyOK'
  <2>1. req[q].msg \in Msgs
    BY <1>2 DEF RegisterAndSpawn, ActorsTyped, ReqsTyped, ReqOK
  <2>2. PICK r \in Runs, w \in {"Message", "Answer"} :
           turn' = [turn EXCEPT ![r] = NewTurn(req[q].msg, w)] /\ byUser' = byUser \ {r}
    BY <1>2 DEF RegisterAndSpawn
  <2> QED BY <1>0, <2>1, <2>2, NewTurnSilent, TellOne
<1>3. ASSUME NEW q \in Reqs, CreateMessage(q) \/ WriteAnswer(q) PROVE NotifyOK'
  BY <1>1, <1>3 DEF CreateMessage, WriteAnswer
<1>4. ASSUME NEW q \in Reqs, Flip(q) PROVE NotifyOK'
  <2>1. req[q].msg \in Msgs
    BY <1>4 DEF Flip, ActorsTyped, ReqsTyped, ReqOK
  <2>2. ASSUME NEW r \in Runs, turn' = [turn EXCEPT ![r] = NewTurn(req[q].msg, "Answer")],
               byUser' = byUser
        PROVE  NotifyOK'
    BY <1>0, <2>1, <2>2, NewTurnSilent, TellOne
  <2> QED BY <1>1, <1>4, <2>2 DEF Flip
<1>5. ASSUME NEW m \in Msgs, SpawnResumed(m) PROVE NotifyOK'
  BY <1>0, <1>5, NewTurnSilent, TellOne DEF SpawnResumed
<1>6. ASSUME NEW q \in Reqs, NEW m \in Msgs,
             \/ SendMessage(q, m)
             \/ \E k \in Calls, how \in {"Http", "Channel"} : Answer(q, m, k, how)
      PROVE  NotifyOK'
  BY <1>1, <1>6 DEF SendMessage, Answer
<1>7. ASSUME NEW m \in Msgs, NEW k \in Calls, ResolveUntyped(m, k) PROVE NotifyOK'
  BY <1>1, <1>7 DEF ResolveUntyped
<1>8. ASSUME NEW c \in Chats, Stop(c) PROVE NotifyOK'
  BY <1>8 DEF Stop, NotifyOK
<1>9. CASE Crash
  BY <1>9 DEF Crash, NotifyOK, Telling, IdleTurn
<1>10. CASE Restart \/ FindExecuting \/ UNCHANGED vars
  BY <1>1, <1>10 DEF Restart, FindExecuting, vars
<1> QED
  BY <1>2, <1>3, <1>4, <1>5, <1>6, <1>7, <1>8, <1>9, <1>10, TurnStepTells DEF Next, Serve

(* finalize tells the client only what a user did: asking is_current is enough    *)
(* to tell a Stop from the arrival of a second message, at any interleaving.      *)
THEOREM SupersededStaysSilent == Spec => []SupersededIsSilent
<1>1. Init => FiredByUser /\ NotifyOK
  BY DEF Init, AS!Init, FiredByUser, NotifyOK, Telling, IdleTurn
<1>2. Spec => []FiredByUser
  BY <1>1, FiredStep, ActorsInvariant, SessionsInvariant, PTL DEF Spec
<1>3. Spec => []NotifyOK
  BY <1>1, <1>2, NotifyStep, ActorsInvariant, PTL DEF Spec
<1>4. NotifyOK => SupersededIsSilent
  BY DEF NotifyOK, Telling, SupersededIsSilent
<1> QED BY <1>3, <1>4, PTL

-----------------------------------------------------------------------------
RestTyped ==
    /\ message \in [Msgs -> MessageStatus]
    /\ call \in [Msgs -> [Calls -> {"None", "Pending", "Resolved"}]]
    /\ scan \in BOOLEAN /\ up \in BOOLEAN /\ raced \subseteq Msgs
    /\ open \subseteq Msgs /\ byUser \subseteq Runs
    /\ left \in [Bounds -> Nat]

LEMMA SetMessageTyped ==
    ASSUME message \in [Msgs -> MessageStatus], NEW m \in Msgs, NEW s \in MessageStatus,
           SetMessage(m, s)
    PROVE  message' \in [Msgs -> MessageStatus]
  BY DEF SetMessage

LEMMA RestStep ==
    ASSUME ActorsTyped, AS!SessionInv, RestTyped, [Next]_vars
    PROVE  RestTyped'
<1>0. /\ \A r \in Runs : turn[r].pc # "Idle" => turn[r].msg \in Msgs
      /\ \A q \in Reqs : req[q].pc # "Idle" => req[q].msg \in Msgs /\ req[q] \in Req
      /\ \A c \in Chats : AS!Replaced(c) \subseteq Runs
  BY DEF ActorsTyped, TurnsTyped, ReqsTyped, TurnOK, ReqOK, AS!SessionInv, AS!TypeOK,
         AS!Replaced, AS!Entry, AS!NoEntry
<1>a. ASSUME NEW b \in Bounds, Use(b) PROVE left' \in [Bounds -> Nat]
  BY <1>a DEF Use, RestTyped
<1> USE DEF Working, boot
<1>1. ASSUME NEW q \in Reqs, RegisterAndSpawn(q) \/ CreateMessage(q) PROVE RestTyped'
  BY <1>0, <1>1, SetMessageTyped DEF RegisterAndSpawn, CreateMessage, RestTyped, MessageStatus
<1>2. ASSUME NEW q \in Reqs, WriteAnswer(q) PROVE RestTyped'
  BY <1>2 DEF WriteAnswer, RestTyped
<1>3. ASSUME NEW q \in Reqs, Flip(q) PROVE RestTyped'
  BY <1>0, <1>3, SetMessageTyped DEF Flip, RestTyped, MessageStatus
<1>4. ASSUME NEW r \in Runs, NEW k \in Calls, AskHuman(r, k) PROVE RestTyped'
  <2>1. left' \in [Bounds -> Nat]
    BY <1>a, <1>4 DEF AskHuman, Bounds
  <2> QED BY <1>4, <2>1 DEF AskHuman, RestTyped
<1>5. ASSUME NEW r \in Runs,
             \/ RegisterSelf(r) \/ BeginTurn(r) \/ ReturnReply(r) \/ ReturnPending(r)
             \/ ReturnCancelled(r) \/ Notify(r) \/ RemoveSession(r)
      PROVE  RestTyped'
  BY <1>5 DEF RegisterSelf, BeginTurn, ReturnReply, ReturnPending, ReturnCancelled, Notify,
              RemoveSession, RestTyped
<1>6. ASSUME NEW r \in Runs,
             FailTurn(r) \/ CompleteMessage(r) \/ PauseMessage(r) \/ CancelMessage(r)
      PROVE  RestTyped'
  <2>1. turn[r].msg \in Msgs /\ message' \in [Msgs -> MessageStatus]
    BY <1>0, <1>6, SetMessageTyped
    DEF FailTurn, CompleteMessage, PauseMessage, CancelMessage, RestTyped, MessageStatus
  <2> QED
    BY <1>6, <2>1 DEF FailTurn, CompleteMessage, PauseMessage, CancelMessage, RestTyped
<1>7. ASSUME NEW q \in Reqs, NEW m \in Msgs,
             \/ SendMessage(q, m)
             \/ \E k \in Calls, how \in {"Http", "Channel"} : Answer(q, m, k, how)
      PROVE  RestTyped'
  BY <1>7 DEF SendMessage, Answer, RestTyped
<1>8. ASSUME NEW m \in Msgs, SpawnResumed(m) PROVE RestTyped'
  BY <1>8 DEF SpawnResumed, RestTyped
<1>9. ASSUME NEW m \in Msgs, NEW k \in Calls, ResolveUntyped(m, k) PROVE RestTyped'
  <2>1. left' \in [Bounds -> Nat]
    BY <1>a, <1>9 DEF ResolveUntyped, Bounds
  <2> QED BY <1>9, <2>1 DEF ResolveUntyped, RestTyped
<1>10. ASSUME NEW c \in Chats, Stop(c) PROVE RestTyped'
  <2>1. left' \in [Bounds -> Nat]
    BY <1>a, <1>10 DEF Stop, Bounds
  <2> QED BY <1>0, <1>10, <2>1 DEF Stop, RestTyped
<1>11. CASE Crash
  <2>1. left' \in [Bounds -> Nat]
    BY <1>a, <1>11 DEF Crash, Bounds
  <2> QED BY <1>11, <2>1 DEF Crash, RestTyped
<1>12. CASE Restart \/ FindExecuting \/ UNCHANGED vars
  BY <1>12 DEF Restart, FindExecuting, vars, RestTyped
<1> QED
  BY <1>1, <1>2, <1>3, <1>4, <1>5, <1>6, <1>7, <1>8, <1>9, <1>10, <1>11, <1>12
  DEF Next, Serve, TurnStep

LEMMA InitRest == Init => RestTyped
<1>1. /\ Limit("asks") = MaxAsks /\ Limit("stops") = MaxStops
      /\ Limit("untyped") = MaxUntyped /\ Limit("crashes") = MaxCrashes
  BY DEF Limit
<1>2. [b \in Bounds |-> Limit(b)] \in [Bounds -> Nat]
  BY <1>1 DEF Bounds
<1>3. Init => left \in [Bounds -> Nat]
  BY <1>2 DEF Init
<1>4. Init => message \in [Msgs -> MessageStatus]
  BY DEF Init, MessageStatus
<1>5. Init => call \in [Msgs -> [Calls -> {"None", "Pending", "Resolved"}]]
  BY DEF Init
<1> QED BY <1>3, <1>4, <1>5 DEF Init, RestTyped

RestTypes == ActorsTyped /\ RestTyped
LEMMA RestInvariant == Spec => []RestTypes
<1>1. Spec => []RestTyped
  BY InitRest, RestStep, ActorsInvariant, SessionsInvariant, PTL DEF Spec
<1> QED BY <1>1, ActorsInvariant, PTL DEF RestTypes

(* Type correctness of the turns, their requests and the registry they share.     *)
THEOREM TypeCorrect == Spec => []TypeOK
<1>1. RestTypes /\ AS!SessionInv => TypeOK
  BY DEF RestTypes, ActorsTyped, TurnsTyped, ReqsTyped, AS!SessionInv, RestTyped, TypeOK
<1> QED BY <1>1, RestInvariant, SessionsInvariant, PTL

-----------------------------------------------------------------------------
(* What a step of a turn does to the messages: it keeps the turn on its message, *)
(* asks only while it works, and writes the outcome, which is never Executing,    *)
(* as the last thing it does as the message's turn.                               *)
OnlyTurn(r) ==
    LET m == turn[r].msg IN
    /\ \A s \in Runs \ {r} : turn'[s] = turn[s]
    /\ turn'[r].msg = m \/ turn'[r] = IdleTurn
    /\ turn'[r].pc \in Holding => turn[r].pc \in Holding
    /\ turn'[r].pc = "Spawned" => turn'[r] = turn[r]
    /\ req' = req /\ booting' = booting /\ raced' = raced
    /\ \/ message' = message
       \/ /\ turn[r].pc \in Holding /\ turn'[r].pc \notin Holding
          /\ \E s \in {"Completed", "Failed", "Paused", "Cancelled"} : SetMessage(m, s)
    /\ \/ call' = call
       \/ turn[r].pc \in Working /\ \E k \in Calls : call' = [call EXCEPT ![m][k] = "Pending"]

LEMMA TurnPlace ==
    ASSUME ActorsTyped, NEW r \in Runs
    PROVE  /\ \A p : Goto(r, p) => /\ turn'[r].pc = p /\ turn'[r].msg = turn[r].msg
                                   /\ \A s \in Runs \ {r} : turn'[s] = turn[s]
           /\ \A b : turn' = [turn EXCEPT ![r].pc = "Cancelling", ![r].notify = b] =>
                        /\ turn'[r].pc = "Cancelling" /\ turn'[r].msg = turn[r].msg
                        /\ \A s \in Runs \ {r} : turn'[s] = turn[s]
<1>1. turn[r] \in Turn /\ turn \in [Runs -> Turn]
  BY DEF ActorsTyped, TurnsTyped
<1>2. ASSUME NEW p, Goto(r, p)
      PROVE  /\ turn'[r].pc = p /\ turn'[r].msg = turn[r].msg
             /\ \A s \in Runs \ {r} : turn'[s] = turn[s]
  BY <1>1, <1>2 DEF Goto, Turn
<1>3. ASSUME NEW b, turn' = [turn EXCEPT ![r].pc = "Cancelling", ![r].notify = b]
      PROVE  /\ turn'[r].pc = "Cancelling" /\ turn'[r].msg = turn[r].msg
             /\ \A s \in Runs \ {r} : turn'[s] = turn[s]
  BY <1>1, <1>3 DEF Turn
<1> QED BY <1>2, <1>3

LEMMA TurnStepOnly ==
    ASSUME ActorsTyped, NEW r \in Runs, TurnStep(r)
    PROVE  OnlyTurn(r)
<1>1. turn \in [Runs -> Turn] /\ IdleTurn.pc = "Idle"
  BY DEF ActorsTyped, TurnsTyped, IdleTurn
<1>2. \A p : Goto(r, p) => /\ turn'[r].pc = p /\ turn'[r].msg = turn[r].msg
                           /\ \A s \in Runs \ {r} : turn'[s] = turn[s]
  BY TurnPlace
<1> USE DEF Holding, Working, boot
<1>3. CASE RegisterSelf(r)
  BY <1>3 DEF RegisterSelf, OnlyTurn
<1>4. CASE BeginTurn(r) \/ ReturnReply(r) \/ ReturnPending(r) \/ Notify(r)
  BY <1>2, <1>4 DEF BeginTurn, ReturnReply, ReturnPending, Notify, OnlyTurn
<1>5. ASSUME NEW k \in Calls, AskHuman(r, k) PROVE OnlyTurn(r)
  <2>1. /\ turn[r].pc \in Working /\ call' = [call EXCEPT ![turn[r].msg][k] = "Pending"]
        /\ Goto(r, "Asking")
        /\ message' = message /\ req' = req /\ booting' = booting /\ raced' = raced
    BY <1>5 DEF AskHuman
  <2>2. /\ turn'[r].pc = "Asking" /\ turn'[r].msg = turn[r].msg
        /\ \A s \in Runs \ {r} : turn'[s] = turn[s]
    BY <1>2, <2>1
  <2>3. turn[r].pc \in Working /\ \E j \in Calls :
           call' = [call EXCEPT ![turn[r].msg][j] = "Pending"]
    BY <2>1
  <2>4. turn[r].pc \in Holding /\ turn'[r].pc # "Spawned"
    BY <2>1, <2>2
  <2> QED BY <2>1, <2>2, <2>3, <2>4 DEF OnlyTurn
<1>6. CASE ReturnCancelled(r)
  BY <1>6, TurnPlace DEF ReturnCancelled, OnlyTurn
<1>7. CASE FailTurn(r) \/ CompleteMessage(r) \/ PauseMessage(r)
  BY <1>2, <1>7 DEF FailTurn, CompleteMessage, PauseMessage, OnlyTurn
<1>8. CASE CancelMessage(r)
  BY <1>2, <1>8 DEF CancelMessage, OnlyTurn
<1>9. CASE RemoveSession(r)
  BY <1>1, <1>9 DEF RemoveSession, OnlyTurn
<1> QED BY <1>3, <1>4, <1>5, <1>6, <1>7, <1>8, <1>9 DEF TurnStep

LEMMA NewReqs ==
    ASSUME ActorsTyped, NEW q \in Reqs
    PROVE  /\ \A p : GotoReq(q, p) =>
                /\ req'[q].pc = p /\ req'[q].msg = req[q].msg /\ req'[q].call = req[q].call
                /\ \A s \in Reqs \ {q} : req'[s] = req[s]
           /\ Drop(q) => req'[q] = IdleReq /\ \A s \in Reqs \ {q} : req'[s] = req[s]
<1>1. req[q] \in Req /\ req \in [Reqs -> Req]
  BY DEF ActorsTyped, ReqsTyped
<1>2. ASSUME NEW p, GotoReq(q, p)
      PROVE  /\ req'[q].pc = p /\ req'[q].msg = req[q].msg /\ req'[q].call = req[q].call
             /\ \A s \in Reqs \ {q} : req'[s] = req[s]
  BY <1>1, <1>2 DEF GotoReq, Req
<1>3. Drop(q) => req'[q] = IdleReq /\ \A s \in Reqs \ {q} : req'[s] = req[s]
  BY <1>1 DEF Drop
<1> QED BY <1>2, <1>3

-----------------------------------------------------------------------------
(* Messages that do not exist yet: only the request that creates one knows it,   *)
(* it has no question, and no turn or restart is at it.                          *)
CreateOK ==
    \A q \in Reqs : req[q].pc = "Creating" =>
       /\ message[req[q].msg] = "Unused" /\ req[q].call = 0
       /\ \A p \in Reqs : req[p].msg = req[q].msg => p = q
UnusedOK ==
    \A m \in Msgs : message[m] = "Unused" =>
       /\ Pending(m) = {} /\ m \notin booting
       /\ \A r \in Runs : turn[r].msg # m
       /\ \A q \in Reqs : req[q].msg = m => req[q].pc = "Creating"
FreshOK == CreateOK /\ UnusedOK

LEMMA FreshTurn ==
    ASSUME RestTypes, FreshOK, NEW r \in Runs, TurnStep(r)
    PROVE  FreshOK'
<1>1. OnlyTurn(r)
  BY TurnStepOnly DEF RestTypes
<1>2. /\ message \in [Msgs -> MessageStatus]
      /\ call \in [Msgs -> [Calls -> {"None", "Pending", "Resolved"}]]
      /\ \A q \in Reqs : req[q].pc # "Idle" => req[q].msg \in Msgs
      /\ IdleTurn.msg = NoMsg
  BY DEF RestTypes, RestTyped, ActorsTyped, ReqsTyped, ReqOK, IdleTurn
<1>3. ASSUME NEW m \in Msgs, message[m] = "Unused"
      PROVE  turn[r].msg # m /\ message'[m] = "Unused" /\ call'[m] = call[m]
  <2>1. turn[r].msg # m
    BY <1>3 DEF FreshOK, UnusedOK
  <2> QED BY <1>1, <1>2, <1>3, <2>1 DEF OnlyTurn, SetMessage
<1>4. ASSUME NEW m \in Msgs, message'[m] = "Unused" PROVE message[m] = "Unused"
  BY <1>1, <1>2, <1>4 DEF OnlyTurn, SetMessage
<1>5. CreateOK'
  BY <1>1, <1>2, <1>3 DEF OnlyTurn, FreshOK, CreateOK
<1>6. UnusedOK'
  <2> SUFFICES ASSUME NEW m \in Msgs, message'[m] = "Unused"
               PROVE  /\ Pending(m)' = {} /\ m \notin booting'
                      /\ \A s \in Runs : turn'[s].msg # m
                      /\ \A q \in Reqs : req'[q].msg = m => req'[q].pc = "Creating"
    BY DEF UnusedOK, Pending
  <2>1. /\ Pending(m) = {} /\ m \notin booting
        /\ \A s \in Runs : turn[s].msg # m
        /\ \A q \in Reqs : req[q].msg = m => req[q].pc = "Creating"
        /\ call'[m] = call[m]
    BY <1>3, <1>4 DEF FreshOK, UnusedOK
  <2>2. Pending(m)' = {}
    BY <2>1 DEF Pending
  <2>3. \A s \in Runs : turn'[s].msg # m
    BY <1>1, <1>2, <2>1 DEF OnlyTurn
  <2>4. booting' = booting /\ req' = req
    BY <1>1 DEF OnlyTurn
  <2> QED BY <2>1, <2>2, <2>3, <2>4
<1> QED BY <1>5, <1>6 DEF FreshOK

(* A turn that is spawned for message m, because of w.                          *)
SpawnsTurn(m, w) == \E r \in Runs : /\ turn[r].pc = "Idle"
                                    /\ turn' = [turn EXCEPT ![r] = NewTurn(m, w)]
Taken(r, m, w) == /\ turn[r].pc = "Idle"
                  /\ turn'[r].pc = "Spawned" /\ turn'[r].msg = m /\ turn'[r].why = w
                  /\ \A s \in Runs \ {r} : turn'[s] = turn[s]

LEMMA SpawnTakes ==
    ASSUME ActorsTyped, NEW m \in Msgs, NEW w \in {"Message", "Answer", "Boot"},
           SpawnsTurn(m, w)
    PROVE  \E r \in Runs : Taken(r, m, w)
<1>1. NewTurn(m, w).pc = "Spawned" /\ NewTurn(m, w).msg = m /\ NewTurn(m, w).why = w
  BY DEF NewTurn, IdleTurn
<1> QED BY <1>1 DEF SpawnsTurn, Taken, ActorsTyped, TurnsTyped

LEMMA FreshKept ==
    ASSUME RestTypes, FreshOK,
           \A m \in Msgs : message'[m] = "Unused" =>
              /\ message[m] = "Unused" /\ call'[m] = call[m]
              /\ m \in booting' => m \in booting
              /\ \A r \in Runs : turn'[r].msg = m => turn[r].msg = m,
           \A q \in Reqs :
              \/ req'[q] = req[q]
              \/ req'[q] = IdleReq
              \/ /\ req'[q].pc # "Creating" /\ req'[q].msg \in Msgs
                 /\ message'[req'[q].msg] # "Unused",
           \A q \in Reqs : req'[q].pc = "Creating" => message'[req[q].msg] = "Unused"
    PROVE  FreshOK'
<1>1. IdleReq.pc = "Idle" /\ IdleReq.msg = NoMsg
  BY DEF IdleReq
<1>2. \A q \in Reqs : req[q].pc # "Idle" => req[q].msg \in Msgs
  BY DEF RestTypes, ActorsTyped, ReqsTyped, ReqOK
<1>3. CreateOK'
  <2> SUFFICES ASSUME NEW q \in Reqs, req'[q].pc = "Creating"
               PROVE  /\ message'[req'[q].msg] = "Unused" /\ req'[q].call = 0
                      /\ \A p \in Reqs : req'[p].msg = req'[q].msg => p = q
    BY DEF CreateOK
  <2>1. req'[q] = req[q] /\ message'[req[q].msg] = "Unused" /\ req[q].msg \in Msgs
    BY <1>1, <1>2
  <2>2. req[q].call = 0 /\ \A p \in Reqs : req[p].msg = req[q].msg => p = q
    BY <2>1 DEF FreshOK, CreateOK
  <2> QED BY <1>1, <2>1, <2>2
<1>4. UnusedOK'
  <2> SUFFICES ASSUME NEW m \in Msgs, message'[m] = "Unused"
               PROVE  /\ Pending(m)' = {} /\ m \notin booting'
                      /\ \A r \in Runs : turn'[r].msg # m
                      /\ \A q \in Reqs : req'[q].msg = m => req'[q].pc = "Creating"
    BY DEF UnusedOK, Pending
  <2>1. /\ Pending(m) = {} /\ m \notin booting
        /\ \A r \in Runs : turn[r].msg # m
        /\ \A q \in Reqs : req[q].msg = m => req[q].pc = "Creating"
    BY DEF FreshOK, UnusedOK
  <2>2. Pending(m)' = {}
    BY <2>1 DEF Pending
  <2>3. \A q \in Reqs : req'[q].msg = m => req'[q].pc = "Creating"
    BY <1>1, <2>1
  <2> QED BY <2>1, <2>2, <2>3
<1> QED BY <1>3, <1>4 DEF FreshOK

LEMMA FreshServe ==
    ASSUME RestTypes, FreshOK, NEW q \in Reqs, Serve(q)
    PROVE  FreshOK'
<1> DEFINE m == req[q].msg
<1>1. ActorsTyped /\ message \in [Msgs -> MessageStatus]
      /\ call \in [Msgs -> [Calls -> {"None", "Pending", "Resolved"}]]
  BY DEF RestTypes, RestTyped
<1>2. m \in Msgs /\ req[q].pc # "Idle"
  BY <1>1 DEF Serve, CreateMessage, RegisterAndSpawn, WriteAnswer, Flip, ActorsTyped,
              ReqsTyped, ReqOK
<1>3. /\ \A p : GotoReq(q, p) =>
            /\ req'[q].pc = p /\ req'[q].msg = m /\ req'[q].call = req[q].call
            /\ \A s \in Reqs \ {q} : req'[s] = req[s]
      /\ Drop(q) => req'[q] = IdleReq /\ \A s \in Reqs \ {q} : req'[s] = req[s]
  BY <1>1, NewReqs
<1>4. IdleReq.pc = "Idle"
  BY DEF IdleReq
<1>5. \A p \in Reqs : req[p].pc = "Creating" =>
         /\ message[req[p].msg] = "Unused" /\ req[p].msg \in Msgs
         /\ \A s \in Reqs : req[s].msg = req[p].msg => s = p
  BY <1>1 DEF FreshOK, CreateOK, ActorsTyped, ReqsTyped, ReqOK
<1>6. req[q].pc # "Creating" => message[m] # "Unused"
  BY <1>2 DEF FreshOK, UnusedOK
<1> USE DEF boot
<1>7. CASE CreateMessage(q)
  <2>1. message' = [message EXCEPT ![m] = "Executing"] /\ UNCHANGED <<call, turn, booting>>
    BY <1>7 DEF CreateMessage, SetMessage
  <2>2. req'[q].pc = "Registering" /\ req'[q].msg = m /\ \A s \in Reqs \ {q} : req'[s] = req[s]
    BY <1>3, <1>7 DEF CreateMessage
  <2> QED BY <1>1, <1>2, <1>5, <2>1, <2>2, FreshKept
<1>8. CASE RegisterAndSpawn(q)
  <2>1. UNCHANGED <<message, call, booting>> /\ Drop(q) /\ message[m] # "Unused"
    BY <1>6, <1>8 DEF RegisterAndSpawn
  <2>2. PICK w \in {"Message", "Answer"} : SpawnsTurn(m, w)
    BY <1>8 DEF RegisterAndSpawn, SpawnsTurn
  <2>3. PICK r \in Runs : Taken(r, m, w)
    BY <1>1, <1>2, <2>2, SpawnTakes
  <2> QED BY <1>3, <1>4, <1>5, <2>1, <2>3, FreshKept DEF Taken
<1>9. CASE WriteAnswer(q)
  <2>1. UNCHANGED <<message, turn, booting>> /\ message[m] # "Unused"
    BY <1>6, <1>9 DEF WriteAnswer
  <2>2. \A n \in Msgs : n # m => call'[n] = call[n]
    BY <1>1, <1>9 DEF WriteAnswer
  <2>3. Drop(q) \/ GotoReq(q, "Flipping")
    BY <1>9 DEF WriteAnswer
  <2> QED BY <1>2, <1>3, <1>4, <1>5, <2>1, <2>2, <2>3, FreshKept
<1>10. CASE Flip(q)
  <2>1. /\ UNCHANGED <<call, booting>> /\ message[m] # "Unused"
        /\ Drop(q) \/ GotoReq(q, "Registering")
        /\ message' = message \/ message' = [message EXCEPT ![m] = "Executing"]
        /\ turn' = turn \/ SpawnsTurn(m, "Answer")
    BY <1>6, <1>10 DEF Flip, SetMessage, SpawnsTurn
  <2>2. \A n \in Msgs : /\ n # m => message'[n] = message[n]
                        /\ message'[m] # "Unused"
    BY <1>1, <1>2, <2>1
  <2>3. \A n \in Msgs \ {m}, r \in Runs : turn'[r].msg = n => turn[r].msg = n
    <3>1. ASSUME SpawnsTurn(m, "Answer")
          PROVE  \A n \in Msgs \ {m}, r \in Runs : turn'[r].msg = n => turn[r].msg = n
      <4>1. PICK s \in Runs : Taken(s, m, "Answer")
        BY <1>1, <1>2, <3>1, SpawnTakes
      <4> QED BY <4>1 DEF Taken
    <3> QED BY <2>1, <3>1
  <2>4. /\ \A s \in Reqs \ {q} : req'[s] = req[s]
        /\ \/ req'[q] = IdleReq
           \/ req'[q].pc = "Registering" /\ req'[q].msg = m
    BY <1>3, <2>1
  <2>5. \A s \in Reqs : \/ req'[s] = req[s] \/ req'[s] = IdleReq
                       \/ /\ req'[s].pc # "Creating" /\ req'[s].msg \in Msgs
                          /\ message'[req'[s].msg] # "Unused"
    BY <1>2, <2>2, <2>4
  <2>6. ASSUME NEW s \in Reqs, req'[s].pc = "Creating"
        PROVE  message'[req[s].msg] = "Unused"
    <3>1. s # q /\ req[s].pc = "Creating"
      BY <1>4, <2>4, <2>6
    <3>2. message[req[s].msg] = "Unused" /\ req[s].msg \in Msgs
      BY <1>5, <3>1
    <3> QED BY <2>1, <2>2, <3>2
  <2>7. \A n \in Msgs : message'[n] = "Unused" =>
           /\ message[n] = "Unused" /\ call'[n] = call[n]
           /\ n \in booting' => n \in booting
           /\ \A r \in Runs : turn'[r].msg = n => turn[r].msg = n
    BY <2>1, <2>2, <2>3
  <2> QED BY <2>5, <2>6, <2>7, FreshKept
<1> QED BY <1>7, <1>8, <1>9, <1>10 DEF Serve

LEMMA FreshStep ==
    ASSUME RestTypes, FreshOK, [Next]_vars
    PROVE  FreshOK'
<1>1. /\ ActorsTyped /\ message \in [Msgs -> MessageStatus]
      /\ call \in [Msgs -> [Calls -> {"None", "Pending", "Resolved"}]]
      /\ req \in [Reqs -> Req]
      /\ \A q \in Reqs : req[q].pc # "Idle" => req[q].msg \in Msgs
  BY DEF RestTypes, RestTyped, ActorsTyped, ReqsTyped, ReqOK
<1>2. \A p \in Reqs : req[p].pc = "Creating" => message[req[p].msg] = "Unused"
  BY DEF FreshOK, CreateOK
<1>3. IdleReq.pc = "Idle" /\ IdleReq.msg = NoMsg /\ IdleReq.call = 0 /\ IdleTurn.msg = NoMsg
  BY DEF IdleReq, IdleTurn
<1> USE DEF boot
<1>4. ASSUME NEW q \in Reqs, NEW m \in Msgs, SendMessage(q, m) PROVE FreshOK'
  <2> DEFINE x == [IdleReq EXCEPT !.pc = "Creating", !.msg = m]
  <2>1. x.pc = "Creating" /\ x.msg = m /\ x.call = 0
    BY DEF IdleReq
  <2>2. /\ req'[q].pc = "Creating" /\ req'[q].msg = m /\ req'[q].call = 0
        /\ \A s \in Reqs \ {q} : req'[s] = req[s]
    BY <1>1, <1>4, <2>1 DEF SendMessage
  <2>3. /\ UNCHANGED <<message, call, turn, booting>>
        /\ message[m] = "Unused" /\ \A p \in Reqs : req[p].msg # m
    BY <1>4 DEF SendMessage
  <2>4. CreateOK'
    BY <2>2, <2>3 DEF FreshOK, CreateOK
  <2>5. UnusedOK'
    BY <2>2, <2>3 DEF FreshOK, UnusedOK, Pending
  <2> QED BY <2>4, <2>5 DEF FreshOK
<1>5. ASSUME NEW q \in Reqs, NEW m \in Msgs, NEW k \in Calls, NEW how,
             Answer(q, m, k, how)
      PROVE  FreshOK'
  <2>1. /\ req'[q].pc = "Resuming" /\ req'[q].msg = m
        /\ \A s \in Reqs \ {q} : req'[s] = req[s]
        /\ UNCHANGED <<message, call, turn, booting>> /\ k \in Pending(m)
    BY <1>1, <1>5 DEF Answer, Pending
  <2>2. message[m] # "Unused"
    BY <2>1 DEF FreshOK, UnusedOK
  <2> QED BY <1>2, <2>1, <2>2, FreshKept
<1>6. ASSUME NEW m \in Msgs, NEW k \in Calls, ResolveUntyped(m, k) PROVE FreshOK'
  <2>1. UNCHANGED <<message, turn, req, booting>> /\ k \in Pending(m)
    BY <1>6 DEF ResolveUntyped, Pending
  <2>2. message[m] # "Unused" /\ \A n \in Msgs : n # m => call'[n] = call[n]
    BY <1>1, <1>6, <2>1 DEF ResolveUntyped, FreshOK, UnusedOK
  <2> QED BY <1>2, <2>1, <2>2, FreshKept
<1>7. ASSUME NEW m \in Msgs, SpawnResumed(m) PROVE FreshOK'
  <2>1. UNCHANGED <<message, call, req>> /\ booting' \subseteq booting /\ m \in booting
    BY <1>7 DEF SpawnResumed
  <2>2. message[m] # "Unused"
    BY <2>1 DEF FreshOK, UnusedOK
  <2>3. PICK r \in Runs : Taken(r, m, "Boot")
    BY <1>1, <1>7, SpawnTakes DEF SpawnResumed, SpawnsTurn
  <2> QED BY <1>2, <2>1, <2>2, <2>3, FreshKept DEF Taken
<1>8. CASE Crash
  BY <1>2, <1>3, <1>8, FreshKept DEF Crash
<1>9. CASE FindExecuting
  BY <1>2, <1>9, FreshKept DEF FindExecuting
<1>10. CASE Restart \/ UNCHANGED vars \/ \E c \in Chats : Stop(c)
  BY <1>2, <1>10, FreshKept DEF Restart, vars, Stop
<1> QED
  BY <1>4, <1>5, <1>6, <1>7, <1>8, <1>9, <1>10, FreshTurn, FreshServe DEF Next

LEMMA FreshInvariant == Spec => []FreshOK
<1>1. Init => FreshOK
  BY DEF Init, FreshOK, CreateOK, UnusedOK, Pending, IdleReq, IdleTurn
<1> QED BY <1>1, FreshStep, RestInvariant, PTL DEF Spec

-----------------------------------------------------------------------------
(* Who is at a message.  A turn that has still to write how it ended, a request   *)
(* that has flipped the message and will spawn the turn, a restart that found it:  *)
(* there is at most one of them, and the message is executing as long.             *)
HeldOnce(m) ==
    /\ \/ \E r \in Runs : Holds(r, m)
       \/ \E q \in Reqs : Starts(q, m)
       \/ m \in booting
       => message[m] = "Executing"
    /\ \A r, s \in Runs : Holds(r, m) /\ Holds(s, m) => r = s
    /\ \A p, q \in Reqs : Starts(p, m) /\ Starts(q, m) => p = q
    /\ \A r \in Runs, q \in Reqs : ~(Holds(r, m) /\ Starts(q, m))
    /\ m \in booting => /\ \A r \in Runs : ~Holds(r, m)
                        /\ \A q \in Reqs : ~Starts(q, m)
HeldOK == \A m \in Msgs \ raced : HeldOnce(m)

LEMMA HeldKept ==
    ASSUME NEW m \in Msgs, HeldOnce(m), message'[m] = message[m],
           \A r \in Runs : Holds(r, m)' => Holds(r, m),
           \A q \in Reqs : Starts(q, m)' => Starts(q, m),
           m \in booting' => m \in booting
    PROVE  HeldOnce(m)'
  BY DEF HeldOnce

LEMMA HeldTurn ==
    ASSUME RestTypes, HeldOK, NEW r \in Runs, TurnStep(r)
    PROVE  HeldOK'
<1>1. OnlyTurn(r)
  BY TurnStepOnly DEF RestTypes
<1>2. IdleTurn.pc \notin Holding /\ message \in [Msgs -> MessageStatus]
  BY DEF IdleTurn, Holding, Working, RestTypes, RestTyped
<1>3. ASSUME NEW m \in Msgs PROVE \A s \in Runs : Holds(s, m)' => Holds(s, m)
  BY <1>1, <1>2 DEF OnlyTurn, Holds
<1>4. ASSUME NEW m \in Msgs PROVE \A q \in Reqs : Starts(q, m)' => Starts(q, m)
  BY <1>1 DEF OnlyTurn, Starts
<1> SUFFICES ASSUME NEW m \in Msgs \ raced, HeldOnce(m) PROVE HeldOnce(m)'
  BY <1>1 DEF OnlyTurn, HeldOK
<1>5. CASE message'[m] = message[m]
  BY <1>1, <1>3, <1>4, <1>5, HeldKept DEF OnlyTurn
<1>6. CASE message'[m] # message[m]
  <2>1. turn[r].msg = m /\ turn[r].pc \in Holding /\ turn'[r].pc \notin Holding
    BY <1>1, <1>2, <1>6 DEF OnlyTurn, SetMessage
  <2>2. Holds(r, m) /\ ~Holds(r, m)'
    BY <2>1 DEF Holds
  <2>3. \A s \in Runs : ~Holds(s, m)'
    BY <1>3, <2>2 DEF HeldOnce
  <2>4. (\A q \in Reqs : ~Starts(q, m)') /\ m \notin booting'
    BY <1>1, <1>4, <2>2 DEF OnlyTurn, HeldOnce
  <2> QED BY <2>3, <2>4 DEF HeldOnce
<1> QED BY <1>5, <1>6

LEMMA HeldServe ==
    ASSUME RestTypes, FreshOK, HeldOK, NEW q \in Reqs, Serve(q)
    PROVE  HeldOK'
<1> DEFINE m == req[q].msg
<1>1. ActorsTyped /\ message \in [Msgs -> MessageStatus]
  BY DEF RestTypes, RestTyped
<1>2. m \in Msgs
  BY <1>1 DEF Serve, CreateMessage, RegisterAndSpawn, WriteAnswer, Flip, ActorsTyped,
              ReqsTyped, ReqOK
<1>3. /\ \A p : GotoReq(q, p) => /\ req'[q].pc = p /\ req'[q].msg = m
                                 /\ \A s \in Reqs \ {q} : req'[s] = req[s]
      /\ Drop(q) => req'[q].pc = "Idle" /\ \A s \in Reqs \ {q} : req'[s] = req[s]
  BY <1>1, NewReqs DEF IdleReq
<1>4. UNCHANGED <<booting, raced>>
  BY DEF Serve, CreateMessage, RegisterAndSpawn, WriteAnswer, Flip, boot
<1> SUFFICES ASSUME NEW n \in Msgs, n \notin raced, HeldOnce(n) PROVE HeldOnce(n)'
  BY <1>4 DEF HeldOK
<1>5. CASE CreateMessage(q)
  <2>1. message' = [message EXCEPT ![m] = "Executing"] /\ turn' = turn
    BY <1>5 DEF CreateMessage, SetMessage
  <2>2. /\ req'[q].pc = "Registering" /\ req'[q].msg = m
        /\ \A s \in Reqs \ {q} : req'[s] = req[s]
    BY <1>3, <1>5 DEF CreateMessage
  <2>3. CASE n = m
    <3>1. message[n] = "Unused"
      BY <1>5, <2>3 DEF CreateMessage, FreshOK, CreateOK
    <3>2. /\ n \notin booting'
          /\ \A r \in Runs : ~Holds(r, n)'
          /\ \A s \in Reqs \ {q} : ~Starts(s, n)'
      BY <1>4, <2>1, <2>2, <3>1 DEF HeldOnce, Holds, Starts
    <3> QED BY <1>1, <1>2, <2>1, <2>3, <3>2 DEF HeldOnce
  <2>4. CASE n # m
    BY <1>1, <1>4, <2>1, <2>2, <2>4, HeldKept DEF Holds, Starts
  <2> QED BY <2>3, <2>4
<1>6. CASE RegisterAndSpawn(q)
  <2>1. message' = message /\ req[q].pc = "Registering"
    BY <1>6 DEF RegisterAndSpawn
  <2>2. req'[q].pc = "Idle" /\ \A s \in Reqs \ {q} : req'[s] = req[s]
    BY <1>3, <1>6 DEF RegisterAndSpawn
  <2>3. PICK w \in {"Message", "Answer"} : SpawnsTurn(m, w)
    BY <1>6 DEF RegisterAndSpawn, SpawnsTurn
  <2>4. PICK r \in Runs : Taken(r, m, w)
    BY <1>1, <1>2, <2>3, SpawnTakes
  <2>5. CASE n = m
    <3>1. Starts(q, n)
      BY <2>1, <2>5 DEF Starts
    <3>2. /\ \A s \in Runs : ~Holds(s, n)
          /\ \A s \in Reqs : Starts(s, n) => s = q
          /\ n \notin booting /\ message[n] = "Executing"
      BY <3>1 DEF HeldOnce
    <3>3. \A s \in Reqs : ~Starts(s, n)'
      BY <2>2, <3>2 DEF Starts
    <3>4. \A s \in Runs \ {r} : ~Holds(s, n)'
      BY <2>4, <3>2 DEF Taken, Holds
    <3> QED BY <1>4, <2>1, <3>2, <3>3, <3>4 DEF HeldOnce
  <2>6. CASE n # m
    BY <1>4, <2>1, <2>2, <2>4, <2>6, HeldKept DEF Taken, Holds, Starts
  <2> QED BY <2>5, <2>6
<1>7. CASE WriteAnswer(q)
  <2>1. message' = message /\ turn' = turn /\ (Drop(q) \/ GotoReq(q, "Flipping"))
    BY <1>7 DEF WriteAnswer
  <2>2. req'[q].pc \in {"Idle", "Flipping"} /\ \A s \in Reqs \ {q} : req'[s] = req[s]
    BY <1>3, <2>1
  <2> QED BY <1>4, <2>1, <2>2, HeldKept DEF Holds, Starts
<1>8. CASE Flip(q)
  <2>1. CASE message[m] = "Paused" /\ Pending(m) = {}
    <3>1. /\ message' = [message EXCEPT ![m] = "Executing"]
          /\ \/ GotoReq(q, "Registering") /\ turn' = turn
             \/ Drop(q) /\ SpawnsTurn(m, "Answer")
      BY <1>8, <2>1 DEF Flip, SetMessage, SpawnsTurn
    <3>2. CASE n # m
      <4>1. \A s \in Runs : Holds(s, n)' => Holds(s, n)
        BY <1>1, <1>2, <3>1, <3>2, SpawnTakes DEF Taken, Holds
      <4>2. \A s \in Reqs : Starts(s, n)' => Starts(s, n)
        BY <1>3, <3>1, <3>2 DEF Starts
      <4> QED BY <1>1, <1>4, <3>1, <3>2, <4>1, <4>2, HeldKept
    <3>3. CASE n = m
      <4>1. /\ \A s \in Runs : ~Holds(s, n)
            /\ \A s \in Reqs : ~Starts(s, n)
            /\ n \notin booting'
        BY <1>4, <2>1, <3>3 DEF HeldOnce
      <4>2. message'[n] = "Executing"
        BY <1>1, <1>2, <3>1, <3>3
      <4>3. CASE GotoReq(q, "Registering") /\ turn' = turn
        <5>1. \A s \in Runs : ~Holds(s, n)'
          BY <4>1, <4>3 DEF Holds
        <5>2. \A s \in Reqs \ {q} : ~Starts(s, n)'
          BY <1>3, <4>1, <4>3 DEF Starts
        <5> QED BY <4>1, <4>2, <5>1, <5>2 DEF HeldOnce
      <4>4. CASE Drop(q) /\ SpawnsTurn(m, "Answer")
        <5>1. PICK r \in Runs : Taken(r, m, "Answer")
          BY <1>1, <1>2, <4>4, SpawnTakes
        <5>2. \A s \in Runs \ {r} : ~Holds(s, n)'
          BY <4>1, <5>1 DEF Taken, Holds
        <5>3. \A s \in Reqs : ~Starts(s, n)'
          BY <1>3, <4>1, <4>4 DEF Starts
        <5> QED BY <4>1, <4>2, <5>2, <5>3 DEF HeldOnce
      <4> QED BY <3>1, <4>3, <4>4
    <3> QED BY <3>2, <3>3
  <2>2. CASE ~(message[m] = "Paused" /\ Pending(m) = {})
    <3>1. Drop(q) /\ UNCHANGED <<message, turn>>
      BY <1>8, <2>2 DEF Flip
    <3> QED BY <1>3, <1>4, <3>1, HeldKept DEF Holds, Starts
  <2> QED BY <2>1, <2>2
<1> QED BY <1>5, <1>6, <1>7, <1>8 DEF Serve

LEMMA HeldStep ==
    ASSUME RestTypes, FreshOK, HeldOK, [Next]_vars
    PROVE  HeldOK'
<1>1. ActorsTyped /\ req \in [Reqs -> Req]
  BY DEF RestTypes, ActorsTyped, ReqsTyped
<1> USE DEF boot
<1>2. ASSUME NEW q \in Reqs, NEW m \in Msgs,
             \/ SendMessage(q, m)
             \/ \E k \in Calls, how \in {"Http", "Channel"} : Answer(q, m, k, how)
      PROVE  HeldOK'
  <2>1. UNCHANGED <<message, turn, booting, raced>>
    BY <1>2 DEF SendMessage, Answer
  <2>2. req'[q].pc \in {"Creating", "Resuming"}
    <3>1. [IdleReq EXCEPT !.pc = "Creating", !.msg = m].pc = "Creating"
      BY DEF IdleReq
    <3>2. CASE SendMessage(q, m)
      BY <1>1, <3>1, <3>2 DEF SendMessage
    <3>3. ASSUME NEW k \in Calls, NEW how, Answer(q, m, k, how)
          PROVE  req'[q].pc = "Resuming"
      BY <1>1, <3>3 DEF Answer
    <3> QED BY <1>2, <3>2, <3>3
  <2>3. \A s \in Reqs \ {q} : req'[s] = req[s]
    BY <1>1, <1>2 DEF SendMessage, Answer
  <2>4. ASSUME NEW n \in Msgs, n \notin raced, HeldOnce(n) PROVE HeldOnce(n)'
    BY <2>1, <2>2, <2>3, <2>4, HeldKept DEF Holds, Starts
  <2> QED BY <2>1, <2>4 DEF HeldOK
<1>3. ASSUME NEW m \in Msgs, SpawnResumed(m) PROVE HeldOK'
  <2>1. /\ UNCHANGED <<message, req, raced>>
        /\ booting' = booting \ {m} /\ m \in booting
    BY <1>3 DEF SpawnResumed
  <2>2. PICK r \in Runs : Taken(r, m, "Boot")
    BY <1>1, <1>3, SpawnTakes DEF SpawnResumed, SpawnsTurn
  <2> SUFFICES ASSUME NEW n \in Msgs, n \notin raced, HeldOnce(n) PROVE HeldOnce(n)'
    BY <2>1 DEF HeldOK
  <2>3. CASE n = m
    <3>1. /\ \A s \in Runs : ~Holds(s, n)
          /\ \A s \in Reqs : ~Starts(s, n)
          /\ message[n] = "Executing"
      BY <2>1, <2>3 DEF HeldOnce
    <3>2. \A s \in Runs \ {r} : ~Holds(s, n)'
      BY <2>2, <3>1 DEF Taken, Holds
    <3>3. \A s \in Reqs : ~Starts(s, n)'
      BY <2>1, <3>1 DEF Starts
    <3> QED BY <2>1, <2>3, <3>1, <3>2, <3>3 DEF HeldOnce
  <2>4. CASE n # m
    BY <2>1, <2>2, <2>4, HeldKept DEF Taken, Holds, Starts
  <2> QED BY <2>3, <2>4
<1>4. CASE FindExecuting
  <2>1. /\ UNCHANGED <<message, turn, req>>
        /\ booting' = {n \in Msgs : message[n] = "Executing"}
        /\ raced' = raced \cup {n \in booting' : \/ \E r \in Runs : Holds(r, n)
                                                 \/ \E q \in Reqs : Starts(q, n)}
    BY <1>4 DEF FindExecuting
  <2> SUFFICES ASSUME NEW n \in Msgs, n \notin raced' PROVE HeldOnce(n)'
    BY DEF HeldOK
  <2>2. HeldOnce(n)
    BY <2>1 DEF HeldOK
  <2>3. /\ \A r \in Runs : Holds(r, n)' <=> Holds(r, n)
        /\ \A q \in Reqs : Starts(q, n)' <=> Starts(q, n)
    BY <2>1 DEF Holds, Starts
  <2>4. CASE n \in booting'
    <3>1. (\A r \in Runs : ~Holds(r, n)) /\ \A q \in Reqs : ~Starts(q, n)
      BY <2>1, <2>4
    <3> QED BY <2>1, <2>3, <2>4, <3>1 DEF HeldOnce
  <2>5. CASE n \notin booting'
    BY <2>1, <2>2, <2>3, <2>5 DEF HeldOnce
  <2> QED BY <2>4, <2>5
<1>5. CASE Crash
  BY <1>5 DEF Crash, HeldOK, HeldOnce, Holds, Holding, Working, Starts, IdleTurn, IdleReq
<1>6. CASE \/ Restart \/ UNCHANGED vars \/ \E c \in Chats : Stop(c)
           \/ \E m \in Msgs, k \in Calls : ResolveUntyped(m, k)
  BY <1>6, HeldKept DEF Restart, vars, Stop, ResolveUntyped, HeldOK, Holds, Starts
<1> QED BY <1>2, <1>3, <1>4, <1>5, <1>6, HeldTurn, HeldServe DEF Next

LEMMA HeldInvariant == Spec => []HeldOK
<1>1. Init => HeldOK
  BY DEF Init, HeldOK, HeldOnce, Holds, Holding, Working, Starts, IdleTurn, IdleReq
<1> QED BY <1>1, HeldStep, RestInvariant, FreshInvariant, PTL DEF Spec

(* mark_message_executing is one conditional write: of all the answers that are    *)
(* being served only one flips the message, and it flips it only when the turn      *)
(* before has written Paused as the last thing it did.                             *)
THEOREM OneTurnAtATime == Spec => []OneTurnPerMessage
<1>1. RestTypes /\ HeldOK => OneTurnPerMessage
  <2> SUFFICES ASSUME RestTypes, HeldOK, NEW r \in Runs, NEW s \in Runs,
                      turn[r].pc \in Working \cup {"Spawned"},
                      turn[s].pc \in Working \cup {"Spawned"},
                      turn[r].msg = turn[s].msg, turn[r].msg \notin raced
               PROVE  r = s
    BY DEF OneTurnPerMessage
  <2>1. turn[r].msg \in Msgs
    BY DEF RestTypes, ActorsTyped, TurnsTyped, TurnOK, Working
  <2>2. Holds(r, turn[r].msg) /\ Holds(s, turn[r].msg)
    BY DEF Holds, Holding
  <2> QED BY <2>1, <2>2 DEF HeldOK, HeldOnce
<1> QED BY <1>1, HeldInvariant, RestInvariant, PTL

-----------------------------------------------------------------------------
LEMMA OutcomeStep ==
    ASSUME RestTypes, FreshOK, HeldOK, [Next]_vars, NEW m \in Msgs \ raced,
           message[m] \in {"Completed", "Cancelled", "Failed"}
    PROVE  message'[m] = message[m]
<1>1. message \in [Msgs -> MessageStatus] /\ ActorsTyped /\ HeldOnce(m)
  BY DEF RestTypes, RestTyped, HeldOK
<1>2. ASSUME NEW r \in Runs, TurnStep(r) PROVE message'[m] = message[m]
  <2>1. OnlyTurn(r)
    BY <1>1, <1>2, TurnStepOnly
  <2>2. ~Holds(r, m)
    BY <1>1 DEF HeldOnce
  <2> QED BY <1>1, <2>1, <2>2 DEF OnlyTurn, Holds, SetMessage
<1>3. ASSUME NEW q \in Reqs, Serve(q) PROVE message'[m] = message[m]
  <2>1. CASE CreateMessage(q)
    BY <1>1, <2>1 DEF CreateMessage, SetMessage, FreshOK, CreateOK
  <2>2. CASE Flip(q)
    BY <1>1, <2>2 DEF Flip, SetMessage
  <2>3. CASE RegisterAndSpawn(q) \/ WriteAnswer(q)
    BY <2>3 DEF RegisterAndSpawn, WriteAnswer
  <2> QED BY <1>3, <2>1, <2>2, <2>3 DEF Serve
<1>4. CASE \/ \E q \in Reqs, n \in Msgs : SendMessage(q, n)
           \/ \E q \in Reqs, n \in Msgs, k \in Calls, how \in {"Http", "Channel"} :
                 Answer(q, n, k, how)
           \/ \E n \in Msgs, k \in Calls : ResolveUntyped(n, k)
           \/ \E c \in Chats : Stop(c)
           \/ \E n \in Msgs : SpawnResumed(n)
           \/ Crash \/ Restart \/ FindExecuting \/ UNCHANGED vars
  BY <1>4 DEF SendMessage, Answer, ResolveUntyped, Stop, SpawnResumed, Crash, Restart,
              FindExecuting, vars
<1> QED BY <1>2, <1>3, <1>4 DEF Next

(* An outcome is written by the turn that holds the message while it is executing, *)
(* and nothing but a paused message is ever flipped back: no answer, Stop, second    *)
(* person, crash or restart reopens or overwrites a message that has ended.         *)
THEOREM OutcomesAreFinal == Spec => OutcomeIsFinal
<1>1. RestTypes /\ FreshOK /\ HeldOK /\ [Next]_vars =>
        [\A m \in Msgs \ raced :
            message[m] \in {"Completed", "Cancelled", "Failed"}
                => message'[m] = message[m]]_vars
  BY OutcomeStep
<1> QED
  BY <1>1, RestInvariant, FreshInvariant, HeldInvariant, PTL DEF Spec, OutcomeIsFinal

-----------------------------------------------------------------------------
(* A turn that an answer resumes, or will as soon as the request spawns it, finds   *)
(* every question answered: only a turn at work asks, and there is no other turn.   *)
Resumes(r, m) == turn[r].pc = "Spawned" /\ turn[r].msg = m /\ turn[r].why = "Answer"
WillResume(q, m) == Starts(q, m) /\ req[q].call # 0
Ready(m) == \/ \E r \in Runs : Resumes(r, m)
            \/ \E q \in Reqs : WillResume(q, m)
            => Pending(m) = {}
ReadyOK == \A m \in Msgs \ raced : Ready(m)

LEMMA ReadyKept ==
    ASSUME NEW m \in Msgs, Ready(m),
           \A k \in Calls : call'[m][k] = "Pending" => call[m][k] = "Pending",
           \A r \in Runs : Resumes(r, m)' => Resumes(r, m),
           \A q \in Reqs : WillResume(q, m)' => WillResume(q, m)
    PROVE  Ready(m)'
<1>1. Pending(m)' \subseteq Pending(m)
  BY DEF Pending
<1> QED BY <1>1 DEF Ready

LEMMA ReadyTurn ==
    ASSUME RestTypes, HeldOK, ReadyOK, NEW r \in Runs, TurnStep(r)
    PROVE  ReadyOK'
<1>1. OnlyTurn(r)
  BY TurnStepOnly DEF RestTypes
<1>2. call \in [Msgs -> [Calls -> {"None", "Pending", "Resolved"}]]
  BY DEF RestTypes, RestTyped
<1> SUFFICES ASSUME NEW m \in Msgs, m \notin raced, Ready(m), HeldOnce(m) PROVE Ready(m)'
  BY <1>1 DEF OnlyTurn, ReadyOK, HeldOK
<1>3. \A s \in Runs : Resumes(s, m)' => Resumes(s, m)
  BY <1>1 DEF OnlyTurn, Resumes
<1>4. \A q \in Reqs : WillResume(q, m)' => WillResume(q, m)
  BY <1>1 DEF OnlyTurn, WillResume, Starts
<1>5. CASE turn[r].pc \in Working /\ turn[r].msg = m
  <2>1. Holds(r, m) /\ ~Resumes(r, m)
    BY <1>5 DEF Holds, Holding, Working, Resumes
  <2>2. \A s \in Runs : ~Resumes(s, m)
    BY <2>1 DEF HeldOnce, Holds, Holding, Resumes
  <2>3. \A q \in Reqs : ~WillResume(q, m)
    BY <2>1 DEF HeldOnce, WillResume
  <2> QED BY <1>3, <1>4, <2>2, <2>3 DEF Ready
<1>6. CASE ~(turn[r].pc \in Working /\ turn[r].msg = m)
  <2>1. call'[m] = call[m]
    BY <1>1, <1>2, <1>6 DEF OnlyTurn
  <2> QED BY <1>3, <1>4, <2>1, ReadyKept
<1> QED BY <1>5, <1>6

LEMMA ReadyServe ==
    ASSUME RestTypes, FreshOK, ReadyOK, NEW q \in Reqs, Serve(q)
    PROVE  ReadyOK'
<1> DEFINE m == req[q].msg
<1>1. ActorsTyped /\ call \in [Msgs -> [Calls -> {"None", "Pending", "Resolved"}]]
  BY DEF RestTypes, RestTyped
<1>2. m \in Msgs
  BY <1>1 DEF Serve, CreateMessage, RegisterAndSpawn, WriteAnswer, Flip, ActorsTyped,
              ReqsTyped, ReqOK
<1>3. /\ \A p : GotoReq(q, p) =>
            /\ req'[q].pc = p /\ req'[q].msg = m /\ req'[q].call = req[q].call
            /\ \A s \in Reqs \ {q} : req'[s] = req[s]
      /\ Drop(q) => req'[q].pc = "Idle" /\ \A s \in Reqs \ {q} : req'[s] = req[s]
  BY <1>1, NewReqs DEF IdleReq
<1>4. raced' = raced
  BY DEF Serve, CreateMessage, RegisterAndSpawn, WriteAnswer, Flip, boot
<1> SUFFICES ASSUME NEW n \in Msgs, n \notin raced, Ready(n) PROVE Ready(n)'
  BY <1>4 DEF ReadyOK
<1>5. CASE CreateMessage(q)
  <2>1. UNCHANGED <<turn, call>> /\ GotoReq(q, "Registering") /\ req[q].call = 0
    BY <1>5 DEF CreateMessage, FreshOK, CreateOK
  <2> QED BY <1>3, <2>1, ReadyKept DEF Resumes, WillResume, Starts
<1>6. CASE RegisterAndSpawn(q)
  <2>1. call' = call /\ req[q].pc = "Registering" /\ Drop(q)
    BY <1>6 DEF RegisterAndSpawn
  <2> DEFINE w == IF req[q].call = 0 THEN "Message" ELSE "Answer"
  <2>2. SpawnsTurn(m, w)
    BY <1>6 DEF RegisterAndSpawn, SpawnsTurn
  <2>3. PICK r \in Runs : Taken(r, m, w)
    BY <1>1, <1>2, <2>2, SpawnTakes
  <2>4. \A s \in Reqs : WillResume(s, n)' => WillResume(s, n)
    BY <1>3, <2>1 DEF WillResume, Starts
  <2>5. CASE WillResume(q, n)
    BY <2>1, <2>5 DEF Ready, Pending
  <2>6. CASE ~WillResume(q, n)
    <3>1. \A s \in Runs : Resumes(s, n)' => Resumes(s, n)
      BY <2>1, <2>3, <2>6 DEF Taken, Resumes, WillResume, Starts
    <3> QED BY <2>1, <2>4, <3>1, ReadyKept
  <2> QED BY <2>5, <2>6
<1>7. CASE WriteAnswer(q)
  <2>1. turn' = turn /\ (Drop(q) \/ GotoReq(q, "Flipping"))
    BY <1>7 DEF WriteAnswer
  <2>2. \A k \in Calls : call'[n][k] = "Pending" => call[n][k] = "Pending"
    BY <1>1, <1>7 DEF WriteAnswer
  <2> QED BY <1>3, <2>1, <2>2, ReadyKept DEF Resumes, WillResume, Starts
<1>8. CASE Flip(q)
  <2>1. CASE n = m /\ Pending(m) = {}
    BY <1>8, <2>1 DEF Flip, Ready, Pending
  <2>2. CASE ~(n = m /\ Pending(m) = {})
    <3>1. /\ call' = call
          /\ \/ GotoReq(q, "Registering") /\ turn' = turn /\ n # m
             \/ Drop(q) /\ turn' = turn
             \/ Drop(q) /\ SpawnsTurn(m, "Answer") /\ n # m
      BY <1>8, <2>2 DEF Flip, SpawnsTurn
    <3>2. \A s \in Runs : Resumes(s, n)' => Resumes(s, n)
      BY <1>1, <1>2, <3>1, SpawnTakes DEF Taken, Resumes
    <3>3. \A s \in Reqs : WillResume(s, n)' => WillResume(s, n)
      BY <1>3, <3>1 DEF WillResume, Starts
    <3> QED BY <3>1, <3>2, <3>3, ReadyKept
  <2> QED BY <2>1, <2>2
<1> QED BY <1>5, <1>6, <1>7, <1>8 DEF Serve

LEMMA ReadyStep ==
    ASSUME RestTypes, FreshOK, HeldOK, ReadyOK, [Next]_vars
    PROVE  ReadyOK'
<1>1. /\ ActorsTyped /\ req \in [Reqs -> Req]
      /\ call \in [Msgs -> [Calls -> {"None", "Pending", "Resolved"}]]
  BY DEF RestTypes, RestTyped, ActorsTyped, ReqsTyped
<1> USE DEF boot
<1>2. ASSUME NEW q \in Reqs, NEW m \in Msgs, SendMessage(q, m) PROVE ReadyOK'
  <2>1. [IdleReq EXCEPT !.pc = "Creating", !.msg = m].pc = "Creating"
    BY DEF IdleReq
  <2>2. /\ UNCHANGED <<turn, call, raced>>
        /\ req'[q].pc = "Creating" /\ \A s \in Reqs \ {q} : req'[s] = req[s]
    BY <1>1, <1>2, <2>1 DEF SendMessage
  <2>3. ASSUME NEW n \in Msgs, n \notin raced, Ready(n) PROVE Ready(n)'
    BY <2>2, <2>3, ReadyKept DEF Resumes, WillResume, Starts
  <2> QED BY <2>2, <2>3 DEF ReadyOK
<1>3. ASSUME NEW q \in Reqs, NEW m \in Msgs, NEW k \in Calls, NEW how,
             Answer(q, m, k, how)
      PROVE  ReadyOK'
  <2>1. /\ UNCHANGED <<turn, call, raced>>
        /\ req'[q].pc = "Resuming" /\ \A s \in Reqs \ {q} : req'[s] = req[s]
    BY <1>1, <1>3 DEF Answer
  <2>2. ASSUME NEW n \in Msgs, n \notin raced, Ready(n) PROVE Ready(n)'
    BY <2>1, <2>2, ReadyKept DEF Resumes, WillResume, Starts
  <2> QED BY <2>1, <2>2 DEF ReadyOK
<1>4. ASSUME NEW m \in Msgs, NEW k \in Calls, ResolveUntyped(m, k) PROVE ReadyOK'
  <2>1. UNCHANGED <<turn, req, raced>>
    BY <1>4 DEF ResolveUntyped
  <2>2. ASSUME NEW n \in Msgs, n \notin raced, Ready(n) PROVE Ready(n)'
    <3>1. \A j \in Calls : call'[n][j] = "Pending" => call[n][j] = "Pending"
      BY <1>1, <1>4 DEF ResolveUntyped
    <3> QED BY <2>1, <2>2, <3>1, ReadyKept DEF Resumes, WillResume, Starts
  <2> QED BY <2>1, <2>2 DEF ReadyOK
<1>5. ASSUME NEW m \in Msgs, SpawnResumed(m) PROVE ReadyOK'
  <2>1. UNCHANGED <<call, req, raced>>
    BY <1>5 DEF SpawnResumed
  <2>2. PICK r \in Runs : Taken(r, m, "Boot")
    BY <1>1, <1>5, SpawnTakes DEF SpawnResumed, SpawnsTurn
  <2>3. ASSUME NEW n \in Msgs, n \notin raced, Ready(n) PROVE Ready(n)'
    BY <2>1, <2>2, <2>3, ReadyKept DEF Taken, Resumes, WillResume, Starts
  <2> QED BY <2>1, <2>3 DEF ReadyOK
<1>6. CASE Crash
  BY <1>6 DEF Crash, ReadyOK, Ready, Resumes, WillResume, Starts, IdleTurn, IdleReq
<1>7. CASE \/ Restart \/ FindExecuting \/ UNCHANGED vars \/ \E c \in Chats : Stop(c)
  <2>1. UNCHANGED <<turn, call, req>> /\ raced \subseteq raced'
    BY <1>7 DEF Restart, FindExecuting, vars, Stop
  <2>2. ASSUME NEW n \in Msgs, Ready(n) PROVE Ready(n)'
    BY <2>1, <2>2, ReadyKept DEF Resumes, WillResume, Starts
  <2> QED BY <2>1, <2>2 DEF ReadyOK
<1> QED BY <1>2, <1>3, <1>4, <1>5, <1>6, <1>7, ReadyTurn, ReadyServe DEF Next

(* The same write flips only a message without open questions, and nobody but a      *)
(* turn of the message can ask another one: a turn resumed by an answer starts with   *)
(* every question of its message answered.                                            *)
THEOREM ResumedWithAnswers == Spec => []AnsweredBeforeResume
<1>1. Init => ReadyOK
  BY DEF Init, ReadyOK, Ready, Resumes, WillResume, Starts, IdleTurn, IdleReq
<1>2. Spec => []ReadyOK
  BY <1>1, ReadyStep, RestInvariant, FreshInvariant, HeldInvariant, PTL DEF Spec
<1>3. RestTypes /\ ReadyOK => AnsweredBeforeResume
  BY DEF ReadyOK, Ready, Resumes, AnsweredBeforeResume, RestTypes, ActorsTyped, TurnsTyped,
         TurnOK
<1> QED BY <1>2, <1>3, RestInvariant, PTL

-----------------------------------------------------------------------------
(* The last answer.  One message at a time: it stays owed a resumption only if it   *)
(* was, its questions go only to Resolved, and an answer that has been written      *)
(* still has to look at the status.                                                 *)
Flips(q, m) == req[q].msg = m /\ req[q].pc = "Flipping"
Resumable(m) == m \in open /\ message[m] = "Paused" =>
                   Pending(m) # {} \/ \E q \in Reqs : Flips(q, m)
OpenOK == \A m \in Msgs : Resumable(m)

LEMMA OpenKept ==
    ASSUME NEW m \in Msgs, Resumable(m),
           m \in open' /\ message'[m] = "Paused" => m \in open /\ message[m] = "Paused",
           \A k \in Calls : call[m][k] = "Pending" => call'[m][k] = "Pending",
           \A q \in Reqs : Flips(q, m) => Flips(q, m)'
    PROVE  Resumable(m)'
<1>1. Pending(m) \subseteq Pending(m)'
  BY DEF Pending
<1> QED BY <1>1 DEF Resumable

LEMMA OpenTurn ==
    ASSUME RestTypes, OpenOK, NEW r \in Runs, TurnStep(r)
    PROVE  OpenOK'
<1>1. /\ message \in [Msgs -> MessageStatus] /\ open \subseteq Msgs
      /\ call \in [Msgs -> [Calls -> {"None", "Pending", "Resolved"}]]
  BY DEF RestTypes, RestTyped
<1>2. OnlyTurn(r)
  BY TurnStepOnly DEF RestTypes
<1> SUFFICES ASSUME NEW m \in Msgs, Resumable(m) PROVE Resumable(m)'
  BY DEF OpenOK
<1>3. /\ \A k \in Calls : call[m][k] = "Pending" => call'[m][k] = "Pending"
      /\ \A q \in Reqs : Flips(q, m) => Flips(q, m)'
  <2>1. CASE call' = call
    BY <1>2, <2>1 DEF OnlyTurn, Flips
  <2>2. ASSUME NEW k \in Calls, call' = [call EXCEPT ![turn[r].msg][k] = "Pending"]
        PROVE  \A j \in Calls : call[m][j] = "Pending" => call'[m][j] = "Pending"
    BY <1>1, <2>2
  <2>3. \A q \in Reqs : Flips(q, m) => Flips(q, m)'
    BY <1>2 DEF OnlyTurn, Flips
  <2> QED BY <1>2, <2>1, <2>2, <2>3 DEF OnlyTurn
<1>4. CASE PauseMessage(r)
  <2>1. CASE m = turn[r].msg
    <3>1. m \in open' => Pending(m) # {}
      BY <1>4, <2>1 DEF PauseMessage
    <3>2. Pending(m) \subseteq Pending(m)'
      BY <1>3 DEF Pending
    <3> QED BY <3>1, <3>2 DEF Resumable
  <2>2. CASE m # turn[r].msg
    <3>1. m \in open' /\ message'[m] = "Paused" => m \in open /\ message[m] = "Paused"
      BY <1>1, <1>4, <2>2 DEF PauseMessage, SetMessage
    <3> QED BY <1>3, <3>1, OpenKept
  <2> QED BY <2>1, <2>2
<1>5. CASE ~PauseMessage(r)
  <2>1. open' = open
    BY <1>5 DEF TurnStep, RegisterSelf, BeginTurn, AskHuman, ReturnReply, ReturnPending,
                ReturnCancelled, FailTurn, CompleteMessage, CancelMessage, Notify, RemoveSession
  <2>2. \/ message' = message
        \/ \E s \in {"Completed", "Failed", "Cancelled"} : SetMessage(turn[r].msg, s)
    BY <1>5 DEF TurnStep, RegisterSelf, BeginTurn, AskHuman, ReturnReply, ReturnPending,
                ReturnCancelled, FailTurn, CompleteMessage, CancelMessage, Notify, RemoveSession
  <2>3. message'[m] = "Paused" => message[m] = "Paused"
    BY <1>1, <2>2 DEF SetMessage
  <2> QED BY <1>3, <2>1, <2>3, OpenKept
<1> QED BY <1>4, <1>5

LEMMA OpenServe ==
    ASSUME RestTypes, OpenOK, NEW q \in Reqs, Serve(q)
    PROVE  OpenOK'
<1>1. /\ message \in [Msgs -> MessageStatus] /\ ActorsTyped
      /\ call \in [Msgs -> [Calls -> {"None", "Pending", "Resolved"}]]
  BY DEF RestTypes, RestTyped
<1>2. /\ \A p : GotoReq(q, p) =>
            /\ req'[q].pc = p /\ req'[q].msg = req[q].msg
            /\ \A s \in Reqs \ {q} : req'[s] = req[s]
      /\ Drop(q) => \A s \in Reqs \ {q} : req'[s] = req[s]
  BY <1>1, NewReqs
<1>3. open' = open
  BY DEF Serve, CreateMessage, RegisterAndSpawn, WriteAnswer, Flip
<1> SUFFICES ASSUME NEW m \in Msgs, Resumable(m) PROVE Resumable(m)'
  BY DEF OpenOK
<1>4. CASE CreateMessage(q)
  <2>1. /\ call' = call /\ GotoReq(q, "Registering") /\ req[q].pc = "Creating"
        /\ message' = [message EXCEPT ![req[q].msg] = "Executing"]
    BY <1>4 DEF CreateMessage, SetMessage
  <2>2. message'[m] = "Paused" => message[m] = "Paused"
    BY <1>1, <2>1
  <2> QED BY <1>2, <1>3, <2>1, <2>2, OpenKept DEF Flips
<1>5. CASE RegisterAndSpawn(q)
  <2>1. UNCHANGED <<call, message>> /\ Drop(q) /\ req[q].pc = "Registering"
    BY <1>5 DEF RegisterAndSpawn
  <2> QED BY <1>2, <1>3, <2>1, OpenKept DEF Flips
<1>6. CASE WriteAnswer(q)
  <2>1. req[q].pc = "Resuming" /\ message' = message
    BY <1>6 DEF WriteAnswer
  <2>2. CASE call' = call /\ (GotoReq(q, "Flipping") \/ Drop(q))
    BY <1>2, <1>3, <2>1, <2>2, OpenKept DEF Flips
  <2>3. CASE GotoReq(q, "Flipping") /\ call' # call
    <3>1. call' = [call EXCEPT ![req[q].msg][req[q].call] = "Resolved"]
      BY <1>6, <2>3 DEF WriteAnswer
    <3>2. CASE m = req[q].msg
      <4>1. Flips(q, m)'
        BY <1>2, <2>3, <3>2 DEF Flips
      <4> QED BY <4>1 DEF Resumable
    <3>3. CASE m # req[q].msg
      <4>1. call'[m] = call[m]
        BY <1>1, <3>1, <3>3
      <4> QED BY <1>2, <1>3, <2>1, <2>3, <4>1, OpenKept DEF Flips
    <3> QED BY <3>2, <3>3
  <2> QED BY <1>6, <2>2, <2>3 DEF WriteAnswer
<1>7. CASE Flip(q)
  <2>1. call' = call /\ (GotoReq(q, "Registering") \/ Drop(q))
    BY <1>7 DEF Flip
  <2>2. CASE m = req[q].msg
    <3>1. message'[m] = "Paused" => Pending(m) # {} /\ message[m] = "Paused"
      BY <1>1, <1>7, <2>2 DEF Flip, SetMessage
    <3>2. Pending(m)' = Pending(m)
      BY <2>1 DEF Pending
    <3> QED BY <3>1, <3>2 DEF Resumable
  <2>3. CASE m # req[q].msg
    <3>1. message'[m] = message[m]
      BY <1>1, <1>7, <2>3 DEF Flip, SetMessage
    <3> QED BY <1>2, <1>3, <2>1, <2>3, <3>1, OpenKept DEF Flips
  <2> QED BY <2>2, <2>3
<1> QED BY <1>4, <1>5, <1>6, <1>7 DEF Serve

LEMMA OpenStep ==
    ASSUME RestTypes, OpenOK, [Next]_vars
    PROVE  OpenOK'
<1>1. /\ req \in [Reqs -> Req]
      /\ call \in [Msgs -> [Calls -> {"None", "Pending", "Resolved"}]]
  BY DEF RestTypes, RestTyped, ActorsTyped, ReqsTyped
<1>2. ASSUME NEW q \in Reqs, NEW m \in Msgs,
             \/ SendMessage(q, m)
             \/ \E k \in Calls, how \in {"Http", "Channel"} : Answer(q, m, k, how)
      PROVE  OpenOK'
  <2>1. UNCHANGED <<message, call, open>> /\ req[q].pc = "Idle"
    BY <1>2 DEF SendMessage, Answer
  <2>2. \A s \in Reqs \ {q} : req'[s] = req[s]
    BY <1>1, <1>2 DEF SendMessage, Answer
  <2>3. ASSUME NEW n \in Msgs, Resumable(n) PROVE Resumable(n)'
    BY <2>1, <2>2, <2>3, OpenKept DEF Flips
  <2> QED BY <2>3 DEF OpenOK
<1>3. ASSUME NEW m \in Msgs, NEW k \in Calls, ResolveUntyped(m, k) PROVE OpenOK'
  <2>1. /\ UNCHANGED <<message, req>> /\ open' = open \ {m}
        /\ \A n \in Msgs : n # m => call'[n] = call[n]
    BY <1>1, <1>3 DEF ResolveUntyped
  <2>2. ASSUME NEW n \in Msgs, Resumable(n) PROVE Resumable(n)'
    <3>1. CASE n = m
      BY <2>1, <3>1 DEF Resumable
    <3>2. CASE n # m
      BY <2>1, <2>2, <3>2, OpenKept DEF Flips
    <3> QED BY <3>1, <3>2
  <2> QED BY <2>2 DEF OpenOK
<1>4. CASE Crash
  BY <1>4 DEF Crash, OpenOK, Resumable
<1>5. CASE \/ Restart \/ FindExecuting \/ UNCHANGED vars \/ \E c \in Chats : Stop(c)
           \/ \E m \in Msgs : SpawnResumed(m)
  <2>1. UNCHANGED <<message, call, req, open>>
    BY <1>5 DEF Restart, FindExecuting, vars, Stop, SpawnResumed
  <2>2. ASSUME NEW n \in Msgs, Resumable(n) PROVE Resumable(n)'
    BY <2>1, <2>2, OpenKept DEF Flips
  <2> QED BY <2>2 DEF OpenOK
<1> QED BY <1>2, <1>3, <1>4, <1>5, OpenTurn, OpenServe DEF Next

(* An answer is in the table before its request looks at the others, so of several *)
(* people who answer at once the last one to look sees them all: a message that      *)
(* paused with a question open is not left paused once every question is answered.   *)
THEOREM LastAnswerIsSeen == Spec => []LastAnswerResumes
<1>1. Init => OpenOK
  BY DEF Init, OpenOK, Resumable
<1>2. Spec => []OpenOK
  BY <1>1, OpenStep, RestInvariant, PTL DEF Spec
<1>3. RestTypes /\ OpenOK => LastAnswerResumes
  <2> SUFFICES ASSUME RestTypes, OpenOK, NEW m \in open, message[m] = "Paused"
               PROVE  \/ Pending(m) # {}
                      \/ \E q \in Reqs : req[q].msg = m /\ req[q].pc = "Flipping"
    BY DEF LastAnswerResumes
  <2>1. m \in Msgs
    BY DEF RestTypes, RestTyped
  <2> QED BY <2>1 DEF OpenOK, Resumable, Flips
<1> QED BY <1>2, <1>3, RestInvariant, PTL
=============================================================================
