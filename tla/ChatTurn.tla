------------------------------- MODULE ChatTurn -------------------------------
(***************************************************************************)
(* Turns of the chats that belong to no task: a user's message or the last *)
(* answer to an agent's questions starts a turn, the turn registers in     *)
(* ActiveSessions, runs the tool loop, asks, pauses, completes, fails or   *)
(* is cancelled, and takes its entry out of the registry.  A Stop, a       *)
(* second message, two people answering at once and a crash with the       *)
(* restart's resume_all come at any moment.                                *)
(*                                                                         *)
(* One step is the code between two awaits that other actors can observe.  *)
(* The texts, the tools, titles and notifications are left out, and so are *)
(* slash commands, which end a turn without the tool loop.  A definition   *)
(* called a variant is a wrong one, which the properties must tell from    *)
(* the code's.                                                             *)
(***************************************************************************)
EXTENDS Naturals, FiniteSets

CONSTANTS
    Chats,
    Msgs, NoMsg, ChatOf,    \* agent messages and the chat each one is for
    Calls,                  \* bound: tool calls of a message that ask a human
    Runs, NoRun,            \* turns (tokio tasks) and their cancel tokens
    Reqs,                   \* bound: requests served at a time
    MaxId,                  \* bound: registrations
    MaxAsks,                \* bound: questions of all messages
    MaxStops,               \* bound: Stop requests
    MaxUntyped,             \* bound: answers without a typed response
    MaxCrashes              \* bound: crashes

ASSUME ChatAssumption ==
    /\ NoRun \notin Runs /\ NoMsg \notin Msgs /\ "None" \notin Chats
    /\ ChatOf \in [Msgs -> Chats]
    /\ MaxId \in Nat /\ MaxAsks \in Nat /\ MaxStops \in Nat
    /\ MaxUntyped \in Nat /\ MaxCrashes \in Nat
    /\ 0 \notin Calls

VARIABLES
    entry, nextId, fired, lease,    \* the registry, see ActiveSessions
    message,    \* status of each agent message
    call,       \* hitl.status of the tool calls of each message
    turn,       \* the spawned turns
    req,        \* the requests being served
    scan,       \* resume_all has still to look for executing messages
    booting,    \* the messages it found and has not spawned a turn for yet
    up,         \* the process is alive
    raced,      \* history: messages resume_all found executing although a turn
                \* of this process was at them already
    open,       \* history: messages paused with an open question, whose
                \* answers since then were all typed ones of this process
    byUser,     \* history: runs a Stop has cancelled
    left        \* what is left of each bound

sessions == <<entry, nextId, fired, lease>>
boot == <<scan, booting, up, raced>>
vars == <<sessions, message, call, turn, req, boot, open, byUser, left>>

AS == INSTANCE ActiveSessions

-----------------------------------------------------------------------------
MessageStatus == {"Unused", "Executing", "Paused", "Completed", "Cancelled", "Failed"}
Working == {"Working", "Asking"}
TurnPC == Working \cup {"Idle", "Spawned", "Completing", "Pausing", "Cancelling",
                        "Notifying", "Finished"}
Turn == [pc : TurnPC, msg : Msgs \cup {NoMsg}, why : {"Message", "Answer", "Boot"},
         notify : BOOLEAN]
IdleTurn == [pc |-> "Idle", msg |-> NoMsg, why |-> "Message", notify |-> FALSE]
NewTurn(m, w) == [IdleTurn EXCEPT !.pc = "Spawned", !.msg = m, !.why = w]

\* Http: the handler registers the session before it spawns the turn; Channel:
\* the spawned turn registers itself.
Req == [pc : {"Idle", "Creating", "Resuming", "Flipping", "Registering"},
        msg : Msgs \cup {NoMsg}, call : Calls \cup {0}, how : {"Http", "Channel"}]
IdleReq == [pc |-> "Idle", msg |-> NoMsg, call |-> 0, how |-> "Http"]

Bounds == {"asks", "stops", "untyped", "crashes"}
Limit(b) == CASE b = "asks" -> MaxAsks       [] b = "stops" -> MaxStops
              [] b = "untyped" -> MaxUntyped [] b = "crashes" -> MaxCrashes

TypeOK ==
    /\ AS!TypeOK
    /\ message \in [Msgs -> MessageStatus]
    /\ call \in [Msgs -> [Calls -> {"None", "Pending", "Resolved"}]]
    /\ turn \in [Runs -> Turn]
    /\ req \in [Reqs -> Req]
    /\ scan \in BOOLEAN /\ booting \subseteq Msgs /\ up \in BOOLEAN
    /\ raced \subseteq Msgs
    /\ open \subseteq Msgs /\ byUser \subseteq Runs
    /\ left \in [Bounds -> Nat]

Init ==
    /\ AS!Init
    /\ message = [m \in Msgs |-> "Unused"]
    /\ call = [m \in Msgs |-> [k \in Calls |-> "None"]]
    /\ turn = [r \in Runs |-> IdleTurn]
    /\ req = [q \in Reqs |-> IdleReq]
    /\ scan = FALSE /\ booting = {} /\ up = TRUE /\ raced = {}
    /\ open = {} /\ byUser = {}
    /\ left = [b \in Bounds |-> Limit(b)]

Pending(m) == {k \in Calls : call[m][k] = "Pending"}
Questions(c) == {m \in Msgs : ChatOf[m] = c /\ Pending(m) # {}}
SetMessage(m, s) == message' = [message EXCEPT ![m] = s]
Goto(r, p) == turn' = [turn EXCEPT ![r].pc = p]
GotoReq(q, p) == req' = [req EXCEPT ![q].pc = p]
Use(b) == left[b] > 0 /\ left' = [left EXCEPT ![b] = @ - 1]
Drop(q) == req' = [req EXCEPT ![q] = IdleReq]

\* Who will start the message's turn, or has still to write how it ended.
Holding == Working \cup {"Spawned", "Completing", "Pausing", "Cancelling"}
Holds(r, m) == turn[r].pc \in Holding /\ turn[r].msg = m
Starts(q, m) == req[q].pc = "Registering" /\ req[q].msg = m

-----------------------------------------------------------------------------
(* stream_message without an open question: a new agent message and a turn.  *)
SendMessage(q, m) ==
    /\ up /\ req[q].pc = "Idle" /\ message[m] = "Unused"
    /\ \A p \in Reqs : req[p].msg # m
    /\ Questions(ChatOf[m]) = {}
    /\ req' = [req EXCEPT ![q] = [IdleReq EXCEPT !.pc = "Creating", !.msg = m]]
    /\ UNCHANGED <<sessions, message, call, turn, boot, open, byUser, left>>

CreateMessage(q) ==
    /\ req[q].pc = "Creating"
    /\ SetMessage(req[q].msg, "Executing")
    /\ GotoReq(q, "Registering")
    /\ UNCHANGED <<sessions, call, turn, boot, open, byUser, left>>

\* Variant: the turn of a message is spawned first and registers itself.
SpawnThenRegister(q) ==
    /\ req[q].pc = "Registering"
    /\ \E r \in Runs :
          /\ turn[r].pc = "Idle"
          /\ turn' = [turn EXCEPT ![r] =
                        NewTurn(req[q].msg, IF req[q].call = 0 THEN "Message" ELSE "Answer")]
    /\ Drop(q)
    /\ UNCHANGED <<sessions, message, call, boot, open, byUser, left>>

\* The session is registered, then the turn is spawned (no await in between).
RegisterAndSpawn(q) ==
    LET m == req[q].msg IN
    /\ req[q].pc = "Registering"
    /\ \E r \in Runs :
          /\ turn[r].pc = "Idle"
          /\ AS!Register(r, ChatOf[m])
          /\ byUser' = byUser \ {r}
          /\ turn' = [turn EXCEPT ![r] =
                        NewTurn(m, IF req[q].call = 0 THEN "Message" ELSE "Answer")]
    /\ Drop(q)
    /\ UNCHANGED <<message, call, boot, open, left>>

-----------------------------------------------------------------------------
(* An answer: resolve_typed_and_resume and the reply path of stream_message  *)
(* (Http), HitlEngine of the channels (Channel).  The first look at the      *)
(* status ends a late answer; on_resume runs before the answer is written.   *)
Answer(q, m, k, how) ==
    /\ up /\ req[q].pc = "Idle" /\ call[m][k] = "Pending"
    /\ req' = [req EXCEPT ![q] = [pc |-> "Resuming", msg |-> m, call |-> k, how |-> how]]
    /\ UNCHANGED <<sessions, message, call, turn, boot, open, byUser, left>>

\* resolve_/deny_tool_call_with_hitl_response: who comes second gets an error,
\* or goes on when the two answers are the same.
WriteAnswer(q) ==
    LET m == req[q].msg
        k == req[q].call
    IN
    /\ req[q].pc = "Resuming"
    /\ \/ /\ call[m][k] = "Pending"
          /\ call' = [call EXCEPT ![m][k] = "Resolved"]
          /\ GotoReq(q, "Flipping")
       \/ /\ call[m][k] = "Resolved"
          /\ GotoReq(q, "Flipping") \/ Drop(q)
          /\ UNCHANGED call
    /\ UNCHANGED <<sessions, message, turn, boot, open, byUser, left>>

\* Variants of Flip: the turn is resumed whatever the message's status, ...
FlipAnyStatus(q) ==
    /\ req[q].pc = "Flipping"
    /\ IF Pending(req[q].msg) = {}
       THEN SetMessage(req[q].msg, "Executing") /\ GotoReq(q, "Registering")
       ELSE Drop(q) /\ UNCHANGED message
    /\ UNCHANGED <<sessions, call, turn, boot, open, byUser, left>>

\* ... whatever other questions the message has, ...
FlipAnyPending(q) ==
    /\ req[q].pc = "Flipping"
    /\ IF message[req[q].msg] = "Paused"
       THEN SetMessage(req[q].msg, "Executing") /\ GotoReq(q, "Registering")
       ELSE Drop(q) /\ UNCHANGED message
    /\ UNCHANGED <<sessions, call, turn, boot, open, byUser, left>>

\* ... or never, as after a database error.
FlipGivesUp(q) ==
    /\ req[q].pc = "Flipping" /\ Drop(q)
    /\ UNCHANGED <<sessions, message, call, turn, boot, open, byUser, left>>

\* mark_message_executing, one query: only the call that flips a paused message
\* without open questions resumes the turn.
Flip(q) ==
    LET m == req[q].msg IN
    /\ req[q].pc = "Flipping"
    /\ IF message[m] = "Paused" /\ Pending(m) = {}
       THEN /\ SetMessage(m, "Executing")
            /\ IF req[q].how = "Http"
               THEN GotoReq(q, "Registering") /\ UNCHANGED turn
               ELSE /\ Drop(q)
                    /\ \E r \in Runs :
                          /\ turn[r].pc = "Idle"
                          /\ turn' = [turn EXCEPT ![r] = NewTurn(m, "Answer")]
       ELSE Drop(q) /\ UNCHANGED <<message, turn>>
    /\ UNCHANGED <<sessions, call, boot, open, byUser, left>>

\* resolve_tool_calls with an action instead of a typed response: the call is
\* resolved or denied and nothing looks at its message.
ResolveUntyped(m, k) ==
    /\ up /\ call[m][k] = "Pending" /\ Use("untyped")
    /\ call' = [call EXCEPT ![m][k] = "Resolved"]
    /\ open' = open \ {m}
    /\ UNCHANGED <<sessions, message, turn, req, boot, byUser>>

-----------------------------------------------------------------------------
(* A turn.  Harness::resume registers when the spawned turn runs. *)
RegisterSelf(r) ==
    /\ turn[r].pc = "Spawned" /\ ~AS!Registered(r)
    /\ AS!Register(r, ChatOf[turn[r].msg])
    /\ byUser' = byUser \ {r}
    /\ UNCHANGED <<message, call, turn, req, boot, open, left>>

BeginTurn(r) ==
    /\ turn[r].pc = "Spawned" /\ AS!Registered(r)
    /\ Goto(r, "Working")
    /\ UNCHANGED <<sessions, message, call, req, boot, open, byUser, left>>

\* set_hitl: the question is there to be answered while the turn goes on.
AskHuman(r, k) ==
    LET m == turn[r].msg IN
    /\ turn[r].pc \in Working /\ call[m][k] = "None" /\ Use("asks")
    /\ call' = [call EXCEPT ![m][k] = "Pending"]
    /\ Goto(r, "Asking")
    /\ UNCHANGED <<sessions, message, req, boot, open, byUser>>

\* The tool loop looks at the token and returns; the outcome is written later.
ReturnReply(r) ==
    /\ turn[r].pc = "Working" /\ r \notin fired
    /\ Goto(r, "Completing")
    /\ UNCHANGED <<sessions, message, call, req, boot, open, byUser, left>>

ReturnPending(r) ==
    /\ turn[r].pc = "Asking" /\ r \notin fired
    /\ Goto(r, "Pausing")
    /\ UNCHANGED <<sessions, message, call, req, boot, open, byUser, left>>

\* Variant: the client is always told.
ReturnCancelledLoudly(r) ==
    /\ turn[r].pc \in Working /\ r \in fired
    /\ turn' = [turn EXCEPT ![r].pc = "Cancelling", ![r].notify = TRUE]
    /\ UNCHANGED <<sessions, message, call, req, boot, open, byUser, left>>

\* finalize asks is_current whether to tell the client.
ReturnCancelled(r) ==
    /\ turn[r].pc \in Working /\ r \in fired
    /\ turn' = [turn EXCEPT ![r].pc = "Cancelling", ![r].notify = AS!IsCurrent(r)]
    /\ UNCHANGED <<sessions, message, call, req, boot, open, byUser, left>>

FailTurn(r) ==
    /\ turn[r].pc \in Working
    /\ SetMessage(turn[r].msg, "Failed")
    /\ Goto(r, "Finished")
    /\ UNCHANGED <<sessions, call, req, boot, open, byUser, left>>

CompleteMessage(r) ==
    /\ turn[r].pc = "Completing"
    /\ SetMessage(turn[r].msg, "Completed")
    /\ Goto(r, "Finished")
    /\ UNCHANGED <<sessions, call, req, boot, open, byUser, left>>

PauseMessage(r) ==
    LET m == turn[r].msg IN
    /\ turn[r].pc = "Pausing"
    /\ SetMessage(m, "Paused")
    /\ open' = IF Pending(m) # {} THEN open \cup {m} ELSE open \ {m}
    /\ Goto(r, "Finished")
    /\ UNCHANGED <<sessions, call, req, boot, byUser, left>>

CancelMessage(r) ==
    /\ turn[r].pc = "Cancelling"
    /\ SetMessage(turn[r].msg, "Cancelled")
    /\ Goto(r, IF turn[r].notify THEN "Notifying" ELSE "Finished")
    /\ UNCHANGED <<sessions, call, req, boot, open, byUser, left>>

\* The cancelled event goes to the client, which stops showing a running turn.
Notify(r) ==
    /\ turn[r].pc = "Notifying"
    /\ Goto(r, "Finished")
    /\ UNCHANGED <<sessions, message, call, req, boot, open, byUser, left>>

\* Variant: the entry goes whoever registered it.
RemoveAnySession(r) ==
    /\ turn[r].pc = "Finished" /\ AS!Registered(r)
    /\ entry' = [entry EXCEPT ![lease[r].chat] = AS!NoEntry]
    /\ lease' = [lease EXCEPT ![r] = AS!NoLease]
    /\ turn' = [turn EXCEPT ![r] = IdleTurn]
    /\ UNCHANGED <<nextId, fired, message, call, req, boot, open, byUser, left>>

RemoveSession(r) ==
    /\ turn[r].pc = "Finished"
    /\ AS!Remove(r)
    /\ turn' = [turn EXCEPT ![r] = IdleTurn]
    /\ UNCHANGED <<message, call, req, boot, open, byUser, left>>

-----------------------------------------------------------------------------
(* Stop, crash and restart. *)
\* Variant: cancels an entry that is not there.
StopUnchecked(c) ==
    /\ up /\ Use("stops")
    /\ fired' = fired \cup {entry[c].run}
    /\ byUser' = byUser \cup AS!Replaced(c)
    /\ UNCHANGED <<entry, nextId, lease, message, call, turn, req, boot, open>>

Stop(c) ==
    /\ up /\ Use("stops")
    /\ AS!Cancel(c)
    /\ byUser' = byUser \cup AS!Replaced(c)
    /\ UNCHANGED <<message, call, turn, req, boot, open>>

Crash ==
    /\ up /\ Use("crashes")
    /\ AS!Restart
    /\ turn' = [r \in Runs |-> IdleTurn]
    /\ req' = [q \in Reqs |-> IdleReq]
    /\ scan' = FALSE /\ booting' = {} /\ up' = FALSE /\ raced' = {}
    /\ open' = {} /\ byUser' = {}
    /\ UNCHANGED <<message, call>>

\* main.rs spawns resume_all and serves requests without waiting for it.
Restart ==
    /\ ~up /\ up' = TRUE /\ scan' = TRUE
    /\ UNCHANGED <<sessions, message, call, turn, req, booting, raced, open, byUser, left>>

\* Variant: the query finds nothing.
FindNothing ==
    /\ scan /\ scan' = FALSE /\ booting' = {}
    /\ UNCHANGED <<sessions, message, call, turn, req, up, raced, open, byUser, left>>

FindExecuting ==
    /\ scan /\ scan' = FALSE
    /\ booting' = {m \in Msgs : message[m] = "Executing"}
    /\ raced' = raced \cup {m \in booting' : \/ \E r \in Runs : Holds(r, m)
                                             \/ \E q \in Reqs : Starts(q, m)}
    /\ UNCHANGED <<sessions, message, call, turn, req, up, open, byUser, left>>

SpawnResumed(m) ==
    /\ m \in booting
    /\ booting' = booting \ {m}
    /\ \E r \in Runs : /\ turn[r].pc = "Idle"
                       /\ turn' = [turn EXCEPT ![r] = NewTurn(m, "Boot")]
    /\ UNCHANGED <<sessions, message, call, req, scan, up, raced, open, byUser, left>>

-----------------------------------------------------------------------------
Serve(q) == CreateMessage(q) \/ RegisterAndSpawn(q) \/ WriteAnswer(q) \/ Flip(q)

TurnStep(r) ==
    \/ RegisterSelf(r) \/ BeginTurn(r)
    \/ \E k \in Calls : AskHuman(r, k)
    \/ ReturnReply(r) \/ ReturnPending(r) \/ ReturnCancelled(r) \/ FailTurn(r)
    \/ CompleteMessage(r) \/ PauseMessage(r) \/ CancelMessage(r) \/ Notify(r)
    \/ RemoveSession(r)

Next ==
    \/ \E q \in Reqs, m \in Msgs : SendMessage(q, m)
    \/ \E q \in Reqs, m \in Msgs, k \in Calls, how \in {"Http", "Channel"} :
          Answer(q, m, k, how)
    \/ \E m \in Msgs, k \in Calls : ResolveUntyped(m, k)
    \/ \E q \in Reqs : Serve(q)
    \/ \E r \in Runs : TurnStep(r)
    \/ \E c \in Chats : Stop(c)
    \/ Crash \/ Restart \/ FindExecuting
    \/ \E m \in Msgs : SpawnResumed(m)

Spec == Init /\ [][Next]_vars

(***************************************************************************)
(* Fairness: tokio polls every handler and turn that can go on, and a turn *)
(* ends (inference and tools have timeouts, the tool loop a bound).  The   *)
(* steps that take an idle run are strongly fair because Runs is a bound   *)
(* of the model: in the code a spawn never waits.  Users owe nothing.      *)
(***************************************************************************)
FairSpec ==
    /\ Spec
    /\ \A q \in Reqs : SF_vars(Serve(q))
    /\ \A r \in Runs : WF_vars(TurnStep(r))
    /\ WF_vars(Restart) /\ WF_vars(FindExecuting)
    /\ \A m \in Msgs : SF_vars(SpawnResumed(m))

-----------------------------------------------------------------------------
\* The turns use the registry as ActiveSessions says, so what is proved there
\* holds here: register, cancel, remove, and a crash that empties it.
SessionsSpec == AS!Spec

Reachable(x) == x.pc \in Working \/ (x.pc = "Spawned" /\ x.why = "Message")

\* A Stop reaches every turn of the chat that is in its tool loop, and the turn of
\* a message also before it begins, as the user has seen the message accepted: its
\* token is in the registry by then, and no turn that ended has taken the token of
\* another one with it.
StopReachesTurns ==
    [][\A c \in Chats, r \in Runs :
          Stop(c) /\ Reachable(turn[r]) /\ ChatOf[turn[r].msg] = c
              => r \in fired']_vars

\* However many people answer at once, an answer starts at most one turn: no
\* message has two turns that have not written its outcome yet, unless
\* resume_all found it executing in a turn of the process that is running.
OneTurnPerMessage ==
    \A r, s \in Runs :
        /\ turn[r].pc \in Working \cup {"Spawned"}
        /\ turn[s].pc \in Working \cup {"Spawned"}
        /\ turn[r].msg = turn[s].msg /\ turn[r].msg \notin raced
        => r = s

\* Nor is an outcome written over another one: a message that completed, failed
\* or was cancelled stays so, whoever answers, stops or crashes afterwards.
OutcomeIsFinal ==
    [][\A m \in Msgs \ raced :
          message[m] \in {"Completed", "Cancelled", "Failed"}
              => message'[m] = message[m]]_vars

\* A turn resumed by an answer never starts while another question of its
\* message is open (the loop would be fed an empty answer).
AnsweredBeforeResume ==
    \A r \in Runs :
        turn[r].pc = "Spawned" /\ turn[r].why = "Answer" /\ turn[r].msg \notin raced
            => Pending(turn[r].msg) = {}

\* The last answer resumes: a message that paused with a question open does not
\* stay paused once every question is answered and no answer is being served.
LastAnswerResumes ==
    \A m \in open : message[m] = "Paused" =>
        \/ Pending(m) # {}
        \/ \E q \in Reqs : req[q].msg = m /\ req[q].pc = "Flipping"

\* A turn that an interrupting message cancelled does not tell the client that
\* it was cancelled: the event is sent for a turn that the user stopped.
SupersededIsSilent ==
    \A r \in Runs : turn[r].pc = "Notifying" => r \in byUser

\* Liveness, under FairSpec, with crashes: a message shown as executing is
\* executing: it ends, is cancelled, fails or pauses for a human.
ExecutingEnds ==
    \A m \in Msgs : message[m] = "Executing" ~> message[m] # "Executing"
=============================================================================
