------------------------------ MODULE SlotPool ------------------------------
(***************************************************************************)
(* What the task executor's admission promises, without saying how: a pool *)
(* of execution slots keyed by task.  A key is held at most once, no more  *)
(* than MaxConcurrent keys are held at a time, and no more than AgentMax   *)
(* of them belong to one agent.                                            *)
(*                                                                         *)
(* TaskExecution implements this module with its active_tasks map.         *)
(***************************************************************************)
EXTENDS Naturals, FiniteSets

CONSTANTS
    Tasks,          \* the keys of the pool
    Agents,         \* the owners of the keys
    AgentOf,        \* the agent of each task
    MaxConcurrent,  \* server.max_concurrent_tasks
    AgentMax        \* max_concurrent_tasks of each agent (3 when it sets none)

\* What a user of the pool has to give it, and the theorems assume.
PoolAssumption ==
    /\ AgentOf \in [Tasks -> Agents]
    /\ MaxConcurrent \in Nat
    /\ AgentMax \in [Agents -> Nat]

VARIABLE held       \* the tasks that hold a slot

OfAgent(S, a) == {t \in S : AgentOf[t] = a}

Init == held = {}

\* A task that holds no slot takes one while both limits leave room.
Acquire(t) ==
    /\ t \notin held
    /\ Cardinality(held) < MaxConcurrent
    /\ Cardinality(OfAgent(held, AgentOf[t])) < AgentMax[AgentOf[t]]
    /\ held' = held \cup {t}

Release(t) ==
    /\ t \in held
    /\ held' = held \ {t}

\* The process dies: the map lives in memory only.
Reset == held' = {}

Next ==
    \/ \E t \in Tasks : Acquire(t) \/ Release(t)
    \/ Reset

Spec == Init /\ [][Next]_held

-----------------------------------------------------------------------------
\* Both limits hold in every state, whatever the order of admissions.
CapsRespected ==
    /\ Cardinality(held) <= MaxConcurrent
    /\ \A a \in Agents : Cardinality(OfAgent(held, a)) <= AgentMax[a]

\* What makes CapsRespected inductive: a cardinality is a number.
PoolInv == held \subseteq Tasks /\ IsFiniteSet(held) /\ CapsRespected
=============================================================================
