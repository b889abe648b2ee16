--------------------------- MODULE SlotPool_proofs ---------------------------
(***************************************************************************)
(* The limits of SlotPool hold for every number of tasks, agents and slots.*)
(***************************************************************************)
EXTENDS SlotPool, FiniteSetTheorems, TLAPS

LEMMA PoolStep ==
    ASSUME PoolAssumption, PoolInv, [Next]_held
    PROVE  PoolInv'
<1> USE DEF PoolAssumption
<1>1. \A a \in Agents : IsFiniteSet(OfAgent(held, a))
                        /\ Cardinality(OfAgent(held, a)) \in Nat
  BY FS_Subset, FS_CardinalityType DEF PoolInv, OfAgent
<1>2. Cardinality(held) \in Nat
  BY FS_CardinalityType DEF PoolInv
<1>3. ASSUME NEW t \in Tasks, Acquire(t) PROVE PoolInv'
  <2>1. held' = held \cup {t} /\ t \notin held
    BY <1>3 DEF Acquire
  <2>2. IsFiniteSet(held') /\ Cardinality(held') = Cardinality(held) + 1
    BY <2>1, FS_AddElement DEF PoolInv
  <2>3. Cardinality(held') <= MaxConcurrent
    BY <1>2, <1>3, <2>2 DEF Acquire
  <2>4. ASSUME NEW a \in Agents
        PROVE  Cardinality(OfAgent(held', a)) <= AgentMax[a]
    <3>1. CASE AgentOf[t] = a
      <4>1. OfAgent(held', a) = OfAgent(held, a) \cup {t}
        BY <2>1, <3>1 DEF OfAgent
      <4>2. t \notin OfAgent(held, a)
        BY <2>1 DEF OfAgent
      <4>3. Cardinality(OfAgent(held', a)) = Cardinality(OfAgent(held, a)) + 1
        BY <1>1, <4>1, <4>2, FS_AddElement
      <4>4. Cardinality(OfAgent(held, a)) < AgentMax[a]
        BY <1>3, <3>1 DEF Acquire
      <4> QED BY <1>1, <4>3, <4>4
    <3>2. CASE AgentOf[t] # a
      <4>1. OfAgent(held', a) = OfAgent(held, a)
        BY <2>1, <3>2 DEF OfAgent
      <4> QED BY <4>1 DEF PoolInv, CapsRespected
    <3> QED BY <3>1, <3>2
  <2> QED BY <2>1, <2>2, <2>3, <2>4 DEF PoolInv, CapsRespected
<1>4. ASSUME NEW t \in Tasks, Release(t) PROVE PoolInv'
  <2>1. held' \subseteq held
    BY <1>4 DEF Release
  <2>2. IsFiniteSet(held') /\ Cardinality(held') <= Cardinality(held)
        /\ Cardinality(held') \in Nat
    BY <2>1, FS_Subset, FS_CardinalityType DEF PoolInv
  <2>3. ASSUME NEW a \in Agents
        PROVE  Cardinality(OfAgent(held', a)) <= AgentMax[a]
    <3>1. OfAgent(held', a) \subseteq OfAgent(held, a)
      BY <2>1 DEF OfAgent
    <3>2. Cardinality(OfAgent(held', a)) <= Cardinality(OfAgent(held, a))
          /\ Cardinality(OfAgent(held', a)) \in Nat
      BY <1>1, <3>1, FS_Subset, FS_CardinalityType
    <3>3. Cardinality(OfAgent(held, a)) <= AgentMax[a]
      BY DEF PoolInv, CapsRespected
    <3> QED BY <1>1, <3>2, <3>3
  <2>4. Cardinality(held') <= MaxConcurrent
    BY <1>2, <2>2 DEF PoolInv, CapsRespected
  <2> QED BY <2>1, <2>2, <2>3, <2>4 DEF PoolInv, CapsRespected
<1>5. ASSUME held' = {} PROVE PoolInv'
  <2>1. \A a \in Agents : OfAgent(held', a) = {}
    BY <1>5 DEF OfAgent
  <2>2. \A a \in Agents : AgentMax[a] \in Nat
    OBVIOUS
  <2>3. IsFiniteSet({}) /\ Cardinality({}) = 0
    BY FS_EmptySet
  <2> QED BY <1>5, <2>1, <2>2, <2>3 DEF PoolInv, CapsRespected
<1>6. CASE UNCHANGED held
  BY <1>6 DEF PoolInv, CapsRespected, OfAgent
<1> QED BY <1>3, <1>4, <1>5, <1>6 DEF Next, Reset

(* However tasks acquire and release, no more than MaxConcurrent hold a slot *)
(* and no more of one agent than its AgentMax.                               *)
THEOREM LimitsHold ==
    ASSUME PoolAssumption
    PROVE  Spec => []CapsRespected
<1>1. Init => PoolInv
  <2>1. \A a \in Agents : held = {} => OfAgent(held, a) = {}
    BY DEF OfAgent
  <2>2. \A a \in Agents : AgentMax[a] \in Nat
    BY DEF PoolAssumption
  <2>3. IsFiniteSet({}) /\ Cardinality({}) = 0
    BY FS_EmptySet
  <2> QED BY <2>1, <2>2, <2>3 DEF PoolAssumption, Init, PoolInv, CapsRespected
<1>2. PoolInv => CapsRespected
  BY DEF PoolInv
<1> QED BY <1>1, <1>2, PoolStep, PTL DEF Spec
=============================================================================
