-------------------------- MODULE MCTaskExecution --------------------------
(* Small instances of TaskExecution.                                       *)
EXTENDS TaskExecution, TLC

CONSTANTS t1, t2, t3, a1, a2

OneTask == {t1}
TwoTasks == {t1, t2}
ThreeTasks == {t1, t2, t3}
SameAgent == [t \in Tasks |-> a1]
NoParents == [t \in Tasks |-> NoTask]
\* t1 delegates to t2 and t3.
Family == [t \in Tasks |-> IF t \in {t2, t3} THEN t1 ELSE NoTask]
\* The parent has an agent of its own, with one slot, the children share one with two.
TwoAgents == [t \in Tasks |-> IF t = t1 THEN a1 ELSE a2]
OneAndTwo == [a \in Agents |-> IF a = a1 THEN 1 ELSE 2]
OneEach == [a \in Agents |-> 1]

RunSymmetry == Permutations(Runs)
\* The two children have nothing to tell them apart.
PoolSymmetry == Permutations(Runs) \cup Permutations({t2, t3})
=============================================================================
