------------------------ MODULE ActiveSessions_proofs ------------------------
(***************************************************************************)
(* The registry keeps its promises for any number of chats, runs and       *)
(* registrations.                                                          *)
(***************************************************************************)
EXTENDS ActiveSessions, TLAPS

USE SessionAssumption

\* The two ways to register differ in the token only: what they do to the
\* entry, the counter and the lease is the same (state.rs, register and
\* register_token).
LEMMA EnterPreserves ==
    ASSUME SessionInv, NEW r \in Runs, NEW c \in Chats, ~Registered(r), Enter(r, c),
           NEW F \in SUBSET Runs, fired' = F,
           \A s \in Runs : s # r /\ s \notin F => s \notin fired /\ s \notin Replaced(c)
    PROVE  SessionInv'
<1> USE DEF SessionInv, TypeOK, Enter, Registered, Entry, Lease, NoEntry, NoLease
<1>1. nextId \in Nat /\ nextId' \in 0..MaxId /\ nextId \in 0..MaxId
  OBVIOUS
<1>2. TypeOK'
  BY <1>1
<1>3. CurrentOrCancelled'
  <2> SUFFICES ASSUME NEW s \in Runs, Registered(s)', s \notin fired'
               PROVE  entry'[lease'[s].chat] = [id |-> lease'[s].id, run |-> s]
    BY DEF CurrentOrCancelled
  <2>1. CASE s = r
    BY <2>1
  <2>2. CASE s # r
    <3>1. lease'[s] = lease[s] /\ Registered(s) /\ s \notin fired /\ s \notin Replaced(c)
      BY <2>2
    <3>2. entry[lease[s].chat] = [id |-> lease[s].id, run |-> s]
      BY <3>1 DEF CurrentOrCancelled
    <3>3. lease[s].chat # c
      BY <3>1, <3>2 DEF Replaced
    <3> QED BY <3>1, <3>2, <3>3
  <2> QED BY <2>1, <2>2
<1>4. NoOrphanEntry'
  <2> SUFFICES ASSUME NEW d \in Chats, entry'[d].run # NoRun
               PROVE  lease'[entry'[d].run] = [id |-> entry'[d].id, chat |-> d]
    BY DEF NoOrphanEntry
  <2>1. CASE d = c
    BY <2>1
  <2>2. CASE d # c
    <3>1. entry'[d] = entry[d] /\ lease[entry[d].run] = [id |-> entry[d].id, chat |-> d]
      BY <2>2 DEF NoOrphanEntry
    <3>2. entry[d].run # r
      BY <3>1
    <3> QED BY <3>1, <3>2
  <2> QED BY <2>1, <2>2
<1>5. LeasesDistinct'
  BY <1>1 DEF LeasesDistinct
<1> QED BY <1>2, <1>3, <1>4, <1>5

\* Every step of the registry preserves the invariant.
LEMMA SessionStep == SessionInv /\ [Next]_sessionVars => SessionInv'
<1> SUFFICES ASSUME SessionInv, [Next]_sessionVars PROVE SessionInv'
  OBVIOUS
<1>1. ASSUME NEW r \in Runs, NEW c \in Chats, Register(r, c) PROVE SessionInv'
  <2> DEFINE F == (fired \cup Replaced(c)) \ {r}
  <2>1. F \in SUBSET Runs
    BY DEF SessionInv, TypeOK, Entry, NoEntry, Replaced
  <2> QED BY <1>1, <2>1, EnterPreserves DEF Register
<1>2. ASSUME NEW r \in Runs, NEW c \in Chats, RegisterToken(r, c) PROVE SessionInv'
  <2> DEFINE F == fired \cup Replaced(c)
  <2>1. F \in SUBSET Runs
    BY DEF SessionInv, TypeOK, Entry, NoEntry, Replaced
  <2> QED BY <1>2, <2>1, EnterPreserves DEF RegisterToken
<1>3. ASSUME NEW c \in Chats, Cancel(c) PROVE SessionInv'
  BY <1>3 DEF Cancel, Replaced, SessionInv, TypeOK, CurrentOrCancelled, NoOrphanEntry,
              LeasesDistinct, Registered, Entry, NoEntry
<1>4. ASSUME NEW r \in Runs, Remove(r) PROVE SessionInv'
  <2> USE DEF SessionInv, TypeOK, Registered, Remove, Entry, Lease, NoEntry, NoLease
  <2>1. TypeOK'
    BY <1>4
  <2>2. \A s \in Runs : Registered(s)' => s # r /\ lease'[s] = lease[s] /\ Registered(s)
    BY <1>4
  <2>3. CurrentOrCancelled'
    <3> SUFFICES ASSUME NEW s \in Runs, Registered(s)', s \notin fired'
                 PROVE  entry'[lease'[s].chat] = [id |-> lease'[s].id, run |-> s]
      BY DEF CurrentOrCancelled
    <3>1. entry[lease[s].chat] = [id |-> lease[s].id, run |-> s] /\ s # r
      BY <2>2, <1>4 DEF CurrentOrCancelled
    <3>2. IsCurrent(r) => lease[s].chat # lease[r].chat
      BY <1>4, <2>2, <3>1 DEF IsCurrent, LeasesDistinct
    <3> QED BY <1>4, <2>2, <3>1, <3>2
  <2>4. NoOrphanEntry'
    <3> SUFFICES ASSUME NEW d \in Chats, entry'[d].run # NoRun
                 PROVE  lease'[entry'[d].run] = [id |-> entry'[d].id, chat |-> d]
      BY DEF NoOrphanEntry
    <3>1. entry'[d] = entry[d]
      BY <1>4
    <3>2. lease[entry[d].run] = [id |-> entry[d].id, chat |-> d] /\ entry[d].run \in Runs
      BY <3>1 DEF NoOrphanEntry
    <3>3. entry[d].run # r
      BY <1>4, <3>1, <3>2 DEF IsCurrent
    <3> QED BY <1>4, <3>1, <3>2, <3>3
  <2>5. LeasesDistinct'
    BY <1>4, <2>2 DEF LeasesDistinct
  <2> QED BY <2>1, <2>3, <2>4, <2>5
<1>5. ASSUME NEW r \in Runs, FireOwn(r) PROVE SessionInv'
  BY <1>5 DEF FireOwn, SessionInv, TypeOK, CurrentOrCancelled, NoOrphanEntry,
              LeasesDistinct, Registered
<1>6. CASE Restart
  BY <1>6 DEF Restart, SessionInv, TypeOK, CurrentOrCancelled, NoOrphanEntry,
              LeasesDistinct, Registered, Entry, Lease, NoEntry, NoLease
<1>7. CASE UNCHANGED sessionVars
  BY <1>7 DEF sessionVars, SessionInv, TypeOK, CurrentOrCancelled, NoOrphanEntry,
              LeasesDistinct, Registered
<1> QED BY <1>1, <1>2, <1>3, <1>4, <1>5, <1>6, <1>7 DEF Next

\* Types, ids, owners and the reachability of every uncancelled run, together.
THEOREM SessionInvariant == Spec => []SessionInv
<1>1. Init => SessionInv
  BY DEF Init, SessionInv, TypeOK, CurrentOrCancelled, NoOrphanEntry, LeasesDistinct,
         Registered, Entry, Lease, NoEntry, NoLease
<1> QED BY <1>1, SessionStep, PTL DEF Spec

\* Type correctness: ids, entries, leases and tokens are those of the registry.
THEOREM SessionTypeCorrect == Spec => []TypeOK
<1>1. SessionInv => TypeOK
  BY DEF SessionInv
<1> QED BY <1>1, SessionInvariant, PTL

\* An entry is always that of a run which will still remove it (the
\* callers of register call remove on every way out).
THEOREM EntryHasItsRun == Spec => []NoOrphanEntry
<1>1. SessionInv => NoOrphanEntry
  BY DEF SessionInv
<1> QED BY <1>1, SessionInvariant, PTL

\* Stop reaches every registered run that nothing has cancelled (cancel finds
\* its token in the entry of its chat).
THEOREM StopReachesRun == Spec => []CurrentOrCancelled
<1>1. SessionInv => CurrentOrCancelled
  BY DEF SessionInv
<1> QED BY <1>1, SessionInvariant, PTL

\* However registrations and removals interleave, at most one registered run
\* of a chat goes on.
THEOREM AtMostOneUncancelled == Spec => []OneUncancelledRun
<1>1. SessionInv => OneUncancelledRun
  <2> SUFFICES ASSUME SessionInv, NEW r \in Runs, NEW s \in Runs,
                      Registered(r), Registered(s), lease[r].chat = lease[s].chat,
                      r \notin fired, s \notin fired
               PROVE  r = s
    BY DEF OneUncancelledRun
  <2> DEFINE e == entry[lease[r].chat]
  <2>1. e = [id |-> lease[r].id, run |-> r]
    BY DEF SessionInv, CurrentOrCancelled, Registered
  <2>2. e = [id |-> lease[s].id, run |-> s]
    BY DEF SessionInv, CurrentOrCancelled, Registered
  <2>3. e.run = r
    BY <2>1
  <2>4. e.run = s
    BY <2>2
  <2> QED BY <2>3, <2>4
<1> QED BY <1>1, SessionInvariant, PTL

\* A superseded run that finishes leaves the entry of its successor in place.
THEOREM RemovedByOwner == Spec => EntryRemovedByOwner
<1>1. SessionInv /\ [Next]_sessionVars =>
        [\A c \in Chats : entry[c].run # NoRun /\ entry'[c].run = NoRun =>
            Restart \/ Remove(entry[c].run)]_sessionVars
  <2> SUFFICES ASSUME SessionInv, Next, NEW c \in Chats,
                      entry[c].run # NoRun, entry'[c].run = NoRun
               PROVE  Restart \/ Remove(entry[c].run)
    OBVIOUS
  <2> USE DEF SessionInv, TypeOK, Entry, NoEntry
  <2>1. ASSUME NEW r \in Runs, NEW d \in Chats, Register(r, d) \/ RegisterToken(r, d)
        PROVE  FALSE
    BY <2>1 DEF Register, RegisterToken, Enter
  <2>2. ASSUME NEW d \in Chats, Cancel(d) PROVE FALSE
    BY <2>2 DEF Cancel
  <2>3. ASSUME NEW r \in Runs, Remove(r) PROVE Remove(entry[c].run)
    <3>1. IsCurrent(r) /\ lease[r].chat = c
      BY <2>3 DEF Remove
    <3>2. entry[c].run \in Runs /\ lease[entry[c].run] = [id |-> entry[c].id, chat |-> c]
      BY DEF NoOrphanEntry
    <3>3. entry[c].run = r
      BY <3>1, <3>2 DEF IsCurrent, LeasesDistinct, Registered
    <3> QED BY <2>3, <3>3
  <2>4. ASSUME NEW r \in Runs, FireOwn(r) PROVE FALSE
    BY <2>4 DEF FireOwn
  <2> QED BY <2>1, <2>2, <2>3, <2>4 DEF Next
<1> QED BY <1>1, SessionInvariant, PTL DEF Spec, EntryRemovedByOwner
=============================================================================
