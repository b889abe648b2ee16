--------------------------- MODULE ActiveSessions ---------------------------
(***************************************************************************)
(* The registry of running turns (core/state.rs): for every chat at most   *)
(* one entry, a generation number and the cancel token of the run that     *)
(* registered last.  Every operation holds the registry's lock, so each is *)
(* one step.  A run registers, works, and removes the entry it was given,  *)
(* unless a later run has replaced it by then.  A definition called a      *)
(* variant is a wrong one, which the properties must tell from the code's. *)
(***************************************************************************)
EXTENDS Naturals

CONSTANTS
    Chats,
    Runs, NoRun,    \* runs; a run and its cancel token have one name
    MaxId           \* bound: registrations, the AtomicU64 next_id

ASSUME SessionAssumption ==
    /\ NoRun \notin Runs
    /\ "None" \notin Chats
    /\ MaxId \in Nat

VARIABLES
    entry,      \* inner: the entry of each chat
    nextId,     \* next_id
    fired,      \* the runs whose token is cancelled
    lease       \* what each run got from its registration and still has to remove

sessionVars == <<entry, nextId, fired, lease>>

NoEntry == [id |-> 0, run |-> NoRun]
Entry == [id : 0..MaxId, run : Runs] \cup {NoEntry}
NoLease == [id |-> 0, chat |-> "None"]
Lease == [id : 0..MaxId, chat : Chats \cup {"None"}]

Registered(r) == lease[r].chat # "None"

TypeOK ==
    /\ entry \in [Chats -> Entry]
    /\ nextId \in 0..MaxId
    /\ fired \subseteq Runs
    /\ lease \in [Runs -> Lease]

Init ==
    /\ entry = [c \in Chats |-> NoEntry]
    /\ nextId = 0
    /\ fired = {}
    /\ lease = [r \in Runs |-> NoLease]

-----------------------------------------------------------------------------
\* Variant: no look whether there is an entry.
ReplacedUnchecked(c) == {entry[c].run}
\* The run whose entry a registration for chat c replaces and cancels.
Replaced(c) == {entry[c].run} \ {NoRun}

\* fetch_add returns the old value; ids start at 0.
Enter(r, c) ==
    /\ nextId < MaxId
    /\ nextId' = nextId + 1
    /\ entry' = [entry EXCEPT ![c] = [id |-> nextId, run |-> r]]
    /\ lease' = [lease EXCEPT ![r] = [id |-> nextId, chat |-> c]]

\* Variant: the run that is replaced is not cancelled.
RegisterQuietly(r, c) ==
    /\ ~Registered(r)
    /\ Enter(r, c)
    /\ fired' = fired \ {r}

\* register: a fresh token for the new run.
Register(r, c) ==
    /\ ~Registered(r)
    /\ Enter(r, c)
    /\ fired' = (fired \cup Replaced(c)) \ {r}

\* register_token: the caller's own token, which may be cancelled already.
RegisterToken(r, c) ==
    /\ ~Registered(r)
    /\ Enter(r, c)
    /\ fired' = fired \cup Replaced(c)

\* cancel: Stop in the chat.
Cancel(c) ==
    /\ fired' = fired \cup Replaced(c)
    /\ UNCHANGED <<entry, nextId, lease>>

\* is_current
IsCurrent(r) ==
    /\ Registered(r)
    /\ entry[lease[r].chat].run # NoRun
    /\ entry[lease[r].chat].id = lease[r].id

\* Variant: removes whatever entry the chat has.
RemoveByChat(r) ==
    /\ Registered(r)
    /\ entry' = [entry EXCEPT ![lease[r].chat] = NoEntry]
    /\ lease' = [lease EXCEPT ![r] = NoLease]
    /\ UNCHANGED <<nextId, fired>>

\* Variant: a cancelled run leaves its entry behind.
RemoveUnlessCancelled(r) ==
    /\ Registered(r)
    /\ entry' = IF IsCurrent(r) /\ r \notin fired
                THEN [entry EXCEPT ![lease[r].chat] = NoEntry] ELSE entry
    /\ lease' = [lease EXCEPT ![r] = NoLease]
    /\ UNCHANGED <<nextId, fired>>

\* remove: only if the entry still has the generation of the caller.
Remove(r) ==
    /\ Registered(r)
    /\ entry' = IF IsCurrent(r) THEN [entry EXCEPT ![lease[r].chat] = NoEntry] ELSE entry
    /\ lease' = [lease EXCEPT ![r] = NoLease]
    /\ UNCHANGED <<nextId, fired>>

\* The task executor's own token is also cancelled by TaskExecutor::cancel_task.
FireOwn(r) ==
    /\ fired' = fired \cup {r}
    /\ UNCHANGED <<entry, nextId, lease>>

\* The registry dies with the process.
Restart ==
    /\ entry' = [c \in Chats |-> NoEntry]
    /\ nextId' = 0
    /\ fired' = {}
    /\ lease' = [r \in Runs |-> NoLease]

Next ==
    \/ \E r \in Runs, c \in Chats : Register(r, c) \/ RegisterToken(r, c)
    \/ \E c \in Chats : Cancel(c)
    \/ \E r \in Runs : Remove(r) \/ FireOwn(r)
    \/ Restart

Spec == Init /\ [][Next]_sessionVars

-----------------------------------------------------------------------------
\* Stop can reach every run that nothing has cancelled yet: a registered run
\* is the one its chat's entry names, or its token has been cancelled.  So a
\* chat never has two runs that both go on, and a run that was superseded
\* cannot take its successor out of the registry (remove compares ids).
CurrentOrCancelled ==
    \A r \in Runs : Registered(r) /\ r \notin fired
                       => entry[lease[r].chat] = [id |-> lease[r].id, run |-> r]

\* An entry names a run that still has to remove it: no token stays behind.
NoOrphanEntry ==
    \A c \in Chats : entry[c].run # NoRun =>
        lease[entry[c].run] = [id |-> entry[c].id, chat |-> c]

\* Ids in use are below the counter and no two runs share one.
LeasesDistinct ==
    \A r \in Runs : Registered(r) =>
        /\ lease[r].id < nextId
        /\ \A s \in Runs : Registered(s) /\ s # r => lease[s].id # lease[r].id

SessionInv == TypeOK /\ CurrentOrCancelled /\ NoOrphanEntry /\ LeasesDistinct

\* At most one of a chat's registered runs goes on (its token is not cancelled).
OneUncancelledRun ==
    \A r, s \in Runs :
        /\ Registered(r) /\ Registered(s) /\ lease[r].chat = lease[s].chat
        /\ r \notin fired /\ s \notin fired
        => r = s

\* The entry of a chat goes away only when its own run removes it (or the
\* process dies), whoever else finishes in the meantime.
EntryRemovedByOwner ==
    [][\A c \in Chats : entry[c].run # NoRun /\ entry'[c].run = NoRun =>
          Restart \/ Remove(entry[c].run)]_sessionVars
=============================================================================
