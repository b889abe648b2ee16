----------------------------- MODULE MCSignals -----------------------------
(* A small instance of Signals: a wait for one message, for one candidate.   *)
EXTENDS Signals

Modes == [t \in Tasks |-> "once"]
Budgets == [t \in Tasks |-> 1]
=============================================================================
