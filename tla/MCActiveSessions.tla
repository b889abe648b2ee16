-------------------------- MODULE MCActiveSessions --------------------------
(* Small instances of ActiveSessions. *)
EXTENDS ActiveSessions, TLC

RunSymmetry == Permutations(Runs)
=============================================================================
