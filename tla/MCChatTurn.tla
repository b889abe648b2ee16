------------------------------ MODULE MCChatTurn ------------------------------
(* Small instances of ChatTurn: one chat, the messages of which compete.     *)
EXTENDS ChatTurn, TLC

OneChat == [m \in Msgs |-> "c1"]
TurnSymmetry == Permutations(Runs) \cup Permutations(Reqs)
=============================================================================
