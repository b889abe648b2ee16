--------------------------- MODULE MCAppProcesses ---------------------------
(* Small instances of AppProcesses. *)
EXTENDS AppProcesses, TLC

CONSTANTS app1

Policies == app1 :> "on_failure"
OneApp == {app1}
PortRange == {4000, 4001, 4002}
=============================================================================
