----------------------------- MODULE MCMonitor -----------------------------
(***************************************************************************)
(* Monitor for TLC, with the deployments of its runs.                      *)
(***************************************************************************)
EXTENDS Monitor, TLC

Socket == [live |-> TRUE, flaky |-> FALSE, discovery |-> FALSE, actions |-> TRUE]
FlakySocket == [Socket EXCEPT !.flaky = TRUE, !.discovery = TRUE]
RestOnly == [live |-> FALSE, flaky |-> FALSE, discovery |-> TRUE, actions |-> TRUE]
OldRestOnly == [RestOnly EXCEPT !.actions = FALSE]

AllSetups == {Socket, FlakySocket, RestOnly, OldRestOnly}
=============================================================================
