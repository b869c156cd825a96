---------------------------- MODULE MCDashboard ----------------------------
(* A small instance of Dashboard for TLC: every run is one of Bunyan, the   *)
(* tool that starts a helper process.                                      *)
EXTENDS Dashboard

CONSTANTS r1, r2, bunyan

BunyanTool == {bunyan}
BunyanRuns == [r \in Runs |-> bunyan]
=============================================================================
