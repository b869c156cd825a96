------------------------------ MODULE ToolRuns ------------------------------
(***************************************************************************)
(* What the dashboard promises about runs of its tools, without tasks,     *)
(* builds, processes or pipes: a run is idle until its request arrives, is *)
(* the active run of its tool until it is stopped, superseded or over, and *)
(* then ends.  Dashboard implements this specification.                    *)
(***************************************************************************)
CONSTANTS Runs,    \* the requests to start a tool
          Tools,   \* the tools
          ToolOf   \* the tool each run is a run of

VARIABLE state

Phases == {"idle", "active", "stopping", "ended"}

Init == state = [r \in Runs |-> "idle"]

\* The run q of tool t, if it is active, is told to stop.
Displaced(q, t) == ToolOf[q] = t /\ state[q] = "active"

\* A new run takes its tool over: the run that was active is told to stop in
\* the same step, so a tool never has two active runs.
Start(r) ==
    /\ state[r] = "idle"
    /\ state' = [q \in Runs |-> IF q = r THEN "active"
                                ELSE IF Displaced(q, ToolOf[r]) THEN "stopping"
                                ELSE state[q]]

\* Stop reaches the active run of the tool, and only that one.
Stop(t) ==
    /\ \E q \in Runs : Displaced(q, t)
    /\ state' = [q \in Runs |-> IF Displaced(q, t) THEN "stopping" ELSE state[q]]

\* A run ends on its own or because it was told to.
Finish(r) ==
    /\ state[r] \in {"active", "stopping"}
    /\ state' = [state EXCEPT ![r] = "ended"]

Next ==
    \/ \E r \in Runs : Start(r) \/ Finish(r)
    \/ \E t \in Tools : Stop(t)

Spec == Init /\ [][Next]_state

-----------------------------------------------------------------------------

TypeOK == state \in [Runs -> Phases]

\* A tool has at most one active run: Stop is never ambiguous.
OneActive ==
    \A p, q \in Runs :
        (state[p] = "active" /\ state[q] = "active" /\ ToolOf[p] = ToolOf[q]) => p = q
=============================================================================
