----------------------------- MODULE MCHostLaunch -----------------------------
(* Constants of the runs of HostLaunch.                                    *)
EXTENDS HostLaunch

OneSession == [p \in Processes |-> 1]

\* Every process in its own session, but for the client that launches h1.
TwoSessions == [p \in Processes |-> IF p \in {"c1", "h1"} THEN 1 ELSE 2]
=============================================================================
