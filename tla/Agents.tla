------------------------------- MODULE Agents -------------------------------
(***************************************************************************)
(* Runs of both agents behind one provider limiter: a process of the       *)
(* platform calls any number of skills of Rigel and Vega at a time.        *)
(***************************************************************************)
EXTENDS Rigel, Vega

ASSUME AgentsAssumption ==
    /\ RigelRuns \subseteq Callers /\ VegaRuns \subseteq Callers
    /\ RigelRuns \cap VegaRuns = {} /\ Nobody \notin RigelRuns
    /\ Scores \subseteq Nat

agentVars == <<limiterVars, mishaps, rigel, workspace, vega>>

AgentsInit == LimiterInit /\ RigelInit /\ VegaInit

Ended ==
    /\ \A r \in RigelRuns : rigel[r].pc \in {"returned", "raised", "absent"}
    /\ \A v \in VegaRuns : vega[v].pc \in {"ended", "absent"}

AgentsNext ==
    \/ LimiterStep /\ UNCHANGED <<rigel, workspace, vega>>
    \/ RigelStep /\ UNCHANGED vega
    \/ VegaStep /\ UNCHANGED <<rigel, workspace>>
    \/ Ended /\ calls = {} /\ UNCHANGED agentVars

AgentsSpec == AgentsInit /\ [][AgentsNext]_agentVars

\* What the agents tell their callers, the bus and the refinery about a run is
\* what happened in it (agents/rigel/agent.py:214-330, agents/vega/pipeline.py:74-187).
ReportsEarned == RigelReports /\ VegaReports
=============================================================================
