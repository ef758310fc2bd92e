----------------------------- MODULE MCGateway ------------------------------
(* A small instance of Gateway and Tools.  Calls, streams, cards and tools *)
(* share no state, so each initial state runs one of them.                 *)
EXTENDS Gateway, Tools

CONSTANTS C1, C2, V1, I1, I2, I3, T1, T2

VARIABLE part

MCCalls == {C1, C2}
MCViewers == {V1}
MCRefused == {C2}
MCInstances == {I1, I2, I3}
MCThreads == {T1, T2}

mcVars == <<gatewayVars, toolVars, part>>

MCInit == GatewayInit /\ ToolInit /\ part \in MCCalls \cup MCViewers \cup {"cards", "tools"}

MCNext ==
    /\ UNCHANGED part
    /\ \/ \E c \in MCCalls : part = c /\ CallNext(c) /\ UNCHANGED toolVars
       \/ \E v \in MCViewers : part = v /\ StreamNext(v) /\ UNCHANGED toolVars
       \/ part = "cards" /\ CardNext /\ UNCHANGED toolVars
       \/ part = "tools" /\ ToolNext /\ UNCHANGED gatewayVars

MCSpec == MCInit /\ [][MCNext]_mcVars /\ \A c \in MCCalls : part = c => CallFairness(c)

\* EveryCallReturns, of the call that runs: every call comes back, also from an
\* instance that has no worker.
CallsReturn == \A c \in MCCalls : part = c => Returns(c)
=============================================================================
