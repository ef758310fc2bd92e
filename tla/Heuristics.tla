----------------------------- MODULE Heuristics -----------------------------
(***************************************************************************)
(* The heuristic cycle of Orion (orion/pipeline/heuristic_generation.py):  *)
(* routing updates, drift alerts and fine-tuning triggers published from   *)
(* the signals of the last day (signal_extraction.py) and the trend of     *)
(* each agent over a week and a month.                                     *)
(*                                                                         *)
(* The cycle awaits between its reads, so events arrive meanwhile; a step  *)
(* is one read of the event log or one message.  Events arrive in the      *)
(* order of their timestamps.  An event's age is a class: the last day,    *)
(* the last week, the last month, older.  A cycle takes seconds, so ages   *)
(* change between cycles only.  Averages are compared by                   *)
(* cross-multiplication: the rounding to four digits is left out.          *)
(***************************************************************************)
EXTENDS Learning

CONSTANTS Feedback,        \* the events that may arrive
          MaxEvents,       \* bound: events in the log
          MinSample,       \* routing_min_sample_size
          Lead,            \* routing_confidence_delta
          Drop,            \* drift_confidence_drop
          CorrectionRate   \* fine_tune_correction_rate

\* A confidence is a percentage, and a drop is one (OrionConfig).
ASSUME HeuristicsAssumption ==
    /\ \A ev \in Feedback : ev.confidence \in Nat
    /\ Drop \in Nat \ {0}

VARIABLES log,         \* feedback_events, oldest first: [ev, age]
          cycle,       \* the cycle in progress
          published    \* the messages on the streams

heuristicVars == <<log, cycle, published>>

\* A cycle: what is left to do of domains or signals, the signals, the agents
\* to look at, the agent at hand, its events of the week, and whether others
\* came before those of the month were read.
NoCycle == [at |-> "idle", todo |-> {}, signals |-> {}, agents |-> {}, agent |-> None, week |-> {}, raced |-> FALSE]

Recent(maxAge) == {i \in DOMAIN log : log[i].age <= maxAge}

\* The sums of the first elements of a sequence of numbers.
Sums(f) == LET to[n \in 0..Len(f)] == IF n = 0 THEN 0 ELSE to[n - 1] + f[n] IN to

Sum(S) == Sums([i \in 1..Len(log) |-> IF i \in S THEN log[i].ev.confidence ELSE 0])[Len(log)]

\* The average over S exceeds the one over T by d or more.
AtLeastAbove(S, T, d) == Sum(S) * Cardinality(T) - Sum(T) * Cardinality(S) >= d * Cardinality(S) * Cardinality(T)

-----------------------------------------------------------------------------
(* Signals.                                                                *)

\* _deduplicate: the most confident event per input, the first of equals.
Best(S) ==
    {i \in S : \A j \in S : log[j].ev.hash = log[i].ev.hash =>
        \/ log[j].ev.confidence < log[i].ev.confidence
        \/ log[j].ev.confidence = log[i].ev.confidence /\ i <= j}

\* extract: the events of the domain's last day that count.
Signal(d) ==
    LET all == Best({i \in Recent(0) : log[i].ev.domain = d})
    IN  [domain    |-> d,
         total     |-> Cardinality(all),
         corrected |-> {i \in all : log[i].ev.correction # None},
         high      |-> {i \in all : log[i].ev.confidence > 90 /\ log[i].ev.correction = None}]

Counted(signal) == signal.high \cup signal.corrected

BugCollectAgentIds(signals) == {log[i].ev.agent : i \in DOMAIN log}   \* agents without recent events
\* _collect_agent_ids.
CollectAgentIds(signals) == {log[i].ev.agent : i \in UNION {Counted(s) : s \in signals}}

\* _has_conflicting_corrections: two corrections of one input.
HasConflictingCorrections(signal) ==
    \E i, j \in signal.corrected : /\ log[i].ev.hash = log[j].ev.hash
                                   /\ log[i].ev.correction # log[j].ev.correction

\* _check_routing: one agent leads every other of the signal's agents.
Leaders(signal) ==
    LET of(a) == {i \in Counted(signal) : log[i].ev.agent = a}
        those == CollectAgentIds({signal})
    IN  {a \in those : /\ signal.total >= MinSample /\ Cardinality(those) >= 2
                       /\ \A b \in those \ {a} : AtLeastAbove(of(a), of(b), Lead)}

EventsOf(a, maxAge) == {i \in Recent(maxAge) : log[i].ev.agent = a}

\* get_agent_trend and _is_drifting: the average of the last week, 0 without
\* events, against the one of the last month.
IsDrifting(week, month) ==
    /\ month # {}
    /\ IF week = {} THEN Sum(month) >= Drop * Cardinality(month) ELSE AtLeastAbove(month, week, Drop)

\* _check_fine_tune: the rate of corrections.  The count of corrections is read
\* from a file that no code in the service writes any more, and is 0.
FineTuneDue(signal) ==
    signal.total > 0 /\ 100 * Cardinality(signal.corrected) >= CorrectionRate * signal.total

-----------------------------------------------------------------------------
(* The cycle.                                                              *)

\* run_cycle lists the domains ...
StartHeuristics ==
    /\ cycle.at = "idle" /\ log # <<>>
    /\ cycle' = [NoCycle EXCEPT !.at = "extract", !.todo = {log[i].ev.domain : i \in DOMAIN log}]
    /\ UNCHANGED <<log, published, vars>>

\* ... reads the signal of each ...
ExtractSignal(d) ==
    /\ cycle.at = "extract" /\ d \in cycle.todo
    /\ cycle' = [cycle EXCEPT !.todo = @ \ {d}, !.signals = @ \cup {Signal(d)}]
    /\ UNCHANGED <<log, published, vars>>

CollectAgents ==
    /\ cycle.at = "extract" /\ cycle.todo = {}
    /\ cycle' = [cycle EXCEPT !.at = "routing", !.todo = cycle.signals, !.agents = CollectAgentIds(cycle.signals)]
    /\ UNCHANGED <<log, published, vars>>

\* ... publishes the routing updates ...
CheckRouting(s) ==
    /\ cycle.at = "routing" /\ s \in cycle.todo
    /\ published' = published \cup {[kind |-> "routing", domain |-> s.domain, agent |-> a] : a \in Leaders(s)}
    /\ cycle' = [cycle EXCEPT !.todo = @ \ {s}]
    /\ UNCHANGED <<log, vars>>

\* ... looks at the agents one by one, which takes two reads ...
ReadWeek(a) ==
    /\ cycle.at = "routing" /\ cycle.todo = {} /\ a \in cycle.agents
    /\ cycle' = [cycle EXCEPT !.at = "month", !.agents = @ \ {a}, !.agent = a, !.week = EventsOf(a, 1)]
    /\ UNCHANGED <<log, published, vars>>

ReadMonth ==
    /\ cycle.at = "month"
    /\ cycle' = [cycle EXCEPT !.at = IF IsDrifting(cycle.week, EventsOf(cycle.agent, 2)) THEN "alert" ELSE "routing",
                             !.raced = (cycle.week # EventsOf(cycle.agent, 1))]
    /\ UNCHANGED <<log, published, vars>>

\* ... alerts, with a trend read again for the message ...
EmitDriftAlert ==
    /\ cycle.at = "alert"
    /\ published' = published \cup {[kind |-> "drift", agent |-> cycle.agent, raced |-> cycle.raced]}
    /\ cycle' = [cycle EXCEPT !.at = "routing"]
    /\ UNCHANGED <<log, vars>>

\* ... and triggers fine-tuning for the domains without conflicts.
AgentsDone ==
    /\ cycle.at = "routing" /\ cycle.todo = {} /\ cycle.agents = {}
    /\ cycle' = [cycle EXCEPT !.at = "fine_tune", !.todo = cycle.signals]
    /\ UNCHANGED <<log, published, vars>>

CheckFineTune(s) ==
    /\ cycle.at = "fine_tune" /\ s \in cycle.todo
    /\ published' = published \cup {[kind |-> "fine_tune", domain |-> t.domain] :
                                       t \in {u \in {s} : ~HasConflictingCorrections(u) /\ FineTuneDue(u)}}
    /\ cycle' = [cycle EXCEPT !.todo = @ \ {s}]
    /\ UNCHANGED <<log, vars>>

\* The cycle is through, or the database or Redis fails: it ends where it is,
\* and what is published stays.
EndHeuristics ==
    /\ cycle.at # "idle"
    /\ cycle' = NoCycle
    /\ UNCHANGED <<log, published, vars>>

\* append: ingestion stores an event.
StoreFeedback(ev) ==
    /\ Len(log) < MaxEvents
    /\ log' = Append(log, [ev |-> ev, age |-> 0])
    /\ UNCHANGED <<cycle, published, vars>>

\* Days pass.
GrowOld ==
    /\ cycle.at = "idle" /\ log # <<>>
    /\ log' = [i \in DOMAIN log |-> [log[i] EXCEPT !.age = IF @ = 3 THEN 3 ELSE @ + 1]]
    /\ UNCHANGED <<cycle, published, vars>>

HeuristicInit == log = <<>> /\ cycle = NoCycle /\ published = {}

HeuristicNext ==
    \/ StartHeuristics \/ CollectAgents \/ ReadMonth \/ EmitDriftAlert \/ AgentsDone \/ EndHeuristics \/ GrowOld
    \/ \E d \in cycle.todo : ExtractSignal(d)
    \/ \E s \in cycle.todo : CheckRouting(s) \/ CheckFineTune(s)
    \/ \E a \in cycle.agents : ReadWeek(a)
    \/ \E ev \in Feedback : StoreFeedback(ev)

\* The cycle beside the requests of Learning.
HeuristicSpec ==
    /\ Init /\ HeuristicInit
    /\ [][HeuristicNext \/ (Next /\ UNCHANGED heuristicVars)]_<<vars, heuristicVars>>

-----------------------------------------------------------------------------
\* Two events of an agent, the later one less confident by the threshold; if
\* events arrived between the reads, in either order.
Drifted(a, raced) ==
    \E i, j \in DOMAIN log : /\ i < j \/ raced
                             /\ log[i].ev.agent = a /\ log[j].ev.agent = a
                             /\ log[i].ev.confidence - log[j].ev.confidence >= Drop

\* A drift alert is earned by the agent's own record.  An agent without events
\* in the last week, whose average would read 0, is never alerted about,
\* because the cycle looks only at agents of the last day.  Events that arrive
\* between the two reads of the trend count for the month only, so that a rise
\* may be taken for a drop; in no other case is it.
DriftIsWitnessed == \A p \in published : p.kind = "drift" => Drifted(p.agent, p.raced)

\* The corrections of one input never conflict within a signal, since the
\* signal keeps one event per input: the cycle never holds a trigger back.
ConflictsNeverSeen == \A s \in cycle.signals : ~HasConflictingCorrections(s)

\* What the heuristic cycle publishes is borne out by the log it looked at
\* (_emit_drift_alert, get_agent_trend, _has_conflicting_corrections).
HeuristicsInv == DriftIsWitnessed /\ ConflictsNeverSeen
=============================================================================
