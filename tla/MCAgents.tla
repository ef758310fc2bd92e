------------------------------ MODULE MCAgents ------------------------------
(* Runs of both agents behind one provider limiter. *)
EXTENDS Agents, TLC

MCRigelTasks ==
    {[skill |-> "code_generation", inWorkspace |-> TRUE, tests |-> FALSE],
     [skill |-> "code_generation", inWorkspace |-> FALSE, tests |-> TRUE],
     [skill |-> "scaffold", inWorkspace |-> TRUE, tests |-> FALSE],
     [skill |-> "pr_review", inWorkspace |-> TRUE, tests |-> FALSE]}

MCVegaTasks ==
    {[skill |-> "requirements_to_test_cases", results |-> "none"],
     [skill |-> "test_case_execution", results |-> "bare_dict"],
     [skill |-> "test_case_execution", results |-> "junk"]}
    \cup [skill : {"defect_reporting"}, results : {"none", "passing", "failing", "bare_dict"}]

MCScores == {100, 200}

\* Two runs at a time; a task is only looked at in a run that takes place.
NoTask == CHOOSE t \in RigelTasks : TRUE
NoVegaTask == CHOOSE t \in VegaTasks : TRUE

Absent == {r \in RigelRuns : rigel[r].pc = "absent"} \cup {v \in VegaRuns : vega[v].pc = "absent"}

Init ==
    /\ AgentsInit
    /\ Cardinality(Absent) = 1
    /\ \A r \in RigelRuns \cap Absent : rigel[r].task = NoTask /\ ~rigel[r].sound
    /\ \A v \in VegaRuns \cap Absent : vega[v].task = NoVegaTask

Spec == Init /\ [][AgentsNext]_agentVars

Symmetry == Permutations(RigelRuns) \cup Permutations(Names)
=============================================================================
