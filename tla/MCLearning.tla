----------------------------- MODULE MCLearning -----------------------------
(* A small instance of Learning and Heuristics.  The lessons, the          *)
(* candidates, the weights and the heuristic cycle share no state, so each *)
(* initial state runs one of the four.                                     *)
EXTENDS Heuristics

CONSTANTS S1, S2, A1, A2, A3, C1, C2, L1, L2, R1, R2, D1, H1, H2, K1, K2

VARIABLE part

MCSkills == {S1, S2}
MCAgents == {A1, A2, A3}
MCCorrection == S1 :> {1, 2} @@ S2 :> {3}
MCContent == {C1, C2}
MCLessonIds == {L1, L2}
MCRequests == {R1, R2}
MCAverages == {40, 44, 50, 70}
MCScores == {A1 :> 70 @@ A2 :> 35 @@ A3 :> 40, A1 :> 50 @@ A2 :> 0 @@ A3 :> 0, A1 :> 70 @@ A2 :> 40 @@ A3 :> 70}

MCHashes == {H1, H2}
Event(a, h, c, corr) == [agent |-> a, domain |-> D1, hash |-> h, confidence |-> c, correction |-> corr]
MCFeedback == {Event(a, h, c, None) : a \in {A1, A2}, h \in MCHashes, c \in {60, 95}}
                  \cup {Event(A1, H1, 60, K1), Event(A2, H1, 95, K2)}

Symmetry == Permutations(MCRequests) \cup Permutations(MCContent)

MCInit == Init /\ HeuristicInit /\ part \in {"lessons", "candidates", "weights", "heuristics"}

MCNext ==
    /\ UNCHANGED part
    /\ \/ part = "lessons" /\ LessonNext /\ UNCHANGED heuristicVars
       \/ part = "candidates" /\ CandidateNext /\ UNCHANGED heuristicVars
       \/ part = "weights" /\ WeightNext /\ UNCHANGED heuristicVars
       \/ part \in {"lessons", "candidates"} /\ Crash /\ UNCHANGED heuristicVars
       \/ part = "heuristics" /\ HeuristicNext

MCSpec == MCInit /\ [][MCNext]_<<vars, heuristicVars, part>>
=============================================================================
