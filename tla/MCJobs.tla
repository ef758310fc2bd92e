------------------------------- MODULE MCJobs -------------------------------
(* Instances of the job repository for TLC. *)
EXTENDS Jobs, TLC

CONSTANTS k1, k2, plain, artifacts

Keys == {k1, k2}
OneKey == {k1}
Priorities == {0, 1}
Results == {plain, artifacts}
WithEvidence == {artifacts}

=============================================================================
