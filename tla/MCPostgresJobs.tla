--------------------------- MODULE MCPostgresJobs ---------------------------
(* Instances of the PostgreSQL job repository for TLC. *)
EXTENDS PostgresJobs, TLC

CONSTANTS k1, k2, plain, artifacts

Keys == {k1, k2}
OnePriority == {0}
Results == {plain, artifacts}
WithEvidence == {artifacts}
=============================================================================
