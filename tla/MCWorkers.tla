------------------------------ MODULE MCWorkers ------------------------------
(* Instances of the worker fleet for TLC. *)
EXTENDS Workers, TLC

CONSTANTS k1, k2, w1, w2, plain, artifacts

OneKey == {k1}
Keys == {k1, k2}
OneWorker == {w1}
Workers2 == {w1, w2}
OnePriority == {0}
Priorities == {0, 1}
OneResult == {artifacts}
WithEvidence == {artifacts}
=============================================================================
