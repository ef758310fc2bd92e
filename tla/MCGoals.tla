------------------------------- MODULE MCGoals -------------------------------
(* Small instances of Goals: a first task and one that depends on it.       *)
EXTENDS Goals

CONSTANTS t1, t2, worker, api

MCDeps == [t \in Task |-> IF t = t2 THEN {t1} ELSE {}]
=============================================================================
