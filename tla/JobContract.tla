----------------------------- MODULE JobContract -----------------------------
(***************************************************************************)
(* What a caller of the job repository may rely on, with no attempts,      *)
(* leases, clocks or retries: an accepted job ends at most once, as        *)
(* completed with one answer, failed or cancelled; a completed answer that *)
(* carries evidence owes exactly one notice to the publisher.              *)
(***************************************************************************)
CONSTANTS Key, Result, Evidence, None

VARIABLES
    phase,   \* "absent", "accepted", "completed", "failed" or "cancelled"
    answer,  \* the stored result
    notice   \* "none", "owed" or "sent"

vars == <<phase, answer, notice>>

Init ==
    /\ phase  = [k \in Key |-> "absent"]
    /\ answer = [k \in Key |-> None]
    /\ notice = [k \in Key |-> "none"]

Accept(k) ==
    /\ phase[k] = "absent"
    /\ phase' = [phase EXCEPT ![k] = "accepted"]
    /\ UNCHANGED <<answer, notice>>

Finish(k, r) ==
    /\ phase[k] = "accepted"
    /\ phase'  = [phase EXCEPT ![k] = "completed"]
    /\ answer' = [answer EXCEPT ![k] = r]
    /\ notice' = [notice EXCEPT ![k] = IF r \in Evidence THEN "owed" ELSE "none"]

\* One reclaim may give up on several jobs.
GiveUp(S) ==
    /\ \A k \in S : phase[k] = "accepted"
    /\ phase' = [k \in Key |-> IF k \in S THEN "failed" ELSE phase[k]]
    /\ UNCHANGED <<answer, notice>>

Cancel(k) ==
    /\ phase[k] = "accepted"
    /\ phase' = [phase EXCEPT ![k] = "cancelled"]
    /\ UNCHANGED <<answer, notice>>

Send(k) ==
    /\ notice[k] = "owed"
    /\ notice' = [notice EXCEPT ![k] = "sent"]
    /\ UNCHANGED <<phase, answer>>

Next ==
    \/ \E k \in Key : Accept(k) \/ Cancel(k) \/ Send(k)
    \/ \E k \in Key, r \in Result \cup {None} : Finish(k, r)
    \/ \E S \in SUBSET Key : GiveUp(S)

Spec == Init /\ [][Next]_vars
=============================================================================
