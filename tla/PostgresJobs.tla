---------------------------- MODULE PostgresJobs ----------------------------
(***************************************************************************)
(* The PostgreSQL job repository (core/jobs/postgres_repository.py), which *)
(* "intentionally mirrors the SQLite repository's public operations".  It  *)
(* keeps the same tables, so the state, the clock and the contract are     *)
(* those of module Jobs; enqueue and heartbeat make the same comparisons   *)
(* and the same writes.  A transaction locks the rows it decides on (FOR   *)
(* UPDATE), so it is one action; claim and reclaim_expired skip the rows   *)
(* that another transaction has locked.                                    *)
(*                                                                         *)
(* record_failure and fail do not exist here, and no operation writes to   *)
(* completion_outbox, so acknowledge_completion never finds a row.         *)
(***************************************************************************)
EXTENDS Jobs

\* claim: a claimable row, the best of those that are not locked.
PgClaim(k, d) ==
    /\ Claimable(k, d)
    /\ status'  = [status EXCEPT ![k] = "running"]
    /\ count'   = [count EXCEPT ![k] = @ + 1]
    /\ active'  = [active EXCEPT ![k] = count[k] + 1]
    /\ outcome' = [outcome EXCEPT ![k][count[k] + 1] = "open"]
    /\ lease'   = [lease EXCEPT ![k] = LeaseTime - d]
    /\ age'     = [age EXCEPT ![k] = d]
    /\ RecordTransition(k, "running")
    /\ UNCHANGED <<priority, task, delay, since, inverted, output, outbox>>

\* complete by the lease holder; the output row is written or replaced.
PgComplete(k, n, r, d) ==
    /\ HoldsLease(k, n, d)
    /\ d <= age[k]
    /\ EndAttempt(k, n, "completed", d)
    /\ output' = IF r \in Result THEN [output EXCEPT ![k] = [by |-> n, val |-> r]] ELSE output
    /\ status' = [status EXCEPT ![k] = "completed"]
    /\ RecordTransition(k, "completed")
    /\ UNCHANGED <<priority, task, count, delay, since, outbox>>

BugPgCancel(k, d) ==   \* the running attempt is left open
    /\ status[k] \notin {"absent", "cancelled"}
    /\ d <= since[k]
    /\ active' = [active EXCEPT ![k] = 0]
    /\ status' = [status EXCEPT ![k] = "cancelled"]
    /\ RecordTransition(k, "cancelled")
    /\ UNCHANGED <<priority, task, count, delay, since, output, outbox, attemptVars>>
\* cancel: any job that is not cancelled yet.
PgCancel(k, d) ==
    /\ status[k] \notin {"absent", "cancelled"}
    /\ d <= since[k]
    /\ IF status[k] = "running"
       THEN EndAttempt(k, active[k], "cancelled", d)
       ELSE active' = [active EXCEPT ![k] = 0] /\ UNCHANGED attemptVars
    /\ status' = [status EXCEPT ![k] = "cancelled"]
    /\ RecordTransition(k, "cancelled")
    /\ UNCHANGED <<priority, task, count, delay, since, output, outbox>>

PgReclaimTarget(k) == IF count[k] >= MaxAttempts THEN "failed" ELSE "queued"

\* reclaim_expired: the expired leases E that are not locked; a job is
\* available again at once.
PgReclaim(E, d) ==
    /\ E # {}
    /\ E \subseteq Expired(d)
    /\ status' = [k \in Key |-> IF k \in E THEN PgReclaimTarget(k) ELSE status[k]]
    /\ active' = [k \in Key |-> IF k \in E THEN 0 ELSE active[k]]
    /\ delay'  = [k \in Key |-> IF k \in E THEN -d ELSE delay[k]]
    /\ outcome' = [k \in Key |-> [n \in Attempts |->
           IF k \in E /\ n = active[k] THEN "lease_expired" ELSE outcome[k][n]]]
    /\ lease' = [k \in Key |-> IF k \in E THEN -MaxLag ELSE lease[k]]
    /\ age'   = [k \in Key |-> IF k \in E THEN MaxLag ELSE age[k]]
    /\ trail' = [k \in Key |->
           IF k \in E THEN Append(trail[k], PgReclaimTarget(k)) ELSE trail[k]]
    /\ UNCHANGED <<priority, task, count, since, inverted, output, outbox>>

PgNext ==
    \/ \E k \in Key, p \in Priority, hasTask \in BOOLEAN, d \in Lags :
           Enqueue(k, p, hasTask, d)
    \/ \E k \in Key, d \in Lags : PgClaim(k, d) \/ PgCancel(k, d)
    \/ \E k \in Key, n \in Attempts, d \in Lags : Heartbeat(k, n, d)
    \/ \E k \in Key, n \in Attempts, r \in Result \cup {None}, d \in Lags :
           PgComplete(k, n, r, d)
    \/ \E E \in SUBSET Key, d \in Lags : PgReclaim(E, d)
    \/ Tick

PgSpec == Init /\ [][PgNext]_vars

\* Although claims and reclaims pass each other over locked rows and cancel
\* looks at no transition table, the lease protocol of the SQLite repository
\* holds: one open attempt per job, no job that no claim can reach, and an
\* audit trail that tells the status.
LeaseInv == TypeOK /\ OneLiveAttempt /\ NeverStranded /\ TrailTellsStatus
=============================================================================
