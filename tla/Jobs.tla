-------------------------------- MODULE Jobs --------------------------------
(***************************************************************************)
(* The durable job repository (core/jobs/repository.py, SQLite).           *)
(*                                                                         *)
(* A job is named by its idempotency key: job_idempotency maps each key to *)
(* exactly one job, so the key is the job's identity.  The n-th execution  *)
(* attempt of job k is the pair (k, n); its lease token is a fresh UUID,   *)
(* so the pair names the token too.  Every operation of the repository is  *)
(* one BEGIN IMMEDIATE transaction, hence one action; a call that raises   *)
(* rolls back, hence the action is not enabled.                            *)
(*                                                                         *)
(* Time.  Each operation reads the clock BEFORE it waits for the write     *)
(* lock (now = now or _utc_now(); BEGIN IMMEDIATE; busy_timeout 10 s), so  *)
(* the transaction compares deadlines with a sample that may be up to      *)
(* MaxLag old.  Deadlines are kept relative to the present: delay[k] is    *)
(* available_at - now, lease[k] is the active attempt's lease_expires_at - *)
(* now, age[k] is now - started_at.  A transaction whose sample is d old   *)
(* sees "available_at <= sample" as delay[k] <= -d.  Nothing can be seen   *)
(* further back than MaxLag, so the timers stop there.                     *)
(***************************************************************************)
EXTENDS Integers, Sequences

CONSTANTS
    Key,          \* idempotency keys, one job each
    Priority,     \* job priorities
    Result,       \* what an executor may return
    Evidence,     \* the results with artifacts, or escalated to a human
    None,         \* no result (SQL NULL)
    MaxAttempts,  \* RetryPolicy.max_attempts
    LeaseTime,    \* lease_seconds, in ticks
    Backoff,      \* RetryPolicy.backoff_seconds, in ticks
    MaxBackoff,   \* RetryPolicy.max_backoff_seconds, in ticks
    MaxLag        \* longest wait for the write lock, in ticks

ASSUME JobsAssumption ==
    /\ Priority \subseteq Int
    /\ Evidence \subseteq Result
    /\ None \notin Result
    /\ MaxAttempts \in Nat \ {0}
    /\ LeaseTime \in Nat \ {0}
    /\ Backoff \in Nat
    /\ MaxBackoff \in Nat
    /\ Backoff <= MaxBackoff
    /\ MaxLag \in Nat

\* The provers know ^ as an operation on integers only.
ASSUME PowersOfTwo == \A n \in 0..MaxAttempts : 2^n \in Nat

VARIABLES
    status,    \* jobs.status; "absent" before the row exists
    priority,  \* jobs.priority
    task,      \* is there a job_tasks row?
    count,     \* jobs.attempt_count
    active,    \* the attempt number of jobs.active_attempt_id, 0 for NULL
    delay,     \* jobs.available_at, relative to now
    since,     \* time since the job's row was committed
    outcome,   \* execution_attempts: "none" (no row), "open" or the outcome
    lease,     \* lease_expires_at of the active attempt, relative to now
    age,       \* time since started_at of the active attempt
    inverted,  \* attempts stored with ended_at < started_at
    output,    \* job_outputs: the row and the attempt that wrote it
    outbox,    \* completion_outbox: the attempt (0: no row) and published_at
    trail      \* job_transitions: the to_status column, in order

attemptVars == <<outcome, lease, age, inverted>>
jobVars == <<status, priority, task, count, active, delay, since>>
sideVars == <<output, outbox, trail>>
vars == <<jobVars, attemptVars, sideVars>>

Attempts == 1..MaxAttempts
Lags == 0..MaxLag

\* JobStatus and the table _VALID_JOB_TRANSITIONS.
Statuses == {"queued", "running", "completed", "failed", "cancelled"}
Terminal == {"completed", "failed", "cancelled"}
BugValidTransitions ==   \* anything may be cancelled
    [s \in Statuses |-> IF s = "queued" THEN {"running", "cancelled"}
                        ELSE {"queued", "completed", "failed", "cancelled"}]
ValidTransitions ==
    [s \in Statuses |->
        CASE s = "queued"  -> {"running", "cancelled"}
          [] s = "running" -> {"queued", "completed", "failed", "cancelled"}
          [] OTHER         -> {}]

Outcomes == {"completed", "failed", "lease_expired", "cancelled"}

\* min(backoff * 2 ** max(attempt_count - 1, 0), max_backoff)
RetryDelay(n) ==
    LET raw == Backoff * 2^(IF n > 0 THEN n - 1 ELSE 0)
    IN  IF raw <= MaxBackoff THEN raw ELSE MaxBackoff

\* One tick of a deadline, and of an age.
Later(t) == IF t > -MaxLag THEN t - 1 ELSE t
Older(t) == IF t < MaxLag THEN t + 1 ELSE t

Init ==
    /\ status   = [k \in Key |-> "absent"]
    /\ priority = [k \in Key |-> 0]
    /\ task     = [k \in Key |-> FALSE]
    /\ count    = [k \in Key |-> 0]
    /\ active   = [k \in Key |-> 0]
    /\ delay    = [k \in Key |-> -MaxLag]
    /\ since    = [k \in Key |-> MaxLag]
    /\ outcome  = [k \in Key |-> [n \in Attempts |-> "none"]]
    /\ lease    = [k \in Key |-> -MaxLag]
    /\ age      = [k \in Key |-> MaxLag]
    /\ inverted = {}
    /\ output   = [k \in Key |-> [by |-> 0, val |-> None]]
    /\ outbox   = [k \in Key |-> [attempt |-> 0, published |-> FALSE]]
    /\ trail    = [k \in Key |-> <<>>]

BugRecordTransition(k, to) ==   \* cancellation is not audited
    trail' = IF to = "cancelled" THEN trail
             ELSE [trail EXCEPT ![k] = Append(@, to)]
\* _record_transition
RecordTransition(k, to) == trail' = [trail EXCEPT ![k] = Append(@, to)]

-----------------------------------------------------------------------------

BugEnqueue(k, p, hasTask, d) ==   \* a repeated key replaces the row
    /\ status'   = [status EXCEPT ![k] = "queued"]
    /\ priority' = [priority EXCEPT ![k] = p]
    /\ task'     = [task EXCEPT ![k] = hasTask]
    /\ delay'    = [delay EXCEPT ![k] = -d]
    /\ since'    = [since EXCEPT ![k] = 0]
    /\ RecordTransition(k, "queued")
    /\ UNCHANGED <<count, active, attemptVars, output, outbox>>
\* enqueue.  A key already in job_idempotency returns its job unchanged,
\* whatever the new call's arguments are.
Enqueue(k, p, hasTask, d) ==
    \/ /\ status[k] = "absent"
       /\ status'   = [status EXCEPT ![k] = "queued"]
       /\ priority' = [priority EXCEPT ![k] = p]
       /\ task'     = [task EXCEPT ![k] = hasTask]
       /\ delay'    = [delay EXCEPT ![k] = -d]
       /\ since'    = [since EXCEPT ![k] = 0]
       /\ RecordTransition(k, "queued")
       /\ UNCHANGED <<count, active, attemptVars, output, outbox>>
    \/ /\ status[k] # "absent"
       /\ UNCHANGED vars

\* The rows the claim query selects for a clock sample d old.
Claimable(k, d) ==
    /\ status[k] = "queued"
    /\ delay[k] <= -d
    /\ count[k] < MaxAttempts

\* claim: the highest priority first.  The order among equal priorities
\* (created_at, job_id) is left open.
Claim(k, d) ==
    /\ Claimable(k, d)
    /\ \A j \in Key : Claimable(j, d) => priority[j] <= priority[k]
    /\ status'  = [status EXCEPT ![k] = "running"]
    /\ count'   = [count EXCEPT ![k] = @ + 1]
    /\ active'  = [active EXCEPT ![k] = count[k] + 1]
    /\ outcome' = [outcome EXCEPT ![k][count[k] + 1] = "open"]
    /\ lease'   = [lease EXCEPT ![k] = LeaseTime - d]
    /\ age'     = [age EXCEPT ![k] = d]
    /\ RecordTransition(k, "running")
    /\ UNCHANGED <<priority, task, delay, since, inverted, output, outbox>>

BugHoldsLease(k, n, d) ==   \* any token of the job will do
    /\ status[k] = "running"
    /\ outcome[k][n] # "none"
    /\ lease[k] > -d
\* _active_attempt with the lease comparison that every caller makes.
HoldsLease(k, n, d) ==
    /\ status[k] = "running"
    /\ active[k] = n
    /\ outcome[k][n] = "open"
    /\ lease[k] > -d

BugHeartbeat(k, n, d) ==   \* the expiry is pushed back from the old expiry
    /\ HoldsLease(k, n, d)
    /\ lease' = [lease EXCEPT ![k] = @ + LeaseTime]
    /\ UNCHANGED <<jobVars, outcome, age, inverted, sideVars>>
\* heartbeat.  One thread sends the heartbeats of an attempt, so its samples
\* do not go back before the sample that set the current expiry.
Heartbeat(k, n, d) ==
    /\ HoldsLease(k, n, d)
    /\ LeaseTime - d >= lease[k]
    /\ lease' = [lease EXCEPT ![k] = LeaseTime - d]
    /\ UNCHANGED <<jobVars, outcome, age, inverted, sideVars>>

BugEndAttempt(k, n, o, d) ==   \* active_attempt_id keeps the ended attempt
    /\ outcome'  = [outcome EXCEPT ![k][n] = o]
    /\ UNCHANGED <<active, lease, age, inverted>>
\* The end of an attempt: outcome and ended_at, active_attempt_id = NULL.
\* The lease and start time of an ended attempt are not read again.
EndAttempt(k, n, o, d) ==
    /\ outcome'  = [outcome EXCEPT ![k][n] = o]
    /\ active'   = [active EXCEPT ![k] = 0]
    /\ lease'    = [lease EXCEPT ![k] = -MaxLag]
    /\ age'      = [age EXCEPT ![k] = MaxLag]
    /\ inverted' = IF d > age[k] THEN inverted \cup {<<k, n>>} ELSE inverted

BugRecordEvidence(k, n, r) ==   \* the task row is not required
    outbox' = IF r \in Evidence
              THEN [outbox EXCEPT ![k] = [attempt |-> n, published |-> FALSE]]
              ELSE outbox
\* The completion_outbox row of a result with artifacts or an escalation.
RecordEvidence(k, n, r) ==
    /\ r \in Evidence => task[k] /\ outbox[k].attempt = 0
    /\ outbox' = IF r \in Evidence
                 THEN [outbox EXCEPT ![k] = [attempt |-> n, published |-> FALSE]]
                 ELSE outbox

\* complete / _finish by the lease holder.  The caller took its sample after
\* its claim returned.
Complete(k, n, r, d) ==
    /\ HoldsLease(k, n, d)
    /\ d <= age[k]
    /\ r \in Result => output[k].val \in {None, r}
    /\ EndAttempt(k, n, "completed", d)
    /\ output' = IF r \in Result /\ output[k].val = None
                 THEN [output EXCEPT ![k] = [by |-> n, val |-> r]]
                 ELSE output
    /\ RecordEvidence(k, n, r)
    /\ status' = [status EXCEPT ![k] = "completed"]
    /\ RecordTransition(k, "completed")
    /\ UNCHANGED <<priority, task, count, delay, since>>

\* complete called again with the token that completed the job: the stored
\* result is returned if it is the same, and nothing is written.
CompleteAgain(k, n, r) ==
    /\ status[k] = "completed"
    /\ outcome[k][n] = "completed"
    /\ r = None \/ output[k].val = r
    /\ UNCHANGED vars

BugShouldRetry(k, retryable) == retryable   \* the budget is not consulted
ShouldRetry(k, retryable) == retryable /\ count[k] < MaxAttempts

\* record_failure (and fail, which is never retryable).  retryable stands for
\* "retryable and error_code in retryable_outcomes".
RecordFailure(k, n, retryable, d) ==
    /\ HoldsLease(k, n, d)
    /\ d <= age[k]
    /\ LET target == IF ShouldRetry(k, retryable) THEN "queued" ELSE "failed"
       IN  /\ status' = [status EXCEPT ![k] = target]
           /\ delay' = [delay EXCEPT ![k] =
                  IF target = "queued" THEN RetryDelay(count[k]) - d ELSE -d]
           /\ RecordTransition(k, target)
    /\ EndAttempt(k, n, "failed", d)
    /\ UNCHANGED <<priority, task, count, since, output, outbox>>

\* cancel.  The caller knows the job, so its clock sample is not older than
\* the row; nothing orders the sample after the claim it interrupts.
Cancel(k, d) ==
    \/ /\ status[k] = "cancelled"
       /\ UNCHANGED vars
    \/ /\ status[k] \in Statuses
       /\ d <= since[k]
       /\ "cancelled" \in ValidTransitions[status[k]]
       /\ IF status[k] = "running"
          THEN EndAttempt(k, active[k], "cancelled", d)
          ELSE /\ active' = [active EXCEPT ![k] = 0]
               /\ UNCHANGED attemptVars
       /\ status' = [status EXCEPT ![k] = "cancelled"]
       /\ RecordTransition(k, "cancelled")
       /\ UNCHANGED <<priority, task, count, delay, since, output, outbox>>

\* The rows reclaim_expired selects for a sample d old.
Expired(d) ==
    {k \in Key : /\ status[k] = "running"
                 /\ active[k] \in Attempts
                 /\ outcome[k][active[k]] = "open"
                 /\ lease[k] <= -d}

ReclaimTarget(k) == IF count[k] >= MaxAttempts THEN "failed" ELSE "queued"

\* reclaim_expired: every expired lease in one transaction.
ReclaimExpired(d) ==
    /\ Expired(d) # {}
    /\ LET E == Expired(d) IN
       /\ status' = [k \in Key |-> IF k \in E THEN ReclaimTarget(k) ELSE status[k]]
       /\ active' = [k \in Key |-> IF k \in E THEN 0 ELSE active[k]]
       /\ delay'  = [k \in Key |->
              IF k \in E
              THEN IF ReclaimTarget(k) = "queued" THEN RetryDelay(count[k]) - d ELSE -d
              ELSE delay[k]]
       /\ outcome' = [k \in Key |-> [n \in Attempts |->
              IF k \in E /\ n = active[k] THEN "lease_expired" ELSE outcome[k][n]]]
       /\ lease' = [k \in Key |-> IF k \in E THEN -MaxLag ELSE lease[k]]
       /\ age'   = [k \in Key |-> IF k \in E THEN MaxLag ELSE age[k]]
       /\ trail' = [k \in Key |->
              IF k \in E THEN Append(trail[k], ReclaimTarget(k)) ELSE trail[k]]
    /\ UNCHANGED <<priority, task, count, since, inverted, output, outbox>>

\* acknowledge_completion
AcknowledgeCompletion(k) ==
    /\ outbox[k].attempt # 0
    /\ ~outbox[k].published
    /\ outbox' = [outbox EXCEPT ![k].published = TRUE]
    /\ UNCHANGED <<jobVars, attemptVars, output, trail>>

\* The clock advances.
Tick ==
    /\ delay' = [k \in Key |-> Later(delay[k])]
    /\ lease' = [k \in Key |-> Later(lease[k])]
    /\ age'   = [k \in Key |-> Older(age[k])]
    /\ since' = [k \in Key |-> Older(since[k])]
    /\ UNCHANGED <<status, priority, task, count, active, outcome, inverted, sideVars>>

\* Any caller, with any token that was ever handed out.
Next ==
    \/ \E k \in Key, p \in Priority, hasTask \in BOOLEAN, d \in Lags :
           Enqueue(k, p, hasTask, d)
    \/ \E k \in Key, d \in Lags : Claim(k, d)
    \/ \E k \in Key, n \in Attempts, d \in Lags : Heartbeat(k, n, d)
    \/ \E k \in Key, n \in Attempts, r \in Result \cup {None}, d \in Lags :
           Complete(k, n, r, d)
    \/ \E k \in Key, n \in Attempts, r \in Result \cup {None} : CompleteAgain(k, n, r)
    \/ \E k \in Key, n \in Attempts, retryable \in BOOLEAN, d \in Lags :
           RecordFailure(k, n, retryable, d)
    \/ \E k \in Key, d \in Lags : Cancel(k, d)
    \/ \E d \in Lags : ReclaimExpired(d)
    \/ \E k \in Key : AcknowledgeCompletion(k)
    \/ Tick

Spec == Init /\ [][Next]_vars

-----------------------------------------------------------------------------
(* Properties *)

\* Every table holds rows of its declared shape.
TypeOK ==
    /\ status   \in [Key -> Statuses \cup {"absent"}]
    /\ priority \in [Key -> Int]
    /\ task     \in [Key -> BOOLEAN]
    /\ count    \in [Key -> 0..MaxAttempts]
    /\ active   \in [Key -> 0..MaxAttempts]
    /\ delay    \in [Key -> (-MaxLag)..MaxBackoff]
    /\ since    \in [Key -> Lags]
    /\ outcome  \in [Key -> [Attempts -> Outcomes \cup {"none", "open"}]]
    /\ lease    \in [Key -> (-MaxLag)..LeaseTime]
    /\ age      \in [Key -> Lags]
    /\ inverted \in SUBSET (Key \X (0..MaxAttempts))
    /\ output   \in [Key -> [by : 0..MaxAttempts, val : Result \cup {None}]]
    /\ outbox   \in [Key -> [attempt : 0..MaxAttempts, published : BOOLEAN]]
    /\ trail    \in [Key -> Seq(Statuses)]

\* At most one attempt of a job is open at any time, it is the newest one, it
\* is the one active_attempt_id names, and only a running job has one: a
\* worker whose lease was reclaimed never shares the job with its successor
\* (claim, _active_attempt, reclaim_expired).
OneLiveAttempt ==
    \A k \in Key :
        /\ (status[k] = "running") <=> (active[k] # 0)
        /\ active[k] # 0 => active[k] = count[k]
        /\ \A n \in Attempts : (outcome[k][n] = "open") <=> (active[k] = n)

\* A job that is not finished can always be picked up again: a new job starts
\* with its whole retry budget, a queued job has attempts left, so the claim
\* query sees it once its delay is over, and a running job has an open attempt
\* that reclaim_expired sees once its lease is over.  A queued job with
\* attempt_count = max_attempts would wait for ever.
NeverStranded ==
    \A k \in Key :
        /\ status[k] = "absent" => count[k] = 0
        /\ status[k] = "queued" => count[k] < MaxAttempts
        /\ status[k] = "running" =>
               /\ active[k] \in Attempts
               /\ outcome[k][active[k]] = "open"

\* A job is completed exactly when one attempt completed it: that attempt is
\* its last, and a stored output was written by that attempt and no other.  A
\* late worker neither completes a job a second time nor replaces its result.
CompletedOnce ==
    \A k \in Key :
        /\ \A n \in Attempts :
               outcome[k][n] = "completed" => status[k] = "completed" /\ n = count[k]
        /\ status[k] = "completed" => \E n \in Attempts : outcome[k][n] = "completed"
        /\ output[k].val # None =>
               /\ output[k].by \in Attempts
               /\ outcome[k][output[k].by] = "completed"

\* The outbox owes exactly the stored results that carry evidence, in the name
\* of the attempt that produced them, and the publisher will find the task it
\* needs (_finish inserts the row in the transaction that stores the result).
EvidenceInOutbox ==
    \A k \in Key :
        /\ (outbox[k].attempt # 0) <=> (output[k].val \in Evidence)
        /\ outbox[k].attempt # 0 => /\ outbox[k].attempt = output[k].by
                                    /\ task[k]

\* Replaying job_transitions gives the job's current status: no operation
\* changes the row without recording it, and none records what it rolled back.
\* An attempt whose end precedes its start, which cannot be read back
\* (ExecutionAttempt.validate_terminal_fields), was ended by a cancellation.
TrailTellsStatus ==
    \A k \in Key :
        /\ (trail[k] = <<>>) <=> (status[k] = "absent")
        /\ trail[k] # <<>> => trail[k][Len(trail[k])] = status[k]
        /\ \A n \in Attempts : <<k, n>> \in inverted => outcome[k][n] = "cancelled"

\* A finished job keeps its status, attempts, output and outbox identity; what
\* was stored as a result is never replaced (complete, cancel, reclaim_expired
\* and late calls of record_failure).
KeepsFinished ==
    \A k \in Key :
        /\ status[k] \in Terminal =>
               /\ status'[k] = status[k]
               /\ outcome'[k] = outcome[k]
               /\ outbox'[k].attempt = outbox[k].attempt
        /\ output[k].val # None => output'[k] = output[k]

\* No step ever breaks KeepsFinished.
TerminalIsFinal == [][KeepsFinished]_vars

-----------------------------------------------------------------------------
\* What the repository promises its callers (module JobContract): an accepted
\* job reaches at most one outcome, whatever attempts it takes.
Contract == INSTANCE JobContract WITH
    phase  <- [k \in Key |-> IF status[k] \in {"queued", "running"}
                             THEN "accepted" ELSE status[k]],
    answer <- [k \in Key |-> output[k].val],
    notice <- [k \in Key |-> IF outbox[k].attempt = 0 THEN "none"
                             ELSE IF outbox[k].published THEN "sent" ELSE "owed"]

\* The repository implements the contract: attempts, leases, retries and
\* audit rows are invisible to the caller.
ImplementsContract == Contract!Spec
=============================================================================
