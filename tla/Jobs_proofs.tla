----------------------------- MODULE Jobs_proofs -----------------------------
(***************************************************************************)
(* Safety of the job repository, of its PostgreSQL variant and of the      *)
(* worker fleet, for every set of keys, every number of workers, attempts  *)
(* and stops, and every value of the retry, lease and lag parameters.      *)
(***************************************************************************)
EXTENDS PostgresJobs, Workers, TLAPS

\* A retry delay is a delay: it never exceeds max_backoff_seconds.
LEMMA RetryDelayType ==
    ASSUME NEW n \in 0..MaxAttempts
    PROVE  RetryDelay(n) \in 0..MaxBackoff
<1> DEFINE e == IF n > 0 THEN n - 1 ELSE 0
           raw == Backoff * 2^e
<1>1. e \in 0..MaxAttempts
  BY JobsAssumption
<1>2. 2^e \in Nat
  BY <1>1, PowersOfTwo
<1>3. raw \in Nat
  <2> HIDE DEF e
  <2>1. \A x, y \in Nat : x * y \in Nat
    OBVIOUS
  <2> QED BY <1>2, <2>1, JobsAssumption
<1> HIDE DEF raw
<1>4. RetryDelay(n) = IF raw <= MaxBackoff THEN raw ELSE MaxBackoff
  BY DEF RetryDelay, raw, e
<1> QED BY <1>3, <1>4, JobsAssumption

\* The initial tables are empty, so they are well typed.
LEMMA InitTypeOK == Init => TypeOK
  BY JobsAssumption DEF Init, TypeOK, Attempts, Lags, Statuses, Outcomes

\* Ending an attempt keeps the attempt tables well typed.
LEMMA EndAttemptType ==
    ASSUME TypeOK, NEW k \in Key, NEW n \in 0..MaxAttempts, NEW o \in Outcomes,
           NEW d \in Lags, EndAttempt(k, n, o, d)
    PROVE  /\ outcome'  \in [Key -> [Attempts -> Outcomes \cup {"none", "open"}]]
           /\ active'   \in [Key -> 0..MaxAttempts]
           /\ lease'    \in [Key -> (-MaxLag)..LeaseTime]
           /\ age'      \in [Key -> Lags]
           /\ inverted' \in SUBSET (Key \X (0..MaxAttempts))
<1>1. outcome' \in [Key -> [Attempts -> Outcomes \cup {"none", "open"}]]
  BY DEF TypeOK, EndAttempt
<1>2. /\ active' \in [Key -> 0..MaxAttempts]
      /\ lease'  \in [Key -> (-MaxLag)..LeaseTime]
      /\ age'    \in [Key -> Lags]
  <2>1. 0 \in 0..MaxAttempts /\ -MaxLag \in (-MaxLag)..LeaseTime /\ MaxLag \in Lags
    BY JobsAssumption DEF Lags
  <2>2. /\ active \in [Key -> 0..MaxAttempts] /\ lease \in [Key -> (-MaxLag)..LeaseTime] /\ age \in [Key -> Lags]
        /\ active' = [active EXCEPT ![k] = 0] /\ lease' = [lease EXCEPT ![k] = -MaxLag] /\ age' = [age EXCEPT ![k] = MaxLag]
    BY DEF TypeOK, EndAttempt
  <2> QED BY <2>1, <2>2
<1>3. inverted' \in SUBSET (Key \X (0..MaxAttempts))
  BY DEF TypeOK, EndAttempt
<1> QED BY <1>1, <1>2, <1>3

\* The audit trail only grows by statuses.
LEMMA TrailType ==
    ASSUME TypeOK, NEW k \in Key, NEW to \in Statuses, RecordTransition(k, to)
    PROVE  trail' \in [Key -> Seq(Statuses)]
  BY DEF TypeOK, RecordTransition

\* Every transaction keeps the tables well typed.
LEMMA NextTypeOK == TypeOK /\ [Next]_vars => TypeOK'
<1> SUFFICES ASSUME TypeOK, [Next]_vars PROVE TypeOK'
  OBVIOUS
<1>1. ASSUME NEW k \in Key, NEW p \in Priority, NEW h \in BOOLEAN, NEW d \in Lags,
             Enqueue(k, p, h, d)
      PROVE  TypeOK'
  <2>1. CASE status[k] # "absent"
    BY <1>1, <2>1 DEF Enqueue, vars, jobVars, attemptVars, sideVars, TypeOK
  <2>2. CASE status[k] = "absent"
    <3>1. status' \in [Key -> Statuses \cup {"absent"}]
      BY <1>1, <2>2 DEF Enqueue, TypeOK, Statuses
    <3>2. priority' \in [Key -> Int] /\ task' \in [Key -> BOOLEAN]
      BY <1>1, <2>2, JobsAssumption DEF Enqueue, TypeOK
    <3>3. delay' \in [Key -> (-MaxLag)..MaxBackoff] /\ since' \in [Key -> Lags]
      <4>1. -d \in (-MaxLag)..MaxBackoff /\ 0 \in Lags
        BY JobsAssumption DEF Lags
      <4>2. delay' = [delay EXCEPT ![k] = -d] /\ since' = [since EXCEPT ![k] = 0]
        BY <1>1, <2>2 DEF Enqueue
      <4>3. delay \in [Key -> (-MaxLag)..MaxBackoff] /\ since \in [Key -> Lags]
        BY DEF TypeOK
      <4> QED BY <4>1, <4>2, <4>3
    <3>4. trail' \in [Key -> Seq(Statuses)]
      BY <1>1, <2>2, TrailType DEF Enqueue, Statuses
    <3> QED BY <1>1, <2>2, <3>1, <3>2, <3>3, <3>4 DEF Enqueue, attemptVars, TypeOK
  <2> QED BY <2>1, <2>2
<1>2. ASSUME NEW k \in Key, NEW d \in Lags, Claim(k, d)
      PROVE  TypeOK'
  <2>1. count[k] + 1 \in Attempts
    BY <1>2, JobsAssumption DEF Claim, Claimable, TypeOK, Attempts
  <2>2. status' \in [Key -> Statuses \cup {"absent"}]
    BY <1>2 DEF Claim, TypeOK, Statuses
  <2>3. count' \in [Key -> 0..MaxAttempts] /\ active' \in [Key -> 0..MaxAttempts]
    BY <1>2, <2>1, JobsAssumption DEF Claim, TypeOK, Attempts
  <2>4. outcome' \in [Key -> [Attempts -> Outcomes \cup {"none", "open"}]]
    BY <1>2, <2>1 DEF Claim, TypeOK
  <2>a. LeaseTime - d \in (-MaxLag)..LeaseTime
    BY JobsAssumption DEF Lags
  <2>5. lease' \in [Key -> (-MaxLag)..LeaseTime] /\ age' \in [Key -> Lags]
    BY <1>2, <2>a DEF Claim, TypeOK
  <2>6. trail' \in [Key -> Seq(Statuses)]
    BY <1>2, TrailType DEF Claim, Statuses
  <2> QED BY <1>2, <2>2, <2>3, <2>4, <2>5, <2>6 DEF Claim, TypeOK
<1>3. ASSUME NEW k \in Key, NEW n \in Attempts, NEW d \in Lags, Heartbeat(k, n, d)
      PROVE  TypeOK'
  <2>a. LeaseTime - d \in (-MaxLag)..LeaseTime
    BY JobsAssumption DEF Lags
  <2>1. lease' \in [Key -> (-MaxLag)..LeaseTime]
    BY <1>3, <2>a DEF TypeOK, Heartbeat
  <2> QED BY <1>3, <2>1 DEF Heartbeat, jobVars, sideVars, TypeOK
<1>4. ASSUME NEW k \in Key, NEW n \in Attempts, NEW r \in Result \cup {None},
             NEW d \in Lags, Complete(k, n, r, d)
      PROVE  TypeOK'
  <2>1. n \in 0..MaxAttempts
    BY DEF Attempts
  <2>2. /\ outcome'  \in [Key -> [Attempts -> Outcomes \cup {"none", "open"}]]
        /\ active'   \in [Key -> 0..MaxAttempts]
        /\ lease'    \in [Key -> (-MaxLag)..LeaseTime]
        /\ age'      \in [Key -> Lags]
        /\ inverted' \in SUBSET (Key \X (0..MaxAttempts))
    BY <1>4, <2>1, EndAttemptType DEF Complete, Outcomes
  <2>3. status' \in [Key -> Statuses \cup {"absent"}]
    BY <1>4 DEF Complete, TypeOK, Statuses
  <2>4. output' \in [Key -> [by : 0..MaxAttempts, val : Result \cup {None}]]
    BY <1>4, <2>1 DEF Complete, TypeOK
  <2>5. outbox' \in [Key -> [attempt : 0..MaxAttempts, published : BOOLEAN]]
    BY <1>4, <2>1 DEF Complete, RecordEvidence, TypeOK
  <2>6. trail' \in [Key -> Seq(Statuses)]
    BY <1>4, TrailType DEF Complete, Statuses
  <2> QED BY <1>4, <2>2, <2>3, <2>4, <2>5, <2>6 DEF Complete, TypeOK
<1>5. ASSUME NEW k \in Key, NEW n \in Attempts, NEW r \in Result \cup {None},
             CompleteAgain(k, n, r)
      PROVE  TypeOK'
  BY <1>5 DEF CompleteAgain, vars, jobVars, attemptVars, sideVars, TypeOK
<1>6. ASSUME NEW k \in Key, NEW n \in Attempts, NEW retryable \in BOOLEAN,
             NEW d \in Lags, RecordFailure(k, n, retryable, d)
      PROVE  TypeOK'
  <2> DEFINE target == IF ShouldRetry(k, retryable) THEN "queued" ELSE "failed"
             new == IF target = "queued" THEN RetryDelay(count[k]) - d ELSE -d
  <2>1. /\ n \in 0..MaxAttempts
        /\ count[k] \in 0..MaxAttempts
        /\ target \in Statuses
    BY DEF Attempts, TypeOK, Statuses
  <2>2. new \in (-MaxLag)..MaxBackoff
    BY <2>1, RetryDelayType, JobsAssumption DEF Lags
  <2>3. /\ status' = [status EXCEPT ![k] = target]
        /\ delay' = [delay EXCEPT ![k] = new]
        /\ RecordTransition(k, target)
        /\ EndAttempt(k, n, "failed", d)
        /\ UNCHANGED <<priority, task, count, since, output, outbox>>
    BY <1>6 DEF RecordFailure
  <2> HIDE DEF target, new
  <2>4. /\ outcome'  \in [Key -> [Attempts -> Outcomes \cup {"none", "open"}]]
        /\ active'   \in [Key -> 0..MaxAttempts]
        /\ lease'    \in [Key -> (-MaxLag)..LeaseTime]
        /\ age'      \in [Key -> Lags]
        /\ inverted' \in SUBSET (Key \X (0..MaxAttempts))
    BY <2>1, <2>3, EndAttemptType DEF Outcomes
  <2>5. trail' \in [Key -> Seq(Statuses)]
    BY <2>1, <2>3, TrailType
  <2>6. /\ status' \in [Key -> Statuses \cup {"absent"}]
        /\ delay' \in [Key -> (-MaxLag)..MaxBackoff]
    BY <2>1, <2>2, <2>3 DEF TypeOK
  <2> QED BY <2>3, <2>4, <2>5, <2>6 DEF TypeOK
<1>7. ASSUME NEW k \in Key, NEW d \in Lags, Cancel(k, d)
      PROVE  TypeOK'
  <2>1. CASE UNCHANGED vars
    BY <2>1 DEF vars, jobVars, attemptVars, sideVars, TypeOK
  <2>2. CASE ~UNCHANGED vars
    <3>1. /\ IF status[k] = "running"
             THEN EndAttempt(k, active[k], "cancelled", d)
             ELSE active' = [active EXCEPT ![k] = 0] /\ UNCHANGED attemptVars
          /\ status' = [status EXCEPT ![k] = "cancelled"]
          /\ RecordTransition(k, "cancelled")
          /\ UNCHANGED <<priority, task, count, delay, since, output, outbox>>
      BY <1>7, <2>2 DEF Cancel
    <3>2. /\ outcome'  \in [Key -> [Attempts -> Outcomes \cup {"none", "open"}]]
          /\ active'   \in [Key -> 0..MaxAttempts]
          /\ lease'    \in [Key -> (-MaxLag)..LeaseTime]
          /\ age'      \in [Key -> Lags]
          /\ inverted' \in SUBSET (Key \X (0..MaxAttempts))
      <4>1. CASE status[k] = "running"
        <5>1. active[k] \in 0..MaxAttempts
          BY DEF TypeOK
        <5> QED BY <3>1, <4>1, <5>1, EndAttemptType DEF Outcomes
      <4>2. CASE status[k] # "running"
        <5>1. 0 \in 0..MaxAttempts
          BY JobsAssumption
        <5>2. active' \in [Key -> 0..MaxAttempts]
          BY <3>1, <4>2, <5>1 DEF TypeOK
        <5> QED BY <3>1, <4>2, <5>2 DEF attemptVars, TypeOK
      <4> QED BY <4>1, <4>2
    <3>3. trail' \in [Key -> Seq(Statuses)]
      BY <3>1, TrailType DEF Statuses
    <3>4. status' \in [Key -> Statuses \cup {"absent"}]
      BY <3>1 DEF TypeOK, Statuses
    <3> QED BY <3>1, <3>2, <3>3, <3>4 DEF TypeOK
  <2> QED BY <2>1, <2>2
<1>8. ASSUME NEW d \in Lags, ReclaimExpired(d)
      PROVE  TypeOK'
  <2>1. \A k \in Key : RetryDelay(count[k]) \in 0..MaxBackoff
    BY RetryDelayType DEF TypeOK
  <2>2. \A k \in Key : ReclaimTarget(k) \in Statuses
    BY DEF ReclaimTarget, Statuses
  <2>a. -d \in (-MaxLag)..MaxBackoff /\ \A b \in 0..MaxBackoff : b - d \in (-MaxLag)..MaxBackoff
    BY JobsAssumption DEF Lags
  <2>3. delay' \in [Key -> (-MaxLag)..MaxBackoff]
    BY <1>8, <2>1, <2>a DEF ReclaimExpired, TypeOK
  <2>4. status' \in [Key -> Statuses \cup {"absent"}]
    BY <1>8, <2>2 DEF ReclaimExpired, TypeOK
  <2>5. trail' \in [Key -> Seq(Statuses)]
    BY <1>8, <2>2 DEF ReclaimExpired, TypeOK
  <2>6. outcome' \in [Key -> [Attempts -> Outcomes \cup {"none", "open"}]]
    BY <1>8 DEF ReclaimExpired, TypeOK, Outcomes
  <2>7. /\ active' \in [Key -> 0..MaxAttempts]
        /\ lease' \in [Key -> (-MaxLag)..LeaseTime]
        /\ age' \in [Key -> Lags]
    BY <1>8, JobsAssumption DEF ReclaimExpired, TypeOK, Lags
  <2> QED BY <1>8, <2>3, <2>4, <2>5, <2>6, <2>7 DEF ReclaimExpired, TypeOK
<1>9. ASSUME NEW k \in Key, AcknowledgeCompletion(k)
      PROVE  TypeOK'
  BY <1>9 DEF AcknowledgeCompletion, jobVars, attemptVars, TypeOK
<1>10. CASE Tick
  <2>1. \A t \in (-MaxLag)..MaxBackoff : Later(t) \in (-MaxLag)..MaxBackoff
    BY JobsAssumption DEF Later
  <2>2. \A t \in (-MaxLag)..LeaseTime : Later(t) \in (-MaxLag)..LeaseTime
    BY JobsAssumption DEF Later
  <2>3. \A t \in Lags : Older(t) \in Lags
    BY JobsAssumption DEF Older, Lags
  <2>4. delay' \in [Key -> (-MaxLag)..MaxBackoff]
    BY <1>10, <2>1 DEF Tick, TypeOK
  <2>5. lease' \in [Key -> (-MaxLag)..LeaseTime]
    BY <1>10, <2>2 DEF Tick, TypeOK
  <2>6. age' \in [Key -> Lags] /\ since' \in [Key -> Lags]
    BY <1>10, <2>3 DEF Tick, TypeOK
  <2> QED BY <1>10, <2>4, <2>5, <2>6 DEF Tick, sideVars, TypeOK
<1>11. CASE UNCHANGED vars
  BY <1>11 DEF vars, jobVars, attemptVars, sideVars, TypeOK
<1> QED BY <1>1, <1>2, <1>3, <1>4, <1>5, <1>6, <1>7, <1>8, <1>9, <1>10, <1>11 DEF Next

\* The tables of the repository always hold rows of their declared shape.
THEOREM TypeCorrect == Spec => []TypeOK
  BY InitTypeOK, NextTypeOK, PTL DEF Spec

-----------------------------------------------------------------------------
(* The inductive invariant.  None of its parts is inductive alone: that a   *)
(* late token cannot complete a job needs OneLiveAttempt; that a job which  *)
(* is claimed has no completed attempt behind it needs CompletedOnce; that  *)
(* the outbox row can be inserted needs the absence of an earlier output.   *)
IInv ==
    /\ TypeOK
    /\ OneLiveAttempt
    /\ NeverStranded
    /\ CompletedOnce
    /\ EvidenceInOutbox

\* What the invariant says of one job.
JobInv(k) ==
    /\ (status[k] = "running") <=> (active[k] # 0)
    /\ active[k] # 0 => active[k] = count[k]
    /\ \A n \in Attempts : (outcome[k][n] = "open") <=> (active[k] = n)
    /\ status[k] = "absent" => count[k] = 0
    /\ status[k] = "queued" => count[k] < MaxAttempts
    /\ \A n \in Attempts :
           outcome[k][n] = "completed" => status[k] = "completed" /\ n = count[k]
    /\ status[k] = "completed" => \E n \in Attempts : outcome[k][n] = "completed"
    /\ output[k].val # None => /\ output[k].by \in Attempts
                               /\ outcome[k][output[k].by] = "completed"
    /\ (outbox[k].attempt # 0) <=> (output[k].val \in Evidence)
    /\ outbox[k].attempt # 0 => outbox[k].attempt = output[k].by /\ task[k]

AllJobsInv == \A k \in Key : JobInv(k)

\* The invariant is the conjunction of its instances.
LEMMA IInvPerJob == TypeOK => (IInv <=> AllJobsInv)
<1> SUFFICES ASSUME TypeOK PROVE IInv <=> \A k \in Key : JobInv(k)
  BY DEF AllJobsInv
<1>1. ASSUME IInv, NEW k \in Key PROVE JobInv(k)
  BY <1>1 DEF IInv, JobInv, OneLiveAttempt, NeverStranded, CompletedOnce, EvidenceInOutbox
<1>2. ASSUME \A k \in Key : JobInv(k) PROVE IInv
  <2>1. OneLiveAttempt /\ CompletedOnce /\ EvidenceInOutbox
    BY <1>2 DEF JobInv, OneLiveAttempt, CompletedOnce, EvidenceInOutbox
  <2>2. ASSUME NEW k \in Key, status[k] = "running"
        PROVE  active[k] \in Attempts /\ outcome[k][active[k]] = "open"
    <3>1. active[k] # 0
      BY <1>2, <2>2 DEF JobInv
    <3>2. active[k] \in Attempts
      <4>1. active[k] \in 0..MaxAttempts
        BY DEF TypeOK
      <4> QED BY <3>1, <4>1, JobsAssumption DEF Attempts
    <3> QED BY <1>2, <3>2 DEF JobInv
  <2>3. NeverStranded
    BY <1>2, <2>2 DEF JobInv, NeverStranded
  <2> QED BY <2>1, <2>3 DEF IInv
<1> QED BY <1>1, <1>2

\* A job whose rows a step leaves alone keeps its invariant.
LEMMA Frame ==
    ASSUME NEW j \in Key, JobInv(j),
           status'[j] = status[j], task'[j] = task[j], count'[j] = count[j],
           active'[j] = active[j], outcome'[j] = outcome[j],
           output'[j] = output[j], outbox'[j].attempt = outbox[j].attempt
    PROVE  JobInv(j)'
  BY DEF JobInv

\* The initial tables satisfy the invariant.
LEMMA InitIInv == Init => IInv
<1> SUFFICES ASSUME Init PROVE IInv
  OBVIOUS
<1>1. TypeOK
  BY InitTypeOK
<1>2. ASSUME NEW k \in Key PROVE JobInv(k)
  BY JobsAssumption DEF Init, JobInv, Attempts
<1> QED BY <1>1, <1>2, IInvPerJob DEF AllJobsInv

\* Ending the live attempt of a job leaves it with no open attempt.
LEMMA EndAttemptInv ==
    ASSUME TypeOK, NEW k \in Key, JobInv(k), status[k] = "running",
           NEW n \in Attempts, active[k] = n, NEW o \in Outcomes, NEW d \in Lags,
           EndAttempt(k, n, o, d)
    PROVE  /\ active'[k] = 0
           /\ outcome'[k] = [outcome[k] EXCEPT ![n] = o]
           /\ \A m \in Attempts : outcome'[k][m] # "open"
           /\ \A m \in Attempts : outcome'[k][m] = "completed" => m = n
           /\ n = count[k]
           /\ output[k].val = None
           /\ outbox[k].attempt = 0
<1>1. active'[k] = 0 /\ outcome'[k] = [outcome[k] EXCEPT ![n] = o]
  BY DEF EndAttempt, TypeOK
<1>2. outcome[k] \in [Attempts -> Outcomes \cup {"none", "open"}]
  BY DEF TypeOK
<1>3. \A m \in Attempts : outcome[k][m] # "completed" /\ (m # n => outcome[k][m] # "open")
  BY DEF JobInv
<1>4. \A m \in Attempts : outcome'[k][m] # "open"
  BY <1>1, <1>2, <1>3 DEF Outcomes
<1>5. \A m \in Attempts : outcome'[k][m] = "completed" => m = n
  BY <1>1, <1>2, <1>3
<1>6. n # 0
  BY DEF Attempts
<1>7. n = count[k]
  BY <1>6 DEF JobInv
<1>8. output[k].val = None
  BY <1>3 DEF JobInv
<1>9. outbox[k].attempt = 0
  BY <1>8, JobsAssumption DEF JobInv
<1> QED BY <1>1, <1>4, <1>5, <1>7, <1>8, <1>9

\* Every transaction keeps the invariant: the job it writes satisfies its
\* instance again and the other jobs are left alone.
LEMMA NextIInv == IInv /\ [Next]_vars => IInv'
<1> SUFFICES ASSUME IInv, [Next]_vars PROVE IInv'
  OBVIOUS
<1> USE JobsAssumption
<1>a. TypeOK /\ \A j \in Key : JobInv(j)
  BY IInvPerJob DEF IInv, AllJobsInv
<1>b. TypeOK'
  BY <1>a, NextTypeOK
<1>c. SUFFICES ASSUME NEW j \in Key PROVE JobInv(j)'
  <2>1. TypeOK' => (IInv' <=> AllJobsInv')
    BY IInvPerJob, PTL
  <2> QED BY <1>b, <2>1, <1>c DEF AllJobsInv
<1>d. JobInv(j)
  BY <1>a
<1>1. ASSUME NEW k \in Key, NEW p \in Priority, NEW h \in BOOLEAN, NEW d \in Lags,
             Enqueue(k, p, h, d)
      PROVE  JobInv(j)'
  <2>1. CASE status[k] # "absent"
    BY <1>1, <2>1, <1>d, Frame DEF Enqueue, vars, jobVars, attemptVars, sideVars
  <2>2. CASE status[k] = "absent" /\ j # k
    BY <1>1, <2>2, <1>a, <1>d, Frame DEF Enqueue, TypeOK, attemptVars
  <2>3. CASE status[k] = "absent" /\ j = k
    <3>1. /\ status'[j] = "queued"
          /\ UNCHANGED <<count, active, outcome, output, outbox>>
      BY <1>1, <2>3, <1>a DEF Enqueue, attemptVars, TypeOK
    <3>2. /\ count[j] = 0
          /\ active[j] = 0
          /\ \A n \in Attempts : outcome[j][n] # "completed"
      BY <1>d, <2>3 DEF JobInv
    <3>3. output[j].val = None /\ outbox[j].attempt = 0
      BY <1>d, <3>2 DEF JobInv
    <3> QED BY <1>d, <3>1, <3>2, <3>3 DEF JobInv
  <2> QED BY <2>1, <2>2, <2>3
<1>2. ASSUME NEW k \in Key, NEW d \in Lags, Claim(k, d)
      PROVE  JobInv(j)'
  <2>1. CASE j # k
    BY <1>2, <2>1, <1>a, <1>d, Frame DEF Claim, TypeOK
  <2>2. CASE j = k
    <3>0. PICK m \in Attempts : m = count[k] + 1
      <4>1. count[k] \in 0..MaxAttempts /\ count[k] < MaxAttempts
        BY <1>2, <1>a DEF Claim, Claimable, TypeOK
      <4> QED BY <4>1 DEF Attempts
    <3>1. m # 0
      BY DEF Attempts
    <3>2. /\ status'[j] = "running"
          /\ count'[j] = m
          /\ active'[j] = m
          /\ outcome'[j] = [outcome[j] EXCEPT ![m] = "open"]
          /\ UNCHANGED <<task, output, outbox>>
      BY <1>2, <2>2, <1>a, <3>0 DEF Claim, TypeOK
    <3>3. status[j] = "queued"
      BY <1>2, <2>2 DEF Claim, Claimable
    <3>4. \A n \in Attempts : outcome[j][n] # "open" /\ outcome[j][n] # "completed"
      <4>1. active[j] = 0
        BY <1>d, <3>3 DEF JobInv
      <4>2. \A n \in Attempts : n # 0
        BY DEF Attempts
      <4> QED BY <1>d, <3>3, <4>1, <4>2 DEF JobInv
    <3>5. outcome[j] \in [Attempts -> Outcomes \cup {"none", "open"}]
      BY <1>a DEF TypeOK
    <3>6. /\ \A n \in Attempts : (outcome'[j][n] = "open") <=> (active'[j] = n)
          /\ \A n \in Attempts : outcome'[j][n] # "completed"
      <4>1. ASSUME NEW n \in Attempts
            PROVE  outcome'[j][n] = IF active'[j] = n THEN "open" ELSE outcome[j][n]
        BY <3>2, <3>5
      <4> QED BY <3>4, <4>1
    <3>7. output[j].val = None /\ outbox[j].attempt = 0
      BY <1>d, <3>4 DEF JobInv
    <3>8. output'[j].val = None /\ outbox'[j].attempt = 0 /\ None \notin Evidence
      BY <3>2, <3>7
    <3>9. /\ status'[j] = "running"
          /\ active'[j] # 0
          /\ active'[j] = count'[j]
      BY <3>1, <3>2
    <3> QED BY <3>6, <3>8, <3>9 DEF JobInv
  <2> QED BY <2>1, <2>2
<1>3. ASSUME NEW k \in Key, NEW n \in Attempts, NEW d \in Lags, Heartbeat(k, n, d)
      PROVE  JobInv(j)'
  BY <1>3, <1>d, Frame DEF Heartbeat, jobVars, sideVars
<1>4. ASSUME NEW k \in Key, NEW n \in Attempts, NEW r \in Result \cup {None},
             NEW d \in Lags, Complete(k, n, r, d)
      PROVE  JobInv(j)'
  <2>1. CASE j # k
    BY <1>4, <2>1, <1>a, <1>d, Frame DEF Complete, EndAttempt, RecordEvidence, TypeOK
  <2>2. CASE j = k
    <3>1. /\ status[k] = "running" /\ active[k] = n
          /\ EndAttempt(k, n, "completed", d)
      BY <1>4 DEF Complete, HoldsLease
    <3>2. /\ active'[k] = 0
          /\ outcome'[k] = [outcome[k] EXCEPT ![n] = "completed"]
          /\ \A m \in Attempts : outcome'[k][m] # "open"
          /\ \A m \in Attempts : outcome'[k][m] = "completed" => m = n
          /\ n = count[k]
          /\ output[k].val = None
          /\ outbox[k].attempt = 0
      <4>1. "completed" \in Outcomes
        BY DEF Outcomes
      <4> QED BY <3>1, <4>1, <1>a, EndAttemptInv
    <3>3. outcome'[k][n] = "completed"
      BY <3>2, <1>a DEF TypeOK
    <3>4. status'[k] = "completed" /\ count'[k] = count[k] /\ task'[k] = task[k]
      BY <1>4, <1>a DEF Complete, TypeOK
    <3>5. output'[k] = IF r \in Result THEN [by |-> n, val |-> r] ELSE output[k]
      BY <1>4, <3>2, <1>a DEF Complete, TypeOK
    <3>6. /\ r \in Evidence => task[k]
          /\ outbox'[k].attempt = IF r \in Evidence THEN n ELSE 0
      BY <1>4, <3>2, <1>a DEF Complete, RecordEvidence, TypeOK
    <3>7. n # 0
      BY DEF Attempts
    <3>8. output'[k].val # None => output'[k].by = n
      BY <3>2, <3>5
    <3>9. output'[k].val = r
      BY <3>2, <3>5
    <3>10. /\ (outbox'[k].attempt # 0) <=> (output'[k].val \in Evidence)
           /\ outbox'[k].attempt # 0 => outbox'[k].attempt = output'[k].by /\ task'[k]
      BY <3>4, <3>6, <3>7, <3>8, <3>9
    <3>11. JobInv(k)'
      <4>1. \A m \in Attempts : (outcome'[k][m] = "open") <=> (active'[k] = m)
        BY <3>2 DEF Attempts
      <4>2. \A m \in Attempts : outcome'[k][m] = "completed" =>
                status'[k] = "completed" /\ m = count'[k]
        BY <3>2, <3>4
      <4>3. output'[k].val # None => /\ output'[k].by \in Attempts
                                     /\ outcome'[k][output'[k].by] = "completed"
        BY <3>3, <3>8
      <4> QED BY <3>2, <3>3, <3>4, <3>10, <4>1, <4>2, <4>3 DEF JobInv
    <3> QED BY <2>2, <3>11
  <2> QED BY <2>1, <2>2
<1>5. ASSUME NEW k \in Key, NEW n \in Attempts, NEW r \in Result \cup {None},
             CompleteAgain(k, n, r)
      PROVE  JobInv(j)'
  BY <1>5, <1>d, Frame DEF CompleteAgain, vars, jobVars, attemptVars, sideVars
<1>6. ASSUME NEW k \in Key, NEW n \in Attempts, NEW retryable \in BOOLEAN,
             NEW d \in Lags, RecordFailure(k, n, retryable, d)
      PROVE  JobInv(j)'
  <2>1. CASE j # k
    BY <1>6, <2>1, <1>a, <1>d, Frame DEF RecordFailure, EndAttempt, TypeOK
  <2>2. CASE j = k
    <3>1. /\ status[k] = "running" /\ active[k] = n
          /\ EndAttempt(k, n, "failed", d)
          /\ UNCHANGED <<task, count, output, outbox>>
      BY <1>6 DEF RecordFailure, HoldsLease
    <3>2. /\ active'[k] = 0
          /\ \A m \in Attempts : outcome'[k][m] # "open" /\ outcome'[k][m] # "completed"
          /\ output[k].val = None
          /\ outbox[k].attempt = 0
      <4>1. "failed" \in Outcomes
        BY DEF Outcomes
      <4>2. \A m \in Attempts : outcome'[k][m] # "completed"
        <5>1. outcome'[k] = [outcome[k] EXCEPT ![n] = "failed"]
          BY <3>1, <1>a DEF EndAttempt, TypeOK
        <5>2. outcome[k] \in [Attempts -> Outcomes \cup {"none", "open"}]
          BY <1>a DEF TypeOK
        <5>3. \A m \in Attempts : outcome[k][m] # "completed"
          BY <3>1, <1>a DEF JobInv
        <5> QED BY <5>1, <5>2, <5>3
      <4>3. /\ active'[k] = 0
            /\ \A m \in Attempts : outcome'[k][m] # "open"
            /\ output[k].val = None
            /\ outbox[k].attempt = 0
        BY <3>1, <4>1, <1>a, EndAttemptInv
      <4> QED BY <4>2, <4>3
    <3>3. \/ status'[k] = "failed"
          \/ status'[k] = "queued" /\ count[k] < MaxAttempts
      BY <1>6, <1>a DEF RecordFailure, ShouldRetry, TypeOK
    <3> QED BY <2>2, <3>1, <3>2, <3>3, <1>d DEF JobInv, Attempts
  <2> QED BY <2>1, <2>2
<1>7. ASSUME NEW k \in Key, NEW d \in Lags, Cancel(k, d)
      PROVE  JobInv(j)'
  <2>1. CASE UNCHANGED vars
    BY <2>1, <1>d, Frame DEF vars, jobVars, attemptVars, sideVars
  <2>2. CASE ~UNCHANGED vars
    <3>1. /\ IF status[k] = "running"
             THEN EndAttempt(k, active[k], "cancelled", d)
             ELSE active' = [active EXCEPT ![k] = 0] /\ UNCHANGED attemptVars
          /\ status' = [status EXCEPT ![k] = "cancelled"]
          /\ UNCHANGED <<task, count, output, outbox>>
          /\ status[k] \in {"queued", "running"}
      BY <1>7, <2>2 DEF Cancel, ValidTransitions, Statuses
    <3>2. CASE j # k
      BY <3>1, <3>2, <1>a, <1>d, Frame DEF EndAttempt, attemptVars, TypeOK
    <3>3. CASE j = k
      <4>1. status'[k] = "cancelled"
        BY <3>1, <1>a DEF TypeOK
      <4>2. /\ active'[k] = 0
            /\ \A m \in Attempts : outcome'[k][m] # "open" /\ outcome'[k][m] # "completed"
            /\ output[k].val = None
            /\ outbox[k].attempt = 0
        <5>1. CASE status[k] = "running"
          <6>1. active[k] \in Attempts
            BY <5>1 DEF IInv, NeverStranded
          <6>2. "cancelled" \in Outcomes
            BY DEF Outcomes
          <6>3. EndAttempt(k, active[k], "cancelled", d) /\ JobInv(k)
            BY <3>1, <5>1, <1>a
          <6>4. \A m \in Attempts : outcome'[k][m] # "completed"
            <7>1. outcome'[k] = [outcome[k] EXCEPT ![active[k]] = "cancelled"]
              BY <5>1, <6>1, <6>3, <1>a DEF EndAttempt, TypeOK
            <7>2. outcome[k] \in [Attempts -> Outcomes \cup {"none", "open"}]
              BY <1>a DEF TypeOK
            <7>3. \A m \in Attempts : outcome[k][m] # "completed"
              BY <5>1, <6>1, <6>3, <1>a DEF JobInv
            <7> QED BY <7>1, <7>2, <7>3
          <6>5. /\ active'[k] = 0
                /\ \A m \in Attempts : outcome'[k][m] # "open"
                /\ output[k].val = None
                /\ outbox[k].attempt = 0
            BY <5>1, <6>1, <6>2, <6>3, <1>a, EndAttemptInv
          <6> QED BY <6>4, <6>5
        <5>2. CASE status[k] = "queued"
          <6>1. active[k] = 0 /\ outcome' = outcome /\ active'[k] = 0
            BY <3>1, <5>2, <1>a DEF JobInv, attemptVars, TypeOK
          <6>2. \A m \in Attempts : outcome[k][m] # "open" /\ outcome[k][m] # "completed"
            <7>1. \A m \in Attempts : m # 0
              BY DEF Attempts
            <7> QED BY <5>2, <6>1, <7>1, <1>a DEF JobInv
          <6>3. output[k].val = None
            BY <6>2, <1>a DEF JobInv
          <6>4. outbox[k].attempt = 0
            BY <6>3, <1>a DEF JobInv
          <6> QED BY <6>1, <6>2, <6>3, <6>4
        <5> QED BY <3>1, <5>1, <5>2
      <4> QED BY <3>1, <3>3, <4>1, <4>2 DEF JobInv, Attempts
    <3> QED BY <3>2, <3>3
  <2> QED BY <2>1, <2>2
<1>8. ASSUME NEW d \in Lags, ReclaimExpired(d)
      PROVE  JobInv(j)'
  <2>1. CASE j \notin Expired(d)
    <3>1. /\ status'[j] = status[j] /\ active'[j] = active[j]
          /\ UNCHANGED <<task, count, output, outbox>>
      BY <1>8, <2>1 DEF ReclaimExpired
    <3>2. outcome'[j] = [n \in Attempts |-> outcome[j][n]]
      BY <1>8, <2>1 DEF ReclaimExpired
    <3>3. outcome'[j] = outcome[j]
      BY <3>2, <1>a DEF TypeOK
    <3> QED BY <3>1, <3>3, <1>d, Frame
  <2>2. CASE j \in Expired(d)
    <3>1. status[j] = "running" /\ active[j] \in Attempts
      BY <2>2 DEF Expired
    <3>2. /\ status'[j] = ReclaimTarget(j)
          /\ active'[j] = 0
          /\ UNCHANGED <<task, count, output, outbox>>
      BY <1>8, <2>2 DEF ReclaimExpired
    <3>3. \A n \in Attempts : outcome'[j][n] =
              IF n = active[j] THEN "lease_expired" ELSE outcome[j][n]
      BY <1>8, <2>2 DEF ReclaimExpired
    <3>4. \A n \in Attempts : outcome[j][n] # "completed"
      BY <3>1, <1>d DEF JobInv
    <3>5. \A n \in Attempts : outcome'[j][n] # "open" /\ outcome'[j][n] # "completed"
      BY <3>3, <3>4, <1>d DEF JobInv
    <3>6. output[j].val = None
      BY <3>4, <1>d DEF JobInv
    <3>7. outbox[j].attempt = 0
      BY <3>6, <1>d DEF JobInv
    <3>8. \/ ReclaimTarget(j) = "failed"
          \/ ReclaimTarget(j) = "queued" /\ count[j] < MaxAttempts
      BY <1>a DEF ReclaimTarget, TypeOK
    <3> QED BY <3>2, <3>5, <3>6, <3>7, <3>8 DEF JobInv, Attempts
  <2> QED BY <2>1, <2>2
<1>9. ASSUME NEW k \in Key, AcknowledgeCompletion(k)
      PROVE  JobInv(j)'
  <2>1. outbox'[j].attempt = outbox[j].attempt
    BY <1>9, <1>a DEF AcknowledgeCompletion, TypeOK
  <2> QED BY <1>9, <2>1, <1>d, Frame DEF AcknowledgeCompletion, jobVars, attemptVars
<1>10. CASE Tick
  BY <1>10, <1>d, Frame DEF Tick, sideVars
<1>11. CASE UNCHANGED vars
  BY <1>11, <1>d, Frame DEF vars, jobVars, attemptVars, sideVars
<1> QED BY <1>1, <1>2, <1>3, <1>4, <1>5, <1>6, <1>7, <1>8, <1>9, <1>10, <1>11 DEF Next

\* The repository keeps its invariant through any interleaving of callers.
THEOREM JobsSafe == Spec => []IInv
  BY InitIInv, NextIInv, PTL DEF Spec

\* No two workers ever hold the same job, for any number of jobs, attempts and
\* any wait for the write lock (claim, _active_attempt, reclaim_expired).
THEOREM LiveAttemptUnique == Spec => []OneLiveAttempt
<1>1. IInv => OneLiveAttempt
  BY DEF IInv
<1> QED BY <1>1, JobsSafe, PTL

\* No unfinished job is ever out of reach of claim and reclaim_expired.
THEOREM NothingStranded == Spec => []NeverStranded
<1>1. IInv => NeverStranded
  BY DEF IInv
<1> QED BY <1>1, JobsSafe, PTL

\* A job has one completing attempt and one result (complete, _finish).
THEOREM OneCompletion == Spec => []CompletedOnce
<1>1. IInv => CompletedOnce
  BY DEF IInv
<1> QED BY <1>1, JobsSafe, PTL

\* The outbox owes what the outputs carry (_finish, completion_outbox).
THEOREM OutboxExact == Spec => []EvidenceInOutbox
<1>1. IInv => EvidenceInOutbox
  BY DEF IInv
<1> QED BY <1>1, JobsSafe, PTL

-----------------------------------------------------------------------------
(* The audit trail.  TrailTellsStatus is not inductive either: a claim must *)
(* not reuse the number of an attempt that was ended before it started, so  *)
(* the attempts beyond attempt_count have to be known to have no row.       *)

\* What the audit rows and the attempt rows of one job say.
AuditInv(k) ==
    /\ (trail[k] = <<>>) <=> (status[k] = "absent")
    /\ trail[k] # <<>> => trail[k][Len(trail[k])] = status[k]
    /\ \A n \in Attempts : <<k, n>> \in inverted => outcome[k][n] = "cancelled"
    /\ \A n \in Attempts : n > count[k] => outcome[k][n] = "none"

\* The part of JobInv that only the lease protocol needs.
LiveInv(k) ==
    /\ (status[k] = "running") <=> (active[k] # 0)
    /\ active[k] # 0 => active[k] = count[k]
    /\ \A n \in Attempts : (outcome[k][n] = "open") <=> (active[k] = n)
    /\ status[k] = "absent" => count[k] = 0
    /\ status[k] = "queued" => count[k] < MaxAttempts

LeaseJobInv(k) == LiveInv(k) /\ AuditInv(k)

\* A job whose rows a step leaves alone keeps what its audit rows say.
LEMMA AuditFrame ==
    ASSUME NEW j \in Key, AuditInv(j),
           status'[j] = status[j], count'[j] = count[j], outcome'[j] = outcome[j],
           trail'[j] = trail[j],
           \A n \in Attempts : <<j, n>> \in inverted' => <<j, n>> \in inverted
    PROVE  AuditInv(j)'
  BY DEF AuditInv

\* Recording a transition puts the new status last and touches one job.
LEMMA Recorded ==
    ASSUME TypeOK, NEW k \in Key, NEW to \in Statuses, RecordTransition(k, to)
    PROVE  /\ trail'[k] # <<>>
           /\ trail'[k][Len(trail'[k])] = to
           /\ \A j \in Key : j # k => trail'[j] = trail[j]
<1>1. trail \in [Key -> Seq(Statuses)] /\ trail' = [trail EXCEPT ![k] = Append(@, to)]
  BY DEF TypeOK, RecordTransition
<1>2. trail'[k] = Append(trail[k], to) /\ trail[k] \in Seq(Statuses)
  BY <1>1
<1>3. ASSUME NEW s \in Seq(Statuses)
      PROVE  /\ Append(s, to) # <<>>
             /\ Append(s, to)[Len(Append(s, to))] = to
  <2>1. Len(Append(s, to)) = Len(s) + 1 /\ Len(s) \in Nat
    OBVIOUS
  <2>2. Append(s, to) # <<>>
    <3>1. Len(Append(s, to)) # 0
      BY <2>1
    <3>2. Len(<<>>) = 0
      OBVIOUS
    <3> QED BY <3>1, <3>2, Zenon
  <2> QED BY <2>1, <2>2
<1> QED BY <1>1, <1>2, <1>3

\* Ending the live attempt keeps the attempt rows in order, provided that an
\* end which precedes its start is a cancellation.
LEMMA EndAttemptAudit ==
    ASSUME TypeOK, NEW k \in Key, LiveInv(k), AuditInv(k), status[k] = "running",
           NEW n \in Attempts, active[k] = n, NEW o \in Outcomes, NEW d \in Lags,
           EndAttempt(k, n, o, d), d <= age[k] \/ o = "cancelled"
    PROVE  /\ active'[k] = 0
           /\ \A m \in Attempts : outcome'[k][m] # "open"
           /\ \A m \in Attempts : <<k, m>> \in inverted' => outcome'[k][m] = "cancelled"
           /\ \A m \in Attempts : m > count[k] => outcome'[k][m] = "none"
           /\ \A j \in Key : j # k =>
                  /\ outcome'[j] = outcome[j]
                  /\ active'[j] = active[j]
                  /\ \A m \in Attempts : <<j, m>> \in inverted' => <<j, m>> \in inverted
<1>1. /\ active'[k] = 0
      /\ outcome'[k] = [outcome[k] EXCEPT ![n] = o]
      /\ \A j \in Key : j # k => outcome'[j] = outcome[j] /\ active'[j] = active[j]
  BY DEF EndAttempt, TypeOK
<1>2. outcome[k] \in [Attempts -> Outcomes \cup {"none", "open"}]
  BY DEF TypeOK
<1>3. n # 0 /\ n = count[k] /\ n \in Int
  BY DEF Attempts, LiveInv
<1>4. \A m \in Attempts : m # n => outcome[k][m] # "open"
  BY DEF LiveInv
<1>5. \A m \in Attempts : outcome'[k][m] = IF m = n THEN o ELSE outcome[k][m]
  BY <1>1, <1>2
<1>6. \A m \in Attempts : outcome'[k][m] # "open"
  BY <1>4, <1>5 DEF Outcomes
<1>7. \A m \in Attempts : m > count[k] => outcome'[k][m] = "none"
  <2>1. \A m \in Attempts : m > count[k] => m # n
    BY <1>3 DEF Attempts
  <2> QED BY <1>5, <2>1 DEF AuditInv
<1>8. <<k, n>> \in inverted' => o = "cancelled"
  <2>1. outcome[k][n] = "open"
    BY DEF LiveInv
  <2>2. <<k, n>> \notin inverted
    BY <2>1 DEF AuditInv
  <2>3. age[k] \in Int /\ d \in Int
    BY DEF TypeOK, Lags
  <2> QED BY <2>2, <2>3 DEF EndAttempt
<1>9. \A m \in Attempts : m # n => (<<k, m>> \in inverted' => <<k, m>> \in inverted)
  BY DEF EndAttempt
<1>10. \A j \in Key : j # k =>
           \A m \in Attempts : <<j, m>> \in inverted' => <<j, m>> \in inverted
  BY DEF EndAttempt
<1>11. \A m \in Attempts : <<k, m>> \in inverted' => outcome'[k][m] = "cancelled"
  BY <1>5, <1>8, <1>9 DEF AuditInv
<1> QED BY <1>1, <1>6, <1>7, <1>10, <1>11

\* The operations that both repositories share keep the lease protocol of
\* every job: enqueue, heartbeat, and the passing of time.
LEMMA SharedSteps ==
    ASSUME TypeOK, \A k \in Key : LeaseJobInv(k), NEW j \in Key
    PROVE  /\ \A k \in Key, p \in Priority, h \in BOOLEAN, d \in Lags :
                  Enqueue(k, p, h, d) => LeaseJobInv(j)'
           /\ \A k \in Key, n \in Attempts, d \in Lags :
                  Heartbeat(k, n, d) => LeaseJobInv(j)'
           /\ Tick => LeaseJobInv(j)'
           /\ UNCHANGED vars => LeaseJobInv(j)'
<1>a. LiveInv(j) /\ AuditInv(j)
  BY DEF LeaseJobInv
<1>1. ASSUME NEW k \in Key, NEW p \in Priority, NEW h \in BOOLEAN, NEW d \in Lags,
             Enqueue(k, p, h, d)
      PROVE  LeaseJobInv(j)'
  <2>1. CASE status[k] # "absent"
    BY <1>1, <2>1, <1>a
       DEF Enqueue, vars, jobVars, attemptVars, sideVars, LeaseJobInv, LiveInv, AuditInv
  <2>2. CASE status[k] = "absent"
    <3>1. /\ status' = [status EXCEPT ![k] = "queued"]
          /\ RecordTransition(k, "queued")
          /\ UNCHANGED <<count, active, outcome, inverted>>
      BY <1>1, <2>2 DEF Enqueue, attemptVars
    <3>2. /\ trail'[k] # <<>>
          /\ trail'[k][Len(trail'[k])] = "queued"
          /\ j # k => trail'[j] = trail[j]
      BY <3>1, Recorded DEF Statuses
    <3>3. CASE j # k
      <4>1. status'[j] = status[j]
        BY <3>1, <3>3 DEF TypeOK
      <4>2. LiveInv(j)'
        BY <3>1, <4>1, <1>a DEF LiveInv
      <4>3. AuditInv(j)'
        BY <3>1, <3>2, <3>3, <4>1, <1>a, AuditFrame
      <4> QED BY <4>2, <4>3 DEF LeaseJobInv
    <3>4. CASE j = k
      <4>1. status'[j] = "queued"
        BY <3>1, <3>4 DEF TypeOK
      <4>2. count[j] = 0 /\ active[j] = 0
        BY <2>2, <3>4, <1>a DEF LiveInv
      <4>3. LiveInv(j)'
        BY <3>1, <4>1, <4>2, <1>a, JobsAssumption DEF LiveInv
      <4>4. AuditInv(j)'
        BY <3>1, <3>2, <3>4, <4>1, <1>a DEF AuditInv
      <4> QED BY <4>3, <4>4 DEF LeaseJobInv
    <3> QED BY <3>3, <3>4
  <2> QED BY <2>1, <2>2
<1>2. ASSUME NEW k \in Key, NEW n \in Attempts, NEW d \in Lags, Heartbeat(k, n, d)
      PROVE  LeaseJobInv(j)'
  BY <1>2, <1>a DEF Heartbeat, jobVars, sideVars, LeaseJobInv, LiveInv, AuditInv
<1>3. ASSUME Tick PROVE LeaseJobInv(j)'
  BY <1>3, <1>a DEF Tick, sideVars, LeaseJobInv, LiveInv, AuditInv
<1>4. ASSUME UNCHANGED vars PROVE LeaseJobInv(j)'
  BY <1>4, <1>a DEF vars, jobVars, attemptVars, sideVars, LeaseJobInv, LiveInv, AuditInv
<1> QED BY <1>1, <1>2, <1>3, <1>4

\* Giving job k its next attempt keeps the lease protocol of every job,
\* whichever claimable job is chosen.
LEMMA ClaimLease ==
    ASSUME TypeOK, \A i \in Key : LeaseJobInv(i), NEW j \in Key, NEW k \in Key,
           NEW d \in Lags, Claimable(k, d),
           status'  = [status EXCEPT ![k] = "running"],
           count'   = [count EXCEPT ![k] = @ + 1],
           active'  = [active EXCEPT ![k] = count[k] + 1],
           outcome' = [outcome EXCEPT ![k][count[k] + 1] = "open"],
           RecordTransition(k, "running"), inverted' = inverted
    PROVE  LeaseJobInv(j)'
<1>a. LiveInv(j) /\ AuditInv(j)
  BY DEF LeaseJobInv
<1>1. /\ trail'[k] # <<>>
      /\ trail'[k][Len(trail'[k])] = "running"
      /\ j # k => trail'[j] = trail[j]
  BY Recorded DEF Statuses
<1>2. CASE j # k
  <2>1. /\ status'[j] = status[j] /\ count'[j] = count[j]
        /\ active'[j] = active[j] /\ outcome'[j] = outcome[j]
    BY <1>2 DEF TypeOK
  <2>2. LiveInv(j)'
    BY <2>1, <1>a DEF LiveInv
  <2>3. AuditInv(j)'
    BY <1>1, <1>2, <2>1, <1>a, AuditFrame
  <2> QED BY <2>2, <2>3 DEF LeaseJobInv
<1>3. CASE j = k
  <2>1. status[j] = "queued" /\ count[j] \in 0..MaxAttempts /\ count[j] < MaxAttempts
    BY <1>3 DEF Claimable, TypeOK
  <2>2. PICK m \in Attempts : m = count[j] + 1
    BY <2>1, JobsAssumption DEF Attempts
  <2>3. m # 0 /\ m > count[j] /\ \A n \in Attempts : n > m => n > count[j]
    BY <2>1, <2>2 DEF Attempts
  <2>4. /\ status'[j] = "running" /\ count'[j] = m /\ active'[j] = m
        /\ outcome'[j] = [outcome[j] EXCEPT ![m] = "open"]
    BY <1>3, <2>2 DEF TypeOK
  <2>5. outcome[j] \in [Attempts -> Outcomes \cup {"none", "open"}]
    BY DEF TypeOK
  <2>6. \A n \in Attempts : outcome'[j][n] = IF n = m THEN "open" ELSE outcome[j][n]
    BY <2>4, <2>5
  <2>7. \A n \in Attempts : outcome[j][n] # "open"
    <3>1. active[j] = 0 /\ \A n \in Attempts : n # 0
      BY <2>1, <1>a DEF LiveInv, Attempts
    <3> QED BY <3>1, <1>a DEF LiveInv
  <2>8. LiveInv(j)'
    <3>1. \A n \in Attempts : (outcome'[j][n] = "open") <=> (active'[j] = n)
      BY <2>4, <2>6, <2>7
    <3> QED BY <2>3, <2>4, <3>1 DEF LiveInv
  <2>9. \A n \in Attempts : <<j, n>> \in inverted' => outcome'[j][n] = "cancelled"
    <3>1. outcome[j][m] = "none"
      BY <2>3, <1>a DEF AuditInv
    <3> QED BY <2>6, <3>1, <1>a DEF AuditInv
  <2>10. \A n \in Attempts : n > count'[j] => outcome'[j][n] = "none"
    <3>1. \A n \in Attempts : n > m => n # m
      BY <2>2, <2>1 DEF Attempts
    <3> QED BY <2>3, <2>4, <2>6, <3>1, <1>a DEF AuditInv
  <2>11. AuditInv(j)'
    BY <1>1, <1>3, <2>4, <2>9, <2>10 DEF AuditInv
  <2> QED BY <2>8, <2>11 DEF LeaseJobInv
<1> QED BY <1>2, <1>3

\* Ending the live attempt of job k, for whatever reason, keeps the lease
\* protocol of every job when a job put back in the queue has attempts left.
LEMMA EndLease ==
    ASSUME TypeOK, \A i \in Key : LeaseJobInv(i), NEW j \in Key, NEW k \in Key,
           NEW n \in Attempts, status[k] = "running", active[k] = n,
           NEW o \in Outcomes, NEW d \in Lags, EndAttempt(k, n, o, d),
           d <= age[k] \/ o = "cancelled",
           NEW to \in {"queued", "completed", "failed", "cancelled"},
           to = "queued" => count[k] < MaxAttempts,
           status' = [status EXCEPT ![k] = to], RecordTransition(k, to),
           count' = count
    PROVE  LeaseJobInv(j)'
<1>a. LiveInv(k) /\ AuditInv(k) /\ LiveInv(j) /\ AuditInv(j)
  BY DEF LeaseJobInv
<1>b. to \in Statuses /\ to # "running" /\ to # "absent"
  BY DEF Statuses
<1>1. /\ trail'[k] # <<>>
      /\ trail'[k][Len(trail'[k])] = to
      /\ j # k => trail'[j] = trail[j]
  BY <1>b, Recorded
<1>2. /\ active'[k] = 0
      /\ \A m \in Attempts : outcome'[k][m] # "open"
      /\ \A m \in Attempts : <<k, m>> \in inverted' => outcome'[k][m] = "cancelled"
      /\ \A m \in Attempts : m > count[k] => outcome'[k][m] = "none"
      /\ j # k => /\ outcome'[j] = outcome[j]
                  /\ active'[j] = active[j]
                  /\ \A m \in Attempts : <<j, m>> \in inverted' => <<j, m>> \in inverted
  BY <1>a, EndAttemptAudit
<1>3. CASE j # k
  <2>1. status'[j] = status[j]
    BY <1>3 DEF TypeOK
  <2>2. LiveInv(j)'
    BY <1>2, <1>3, <2>1, <1>a DEF LiveInv
  <2>3. AuditInv(j)'
    BY <1>1, <1>2, <1>3, <2>1, <1>a, AuditFrame
  <2> QED BY <2>2, <2>3 DEF LeaseJobInv
<1>4. CASE j = k
  <2>1. status'[j] = to
    BY <1>4 DEF TypeOK
  <2>2. \A m \in Attempts : m # 0
    BY DEF Attempts
  <2>3. LiveInv(j)'
    BY <1>2, <1>4, <1>b, <2>1, <2>2 DEF LiveInv
  <2>4. AuditInv(j)'
    BY <1>1, <1>2, <1>4, <1>b, <2>1 DEF AuditInv
  <2> QED BY <2>3, <2>4 DEF LeaseJobInv
<1> QED BY <1>3, <1>4

\* Cancelling a job that nobody runs keeps the lease protocol of every job.
LEMMA CancelIdle ==
    ASSUME TypeOK, \A i \in Key : LeaseJobInv(i), NEW j \in Key, NEW k \in Key,
           status[k] # "running",
           status' = [status EXCEPT ![k] = "cancelled"],
           active' = [active EXCEPT ![k] = 0], RecordTransition(k, "cancelled"),
           UNCHANGED <<count, outcome, inverted>>
    PROVE  LeaseJobInv(j)'
<1>a. LiveInv(j) /\ AuditInv(j)
  BY DEF LeaseJobInv
<1>1. /\ trail'[k] # <<>>
      /\ trail'[k][Len(trail'[k])] = "cancelled"
      /\ j # k => trail'[j] = trail[j]
  BY Recorded DEF Statuses
<1>2. CASE j # k
  <2>1. status'[j] = status[j] /\ active'[j] = active[j]
    BY <1>2 DEF TypeOK
  <2>2. LiveInv(j)'
    BY <2>1, <1>a DEF LiveInv
  <2>3. AuditInv(j)'
    BY <1>1, <1>2, <2>1, <1>a, AuditFrame
  <2> QED BY <2>2, <2>3 DEF LeaseJobInv
<1>3. CASE j = k
  <2>1. status'[j] = "cancelled" /\ active'[j] = 0 /\ active[j] = 0
    BY <1>3, <1>a DEF TypeOK, LiveInv
  <2>2. LiveInv(j)'
    BY <2>1, <1>a DEF LiveInv
  <2>3. AuditInv(j)'
    BY <1>1, <1>3, <2>1, <1>a DEF AuditInv
  <2> QED BY <2>2, <2>3 DEF LeaseJobInv
<1> QED BY <1>2, <1>3

\* Taking back the expired leases of the jobs in E, all of them or those that
\* nobody has locked, keeps the lease protocol of every job.
LEMMA ReclaimLease ==
    ASSUME TypeOK, \A i \in Key : LeaseJobInv(i), NEW j \in Key,
           NEW d \in Lags, NEW E \in SUBSET Expired(d),
           status' = [k \in Key |-> IF k \in E THEN ReclaimTarget(k) ELSE status[k]],
           active' = [k \in Key |-> IF k \in E THEN 0 ELSE active[k]],
           outcome' = [k \in Key |-> [n \in Attempts |->
               IF k \in E /\ n = active[k] THEN "lease_expired" ELSE outcome[k][n]]],
           trail' = [k \in Key |->
               IF k \in E THEN Append(trail[k], ReclaimTarget(k)) ELSE trail[k]],
           count' = count, inverted' = inverted
    PROVE  LeaseJobInv(j)'
<1>a. LiveInv(j) /\ AuditInv(j)
  BY DEF LeaseJobInv
<1>b. outcome[j] \in [Attempts -> Outcomes \cup {"none", "open"}]
  BY DEF TypeOK
<1>1. CASE j \notin E
  <2>1. /\ status'[j] = status[j] /\ active'[j] = active[j] /\ trail'[j] = trail[j]
        /\ outcome'[j] = [n \in Attempts |-> outcome[j][n]]
    BY <1>1
  <2>2. outcome'[j] = outcome[j]
    BY <1>b, <2>1
  <2>3. LiveInv(j)'
    BY <2>1, <2>2, <1>a DEF LiveInv
  <2>4. AuditInv(j)'
    BY <2>1, <2>2, <1>a DEF AuditInv
  <2> QED BY <2>3, <2>4 DEF LeaseJobInv
<1>2. CASE j \in E
  <2>1. status[j] = "running" /\ active[j] \in Attempts
    BY <1>2 DEF Expired
  <2>2. /\ status'[j] = ReclaimTarget(j) /\ active'[j] = 0
        /\ trail'[j] = Append(trail[j], ReclaimTarget(j))
    BY <1>2
  <2>3. \A n \in Attempts :
            outcome'[j][n] = IF n = active[j] THEN "lease_expired" ELSE outcome[j][n]
    BY <1>2
  <2>4. active[j] = count[j] /\ active[j] # 0
    BY <2>1, <1>a DEF LiveInv
  <2>5. \A n \in Attempts : outcome'[j][n] # "open"
    BY <2>3, <1>a DEF LiveInv
  <2>6. \A n \in Attempts : n # 0
    BY DEF Attempts
  <2>7. \/ ReclaimTarget(j) = "failed"
        \/ ReclaimTarget(j) = "queued" /\ count[j] < MaxAttempts
    BY JobsAssumption DEF ReclaimTarget, TypeOK
  <2>8. LiveInv(j)'
    BY <2>2, <2>5, <2>6, <2>7 DEF LiveInv
  <2>9. \A n \in Attempts : <<j, n>> \in inverted' => outcome'[j][n] = "cancelled"
    <3>1. outcome[j][active[j]] = "open"
      BY <2>1, <1>a DEF LiveInv
    <3>2. <<j, active[j]>> \notin inverted
      BY <2>1, <3>1, <1>a DEF AuditInv
    <3> QED BY <2>3, <3>2, <1>a DEF AuditInv
  <2>10. \A n \in Attempts : n > count'[j] => outcome'[j][n] = "none"
    <3>1. \A n \in Attempts : n > count[j] => n # active[j]
      BY <2>1, <2>4 DEF Attempts
    <3> QED BY <2>3, <3>1, <1>a DEF AuditInv
  <2>11. trail'[j] # <<>> /\ trail'[j][Len(trail'[j])] = status'[j]
    <3> DEFINE to == ReclaimTarget(j)
               s == trail[j]
    <3>1. s \in Seq(Statuses) /\ to \in Statuses
      BY <2>7 DEF TypeOK, Statuses
    <3> HIDE DEF to, s
    <3>2. Len(Append(s, to)) = Len(s) + 1 /\ Len(s) \in Nat /\ Len(<<>>) = 0
      BY <3>1
    <3>3. Len(Append(s, to)) # Len(<<>>)
      BY <3>2
    <3>4. Append(s, to) # <<>>
      BY <3>3, Zenon
    <3>5. Append(s, to)[Len(Append(s, to))] = to
      BY <3>1, <3>2
    <3> QED BY <2>2, <3>4, <3>5 DEF to, s
  <2>12. AuditInv(j)'
    BY <2>2, <2>7, <2>9, <2>10, <2>11 DEF AuditInv
  <2> QED BY <2>8, <2>12 DEF LeaseJobInv
<1> QED BY <1>1, <1>2

\* The inductive form of the audit property: every row has its shape, and every
\* job satisfies the lease protocol and its audit rows.
LeaseJobs == TypeOK /\ \A k \in Key : LeaseJobInv(k)

\* The initial tables satisfy it.
LEMMA InitLeaseJobs == Init => LeaseJobs
<1> SUFFICES ASSUME Init PROVE LeaseJobs
  OBVIOUS
<1>1. TypeOK
  BY InitTypeOK
<1>2. ASSUME NEW k \in Key PROVE LeaseJobInv(k)
  BY JobsAssumption DEF Init, LeaseJobInv, LiveInv, AuditInv, Attempts
<1> QED BY <1>1, <1>2 DEF LeaseJobs

\* Every transaction keeps the lease protocol and the audit rows.
LEMMA NextLeaseJobs == LeaseJobs /\ [Next]_vars => LeaseJobs'
<1> SUFFICES ASSUME LeaseJobs, [Next]_vars PROVE LeaseJobs'
  OBVIOUS
<1>a. TypeOK /\ \A k \in Key : LeaseJobInv(k)
  BY DEF LeaseJobs
<1>b. TypeOK'
  BY <1>a, NextTypeOK
<1>c. SUFFICES ASSUME NEW j \in Key PROVE LeaseJobInv(j)'
  BY <1>b DEF LeaseJobs
<1>d. \A k \in Key : status[k] = "running" => active[k] \in Attempts
  <2> SUFFICES ASSUME NEW k \in Key, status[k] = "running" PROVE active[k] \in Attempts
    OBVIOUS
  <2>1. active[k] # 0 /\ active[k] \in 0..MaxAttempts
    BY <1>a DEF LeaseJobInv, LiveInv, TypeOK
  <2> QED BY <2>1, JobsAssumption DEF Attempts
<1>1. ASSUME NEW k \in Key, NEW p \in Priority, NEW h \in BOOLEAN, NEW d \in Lags,
             Enqueue(k, p, h, d)
      PROVE  LeaseJobInv(j)'
  BY <1>1, <1>a, SharedSteps
<1>2. ASSUME NEW k \in Key, NEW d \in Lags, Claim(k, d)
      PROVE  LeaseJobInv(j)'
  BY <1>2, <1>a, ClaimLease DEF Claim
<1>3. ASSUME NEW k \in Key, NEW n \in Attempts, NEW d \in Lags, Heartbeat(k, n, d)
      PROVE  LeaseJobInv(j)'
  BY <1>3, <1>a, SharedSteps
<1>4. ASSUME NEW k \in Key, NEW n \in Attempts, NEW r \in Result \cup {None},
             NEW d \in Lags, Complete(k, n, r, d)
      PROVE  LeaseJobInv(j)'
  BY <1>4, <1>a, EndLease DEF Complete, HoldsLease, Outcomes
<1>5. ASSUME NEW k \in Key, NEW n \in Attempts, NEW r \in Result \cup {None},
             CompleteAgain(k, n, r)
      PROVE  LeaseJobInv(j)'
  BY <1>5, <1>a, SharedSteps DEF CompleteAgain
<1>6. ASSUME NEW k \in Key, NEW n \in Attempts, NEW retryable \in BOOLEAN,
             NEW d \in Lags, RecordFailure(k, n, retryable, d)
      PROVE  LeaseJobInv(j)'
  <2> DEFINE to == IF ShouldRetry(k, retryable) THEN "queued" ELSE "failed"
  <2>1. /\ status[k] = "running" /\ active[k] = n /\ d <= age[k]
        /\ status' = [status EXCEPT ![k] = to]
        /\ RecordTransition(k, to)
        /\ EndAttempt(k, n, "failed", d)
        /\ count' = count
    BY <1>6 DEF RecordFailure, HoldsLease
  <2>2. /\ to \in {"queued", "completed", "failed", "cancelled"}
        /\ to = "queued" => count[k] < MaxAttempts
    BY DEF ShouldRetry
  <2> HIDE DEF to
  <2> QED BY <2>1, <2>2, <1>a, EndLease DEF Outcomes
<1>7. ASSUME NEW k \in Key, NEW d \in Lags, Cancel(k, d)
      PROVE  LeaseJobInv(j)'
  <2>1. CASE UNCHANGED vars
    BY <2>1, <1>a, SharedSteps
  <2>2. CASE ~UNCHANGED vars
    <3>1. /\ IF status[k] = "running"
             THEN EndAttempt(k, active[k], "cancelled", d)
             ELSE active' = [active EXCEPT ![k] = 0] /\ UNCHANGED attemptVars
          /\ status' = [status EXCEPT ![k] = "cancelled"]
          /\ RecordTransition(k, "cancelled")
          /\ count' = count
      BY <1>7, <2>2 DEF Cancel
    <3>2. CASE status[k] = "running"
      BY <3>1, <3>2, <1>a, <1>d, EndLease DEF Outcomes
    <3>3. CASE status[k] # "running"
      BY <3>1, <3>3, <1>a, <1>c, CancelIdle DEF attemptVars
    <3> QED BY <3>2, <3>3
  <2> QED BY <2>1, <2>2
<1>8. ASSUME NEW d \in Lags, ReclaimExpired(d)
      PROVE  LeaseJobInv(j)'
  BY <1>8, <1>a, ReclaimLease DEF ReclaimExpired
<1>9. ASSUME NEW k \in Key, AcknowledgeCompletion(k)
      PROVE  LeaseJobInv(j)'
  BY <1>9, <1>a
     DEF AcknowledgeCompletion, jobVars, attemptVars, LeaseJobInv, LiveInv, AuditInv
<1>10. CASE Tick
  BY <1>10, <1>a, SharedSteps
<1>11. CASE UNCHANGED vars
  BY <1>11, <1>a, SharedSteps
<1> QED BY <1>1, <1>2, <1>3, <1>4, <1>5, <1>6, <1>7, <1>8, <1>9, <1>10, <1>11 DEF Next

\* Replaying job_transitions gives the status of every job, and an attempt that
\* was stored as ended before it started was cancelled, whatever the interleaving
\* of callers and however long they wait for the write lock.
THEOREM TrailExact == Spec => []TrailTellsStatus
<1>1. LeaseJobs => TrailTellsStatus
  BY DEF LeaseJobs, LeaseJobInv, AuditInv, TrailTellsStatus
<1> QED BY <1>1, InitLeaseJobs, NextLeaseJobs, PTL DEF Spec

-----------------------------------------------------------------------------
(* What a step may never do, from the inductive invariant.                  *)

\* A stored result belongs to a completed job.
LEMMA OutputMeansCompleted ==
    ASSUME NEW k \in Key, JobInv(k), output[k].val # None
    PROVE  status[k] = "completed"
  BY DEF JobInv

\* No transaction, however late its token, changes a finished job.
LEMMA NextKeepsFinished == IInv /\ [Next]_vars => KeepsFinished
<1> SUFFICES ASSUME IInv, [Next]_vars PROVE KeepsFinished
  OBVIOUS
<1>a. TypeOK /\ \A j \in Key : JobInv(j)
  BY IInvPerJob DEF IInv, AllJobsInv
<1> DEFINE Kept(j) == /\ status[j] \in Terminal =>
                             /\ status'[j] = status[j]
                             /\ outcome'[j] = outcome[j]
                             /\ outbox'[j].attempt = outbox[j].attempt
                      /\ output[j].val # None => output'[j] = output[j]
<1>b. SUFFICES ASSUME NEW j \in Key PROVE Kept(j)
  BY DEF KeepsFinished
<1>c. output[j].val # None => status[j] \in Terminal
  BY <1>a, OutputMeansCompleted DEF Terminal
<1>d. ASSUME UNCHANGED <<status, outcome, outbox, output>> PROVE Kept(j)
  BY <1>d
<1>e. ASSUME status[j] \notin Terminal PROVE Kept(j)
  BY <1>c, <1>e
<1>f. ASSUME NEW k \in Key, status[k] \notin Terminal,
             j # k => /\ status'[j] = status[j] /\ outcome'[j] = outcome[j]
                      /\ outbox'[j] = outbox[j] /\ output'[j] = output[j]
      PROVE  Kept(j)
  BY <1>e, <1>f
<1> HIDE DEF Kept
<1>1. ASSUME NEW k \in Key, NEW p \in Priority, NEW h \in BOOLEAN, NEW d \in Lags,
             Enqueue(k, p, h, d)
      PROVE  Kept(j)
  <2>1. CASE status[k] # "absent"
    BY <1>1, <2>1, <1>d DEF Enqueue, vars, jobVars, attemptVars, sideVars
  <2>2. CASE status[k] = "absent"
    BY <1>1, <2>2, <1>a, <1>f DEF Enqueue, attemptVars, TypeOK, Terminal
  <2> QED BY <2>1, <2>2
<1>2. ASSUME NEW k \in Key, NEW d \in Lags, Claim(k, d)
      PROVE  Kept(j)
  BY <1>2, <1>a, <1>f DEF Claim, Claimable, TypeOK, Terminal
<1>3. ASSUME NEW k \in Key, NEW n \in Attempts, NEW d \in Lags, Heartbeat(k, n, d)
      PROVE  Kept(j)
  BY <1>3, <1>d DEF Heartbeat, jobVars, sideVars
<1>4. ASSUME NEW k \in Key, NEW n \in Attempts, NEW r \in Result \cup {None},
             NEW d \in Lags, Complete(k, n, r, d)
      PROVE  Kept(j)
  <2>1. status[k] \notin Terminal
    BY <1>4 DEF Complete, HoldsLease, Terminal
  <2>2. j # k => /\ status'[j] = status[j] /\ outcome'[j] = outcome[j]
                 /\ outbox'[j] = outbox[j] /\ output'[j] = output[j]
    BY <1>4, <1>a DEF Complete, EndAttempt, RecordEvidence, TypeOK
  <2> QED BY <2>1, <2>2, <1>f
<1>5. ASSUME NEW k \in Key, NEW n \in Attempts, NEW r \in Result \cup {None},
             CompleteAgain(k, n, r)
      PROVE  Kept(j)
  BY <1>5, <1>d DEF CompleteAgain, vars, jobVars, attemptVars, sideVars
<1>6. ASSUME NEW k \in Key, NEW n \in Attempts, NEW retryable \in BOOLEAN,
             NEW d \in Lags, RecordFailure(k, n, retryable, d)
      PROVE  Kept(j)
  <2>1. status[k] \notin Terminal
    BY <1>6 DEF RecordFailure, HoldsLease, Terminal
  <2>2. j # k => /\ status'[j] = status[j] /\ outcome'[j] = outcome[j]
                 /\ outbox'[j] = outbox[j] /\ output'[j] = output[j]
    BY <1>6, <1>a DEF RecordFailure, EndAttempt, TypeOK
  <2> QED BY <2>1, <2>2, <1>f
<1>7. ASSUME NEW k \in Key, NEW d \in Lags, Cancel(k, d)
      PROVE  Kept(j)
  <2>1. CASE UNCHANGED vars
    BY <2>1, <1>d DEF vars, jobVars, attemptVars, sideVars
  <2>2. CASE ~UNCHANGED vars
    <3>1. /\ IF status[k] = "running"
             THEN EndAttempt(k, active[k], "cancelled", d)
             ELSE active' = [active EXCEPT ![k] = 0] /\ UNCHANGED attemptVars
          /\ status' = [status EXCEPT ![k] = "cancelled"]
          /\ UNCHANGED <<output, outbox>>
          /\ status[k] \notin Terminal
      BY <1>7, <2>2 DEF Cancel, ValidTransitions, Statuses, Terminal
    <3>2. j # k => status'[j] = status[j] /\ outcome'[j] = outcome[j]
      BY <3>1, <1>a DEF EndAttempt, attemptVars, TypeOK
    <3> QED BY <3>1, <3>2, <1>f
  <2> QED BY <2>1, <2>2
<1>8. ASSUME NEW d \in Lags, ReclaimExpired(d)
      PROVE  Kept(j)
  <2>1. CASE j \notin Expired(d)
    <3>1. /\ status'[j] = status[j]
          /\ UNCHANGED <<output, outbox>>
          /\ outcome'[j] = [n \in Attempts |-> outcome[j][n]]
      BY <1>8, <2>1 DEF ReclaimExpired
    <3>2. outcome'[j] = outcome[j]
      BY <3>1, <1>a DEF TypeOK
    <3> QED BY <3>1, <3>2 DEF Kept
  <2>2. CASE j \in Expired(d)
    BY <2>2, <1>e DEF Expired, Terminal
  <2> QED BY <2>1, <2>2
<1>9. ASSUME NEW k \in Key, AcknowledgeCompletion(k)
      PROVE  Kept(j)
  <2>1. outbox'[j].attempt = outbox[j].attempt
    BY <1>9, <1>a DEF AcknowledgeCompletion, TypeOK
  <2> QED BY <1>9, <2>1 DEF AcknowledgeCompletion, jobVars, attemptVars, Kept
<1>10. CASE Tick
  BY <1>10, <1>d DEF Tick, sideVars
<1>11. CASE UNCHANGED vars
  BY <1>11, <1>d DEF vars, jobVars, attemptVars, sideVars
<1> QED BY <1>1, <1>2, <1>3, <1>4, <1>5, <1>6, <1>7, <1>8, <1>9, <1>10, <1>11 DEF Next

\* A finished job is final: no late worker, repeated call, cancellation or
\* reclaim changes its status, its attempts or the result it stored.
THEOREM FinishedIsFinal == Spec => TerminalIsFinal
<1>1. IInv /\ [Next]_vars => [KeepsFinished]_vars
  BY NextKeepsFinished
<1> QED BY <1>1, JobsSafe, PTL DEF Spec, TerminalIsFinal

-----------------------------------------------------------------------------
(* The repository implements the contract of module JobContract.            *)

\* What the caller sees of one job.
PhaseOf(k) == IF status[k] \in {"queued", "running"} THEN "accepted" ELSE status[k]
NoticeOf(k) == IF outbox[k].attempt = 0 THEN "none"
               ELSE IF outbox[k].published THEN "sent" ELSE "owed"

\* A step that changes neither the phase, the result nor the notice of any job
\* is invisible to the caller.
LEMMA Invisible ==
    ASSUME \A j \in Key : PhaseOf(j)' = PhaseOf(j),
           UNCHANGED <<output, outbox>>
    PROVE  UNCHANGED Contract!vars
  BY DEF Contract!vars, PhaseOf

\* Every transaction is a step of the contract or invisible to the caller.
LEMMA NextContract == IInv /\ [Next]_vars => [Contract!Next]_(Contract!vars)
<1> SUFFICES ASSUME IInv, [Next]_vars PROVE Contract!Next \/ UNCHANGED Contract!vars
  OBVIOUS
<1>a. TypeOK /\ \A j \in Key : JobInv(j)
  BY IInvPerJob DEF IInv, AllJobsInv
<1>1. ASSUME NEW k \in Key, NEW p \in Priority, NEW h \in BOOLEAN, NEW d \in Lags,
             Enqueue(k, p, h, d)
      PROVE  Contract!Next \/ UNCHANGED Contract!vars
  <2>1. CASE status[k] # "absent"
    BY <1>1, <2>1, Invisible DEF Enqueue, vars, jobVars, attemptVars, sideVars, PhaseOf
  <2>2. CASE status[k] = "absent"
    <3>1. status' = [status EXCEPT ![k] = "queued"] /\ UNCHANGED <<output, outbox>>
      BY <1>1, <2>2 DEF Enqueue
    <3>2. Contract!Accept(k)
      BY <2>2, <3>1, <1>a DEF Contract!Accept, TypeOK
    <3> QED BY <3>2 DEF Contract!Next
  <2> QED BY <2>1, <2>2
<1>2. ASSUME NEW k \in Key, NEW d \in Lags, Claim(k, d)
      PROVE  UNCHANGED Contract!vars
  <2>1. \A j \in Key : PhaseOf(j)' = PhaseOf(j)
    BY <1>2, <1>a DEF Claim, Claimable, TypeOK, PhaseOf
  <2> QED BY <1>2, <2>1, Invisible DEF Claim
<1>3. ASSUME NEW k \in Key, NEW n \in Attempts, NEW d \in Lags, Heartbeat(k, n, d)
      PROVE  UNCHANGED Contract!vars
  BY <1>3, Invisible DEF Heartbeat, jobVars, sideVars, PhaseOf
<1>4. ASSUME NEW k \in Key, NEW n \in Attempts, NEW r \in Result \cup {None},
             NEW d \in Lags, Complete(k, n, r, d)
      PROVE  Contract!Next
  <2>1. /\ status[k] = "running" /\ active[k] = n
        /\ EndAttempt(k, n, "completed", d)
        /\ status' = [status EXCEPT ![k] = "completed"]
    BY <1>4 DEF Complete, HoldsLease
  <2>2. output[k].val = None /\ outbox[k].attempt = 0
    <3>1. "completed" \in Outcomes
      BY DEF Outcomes
    <3> QED BY <2>1, <3>1, <1>a, EndAttemptInv
  <2>3. n # 0
    BY DEF Attempts
  <2>4. \A j \in Key : output'[j].val = IF j = k THEN r ELSE output[j].val
    BY <1>4, <2>2, <1>a, JobsAssumption DEF Complete, TypeOK
  <2>5. \A j \in Key : NoticeOf(j)' =
            IF j = k THEN IF r \in Evidence THEN "owed" ELSE "none" ELSE NoticeOf(j)
    BY <1>4, <2>2, <2>3, <1>a DEF Complete, RecordEvidence, NoticeOf, TypeOK
  <2>6. \A j \in Key : PhaseOf(j)' = IF j = k THEN "completed" ELSE PhaseOf(j)
    BY <2>1, <1>a DEF PhaseOf, TypeOK
  <2>7. Contract!Finish(k, r)
    <3>1. PhaseOf(k) = "accepted"
      BY <2>1 DEF PhaseOf
    <3> QED BY <2>4, <2>5, <2>6, <3>1 DEF Contract!Finish, PhaseOf, NoticeOf
  <2> QED BY <2>7 DEF Contract!Next
<1>5. ASSUME NEW k \in Key, NEW n \in Attempts, NEW r \in Result \cup {None},
             CompleteAgain(k, n, r)
      PROVE  UNCHANGED Contract!vars
  BY <1>5, Invisible DEF CompleteAgain, vars, jobVars, attemptVars, sideVars, PhaseOf
<1>6. ASSUME NEW k \in Key, NEW n \in Attempts, NEW retryable \in BOOLEAN,
             NEW d \in Lags, RecordFailure(k, n, retryable, d)
      PROVE  Contract!Next \/ UNCHANGED Contract!vars
  <2> DEFINE to == IF ShouldRetry(k, retryable) THEN "queued" ELSE "failed"
  <2>1. /\ status[k] = "running"
        /\ status' = [status EXCEPT ![k] = to]
        /\ UNCHANGED <<output, outbox>>
    BY <1>6 DEF RecordFailure, HoldsLease
  <2>2. to \in {"queued", "failed"}
    OBVIOUS
  <2> HIDE DEF to
  <2>3. CASE to = "queued"
    <3>1. \A j \in Key : PhaseOf(j)' = PhaseOf(j)
      BY <2>1, <2>3, <1>a DEF PhaseOf, TypeOK
    <3> QED BY <2>1, <3>1, Invisible
  <2>4. CASE to = "failed"
    <3>1. Contract!GiveUp({k})
      BY <2>1, <2>4, <1>a DEF Contract!GiveUp, TypeOK
    <3> QED BY <3>1 DEF Contract!Next
  <2> QED BY <2>2, <2>3, <2>4
<1>7. ASSUME NEW k \in Key, NEW d \in Lags, Cancel(k, d)
      PROVE  Contract!Next \/ UNCHANGED Contract!vars
  <2>1. CASE UNCHANGED vars
    BY <2>1, Invisible DEF vars, jobVars, attemptVars, sideVars, PhaseOf
  <2>2. CASE ~UNCHANGED vars
    <3>1. /\ status' = [status EXCEPT ![k] = "cancelled"]
          /\ UNCHANGED <<output, outbox>>
          /\ status[k] \in {"queued", "running"}
      BY <1>7, <2>2 DEF Cancel, ValidTransitions, Statuses
    <3>2. Contract!Cancel(k)
      BY <3>1, <1>a DEF Contract!Cancel, TypeOK
    <3> QED BY <3>2 DEF Contract!Next
  <2> QED BY <2>1, <2>2
<1>8. ASSUME NEW d \in Lags, ReclaimExpired(d)
      PROVE  Contract!Next
  <2> DEFINE S == {k \in Expired(d) : ReclaimTarget(k) = "failed"}
  <2>1. /\ status' = [k \in Key |-> IF k \in Expired(d) THEN ReclaimTarget(k) ELSE status[k]]
        /\ UNCHANGED <<output, outbox>>
    BY <1>8 DEF ReclaimExpired
  <2>2. \A k \in Expired(d) : status[k] = "running" /\ ReclaimTarget(k) \in {"queued", "failed"}
    BY DEF Expired, ReclaimTarget
  <2>3. S \in SUBSET Key
    BY DEF Expired
  <2>4. PICK T \in SUBSET Key : T = S
    BY <2>3
  <2>5. Contract!GiveUp(T)
    BY <2>1, <2>2, <2>4 DEF Contract!GiveUp
  <2> QED BY <2>5 DEF Contract!Next
<1>9. ASSUME NEW k \in Key, AcknowledgeCompletion(k)
      PROVE  Contract!Next
  <2>1. /\ outbox[k].attempt # 0 /\ ~outbox[k].published
        /\ \A j \in Key : NoticeOf(j)' = IF j = k THEN "sent" ELSE NoticeOf(j)
        /\ UNCHANGED <<status, output>>
    BY <1>9, <1>a DEF AcknowledgeCompletion, jobVars, NoticeOf, TypeOK
  <2>2. Contract!Send(k)
    BY <2>1 DEF Contract!Send, NoticeOf
  <2> QED BY <2>2 DEF Contract!Next
<1>10. ASSUME Tick
       PROVE  UNCHANGED Contract!vars
  BY <1>10, Invisible DEF Tick, sideVars, PhaseOf
<1>11. ASSUME UNCHANGED vars
       PROVE  UNCHANGED Contract!vars
  BY <1>11, Invisible DEF vars, jobVars, attemptVars, sideVars, PhaseOf
<1> QED BY <1>1, <1>2, <1>3, <1>4, <1>5, <1>6, <1>7, <1>8, <1>9, <1>10, <1>11 DEF Next

\* The repository implements JobContract: a caller sees an accepted job end at
\* most once, with one result and one notice, whatever attempts, leases,
\* retries and reclaims happen underneath.
THEOREM RepositoryImplementsContract == Spec => ImplementsContract
<1>1. Init => Contract!Init
  BY DEF Init, Contract!Init
<1> QED BY <1>1, NextContract, JobsSafe, PTL DEF Spec, ImplementsContract, Contract!Spec

-----------------------------------------------------------------------------
(* The PostgreSQL repository.  The steps it shares with SQLite, and the    *)
(* effect of ending an attempt, are those above.                            *)

\* Every transaction of the PostgreSQL repository keeps the tables well typed.
LEMMA PgNextTypeOK == TypeOK /\ [PgNext]_vars => TypeOK'
<1> SUFFICES ASSUME TypeOK, [PgNext]_vars PROVE TypeOK'
  OBVIOUS
<1>1. ASSUME NEW k \in Key, NEW p \in Priority, NEW h \in BOOLEAN, NEW d \in Lags,
             Enqueue(k, p, h, d)
      PROVE  TypeOK'
  BY <1>1, NextTypeOK DEF Next
<1>2. ASSUME NEW k \in Key, NEW d \in Lags, PgClaim(k, d)
      PROVE  TypeOK'
  <2>1. count[k] + 1 \in Attempts
    BY <1>2, JobsAssumption DEF PgClaim, Claimable, TypeOK, Attempts
  <2>2. status' \in [Key -> Statuses \cup {"absent"}]
    BY <1>2 DEF PgClaim, TypeOK, Statuses
  <2>3. count' \in [Key -> 0..MaxAttempts] /\ active' \in [Key -> 0..MaxAttempts]
    BY <1>2, <2>1, JobsAssumption DEF PgClaim, TypeOK, Attempts
  <2>4. outcome' \in [Key -> [Attempts -> Outcomes \cup {"none", "open"}]]
    BY <1>2, <2>1 DEF PgClaim, TypeOK
  <2>a. LeaseTime - d \in (-MaxLag)..LeaseTime
    BY JobsAssumption DEF Lags
  <2>5. lease' \in [Key -> (-MaxLag)..LeaseTime] /\ age' \in [Key -> Lags]
    BY <1>2, <2>a DEF PgClaim, TypeOK
  <2>6. trail' \in [Key -> Seq(Statuses)]
    BY <1>2, TrailType DEF PgClaim, Statuses
  <2> QED BY <1>2, <2>2, <2>3, <2>4, <2>5, <2>6 DEF PgClaim, TypeOK
<1>3. ASSUME NEW k \in Key, NEW d \in Lags, PgCancel(k, d)
      PROVE  TypeOK'
  <2>1. /\ outcome'  \in [Key -> [Attempts -> Outcomes \cup {"none", "open"}]]
        /\ active'   \in [Key -> 0..MaxAttempts]
        /\ lease'    \in [Key -> (-MaxLag)..LeaseTime]
        /\ age'      \in [Key -> Lags]
        /\ inverted' \in SUBSET (Key \X (0..MaxAttempts))
    <3>1. CASE status[k] = "running"
      <4>1. active[k] \in 0..MaxAttempts
        BY DEF TypeOK
      <4> QED BY <1>3, <3>1, <4>1, EndAttemptType DEF PgCancel, Outcomes
    <3>2. CASE status[k] # "running"
      <4>1. 0 \in 0..MaxAttempts
        BY JobsAssumption
      <4>2. active' \in [Key -> 0..MaxAttempts]
        BY <1>3, <3>2, <4>1 DEF PgCancel, TypeOK
      <4> QED BY <1>3, <3>2, <4>2 DEF PgCancel, attemptVars, TypeOK
    <3> QED BY <3>1, <3>2
  <2>2. trail' \in [Key -> Seq(Statuses)]
    BY <1>3, TrailType DEF PgCancel, Statuses
  <2>3. status' \in [Key -> Statuses \cup {"absent"}]
    BY <1>3 DEF PgCancel, TypeOK, Statuses
  <2> QED BY <1>3, <2>1, <2>2, <2>3 DEF PgCancel, TypeOK
<1>4. ASSUME NEW k \in Key, NEW n \in Attempts, NEW d \in Lags, Heartbeat(k, n, d)
      PROVE  TypeOK'
  BY <1>4, NextTypeOK DEF Next
<1>5. ASSUME NEW k \in Key, NEW n \in Attempts, NEW r \in Result \cup {None},
             NEW d \in Lags, PgComplete(k, n, r, d)
      PROVE  TypeOK'
  <2>1. n \in 0..MaxAttempts
    BY DEF Attempts
  <2>2. /\ outcome'  \in [Key -> [Attempts -> Outcomes \cup {"none", "open"}]]
        /\ active'   \in [Key -> 0..MaxAttempts]
        /\ lease'    \in [Key -> (-MaxLag)..LeaseTime]
        /\ age'      \in [Key -> Lags]
        /\ inverted' \in SUBSET (Key \X (0..MaxAttempts))
    BY <1>5, <2>1, EndAttemptType DEF PgComplete, Outcomes
  <2>3. status' \in [Key -> Statuses \cup {"absent"}]
    BY <1>5 DEF PgComplete, TypeOK, Statuses
  <2>4. output' \in [Key -> [by : 0..MaxAttempts, val : Result \cup {None}]]
    BY <1>5, <2>1 DEF PgComplete, TypeOK
  <2>5. trail' \in [Key -> Seq(Statuses)]
    BY <1>5, TrailType DEF PgComplete, Statuses
  <2> QED BY <1>5, <2>2, <2>3, <2>4, <2>5 DEF PgComplete, TypeOK
<1>6. ASSUME NEW E \in SUBSET Key, NEW d \in Lags, PgReclaim(E, d)
      PROVE  TypeOK'
  <2>1. \A k \in Key : PgReclaimTarget(k) \in Statuses
    BY DEF PgReclaimTarget, Statuses
  <2>2. delay' \in [Key -> (-MaxLag)..MaxBackoff]
    <3>1. -d \in (-MaxLag)..MaxBackoff
      BY JobsAssumption DEF Lags
    <3> QED BY <1>6, <3>1 DEF PgReclaim, TypeOK
  <2>6. /\ active' \in [Key -> 0..MaxAttempts]
        /\ lease' \in [Key -> (-MaxLag)..LeaseTime]
        /\ age' \in [Key -> Lags]
    <3>1. 0 \in 0..MaxAttempts /\ -MaxLag \in (-MaxLag)..LeaseTime /\ MaxLag \in Lags
      BY JobsAssumption DEF Lags
    <3>2. active' \in [Key -> 0..MaxAttempts]
      BY <1>6, <3>1 DEF PgReclaim, TypeOK
    <3>3. lease' \in [Key -> (-MaxLag)..LeaseTime]
      BY <1>6, <3>1 DEF PgReclaim, TypeOK
    <3>4. age' \in [Key -> Lags]
      BY <1>6, <3>1 DEF PgReclaim, TypeOK
    <3> QED BY <3>2, <3>3, <3>4
  <2>3. status' \in [Key -> Statuses \cup {"absent"}]
    BY <1>6, <2>1 DEF PgReclaim, TypeOK
  <2>4. trail' \in [Key -> Seq(Statuses)]
    BY <1>6, <2>1 DEF PgReclaim, TypeOK
  <2>5. outcome' \in [Key -> [Attempts -> Outcomes \cup {"none", "open"}]]
    BY <1>6 DEF PgReclaim, TypeOK, Outcomes
  <2> QED BY <1>6, <2>2, <2>3, <2>4, <2>5, <2>6 DEF PgReclaim, TypeOK
<1>7. CASE Tick
  BY <1>7, NextTypeOK DEF Next
<1>8. CASE UNCHANGED vars
  BY <1>8, NextTypeOK
<1> QED BY <1>1, <1>2, <1>3, <1>4, <1>5, <1>6, <1>7, <1>8 DEF PgNext

\* Every transaction keeps the lease protocol and the audit rows, although the
\* claimed job need not be the best, a finished job may be cancelled and only
\* some of the expired leases are taken back.
LEMMA PgNextLeaseJobs == LeaseJobs /\ [PgNext]_vars => LeaseJobs'
<1> SUFFICES ASSUME LeaseJobs, [PgNext]_vars PROVE LeaseJobs'
  OBVIOUS
<1>a. TypeOK /\ \A k \in Key : LeaseJobInv(k)
  BY DEF LeaseJobs
<1>b. TypeOK'
  BY <1>a, PgNextTypeOK
<1>c. SUFFICES ASSUME NEW j \in Key PROVE LeaseJobInv(j)'
  BY <1>b DEF LeaseJobs
<1>1. ASSUME NEW k \in Key, NEW p \in Priority, NEW h \in BOOLEAN, NEW d \in Lags,
             Enqueue(k, p, h, d)
      PROVE  LeaseJobInv(j)'
  BY <1>1, <1>a, SharedSteps
<1>2. ASSUME NEW k \in Key, NEW d \in Lags, PgClaim(k, d)
      PROVE  LeaseJobInv(j)'
  BY <1>2, <1>a, ClaimLease DEF PgClaim
<1>3. ASSUME NEW k \in Key, NEW d \in Lags, PgCancel(k, d)
      PROVE  LeaseJobInv(j)'
  <2>1. CASE status[k] = "running"
    <3>1. active[k] \in Attempts
      <4>1. active[k] # 0 /\ active[k] \in 0..MaxAttempts
        BY <2>1, <1>a DEF LeaseJobInv, LiveInv, TypeOK
      <4> QED BY <4>1, JobsAssumption DEF Attempts
    <3> QED BY <1>3, <2>1, <3>1, <1>a, EndLease DEF PgCancel, Outcomes
  <2>2. CASE status[k] # "running"
    BY <1>3, <2>2, <1>a, CancelIdle DEF PgCancel, attemptVars
  <2> QED BY <2>1, <2>2
<1>4. ASSUME NEW k \in Key, NEW n \in Attempts, NEW d \in Lags, Heartbeat(k, n, d)
      PROVE  LeaseJobInv(j)'
  BY <1>4, <1>a, SharedSteps
<1>5. ASSUME NEW k \in Key, NEW n \in Attempts, NEW r \in Result \cup {None},
             NEW d \in Lags, PgComplete(k, n, r, d)
      PROVE  LeaseJobInv(j)'
  BY <1>5, <1>a, EndLease DEF PgComplete, HoldsLease, Outcomes
<1>6. ASSUME NEW E \in SUBSET Key, NEW d \in Lags, PgReclaim(E, d)
      PROVE  LeaseJobInv(j)'
  <2>1. \A k \in Key : PgReclaimTarget(k) = ReclaimTarget(k)
    BY DEF PgReclaimTarget, ReclaimTarget
  <2>2. /\ status' = [k \in Key |-> IF k \in E THEN ReclaimTarget(k) ELSE status[k]]
        /\ trail' = [k \in Key |->
               IF k \in E THEN Append(trail[k], ReclaimTarget(k)) ELSE trail[k]]
    BY <1>6, <2>1 DEF PgReclaim
  <2> QED BY <1>6, <2>2, <1>a, ReclaimLease DEF PgReclaim
<1>7. CASE Tick
  BY <1>7, <1>a, SharedSteps
<1>8. CASE UNCHANGED vars
  BY <1>8, <1>a, SharedSteps
<1> QED BY <1>1, <1>2, <1>3, <1>4, <1>5, <1>6, <1>7, <1>8 DEF PgNext

\* The lease protocol of the PostgreSQL repository holds through any
\* interleaving of claims, reclaims and cancellations that pass each other over
\* locked rows: one open attempt per job, no unfinished job out of reach of a
\* claim or a reclaim, an audit trail that tells the status.
THEOREM PgLeaseProtocol == PgSpec => []LeaseInv
<1>1. LeaseJobs => LeaseInv
  <2> SUFFICES ASSUME LeaseJobs PROVE LeaseInv
    OBVIOUS
  <2>1. TypeOK /\ \A k \in Key : LiveInv(k) /\ AuditInv(k)
    BY DEF LeaseJobs, LeaseJobInv
  <2>2. OneLiveAttempt
    BY <2>1 DEF LiveInv, OneLiveAttempt
  <2>3. TrailTellsStatus
    BY <2>1 DEF AuditInv, TrailTellsStatus
  <2>4. ASSUME NEW k \in Key, status[k] = "running"
        PROVE  active[k] \in Attempts /\ outcome[k][active[k]] = "open"
    <3>1. active[k] # 0 /\ active[k] \in 0..MaxAttempts
      BY <2>1, <2>4 DEF LiveInv, TypeOK
    <3>2. active[k] \in Attempts
      BY <3>1, JobsAssumption DEF Attempts
    <3> QED BY <2>1, <3>2 DEF LiveInv
  <2>5. NeverStranded
    BY <2>1, <2>4 DEF LiveInv, NeverStranded
  <2> QED BY <2>1, <2>2, <2>3, <2>5 DEF LeaseInv
<1> QED BY <1>1, InitLeaseJobs, PgNextLeaseJobs, PTL DEF PgSpec

-----------------------------------------------------------------------------
(* The worker fleet.                                                        *)

ExecType == [Key -> [Attempts -> Execution]]

\* Ending an execution leaves a well formed record.
LEMMA FinishedType ==
    ASSUME NEW e \in Execution
    PROVE  /\ Finished(e) \in Execution
           /\ Finished(e).stage = "done" /\ ~Finished(e).beat
           /\ Finished(e).owner = e.owner /\ Finished(e).token = e.token
  BY DEF Finished, Execution, Stages

\* What one step of the threads does to exec, as the update of one record.
Writes(k, n, e) == exec' = [exec EXCEPT ![k][n] = e]

\* A thread's step changes the record of its own attempt only.
LEMMA ExecUpdate ==
    ASSUME exec \in ExecType, NEW k \in Key, NEW n \in Attempts,
           NEW e \in Execution, Writes(k, n, e)
    PROVE  /\ exec' \in ExecType
           /\ exec'[k][n] = e
           /\ \A j \in Key, m \in Attempts :
                  j # k \/ m # n => exec'[j][m] = exec[j][m]
<1>1. exec' \in ExecType
  BY DEF ExecType, Writes
<1>2. exec'[k] = [exec[k] EXCEPT ![n] = e] /\ \A j \in Key : j # k => exec'[j] = exec[j]
  BY DEF ExecType, Writes
<1>3. exec[k] \in [Attempts -> Execution]
  BY DEF ExecType
<1> QED BY <1>1, <1>2, <1>3

\* Every step of a thread writes one well formed record.
LEMMA ThreadWrites ==
    ASSUME exec \in ExecType, NEW k \in Key, NEW n \in Attempts
    PROVE  /\ \A d \in Lags : Begin(k, n, d) =>
                  \/ /\ task[k]
                     /\ Writes(k, n, [exec[k][n] EXCEPT !.stage = "executing", !.beat = TRUE])
                  \/ ~task[k] /\ Writes(k, n, Finished(exec[k][n]))
           /\ \A r \in Result : ExecutorReturns(k, n, r) =>
                  Writes(k, n, [exec[k][n] EXCEPT !.stage = "returned", !.result = r])
           /\ \A kind \in {"retryable", "permanent"} : ExecutorRaises(k, n, kind) =>
                  Writes(k, n, [exec[k][n] EXCEPT !.stage = kind])
           /\ CheckToken(k, n) =>
                  Writes(k, n, IF exec[k][n].token THEN Finished(exec[k][n])
                               ELSE [exec[k][n] EXCEPT !.stage = "committing"])
           /\ \A d \in Lags : Commit(k, n, d) => Writes(k, n, Finished(exec[k][n]))
           /\ \A d \in Lags : CommitFails(k, n, d) =>
                  Writes(k, n, [exec[k][n] EXCEPT !.stage = "permanent", !.result = None])
           /\ \A d \in Lags : ReportFailure(k, n, d) => Writes(k, n, Finished(exec[k][n]))
           /\ ReportFailureFails(k, n) =>
                  Writes(k, n, [Finished(exec[k][n]) EXCEPT !.stage = "abandoned"])
           /\ \A d \in Lags : Beat(k, n, d) =>
                  \/ Heartbeat(k, n, d) /\ UNCHANGED exec
                  \/ /\ ~HoldsLease(k, n, d) /\ UNCHANGED vars
                     /\ Writes(k, n, [exec[k][n] EXCEPT !.token = TRUE, !.beat = FALSE])
           /\ BeatDies(k, n) => Writes(k, n, [exec[k][n] EXCEPT !.beat = FALSE])
<1> USE DEF ExecType
<1>1. \A d \in Lags : Begin(k, n, d) =>
          \/ /\ task[k]
             /\ Writes(k, n, [exec[k][n] EXCEPT !.stage = "executing", !.beat = TRUE])
          \/ ~task[k] /\ Writes(k, n, Finished(exec[k][n]))
  BY DEF Begin, Writes
<1>2. \A r \in Result : ExecutorReturns(k, n, r) =>
          Writes(k, n, [exec[k][n] EXCEPT !.stage = "returned", !.result = r])
  BY DEF ExecutorReturns, Writes
<1>3. \A kind \in {"retryable", "permanent"} : ExecutorRaises(k, n, kind) =>
          Writes(k, n, [exec[k][n] EXCEPT !.stage = kind])
  BY DEF ExecutorRaises, Writes
<1>4. CheckToken(k, n) =>
          Writes(k, n, IF exec[k][n].token THEN Finished(exec[k][n])
                       ELSE [exec[k][n] EXCEPT !.stage = "committing"])
  BY DEF CheckToken, Writes
<1>5. \A d \in Lags : Commit(k, n, d) => Writes(k, n, Finished(exec[k][n]))
  BY DEF Commit, Writes
<1>6. \A d \in Lags : CommitFails(k, n, d) =>
          Writes(k, n, [exec[k][n] EXCEPT !.stage = "permanent", !.result = None])
  BY DEF CommitFails, Writes
<1>7. \A d \in Lags : ReportFailure(k, n, d) => Writes(k, n, Finished(exec[k][n]))
  BY DEF ReportFailure, Writes
<1>8. ReportFailureFails(k, n) =>
          Writes(k, n, [Finished(exec[k][n]) EXCEPT !.stage = "abandoned"])
  BY DEF ReportFailureFails, Writes
<1>9. \A d \in Lags : Beat(k, n, d) =>
          \/ Heartbeat(k, n, d) /\ UNCHANGED exec
          \/ /\ ~HoldsLease(k, n, d) /\ UNCHANGED vars
             /\ Writes(k, n, [exec[k][n] EXCEPT !.token = TRUE, !.beat = FALSE])
  BY DEF Beat, Writes
<1>10. BeatDies(k, n) => Writes(k, n, [exec[k][n] EXCEPT !.beat = FALSE])
  BY DEF BeatDies, Writes
<1> QED BY <1>1, <1>2, <1>3, <1>4, <1>5, <1>6, <1>7, <1>8, <1>9, <1>10

-----------------------------------------------------------------------------
(* Workers reach the tables through the repository's operations only.       *)

\* A thread's step is an operation of the repository or leaves it alone.
LEMMA ThreadUsesRepository ==
    ASSUME WTypeOK, NEW k \in Key, NEW n \in Attempts, ThreadStep(k, n)
    PROVE  [Next]_vars
<1>1. exec[k][n].result \in Result \cup {None}
  BY DEF WTypeOK, Execution
<1>2. ASSUME NEW d \in Lags, Begin(k, n, d) PROVE [Next]_vars
  <2>1. RecordFailure(k, n, FALSE, d) \/ UNCHANGED vars
    BY <1>2 DEF Begin
  <2> QED BY <2>1 DEF Next
<1>3. ASSUME NEW d \in Lags, Commit(k, n, d) PROVE [Next]_vars
  <2>1. Complete(k, n, exec[k][n].result, d) \/ UNCHANGED vars
    BY <1>3 DEF Commit
  <2>2. PICK r \in Result \cup {None} : r = exec[k][n].result
    BY <1>1
  <2>3. Complete(k, n, r, d) \/ UNCHANGED vars
    BY <2>1, <2>2 DEF Complete, RecordEvidence
  <2> QED BY <2>3 DEF Next
<1>4. ASSUME NEW d \in Lags, CommitFails(k, n, d) PROVE [Next]_vars
  <2>1. Complete(k, n, exec[k][n].result, d) \/ UNCHANGED vars
    BY <1>4 DEF CommitFails
  <2>2. PICK r \in Result \cup {None} : r = exec[k][n].result
    BY <1>1
  <2>3. Complete(k, n, r, d) \/ UNCHANGED vars
    BY <2>1, <2>2 DEF Complete, RecordEvidence
  <2> QED BY <2>3 DEF Next
<1>5. ASSUME NEW d \in Lags, ReportFailure(k, n, d) PROVE [Next]_vars
  <2>1. RecordFailure(k, n, exec[k][n].stage = "retryable", d) \/ UNCHANGED vars
    BY <1>5 DEF ReportFailure
  <2>2. PICK b \in BOOLEAN : b = (exec[k][n].stage = "retryable")
    OBVIOUS
  <2>3. RecordFailure(k, n, b, d) \/ UNCHANGED vars
    BY <2>1, <2>2 DEF RecordFailure, ShouldRetry
  <2> QED BY <2>3 DEF Next
<1>6. CASE ReportFailureFails(k, n)
  BY <1>6 DEF ReportFailureFails
<1>7. ASSUME NEW r \in Result, ExecutorReturns(k, n, r) PROVE UNCHANGED vars
  BY <1>7 DEF ExecutorReturns
<1>8. ASSUME NEW kind \in {"retryable", "permanent"}, ExecutorRaises(k, n, kind)
      PROVE  UNCHANGED vars
  BY <1>8 DEF ExecutorRaises
<1>9. CASE CheckToken(k, n)
  BY <1>9 DEF CheckToken
<1> QED BY <1>2, <1>3, <1>4, <1>5, <1>6, <1>7, <1>8, <1>9 DEF ThreadStep

\* Every step of the fleet is a step of the repository, or invisible to it.
LEMMA FleetUsesRepository == WTypeOK /\ [WNext]_allVars => [Next]_vars
<1> SUFFICES ASSUME WTypeOK, [WNext]_allVars PROVE [Next]_vars
  OBVIOUS
<1>1. ASSUME NEW k \in Key, NEW p \in Priority, NEW h \in BOOLEAN, NEW d \in Lags,
             Submit(k, p, h, d)
      PROVE  Next
  BY <1>1 DEF Submit, Next
<1>2. ASSUME NEW k \in Key, NEW d \in Lags, RequestCancel(k, d) PROVE Next
  BY <1>2 DEF RequestCancel, Next
<1>3. ASSUME NEW k \in Key, Acknowledge(k) PROVE Next
  BY <1>3 DEF Acknowledge, Next
<1>4. ASSUME NEW w \in Worker, NEW d \in Lags, Reclaim(w, d) PROVE Next
  BY <1>4 DEF Reclaim, Next
<1>5. ASSUME NEW w \in Worker, NEW k \in Key, NEW d \in Lags,
             StartJob(w, k, d) \/ StartJobFails(w, k, d)
      PROVE  Next
  BY <1>5 DEF StartJob, StartJobFails, Next
<1>6. ASSUME NEW k \in Key, NEW n \in Attempts, ThreadStep(k, n) PROVE [Next]_vars
  BY <1>6, ThreadUsesRepository
<1>7. ASSUME NEW k \in Key, NEW n \in Attempts, NEW d \in Lags, Beat(k, n, d)
      PROVE  [Next]_vars
  <2>1. Heartbeat(k, n, d) \/ UNCHANGED vars
    BY <1>7 DEF Beat
  <2> QED BY <2>1 DEF Next
<1>8. ASSUME NEW k \in Key, NEW n \in Attempts, BeatDies(k, n) PROVE UNCHANGED vars
  BY <1>8 DEF BeatDies
<1>9. ASSUME NEW w \in Worker, RequestStop(w) \/ Exit(w) \/ Crash(w) \/ Restart(w)
      PROVE  UNCHANGED vars
  BY <1>9 DEF RequestStop, Exit, Crash, Restart
<1>10. CASE TimePasses
  BY <1>10 DEF TimePasses, Next
<1>11. CASE UNCHANGED allVars
  BY <1>11 DEF allVars
<1> QED BY <1>1, <1>2, <1>3, <1>4, <1>5, <1>6, <1>7, <1>8, <1>9, <1>10, <1>11 DEF WNext

\* Every step of the fleet keeps its state well typed.
LEMMA FleetType == WTypeOK /\ [WNext]_allVars => WTypeOK'
<1> SUFFICES ASSUME WTypeOK, [WNext]_allVars PROVE WTypeOK'
  OBVIOUS
<1>a. TypeOK'
  <2>1. TypeOK
    BY DEF WTypeOK
  <2> QED BY <2>1, FleetUsesRepository, NextTypeOK
<1>b. exec \in ExecType /\ \A k \in Key, n \in Attempts : exec[k][n] \in Execution
  BY DEF WTypeOK, ExecType
<1>c. ASSUME exec' \in ExecType, UNCHANGED <<mode, stops>> PROVE WTypeOK'
  BY <1>a, <1>c DEF WTypeOK, ExecType
<1>d. ASSUME NEW k \in Key, NEW n \in Attempts, NEW e \in Execution,
             Writes(k, n, e), UNCHANGED <<mode, stops>>
      PROVE  WTypeOK'
  BY <1>b, <1>c, <1>d, ExecUpdate
<1>1. ASSUME UNCHANGED workerVars PROVE WTypeOK'
  BY <1>1, <1>b, <1>c DEF workerVars
<1>2. ASSUME NEW w \in Worker, NEW k \in Key, NEW d \in Lags, StartJob(w, k, d)
      PROVE  WTypeOK'
  <2>1. PICK m \in Attempts : m = count[k] + 1
    <3>1. count[k] \in 0..MaxAttempts /\ count[k] < MaxAttempts
      BY <1>2 DEF StartJob, Claim, Claimable, WTypeOK, TypeOK
    <3> QED BY <3>1, JobsAssumption DEF Attempts
  <2>2. Writes(k, m, [NotStarted EXCEPT !.stage = "started", !.owner = w])
    BY <1>2, <2>1 DEF StartJob, Writes
  <2>3. [NotStarted EXCEPT !.stage = "started", !.owner = w] \in Execution
    BY DEF NotStarted, Execution, Stages
  <2> QED BY <1>2, <2>2, <2>3, <1>d DEF StartJob
<1>3. ASSUME NEW w \in Worker, NEW k \in Key, NEW d \in Lags, StartJobFails(w, k, d)
      PROVE  WTypeOK'
  BY <1>3, <1>a DEF StartJobFails, WTypeOK
<1>4. ASSUME NEW k \in Key, NEW n \in Attempts, ThreadStep(k, n)
      PROVE  WTypeOK'
  <2>0. UNCHANGED <<mode, stops>>
    BY <1>4 DEF ThreadStep, Begin, Commit, CommitFails, ReportFailure,
                ReportFailureFails, ExecutorReturns, ExecutorRaises, CheckToken
  <2>1. PICK e \in Execution : e = exec[k][n]
    BY <1>b
  <2>2. Finished(e) \in Execution
    BY FinishedType
  <2>3. ASSUME NEW d \in Lags, Begin(k, n, d) PROVE WTypeOK'
    <3>1. [e EXCEPT !.stage = "executing", !.beat = TRUE] \in Execution
      BY DEF Execution, Stages
    <3>2. \/ Writes(k, n, [e EXCEPT !.stage = "executing", !.beat = TRUE])
          \/ Writes(k, n, Finished(e))
      BY <1>b, <2>1, <2>3, ThreadWrites
    <3> QED BY <2>0, <2>2, <3>1, <3>2, <1>d
  <2>4. ASSUME NEW d \in Lags, Commit(k, n, d) \/ ReportFailure(k, n, d) PROVE WTypeOK'
    <3>1. Writes(k, n, Finished(e))
      BY <1>b, <2>1, <2>4, ThreadWrites
    <3> QED BY <2>0, <2>2, <3>1, <1>d
  <2>5. ASSUME NEW d \in Lags, CommitFails(k, n, d) PROVE WTypeOK'
    <3>1. [e EXCEPT !.stage = "permanent", !.result = None] \in Execution
      BY DEF Execution, Stages
    <3>2. Writes(k, n, [e EXCEPT !.stage = "permanent", !.result = None])
      BY <1>b, <2>1, <2>5, ThreadWrites
    <3> QED BY <2>0, <3>1, <3>2, <1>d
  <2>6. CASE ReportFailureFails(k, n)
    <3>1. [Finished(e) EXCEPT !.stage = "abandoned"] \in Execution
      BY DEF Execution, Stages, Finished
    <3>2. Writes(k, n, [Finished(e) EXCEPT !.stage = "abandoned"])
      BY <1>b, <2>1, <2>6, ThreadWrites
    <3> QED BY <2>0, <3>1, <3>2, <1>d
  <2>7. ASSUME NEW r \in Result, ExecutorReturns(k, n, r) PROVE WTypeOK'
    <3>1. [e EXCEPT !.stage = "returned", !.result = r] \in Execution
      BY DEF Execution, Stages
    <3>2. Writes(k, n, [e EXCEPT !.stage = "returned", !.result = r])
      BY <1>b, <2>1, <2>7, ThreadWrites
    <3> QED BY <2>0, <3>1, <3>2, <1>d
  <2>8. ASSUME NEW kind \in {"retryable", "permanent"}, ExecutorRaises(k, n, kind)
        PROVE  WTypeOK'
    <3>1. [e EXCEPT !.stage = kind] \in Execution
      BY DEF Execution, Stages
    <3>2. Writes(k, n, [e EXCEPT !.stage = kind])
      BY <1>b, <2>1, <2>8, ThreadWrites
    <3> QED BY <2>0, <3>1, <3>2, <1>d
  <2>9. CASE CheckToken(k, n)
    <3>1. [e EXCEPT !.stage = "committing"] \in Execution
      BY DEF Execution, Stages
    <3>a. Writes(k, n, IF e.token THEN Finished(e) ELSE [e EXCEPT !.stage = "committing"])
      BY <1>b, <2>1, <2>9, ThreadWrites
    <3>2. \/ Writes(k, n, Finished(e))
          \/ Writes(k, n, [e EXCEPT !.stage = "committing"])
      BY <3>a DEF Writes
    <3> QED BY <2>0, <2>2, <3>1, <3>2, <1>d
  <2> QED BY <1>4, <2>3, <2>4, <2>5, <2>6, <2>7, <2>8, <2>9 DEF ThreadStep
<1>5. ASSUME NEW k \in Key, NEW n \in Attempts, NEW d \in Lags, Beat(k, n, d)
      PROVE  WTypeOK'
  <2>1. PICK e \in Execution : e = exec[k][n]
    BY <1>b
  <2>2. [e EXCEPT !.token = TRUE, !.beat = FALSE] \in Execution
    BY DEF Execution
  <2>3. \/ UNCHANGED exec
        \/ Writes(k, n, [e EXCEPT !.token = TRUE, !.beat = FALSE])
    BY <1>5, <2>1, <1>b, ThreadWrites
  <2>4. UNCHANGED <<mode, stops>>
    BY <1>5 DEF Beat
  <2> QED BY <2>2, <2>3, <2>4, <1>b, <1>c, <1>d
<1>6. ASSUME NEW k \in Key, NEW n \in Attempts, BeatDies(k, n) PROVE WTypeOK'
  <2>1. PICK e \in Execution : e = exec[k][n]
    BY <1>b
  <2>2. [e EXCEPT !.beat = FALSE] \in Execution
    BY DEF Execution
  <2>3. Writes(k, n, [e EXCEPT !.beat = FALSE])
    BY <1>6, <2>1, <1>b, ThreadWrites
  <2>4. UNCHANGED <<mode, stops>>
    BY <1>6 DEF BeatDies
  <2> QED BY <2>2, <2>3, <2>4, <1>d
<1>7. ASSUME NEW w \in Worker, RequestStop(w) PROVE WTypeOK'
  BY <1>7, <1>a, WorkersAssumption DEF RequestStop, WTypeOK
<1>8. ASSUME NEW w \in Worker, Exit(w) \/ Restart(w) PROVE WTypeOK'
  BY <1>8, <1>a DEF Exit, Restart, WTypeOK
<1>9. ASSUME NEW w \in Worker, Crash(w) PROVE WTypeOK'
  <2>1. \A k \in Key, n \in Attempts : [Finished(exec[k][n]) EXCEPT !.owner = None] \in Execution
    BY <1>b DEF Execution, Stages, Finished
  <2>2. exec' \in ExecType
    BY <1>9, <2>1, <1>b DEF Crash, ExecType
  <2>3. stops' \in 0..MaxStops /\ mode' \in [Worker -> {"up", "stopping", "exited", "crashed"}]
    BY <1>9, WorkersAssumption DEF Crash, WTypeOK
  <2> QED BY <1>a, <2>2, <2>3 DEF WTypeOK, ExecType
<1>10. CASE UNCHANGED allVars
  BY <1>10, <1>1 DEF allVars
<1>11. ASSUME NEW k \in Key, NEW p \in Priority, NEW h \in BOOLEAN, NEW d \in Lags,
              Submit(k, p, h, d)
       PROVE  WTypeOK'
  BY <1>11, <1>1 DEF Submit
<1>12. ASSUME NEW k \in Key, NEW d \in Lags, RequestCancel(k, d) PROVE WTypeOK'
  BY <1>12, <1>1 DEF RequestCancel
<1>13. ASSUME NEW k \in Key, Acknowledge(k) PROVE WTypeOK'
  BY <1>13, <1>1 DEF Acknowledge
<1>14. ASSUME NEW w \in Worker, NEW d \in Lags, Reclaim(w, d) PROVE WTypeOK'
  BY <1>14, <1>1 DEF Reclaim
<1>15. CASE TimePasses
  BY <1>15, <1>1 DEF TimePasses
<1> QED BY <1>2, <1>3, <1>4, <1>5, <1>6, <1>7, <1>8, <1>9, <1>10, <1>11, <1>12,
           <1>13, <1>14, <1>15 DEF WNext

\* The fleet starts well typed, over the repository's empty tables.
LEMMA WInitType == WInit => WTypeOK
<1> SUFFICES ASSUME WInit PROVE WTypeOK
  OBVIOUS
<1>1. TypeOK
  BY InitTypeOK DEF WInit
<1>2. NotStarted \in Execution
  BY DEF NotStarted, Execution, Stages
<1> QED BY <1>1, <1>2, WorkersAssumption DEF WInit, WTypeOK

\* The fleet uses the repository only through its operations, with the tokens
\* it was given: whatever is proved of module Jobs holds of the fleet's tables.
THEOREM FleetRefinesRepository == WSpec => UsesRepository
<1>1. WSpec => []WTypeOK
  BY WInitType, FleetType, PTL DEF WSpec
<1>2. WInit => Init
  BY DEF WInit
<1> QED BY <1>1, <1>2, FleetUsesRepository, PTL DEF WSpec, UsesRepository, Spec

-----------------------------------------------------------------------------
(* The threads and the leases.                                              *)

\* Attempt n of job k has lost the job: it was ended, or its lease is over.
Lost(k, n) == outcome[k][n] # "open" \/ lease[k] <= 0

\* What holds of the threads of one attempt.  An attempt number beyond
\* attempt_count has no threads; unfinished threads live in a live process; a
\* heartbeat runs beside an executor that was not told to stop; a thread is
\* told to stop, or ends, only when its attempt has lost the job.
ThreadInv(k, n) ==
    /\ exec[k][n].stage = "none" => /\ exec[k][n].owner = None
                                    /\ ~exec[k][n].token
                                    /\ ~exec[k][n].beat
    /\ exec[k][n].stage = "started" => ~exec[k][n].token
    /\ n > count[k] => exec[k][n].stage = "none"
    /\ exec[k][n].stage \notin {"none", "done", "abandoned"} =>
           /\ exec[k][n].owner \in Worker
           /\ Running(exec[k][n].owner)
    /\ exec[k][n].beat =>
           /\ exec[k][n].stage \in {"executing", "returned", "committing",
                                    "retryable", "permanent"}
           /\ ~exec[k][n].token
    /\ exec[k][n].token => Lost(k, n)
    /\ exec[k][n].stage = "done" => exec[k][n].owner = None \/ Lost(k, n)

\* The inductive invariant of the fleet.
FleetInv ==
    /\ WTypeOK
    /\ LeaseJobs
    /\ \A k \in Key, n \in Attempts : ThreadInv(k, n)

\* An attempt whose threads a step leaves alone keeps its invariant, if it stays
\* lost when it was lost and its process stays alive.
LEMMA ThreadFrame ==
    ASSUME NEW j \in Key, NEW m \in Attempts, ThreadInv(j, m),
           exec'[j][m] = exec[j][m],
           m > count'[j] => m > count[j],
           Lost(j, m) => Lost(j, m)',
           exec[j][m].owner \in Worker /\ Running(exec[j][m].owner) =>
               mode'[exec[j][m].owner] \in {"up", "stopping"}
    PROVE  ThreadInv(j, m)'
<1> DEFINE e == exec[j][m]
<1>1. exec'[j][m] = e
  OBVIOUS
<1>2. Running(exec[j][m].owner)' <=> mode'[e.owner] \in {"up", "stopping"}
  BY <1>1 DEF Running
<1> QED BY <1>1, <1>2 DEF ThreadInv

\* A worker without the lease has lost the job.
LEMMA NotHolding ==
    ASSUME TypeOK, NEW k \in Key, LiveInv(k), NEW n \in Attempts, NEW d \in Lags,
           ~HoldsLease(k, n, d)
    PROVE  Lost(k, n)
<1>1. CASE outcome[k][n] = "open"
  <2>1. active[k] = n /\ n # 0
    BY <1>1 DEF LiveInv, Attempts
  <2>2. status[k] = "running"
    BY <2>1 DEF LiveInv
  <2>3. ~(lease[k] > -d)
    BY <1>1, <2>1, <2>2 DEF HoldsLease
  <2>4. lease[k] \in Int /\ d \in Int /\ d >= 0
    BY JobsAssumption DEF TypeOK, Lags
  <2> QED BY <2>3, <2>4 DEF Lost
<1>2. CASE outcome[k][n] # "open"
  BY <1>2 DEF Lost
<1> QED BY <1>1, <1>2

\* Ending an attempt gives no other attempt its job back.
LEMMA EndLost ==
    ASSUME TypeOK, NEW k \in Key, NEW n \in Attempts, NEW o \in Outcomes, NEW d \in Lags,
           EndAttempt(k, n, o, d)
    PROVE  /\ Lost(k, n)'
           /\ \A j \in Key, m \in Attempts : Lost(j, m) => Lost(j, m)'
<1>1. /\ \A j \in Key, m \in Attempts :
             outcome'[j][m] = IF j = k /\ m = n THEN o ELSE outcome[j][m]
      /\ \A j \in Key : lease'[j] = IF j = k THEN -MaxLag ELSE lease[j]
  BY DEF EndAttempt, TypeOK
<1>2. -MaxLag <= 0 /\ o # "open"
  BY JobsAssumption DEF Outcomes
<1> QED BY <1>1, <1>2 DEF Lost

\* No operation but a claim or a heartbeat gives an attempt its job back.
LEMMA LostStays ==
    ASSUME LeaseJobs, NEW j \in Key, NEW m \in Attempts, Lost(j, m)
    PROVE  /\ \A k \in Key, p \in Priority, h \in BOOLEAN, d \in Lags :
                  Enqueue(k, p, h, d) => Lost(j, m)'
           /\ \A k \in Key, n \in Attempts, r \in Result \cup {None}, d \in Lags :
                  Complete(k, n, r, d) => Lost(j, m)' /\ Lost(k, n)'
           /\ \A k \in Key, n \in Attempts, b \in BOOLEAN, d \in Lags :
                  RecordFailure(k, n, b, d) => Lost(j, m)' /\ Lost(k, n)'
           /\ \A k \in Key, d \in Lags : Cancel(k, d) => Lost(j, m)'
           /\ \A d \in Lags : ReclaimExpired(d) => Lost(j, m)'
           /\ \A k \in Key : AcknowledgeCompletion(k) => Lost(j, m)'
           /\ Tick => Lost(j, m)'
           /\ UNCHANGED vars => Lost(j, m)'
<1>a. TypeOK /\ \A k \in Key : LiveInv(k)
  BY DEF LeaseJobs, LeaseJobInv
<1>b. ASSUME UNCHANGED <<outcome, lease>> PROVE Lost(j, m)'
  BY <1>b DEF Lost
<1>1. ASSUME NEW k \in Key, NEW p \in Priority, NEW h \in BOOLEAN, NEW d \in Lags,
             Enqueue(k, p, h, d)
      PROVE  Lost(j, m)'
  BY <1>1, <1>b DEF Enqueue, vars, attemptVars
<1>2. ASSUME NEW k \in Key, NEW n \in Attempts, NEW r \in Result \cup {None},
             NEW d \in Lags, Complete(k, n, r, d)
      PROVE  Lost(j, m)' /\ Lost(k, n)'
  <2>1. EndAttempt(k, n, "completed", d) /\ "completed" \in Outcomes
    BY <1>2 DEF Complete, Outcomes
  <2> QED BY <2>1, <1>a, EndLost
<1>3. ASSUME NEW k \in Key, NEW n \in Attempts, NEW b \in BOOLEAN, NEW d \in Lags,
             RecordFailure(k, n, b, d)
      PROVE  Lost(j, m)' /\ Lost(k, n)'
  <2>1. EndAttempt(k, n, "failed", d) /\ "failed" \in Outcomes
    BY <1>3 DEF RecordFailure, Outcomes
  <2> QED BY <2>1, <1>a, EndLost
<1>4. ASSUME NEW k \in Key, NEW d \in Lags, Cancel(k, d) PROVE Lost(j, m)'
  <2>1. CASE UNCHANGED vars
    BY <2>1, <1>b DEF vars, attemptVars
  <2>2. CASE ~UNCHANGED vars /\ status[k] = "running"
    <3>1. PICK n \in Attempts : n = active[k]
      <4>1. active[k] # 0 /\ active[k] \in 0..MaxAttempts
        BY <2>2, <1>a DEF LiveInv, TypeOK
      <4> QED BY <4>1, JobsAssumption DEF Attempts
    <3>2. EndAttempt(k, n, "cancelled", d) /\ "cancelled" \in Outcomes
      BY <1>4, <2>2, <3>1 DEF Cancel, EndAttempt, Outcomes
    <3> QED BY <3>2, <1>a, EndLost
  <2>3. CASE ~UNCHANGED vars /\ status[k] # "running"
    BY <1>4, <2>3, <1>b DEF Cancel, attemptVars
  <2> QED BY <2>1, <2>2, <2>3
<1>5. ASSUME NEW d \in Lags, ReclaimExpired(d) PROVE Lost(j, m)'
  <2>1. /\ outcome'[j][m] = IF j \in Expired(d) /\ m = active[j]
                            THEN "lease_expired" ELSE outcome[j][m]
        /\ lease'[j] = IF j \in Expired(d) THEN -MaxLag ELSE lease[j]
    BY <1>5 DEF ReclaimExpired
  <2>2. -MaxLag <= 0
    BY JobsAssumption
  <2> QED BY <2>1, <2>2 DEF Lost
<1>6. ASSUME NEW k \in Key, AcknowledgeCompletion(k) PROVE Lost(j, m)'
  BY <1>6, <1>b DEF AcknowledgeCompletion, attemptVars
<1>7. ASSUME Tick PROVE Lost(j, m)'
  <2>1. outcome' = outcome /\ lease'[j] = Later(lease[j])
    BY <1>7 DEF Tick
  <2>2. lease[j] \in Int
    BY <1>a DEF TypeOK
  <2>3. lease[j] <= 0 => Later(lease[j]) <= 0
    BY <2>2, JobsAssumption DEF Later
  <2> QED BY <2>1, <2>3 DEF Lost
<1>8. ASSUME UNCHANGED vars PROVE Lost(j, m)'
  BY <1>8, <1>b DEF vars, attemptVars
<1> QED BY <1>1, <1>2, <1>3, <1>4, <1>5, <1>6, <1>7, <1>8

\* A claim opens the next attempt of its job and no other.
LEMMA ClaimLost ==
    ASSUME LeaseJobs, NEW k \in Key, NEW d \in Lags, Claim(k, d)
    PROVE  \E n \in Attempts :
               /\ n = count[k] + 1 /\ n > count[k]
               /\ \A j \in Key, m \in Attempts :
                      m > count'[j] => m > count[j] /\ (j # k \/ m # n)
               /\ \A j \in Key, m \in Attempts :
                      (j # k \/ m # n) /\ Lost(j, m) => Lost(j, m)'
<1>a. TypeOK /\ \A i \in Key : LiveInv(i)
  BY DEF LeaseJobs, LeaseJobInv
<1>1. count[k] \in 0..MaxAttempts /\ count[k] < MaxAttempts /\ status[k] = "queued"
  BY <1>a DEF Claim, Claimable, TypeOK
<1>2. PICK n \in Attempts : n = count[k] + 1
  BY <1>1, JobsAssumption DEF Attempts
<1>3. n > count[k]
  BY <1>1, <1>2
<1>4. \A j \in Key : count'[j] = IF j = k THEN n ELSE count[j]
  BY <1>2, <1>a DEF Claim, TypeOK
<1>5. \A j \in Key, m \in Attempts : m > count'[j] => m > count[j] /\ (j # k \/ m # n)
  BY <1>1, <1>2, <1>4 DEF Attempts
<1>6. \A j \in Key, m \in Attempts :
          (j # k \/ m # n) => outcome'[j][m] = outcome[j][m]
  BY <1>2, <1>a DEF Claim, TypeOK
<1>7. \A j \in Key : j # k => lease'[j] = lease[j]
  BY <1>a DEF Claim, TypeOK
<1>8. \A m \in Attempts : outcome[k][m] # "open"
  <2>1. active[k] = 0 /\ \A m \in Attempts : m # 0
    BY <1>1, <1>a DEF LiveInv, Attempts
  <2> QED BY <2>1, <1>a DEF LiveInv
<1>9. \A j \in Key, m \in Attempts : (j # k \/ m # n) /\ Lost(j, m) => Lost(j, m)'
  BY <1>6, <1>7, <1>8 DEF Lost
<1> QED BY <1>2, <1>3, <1>5, <1>9

\* A heartbeat renews the lease of its own attempt and no other.
LEMMA HeartbeatLost ==
    ASSUME LeaseJobs, NEW k \in Key, NEW n \in Attempts, NEW d \in Lags, Heartbeat(k, n, d)
    PROVE  \A j \in Key, m \in Attempts : (j # k \/ m # n) /\ Lost(j, m) => Lost(j, m)'
<1>a. TypeOK /\ \A i \in Key : LiveInv(i)
  BY DEF LeaseJobs, LeaseJobInv
<1>1. outcome' = outcome /\ \A j \in Key : j # k => lease'[j] = lease[j]
  BY <1>a DEF Heartbeat, TypeOK
<1>2. \A m \in Attempts : m # n => outcome[k][m] # "open"
  BY <1>a DEF Heartbeat, HoldsLease, LiveInv
<1> QED BY <1>1, <1>2 DEF Lost

\* The initial state has no threads.
LEMMA InitFleetInv == WInit => FleetInv
<1> SUFFICES ASSUME WInit PROVE FleetInv
  OBVIOUS
<1>1. WTypeOK /\ LeaseJobs
  BY WInitType, InitLeaseJobs DEF WInit
<1>2. ASSUME NEW k \in Key, NEW n \in Attempts PROVE ThreadInv(k, n)
  <2>1. exec[k][n] = NotStarted
    BY DEF WInit
  <2> QED BY <2>1 DEF ThreadInv, NotStarted
<1> QED BY <1>1, <1>2 DEF FleetInv

\* A step of one thread keeps the invariant of every attempt.
LEMMA ThreadStepInv ==
    ASSUME FleetInv, NEW k \in Key, NEW n \in Attempts, ThreadStep(k, n),
           NEW j \in Key, NEW m \in Attempts
    PROVE  ThreadInv(j, m)'
<1>a. WTypeOK /\ LeaseJobs /\ ThreadInv(j, m) /\ ThreadInv(k, n)
  BY DEF FleetInv
<1>b. /\ exec \in ExecType /\ exec[k][n] \in Execution
      /\ TypeOK /\ \A i \in Key : LiveInv(i)
  BY <1>a DEF WTypeOK, ExecType, LeaseJobs, LeaseJobInv
<1>c. PICK e \in Execution : e = exec[k][n]
  BY <1>b
<1>d. UNCHANGED mode /\ UNCHANGED count
  <2>1. UNCHANGED mode
    BY DEF ThreadStep, Begin, Commit, CommitFails, ReportFailure,
           ReportFailureFails, ExecutorReturns, ExecutorRaises, CheckToken
  <2>2. UNCHANGED count
    BY DEF ThreadStep, Begin, Commit, CommitFails, ReportFailure, ReportFailureFails,
           ExecutorReturns, ExecutorRaises, CheckToken, RecordFailure, Complete,
           vars, jobVars
  <2> QED BY <2>1, <2>2
<1>w. ASSUME NEW x \in Execution, Writes(k, n, x)
      PROVE  /\ exec'[k][n] = x
             /\ j # k \/ m # n => exec'[j][m] = exec[j][m]
  BY <1>b, <1>w, ExecUpdate
\* Whatever the thread writes, the other attempts keep their invariant.
<1>e. ASSUME NEW x \in Execution, Writes(k, n, x), Lost(j, m) => Lost(j, m)',
             j # k \/ m # n
      PROVE  ThreadInv(j, m)'
  <2>1. exec'[j][m] = exec[j][m]
    BY <1>e, <1>w
  <2> QED BY <1>a, <1>d, <1>e, <2>1, ThreadFrame DEF Running
\* The attempt of the thread itself: its new record decides.
<1>f. ASSUME NEW x \in Execution, Writes(k, n, x), j = k, m = n,
             e.stage # "none", x.stage \notin {"none", "started"}, x.owner = e.owner,
             x.stage \notin {"done", "abandoned"} => e.stage \notin {"done", "abandoned"},
             x.beat => /\ x.stage \in {"executing", "returned", "committing",
                                       "retryable", "permanent"}
                       /\ ~x.token,
             x.token => Lost(k, n)',
             x.stage = "done" => Lost(k, n)'
      PROVE  ThreadInv(j, m)'
  <2>1. exec'[k][n] = x
    BY <1>f, <1>w
  <2>2. ~(n > count'[k])
    BY <1>a, <1>c, <1>d, <1>f DEF ThreadInv
  <2>3. x.stage \notin {"none", "done", "abandoned"} =>
            /\ x.owner \in Worker
            /\ mode'[x.owner] \in {"up", "stopping"}
    BY <1>a, <1>c, <1>d, <1>f DEF ThreadInv, Running
  <2>4. Running(exec[k][n].owner)' <=> mode'[x.owner] \in {"up", "stopping"}
    BY <2>1 DEF Running
  <2> QED BY <1>f, <2>1, <2>2, <2>3, <2>4 DEF ThreadInv
<1>g. /\ e.stage = "none" => e.owner = None /\ ~e.token /\ ~e.beat
      /\ e.beat => /\ e.stage \in {"executing", "returned", "committing",
                                   "retryable", "permanent"}
                   /\ ~e.token
      /\ e.token => Lost(k, n)
  BY <1>a, <1>c DEF ThreadInv
<1>h. /\ Finished(e) \in Execution
      /\ Finished(e).stage = "done" /\ ~Finished(e).beat
      /\ Finished(e).owner = e.owner /\ Finished(e).token = e.token
  BY FinishedType
\* A thread that ends with its lease lost, or after its attempt was ended.
<1>i. ASSUME Writes(k, n, Finished(e)), e.stage # "none",
             Lost(k, n)', Lost(j, m) => Lost(j, m)'
      PROVE  ThreadInv(j, m)'
  BY <1>e, <1>f, <1>h, <1>i
<1>1. ASSUME NEW d \in Lags, Begin(k, n, d) PROVE ThreadInv(j, m)'
  <2>1. e.stage = "started"
    BY <1>1, <1>c DEF Begin
  <2>2. CASE task[k]
    <3> DEFINE x == [e EXCEPT !.stage = "executing", !.beat = TRUE]
    <3>1. /\ x \in Execution /\ x.stage = "executing" /\ x.owner = e.owner
          /\ x.token = e.token
      BY DEF Execution, Stages
    <3>2. Writes(k, n, x) /\ UNCHANGED vars
      BY <1>1, <2>2, <1>b, <1>c, ThreadWrites DEF Begin
    <3>3. (Lost(j, m) => Lost(j, m)') /\ (Lost(k, n) => Lost(k, n)')
      BY <3>2, <1>a, LostStays
    <3>4. ~e.token
      BY <2>1, <1>a, <1>c DEF ThreadInv
    <3> HIDE DEF x
    <3> QED BY <3>1, <3>2, <3>3, <3>4, <2>1, <1>e, <1>f
  <2>3. CASE ~task[k]
    <3>1. Writes(k, n, Finished(e))
      BY <1>1, <2>3, <1>b, <1>c, ThreadWrites
    <3>2. Lost(k, n)' /\ (Lost(j, m) => Lost(j, m)')
      <4>1. CASE HoldsLease(k, n, d)
        <5>1. RecordFailure(k, n, FALSE, d)
          BY <1>1, <2>3, <4>1 DEF Begin
        <5>2. EndAttempt(k, n, "failed", d) /\ "failed" \in Outcomes
          BY <5>1 DEF RecordFailure, Outcomes
        <5> QED BY <5>2, <1>b, EndLost
      <4>2. CASE ~HoldsLease(k, n, d)
        <5>1. UNCHANGED vars
          BY <1>1, <2>3, <4>2 DEF Begin
        <5>2. Lost(k, n)
          BY <4>2, <1>b, NotHolding
        <5> QED BY <5>1, <5>2, <1>a, LostStays
      <4> QED BY <4>1, <4>2
    <3> QED BY <3>1, <3>2, <2>1, <1>i
  <2> QED BY <2>2, <2>3
<1>2. ASSUME NEW d \in Lags, Commit(k, n, d) PROVE ThreadInv(j, m)'
  <2>1. e.stage = "committing"
    BY <1>2, <1>c DEF Commit
  <2>2. Writes(k, n, Finished(e))
    BY <1>2, <1>b, <1>c, ThreadWrites
  <2>3. Lost(k, n)' /\ (Lost(j, m) => Lost(j, m)')
    <3>1. CASE HoldsLease(k, n, d)
      <4>1. EndAttempt(k, n, "completed", d) /\ "completed" \in Outcomes
        BY <1>2, <3>1 DEF Commit, Complete, Outcomes
      <4> QED BY <4>1, <1>b, EndLost
    <3>2. CASE ~HoldsLease(k, n, d)
      <4>1. UNCHANGED vars
        BY <1>2, <3>2 DEF Commit
      <4>2. Lost(k, n)
        BY <3>2, <1>b, NotHolding
      <4> QED BY <4>1, <4>2, <1>a, LostStays
    <3> QED BY <3>1, <3>2
  <2> QED BY <2>1, <2>2, <2>3, <1>i
<1>3. ASSUME NEW d \in Lags, CommitFails(k, n, d) PROVE ThreadInv(j, m)'
  <2> DEFINE x == [e EXCEPT !.stage = "permanent", !.result = None]
  <2>1. e.stage = "committing"
    BY <1>3, <1>c DEF CommitFails
  <2>2. /\ x \in Execution /\ x.stage = "permanent" /\ x.owner = e.owner
        /\ x.token = e.token /\ x.beat = e.beat
    BY DEF Execution, Stages
  <2>3. Writes(k, n, x)
    BY <1>3, <1>b, <1>c, ThreadWrites
  <2>4. (Lost(k, n) => Lost(k, n)') /\ (Lost(j, m) => Lost(j, m)')
    <3>1. CASE UNCHANGED vars
      BY <3>1, <1>a, LostStays
    <3>2. CASE ~UNCHANGED vars
      <4>1. EndAttempt(k, n, "completed", d) /\ "completed" \in Outcomes
        BY <1>3, <3>2 DEF CommitFails, Complete, Outcomes
      <4> QED BY <4>1, <1>b, EndLost
    <3> QED BY <3>1, <3>2
  <2> HIDE DEF x
  <2> QED BY <2>1, <2>2, <2>3, <2>4, <1>e, <1>f, <1>g
<1>4. ASSUME NEW d \in Lags, ReportFailure(k, n, d) PROVE ThreadInv(j, m)'
  <2>1. e.stage \in {"retryable", "permanent"}
    BY <1>4, <1>c DEF ReportFailure
  <2>2. Writes(k, n, Finished(e))
    BY <1>4, <1>b, <1>c, ThreadWrites
  <2>3. Lost(k, n)' /\ (Lost(j, m) => Lost(j, m)')
    <3>1. CASE HoldsLease(k, n, d)
      <4>1. EndAttempt(k, n, "failed", d) /\ "failed" \in Outcomes
        BY <1>4, <3>1 DEF ReportFailure, RecordFailure, Outcomes
      <4> QED BY <4>1, <1>b, EndLost
    <3>2. CASE ~HoldsLease(k, n, d)
      <4>1. UNCHANGED vars
        BY <1>4, <3>2 DEF ReportFailure
      <4>2. Lost(k, n)
        BY <3>2, <1>b, NotHolding
      <4> QED BY <4>1, <4>2, <1>a, LostStays
    <3> QED BY <3>1, <3>2
  <2> QED BY <2>1, <2>2, <2>3, <1>i
<1>5. CASE ReportFailureFails(k, n)
  <2> DEFINE x == [Finished(e) EXCEPT !.stage = "abandoned"]
  <2>1. e.stage \in {"retryable", "permanent"} /\ UNCHANGED vars
    BY <1>5, <1>c DEF ReportFailureFails
  <2>2. /\ x \in Execution /\ x.stage = "abandoned" /\ x.owner = e.owner
        /\ x.token = e.token /\ ~x.beat
    BY DEF Execution, Stages, Finished
  <2>3. Writes(k, n, x)
    BY <1>5, <1>b, <1>c, ThreadWrites
  <2>4. (Lost(k, n) => Lost(k, n)') /\ (Lost(j, m) => Lost(j, m)')
    BY <2>1, <1>a, LostStays
  <2> HIDE DEF x
  <2> QED BY <2>1, <2>2, <2>3, <2>4, <1>e, <1>f, <1>g
<1>6. ASSUME NEW r \in Result, ExecutorReturns(k, n, r) PROVE ThreadInv(j, m)'
  <2> DEFINE x == [e EXCEPT !.stage = "returned", !.result = r]
  <2>1. e.stage = "executing" /\ UNCHANGED vars
    BY <1>6, <1>c DEF ExecutorReturns
  <2>2. /\ x \in Execution /\ x.stage = "returned" /\ x.owner = e.owner
        /\ x.token = e.token /\ x.beat = e.beat
    BY DEF Execution, Stages
  <2>3. Writes(k, n, x)
    BY <1>6, <1>b, <1>c, ThreadWrites
  <2>4. (Lost(k, n) => Lost(k, n)') /\ (Lost(j, m) => Lost(j, m)')
    BY <2>1, <1>a, LostStays
  <2> HIDE DEF x
  <2> QED BY <2>1, <2>2, <2>3, <2>4, <1>e, <1>f, <1>g
<1>7. ASSUME NEW kind \in {"retryable", "permanent"}, ExecutorRaises(k, n, kind)
      PROVE  ThreadInv(j, m)'
  <2> DEFINE x == [e EXCEPT !.stage = kind]
  <2>1. e.stage = "executing" /\ UNCHANGED vars
    BY <1>7, <1>c DEF ExecutorRaises
  <2>2. /\ x \in Execution /\ x.stage = kind /\ x.owner = e.owner
        /\ x.token = e.token /\ x.beat = e.beat
    BY DEF Execution, Stages
  <2>3. Writes(k, n, x)
    BY <1>7, <1>b, <1>c, ThreadWrites
  <2>4. (Lost(k, n) => Lost(k, n)') /\ (Lost(j, m) => Lost(j, m)')
    BY <2>1, <1>a, LostStays
  <2> HIDE DEF x
  <2> QED BY <2>1, <2>2, <2>3, <2>4, <1>e, <1>f, <1>g
<1>8. CASE CheckToken(k, n)
  <2>1. e.stage = "returned" /\ UNCHANGED vars
    BY <1>8, <1>c DEF CheckToken
  <2>2. (Lost(k, n) => Lost(k, n)') /\ (Lost(j, m) => Lost(j, m)')
    BY <2>1, <1>a, LostStays
  <2>3. CASE e.token
    <3>1. Writes(k, n, Finished(e))
      BY <1>8, <2>3, <1>b, <1>c, ThreadWrites
    <3> QED BY <2>1, <2>2, <2>3, <3>1, <1>g, <1>i
  <2>4. CASE ~e.token
    <3> DEFINE x == [e EXCEPT !.stage = "committing"]
    <3>1. /\ x \in Execution /\ x.stage = "committing" /\ x.owner = e.owner
          /\ x.token = e.token /\ x.beat = e.beat
      BY DEF Execution, Stages
    <3>2. Writes(k, n, x)
      BY <1>8, <2>4, <1>b, <1>c, ThreadWrites
    <3> HIDE DEF x
    <3> QED BY <2>1, <2>2, <3>1, <3>2, <1>e, <1>f, <1>g
  <2> QED BY <2>3, <2>4
<1> QED BY <1>1, <1>2, <1>3, <1>4, <1>5, <1>6, <1>7, <1>8 DEF ThreadStep

\* Every step of the fleet keeps the invariant.
LEMMA FleetNextInv == FleetInv /\ [WNext]_allVars => FleetInv'
<1> SUFFICES ASSUME FleetInv, [WNext]_allVars PROVE FleetInv'
  OBVIOUS
<1>a. WTypeOK /\ LeaseJobs /\ TypeOK /\ \A i \in Key : LiveInv(i)
  BY DEF FleetInv, LeaseJobs, LeaseJobInv
<1>b. WTypeOK' /\ LeaseJobs'
  BY <1>a, FleetType, FleetUsesRepository, NextLeaseJobs
<1>c. SUFFICES ASSUME NEW j \in Key, NEW m \in Attempts PROVE ThreadInv(j, m)'
  BY <1>b DEF FleetInv
<1>d. ThreadInv(j, m) /\ exec[j][m] \in Execution /\ exec \in ExecType
  BY <1>a DEF FleetInv, WTypeOK, ExecType
<1>e. ASSUME exec'[j][m] = exec[j][m], m > count'[j] => m > count[j], mode' = mode,
             Lost(j, m) => Lost(j, m)'
      PROVE  ThreadInv(j, m)'
  BY <1>d, <1>e, ThreadFrame DEF Running
\* The operations of the repository that no thread performs.
<1>1. ASSUME NEW k \in Key, NEW p \in Priority, NEW h \in BOOLEAN, NEW d \in Lags,
             Submit(k, p, h, d)
      PROVE  ThreadInv(j, m)'
  <2>1. Lost(j, m) => Lost(j, m)'
    BY <1>1, <1>a, LostStays DEF Submit
  <2>2. UNCHANGED <<exec, mode, count>>
    BY <1>1 DEF Submit, Enqueue, workerVars, vars, jobVars
  <2> QED BY <2>1, <2>2, <1>e
<1>2. ASSUME NEW k \in Key, NEW d \in Lags, RequestCancel(k, d) PROVE ThreadInv(j, m)'
  <2>1. Lost(j, m) => Lost(j, m)'
    BY <1>2, <1>a, LostStays DEF RequestCancel
  <2>2. UNCHANGED <<exec, mode, count>>
    BY <1>2 DEF RequestCancel, Cancel, workerVars, vars, jobVars
  <2> QED BY <2>1, <2>2, <1>e
<1>3. ASSUME NEW k \in Key, Acknowledge(k) PROVE ThreadInv(j, m)'
  <2>1. Lost(j, m) => Lost(j, m)'
    BY <1>3, <1>a, LostStays DEF Acknowledge
  <2>2. UNCHANGED <<exec, mode, count>>
    BY <1>3 DEF Acknowledge, AcknowledgeCompletion, workerVars, jobVars
  <2> QED BY <2>1, <2>2, <1>e
<1>4. ASSUME NEW w \in Worker, NEW d \in Lags, Reclaim(w, d) PROVE ThreadInv(j, m)'
  <2>1. Lost(j, m) => Lost(j, m)'
    BY <1>4, <1>a, LostStays DEF Reclaim
  <2>2. UNCHANGED <<exec, mode, count>>
    BY <1>4 DEF Reclaim, ReclaimExpired, workerVars
  <2> QED BY <2>1, <2>2, <1>e
<1>5. ASSUME NEW w \in Worker, NEW k \in Key, NEW d \in Lags, StartJob(w, k, d)
      PROVE  ThreadInv(j, m)'
  <2> DEFINE x == [NotStarted EXCEPT !.stage = "started", !.owner = w]
  <2>1. PICK n \in Attempts :
            /\ n = count[k] + 1 /\ n > count[k]
            /\ m > count'[j] => m > count[j] /\ (j # k \/ m # n)
            /\ (j # k \/ m # n) /\ Lost(j, m) => Lost(j, m)'
    BY <1>5, <1>a, ClaimLost DEF StartJob
  <2>2. /\ x \in Execution /\ x.stage = "started" /\ x.owner = w
        /\ x.token = FALSE /\ x.beat = FALSE
    BY DEF NotStarted, Execution, Stages
  <2>3. mode' = mode /\ mode[w] = "up" /\ Writes(k, n, x)
    BY <1>5, <2>1 DEF StartJob, Writes
  <2> HIDE DEF x
  <2>4. exec'[k][n] = x /\ (j # k \/ m # n => exec'[j][m] = exec[j][m])
    BY <1>d, <2>2, <2>3, ExecUpdate
  <2>5. CASE j # k \/ m # n
    BY <2>1, <2>3, <2>4, <2>5, <1>e
  <2>6. CASE j = k /\ m = n
    <3>1. exec'[j][m] = x
      BY <2>4, <2>6
    <3>2. ~(m > count'[j])
      BY <2>1, <2>6
    <3>3. mode'[x.owner] \in {"up", "stopping"} /\ x.owner \in Worker
      BY <2>2, <2>3
    <3>4. Running(exec[j][m].owner)'
      BY <3>1, <3>3 DEF Running
    <3> QED BY <2>2, <3>1, <3>2, <3>3, <3>4 DEF ThreadInv
  <2> QED BY <2>5, <2>6
<1>6. ASSUME NEW w \in Worker, NEW k \in Key, NEW d \in Lags, StartJobFails(w, k, d)
      PROVE  ThreadInv(j, m)'
  <2>1. PICK n \in Attempts :
            /\ n = count[k] + 1 /\ n > count[k]
            /\ m > count'[j] => m > count[j] /\ (j # k \/ m # n)
            /\ (j # k \/ m # n) /\ Lost(j, m) => Lost(j, m)'
    BY <1>6, <1>a, ClaimLost DEF StartJobFails
  <2>2. UNCHANGED exec /\ mode' = [mode EXCEPT ![w] = "stopping"] /\ mode[w] = "up"
    BY <1>6 DEF StartJobFails
  <2>3. CASE j # k \/ m # n
    <3>1. exec[j][m].owner \in Worker /\ Running(exec[j][m].owner) =>
              mode'[exec[j][m].owner] \in {"up", "stopping"}
      BY <2>2, <1>a DEF Running, WTypeOK
    <3> QED BY <2>1, <2>2, <2>3, <3>1, <1>d, ThreadFrame
  <2>4. CASE j = k /\ m = n
    <3>1. exec[j][m].stage = "none" /\ ~exec[j][m].token /\ ~exec[j][m].beat
          /\ exec[j][m].owner = None
      BY <2>1, <2>4, <1>d DEF ThreadInv
    <3> QED BY <2>2, <3>1 DEF ThreadInv
  <2> QED BY <2>3, <2>4
<1>7. ASSUME NEW k \in Key, NEW n \in Attempts, ThreadStep(k, n) PROVE ThreadInv(j, m)'
  BY <1>7, ThreadStepInv
<1>8. ASSUME NEW k \in Key, NEW n \in Attempts, NEW d \in Lags, Beat(k, n, d)
      PROVE  ThreadInv(j, m)'
  <2>0. exec[k][n].beat /\ mode' = mode /\ ThreadInv(k, n) /\ exec[k][n] \in Execution
    BY <1>8, <1>a DEF Beat, FleetInv, WTypeOK
  <2>1. CASE Heartbeat(k, n, d) /\ UNCHANGED exec
    <3>1. count' = count
      BY <2>1 DEF Heartbeat, jobVars
    <3>2. CASE j # k \/ m # n
      BY <2>0, <2>1, <3>1, <3>2, <1>a, <1>e, HeartbeatLost
    <3>3. CASE j = k /\ m = n
      <4>1. /\ exec[j][m].beat /\ ~exec[j][m].token
            /\ exec[j][m].stage \in {"executing", "returned", "committing",
                                     "retryable", "permanent"}
        BY <2>0, <3>3 DEF ThreadInv
      <4>2. Running(exec[j][m].owner)' <=> Running(exec[j][m].owner)
        BY <2>0, <2>1 DEF Running
      <4> QED BY <2>1, <3>1, <4>1, <4>2, <1>d DEF ThreadInv
    <3> QED BY <3>2, <3>3
  <2>2. CASE ~(Heartbeat(k, n, d) /\ UNCHANGED exec)
    <3>1. PICK e \in Execution : e = exec[k][n]
      BY <2>0
    <3> DEFINE x == [e EXCEPT !.token = TRUE, !.beat = FALSE]
    <3>2. /\ ~HoldsLease(k, n, d) /\ UNCHANGED vars
          /\ Writes(k, n, x)
      BY <1>8, <2>2, <3>1, <1>d, ThreadWrites
    <3>3. /\ x \in Execution /\ x.stage = e.stage /\ x.owner = e.owner
          /\ x.token = TRUE /\ x.beat = FALSE
      BY DEF Execution
    <3> HIDE DEF x
    <3>4. exec'[k][n] = x /\ (j # k \/ m # n => exec'[j][m] = exec[j][m])
      BY <1>d, <3>2, <3>3, ExecUpdate
    <3>5. Lost(k, n)
      BY <3>2, <1>a, NotHolding
    <3>6. Lost(k, n)' /\ (Lost(j, m) => Lost(j, m)') /\ count' = count
      <4>1. count' = count
        BY <3>2 DEF vars, jobVars
      <4> QED BY <4>1, <3>2, <3>5, <1>a, LostStays
    <3>7. CASE j # k \/ m # n
      BY <2>0, <3>4, <3>6, <3>7, <1>e
    <3>8. CASE j = k /\ m = n
      <4>1. exec'[j][m] = x
        BY <3>4, <3>8
      <4>2. e.stage \in {"executing", "returned", "committing", "retryable", "permanent"}
        BY <2>0, <3>1 DEF ThreadInv
      <4>3. e.owner \in Worker /\ Running(e.owner) /\ ~(m > count[j])
        BY <2>0, <3>1, <3>8, <4>2 DEF ThreadInv
      <4>4. Running(exec[j][m].owner)'
        BY <2>0, <3>3, <4>1, <4>3 DEF Running
      <4> QED BY <3>3, <3>6, <3>8, <4>1, <4>2, <4>3, <4>4 DEF ThreadInv
    <3> QED BY <3>7, <3>8
  <2> QED BY <2>1, <2>2
<1>9. ASSUME NEW k \in Key, NEW n \in Attempts, BeatDies(k, n) PROVE ThreadInv(j, m)'
  <2>1. PICK e \in Execution : e = exec[k][n]
    BY <1>a DEF WTypeOK
  <2> DEFINE x == [e EXCEPT !.beat = FALSE]
  <2>2. Writes(k, n, x) /\ UNCHANGED vars /\ mode' = mode
    <3>1. UNCHANGED vars /\ mode' = mode
      BY <1>9 DEF BeatDies
    <3> QED BY <1>9, <2>1, <3>1, <1>d, ThreadWrites
  <2>3. /\ x \in Execution /\ x.stage = e.stage /\ x.owner = e.owner
        /\ x.token = e.token /\ x.beat = FALSE
    BY DEF Execution
  <2> HIDE DEF x
  <2>4. exec'[k][n] = x /\ (j # k \/ m # n => exec'[j][m] = exec[j][m])
    BY <1>d, <2>2, <2>3, ExecUpdate
  <2>5. (Lost(j, m) => Lost(j, m)') /\ count' = count
    <3>1. count' = count
      BY <2>2 DEF vars, jobVars
    <3> QED BY <3>1, <2>2, <1>a, LostStays
  <2>6. CASE j # k \/ m # n
    BY <2>2, <2>4, <2>5, <2>6, <1>e
  <2>7. CASE j = k /\ m = n
    <3>1. exec'[j][m] = x /\ e = exec[j][m]
      BY <2>1, <2>4, <2>7
    <3>2. Running(exec[j][m].owner)' <=> Running(e.owner)
      BY <2>2, <2>3, <3>1 DEF Running
    <3> QED BY <2>3, <2>5, <3>1, <3>2, <1>d DEF ThreadInv
  <2> QED BY <2>6, <2>7
<1>10. ASSUME UNCHANGED vars PROVE (Lost(j, m) => Lost(j, m)') /\ count' = count
  <2>1. count' = count
    BY <1>10 DEF vars, jobVars
  <2> QED BY <1>10, <2>1, <1>a, LostStays
<1>11. ASSUME NEW w \in Worker, RequestStop(w) \/ Restart(w) PROVE ThreadInv(j, m)'
  <2>1. UNCHANGED vars /\ UNCHANGED exec
    BY <1>11 DEF RequestStop, Restart
  <2>2. exec[j][m].owner \in Worker /\ Running(exec[j][m].owner) =>
              mode'[exec[j][m].owner] \in {"up", "stopping"}
    BY <1>11, <1>a DEF RequestStop, Restart, Running, WTypeOK
  <2> QED BY <2>1, <2>2, <1>10, <1>d, ThreadFrame
<1>12. ASSUME NEW w \in Worker, Exit(w) PROVE ThreadInv(j, m)'
  <2>1. /\ UNCHANGED vars /\ UNCHANGED exec
        /\ Active(w) = {} /\ mode' = [mode EXCEPT ![w] = "exited"]
    BY <1>12 DEF Exit
  <2>2. <<j, m>> \notin Active(w)
    BY <2>1
  <2>3. exec[j][m].stage \notin {"none", "done", "abandoned"} => exec[j][m].owner # w
    BY <2>2 DEF Active
  <2>4. Running(exec[j][m].owner)' <=> mode'[exec[j][m].owner] \in {"up", "stopping"}
    BY <2>1 DEF Running
  <2>5. exec[j][m].stage \notin {"none", "done", "abandoned"} =>
            Running(exec[j][m].owner)'
    BY <2>1, <2>3, <2>4, <1>a, <1>d DEF ThreadInv, Running, WTypeOK
  <2> QED BY <2>1, <2>5, <1>10, <1>d DEF ThreadInv
<1>13. ASSUME NEW w \in Worker, Crash(w) PROVE ThreadInv(j, m)'
  <2>1. /\ UNCHANGED vars
        /\ mode' = [mode EXCEPT ![w] = "crashed"]
        /\ exec'[j][m] = IF exec[j][m].owner = w
                         THEN [Finished(exec[j][m]) EXCEPT !.owner = None]
                         ELSE exec[j][m]
    BY <1>13 DEF Crash
  <2>2. CASE exec[j][m].owner # w
    <3>1. exec[j][m].owner \in Worker /\ Running(exec[j][m].owner) =>
              mode'[exec[j][m].owner] \in {"up", "stopping"}
      BY <2>1, <2>2, <1>a DEF Running, WTypeOK
    <3> QED BY <2>1, <2>2, <3>1, <1>10, <1>d, ThreadFrame
  <2>3. CASE exec[j][m].owner = w
    <3>1. PICK e \in Execution : e = exec[j][m]
      BY <1>d
    <3> DEFINE x == [Finished(e) EXCEPT !.owner = None]
    <3>2. x.stage = "done" /\ x.owner = None /\ x.token = e.token /\ x.beat = FALSE
      BY DEF Finished, Execution
    <3>3. exec'[j][m] = x
      BY <2>1, <2>3, <3>1
    <3> HIDE DEF x
    <3>4. ~(m > count[j])
      <4>1. e.owner # None
        BY <2>3, <3>1, WorkersAssumption
      <4> QED BY <4>1, <3>1, <1>d DEF ThreadInv
    <3> QED BY <2>1, <3>1, <3>2, <3>3, <3>4, <1>10, <1>d DEF ThreadInv
  <2> QED BY <2>2, <2>3
<1>14. CASE TimePasses
  <2>1. Lost(j, m) => Lost(j, m)'
    BY <1>14, <1>a, LostStays DEF TimePasses
  <2>2. UNCHANGED <<exec, mode, count>>
    BY <1>14 DEF TimePasses, Tick, workerVars
  <2> QED BY <2>1, <2>2, <1>e
<1>15. CASE UNCHANGED allVars
  <2>1. UNCHANGED vars /\ UNCHANGED <<exec, mode>>
    BY <1>15 DEF allVars, workerVars
  <2> QED BY <2>1, <1>10, <1>e
<1> QED BY <1>1, <1>2, <1>3, <1>4, <1>5, <1>6, <1>7, <1>8, <1>9, <1>11, <1>12,
           <1>13, <1>14, <1>15 DEF WNext

\* The fleet keeps its invariant through crashes, stops, lost heartbeats and
\* database errors.
THEOREM FleetSafe == WSpec => []FleetInv
  BY InitFleetInv, FleetNextInv, PTL DEF WSpec

\* A thread is told to drop its result only when its attempt has lost the job.
THEOREM TokenIsHonest == WSpec => []TokenMeansLost
<1>1. FleetInv => TokenMeansLost
  BY DEF FleetInv, ThreadInv, Lost, TokenMeansLost
<1> QED BY <1>1, FleetSafe, PTL

\* A drained worker holds no live lease and no heartbeat outlives its executor,
\* for any number of workers, jobs and stops.
THEOREM ThreadsFitLeases == WSpec => []WorkersInv
<1>1. FleetInv => WorkersInv
  <2> SUFFICES ASSUME FleetInv PROVE WorkersInv
    OBVIOUS
  <2>1. WTypeOK /\ \A k \in Key, n \in Attempts : ThreadInv(k, n)
    BY DEF FleetInv
  <2>2. ASSUME NEW w \in Worker, mode[w] = "exited", NEW k \in Key, NEW n \in Attempts,
               outcome[k][n] = "open", exec[k][n].owner = w,
               exec[k][n].stage # "abandoned"
        PROVE  lease[k] <= 0
    <3>1. ~Running(w) /\ w # None
      BY <2>2, WorkersAssumption DEF Running
    <3>2. exec[k][n].stage = "done"
      BY <2>1, <2>2, <3>1 DEF ThreadInv
    <3> QED BY <2>1, <2>2, <3>1, <3>2 DEF ThreadInv, Lost
  <2>3. HeartbeatHasExecutor
    BY <2>1 DEF ThreadInv, HeartbeatHasExecutor
  <2> QED BY <2>1, <2>2, <2>3 DEF WorkersInv, DrainedCleanly
<1> QED BY <1>1, FleetSafe, PTL

=============================================================================
