------------------------------- MODULE Workers -------------------------------
(***************************************************************************)
(* Durable workers (core/jobs/worker.py) sharing one job repository.       *)
(*                                                                         *)
(* A worker process polls: each run_cycle reclaims expired leases and      *)
(* starts at most one job.  A claimed attempt (k, n) runs in a pool thread *)
(* (_execute) with a heartbeat thread beside it; exec[k][n] is the state   *)
(* of that pair of threads.  A reclaim does not stop the threads of the    *)
(* attempt it takes the job from: they go on until they notice.            *)
(***************************************************************************)
EXTENDS Jobs, FiniteSets

CONSTANTS
    Worker,       \* worker processes
    Concurrency,  \* WorkerConfig.concurrency
    MaxStops      \* bound on process crashes and stop signals together

ASSUME WorkersAssumption ==
    /\ Concurrency \in Nat \ {0}
    /\ MaxStops \in Nat
    /\ None \notin Worker

VARIABLES
    mode,    \* per worker: "up", "stopping", "exited" or "crashed"
    exec,    \* per attempt: the threads that execute it
    stops    \* crashes and stop signals so far

workerVars == <<mode, exec, stops>>
allVars == <<vars, workerVars>>

\* What _execute is about to do.
Stages == {"none", "started", "executing", "returned", "committing",
           "retryable", "permanent", "done", "abandoned"}

Execution == [stage  : Stages,
              owner  : Worker \cup {None},
              result : Result \cup {None},
              token  : BOOLEAN,    \* CancellationToken is set
              beat   : BOOLEAN]    \* the heartbeat thread is running

NotStarted == [stage |-> "none", owner |-> None, result |-> None,
               token |-> FALSE, beat |-> FALSE]

WInit ==
    /\ Init
    /\ mode = [w \in Worker |-> "up"]
    /\ exec = [k \in Key |-> [n \in Attempts |-> NotStarted]]
    /\ stops = 0

\* The pool threads of w that have not finished: self._active.
Active(w) ==
    {a \in Key \X Attempts :
        /\ exec[a[1]][a[2]].owner = w
        /\ exec[a[1]][a[2]].stage \notin {"none", "done", "abandoned"}}

Running(w) == mode[w] \in {"up", "stopping"}

\* The end of _execute: the result is dropped and heartbeat_stop is set.
Finished(e) == [e EXCEPT !.stage = "done", !.beat = FALSE, !.result = None]

-----------------------------------------------------------------------------
\* Callers of the API.
Submit(k, p, hasTask, d) ==
    Enqueue(k, p, hasTask, d) /\ UNCHANGED workerVars

RequestCancel(k, d) ==
    Cancel(k, d) /\ UNCHANGED workerVars

\* run_cycle, first half.
Reclaim(w, d) ==
    /\ mode[w] = "up"
    /\ ReclaimExpired(d)
    /\ UNCHANGED workerVars

\* run_cycle, second half: claim and submit to the pool.
StartJob(w, k, d) ==
    /\ mode[w] = "up"
    /\ Cardinality(Active(w)) < Concurrency
    /\ Claim(k, d)
    /\ exec' = [exec EXCEPT ![k][count[k] + 1] =
                    [NotStarted EXCEPT !.stage = "started", !.owner = w]]
    /\ UNCHANGED <<mode, stops>>

\* claim committed, then reading the job back raised: run_forever ends, the
\* attempt has no thread.
StartJobFails(w, k, d) ==
    /\ mode[w] = "up"
    /\ Cardinality(Active(w)) < Concurrency
    /\ Claim(k, d)
    /\ mode' = [mode EXCEPT ![w] = "stopping"]
    /\ UNCHANGED <<exec, stops>>

-----------------------------------------------------------------------------
\* _execute reads the task; without one the attempt fails for good.
Begin(k, n, d) ==
    /\ exec[k][n].stage = "started"
    /\ IF task[k]
       THEN /\ exec' = [exec EXCEPT ![k][n].stage = "executing",
                                    ![k][n].beat = TRUE]
            /\ UNCHANGED vars
       ELSE /\ exec' = [exec EXCEPT ![k][n] = Finished(@)]
            /\ IF HoldsLease(k, n, d)
               THEN RecordFailure(k, n, FALSE, d)
               ELSE UNCHANGED vars
    /\ UNCHANGED <<mode, stops>>

\* The executor returns a result, or raises RetryableExecutionError or
\* another exception.
ExecutorReturns(k, n, r) ==
    /\ exec[k][n].stage = "executing"
    /\ exec' = [exec EXCEPT ![k][n].stage = "returned", ![k][n].result = r]
    /\ UNCHANGED <<vars, mode, stops>>

ExecutorRaises(k, n, kind) ==
    /\ exec[k][n].stage = "executing"
    /\ exec' = [exec EXCEPT ![k][n].stage = kind]
    /\ UNCHANGED <<vars, mode, stops>>

\* token.raise_if_cancelled() after the executor.
CheckToken(k, n) ==
    /\ exec[k][n].stage = "returned"
    /\ exec' = [exec EXCEPT ![k][n] = IF @.token THEN Finished(@)
                                      ELSE [@ EXCEPT !.stage = "committing"]]
    /\ UNCHANGED <<vars, mode, stops>>

BugCommit(k, n, d) ==   \* the result is stored without asking for the lease
    /\ exec[k][n].stage = "committing"
    /\ status' = [status EXCEPT ![k] = "completed"]
    /\ EndAttempt(k, n, "completed", d)
    /\ output' = [output EXCEPT ![k] = [by |-> n, val |-> exec[k][n].result]]
    /\ RecordTransition(k, "completed")
    /\ UNCHANGED <<priority, task, count, delay, since, outbox>>
    /\ exec' = [exec EXCEPT ![k][n] = Finished(@)]
    /\ UNCHANGED <<mode, stops>>
\* repository.complete: stored, or discarded as LeaseConflict/InvalidJobState.
Commit(k, n, d) ==
    /\ exec[k][n].stage = "committing"
    /\ IF HoldsLease(k, n, d)
       THEN Complete(k, n, exec[k][n].result, d)
       ELSE UNCHANGED vars
    /\ exec' = [exec EXCEPT ![k][n] = Finished(@)]
    /\ UNCHANGED <<mode, stops>>

\* complete raises a database error, before its commit or after it (while the
\* job is read back): _execute takes both for a permanent failure.
CommitFails(k, n, d) ==
    /\ exec[k][n].stage = "committing"
    /\ \/ UNCHANGED vars
       \/ Complete(k, n, exec[k][n].result, d)
    /\ exec' = [exec EXCEPT ![k][n].stage = "permanent", ![k][n].result = None]
    /\ UNCHANGED <<mode, stops>>

\* _record_failure: stored, or discarded when the lease is gone.
ReportFailure(k, n, d) ==
    /\ exec[k][n].stage \in {"retryable", "permanent"}
    /\ IF HoldsLease(k, n, d)
       THEN RecordFailure(k, n, exec[k][n].stage = "retryable", d)
       ELSE UNCHANGED vars
    /\ exec' = [exec EXCEPT ![k][n] = Finished(@)]
    /\ UNCHANGED <<mode, stops>>

\* A database error in _record_failure ends the thread: the attempt stays open
\* and nobody works on it.
ReportFailureFails(k, n) ==
    /\ exec[k][n].stage \in {"retryable", "permanent"}
    /\ exec' = [exec EXCEPT ![k][n] = [Finished(@) EXCEPT !.stage = "abandoned"]]
    /\ UNCHANGED <<vars, mode, stops>>

BugBeat(k, n, d) ==   \* the token is set on any failed look at the job
    /\ exec[k][n].beat
    /\ exec' = [exec EXCEPT ![k][n].token = TRUE, ![k][n].beat = FALSE]
    /\ UNCHANGED <<vars, mode, stops>>
\* One turn of _heartbeat: extend the lease, or set the token and stop when
\* the job is cancelled or the lease is lost.
Beat(k, n, d) ==
    /\ exec[k][n].beat
    /\ \/ /\ Heartbeat(k, n, d)
          /\ UNCHANGED exec
       \/ /\ ~HoldsLease(k, n, d)
          /\ exec' = [exec EXCEPT ![k][n].token = TRUE, ![k][n].beat = FALSE]
          /\ UNCHANGED vars
    /\ UNCHANGED <<mode, stops>>

\* Any other exception ends the heartbeat thread and nothing else.
BeatDies(k, n) ==
    /\ exec[k][n].beat
    /\ exec' = [exec EXCEPT ![k][n].beat = FALSE]
    /\ UNCHANGED <<vars, mode, stops>>

-----------------------------------------------------------------------------
\* SIGTERM: request_stop; the claim loop ends, active attempts drain.
RequestStop(w) ==
    /\ mode[w] = "up"
    /\ stops < MaxStops
    /\ stops' = stops + 1
    /\ mode' = [mode EXCEPT ![w] = "stopping"]
    /\ UNCHANGED <<vars, exec>>

BugExit(w) ==   \* shutdown(wait=False)
    /\ mode[w] = "stopping"
    /\ mode' = [mode EXCEPT ![w] = "exited"]
    /\ exec' = [k \in Key |-> [n \in Attempts |->
                    IF <<k, n>> \in Active(w) THEN Finished(exec[k][n])
                    ELSE exec[k][n]]]
    /\ UNCHANGED <<vars, stops>>
\* shutdown(wait=True) returns when the pool is idle.
Exit(w) ==
    /\ mode[w] = "stopping"
    /\ Active(w) = {}
    /\ mode' = [mode EXCEPT ![w] = "exited"]
    /\ UNCHANGED <<vars, exec, stops>>

\* The process dies with its threads.
Crash(w) ==
    /\ Running(w)
    /\ stops < MaxStops
    /\ stops' = stops + 1
    /\ mode' = [mode EXCEPT ![w] = "crashed"]
    /\ exec' = [k \in Key |-> [n \in Attempts |->
                    IF exec[k][n].owner = w
                    THEN [Finished(exec[k][n]) EXCEPT !.owner = None]
                    ELSE exec[k][n]]]
    /\ UNCHANGED vars

\* docker-compose: restart: unless-stopped.
Restart(w) ==
    /\ mode[w] \in {"crashed", "exited"}
    /\ mode' = [mode EXCEPT ![w] = "up"]
    /\ UNCHANGED <<vars, exec, stops>>

TimePasses == Tick /\ UNCHANGED workerVars

\* The publisher acknowledges an outbox row (module Completion).
Acknowledge(k) == AcknowledgeCompletion(k) /\ UNCHANGED workerVars

ThreadStep(k, n) ==
    \/ \E d \in Lags : Begin(k, n, d) \/ Commit(k, n, d) \/ CommitFails(k, n, d)
                       \/ ReportFailure(k, n, d)
    \/ ReportFailureFails(k, n)
    \/ \E r \in Result : ExecutorReturns(k, n, r)
    \/ \E kind \in {"retryable", "permanent"} : ExecutorRaises(k, n, kind)
    \/ CheckToken(k, n)

WNext ==
    \/ \E k \in Key, p \in Priority, hasTask \in BOOLEAN, d \in Lags :
           Submit(k, p, hasTask, d)
    \/ \E k \in Key, d \in Lags : RequestCancel(k, d)
    \/ \E k \in Key : Acknowledge(k)
    \/ \E w \in Worker, d \in Lags : Reclaim(w, d)
    \/ \E w \in Worker, k \in Key, d \in Lags :
           StartJob(w, k, d) \/ StartJobFails(w, k, d)
    \/ \E k \in Key, n \in Attempts : ThreadStep(k, n)
    \/ \E k \in Key, n \in Attempts, d \in Lags : Beat(k, n, d)
    \/ \E k \in Key, n \in Attempts : BeatDies(k, n)
    \/ \E w \in Worker : RequestStop(w) \/ Exit(w) \/ Crash(w) \/ Restart(w)
    \/ TimePasses

WSpec == WInit /\ [][WNext]_allVars

\* Time passes, every process that is up keeps cycling, pool threads run and
\* executors return (provider calls have timeouts), stopped processes are
\* restarted.  Heartbeats, cancellations and crashes are not promised.
Fairness ==
    /\ WF_allVars(TimePasses)
    /\ \A w \in Worker :
           /\ WF_allVars(\E d \in Lags : Reclaim(w, d))
           /\ WF_allVars(\E k \in Key, d \in Lags : StartJob(w, k, d))
           /\ WF_allVars(Exit(w))
           /\ WF_allVars(Restart(w))
    /\ \A k \in Key, n \in Attempts : WF_allVars(ThreadStep(k, n))

FairSpec == WSpec /\ Fairness

-----------------------------------------------------------------------------
(* Properties *)

\* The threads' state has its declared shape.
WTypeOK ==
    /\ TypeOK
    /\ mode \in [Worker -> {"up", "stopping", "exited", "crashed"}]
    /\ exec \in [Key -> [Attempts -> Execution]]
    /\ stops \in 0..MaxStops

\* Workers use the repository only through its operations and with the token
\* of the attempt they claimed: everything proved of Jobs holds here.
UsesRepository == Spec

\* A worker that drained and exited left no job behind a live lease: whatever
\* attempt it still owns has an expired lease, so the next cycle of any worker
\* takes the job back at once (request_stop, shutdown(wait=True), _heartbeat).
\* Only an attempt whose failure could not be recorded may keep its lease.
DrainedCleanly ==
    \A w \in Worker : mode[w] = "exited" =>
        \A k \in Key, n \in Attempts :
            /\ outcome[k][n] = "open"
            /\ exec[k][n].owner = w
            /\ exec[k][n].stage # "abandoned"
            => lease[k] <= 0

\* A lease is only ever extended by the threads of the attempt that holds it,
\* inside a live process, so a dead worker's lease runs out: a heartbeat
\* thread never outlives its executor.
HeartbeatHasExecutor ==
    \A k \in Key, n \in Attempts : exec[k][n].beat =>
        /\ exec[k][n].stage \in {"executing", "returned", "committing",
                                 "retryable", "permanent"}
        /\ Running(exec[k][n].owner)

\* In every state the threads and the leases fit together: the rows have their
\* shape, a drained worker holds no live lease, and a heartbeat has an executor
\* (run_cycle, shutdown, _execute, _heartbeat).
WorkersInv == WTypeOK /\ DrainedCleanly /\ HeartbeatHasExecutor

\* A token is set only for an attempt that has lost the job: an attempt that
\* still holds an unexpired lease is never told to drop its result.
TokenMeansLost ==
    \A k \in Key, n \in Attempts : exec[k][n].token =>
        outcome[k][n] # "open" \/ lease[k] <= 0

\* Every job that is accepted finishes, through crashes, lost heartbeats,
\* database errors and retries.
JobsFinish == \A k \in Key : status[k] # "absent" ~> status[k] \in Terminal
=============================================================================
