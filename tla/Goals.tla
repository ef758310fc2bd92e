-------------------------------- MODULE Goals --------------------------------
(***************************************************************************)
(* Durable goal execution (core/goals/coordinator.py, core/goals/store.py).*)
(*                                                                         *)
(* A goal is a graph of tasks, each executed by a durable job.  Every      *)
(* worker process runs DurableGoalCoordinator.reconcile on each cycle, and *)
(* the API process runs start, pause, cancel, rerun and the review         *)
(* decisions.  Each call of the store or of the job repository is a commit *)
(* of its own: a reconcile pass is a sequence of commits decided on rows   *)
(* it read earlier.  One goal is modelled; goals share only the global     *)
(* limit on running jobs.                                                  *)
(*                                                                         *)
(* The jobs of task t are numbered: run 1 has the key goal:g:task:t, run   *)
(* n + 1 the key goal:g:task:t:rerun:n.  Of a job the model keeps what the *)
(* coordinator reads: its status and, when completed, what the result says *)
(* ("good"; "refused": no agent; "escalated" to a reviewer; "held" by the  *)
(* policy, which is an escalation too).  The order in which a pass visits  *)
(* the tasks (ordinal) is left open, and so is which worker runs a job.    *)
(*                                                                         *)
(* Bounds: the API process carries out one call at a time (op), besides    *)
(* the pass that ends start; MaxReruns bounds the reruns of a task.        *)
(***************************************************************************)
EXTENDS Naturals, FiniteSets

CONSTANTS
    Task,          \* planned tasks of the goal
    Deps,          \* depends_on: Task -> SUBSET Task, acyclic
    Refers,        \* tasks whose payload refers to their dependencies' results
    Unresolvable,  \* tasks whose reference has a path no result has
    Reconciler,    \* processes that run reconcile ...
    Api,           \* ... the API process is one of them
    PerGoalLimit,  \* GOAL_CONCURRENCY
    GlobalLimit,   \* GLOBAL_JOB_CONCURRENCY
    MaxReruns,     \* bound on reruns of one task
    Overlap,       \* may calls of the coordinator overlap?
    Crashes        \* which processes may die: a subset of {"worker", "api"}

Runs == 1..(MaxReruns + 1)

ASSUME GoalsAssumption ==
    /\ IsFiniteSet(Task)
    /\ Deps \in [Task -> SUBSET Task]
    /\ Refers \subseteq Task /\ Unresolvable \subseteq Task
    /\ Api \in Reconciler
    /\ PerGoalLimit \in Nat \ {0} /\ GlobalLimit \in Nat \ {0}
    /\ MaxReruns \in Nat
    /\ Overlap \in BOOLEAN
    /\ Crashes \subseteq {"worker", "api"}

VARIABLES
    goal,    \* goals.status
    task,    \* planned_tasks.status
    result,  \* the tasks whose planned_tasks.result_json is not NULL
    link,    \* planned_tasks.job_id: the run it names, 0 for NULL
    reruns,  \* rerun events recorded in goal_events, per task
    job,     \* the jobs of each task
    review,  \* review_queue rows of escalated jobs
    plan,    \* the review of a gated plan
    pass,    \* per reconciler: where its pass is, and what it read
    op,      \* the API call in progress
    done     \* history: the tasks that have been complete

taskVars == <<task, result, link, done>>
reviewVars == <<review, plan>>
vars == <<goal, taskVars, reruns, job, reviewVars, pass, op>>

Live == {"queued", "running"}

NoSnap == [t \in Task |-> "pending"]
Idle == [pc |-> "idle", snap |-> NoSnap, res |-> {}, left |-> {}, slots |-> 0]
Dead == [Idle EXCEPT !.pc = "dead"]
NoOp == [kind |-> "idle", snap |-> NoSnap, left |-> {}, run |-> 0]

\* save_plan: ready, or paused behind a plan review.
Init ==
    /\ \/ goal = "ready" /\ plan = "none"
       \/ goal = "paused" /\ plan = "pending"
    /\ task = NoSnap
    /\ result = {}
    /\ link = [t \in Task |-> 0]
    /\ reruns = [t \in Task |-> 0]
    /\ job = [t \in Task |-> [r \in Runs |-> "absent"]]
    /\ review = [t \in Task |-> [r \in Runs |-> "none"]]
    /\ pass = [r \in Reconciler |-> Idle]
    /\ op = NoOp
    /\ done = {}

\* Without overlap a call begins only when no other is in progress.
Quiet == Overlap \/ (op = NoOp /\ \A r \in Reconciler : pass[r] \in {Idle, Dead})

\* update_task(status = s)
SetTask(t, s) ==
    /\ task' = [task EXCEPT ![t] = s]
    /\ done' = IF s = "complete" THEN done \cup {t} ELSE done

\* jobs.enqueue: idempotent in the key.
EnqueueRun(t, n) ==
    job' = [job EXCEPT ![t][n] = IF @ = "absent" THEN "queued" ELSE @]

\* resolve_payload, given the tasks that have a result.
Resolvable(t, res) ==
    /\ t \notin Unresolvable
    /\ t \in Refers => Deps[t] \subseteq res

-----------------------------------------------------------------------------
(* reconcile *)

\* A worker's cycle, or the pass that ends start: if the goal is running, read
\* the tasks.
BeginPass(r) ==
    /\ IF r = Api THEN pass[r].pc = "begin" ELSE pass[r].pc = "idle" /\ Quiet /\ goal = "running"
    /\ pass' = [pass EXCEPT ![r] =
           IF goal # "running" THEN Idle
           ELSE [Idle EXCEPT !.pc = "settle", !.left = {t \in Task : task[t] = "running"}]]
    /\ UNCHANGED <<goal, taskVars, reruns, job, reviewVars, op>>

BugVerdict(j) ==   \* a failed job is waited for
    CASE j = "good"      -> "complete"
      [] j \in {"escalated", "held"} -> "escalated"
      [] j = "absent"    -> "pending"
      [] j \in {"refused", "cancelled"} -> "failed"
      [] OTHER           -> "running"
\* What a job says of its task.
Verdict(j) ==
    CASE j = "good"      -> "complete"
      [] j \in {"escalated", "held"} -> "escalated"
      [] j = "absent"    -> "pending"
      [] j \in {"refused", "failed", "cancelled"} -> "failed"
      [] OTHER           -> "running"

\* One task that was running when the pass began.
Settle(r, t) ==
    /\ pass[r].pc = "settle"
    /\ t \in pass[r].left
    /\ LET v == Verdict(job[t][IF link[t] # 0 THEN link[t] ELSE 1]) IN
       /\ IF v = "running" THEN UNCHANGED <<task, done>> ELSE SetTask(t, v)
       /\ result' = IF v \in {"complete", "escalated"} THEN result \cup {t} ELSE result
       /\ link' = IF v = "pending" THEN [link EXCEPT ![t] = 0] ELSE link
       /\ pass' = [pass EXCEPT ![r] =
              IF v = "escalated" THEN [@ EXCEPT !.pc = "pause", !.left = {}]
              ELSE [@ EXCEPT !.left = pass[r].left \ {t}]]
    /\ UNCHANGED <<goal, reruns, job, reviewVars, op>>

\* After an escalation the goal waits for the reviewer.
PauseForReview(r) ==
    /\ pass[r].pc = "pause"
    /\ goal' = "paused"
    /\ pass' = [pass EXCEPT ![r] = Idle]
    /\ UNCHANGED <<taskVars, reruns, job, reviewVars, op>>

\* Read the tasks again.
EndSettle(r) ==
    /\ pass[r].pc = "settle"
    /\ pass[r].left = {}
    /\ pass' = [pass EXCEPT ![r].pc = "block", ![r].snap = task, ![r].res = result]
    /\ UNCHANGED <<goal, taskVars, reruns, job, reviewVars, op>>

Blockable(r) ==
    {t \in Task : /\ pass[r].snap[t] = "pending"
                  /\ \E d \in Deps[t] : pass[r].snap[d] \in {"failed", "blocked", "cancelled"}}

\* A pending task behind a failed one.
Block(r, t) ==
    /\ pass[r].pc = "block"
    /\ t \in Blockable(r)
    /\ SetTask(t, "blocked")
    /\ pass' = [pass EXCEPT ![r].snap[t] = "blocked"]
    /\ UNCHANGED <<goal, result, link, reruns, job, reviewVars, op>>

RunningTasks == Cardinality({t \in Task : task[t] = "running"})
RunningJobs == Cardinality({x \in Task \X Runs : job[x[1]][x[2]] = "running"})

\* How many more jobs the two limits allow; the loop treats less than 0 as 0.
Slots ==
    LET free(limit, n) == IF n < limit THEN limit - n ELSE 0
        a == free(PerGoalLimit, RunningTasks)
        b == free(GlobalLimit, RunningJobs)
    IN  IF a < b THEN a ELSE b

\* Read the tasks a third time and count the free slots.
EndBlock(r) ==
    /\ pass[r].pc = "block"
    /\ Blockable(r) = {}
    /\ pass' = [pass EXCEPT ![r].pc = "submit", ![r].slots = Slots,
                            ![r].left = {t \in Task : task[t] = "pending"}]
    /\ UNCHANGED <<goal, taskVars, reruns, job, reviewVars, op>>

BugEligible(r) ==   \* an escalated dependency will do, it has a result
    {t \in pass[r].left :
        /\ pass[r].slots > 0
        /\ \A d \in Deps[t] : pass[r].snap[d] \in {"complete", "escalated"}}
\* Pending tasks with every dependency complete, as read after settling.
Eligible(r) ==
    {t \in pass[r].left :
        /\ pass[r].slots > 0
        /\ \A d \in Deps[t] : pass[r].snap[d] = "complete"}

\* Resolve the payload and enqueue the job ...
Submit(r, t) ==
    /\ pass[r].pc = "submit"
    /\ t \in Eligible(r)
    /\ IF Resolvable(t, pass[r].res)
       THEN /\ EnqueueRun(t, 1)
            /\ pass' = [pass EXCEPT ![r].pc = "link", ![r].left = @ \ {t},
                                    ![r].snap[t] = "submitted"]
            /\ UNCHANGED <<task, done>>
       ELSE /\ SetTask(t, "failed")
            /\ pass' = [pass EXCEPT ![r].left = @ \ {t}]
            /\ UNCHANGED job
    /\ UNCHANGED <<goal, result, link, reruns, reviewVars, op>>

BugLinkJob(r, t) ==   \* the job is not noted on the task
    /\ pass[r].pc = "link"
    /\ pass[r].snap[t] = "submitted"
    /\ SetTask(t, "running")
    /\ pass' = [pass EXCEPT ![r].pc = "submit", ![r].slots = @ - 1,
                            ![r].snap[t] = "pending"]
    /\ UNCHANGED <<goal, link, result, reruns, job, reviewVars, op>>
\* ... and then mark the task as running under it.
LinkJob(r, t) ==
    /\ pass[r].pc = "link"
    /\ pass[r].snap[t] = "submitted"
    /\ SetTask(t, "running")
    /\ link' = [link EXCEPT ![t] = 1]
    /\ pass' = [pass EXCEPT ![r].pc = "submit", ![r].slots = @ - 1,
                            ![r].snap[t] = "pending"]
    /\ UNCHANGED <<goal, result, reruns, job, reviewVars, op>>

\* Read the tasks a last time and close the goal.
Finish(r) ==
    /\ pass[r].pc = "submit"
    /\ Eligible(r) = {}
    /\ goal' = IF \A t \in Task : task[t] = "complete" THEN "complete"
               ELSE IF \A t \in Task : task[t] \notin {"pending", "running"} THEN "failed"
               ELSE goal
    /\ pass' = [pass EXCEPT ![r] = Idle]
    /\ UNCHANGED <<taskVars, reruns, job, reviewVars, op>>

\* The worker process dies in the middle of a pass.
WorkerCrash(r) ==
    /\ "worker" \in Crashes
    /\ r # Api
    /\ pass[r] \notin {Idle, Dead}
    /\ pass' = [pass EXCEPT ![r] = Dead]
    /\ UNCHANGED <<goal, taskVars, reruns, job, reviewVars, op>>

\* docker-compose restarts a worker (restart: unless-stopped), an operator the API.
Restart(r) ==
    /\ pass[r] = Dead
    /\ pass' = [pass EXCEPT ![r] = Idle]
    /\ UNCHANGED <<goal, taskVars, reruns, job, reviewVars, op>>

-----------------------------------------------------------------------------
(* Calls of the API: the first action reads and decides, the others are    *)
(* the commits that follow.                                                 *)

Ready == Quiet /\ op = NoOp /\ pass[Api] # Dead

\* The call goes on at k.
Goto(k) == op' = [op EXCEPT !.kind = k]

\* POST /goals/{id}/resume, or the end of create_goal.
Start ==
    /\ Ready
    /\ goal \in {"ready", "paused"}
    /\ Goto("start")
    /\ UNCHANGED <<goal, taskVars, reruns, job, reviewVars, pass>>

\* start reads the goal again, and refuses one that is over.
CheckStart ==
    /\ op.kind = "start"
    /\ IF goal \in {"ready", "paused", "running"} THEN Goto("run") ELSE op' = NoOp
    /\ UNCHANGED <<goal, taskVars, reruns, job, reviewVars, pass>>

\* start sets the goal running and reconciles it.
SetRunning ==
    /\ op.kind = "run"
    /\ pass[Api] = Idle
    /\ goal' = "running"
    /\ op' = NoOp
    /\ pass' = [pass EXCEPT ![Api].pc = "begin"]
    /\ UNCHANGED <<taskVars, reruns, job, reviewVars>>

Pause ==
    /\ Ready
    /\ goal = "running"
    /\ Goto("pause")
    /\ UNCHANGED <<goal, taskVars, reruns, job, reviewVars, pass>>

SetPaused ==
    /\ op.kind = "pause"
    /\ goal' = "paused"
    /\ op' = NoOp
    /\ UNCHANGED <<taskVars, reruns, job, reviewVars, pass>>

\* cancel: read the tasks.
Cancel ==
    /\ Ready
    /\ goal \notin {"cancelled", "complete", "failed"}
    /\ LET open == {t \in Task : task[t] \in {"running", "pending"}}
       IN  op' = [NoOp EXCEPT !.kind = "cancel", !.left = open,
                      !.snap = [t \in Task |-> IF t \in open THEN task[t] ELSE "pending"]]
    /\ UNCHANGED <<goal, taskVars, reruns, job, reviewVars, pass>>

BugLookAtJob(t) ==   \* only a job that has started is cancelled
    /\ op.kind = "cancel"
    /\ t \in op.left
    /\ LET live == op.snap[t] = "running" /\ link[t] # 0 /\ job[t][link[t]] = "running"
       IN  op' = [op EXCEPT !.kind = IF live THEN "job" ELSE "close", !.snap[t] = "next"]
    /\ UNCHANGED <<goal, taskVars, reruns, job, reviewVars, pass>>
\* The next task: is there a job to cancel?
LookAtJob(t) ==
    /\ op.kind = "cancel"
    /\ t \in op.left
    /\ LET live == op.snap[t] = "running" /\ link[t] # 0 /\ job[t][link[t]] \in Live
       IN  op' = [op EXCEPT !.kind = IF live THEN "job" ELSE "close", !.snap[t] = "next"]
    /\ UNCHANGED <<goal, taskVars, reruns, job, reviewVars, pass>>

\* jobs.cancel.  A job that ended since it was looked at cannot be cancelled:
\* the exception ends the call, with the tasks before this one cancelled.
CancelJob(t) ==
    /\ op.kind = "job"
    /\ op.snap[t] = "next"
    /\ LET j == job[t][link[t]] IN
       IF j \in Live \cup {"cancelled"}
       THEN Goto("close") /\ job' = [job EXCEPT ![t][link[t]] = "cancelled"]
       ELSE op' = NoOp /\ UNCHANGED job
    /\ UNCHANGED <<goal, taskVars, reruns, reviewVars, pass>>

CloseTask(t) ==
    /\ op.kind = "close"
    /\ op.snap[t] = "next"
    /\ SetTask(t, "cancelled")
    /\ op' = [op EXCEPT !.kind = "cancel", !.left = @ \ {t}, !.snap[t] = "pending"]
    /\ UNCHANGED <<goal, result, link, reruns, job, reviewVars, pass>>

\* With every task closed, close the goal.
SetCancelled ==
    /\ op.kind = "cancel"
    /\ op.left = {}
    /\ goal' = "cancelled"
    /\ op' = NoOp
    /\ UNCHANGED <<taskVars, reruns, job, reviewVars, pass>>

\* When rerun does not raise.
CanRerun(t) ==
    /\ task[t] \in {"failed", "escalated", "complete"}
    /\ Resolvable(t, result)

BugEnqueueRerun(t) ==   \* the key has no run number
    /\ EnqueueRun(t, 1)
    /\ op' = [NoOp EXCEPT !.kind = "link", !.left = {t}, !.run = 1]
\* rerun: number the run by the recorded events, enqueue its job, ...
EnqueueRerun(t) ==
    /\ EnqueueRun(t, reruns[t] + 2)
    /\ op' = [NoOp EXCEPT !.kind = "link", !.left = {t}, !.run = reruns[t] + 2]

Rerun(t) ==
    /\ Ready
    /\ reruns[t] < MaxReruns
    /\ CanRerun(t)
    /\ EnqueueRerun(t)
    /\ UNCHANGED <<goal, taskVars, reruns, reviewVars, pass>>

\* ... mark the task as running under it, ...
RerunLink(t) ==
    /\ op.kind = "link"
    /\ t \in op.left
    /\ SetTask(t, "running")
    /\ result' = result \ {t}
    /\ link' = [link EXCEPT ![t] = op.run]
    /\ Goto("goal")
    /\ UNCHANGED <<goal, reruns, job, reviewVars, pass>>

\* ... reopen the goal, ...
RerunGoal ==
    /\ op.kind = "goal"
    /\ goal' = "running"
    /\ Goto("event")
    /\ UNCHANGED <<taskVars, reruns, job, reviewVars, pass>>

\* ... and record the event.
RerunEvent(t) ==
    /\ op.kind = "event"
    /\ t \in op.left
    /\ reruns' = [reruns EXCEPT ![t] = @ + 1]
    /\ op' = NoOp
    /\ UNCHANGED <<goal, taskVars, job, reviewVars, pass>>

\* approve, accept or reject: resolve the review, if it is pending, and go on
\* with its task.
Decide(t, r, decision) ==
    /\ Ready
    /\ review[t][r] = "pending"
    /\ job[t][r] = "held" => reruns[t] < MaxReruns
    /\ review' = [review EXCEPT ![t][r] = decision]
    /\ op' = [NoOp EXCEPT !.left = {t},
                  !.kind = IF decision = "rejected" THEN "reject"
                           ELSE IF job[t][r] = "held" THEN "release" ELSE "approve"]
    /\ UNCHANGED <<goal, taskVars, reruns, job, plan, pass>>

\* A task held by the policy is run again, if rerun does not refuse.
ReleaseHeld(t) ==
    /\ op.kind = "release"
    /\ t \in op.left
    /\ IF CanRerun(t) THEN EnqueueRerun(t) ELSE op' = NoOp /\ UNCHANGED job
    /\ UNCHANGED <<goal, taskVars, reruns, reviewVars, pass>>

\* Other approved results complete the task, rejected ones fail it.
CloseReviewed(t) ==
    /\ op.kind \in {"approve", "reject"}
    /\ t \in op.left
    /\ SetTask(t, IF op.kind = "approve" THEN "complete" ELSE "failed")
    /\ Goto(IF op.kind = "approve" THEN "start" ELSE "fail")
    /\ UNCHANGED <<goal, result, link, reruns, job, reviewVars, pass>>

\* A rejected result, or a rejected plan, fails the goal.
SetFailed ==
    /\ op.kind = "fail"
    /\ goal' = "failed"
    /\ op' = NoOp
    /\ UNCHANGED <<taskVars, reruns, job, reviewVars, pass>>

\* The review of a gated plan.
DecidePlan(approved) ==
    /\ Ready
    /\ plan = "pending"
    /\ plan' = "resolved"
    /\ Goto(IF approved THEN "start" ELSE "fail")
    /\ UNCHANGED <<goal, taskVars, reruns, job, review, pass>>

\* The API process dies in the middle of its call or its pass.
ApiCrash ==
    /\ "api" \in Crashes
    /\ op # NoOp \/ pass[Api] \notin {Idle, Dead}
    /\ op' = NoOp
    /\ pass' = [pass EXCEPT ![Api] = Dead]
    /\ UNCHANGED <<goal, taskVars, reruns, job, reviewVars>>

-----------------------------------------------------------------------------
(* The job repository and the workers (module Workers), and the publisher   *)
(* of reviews (module Completion), as the coordinator sees them.            *)

Outcome == {"good", "refused", "escalated", "held", "failed"}

JobStarts(t, r) ==
    /\ job[t][r] = "queued"
    /\ job' = [job EXCEPT ![t][r] = "running"]
    /\ UNCHANGED <<goal, taskVars, reruns, reviewVars, pass, op>>

JobEnds(t, r, outcome) ==
    /\ job[t][r] = "running"
    /\ job' = [job EXCEPT ![t][r] = outcome]
    /\ UNCHANGED <<goal, taskVars, reruns, reviewVars, pass, op>>

\* The lease expires and an attempt is left, or the executor asks for a retry.
JobRequeued(t, r) ==
    /\ job[t][r] = "running"
    /\ job' = [job EXCEPT ![t][r] = "queued"]
    /\ UNCHANGED <<goal, taskVars, reruns, reviewVars, pass, op>>

\* POST /jobs/{id}/cancel, past the coordinator.
JobCancelled(t, r) ==
    /\ job[t][r] \in Live
    /\ job' = [job EXCEPT ![t][r] = "cancelled"]
    /\ UNCHANGED <<goal, taskVars, reruns, reviewVars, pass, op>>

PublishReview(t, r) ==
    /\ job[t][r] \in {"escalated", "held"}
    /\ review[t][r] = "none"
    /\ review' = [review EXCEPT ![t][r] = "pending"]
    /\ UNCHANGED <<goal, taskVars, reruns, job, plan, pass, op>>

Reconcile(r) ==
    \/ BeginPass(r) \/ PauseForReview(r) \/ EndSettle(r) \/ EndBlock(r) \/ Finish(r)
    \/ \E t \in Task : Settle(r, t) \/ Block(r, t) \/ Submit(r, t) \/ LinkJob(r, t)

Operate ==
    \/ CheckStart \/ SetRunning \/ SetPaused \/ SetCancelled \/ RerunGoal \/ SetFailed
    \/ \E t \in Task :
           \/ LookAtJob(t) \/ CancelJob(t) \/ CloseTask(t)
           \/ RerunLink(t) \/ RerunEvent(t)
           \/ ReleaseHeld(t) \/ CloseReviewed(t)

Request ==
    \/ Start \/ Pause \/ Cancel
    \/ \E t \in Task : Rerun(t)
    \/ \E t \in Task, r \in Runs, d \in {"approved", "rejected"} : Decide(t, r, d)
    \/ \E approved \in BOOLEAN : DecidePlan(approved)

Work ==
    \E t \in Task, r \in Runs :
        \/ JobStarts(t, r) \/ JobRequeued(t, r) \/ JobCancelled(t, r)
        \/ PublishReview(t, r)
        \/ \E o \in Outcome : JobEnds(t, r, o)

Next ==
    \/ \E r \in Reconciler : Reconcile(r) \/ WorkerCrash(r) \/ Restart(r)
    \/ Request \/ Operate \/ ApiCrash
    \/ Work

Spec == Init /\ [][Next]_vars

\* Worker processes cycle for ever; docker-compose restarts one that dies, and
\* eventually it stays up.  A call of the API is carried on unless its process
\* dies, which may happen again and again, or for good.  Jobs finish, however
\* often they are retried (Workers!JobsFinish).
Fairness ==
    /\ \A r \in Reconciler : SF_vars(Reconcile(r))
    /\ WF_vars(Operate)
    /\ \A t \in Task, r \in Runs :
           /\ WF_vars(JobStarts(t, r))
           /\ SF_vars(\E o \in Outcome : JobEnds(t, r, o))
    /\ \A r \in Reconciler \ {Api} : WF_vars(Restart(r)) /\ <>[](pass[r] # Dead)

FairSpec == Spec /\ Fairness

-----------------------------------------------------------------------------
(* Properties *)

\* The rows of the goal store and the positions of its callers have their
\* declared shape, and a pass never has more slots than the goal's limit.
TypeOK ==
    LET S == {"pending", "running", "complete", "failed", "escalated", "blocked",
              "cancelled"}
    IN  /\ goal \in {"ready", "paused", "running", "complete", "failed", "cancelled"}
        /\ task \in [Task -> S]
        /\ result \subseteq Task /\ done \subseteq Task
        /\ link \in [Task -> Runs \cup {0}]
        /\ reruns \in [Task -> 0..MaxReruns]
        /\ job \in [Task -> [Runs -> {"absent", "cancelled"} \cup Live \cup Outcome]]
        /\ review \in [Task -> [Runs -> {"none", "pending", "approved", "rejected"}]]
        /\ plan \in {"none", "pending", "resolved"}
        /\ \A r \in Reconciler :
               /\ pass[r].pc \in {"idle", "dead", "begin", "settle", "pause", "block", "submit", "link"}
               /\ pass[r].slots \in 0..PerGoalLimit
               /\ pass[r].left \subseteq Task
        /\ op.left \subseteq Task
        /\ op.kind \in {"idle", "start", "run", "pause", "cancel", "job", "close", "link",
                        "goal", "event", "release", "approve", "reject", "fail"}

\* A task is handed to the workers only after every task it depends on has
\* completed, through crashes, reruns, reviews and passes that decide on rows
\* they read earlier.
DependenciesFirst ==
    \A t \in Task, r \in Runs : job[t][r] # "absent" => Deps[t] \subseteq done

\* A task marked running is linked to a job that exists, wherever a process
\* died: the fallback to "pending" in reconcile is never needed.
RunningHasJob ==
    \A t \in Task : task[t] = "running" => link[t] # 0 /\ job[t][link[t]] # "absent"

Undecided == \A t \in Task, r \in Runs : review[t][r] \in {"none", "pending"}

\* Until a reviewer decides, a task never has two jobs that can both run: a
\* repeated submission meets its own key, and a rerun waits for the verdict on
\* the run before it.  (A reviewer may approve a run that has been superseded,
\* which closes the task over a job that is still running.)
OneLiveJob ==
    Undecided => \A t \in Task : Cardinality({r \in Runs : job[t][r] \in Live}) <= 1

\* A goal is complete only when all its tasks are, while no rerun is being
\* carried out.
CompleteMeansDone ==
    goal = "complete" /\ op = NoOp => \A t \in Task : task[t] = "complete"

\* A task is complete only when a job of it succeeded or a reviewer let an
\* escalated one through; a task that the policy held never is for that.
CompletionEarned ==
    \A t \in Task : task[t] = "complete" =>
        \E r \in Runs : \/ job[t][r] = "good"
                        \/ job[t][r] = "escalated" /\ review[t][r] = "approved"

\* A rerun gives the task another job than the one it has.
RerunIsFresh ==
    \A t \in Task : op.kind # "link" /\ op'.kind = "link" /\ t \in op'.left => link[t] # op'.run

\* A cancelled goal stays cancelled: only an operator's rerun reopens it and only
\* a reviewer's rejection fails it.
CancelIsDurable == goal = "cancelled" => goal' = "cancelled" \/ op.kind \in {"goal", "fail"}

\* Calls that do not overlap and do not die leave no loose ends: one live job
\* per task, a goal that is complete only over completed tasks, reruns that run,
\* and cancellations that last (rerun, cancel, reconcile).
RunsTidy == [](OneLiveJob /\ CompleteMeansDone) /\ [][RerunIsFresh /\ CancelIsDurable]_vars

\* What holds although every call works on rows that others have changed since
\* it read them: the order of tasks, the job behind a running task, and the
\* reason for a completed one (reconcile, rerun, _resume_goal_from_review).
GoalInv == TypeOK /\ DependenciesFirst /\ RunningHasJob /\ CompletionEarned

\* Cancelling stops the work: the job of a cancelled task cannot run, and a
\* cancelled goal (no rerun reopening it, no reviewer having closed a task over
\* its rerun) has no task whose job can.
CancelStopsWork ==
    \A t \in Task :
        /\ task[t] = "cancelled" \/ (goal = "cancelled" /\ op = NoOp /\ Undecided)
        /\ link[t] # 0
        => job[t][link[t]] \notin Live

\* A running goal does not hang: it completes, fails, pauses or is cancelled,
\* or has an escalated task that waits for its reviewer, although the processes
\* that drive it die.  (A pass that dies between escalating the task and pausing
\* the goal leaves the goal running for as long as the review takes.)
GoalSettles ==
    goal = "running" ~> goal # "running" \/ \E t \in Task : task[t] = "escalated"
=============================================================================
