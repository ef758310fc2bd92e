---------------------------- MODULE Goals_proofs ----------------------------
(***************************************************************************)
(* Goal execution, for every graph of tasks, every set of reconcilers and  *)
(* every bound, with calls that overlap and processes that die.            *)
(***************************************************************************)
EXTENDS Goals, FiniteSetTheorems, TLAPS

(* GoalInv is not inductive: passes and calls act on what they read or did  *)
(* earlier, so each needs what its snapshot, its place and its reviews say  *)
(* about jobs and about tasks that were complete at some time.              *)

TaskStatus == {"pending", "running", "complete", "failed", "escalated", "blocked", "cancelled"}
JobStatus == {"absent", "cancelled"} \cup Live \cup Outcome
PassRecord ==
    [pc : {"idle", "dead", "begin", "settle", "pause", "block", "submit", "link"},
     snap : [Task -> TaskStatus \cup {"submitted"}], res : SUBSET Task, left : SUBSET Task,
     slots : 0..PerGoalLimit]
OpRecord ==
    [kind : {"idle", "start", "run", "pause", "cancel", "job", "close", "link",
             "goal", "event", "release", "approve", "reject", "fail"},
     snap : [Task -> TaskStatus \cup {"next"}], left : SUBSET Task, run : Runs \cup {0}]

\* The rows, and what a pass or a call remembers, have their declared shape.
RowsOK ==
    /\ goal \in {"ready", "paused", "running", "complete", "failed", "cancelled"}
    /\ task \in [Task -> TaskStatus]
    /\ result \subseteq Task /\ done \subseteq Task
    /\ link \in [Task -> Runs \cup {0}]
    /\ reruns \in [Task -> 0..MaxReruns]
    /\ job \in [Task -> [Runs -> JobStatus]]
    /\ review \in [Task -> [Runs -> {"none", "pending", "approved", "rejected"}]]
    /\ plan \in {"none", "pending", "resolved"}
CallersOK ==
    /\ pass \in [Reconciler -> PassRecord]
    /\ op \in OpRecord

\* A job of the task succeeded, or a reviewer let an escalated one through.
Earned(t) ==
    \E r \in Runs : \/ job[t][r] = "good"
                    \/ job[t][r] = "escalated" /\ review[t][r] = "approved"

\* What the rows of a task say: the work on it began after its dependencies
\* had completed, and what it is marked as has a reason.
TaskInv(t) ==
    /\ (\E r \in Runs : job[t][r] # "absent") => Deps[t] \subseteq done
    /\ task[t] \in {"failed", "escalated"} => Deps[t] \subseteq done
    /\ task[t] = "complete" => t \in done /\ Earned(t)
    /\ task[t] = "running" => link[t] # 0 /\ job[t][link[t]] # "absent"
    /\ \A r \in Runs : review[t][r] # "none" => job[t][r] \in {"escalated", "held"}

\* What a pass read is still true in the sense that it needs: a task that was
\* complete has been complete, and the job it enqueued exists.
PassInv(r) ==
    /\ pass[r].pc = "link" => pass[r].slots > 0
    /\ \A t \in Task : /\ pass[r].snap[t] = "complete" => t \in done
                       /\ pass[r].snap[t] = "submitted" => job[t][1] # "absent"

\* So is what the call of the API decided on.
OpInv ==
    \A t \in op.left :
        /\ op.kind \in {"approve", "reject"} => Deps[t] \subseteq done
        /\ op.kind = "approve" => Earned(t)
        /\ op.kind \in {"release", "link", "goal", "event"} => reruns[t] < MaxReruns
        /\ op.kind = "link" => op.run \in Runs /\ job[t][op.run] # "absent"

GoalIInv ==
    /\ RowsOK /\ CallersOK
    /\ \A t \in Task : TaskInv(t)
    /\ \A r \in Reconciler : PassInv(r)
    /\ OpInv

-----------------------------------------------------------------------------
(* Lemmas on the helpers.                                                   *)

\* Runs are numbered from 1.
LEMMA RunFacts == 1 \in Runs /\ 0 \notin Runs /\ Runs \subseteq Nat
  BY GoalsAssumption DEF Runs

\* The records of a process that does nothing.
LEMMA Records == Idle \in PassRecord /\ Dead \in PassRecord /\ NoOp \in OpRecord
  <1>1. NoSnap \in [Task -> TaskStatus]
    BY DEF NoSnap, TaskStatus
  <1>2. NoSnap \in [Task -> TaskStatus \cup {"submitted"}] /\ NoSnap \in [Task -> TaskStatus \cup {"next"}]
    BY <1>1
  <1>3. 0 \in 0..PerGoalLimit
    BY GoalsAssumption
  <1> QED
    BY <1>2, <1>3 DEF Idle, Dead, NoOp, PassRecord, OpRecord

\* The free slots lie between 0 and the goal's limit.
LEMMA SlotsType == Slots \in 0..PerGoalLimit
  <1> DEFINE A == {t \in Task : task[t] = "running"}
             B == {x \in Task \X Runs : job[x[1]][x[2]] = "running"}
  <1>1. IsFiniteSet(Task) /\ IsFiniteSet(Runs)
    BY GoalsAssumption, FS_Interval DEF Runs
  <1>2. IsFiniteSet(Task \X Runs)
    BY <1>1, FS_Product
  <1>3. A \subseteq Task /\ B \subseteq Task \X Runs
    OBVIOUS
  <1>4. IsFiniteSet(A) /\ IsFiniteSet(B)
    BY <1>1, <1>2, <1>3, FS_Subset
  <1>5. Cardinality(A) \in Nat /\ Cardinality(B) \in Nat
    BY <1>4, FS_CardinalityType
  <1>6. RunningTasks \in Nat /\ RunningJobs \in Nat
    BY <1>5 DEF RunningTasks, RunningJobs
  <1> QED
    BY <1>6, GoalsAssumption DEF Slots

-----------------------------------------------------------------------------
(* What a step leaves true.                                                 *)

\* Jobs are never forgotten, and results and approvals stand.
Forward(t) ==
    \A r \in Runs :
        /\ job[t][r] # "absent" => job'[t][r] # "absent"
        /\ job[t][r] \in {"good", "escalated", "held"} => job'[t][r] = job[t][r]
        /\ review[t][r] = "approved" => review'[t][r] = "approved"

Onward == done \subseteq done' /\ \A t \in Task : Forward(t)

\* What a task earned it keeps.
LEMMA EarnedKept ==
    ASSUME NEW t \in Task, Forward(t), Earned(t)
    PROVE  Earned(t)'
  BY DEF Earned, Forward

\* A pass keeps what it knows.
LEMMA PassKept ==
    ASSUME NEW r \in Reconciler, PassInv(r), pass'[r] = pass[r], Onward
    PROVE  PassInv(r)'
  BY RunFacts DEF PassInv, Onward, Forward

\* A pass that begins, ends or dies knows nothing.
LEMMA PassFresh ==
    ASSUME NEW r \in Reconciler, pass'[r].snap = NoSnap, pass'[r].pc # "link"
    PROVE  PassInv(r)'
  BY DEF PassInv, NoSnap

\* The call of the API keeps what it knows.
LEMMA OpKept ==
    ASSUME OpInv, CallersOK, op' = op, reruns' = reruns, Onward
    PROVE  OpInv'
  <1> SUFFICES ASSUME NEW t \in op.left
               PROVE  /\ op.kind \in {"approve", "reject"} => Deps[t] \subseteq done'
                      /\ op.kind = "approve" => Earned(t)'
                      /\ op.kind \in {"release", "link", "goal", "event"} => reruns'[t] < MaxReruns
                      /\ op.kind = "link" => op.run \in Runs /\ job'[t][op.run] # "absent"
    BY DEF OpInv
  <1>1. t \in Task
    BY DEF CallersOK, OpRecord
  <1>2. Forward(t)
    BY <1>1 DEF Onward
  <1> QED
    BY <1>1, <1>2, EarnedKept DEF OpInv, Onward, Forward

\* A task whose rows do not change keeps its reasons.
LEMMA TaskKept ==
    ASSUME RowsOK, NEW t \in Task, TaskInv(t), Onward, task'[t] = task[t], link'[t] = link[t],
           \A r \in Runs : job'[t][r] # "absent" => job[t][r] # "absent",
           \A r \in Runs : review'[t][r] = review[t][r]
    PROVE  TaskInv(t)'
  <1>1. Forward(t) /\ done \subseteq done'
    BY DEF Onward
  <1>2. Earned(t) => Earned(t)'
    BY <1>1, EarnedKept
  <1>3. link[t] # 0 => link[t] \in Runs
    BY DEF RowsOK
  <1>4. (task[t] = "running" => link[t] # 0 /\ job[t][link[t]] # "absent")'
    BY <1>1, <1>3 DEF TaskInv, Forward
  <1>5. (\A r \in Runs : review[t][r] # "none" => job[t][r] \in {"escalated", "held"})'
    BY <1>1 DEF TaskInv, Forward
  <1>6. (task[t] = "complete" => t \in done /\ Earned(t))'
    BY <1>1, <1>2 DEF TaskInv
  <1>7. ((\E r \in Runs : job[t][r] # "absent") => Deps[t] \subseteq done)'
    BY <1>1 DEF TaskInv
  <1>8. (task[t] \in {"failed", "escalated"} => Deps[t] \subseteq done)'
    BY <1>1 DEF TaskInv
  <1> QED
    BY <1>4, <1>5, <1>6, <1>7, <1>8 DEF TaskInv

\* Without a change of jobs and reviews nothing is lost.
LEMMA OnwardSame ==
    ASSUME done \subseteq done', job' = job, review' = review
    PROVE  Onward
  BY DEF Onward, Forward

\* A step concerns the tasks T and the passes R.
LEMMA Assemble ==
    ASSUME GoalIInv, Onward, RowsOK', CallersOK', OpInv',
           NEW T \in SUBSET Task, NEW R \in SUBSET Reconciler,
           \A u \in Task \ T : /\ task'[u] = task[u] /\ link'[u] = link[u]
                               /\ \A r \in Runs : job'[u][r] # "absent" => job[u][r] # "absent"
                               /\ \A r \in Runs : review'[u][r] = review[u][r],
           \A t \in T : TaskInv(t)',
           \A q \in Reconciler \ R : pass'[q] = pass[q],
           \A r \in R : PassInv(r)'
    PROVE  GoalIInv'
  <1>1. ASSUME NEW t \in Task PROVE TaskInv(t)'
    <2>1. CASE t \in T
      BY <2>1
    <2>2. CASE t \notin T
      <3>1. /\ task'[t] = task[t] /\ link'[t] = link[t] /\ RowsOK /\ TaskInv(t)
            /\ \A r \in Runs : job'[t][r] # "absent" => job[t][r] # "absent"
            /\ \A r \in Runs : review'[t][r] = review[t][r]
        BY <2>2 DEF GoalIInv
      <3> QED
        BY <3>1, TaskKept
    <2> QED
      BY <2>1, <2>2
  <1>2. ASSUME NEW r \in Reconciler PROVE PassInv(r)'
    BY PassKept DEF GoalIInv
  <1> QED
    BY <1>1, <1>2 DEF GoalIInv

\* A step of one pass that leaves the rows of the tasks alone.
LEMMA PassOnly ==
    ASSUME GoalIInv, NEW r \in Reconciler,
           UNCHANGED <<taskVars, reruns, job, reviewVars, op>>,
           goal' \in {"ready", "paused", "running", "complete", "failed", "cancelled"},
           pass' \in [Reconciler -> PassRecord], \A q \in Reconciler \ {r} : pass'[q] = pass[q],
           PassInv(r)'
    PROVE  GoalIInv'
  <1>1. UNCHANGED <<task, result, link, done, reruns, job, review, plan, op>>
    BY DEF taskVars, reviewVars
  <1>2. Onward
    BY <1>1, OnwardSame
  <1>3. RowsOK' /\ CallersOK'
    BY <1>1 DEF GoalIInv, RowsOK, CallersOK
  <1>4. OpInv'
    BY <1>1, <1>2, OpKept DEF GoalIInv
  <1>5. PICK T \in SUBSET Task, R \in SUBSET Reconciler : T = {} /\ R = {r}
    OBVIOUS
  <1>6. \A u \in Task \ T : /\ task'[u] = task[u] /\ link'[u] = link[u]
                            /\ \A n \in Runs : job'[u][n] # "absent" => job[u][n] # "absent"
                            /\ \A n \in Runs : review'[u][n] = review[u][n]
    BY <1>1
  <1>7. /\ \A t \in T : TaskInv(t)'
        /\ \A q \in Reconciler \ R : pass'[q] = pass[q]
        /\ \A q \in R : PassInv(q)'
    BY <1>5
  <1> QED
    BY <1>2, <1>3, <1>4, <1>6, <1>7, Assemble

\* The steps of a pass that only read, and the ones that change the goal's row.
LEMMA ReadingSteps ==
    ASSUME GoalIInv, NEW r \in Reconciler,
           BeginPass(r) \/ EndSettle(r) \/ EndBlock(r) \/ PauseForReview(r) \/ Finish(r)
           \/ WorkerCrash(r) \/ Restart(r)
    PROVE  GoalIInv'
  <1>0. pass \in [Reconciler -> PassRecord] /\ pass[r] \in PassRecord /\ RowsOK /\ PassInv(r)
    BY DEF GoalIInv, CallersOK
  <1>1. CASE BeginPass(r)
    <2> DEFINE p == [Idle EXCEPT !.pc = "settle", !.left = {t \in Task : task[t] = "running"}]
    <2>1. p \in PassRecord /\ p.snap = NoSnap /\ p.pc = "settle"
      BY Records DEF PassRecord, Idle
    <2>2. Idle \in PassRecord /\ Idle.snap = NoSnap /\ Idle.pc = "idle"
      BY Records DEF Idle
    <2>3. pass' = [pass EXCEPT ![r] = IF goal # "running" THEN Idle ELSE p]
      BY <1>1 DEF BeginPass
    <2> HIDE DEF p
    <2>4. /\ pass' \in [Reconciler -> PassRecord] /\ \A q \in Reconciler \ {r} : pass'[q] = pass[q]
          /\ pass'[r].snap = NoSnap /\ pass'[r].pc # "link"
      BY <1>0, <2>1, <2>2, <2>3
    <2> QED
      BY <1>0, <1>1, <2>4, PassFresh, PassOnly DEF BeginPass, RowsOK
  <1>2. CASE EndSettle(r)
    <2>1. pass' = [pass EXCEPT ![r].pc = "block", ![r].snap = task, ![r].res = result]
      BY <1>2 DEF EndSettle
    <2>2. /\ task \in [Task -> TaskStatus \cup {"submitted"}] /\ result \in SUBSET Task
          /\ \A t \in Task : task[t] # "submitted"
      BY <1>0 DEF RowsOK, TaskStatus
    <2>3. /\ pass' \in [Reconciler -> PassRecord] /\ \A q \in Reconciler \ {r} : pass'[q] = pass[q]
          /\ pass'[r].snap = task /\ pass'[r].pc = "block"
      BY <1>0, <2>1, <2>2 DEF PassRecord
    <2>4. PassInv(r)'
      <3>1. \A t \in Task : task[t] = "complete" => t \in done
        BY DEF GoalIInv, TaskInv
      <3>2. done' = done
        BY <1>2 DEF EndSettle, taskVars
      <3> QED
        BY <2>2, <2>3, <3>1, <3>2 DEF PassInv
    <2> QED
      BY <1>0, <1>2, <2>3, <2>4, PassOnly DEF EndSettle, RowsOK
  <1>3. CASE EndBlock(r)
    <2> DEFINE open == {t \in Task : task[t] = "pending"}
    <2>1. pass' = [pass EXCEPT ![r].pc = "submit", ![r].slots = Slots, ![r].left = open] /\ open \in SUBSET Task
      BY <1>3 DEF EndBlock
    <2> HIDE DEF open
    <2>2. /\ pass' \in [Reconciler -> PassRecord] /\ \A q \in Reconciler \ {r} : pass'[q] = pass[q]
          /\ pass'[r].snap = pass[r].snap /\ pass'[r].pc = "submit"
      BY <1>0, <2>1, SlotsType DEF PassRecord
    <2>3. PassInv(r)'
      <3>1. done' = done /\ job' = job
        BY <1>3 DEF EndBlock, taskVars
      <3> QED
        BY <1>0, <2>2, <3>1 DEF PassInv
    <2> QED
      BY <1>0, <1>3, <2>2, <2>3, PassOnly DEF EndBlock, RowsOK
  <1>4. CASE PauseForReview(r) \/ Finish(r) \/ WorkerCrash(r) \/ Restart(r)
    <2>1. pass' = [pass EXCEPT ![r] = Idle] \/ pass' = [pass EXCEPT ![r] = Dead]
      BY <1>4 DEF PauseForReview, Finish, WorkerCrash, Restart
    <2>2. Idle.snap = NoSnap /\ Idle.pc = "idle" /\ Dead.snap = NoSnap /\ Dead.pc = "dead"
      BY DEF Idle, Dead
    <2>3. /\ pass' \in [Reconciler -> PassRecord] /\ \A q \in Reconciler \ {r} : pass'[q] = pass[q]
          /\ pass'[r].snap = NoSnap /\ pass'[r].pc # "link"
      BY <1>0, <2>1, <2>2, Records
    <2>4. /\ goal' \in {"ready", "paused", "running", "complete", "failed", "cancelled"}
          /\ UNCHANGED <<taskVars, reruns, job, reviewVars, op>>
      BY <1>0, <1>4 DEF PauseForReview, Finish, WorkerCrash, Restart, RowsOK
    <2> QED
      BY <2>3, <2>4, PassFresh, PassOnly
  <1> QED
    BY <1>1, <1>2, <1>3, <1>4

\* A step of pass r for task t.
LEMMA OneTask ==
    ASSUME GoalIInv, NEW t \in Task, NEW r \in Reconciler, Onward, RowsOK', TaskInv(t)',
           UNCHANGED <<op, reruns, review>>,
           \A u \in Task \ {t} : task'[u] = task[u] /\ link'[u] = link[u] /\ job'[u] = job[u],
           pass' \in [Reconciler -> PassRecord], \A q \in Reconciler \ {r} : pass'[q] = pass[q],
           PassInv(r)'
    PROVE  GoalIInv'
  <1>1. CallersOK' /\ OpInv'
    BY OpKept DEF GoalIInv, CallersOK
  <1>2. PICK T \in SUBSET Task, R \in SUBSET Reconciler : T = {t} /\ R = {r}
    OBVIOUS
  <1>3. \A u \in Task \ T : /\ task'[u] = task[u] /\ link'[u] = link[u]
                            /\ \A n \in Runs : job'[u][n] # "absent" => job[u][n] # "absent"
                            /\ \A n \in Runs : review'[u][n] = review[u][n]
    BY <1>2
  <1>4. /\ \A u \in T : TaskInv(u)'
        /\ \A q \in Reconciler \ R : pass'[q] = pass[q]
        /\ \A q \in R : PassInv(q)'
    BY <1>2
  <1> QED
    BY <1>1, <1>3, <1>4, Assemble

\* A step of the API's call for task t.
LEMMA OneOp ==
    ASSUME GoalIInv, NEW t \in Task, Onward, RowsOK', TaskInv(t)',
           \A u \in Task \ {t} : /\ task'[u] = task[u] /\ link'[u] = link[u] /\ job'[u] = job[u]
                                 /\ review'[u] = review[u],
           op' \in OpRecord, OpInv', pass' = pass
    PROVE  GoalIInv'
  <1>1. CallersOK'
    BY DEF GoalIInv, CallersOK
  <1>2. PICK T \in SUBSET Task, R \in SUBSET Reconciler : T = {t} /\ R = {}
    OBVIOUS
  <1>3. \A u \in Task \ T : /\ task'[u] = task[u] /\ link'[u] = link[u]
                            /\ \A n \in Runs : job'[u][n] # "absent" => job[u][n] # "absent"
                            /\ \A n \in Runs : review'[u][n] = review[u][n]
    BY <1>2
  <1>4. /\ \A u \in T : TaskInv(u)'
        /\ \A q \in Reconciler \ R : pass'[q] = pass[q]
        /\ \A q \in R : PassInv(q)'
    BY <1>2
  <1> QED
    BY <1>1, <1>3, <1>4, Assemble

\* What a verdict says of the job.
LEMMA VerdictFacts ==
    ASSUME NEW j \in JobStatus
    PROVE  /\ Verdict(j) \in {"complete", "escalated", "pending", "failed", "running"}
           /\ Verdict(j) = "complete" => j = "good"
           /\ Verdict(j) = "pending" => j = "absent"
           /\ Verdict(j) # "pending" => j # "absent"
  BY DEF Verdict, JobStatus, Live, Outcome

\* Setting the status of one task.
LEMMA SetTaskFacts ==
    ASSUME RowsOK, NEW t \in Task, NEW s \in TaskStatus, SetTask(t, s)
    PROVE  /\ task' \in [Task -> TaskStatus] /\ task'[t] = s /\ \A u \in Task \ {t} : task'[u] = task[u]
           /\ done' \subseteq Task /\ done \subseteq done' /\ (s = "complete" => t \in done')
  BY DEF SetTask, RowsOK

\* A task that was running is settled.
LEMMA SettleStep ==
    ASSUME GoalIInv, NEW r \in Reconciler, NEW t \in Task, Settle(r, t)
    PROVE  GoalIInv'
  <1>0. pass \in [Reconciler -> PassRecord] /\ pass[r] \in PassRecord /\ RowsOK /\ PassInv(r) /\ TaskInv(t)
    BY DEF GoalIInv, CallersOK
  <1>1. PICK n \in Runs : n = IF link[t] # 0 THEN link[t] ELSE 1
    BY <1>0, RunFacts DEF RowsOK
  <1>2. job[t][n] \in JobStatus
    BY <1>0 DEF RowsOK
  <1>3. PICK v \in {"complete", "escalated", "pending", "failed", "running"} :
             /\ v = Verdict(job[t][n])
             /\ v = "complete" => job[t][n] = "good"
             /\ v = "pending" => job[t][n] = "absent"
             /\ v # "pending" => job[t][n] # "absent"
    BY <1>2, VerdictFacts
  <1>4. /\ IF v = "running" THEN UNCHANGED <<task, done>> ELSE SetTask(t, v)
        /\ result' = IF v \in {"complete", "escalated"} THEN result \cup {t} ELSE result
        /\ link' = IF v = "pending" THEN [link EXCEPT ![t] = 0] ELSE link
        /\ pass' = [pass EXCEPT ![r] =
              IF v = "escalated" THEN [@ EXCEPT !.pc = "pause", !.left = {}]
              ELSE [@ EXCEPT !.left = pass[r].left \ {t}]]
        /\ UNCHANGED <<goal, reruns, job, review, plan, op>>
    BY <1>1, <1>3 DEF Settle, reviewVars
  <1>5. v \in TaskStatus
    BY DEF TaskStatus
  <1>6. /\ task' \in [Task -> TaskStatus] /\ task'[t] = (IF v = "running" THEN task[t] ELSE v)
        /\ \A u \in Task \ {t} : task'[u] = task[u]
        /\ done' \subseteq Task /\ done \subseteq done' /\ (v = "complete" => t \in done')
    <2>1. CASE v = "running"
      BY <1>0, <1>4, <2>1 DEF RowsOK
    <2>2. CASE v # "running"
      BY <1>0, <1>4, <1>5, <2>2, SetTaskFacts
    <2> QED
      BY <2>1, <2>2
  <1>7. /\ link' \in [Task -> Runs \cup {0}] /\ link'[t] = (IF v = "pending" THEN 0 ELSE link[t])
        /\ \A u \in Task \ {t} : link'[u] = link[u]
    BY <1>0, <1>4 DEF RowsOK
  <1>8. RowsOK'
    <2>1. result' \subseteq Task
      BY <1>0, <1>4 DEF RowsOK
    <2> QED
      BY <1>0, <1>4, <1>6, <1>7, <2>1 DEF RowsOK
  <1>9. Onward
    BY <1>4, <1>6, OnwardSame
  <1>10. TaskInv(t)'
    <2>1. v # "pending" => Deps[t] \subseteq done'
      BY <1>0, <1>3, <1>6 DEF TaskInv
    <2>2. v = "complete" => Earned(t)'
      BY <1>3, <1>4 DEF Earned
    <2>3. CASE v = "running"
      <3>1. task'[t] = task[t] /\ link'[t] = link[t]
        BY <1>6, <1>7, <2>3
      <3> QED
        BY <1>0, <1>4, <1>9, <3>1, TaskKept
    <2>4. CASE v # "running"
      <3>1. task'[t] = v
        BY <1>6, <2>4
      <3>2. ((\E q \in Runs : job[t][q] # "absent") => Deps[t] \subseteq done)'
        BY <1>0, <1>4, <1>6 DEF TaskInv
      <3>3. (\A q \in Runs : review[t][q] # "none" => job[t][q] \in {"escalated", "held"})'
        BY <1>0, <1>4 DEF TaskInv
      <3> QED
        BY <1>6, <2>1, <2>2, <2>4, <3>1, <3>2, <3>3 DEF TaskInv
    <2> QED
      BY <2>3, <2>4
  <1>11. /\ pass' \in [Reconciler -> PassRecord] /\ \A q \in Reconciler \ {r} : pass'[q] = pass[q]
         /\ pass'[r].snap = pass[r].snap /\ pass'[r].pc \in {"pause", "settle"}
    <2>1. pass[r].pc = "settle"
      BY DEF Settle
    <2>2. /\ [pass[r] EXCEPT !.pc = "pause", !.left = {}] \in PassRecord
          /\ [pass[r] EXCEPT !.left = pass[r].left \ {t}] \in PassRecord
      BY <1>0 DEF PassRecord
    <2>3. CASE v = "escalated"
      <3>1. pass' = [pass EXCEPT ![r] = [pass[r] EXCEPT !.pc = "pause", !.left = {}]]
        BY <1>4, <2>3
      <3> QED
        BY <1>0, <2>2, <3>1 DEF PassRecord
    <2>4. CASE v # "escalated"
      <3>1. pass' = [pass EXCEPT ![r] = [pass[r] EXCEPT !.left = pass[r].left \ {t}]]
        BY <1>4, <2>4
      <3> QED
        BY <1>0, <2>1, <2>2, <3>1 DEF PassRecord
    <2> QED
      BY <2>3, <2>4
  <1>12. PassInv(r)'
    BY <1>0, <1>4, <1>6, <1>11 DEF PassInv
  <1> QED
    BY <1>4, <1>6, <1>7, <1>8, <1>9, <1>10, <1>11, <1>12, OneTask

\* One job changes, and does not go back.
LEMMA JobSet ==
    ASSUME RowsOK, NEW t \in Task, NEW n \in Runs, NEW s \in JobStatus,
           job' = [job EXCEPT ![t][n] = s],
           job[t][n] # "absent" => s # "absent",
           job[t][n] \in {"good", "escalated", "held"} => s = job[t][n]
    PROVE  /\ job' \in [Task -> [Runs -> JobStatus]] /\ job'[t][n] = s
           /\ \A m \in Runs \ {n} : job'[t][m] = job[t][m]
           /\ \A u \in Task \ {t} : job'[u] = job[u]
           /\ done \subseteq done' /\ review' = review => Onward
  <1>1. job \in [Task -> [Runs -> JobStatus]] /\ job[t] \in [Runs -> JobStatus]
    BY DEF RowsOK
  <1>2. job' = [job EXCEPT ![t] = [job[t] EXCEPT ![n] = s]] /\ [job[t] EXCEPT ![n] = s] \in [Runs -> JobStatus]
    BY <1>1
  <1>3. /\ job' \in [Task -> [Runs -> JobStatus]] /\ job'[t] = [job[t] EXCEPT ![n] = s]
        /\ \A u \in Task \ {t} : job'[u] = job[u]
    BY <1>1, <1>2
  <1>4. job'[t][n] = s /\ \A m \in Runs \ {n} : job'[t][m] = job[t][m]
    BY <1>1, <1>3
  <1>5. ASSUME NEW u \in Task, NEW m \in Runs
        PROVE  /\ job[u][m] # "absent" => job'[u][m] # "absent"
               /\ job[u][m] \in {"good", "escalated", "held"} => job'[u][m] = job[u][m]
    BY <1>3, <1>4
  <1> QED
    BY <1>3, <1>4, <1>5 DEF Onward, Forward

\* Enqueueing makes sure that there is a job.
LEMMA EnqueueFacts ==
    ASSUME RowsOK, NEW t \in Task, NEW n \in Runs, EnqueueRun(t, n)
    PROVE  /\ job' \in [Task -> [Runs -> JobStatus]] /\ job'[t][n] # "absent"
           /\ \A u \in Task \ {t} : job'[u] = job[u]
           /\ \A m \in Runs : job[t][m] # "absent" => job'[t][m] = job[t][m]
           /\ done \subseteq done' /\ review' = review => Onward
  <1>1. job[t][n] \in JobStatus /\ job \in [Task -> [Runs -> JobStatus]]
    BY DEF RowsOK
  <1>2. PICK s \in JobStatus : s = IF job[t][n] = "absent" THEN "queued" ELSE job[t][n]
    BY <1>1 DEF JobStatus, Live
  <1>3. job' = [job EXCEPT ![t][n] = s]
    BY <1>2 DEF EnqueueRun
  <1>4. /\ s # "absent" /\ (job[t][n] # "absent" => s = job[t][n])
        /\ job[t][n] \in {"good", "escalated", "held"} => s = job[t][n]
    BY <1>2
  <1>5. /\ job' \in [Task -> [Runs -> JobStatus]] /\ job'[t][n] = s
        /\ \A u \in Task \ {t} : job'[u] = job[u]
        /\ \A m \in Runs \ {n} : job'[t][m] = job[t][m]
        /\ done \subseteq done' /\ review' = review => Onward
    BY <1>3, <1>4, JobSet
  <1> QED
    BY <1>4, <1>5

\* A task behind a failed one is blocked.
LEMMA BlockStep ==
    ASSUME GoalIInv, NEW r \in Reconciler, NEW t \in Task, Block(r, t)
    PROVE  GoalIInv'
  <1>0. pass \in [Reconciler -> PassRecord] /\ pass[r] \in PassRecord /\ RowsOK /\ PassInv(r) /\ TaskInv(t)
    BY DEF GoalIInv, CallersOK
  <1>1. /\ SetTask(t, "blocked") /\ pass' = [pass EXCEPT ![r].snap[t] = "blocked"] /\ pass[r].pc = "block"
        /\ UNCHANGED <<goal, result, link, reruns, job, review, plan, op>>
    BY DEF Block, reviewVars
  <1>2. /\ task' \in [Task -> TaskStatus] /\ task'[t] = "blocked" /\ \A u \in Task \ {t} : task'[u] = task[u]
        /\ done' \subseteq Task /\ done \subseteq done'
    <2>1. "blocked" \in TaskStatus
      BY DEF TaskStatus
    <2> QED
      BY <1>0, <1>1, <2>1, SetTaskFacts
  <1>3. Onward
    BY <1>1, <1>2, OnwardSame
  <1>4. RowsOK'
    BY <1>0, <1>1, <1>2 DEF RowsOK
  <1>5. TaskInv(t)'
    BY <1>0, <1>1, <1>2 DEF TaskInv
  <1>6. /\ pass' \in [Reconciler -> PassRecord] /\ \A q \in Reconciler \ {r} : pass'[q] = pass[q]
        /\ pass'[r].snap = [pass[r].snap EXCEPT ![t] = "blocked"] /\ pass'[r].pc = "block"
        /\ pass[r].snap \in [Task -> TaskStatus \cup {"submitted"}]
    <2>1. pass[r].snap \in [Task -> TaskStatus \cup {"submitted"}]
      BY <1>0 DEF PassRecord
    <2>2. PICK s \in [Task -> TaskStatus \cup {"submitted"}] : s = [pass[r].snap EXCEPT ![t] = "blocked"]
      BY <2>1 DEF TaskStatus
    <2>a. /\ [pass[r] EXCEPT !.snap = s] \in PassRecord
          /\ [pass[r] EXCEPT !.snap = s].snap = s /\ [pass[r] EXCEPT !.snap = s].pc = pass[r].pc
      BY <1>0 DEF PassRecord
    <2>3. PICK p \in PassRecord : p = [pass[r] EXCEPT !.snap = s] /\ p.snap = s /\ p.pc = pass[r].pc
      BY <2>a
    <2>4. pass' = [pass EXCEPT ![r] = p]
      BY <1>1, <2>2, <2>3
    <2> QED
      BY <1>0, <1>1, <2>1, <2>2, <2>3, <2>4
  <1>7. PassInv(r)'
    BY <1>0, <1>1, <1>2, <1>6 DEF PassInv
  <1> QED
    BY <1>1, <1>2, <1>3, <1>4, <1>5, <1>6, <1>7, OneTask

\* A task whose dependencies were complete is submitted, or fails.
LEMMA SubmitStep ==
    ASSUME GoalIInv, NEW r \in Reconciler, NEW t \in Task, Submit(r, t)
    PROVE  GoalIInv'
  <1>0. /\ pass \in [Reconciler -> PassRecord] /\ pass[r] \in PassRecord /\ RowsOK /\ PassInv(r) /\ TaskInv(t)
        /\ pass[r].snap \in [Task -> TaskStatus \cup {"submitted"}]
    BY DEF GoalIInv, CallersOK, PassRecord
  <1>1. /\ pass[r].slots > 0 /\ \A d \in Deps[t] : pass[r].snap[d] = "complete"
        /\ UNCHANGED <<goal, result, link, reruns, review, plan, op>>
    BY DEF Submit, Eligible, reviewVars
  <1>2. Deps[t] \subseteq done
    BY <1>0, <1>1, GoalsAssumption DEF PassInv
  <1>3. CASE Resolvable(t, pass[r].res)
    <2>1. /\ EnqueueRun(t, 1) /\ UNCHANGED <<task, done>>
          /\ pass' = [pass EXCEPT ![r].pc = "link", ![r].left = @ \ {t}, ![r].snap[t] = "submitted"]
      BY <1>3 DEF Submit
    <2>2. /\ job' \in [Task -> [Runs -> JobStatus]] /\ job'[t][1] # "absent" /\ Onward
          /\ \A u \in Task \ {t} : job'[u] = job[u]
          /\ \A m \in Runs : job[t][m] # "absent" => job'[t][m] = job[t][m]
      BY <1>0, <1>1, <2>1, RunFacts, EnqueueFacts
    <2>3. RowsOK'
      BY <1>0, <1>1, <2>1, <2>2 DEF RowsOK
    <2>4. TaskInv(t)'
      <3>1. (\A q \in Runs : review[t][q] # "none" => job[t][q] \in {"escalated", "held"})'
        BY <1>0, <1>1, <2>2 DEF TaskInv
      <3>2. Earned(t) => Earned(t)'
        BY <2>2, EarnedKept DEF Onward
      <3>3. (task[t] = "running" => link[t] # 0 /\ job[t][link[t]] # "absent")'
        BY <1>0, <1>1, <2>1, <2>2 DEF TaskInv, RowsOK
      <3> QED
        BY <1>0, <1>1, <1>2, <2>1, <3>1, <3>2, <3>3 DEF TaskInv
    <2>5. /\ pass' \in [Reconciler -> PassRecord] /\ \A q \in Reconciler \ {r} : pass'[q] = pass[q]
          /\ pass'[r].snap = [pass[r].snap EXCEPT ![t] = "submitted"] /\ pass'[r].slots = pass[r].slots
      <3>1. PICK s \in [Task -> TaskStatus \cup {"submitted"}] : s = [pass[r].snap EXCEPT ![t] = "submitted"]
        BY <1>0
      <3>2. pass' = [pass EXCEPT ![r].pc = "link", ![r].left = @ \ {t}, ![r].snap = s]
        BY <1>0, <2>1, <3>1 DEF PassRecord
      <3> QED
        BY <1>0, <3>1, <3>2 DEF PassRecord
    <2>6. PassInv(r)'
      BY <1>0, <1>1, <2>1, <2>2, <2>5, RunFacts DEF PassInv
    <2> QED
      BY <1>1, <2>1, <2>2, <2>3, <2>4, <2>5, <2>6, OneTask
  <1>4. CASE ~Resolvable(t, pass[r].res)
    <2>1. /\ SetTask(t, "failed") /\ job' = job /\ pass[r].pc = "submit"
          /\ pass' = [pass EXCEPT ![r].left = @ \ {t}]
      BY <1>4 DEF Submit
    <2>2. /\ task' \in [Task -> TaskStatus] /\ task'[t] = "failed" /\ \A u \in Task \ {t} : task'[u] = task[u]
          /\ done' \subseteq Task /\ done \subseteq done'
      <3>1. "failed" \in TaskStatus
        BY DEF TaskStatus
      <3> QED
        BY <1>0, <2>1, <3>1, SetTaskFacts
    <2>3. Onward
      BY <1>1, <2>1, <2>2, OnwardSame
    <2>4. RowsOK'
      BY <1>0, <1>1, <2>1, <2>2 DEF RowsOK
    <2>5. TaskInv(t)'
      BY <1>0, <1>1, <1>2, <2>1, <2>2 DEF TaskInv
    <2>6. /\ pass' \in [Reconciler -> PassRecord] /\ \A q \in Reconciler \ {r} : pass'[q] = pass[q]
          /\ pass'[r].snap = pass[r].snap /\ pass'[r].pc = "submit"
      BY <1>0, <2>1 DEF PassRecord
    <2>7. PassInv(r)'
      BY <1>0, <2>1, <2>2, <2>6 DEF PassInv
    <2> QED
      BY <1>1, <2>1, <2>2, <2>3, <2>4, <2>5, <2>6, <2>7, OneTask
  <1> QED
    BY <1>3, <1>4

\* The submitted job is noted on its task.
LEMMA LinkStep ==
    ASSUME GoalIInv, NEW r \in Reconciler, NEW t \in Task, LinkJob(r, t)
    PROVE  GoalIInv'
  <1>0. /\ pass \in [Reconciler -> PassRecord] /\ pass[r] \in PassRecord /\ RowsOK /\ PassInv(r) /\ TaskInv(t)
        /\ pass[r].snap \in [Task -> TaskStatus \cup {"submitted"}] /\ pass[r].slots \in 0..PerGoalLimit
    BY DEF GoalIInv, CallersOK, PassRecord
  <1>1. /\ SetTask(t, "running") /\ link' = [link EXCEPT ![t] = 1] /\ job[t][1] # "absent" /\ pass[r].slots > 0
        /\ pass' = [pass EXCEPT ![r].pc = "submit", ![r].slots = @ - 1, ![r].snap[t] = "pending"]
        /\ UNCHANGED <<goal, result, reruns, job, review, plan, op>>
    BY <1>0 DEF LinkJob, reviewVars, PassInv
  <1>2. /\ task' \in [Task -> TaskStatus] /\ task'[t] = "running" /\ \A u \in Task \ {t} : task'[u] = task[u]
        /\ done' \subseteq Task /\ done \subseteq done'
    <2>1. "running" \in TaskStatus
      BY DEF TaskStatus
    <2> QED
      BY <1>0, <1>1, <2>1, SetTaskFacts
  <1>3. Onward
    BY <1>1, <1>2, OnwardSame
  <1>4. link' \in [Task -> Runs \cup {0}] /\ link'[t] = 1 /\ \A u \in Task \ {t} : link'[u] = link[u]
    BY <1>0, <1>1, RunFacts DEF RowsOK
  <1>5. RowsOK'
    BY <1>0, <1>1, <1>2, <1>4 DEF RowsOK
  <1>6. TaskInv(t)'
    BY <1>0, <1>1, <1>2, <1>4 DEF TaskInv
  <1>7. /\ pass' \in [Reconciler -> PassRecord] /\ \A q \in Reconciler \ {r} : pass'[q] = pass[q]
        /\ pass'[r].snap = [pass[r].snap EXCEPT ![t] = "pending"] /\ pass'[r].pc = "submit"
    <2>1. PICK s \in [Task -> TaskStatus \cup {"submitted"}] : s = [pass[r].snap EXCEPT ![t] = "pending"]
      BY <1>0 DEF TaskStatus
    <2>2. PICK n \in 0..PerGoalLimit : n = pass[r].slots - 1
      BY <1>0, <1>1, GoalsAssumption
    <2>3. pass' = [pass EXCEPT ![r].pc = "submit", ![r].slots = n, ![r].snap = s]
      BY <1>0, <1>1, <2>1, <2>2 DEF PassRecord
    <2> QED
      BY <1>0, <2>1, <2>3 DEF PassRecord
  <1>8. PassInv(r)'
    BY <1>0, <1>1, <1>2, <1>7 DEF PassInv
  <1> QED
    BY <1>1, <1>2, <1>3, <1>4, <1>5, <1>6, <1>7, <1>8, OneTask

-----------------------------------------------------------------------------
(* The calls of the API.                                                    *)

\* A call that changes neither the rows of the tasks nor a pass.
LEMMA OpOnly ==
    ASSUME GoalIInv, UNCHANGED <<taskVars, job, review, pass>>,
           goal' \in {"ready", "paused", "running", "complete", "failed", "cancelled"},
           plan' \in {"none", "pending", "resolved"}, reruns' \in [Task -> 0..MaxReruns],
           op' \in OpRecord, OpInv'
    PROVE  GoalIInv'
  <1>1. UNCHANGED <<task, result, link, done>>
    BY DEF taskVars
  <1>2. Onward
    BY <1>1, OnwardSame
  <1>3. RowsOK' /\ CallersOK'
    BY <1>1 DEF GoalIInv, RowsOK, CallersOK
  <1>4. PICK T \in SUBSET Task, R \in SUBSET Reconciler : T = {} /\ R = {}
    OBVIOUS
  <1>5. \A u \in Task \ T : /\ task'[u] = task[u] /\ link'[u] = link[u]
                            /\ \A n \in Runs : job'[u][n] # "absent" => job[u][n] # "absent"
                            /\ \A n \in Runs : review'[u][n] = review[u][n]
    BY <1>1
  <1>6. /\ \A t \in T : TaskInv(t)'
        /\ \A q \in Reconciler \ R : pass'[q] = pass[q]
        /\ \A q \in R : PassInv(q)'
    BY <1>4
  <1> QED
    BY <1>2, <1>3, <1>5, <1>6, Assemble

\* Nothing is required of a call in these places.
LEMMA OpIdle ==
    ASSUME op'.kind \in {"idle", "start", "run", "pause", "cancel", "job", "close", "fail"}
    PROVE  OpInv'
  BY DEF OpInv

\* Requests, and steps that only move the goal, the plan or the call.
LEMMA GoalSteps ==
    ASSUME GoalIInv,
           \/ Start \/ CheckStart \/ Pause \/ SetPaused \/ Cancel \/ SetCancelled \/ SetFailed
           \/ RerunGoal
           \/ \E approved \in BOOLEAN : DecidePlan(approved)
           \/ \E t \in Task : LookAtJob(t)
    PROVE  GoalIInv'
  <1>0. op \in OpRecord /\ RowsOK /\ NoOp.kind = "idle"
    BY DEF GoalIInv, CallersOK, NoOp
  <1>1. CASE RerunGoal
    <2>1. op' = [op EXCEPT !.kind = "event"] /\ op.kind = "goal" /\ goal' = "running"
          /\ UNCHANGED <<taskVars, reruns, job, review, plan, pass>>
      BY <1>1 DEF RerunGoal, Goto, reviewVars
    <2>2. op' \in OpRecord /\ op'.kind = "event" /\ op'.left = op.left
      BY <1>0, <2>1 DEF OpRecord
    <2>3. OpInv'
      BY <2>1, <2>2 DEF GoalIInv, OpInv
    <2> QED
      BY <1>0, <2>1, <2>2, <2>3, OpOnly DEF RowsOK
  <1>2. CASE \E t \in Task : LookAtJob(t)
    <2>1. PICK t \in Task : LookAtJob(t)
      BY <1>2
    <2>2. \E k \in {"job", "close"} : op' = [op EXCEPT !.kind = k, !.snap[t] = "next"]
      BY <2>1 DEF LookAtJob
    <2>3. PICK k \in {"job", "close"} : op' = [op EXCEPT !.kind = k, !.snap[t] = "next"]
      BY <2>2
    <2>4. op.snap \in [Task -> TaskStatus \cup {"next"}]
      BY <1>0 DEF OpRecord
    <2>5. PICK s \in [Task -> TaskStatus \cup {"next"}] : s = [op.snap EXCEPT ![t] = "next"]
      BY <2>4
    <2>6. op' = [op EXCEPT !.kind = k, !.snap = s]
      BY <1>0, <2>3, <2>5 DEF OpRecord
    <2>7. op' \in OpRecord /\ op'.kind = k
      BY <1>0, <2>6 DEF OpRecord
    <2>8. UNCHANGED <<goal, taskVars, reruns, job, review, plan, pass>>
      BY <2>1 DEF LookAtJob, reviewVars
    <2> QED
      BY <1>0, <2>7, <2>8, OpIdle, OpOnly DEF RowsOK
  <1>3. CASE Cancel
    <2> DEFINE open == {t \in Task : task[t] \in {"running", "pending"}}
               seen == [t \in Task |-> IF t \in open THEN task[t] ELSE "pending"]
    <2>1. op' = [NoOp EXCEPT !.kind = "cancel", !.left = open, !.snap = seen]
      BY <1>3 DEF Cancel
    <2>2. open \in SUBSET Task /\ seen \in [Task -> TaskStatus \cup {"next"}]
      BY <1>0 DEF RowsOK, TaskStatus
    <2> HIDE DEF open, seen
    <2>3. op' \in OpRecord /\ op'.kind = "cancel"
      BY <2>1, <2>2, Records DEF OpRecord
    <2>4. UNCHANGED <<goal, taskVars, reruns, job, review, plan, pass>>
      BY <1>3 DEF Cancel, reviewVars
    <2> QED
      BY <1>0, <2>3, <2>4, OpIdle, OpOnly DEF RowsOK
  <1>4. CASE \/ Start \/ CheckStart \/ Pause \/ SetPaused \/ SetCancelled \/ SetFailed
             \/ \E approved \in BOOLEAN : DecidePlan(approved)
    <2>1. op' = NoOp \/ \E k \in {"start", "run", "pause", "fail"} : op' = [op EXCEPT !.kind = k]
      BY <1>4 DEF Start, CheckStart, Pause, SetPaused, SetCancelled, SetFailed, DecidePlan, Goto
    <2>2. op' \in OpRecord /\ op'.kind \in {"idle", "start", "run", "pause", "fail"}
      BY <1>0, <2>1, Records DEF OpRecord
    <2>3. /\ UNCHANGED <<taskVars, reruns, job, review, pass>>
          /\ goal' \in {"ready", "paused", "running", "complete", "failed", "cancelled"}
          /\ plan' \in {"none", "pending", "resolved"}
      BY <1>0, <1>4 DEF Start, CheckStart, Pause, SetPaused, SetCancelled, SetFailed, DecidePlan, reviewVars, RowsOK
    <2> QED
      BY <1>0, <2>2, <2>3, OpIdle, OpOnly DEF RowsOK
  <1> QED
    BY <1>1, <1>2, <1>3, <1>4

\* The pass that ends start begins; or the API process dies.
LEMMA ApiSteps ==
    ASSUME GoalIInv, SetRunning \/ ApiCrash
    PROVE  GoalIInv'
  <1>0. op \in OpRecord /\ RowsOK /\ pass \in [Reconciler -> PassRecord] /\ Api \in Reconciler
    BY GoalsAssumption DEF GoalIInv, CallersOK
  <1>1. /\ op' = NoOp /\ UNCHANGED <<task, result, link, done, reruns, job, review, plan>>
        /\ goal' \in {"ready", "paused", "running", "complete", "failed", "cancelled"}
    BY <1>0 DEF SetRunning, ApiCrash, taskVars, reviewVars, RowsOK
  <1>2. PICK p \in PassRecord : pass' = [pass EXCEPT ![Api] = p] /\ p.snap = NoSnap /\ p.pc # "link"
    <2>1. CASE SetRunning
      <3>1. pass' = [pass EXCEPT ![Api] = [Idle EXCEPT !.pc = "begin"]]
        BY <2>1 DEF SetRunning
      <3>2. /\ [Idle EXCEPT !.pc = "begin"] \in PassRecord /\ [Idle EXCEPT !.pc = "begin"].snap = NoSnap
            /\ [Idle EXCEPT !.pc = "begin"].pc = "begin"
        BY Records DEF Idle, PassRecord
      <3> QED
        BY <3>1, <3>2
    <2>2. CASE ApiCrash
      <3>1. Dead.snap = NoSnap /\ Dead.pc = "dead"
        BY DEF Dead, Idle
      <3> QED
        BY <2>2, <3>1, Records DEF ApiCrash
    <2> QED
      BY <2>1, <2>2
  <1>3. /\ pass' \in [Reconciler -> PassRecord] /\ \A q \in Reconciler \ {Api} : pass'[q] = pass[q]
        /\ pass'[Api] = p
    BY <1>0, <1>2
  <1>4. PassInv(Api)'
    BY <1>0, <1>2, <1>3, PassFresh
  <1>5. OpInv'
    BY <1>1, OpIdle DEF NoOp
  <1>6. Onward
    BY <1>1, OnwardSame
  <1>7. RowsOK' /\ CallersOK'
    BY <1>0, <1>1, <1>3, Records DEF RowsOK, CallersOK
  <1>8. PICK T \in SUBSET Task, R \in SUBSET Reconciler : T = {} /\ R = {Api}
    BY <1>0
  <1>9. \A u \in Task \ T : /\ task'[u] = task[u] /\ link'[u] = link[u]
                            /\ \A n \in Runs : job'[u][n] # "absent" => job[u][n] # "absent"
                            /\ \A n \in Runs : review'[u][n] = review[u][n]
    BY <1>1
  <1>10. /\ \A t \in T : TaskInv(t)'
         /\ \A q \in Reconciler \ R : pass'[q] = pass[q]
         /\ \A q \in R : PassInv(q)'
    BY <1>3, <1>4, <1>8
  <1> QED
    BY <1>5, <1>6, <1>7, <1>9, <1>10, Assemble

\* Cancelling: a live job is cancelled, and its task closed.
LEMMA CancelSteps ==
    ASSUME GoalIInv, NEW t \in Task, CancelJob(t) \/ CloseTask(t)
    PROVE  GoalIInv'
  <1>0. op \in OpRecord /\ RowsOK /\ TaskInv(t) /\ NoOp.kind = "idle"
    BY DEF GoalIInv, CallersOK, NoOp
  <1>1. CASE CloseTask(t)
    <2>1. /\ SetTask(t, "cancelled")
          /\ op' = [op EXCEPT !.kind = "cancel", !.left = @ \ {t}, !.snap[t] = "pending"]
          /\ UNCHANGED <<goal, result, link, reruns, job, review, plan, pass>>
      BY <1>1 DEF CloseTask, reviewVars
    <2>2. /\ task' \in [Task -> TaskStatus] /\ task'[t] = "cancelled" /\ \A u \in Task \ {t} : task'[u] = task[u]
          /\ done' \subseteq Task /\ done \subseteq done'
      <3>1. "cancelled" \in TaskStatus
        BY DEF TaskStatus
      <3> QED
        BY <1>0, <2>1, <3>1, SetTaskFacts
    <2>3. Onward /\ RowsOK' /\ TaskInv(t)'
      BY <1>0, <2>1, <2>2, OnwardSame DEF RowsOK, TaskInv
    <2>4. op.snap \in [Task -> TaskStatus \cup {"next"}] /\ op.left \in SUBSET Task
      BY <1>0 DEF OpRecord
    <2>5. PICK s \in [Task -> TaskStatus \cup {"next"}] : s = [op.snap EXCEPT ![t] = "pending"]
      BY <2>4 DEF TaskStatus
    <2>6. PICK l \in SUBSET Task : l = op.left \ {t}
      BY <2>4
    <2>7. op' = [op EXCEPT !.kind = "cancel", !.left = l, !.snap = s]
      BY <1>0, <2>1, <2>5, <2>6 DEF OpRecord
    <2>8. op' \in OpRecord /\ op'.kind = "cancel"
      BY <1>0, <2>7 DEF OpRecord
    <2> QED
      BY <2>1, <2>2, <2>3, <2>8, OpIdle, OneOp
  <1>2. CASE CancelJob(t)
    <2>1. UNCHANGED <<goal, task, result, link, done, reruns, review, plan, pass>>
      BY <1>2 DEF CancelJob, taskVars, reviewVars
    <2>2. op' \in OpRecord /\ op'.kind \in {"idle", "close"}
      <3>1. op' = NoOp \/ op' = [op EXCEPT !.kind = "close"]
        BY <1>2 DEF CancelJob, Goto
      <3> QED
        BY <1>0, <3>1, Records DEF OpRecord
    <2>3. CASE job' = job
      <3>1. Onward /\ RowsOK' /\ TaskInv(t)'
        BY <1>0, <2>1, <2>3, OnwardSame DEF RowsOK, TaskInv, Earned
      <3> QED
        BY <2>1, <2>2, <2>3, <3>1, OpIdle, OneOp
    <2>4. CASE job[t][link[t]] \in Live \cup {"cancelled"} /\ job' = [job EXCEPT ![t][link[t]] = "cancelled"]
      <3>1. CASE link[t] = 0
        <4>1. job' = job
          BY <1>0, <2>4, <3>1, RunFacts DEF RowsOK
        <4> QED
          BY <4>1, <2>3
      <3>2. CASE link[t] # 0
        <4>1. PICK n \in Runs : n = link[t]
          BY <1>0, <3>2 DEF RowsOK
        <4>2. /\ job' = [job EXCEPT ![t][n] = "cancelled"] /\ "cancelled" \in JobStatus
              /\ job[t][n] \notin {"good", "escalated", "held", "absent"}
          BY <2>4, <4>1 DEF JobStatus, Live
        <4>3. /\ job' \in [Task -> [Runs -> JobStatus]] /\ job'[t][n] = "cancelled"
              /\ \A m \in Runs \ {n} : job'[t][m] = job[t][m]
              /\ \A u \in Task \ {t} : job'[u] = job[u]
              /\ done \subseteq done' /\ review' = review => Onward
          BY <1>0, <4>2, JobSet
        <4>4. Onward
          BY <2>1, <4>3
        <4>5. RowsOK'
          BY <1>0, <2>1, <4>3 DEF RowsOK
        <4>6. \A m \in Runs : job'[t][m] # "absent" => job[t][m] # "absent"
          BY <4>2, <4>3
        <4>7. TaskInv(t)'
          BY <1>0, <2>1, <4>4, <4>6, TaskKept
        <4> QED
          BY <2>1, <2>2, <4>3, <4>4, <4>5, <4>7, OpIdle, OneOp
      <3> QED
        BY <3>1, <3>2
    <2> QED
      BY <1>2, <2>3, <2>4 DEF CancelJob
  <1> QED
    BY <1>1, <1>2

\* A rerun is enqueued: the task has been tried, so its dependencies were complete.
LEMMA EnqueueRerunStep ==
    ASSUME GoalIInv, NEW t \in Task, reruns[t] < MaxReruns, CanRerun(t), EnqueueRerun(t),
           UNCHANGED <<goal, taskVars, reruns, reviewVars, pass>>
    PROVE  GoalIInv'
  <1>0. RowsOK /\ TaskInv(t) /\ UNCHANGED <<goal, task, result, link, done, reruns, review, plan, pass>>
    BY DEF GoalIInv, taskVars, reviewVars
  <1>1. PICK n \in Runs : n = reruns[t] + 2
    BY <1>0, GoalsAssumption DEF RowsOK, Runs
  <1>2. EnqueueRun(t, n) /\ op' = [NoOp EXCEPT !.kind = "link", !.left = {t}, !.run = n]
    BY <1>1 DEF EnqueueRerun
  <1>3. Deps[t] \subseteq done
    BY <1>0 DEF CanRerun, TaskInv, Earned
  <1>4. /\ job' \in [Task -> [Runs -> JobStatus]] /\ job'[t][n] # "absent" /\ Onward
        /\ \A u \in Task \ {t} : job'[u] = job[u]
        /\ \A m \in Runs : job[t][m] # "absent" => job'[t][m] = job[t][m]
    BY <1>0, <1>2, EnqueueFacts
  <1>5. RowsOK'
    BY <1>0, <1>4 DEF RowsOK
  <1>6. TaskInv(t)'
    <2>1. (\A q \in Runs : review[t][q] # "none" => job[t][q] \in {"escalated", "held"})'
      BY <1>0, <1>4 DEF TaskInv
    <2>2. Earned(t) => Earned(t)'
      BY <1>4, EarnedKept DEF Onward
    <2>3. task[t] # "running"
      BY DEF CanRerun
    <2> QED
      BY <1>0, <1>3, <2>1, <2>2, <2>3 DEF TaskInv
  <1>7. op' \in OpRecord /\ op'.kind = "link" /\ op'.left = {t} /\ op'.run = n
    BY <1>2, Records DEF OpRecord, NoOp
  <1>8. OpInv'
    BY <1>0, <1>4, <1>7 DEF OpInv
  <1> QED
    BY <1>0, <1>4, <1>5, <1>6, <1>7, <1>8, OneOp

\* A rerun: enqueued, noted on the task, and recorded.
LEMMA RerunSteps ==
    ASSUME GoalIInv, NEW t \in Task, Rerun(t) \/ ReleaseHeld(t) \/ RerunLink(t) \/ RerunEvent(t)
    PROVE  GoalIInv'
  <1>0. op \in OpRecord /\ RowsOK /\ TaskInv(t) /\ OpInv /\ NoOp.kind = "idle"
    BY DEF GoalIInv, CallersOK, NoOp
  <1>1. CASE Rerun(t)
    BY <1>1, EnqueueRerunStep DEF Rerun
  <1>2. CASE ReleaseHeld(t)
    <2>1. reruns[t] < MaxReruns
      BY <1>0, <1>2 DEF ReleaseHeld, OpInv
    <2>2. CASE CanRerun(t)
      BY <1>2, <2>1, <2>2, EnqueueRerunStep DEF ReleaseHeld
    <2>3. CASE ~CanRerun(t)
      <3>1. op' = NoOp /\ UNCHANGED <<goal, taskVars, reruns, job, review, plan, pass>>
        BY <1>2, <2>3 DEF ReleaseHeld, reviewVars
      <3> QED
        BY <1>0, <3>1, Records, OpIdle, OpOnly DEF RowsOK
    <2> QED
      BY <2>2, <2>3
  <1>3. CASE RerunLink(t)
    <2>1. PICK n \in Runs : n = op.run /\ job[t][n] # "absent" /\ reruns[t] < MaxReruns
      BY <1>0, <1>3 DEF RerunLink, OpInv
    <2>2. /\ SetTask(t, "running") /\ result' = result \ {t} /\ link' = [link EXCEPT ![t] = n]
          /\ op' = [op EXCEPT !.kind = "goal"] /\ op.kind = "link"
          /\ UNCHANGED <<goal, reruns, job, review, plan, pass>>
      BY <1>3, <2>1 DEF RerunLink, Goto, reviewVars
    <2>3. /\ task' \in [Task -> TaskStatus] /\ task'[t] = "running" /\ \A u \in Task \ {t} : task'[u] = task[u]
          /\ done' \subseteq Task /\ done \subseteq done'
      <3>1. "running" \in TaskStatus
        BY DEF TaskStatus
      <3> QED
        BY <1>0, <2>2, <3>1, SetTaskFacts
    <2>4. link' \in [Task -> Runs \cup {0}] /\ link'[t] = n /\ n # 0 /\ \A u \in Task \ {t} : link'[u] = link[u]
      BY <1>0, <2>2, RunFacts DEF RowsOK
    <2>5. Onward
      BY <2>2, <2>3, OnwardSame
    <2>6. RowsOK'
      BY <1>0, <2>2, <2>3, <2>4 DEF RowsOK
    <2>7. TaskInv(t)'
      BY <1>0, <2>1, <2>2, <2>3, <2>4 DEF TaskInv
    <2>8. op' \in OpRecord /\ op'.kind = "goal" /\ op'.left = op.left
      BY <1>0, <2>2 DEF OpRecord
    <2>9. OpInv'
      BY <1>0, <2>2, <2>8 DEF OpInv
    <2> QED
      BY <2>2, <2>3, <2>4, <2>5, <2>6, <2>7, <2>8, <2>9, OneOp
  <1>4. CASE RerunEvent(t)
    <2>1. reruns[t] < MaxReruns
      BY <1>0, <1>4 DEF RerunEvent, OpInv
    <2>2. reruns' = [reruns EXCEPT ![t] = @ + 1] /\ op' = NoOp /\ UNCHANGED <<goal, taskVars, job, review, plan, pass>>
      BY <1>4 DEF RerunEvent, reviewVars
    <2>3. reruns' \in [Task -> 0..MaxReruns]
      BY <1>0, <2>1, <2>2, GoalsAssumption DEF RowsOK
    <2> QED
      BY <1>0, <2>2, <2>3, Records, OpIdle, OpOnly DEF RowsOK
  <1> QED
    BY <1>1, <1>2, <1>3, <1>4

\* A review is decided, and its task closed.
LEMMA ReviewSteps ==
    ASSUME GoalIInv, NEW t \in Task,
           CloseReviewed(t) \/ \E n \in Runs, d \in {"approved", "rejected"} : Decide(t, n, d)
    PROVE  GoalIInv'
  <1>0. op \in OpRecord /\ RowsOK /\ TaskInv(t) /\ OpInv
    BY DEF GoalIInv, CallersOK
  <1>1. CASE CloseReviewed(t)
    <2>1. PICK s \in {"complete", "failed"} :
               /\ SetTask(t, s) /\ Deps[t] \subseteq done /\ (s = "complete" => Earned(t))
               /\ \E k \in {"start", "fail"} : op' = [op EXCEPT !.kind = k]
      BY <1>0, <1>1 DEF CloseReviewed, OpInv, Goto
    <2>2. UNCHANGED <<goal, result, link, reruns, job, review, plan, pass>>
      BY <1>1 DEF CloseReviewed, reviewVars
    <2>3. s \in TaskStatus
      BY DEF TaskStatus
    <2>4. /\ task' \in [Task -> TaskStatus] /\ task'[t] = s /\ \A u \in Task \ {t} : task'[u] = task[u]
          /\ done' \subseteq Task /\ done \subseteq done' /\ (s = "complete" => t \in done')
      BY <1>0, <2>1, <2>3, SetTaskFacts
    <2>5. Onward
      BY <2>2, <2>4, OnwardSame
    <2>6. RowsOK'
      BY <1>0, <2>2, <2>4 DEF RowsOK
    <2>7. TaskInv(t)'
      <3>1. s = "complete" => Earned(t)'
        BY <2>1, <2>5, EarnedKept DEF Onward
      <3> QED
        BY <1>0, <2>1, <2>2, <2>4, <3>1 DEF TaskInv
    <2>8. op' \in OpRecord /\ op'.kind \in {"start", "fail"}
      BY <1>0, <2>1 DEF OpRecord
    <2> QED
      BY <2>2, <2>4, <2>5, <2>6, <2>7, <2>8, OpIdle, OneOp
  <1>2. CASE \E n \in Runs, d \in {"approved", "rejected"} : Decide(t, n, d)
    <2>1. PICK n \in Runs, d \in {"approved", "rejected"} : Decide(t, n, d)
      BY <1>2
    <2>2. /\ review[t][n] = "pending" /\ review' = [review EXCEPT ![t][n] = d]
          /\ UNCHANGED <<goal, task, result, link, done, reruns, job, plan, pass>>
      BY <2>1 DEF Decide, taskVars
    <2>3. job[t][n] \in {"escalated", "held"} /\ Deps[t] \subseteq done
      BY <1>0, <2>2 DEF TaskInv
    <2>4. /\ review' \in [Task -> [Runs -> {"none", "pending", "approved", "rejected"}]]
          /\ review'[t][n] = d /\ \A m \in Runs \ {n} : review'[t][m] = review[t][m]
          /\ \A u \in Task \ {t} : review'[u] = review[u]
      BY <1>0, <2>2 DEF RowsOK
    <2>5. Onward
      BY <2>2, <2>4 DEF Onward, Forward
    <2>6. RowsOK'
      BY <1>0, <2>2, <2>4 DEF RowsOK
    <2>7. TaskInv(t)'
      <3>1. (\A q \in Runs : review[t][q] # "none" => job[t][q] \in {"escalated", "held"})'
        BY <1>0, <2>2, <2>3, <2>4 DEF TaskInv
      <3>2. Earned(t) => Earned(t)'
        BY <2>5, EarnedKept DEF Onward
      <3> QED
        BY <1>0, <2>2, <3>1, <3>2 DEF TaskInv
    <2>8. PICK k \in {"reject", "release", "approve"} :
               /\ op' = [NoOp EXCEPT !.left = {t}, !.kind = k]
               /\ k = "release" => reruns[t] < MaxReruns
               /\ k = "approve" => d = "approved" /\ job[t][n] = "escalated"
      BY <2>1, <2>3 DEF Decide
    <2>9. op' \in OpRecord /\ op'.kind = k /\ op'.left = {t}
      BY <2>8, Records DEF OpRecord, NoOp
    <2>10. k = "approve" => Earned(t)'
      BY <2>2, <2>4, <2>8 DEF Earned
    <2>11. OpInv'
      BY <2>2, <2>3, <2>8, <2>9, <2>10 DEF OpInv
    <2> QED
      BY <2>2, <2>4, <2>5, <2>6, <2>7, <2>9, <2>11, OneOp
  <1> QED
    BY <1>1, <1>2

\* What the workers and the publisher do.
LEMMA WorkSteps ==
    ASSUME GoalIInv, Work
    PROVE  GoalIInv'
  <1>0. op \in OpRecord /\ RowsOK /\ OpInv /\ CallersOK /\ \A t \in Task : TaskInv(t)
    BY DEF GoalIInv, CallersOK
  <1>1. PICK t \in Task, n \in Runs :
            \/ JobStarts(t, n) \/ JobRequeued(t, n) \/ JobCancelled(t, n)
            \/ PublishReview(t, n)
            \/ \E o \in Outcome : JobEnds(t, n, o)
    BY DEF Work
  <1>2. UNCHANGED <<goal, task, result, link, done, reruns, plan, pass, op>>
    BY <1>1 DEF JobStarts, JobRequeued, JobCancelled, PublishReview, JobEnds, taskVars, reviewVars
  <1>3. CASE PublishReview(t, n)
    <2>1. /\ review' = [review EXCEPT ![t][n] = "pending"] /\ job' = job /\ review[t][n] = "none"
          /\ job[t][n] \in {"escalated", "held"}
      BY <1>3 DEF PublishReview
    <2>2. /\ review' \in [Task -> [Runs -> {"none", "pending", "approved", "rejected"}]]
          /\ review'[t][n] = "pending" /\ \A m \in Runs \ {n} : review'[t][m] = review[t][m]
          /\ \A u \in Task \ {t} : review'[u] = review[u]
      BY <1>0, <2>1 DEF RowsOK
    <2>3. Onward
      BY <1>2, <2>1, <2>2 DEF Onward, Forward
    <2>4. RowsOK'
      BY <1>0, <1>2, <2>1, <2>2 DEF RowsOK
    <2>5. TaskInv(t)'
      <3>1. (\A q \in Runs : review[t][q] # "none" => job[t][q] \in {"escalated", "held"})'
        BY <1>0, <2>1, <2>2 DEF TaskInv
      <3>2. Earned(t) => Earned(t)'
        BY <2>3, EarnedKept DEF Onward
      <3> QED
        BY <1>0, <1>2, <2>1, <3>1, <3>2 DEF TaskInv
    <2>6. OpInv'
      BY <1>0, <1>2, <2>3, OpKept
    <2> QED
      BY <1>0, <1>2, <2>1, <2>2, <2>3, <2>4, <2>5, <2>6, OneOp
  <1>4. CASE ~PublishReview(t, n)
    <2>1. PICK s \in JobStatus : /\ s # "absent" /\ job' = [job EXCEPT ![t][n] = s]
                                 /\ job[t][n] \in Live /\ review' = review
      BY <1>1, <1>4 DEF JobStarts, JobRequeued, JobCancelled, JobEnds, reviewVars, JobStatus, Live, Outcome
    <2>2. /\ job[t][n] # "absent" => s # "absent"
          /\ job[t][n] \in {"good", "escalated", "held"} => s = job[t][n]
          /\ job[t][n] # "absent"
      BY <2>1 DEF Live
    <2>3. /\ job' \in [Task -> [Runs -> JobStatus]] /\ job'[t][n] = s
          /\ \A m \in Runs \ {n} : job'[t][m] = job[t][m]
          /\ \A u \in Task \ {t} : job'[u] = job[u]
          /\ done \subseteq done' /\ review' = review => Onward
      BY <1>0, <2>1, <2>2, JobSet
    <2>4. Onward
      BY <1>2, <2>1, <2>3
    <2>5. RowsOK'
      BY <1>0, <1>2, <2>1, <2>3 DEF RowsOK
    <2>6. \A m \in Runs : job'[t][m] # "absent" => job[t][m] # "absent"
      BY <2>2, <2>3
    <2>7. TaskInv(t)'
      BY <1>0, <1>2, <2>1, <2>4, <2>6, TaskKept
    <2>8. OpInv'
      BY <1>0, <1>2, <2>4, OpKept
    <2> QED
      BY <1>0, <1>2, <2>1, <2>3, <2>4, <2>5, <2>7, <2>8, OneOp
  <1> QED
    BY <1>3, <1>4

-----------------------------------------------------------------------------
\* A planned goal has no jobs.
LEMMA InitGoalIInv == Init => GoalIInv
  <1> SUFFICES ASSUME Init PROVE GoalIInv
    OBVIOUS
  <1>1. RowsOK
    <2>1. task \in [Task -> TaskStatus] /\ link \in [Task -> Runs \cup {0}]
      BY DEF Init, NoSnap, TaskStatus
    <2>2. reruns \in [Task -> 0..MaxReruns]
      BY GoalsAssumption DEF Init
    <2>3. job \in [Task -> [Runs -> JobStatus]]
      BY DEF Init, JobStatus
    <2>4. review \in [Task -> [Runs -> {"none", "pending", "approved", "rejected"}]]
      BY DEF Init
    <2> QED
      BY <2>1, <2>2, <2>3, <2>4 DEF Init, RowsOK
  <1>2. CallersOK
    BY Records DEF Init, CallersOK
  <1>3. ASSUME NEW t \in Task PROVE TaskInv(t)
    <2>1. task[t] = "pending"
      BY DEF Init, NoSnap
    <2>2. \A r \in Runs : job[t][r] = "absent" /\ review[t][r] = "none"
      BY DEF Init
    <2> QED
      BY <2>1, <2>2 DEF TaskInv
  <1>4. ASSUME NEW r \in Reconciler PROVE PassInv(r)
    <2>1. pass[r].snap = NoSnap /\ pass[r].pc = "idle"
      BY DEF Init, Idle
    <2> QED
      BY <2>1 DEF PassInv, NoSnap
  <1>5. OpInv
    BY DEF Init, NoOp, OpInv
  <1> QED
    BY <1>1, <1>2, <1>3, <1>4, <1>5 DEF GoalIInv

\* GoalIInv is inductive.
LEMMA NextGoalIInv == GoalIInv /\ [Next]_vars => GoalIInv'
  <1> SUFFICES ASSUME GoalIInv, [Next]_vars PROVE GoalIInv'
    OBVIOUS
  <1>1. CASE UNCHANGED vars
    <2>1. /\ UNCHANGED <<goal, taskVars, reruns, job, review, plan, pass, op>> /\ RowsOK /\ CallersOK /\ OpInv
          /\ UNCHANGED <<job, review, done>>
      BY <1>1 DEF vars, reviewVars, taskVars, GoalIInv
    <2>2. OpInv'
      BY <2>1, OpKept, OnwardSame
    <2> QED
      BY <2>1, <2>2, OpOnly DEF RowsOK, CallersOK
  <1>2. ASSUME NEW r \in Reconciler, Reconcile(r) \/ WorkerCrash(r) \/ Restart(r) PROVE GoalIInv'
    BY <1>2, ReadingSteps, SettleStep, BlockStep, SubmitStep, LinkStep DEF Reconcile
  <1>3. CASE Request
    BY <1>3, GoalSteps, RerunSteps, ReviewSteps DEF Request
  <1>4. CASE Operate
    BY <1>4, GoalSteps, ApiSteps, CancelSteps, RerunSteps, ReviewSteps DEF Operate
  <1>5. CASE ApiCrash
    BY <1>5, ApiSteps
  <1>6. CASE Work
    BY <1>6, WorkSteps
  <1> QED
    BY <1>1, <1>2, <1>3, <1>4, <1>5, <1>6 DEF Next

\* Although every pass and every call acts on rows that others may have changed
\* since it read them, and dies anywhere, a task is handed to the workers only
\* after its dependencies, a running task has a job, and a complete one earned
\* it (coordinator.py, reconcile and rerun).
THEOREM GoalsKeepOrder == Spec => []GoalInv
  <1>1. GoalIInv => GoalInv
    <2> SUFFICES ASSUME GoalIInv PROVE GoalInv
      OBVIOUS
    <2>1. TypeOK
      BY DEF GoalIInv, RowsOK, CallersOK, PassRecord, OpRecord, TaskStatus, JobStatus, TypeOK
    <2>2. DependenciesFirst /\ RunningHasJob
      BY DEF GoalIInv, TaskInv, DependenciesFirst, RunningHasJob
    <2>3. CompletionEarned
      BY DEF GoalIInv, TaskInv, Earned, CompletionEarned
    <2> QED
      BY <2>1, <2>2, <2>3 DEF GoalInv
  <1> QED
    BY InitGoalIInv, NextGoalIInv, <1>1, PTL DEF Spec

-----------------------------------------------------------------------------
(* Calls that do not overlap, in a process that does not die.  CancelStopsWork *)
(* and RunsTidy need what the caller at work has read: that it is still so.  *)

Active(r) == pass[r].pc \notin {"idle", "dead"}

\* One caller at a time, and a process at rest remembers nothing.
OneCaller ==
    /\ op.kind = "idle" => op = NoOp
    /\ \A r \in Reconciler : /\ pass[r].pc = "idle" => pass[r] = Idle
                             /\ pass[r].pc = "dead" => pass[r] = Dead
                             /\ Active(r) => op.kind = "idle"
    /\ \A r, q \in Reconciler : Active(r) /\ Active(q) => r = q

\* The goal's row, by who is at work on it.
GoalPlace ==
    /\ \A r \in Reconciler : Active(r) => goal = "running"
    /\ op.kind \in {"pause", "event"} => goal = "running"
    /\ op.kind \in {"run", "cancel", "job", "close"} => goal \notin {"cancelled", "complete"}
    /\ goal = "cancelled" => \A t \in Task : task[t] = "running" => op.kind = "goal" /\ t \in op.left
    /\ goal = "complete" => \A t \in Task : task[t] = "complete" \/ (op.kind \in {"goal", "fail"} /\ t \in op.left)

\* A cancellation has read every open task and looks at one of them at a time.
CancelPlace ==
    op.kind \in {"cancel", "job", "close"} =>
        /\ \A t \in Task : task[t] = "running" => t \in op.left
        /\ \A t \in op.left : task[t] \in {"running", "pending"} /\ op.snap[t] \in {task[t], "next"}
        /\ \A t \in Task : op.snap[t] = "next" => t \in op.left /\ op.kind # "cancel"
        /\ \A t, u \in Task : op.snap[t] = "next" /\ op.snap[u] = "next" => t = u
        /\ \A t \in Task : op.snap[t] = "next" /\ op.kind = "job" => link[t] # 0
        /\ \A t \in Task : op.snap[t] = "next" /\ op.kind = "close" /\ link[t] # 0 => job[t][link[t]] \notin Live

\* A rerun is numbered by the events before it.
RerunPlace ==
    /\ op.kind \in {"link", "goal", "event"} => \A t, u \in op.left : t = u
    /\ \A t \in op.left :
          /\ op.kind \in {"link", "goal", "event"} => op.run = reruns[t] + 2
          /\ op.kind = "link" => task[t] \in {"failed", "escalated", "complete"}
          /\ op.kind \in {"goal", "event"} => link[t] = op.run
    /\ op.kind \in {"approve", "reject", "release"} => ~Undecided

\* The rerun of t is at one of these places.
Rerunning(t, kinds) == op.kind \in kinds /\ t \in op.left

\* What can run for a task.
LiveRuns(t) == {n \in Runs : job[t][n] \in Live}

RowTidy(t) ==
    /\ task[t] = "pending" => link[t] = 0 /\ \A n \in Runs \ {1} : job[t][n] = "absent"
    /\ task[t] = "blocked" => link[t] = 0
    /\ task[t] = "cancelled" /\ link[t] # 0 => job[t][link[t]] \notin Live
    /\ link[t] <= reruns[t] + 1 \/ Rerunning(t, {"goal", "event"})
    /\ job[t][1] # "absent" => t \notin Unresolvable
    /\ Undecided =>
          /\ task[t] = "complete" => t \in result
          /\ task[t] = "running" => LiveRuns(t) \subseteq {link[t]}
          /\ task[t] \in {"failed", "escalated", "complete"} =>
                \A n \in LiveRuns(t) : Rerunning(t, {"link"}) /\ n = op.run
          /\ \A n, m \in LiveRuns(t) : n = m

\* What a pass has read is still so.
PassTidy(r) ==
    /\ pass[r].pc = "settle" => \A t \in pass[r].left : task[t] = "running"
    /\ pass[r].pc = "block" =>
          \A t \in Task : pass[r].snap[t] # "submitted" /\ (pass[r].snap[t] = "pending" => task[t] = "pending")
    /\ pass[r].pc \in {"submit", "link"} =>
          /\ \A t \in pass[r].left : task[t] = "pending" /\ pass[r].snap[t] # "submitted"
          /\ \A t \in Task : pass[r].snap[t] = "submitted" => task[t] = "pending"
    /\ (pass[r].pc \in {"block", "submit", "link"} /\ Undecided) =>
          \A t \in Task : pass[r].snap[t] = "complete" => t \in pass[r].res

TidyInv ==
    /\ OneCaller /\ GoalPlace /\ CancelPlace /\ RerunPlace
    /\ \A t \in Task : RowTidy(t)
    /\ \A r \in Reconciler : PassTidy(r)

-----------------------------------------------------------------------------
(* What a step leaves tidy.                                                 *)

\* A process at rest.
LEMMA RestFacts ==
    /\ Idle.pc = "idle" /\ Dead.pc = "dead"
    /\ NoOp.kind = "idle" /\ NoOp.left = {} /\ NoOp.run = 0
  BY DEF Idle, Dead, NoOp

\* The call goes on elsewhere and remembers the same.
LEMMA GotoFacts ==
    ASSUME op \in OpRecord, NEW k, Goto(k)
    PROVE  op'.kind = k /\ op'.left = op.left /\ op'.run = op.run /\ op'.snap = op.snap
  BY DEF Goto, OpRecord

\* A row that does not change stays tidy, whatever becomes of its jobs.
LEMMA RowKeptOn ==
    ASSUME NEW t \in Task, RowTidy(t), link[t] \in Runs \cup {0},
           task'[t] = task[t], link'[t] = link[t], reruns'[t] = reruns[t],
           Undecided' => Undecided, t \in result => t \in result',
           \A n \in Runs : job'[t][n] \in Live => job[t][n] \in Live,
           \A n \in Runs : job'[t][n] = "absent" <=> job[t][n] = "absent",
           Rerunning(t, {"goal", "event"}) => Rerunning(t, {"goal", "event"})',
           Rerunning(t, {"link"}) => Rerunning(t, {"link"})' /\ op'.run = op.run
    PROVE  RowTidy(t)'
  <1>1. LiveRuns(t)' \subseteq LiveRuns(t)
    BY DEF LiveRuns
  <1>2. (task[t] = "pending" => link[t] = 0 /\ \A n \in Runs \ {1} : job[t][n] = "absent")'
    BY DEF RowTidy
  <1>3. (task[t] = "cancelled" /\ link[t] # 0 => job[t][link[t]] \notin Live)'
    BY DEF RowTidy
  <1>4. (job[t][1] # "absent" => t \notin Unresolvable)'
    BY RunFacts DEF RowTidy
  <1>5. (Undecided =>
          /\ task[t] = "complete" => t \in result
          /\ task[t] = "running" => LiveRuns(t) \subseteq {link[t]}
          /\ task[t] \in {"failed", "escalated", "complete"} =>
                \A n \in LiveRuns(t) : Rerunning(t, {"link"}) /\ n = op.run
          /\ \A n, m \in LiveRuns(t) : n = m)'
    BY <1>1 DEF RowTidy
  <1>6. (link[t] <= reruns[t] + 1 \/ Rerunning(t, {"goal", "event"}))' /\ (task[t] = "blocked" => link[t] = 0)'
    BY DEF RowTidy
  <1> QED
    BY <1>2, <1>3, <1>4, <1>5, <1>6 DEF RowTidy

\* A row that does not change stays tidy, while a rerun of it waits.
LEMMA RowKept ==
    ASSUME NEW t \in Task, RowTidy(t), link[t] \in Runs \cup {0},
           task'[t] = task[t], link'[t] = link[t], reruns'[t] = reruns[t],
           Undecided' => Undecided, t \in result => t \in result',
           \A n \in Runs : job'[t][n] \in Live => job[t][n] \in Live,
           \A n \in Runs : job'[t][n] = "absent" <=> job[t][n] = "absent",
           Rerunning(t, {"link", "goal", "event"}) => op' = op
    PROVE  RowTidy(t)'
  <1>1. /\ Rerunning(t, {"goal", "event"}) => Rerunning(t, {"goal", "event"})'
        /\ Rerunning(t, {"link"}) => Rerunning(t, {"link"})' /\ op'.run = op.run
    BY DEF Rerunning
  <1> QED
    BY <1>1, RowKeptOn

\* A pass that does not act on what it read has nothing to keep.
LEMMA PassAtRest ==
    ASSUME NEW r \in Reconciler, pass'[r].pc \in {"idle", "dead", "begin", "pause"}
    PROVE  PassTidy(r)'
  BY DEF PassTidy

\* A step of pass r while no other caller is at work.
LEMMA TidyPassStep ==
    ASSUME NEW r \in Reconciler, TidyInv, op' = op, op.kind = "idle",
           \A q \in Reconciler \ {r} : ~Active(q) /\ pass'[q] = pass[q],
           pass'[r].pc = "idle" => pass'[r] = Idle, pass'[r].pc = "dead" => pass'[r] = Dead,
           Active(r)' => goal' = "running",
           goal' = "cancelled" => \A t \in Task : task'[t] # "running",
           goal' = "complete" => \A t \in Task : task'[t] = "complete",
           \A t \in Task : RowTidy(t)', PassTidy(r)'
    PROVE  TidyInv'
  <1>1. \A q \in Reconciler \ {r} : ~Active(q)'
    BY DEF Active
  <1>2. OneCaller'
    BY <1>1 DEF TidyInv, OneCaller
  <1>3. GoalPlace'
    BY <1>1 DEF GoalPlace
  <1>4. CancelPlace' /\ RerunPlace'
    <2>1. op = NoOp
      BY DEF TidyInv, OneCaller
    <2> QED
      BY <2>1, RestFacts DEF CancelPlace, RerunPlace
  <1>5. ASSUME NEW q \in Reconciler PROVE PassTidy(q)'
    <2>1. CASE q = r
      BY <2>1
    <2>2. CASE q # r
      <3>1. pass'[q].pc \in {"idle", "dead"}
        BY <2>2 DEF Active
      <3> QED
        BY <3>1, PassAtRest
    <2> QED
      BY <2>1, <2>2
  <1> QED
    BY <1>2, <1>3, <1>4, <1>5 DEF TidyInv

\* A step of the API's call while no pass is at work.
LEMMA TidyOpStep ==
    ASSUME TidyInv, \A r \in Reconciler : ~Active(r), pass' = pass, op'.kind = "idle" => op' = NoOp,
           GoalPlace', CancelPlace', RerunPlace', \A t \in Task : RowTidy(t)'
    PROVE  TidyInv'
  <1>1. \A r \in Reconciler : ~Active(r)'
    BY DEF Active
  <1>2. OneCaller'
    BY <1>1 DEF TidyInv, OneCaller
  <1>3. \A r \in Reconciler : PassTidy(r)'
    <2>1. \A r \in Reconciler : pass'[r].pc \in {"idle", "dead"}
      BY <1>1 DEF Active
    <2> QED
      BY <2>1, PassAtRest
  <1> QED
    BY <1>2, <1>3 DEF TidyInv

\* Who is at work when a call begins, or a step of it is taken.
LEMMA AtWork ==
    ASSUME GoalIInv, TidyInv, ~Overlap
    PROVE  /\ Quiet => op = NoOp /\ \A r \in Reconciler : ~Active(r)
           /\ op.kind # "idle" => \A r \in Reconciler : ~Active(r)
           /\ \A r \in Reconciler : Active(r) => /\ op = NoOp /\ goal = "running"
                                                 /\ \A q \in Reconciler \ {r} : ~Active(q)
  <1>1. Quiet => op = NoOp /\ \A r \in Reconciler : ~Active(r)
    BY RestFacts DEF Quiet, Active
  <1> QED
    BY <1>1 DEF TidyInv, OneCaller, GoalPlace

\* The rows do not change.
LEMMA RowsSame ==
    ASSUME GoalIInv, TidyInv, UNCHANGED <<taskVars, reruns, job, review>>,
           op' = op \/ op.kind \notin {"link", "goal", "event"}
    PROVE  \A t \in Task : RowTidy(t)'
  <1>1. UNCHANGED <<task, result, link, done>>
    BY DEF taskVars
  <1>2. Undecided' => Undecided
    BY DEF Undecided
  <1>3. \A t \in Task : RowTidy(t) /\ link[t] \in Runs \cup {0}
    BY DEF TidyInv, GoalIInv, RowsOK
  <1>4. \A t \in Task : Rerunning(t, {"link", "goal", "event"}) => op' = op
    BY DEF Rerunning
  <1> QED
    BY <1>1, <1>2, <1>3, <1>4, RowKept

\* The steps of a pass that read, or close the goal, or end the pass.
LEMMA TidyReading ==
    ASSUME GoalIInv, TidyInv, ~Overlap, NEW r \in Reconciler,
           BeginPass(r) \/ EndSettle(r) \/ EndBlock(r) \/ PauseForReview(r) \/ Finish(r) \/ WorkerCrash(r)
    PROVE  TidyInv'
  <1>0. /\ pass \in [Reconciler -> PassRecord] /\ pass[r] \in PassRecord /\ PassTidy(r) /\ RowsOK
        /\ UNCHANGED <<task, result>>
    BY DEF GoalIInv, CallersOK, TidyInv, taskVars, BeginPass, EndSettle, EndBlock, PauseForReview, Finish, WorkerCrash
  <1>1. UNCHANGED <<taskVars, reruns, job, review, op>>
    BY DEF BeginPass, EndSettle, EndBlock, PauseForReview, Finish, WorkerCrash, reviewVars
  <1>2. \A t \in Task : RowTidy(t)'
    BY <1>1, RowsSame
  <1>3. Active(r) \/ (BeginPass(r) /\ r # Api /\ Quiet /\ goal = "running")
    <2>1. CASE WorkerCrash(r)
      BY <2>1, <1>0 DEF WorkerCrash, TidyInv, OneCaller, Active
    <2>2. CASE ~WorkerCrash(r)
      BY <2>2 DEF BeginPass, EndSettle, EndBlock, PauseForReview, Finish, Active
    <2> QED
      BY <2>1, <2>2
  <1>4. op = NoOp /\ goal = "running" /\ \A q \in Reconciler \ {r} : ~Active(q)
    BY <1>3, AtWork
  <1>5. op.kind = "idle" /\ op' = op
    BY <1>1, <1>4, RestFacts
  <1>6. CASE BeginPass(r)
    <2> DEFINE p == [Idle EXCEPT !.pc = "settle", !.left = {t \in Task : task[t] = "running"}]
    <2>1. p.pc = "settle" /\ p.left = {t \in Task : task[t] = "running"}
      BY DEF Idle
    <2>2. pass' = [pass EXCEPT ![r] = p] /\ goal' = goal
      BY <1>4, <1>6 DEF BeginPass
    <2>3. pass'[r] = p /\ \A q \in Reconciler \ {r} : pass'[q] = pass[q]
      BY <1>0, <2>2
    <2>4. PassTidy(r)'
      BY <1>0, <2>1, <2>3 DEF PassTidy
    <2> QED
      BY <1>2, <1>4, <1>5, <2>1, <2>2, <2>3, <2>4, TidyPassStep
  <1>7. CASE EndSettle(r)
    <2>1. /\ pass'[r].pc = "block" /\ pass'[r].snap = task /\ pass'[r].res = result
          /\ \A q \in Reconciler \ {r} : pass'[q] = pass[q] /\ goal' = goal
      BY <1>0, <1>7 DEF EndSettle, PassRecord
    <2>2. PassTidy(r)'
      <3>1. \A t \in Task : task[t] # "submitted" /\ (Undecided /\ task[t] = "complete" => t \in result)
        BY <1>0 DEF RowsOK, TaskStatus, TidyInv, RowTidy
      <3>2. Undecided' => Undecided
        BY <1>1 DEF Undecided
      <3> QED
        BY <1>0, <2>1, <3>1, <3>2 DEF PassTidy
    <2>3. goal' = goal
      BY <1>7 DEF EndSettle
    <2> QED
      BY <1>2, <1>4, <1>5, <2>1, <2>2, <2>3, TidyPassStep
  <1>8. CASE EndBlock(r)
    <2> DEFINE open == {t \in Task : task[t] = "pending"}
    <2>1. pass' = [pass EXCEPT ![r].pc = "submit", ![r].slots = Slots, ![r].left = open]
      BY <1>8 DEF EndBlock
    <2>2. /\ pass'[r].pc = "submit" /\ pass'[r].left = open
          /\ pass'[r].snap = pass[r].snap /\ pass'[r].res = pass[r].res
          /\ \A q \in Reconciler \ {r} : pass'[q] = pass[q]
      BY <1>0, <2>1 DEF PassRecord
    <2>3. PassTidy(r)'
      <3>1. pass[r].pc = "block"
        BY <1>8 DEF EndBlock
      <3>2. Undecided' => Undecided
        BY <1>1 DEF Undecided
      <3> QED
        BY <1>0, <2>2, <3>1, <3>2 DEF PassTidy
    <2>4. goal' = goal
      BY <1>8 DEF EndBlock
    <2> QED
      BY <1>2, <1>4, <1>5, <2>2, <2>3, <2>4, TidyPassStep
  <1>9. CASE PauseForReview(r) \/ Finish(r) \/ WorkerCrash(r)
    <2>1. PICK p \in {Idle, Dead} : pass' = [pass EXCEPT ![r] = p]
      BY <1>9 DEF PauseForReview, Finish, WorkerCrash
    <2>2. pass'[r] \in {Idle, Dead} /\ \A q \in Reconciler \ {r} : pass'[q] = pass[q]
      BY <1>0, <2>1
    <2>3. pass'[r].pc \in {"idle", "dead"} /\ (pass'[r].pc = "idle" => pass'[r] = Idle) /\ (pass'[r].pc = "dead" => pass'[r] = Dead)
      BY <2>2, RestFacts
    <2>4. goal' # "cancelled" /\ (goal' = "complete" => \A t \in Task : task'[t] = "complete")
      BY <1>0, <1>4, <1>9 DEF PauseForReview, Finish, WorkerCrash
    <2>5. ~Active(r)' /\ PassTidy(r)'
      BY <2>3, PassAtRest DEF Active
    <2> QED
      BY <1>2, <1>4, <1>5, <2>2, <2>3, <2>4, <2>5, TidyPassStep
  <1> QED
    BY <1>6, <1>7, <1>8, <1>9

\* A process that died comes back.
LEMMA TidyRestart ==
    ASSUME GoalIInv, TidyInv, NEW r \in Reconciler, Restart(r)
    PROVE  TidyInv'
  <1>0. pass \in [Reconciler -> PassRecord]
    BY DEF GoalIInv, CallersOK
  <1>1. /\ UNCHANGED <<taskVars, reruns, job, review, op, goal>> /\ UNCHANGED <<task, link, result, reruns, job, review, op>>
        /\ pass' = [pass EXCEPT ![r] = Idle] /\ pass[r] = Dead
    BY DEF Restart, reviewVars, taskVars
  <1>2. \A q \in Reconciler : IF q = r THEN pass'[q] = Idle ELSE pass'[q] = pass[q]
    BY <1>0, <1>1
  <1>3. \A q \in Reconciler : Active(q)' <=> Active(q)
    BY <1>1, <1>2, RestFacts DEF Active
  <1>4. \A t \in Task : RowTidy(t)'
    BY <1>1, RowsSame
  <1>5. OneCaller'
    BY <1>1, <1>2, <1>3, RestFacts DEF TidyInv, OneCaller
  <1>6. GoalPlace'
    BY <1>1, <1>3 DEF TidyInv, GoalPlace
  <1>7. CancelPlace' /\ RerunPlace'
    BY <1>1 DEF TidyInv, CancelPlace, RerunPlace, Undecided
  <1>8. ASSUME NEW q \in Reconciler PROVE PassTidy(q)'
    <2>1. CASE q = r
      BY <1>2, <2>1, RestFacts, PassAtRest
    <2>2. CASE q # r
      BY <1>1, <1>2, <2>2 DEF TidyInv, PassTidy, Undecided
    <2> QED
      BY <2>1, <2>2
  <1> QED
    BY <1>4, <1>5, <1>6, <1>7, <1>8 DEF TidyInv

\* A step of pass r that changes the row of task t.
LEMMA TidyTaskStep ==
    ASSUME GoalIInv, TidyInv, ~Overlap, NEW r \in Reconciler, NEW t \in Task, Active(r),
           UNCHANGED <<op, goal, reruns, review>>, pass'[r].pc \notin {"idle", "dead"},
           \A q \in Reconciler \ {r} : pass'[q] = pass[q],
           \A u \in Task \ {t} : /\ task'[u] = task[u] /\ link'[u] = link[u] /\ job'[u] = job[u]
                                 /\ u \in result => u \in result',
           RowTidy(t)', PassTidy(r)'
    PROVE  TidyInv'
  <1>1. op = NoOp /\ goal = "running" /\ \A q \in Reconciler \ {r} : ~Active(q)
    BY AtWork
  <1>2. op.kind = "idle"
    BY <1>1, RestFacts
  <1>3. Undecided' => Undecided
    BY DEF Undecided
  <1>4. ASSUME NEW u \in Task \ {t} PROVE RowTidy(u)'
    <2>1. RowTidy(u) /\ link[u] \in Runs \cup {0}
      BY DEF TidyInv, GoalIInv, RowsOK
    <2> QED
      BY <1>3, <2>1, RowKept
  <1>5. \A u \in Task : RowTidy(u)'
    BY <1>4
  <1> QED
    BY <1>1, <1>2, <1>5, TidyPassStep

\* A task that was running is settled by the verdict on its job.
LEMMA TidySettle ==
    ASSUME GoalIInv, TidyInv, ~Overlap, NEW r \in Reconciler, NEW t \in Task, Settle(r, t)
    PROVE  TidyInv'
  <1>0. /\ pass \in [Reconciler -> PassRecord] /\ pass[r] \in PassRecord /\ PassTidy(r) /\ RowsOK
        /\ TaskInv(t) /\ RowTidy(t) /\ Active(r) /\ pass[r].pc = "settle" /\ t \in pass[r].left
    BY DEF GoalIInv, CallersOK, TidyInv, Settle, Active
  <1>1. task[t] = "running" /\ link[t] \in Runs /\ link[t] # 0 /\ job[t][link[t]] # "absent" /\ job[t][link[t]] \in JobStatus
    BY <1>0 DEF PassTidy, TaskInv, RowsOK
  <1>2. PICK v \in {"complete", "escalated", "failed", "running"} :
             v = Verdict(job[t][link[t]]) /\ (v # "running" => job[t][link[t]] \notin Live)
    BY <1>1 DEF Verdict, JobStatus, Live, Outcome
  <1>3. /\ IF v = "running" THEN UNCHANGED <<task, done>> ELSE SetTask(t, v)
        /\ result' = IF v \in {"complete", "escalated"} THEN result \cup {t} ELSE result
        /\ pass' = [pass EXCEPT ![r] =
              IF v = "escalated" THEN [@ EXCEPT !.pc = "pause", !.left = {}]
              ELSE [@ EXCEPT !.left = pass[r].left \ {t}]]
        /\ UNCHANGED <<goal, reruns, job, review, op, link>>
    BY <1>1, <1>2 DEF Settle, reviewVars
  <1>4. task'[t] = v /\ \A u \in Task \ {t} : task'[u] = task[u]
    BY <1>0, <1>1, <1>3 DEF SetTask, RowsOK
  <1>5. RowTidy(t)'
    <2>1. CASE v = "running"
      BY <1>0, <1>1, <1>3, <1>4, <2>1, RowKept DEF Undecided
    <2>2. CASE v # "running"
      <3>1. Undecided' => Undecided /\ LiveRuns(t)' = {}
        BY <1>0, <1>1, <1>2, <1>3, <2>2 DEF Undecided, RowTidy, LiveRuns
      <3>2. Undecided' /\ v = "complete" => t \in result'
        BY <1>3
      <3>3. ~Rerunning(t, {"goal", "event"})
        BY <1>0, AtWork, RestFacts DEF Rerunning
      <3> QED
        BY <1>0, <1>2, <1>3, <1>4, <2>2, <3>1, <3>2, <3>3 DEF RowTidy
    <2> QED
      BY <2>1, <2>2
  <1>6. /\ \A q \in Reconciler \ {r} : pass'[q] = pass[q]
        /\ pass'[r].pc = "pause" \/ (pass'[r].pc = "settle" /\ pass'[r].left = pass[r].left \ {t})
    BY <1>0, <1>3 DEF PassRecord
  <1>7. PassTidy(r)'
    <2>1. CASE pass'[r].pc = "pause"
      BY <2>1, PassAtRest
    <2>2. CASE pass'[r].pc = "settle" /\ pass'[r].left = pass[r].left \ {t}
      <3>1. pass[r].left \subseteq Task
        BY <1>0 DEF PassRecord
      <3> QED
        BY <1>0, <1>4, <2>2, <3>1 DEF PassTidy
    <2> QED
      BY <1>6, <2>1, <2>2
  <1>8. \A u \in Task \ {t} : /\ task'[u] = task[u] /\ link'[u] = link[u] /\ job'[u] = job[u]
                              /\ u \in result => u \in result'
    BY <1>3, <1>4
  <1>9. UNCHANGED <<op, goal, reruns, review>> /\ pass'[r].pc \notin {"idle", "dead"}
    BY <1>3, <1>6
  <1> QED
    BY <1>0, <1>5, <1>6, <1>7, <1>8, <1>9, TidyTaskStep

\* A task behind a failed one is blocked before it has a job of its own.
LEMMA TidyBlock ==
    ASSUME GoalIInv, TidyInv, ~Overlap, NEW r \in Reconciler, NEW t \in Task, Block(r, t)
    PROVE  TidyInv'
  <1>0. /\ pass \in [Reconciler -> PassRecord] /\ pass[r] \in PassRecord /\ PassTidy(r) /\ RowsOK
        /\ RowTidy(t) /\ Active(r) /\ pass[r].pc = "block" /\ pass[r].snap[t] = "pending"
    BY DEF GoalIInv, CallersOK, TidyInv, Block, Blockable, Active
  <1>1. task[t] = "pending" /\ link[t] = 0 /\ \A n \in Runs \ {1} : job[t][n] = "absent"
    BY <1>0 DEF PassTidy, RowTidy
  <1>2. /\ SetTask(t, "blocked") /\ pass' = [pass EXCEPT ![r].snap[t] = "blocked"]
        /\ UNCHANGED <<goal, result, link, reruns, job, review, op>>
    BY DEF Block, reviewVars
  <1>3. task'[t] = "blocked" /\ \A u \in Task \ {t} : task'[u] = task[u]
    BY <1>0, <1>2 DEF SetTask, RowsOK
  <1>4. RowTidy(t)'
    <2>1. LiveRuns(t)' = LiveRuns(t) /\ (Undecided' => Undecided)
      BY <1>2 DEF LiveRuns, Undecided
    <2> QED
      BY <1>0, <1>1, <1>2, <1>3, <2>1 DEF RowTidy, Rerunning
  <1>5. /\ \A q \in Reconciler \ {r} : pass'[q] = pass[q]
        /\ pass'[r].pc = "block" /\ pass'[r].res = pass[r].res /\ pass'[r].snap[t] = "blocked"
        /\ \A u \in Task \ {t} : pass'[r].snap[u] = pass[r].snap[u]
    BY <1>0, <1>2 DEF PassRecord
  <1>6. PassTidy(r)'
    <2>1. Undecided' => Undecided
      BY <1>2 DEF Undecided
    <2> QED
      BY <1>0, <1>3, <1>5, <2>1 DEF PassTidy
  <1>7. UNCHANGED <<op, goal, reruns, review>>
    BY <1>2
  <1>8. \A u \in Task \ {t} : /\ task'[u] = task[u] /\ link'[u] = link[u] /\ job'[u] = job[u]
                              /\ u \in result => u \in result'
    BY <1>2, <1>3
  <1> QED
    BY <1>0, <1>4, <1>5, <1>6, <1>7, <1>8, TidyTaskStep

\* A task is submitted once more, or fails because its payload cannot be had:
\* then it has no job, since what a dependency found is in its result.
LEMMA TidySubmit ==
    ASSUME GoalIInv, TidyInv, ~Overlap, NEW r \in Reconciler, NEW t \in Task, Submit(r, t)
    PROVE  TidyInv'
  <1>0. /\ pass \in [Reconciler -> PassRecord] /\ pass[r] \in PassRecord /\ PassTidy(r) /\ RowsOK
        /\ RowTidy(t) /\ Active(r) /\ pass[r].pc = "submit" /\ t \in pass[r].left
        /\ pass[r].snap \in [Task -> TaskStatus \cup {"submitted"}] /\ pass[r].left \subseteq Task
    BY DEF GoalIInv, CallersOK, TidyInv, Submit, Eligible, Active, PassRecord
  <1>1. task[t] = "pending" /\ link[t] = 0 /\ \A n \in Runs \ {1} : job[t][n] = "absent"
    BY <1>0 DEF PassTidy, RowTidy
  <1>2. UNCHANGED <<goal, result, link, reruns, review, op>> /\ (Undecided' => Undecided)
    BY DEF Submit, reviewVars, Undecided
  <1>3. reruns[t] \in Nat
    BY <1>0, GoalsAssumption DEF RowsOK
  <1>4. CASE Resolvable(t, pass[r].res)
    <2>1. /\ EnqueueRun(t, 1) /\ UNCHANGED <<task, done>>
          /\ pass' = [pass EXCEPT ![r].pc = "link", ![r].left = @ \ {t}, ![r].snap[t] = "submitted"]
      BY <1>4 DEF Submit
    <2>2. \A u \in Task \ {t} : job'[u] = job[u]
      BY <1>0, <2>1, RunFacts, EnqueueFacts
    <2>3. \A n \in Runs \ {1} : job'[t][n] = "absent"
      BY <1>0, <1>1, <2>1, RunFacts DEF EnqueueRun, RowsOK
    <2>4. RowTidy(t)'
      <3>1. LiveRuns(t)' \subseteq {1} /\ t \notin Unresolvable
        BY <1>4, <2>3 DEF LiveRuns, Live, Resolvable
      <3>2. task'[t] = "pending" /\ link'[t] = 0 /\ reruns'[t] = reruns[t]
        BY <1>1, <1>2, <2>1
      <3> QED
        BY <1>3, <2>3, <3>1, <3>2 DEF RowTidy
    <2>5. /\ \A q \in Reconciler \ {r} : pass'[q] = pass[q]
          /\ pass'[r].pc = "link" /\ pass'[r].left = pass[r].left \ {t} /\ pass'[r].res = pass[r].res
          /\ pass'[r].snap[t] = "submitted"
          /\ \A u \in Task \ {t} : pass'[r].snap[u] = pass[r].snap[u]
      BY <1>0, <2>1 DEF PassRecord
    <2>6. PassTidy(r)'
      BY <1>0, <1>1, <1>2, <2>1, <2>5 DEF PassTidy
    <2>7. \A u \in Task \ {t} : /\ task'[u] = task[u] /\ link'[u] = link[u] /\ job'[u] = job[u]
                                /\ u \in result => u \in result'
      BY <1>2, <2>1, <2>2
    <2> QED
      BY <1>0, <1>2, <2>4, <2>5, <2>6, <2>7, TidyTaskStep
  <1>5. CASE ~Resolvable(t, pass[r].res)
    <2>1. SetTask(t, "failed") /\ job' = job /\ pass' = [pass EXCEPT ![r].left = @ \ {t}]
      BY <1>5 DEF Submit
    <2>2. task'[t] = "failed" /\ \A u \in Task \ {t} : task'[u] = task[u]
      BY <1>0, <2>1 DEF SetTask, RowsOK
    <2>3. Undecided => LiveRuns(t) = {}
      <3>1. \A d \in Deps[t] : d \in Task /\ pass[r].snap[d] = "complete"
        BY GoalsAssumption DEF Submit, Eligible
      <3>2. Undecided => t \in Unresolvable
        BY <1>0, <1>5, <3>1 DEF PassTidy, Resolvable
      <3>3. Undecided => job[t][1] = "absent"
        BY <1>0, <3>2 DEF RowTidy
      <3> QED
        BY <1>1, <3>3 DEF LiveRuns, Live
    <2>4. RowTidy(t)'
      <3>1. Undecided' => LiveRuns(t)' = {}
        BY <1>2, <2>1, <2>3 DEF LiveRuns
      <3>2. link'[t] = 0 /\ reruns'[t] = reruns[t] /\ (job'[t][1] # "absent" => t \notin Unresolvable)
        BY <1>0, <1>1, <1>2, <2>1 DEF RowTidy
      <3> QED
        BY <1>3, <2>2, <3>1, <3>2 DEF RowTidy
    <2>5. /\ \A q \in Reconciler \ {r} : pass'[q] = pass[q]
          /\ pass'[r].pc = "submit" /\ pass'[r].left = pass[r].left \ {t} /\ pass'[r].res = pass[r].res
          /\ pass'[r].snap = pass[r].snap
      BY <1>0, <2>1 DEF PassRecord
    <2>6. PassTidy(r)'
      BY <1>0, <1>2, <2>2, <2>5 DEF PassTidy
    <2>7. \A u \in Task \ {t} : /\ task'[u] = task[u] /\ link'[u] = link[u] /\ job'[u] = job[u]
                                /\ u \in result => u \in result'
      BY <1>2, <2>1, <2>2
    <2> QED
      BY <1>0, <1>2, <2>4, <2>5, <2>6, <2>7, TidyTaskStep
  <1> QED
    BY <1>4, <1>5

\* The submitted job is the task's only one.
LEMMA TidyLink ==
    ASSUME GoalIInv, TidyInv, ~Overlap, NEW r \in Reconciler, NEW t \in Task, LinkJob(r, t)
    PROVE  TidyInv'
  <1>0. /\ pass \in [Reconciler -> PassRecord] /\ pass[r] \in PassRecord /\ PassTidy(r) /\ RowsOK
        /\ RowTidy(t) /\ Active(r) /\ pass[r].pc = "link" /\ pass[r].snap[t] = "submitted"
        /\ pass[r].snap \in [Task -> TaskStatus \cup {"submitted"}] /\ pass[r].left \subseteq Task
    BY DEF GoalIInv, CallersOK, TidyInv, LinkJob, Active, PassRecord
  <1>1. task[t] = "pending" /\ t \notin pass[r].left /\ \A n \in Runs \ {1} : job[t][n] = "absent"
    BY <1>0 DEF PassTidy, RowTidy
  <1>2. /\ SetTask(t, "running") /\ link' = [link EXCEPT ![t] = 1]
        /\ pass' = [pass EXCEPT ![r].pc = "submit", ![r].slots = @ - 1, ![r].snap[t] = "pending"]
        /\ UNCHANGED <<goal, result, reruns, job, review, op>>
    BY DEF LinkJob, reviewVars
  <1>3. /\ task'[t] = "running" /\ link'[t] = 1
        /\ \A u \in Task \ {t} : task'[u] = task[u] /\ link'[u] = link[u]
    BY <1>0, <1>2 DEF SetTask, RowsOK
  <1>4. RowTidy(t)'
    <2>1. LiveRuns(t)' \subseteq {1}
      BY <1>1, <1>2 DEF LiveRuns, Live
    <2>2. reruns'[t] \in Nat
      BY <1>0, <1>2, GoalsAssumption DEF RowsOK
    <2>3. job'[t][1] # "absent" => t \notin Unresolvable
      BY <1>0, <1>2 DEF RowTidy
    <2> QED
      BY <1>3, <2>1, <2>2, <2>3 DEF RowTidy
  <1>5. /\ \A q \in Reconciler \ {r} : pass'[q] = pass[q]
        /\ pass'[r].pc = "submit" /\ pass'[r].left = pass[r].left /\ pass'[r].res = pass[r].res
        /\ pass'[r].snap[t] = "pending"
        /\ \A u \in Task \ {t} : pass'[r].snap[u] = pass[r].snap[u]
    BY <1>0, <1>2 DEF PassRecord
  <1>6. PassTidy(r)'
    <2>1. Undecided' => Undecided
      BY <1>2 DEF Undecided
    <2> QED
      BY <1>0, <1>1, <1>3, <1>5, <2>1 DEF PassTidy
  <1>7. \A u \in Task \ {t} : /\ task'[u] = task[u] /\ link'[u] = link[u] /\ job'[u] = job[u]
                              /\ u \in result => u \in result'
    BY <1>2, <1>3
  <1>8. UNCHANGED <<op, goal, reruns, review>>
    BY <1>2
  <1> QED
    BY <1>0, <1>4, <1>5, <1>6, <1>7, <1>8, TidyTaskStep

\* Jobs that end, and reviews that are asked for, leave everything in its place.
LEMMA TidyOutside ==
    ASSUME GoalIInv, TidyInv, UNCHANGED <<goal, taskVars, reruns, pass, op>>, Undecided' => Undecided,
           \A t \in Task, n \in Runs : /\ job'[t][n] \in Live => job[t][n] \in Live
                                       /\ job'[t][n] = "absent" <=> job[t][n] = "absent",
           op.kind \in {"approve", "reject", "release"} => ~Undecided'
    PROVE  TidyInv'
  <1>0. UNCHANGED <<task, result, link>>
    BY DEF taskVars
  <1>1. \A t \in Task : RowTidy(t) /\ link[t] \in Runs \cup {0}
    BY DEF TidyInv, GoalIInv, RowsOK
  <1>2. \A t \in Task : RowTidy(t)'
    BY <1>0, <1>1, RowKept
  <1>3. OneCaller' /\ GoalPlace'
    BY <1>0 DEF TidyInv, OneCaller, GoalPlace, Active
  <1>4. CancelPlace'
    <2>1. op.kind \in {"cancel", "job", "close"} =>
             \A t \in Task : op.snap[t] = "next" /\ op.kind = "close" /\ link[t] # 0 => job'[t][link[t]] \notin Live
      BY <1>1 DEF TidyInv, CancelPlace
    <2> QED
      BY <1>0, <2>1 DEF TidyInv, CancelPlace
  <1>5. RerunPlace'
    BY <1>0 DEF TidyInv, RerunPlace
  <1>6. \A r \in Reconciler : PassTidy(r)'
    BY <1>0 DEF TidyInv, PassTidy
  <1> QED
    BY <1>2, <1>3, <1>4, <1>5, <1>6 DEF TidyInv

\* The jobs run and end, and the publisher asks for reviews.
LEMMA TidyWork ==
    ASSUME GoalIInv, TidyInv, Work
    PROVE  TidyInv'
  <1>0. RowsOK
    BY DEF GoalIInv
  <1>1. PICK t \in Task, r \in Runs :
             \/ JobStarts(t, r) \/ JobRequeued(t, r) \/ JobCancelled(t, r) \/ PublishReview(t, r)
             \/ \E o \in Outcome : JobEnds(t, r, o)
    BY DEF Work
  <1>2. UNCHANGED <<goal, taskVars, reruns, pass, op>>
    BY <1>1 DEF JobStarts, JobRequeued, JobCancelled, PublishReview, JobEnds
  <1>3. CASE PublishReview(t, r)
    <2>1. job' = job /\ review[t][r] = "none" /\ review' = [review EXCEPT ![t][r] = "pending"]
      BY <1>3 DEF PublishReview
    <2>2. \A u \in Task, n \in Runs : /\ review[u][n] \in {"none", "pending"} => review'[u][n] \in {"none", "pending"}
                                      /\ review'[u][n] \in {"none", "pending"} => review[u][n] \in {"none", "pending"}
      BY <1>0, <2>1 DEF RowsOK
    <2>3. Undecided' <=> Undecided
      BY <2>2 DEF Undecided
    <2>4. op.kind \in {"approve", "reject", "release"} => ~Undecided'
      BY <2>3 DEF TidyInv, RerunPlace
    <2> QED
      BY <1>2, <2>1, <2>3, <2>4, TidyOutside
  <1>4. CASE ~PublishReview(t, r)
    <2>1. PICK s \in JobStatus \ {"absent"} : job' = [job EXCEPT ![t][r] = s]
      <3>1. {"running", "queued", "cancelled"} \cup Outcome \subseteq JobStatus \ {"absent"}
        BY DEF JobStatus, Live, Outcome
      <3>2. \E s \in {"running", "queued", "cancelled"} \cup Outcome : job' = [job EXCEPT ![t][r] = s]
        BY <1>1, <1>4 DEF JobStarts, JobRequeued, JobCancelled, JobEnds
      <3> QED
        BY <3>1, <3>2
    <2>2. job[t][r] \in Live /\ review' = review
      BY <1>1, <1>4 DEF JobStarts, JobRequeued, JobCancelled, JobEnds, Live, reviewVars
    <2>3. /\ job'[t][r] = s /\ \A m \in Runs \ {r} : job'[t][m] = job[t][m]
          /\ \A u \in Task \ {t} : job'[u] = job[u]
      BY <1>0, <2>1, <2>2, JobSet DEF Live
    <2>4. \A u \in Task, n \in Runs : /\ job'[u][n] \in Live => job[u][n] \in Live
                                      /\ job'[u][n] = "absent" <=> job[u][n] = "absent"
      BY <2>2, <2>3 DEF Live
    <2>5. Undecided' <=> Undecided
      BY <2>2 DEF Undecided
    <2>6. op.kind \in {"approve", "reject", "release"} => ~Undecided'
      BY <2>5 DEF TidyInv, RerunPlace
    <2> QED
      BY <1>2, <2>4, <2>5, <2>6, TidyOutside
  <1> QED
    BY <1>3, <1>4

\* The calls that only read, or only write the goal's row.
LEMMA TidyGoalRow ==
    ASSUME GoalIInv, TidyInv, ~Overlap,
           Start \/ Pause \/ CheckStart \/ SetPaused \/ SetCancelled \/ SetFailed \/ \E approved \in BOOLEAN : DecidePlan(approved)
    PROVE  TidyInv'
  <1>0. op \in OpRecord
    BY DEF GoalIInv, CallersOK
  <1>1. UNCHANGED <<taskVars, reruns, job, review, pass>> /\ UNCHANGED <<task, link, result>>
    BY DEF Start, Pause, CheckStart, SetPaused, SetCancelled, SetFailed, DecidePlan, reviewVars, taskVars
  <1>2. \A r \in Reconciler : ~Active(r)
    BY AtWork DEF Start, Pause, CheckStart, SetPaused, SetCancelled, SetFailed, DecidePlan, Ready
  <1>3. /\ op.kind \in {"idle", "start", "pause", "cancel", "fail"}
        /\ op.kind \in {"idle", "start"} => goal' = goal
        /\ op'.kind \in {"idle", "start", "run", "pause", "fail"}
    BY <1>0, RestFacts, GotoFacts DEF Start, Pause, CheckStart, SetPaused, SetCancelled, SetFailed, DecidePlan, Ready
  <1>4. \A t \in Task : RowTidy(t)'
    BY <1>1, <1>3, RowsSame
  <1>5. op'.kind = "idle" => op' = NoOp
    BY <1>0, GotoFacts DEF Start, Pause, CheckStart, SetPaused, SetCancelled, SetFailed, DecidePlan
  <1>6. CancelPlace' /\ RerunPlace'
    BY <1>3 DEF CancelPlace, RerunPlace
  <1>7. GoalPlace'
    <2>1. op'.kind = "pause" => goal' = "running"
      BY <1>0, GotoFacts, RestFacts DEF Start, Pause, CheckStart, SetPaused, SetCancelled, SetFailed, DecidePlan
    <2>2. op'.kind = "run" => goal' \notin {"cancelled", "complete"}
      BY <1>0, GotoFacts, RestFacts DEF Start, Pause, CheckStart, SetPaused, SetCancelled, SetFailed, DecidePlan
    <2>3. \A r \in Reconciler : ~Active(r)'
      BY <1>1, <1>2 DEF Active
    <2>4. goal' = "cancelled" => \A t \in Task : task'[t] # "running"
      BY <1>1, <1>3 DEF Start, Pause, CheckStart, SetPaused, SetCancelled, SetFailed, DecidePlan, TidyInv, GoalPlace, CancelPlace
    <2>5. goal' = "complete" => \A t \in Task : task'[t] = "complete" \/ (op'.kind = "fail" /\ t \in op'.left)
      <3>1. goal' = "complete" => goal = "complete" /\ op.kind \in {"idle", "start"}
        BY <1>3, RestFacts DEF Start, Pause, CheckStart, SetPaused, SetCancelled, SetFailed, DecidePlan, Ready
      <3> QED
        BY <1>1, <3>1 DEF TidyInv, GoalPlace
    <2> QED
      BY <1>3, <2>1, <2>2, <2>3, <2>4, <2>5 DEF GoalPlace
  <1> QED
    BY <1>1, <1>2, <1>4, <1>5, <1>6, <1>7, TidyOpStep

\* start sets the goal running and begins a pass.
LEMMA TidySetRunning ==
    ASSUME GoalIInv, TidyInv, ~Overlap, SetRunning
    PROVE  TidyInv'
  <1>0. pass \in [Reconciler -> PassRecord] /\ Api \in Reconciler
    BY GoalsAssumption DEF GoalIInv, CallersOK
  <1>1. /\ op.kind = "run" /\ pass[Api] = Idle /\ goal' = "running" /\ op' = NoOp
        /\ pass' = [pass EXCEPT ![Api].pc = "begin"]
        /\ UNCHANGED <<taskVars, reruns, job, review>>
    BY DEF SetRunning, reviewVars
  <1>2. \A t \in Task : RowTidy(t)'
    BY <1>1, RowsSame
  <1>3. \A r \in Reconciler : ~Active(r)
    BY <1>1, AtWork
  <1>4. pass'[Api].pc = "begin" /\ \A q \in Reconciler \ {Api} : pass'[q] = pass[q]
    BY <1>0, <1>1 DEF PassRecord
  <1>5. OneCaller'
    BY <1>1, <1>3, <1>4, RestFacts DEF OneCaller, Active, TidyInv
  <1>6. GoalPlace'
    BY <1>1, RestFacts DEF GoalPlace
  <1>7. CancelPlace' /\ RerunPlace'
    BY <1>1, RestFacts DEF CancelPlace, RerunPlace
  <1>8. \A r \in Reconciler : PassTidy(r)'
    <2>1. \A r \in Reconciler : pass'[r].pc \in {"idle", "dead", "begin"}
      BY <1>3, <1>4 DEF Active
    <2> QED
      BY <2>1, PassAtRest
  <1> QED
    BY <1>2, <1>5, <1>6, <1>7, <1>8 DEF TidyInv

\* A cancellation reads the open tasks.
LEMMA TidyCancel ==
    ASSUME GoalIInv, TidyInv, ~Overlap, Cancel
    PROVE  TidyInv'
  <1> DEFINE open == {t \in Task : task[t] \in {"running", "pending"}}
             seen == [t \in Task |-> IF t \in open THEN task[t] ELSE "pending"]
  <1>1. /\ UNCHANGED <<goal, taskVars, reruns, job, review, pass>> /\ UNCHANGED <<task, link, result>>
        /\ goal \notin {"cancelled", "complete"} /\ Quiet
    BY DEF Cancel, Ready, reviewVars, taskVars
  <1>2. op'.kind = "cancel" /\ op'.left = open /\ op'.snap = seen
    BY DEF Cancel, NoOp
  <1>3. op.kind = "idle" /\ \A r \in Reconciler : ~Active(r)
    BY <1>1, AtWork, RestFacts
  <1>4. \A t \in Task : RowTidy(t)'
    BY <1>1, <1>3, RowsSame
  <1>5. GoalPlace'
    <2>1. \A r \in Reconciler : ~Active(r)'
      BY <1>1, <1>3 DEF Active
    <2> QED
      BY <1>1, <1>2, <2>1 DEF GoalPlace
  <1>6. CancelPlace'
    <2>1. \A t \in Task : seen[t] # "next"
      BY DEF GoalIInv, RowsOK, TaskStatus
    <2>2. \A t \in open : t \in Task /\ task[t] \in {"running", "pending"} /\ seen[t] = task[t]
      OBVIOUS
    <2>3. \A t \in Task : task[t] = "running" => t \in open
      OBVIOUS
    <2> HIDE DEF open, seen
    <2> QED
      BY <1>1, <1>2, <2>1, <2>2, <2>3 DEF CancelPlace
  <1>7. RerunPlace'
    BY <1>2 DEF RerunPlace
  <1> QED
    BY <1>1, <1>2, <1>3, <1>4, <1>5, <1>6, <1>7, TidyOpStep

\* It looks at the job of one of them.
LEMMA TidyLookAtJob ==
    ASSUME GoalIInv, TidyInv, ~Overlap, NEW t \in Task, LookAtJob(t)
    PROVE  TidyInv'
  <1>0. op \in OpRecord /\ op.kind = "cancel" /\ t \in op.left /\ RowTidy(t) /\ CancelPlace /\ RowsOK
    BY DEF GoalIInv, CallersOK, TidyInv, LookAtJob
  <1>1. UNCHANGED <<goal, taskVars, reruns, job, review, pass>> /\ UNCHANGED <<task, link, result, job>>
    BY DEF LookAtJob, reviewVars, taskVars
  <1>2. PICK k \in {"job", "close"} :
             /\ op' = [op EXCEPT !.kind = k, !.snap[t] = "next"]
             /\ k = "job" <=> op.snap[t] = "running" /\ link[t] # 0 /\ job[t][link[t]] \in Live
    BY DEF LookAtJob
  <1>3. /\ op'.kind = k /\ op'.left = op.left /\ op'.snap[t] = "next"
        /\ \A u \in Task \ {t} : op'.snap[u] = op.snap[u]
    BY <1>0, <1>2 DEF OpRecord
  <1>4. \A r \in Reconciler : ~Active(r)
    BY <1>0, AtWork
  <1>5. \A u \in Task : RowTidy(u)'
    BY <1>0, <1>1, RowsSame
  <1>6. GoalPlace'
    <2>1. \A r \in Reconciler : ~Active(r)'
      BY <1>1, <1>4 DEF Active
    <2> QED
      BY <1>0, <1>1, <1>3, <2>1 DEF TidyInv, GoalPlace
  <1>7. CancelPlace'
    <2>1. \A u \in Task : op.snap[u] # "next"
      BY <1>0 DEF CancelPlace
    <2>2. op.snap[t] = task[t] /\ task[t] \in {"running", "pending"}
      BY <1>0, <2>1 DEF CancelPlace
    <2>3. k = "job" => link[t] # 0
      BY <1>2
    <2>4. k = "close" /\ link[t] # 0 => job[t][link[t]] \notin Live
      BY <1>0, <1>2, <2>2 DEF RowTidy
    <2>5. op.left \subseteq Task
      BY <1>0 DEF OpRecord
    <2>6. \A u \in op.left : task'[u] \in {"running", "pending"} /\ op'.snap[u] \in {task'[u], "next"}
      BY <1>0, <1>1, <1>3, <2>5 DEF CancelPlace
    <2>7. \A u \in Task : op'.snap[u] = "next" => u = t
      BY <1>3, <2>1
    <2>8. \A u \in Task : task'[u] = "running" => u \in op'.left
      BY <1>0, <1>1, <1>3 DEF CancelPlace
    <2> QED
      BY <1>0, <1>1, <1>3, <2>3, <2>4, <2>6, <2>7, <2>8 DEF CancelPlace
  <1>8. RerunPlace'
    BY <1>3 DEF RerunPlace
  <1> QED
    BY <1>1, <1>3, <1>4, <1>5, <1>6, <1>7, <1>8, TidyOpStep

\* It cancels the job, or gives up over one that has ended.
LEMMA TidyCancelJob ==
    ASSUME GoalIInv, TidyInv, ~Overlap, NEW t \in Task, CancelJob(t)
    PROVE  TidyInv'
  <1>0. op \in OpRecord /\ op.kind = "job" /\ op.snap[t] = "next" /\ CancelPlace /\ RowsOK /\ GoalPlace
    BY DEF GoalIInv, CallersOK, TidyInv, CancelJob
  <1>1. UNCHANGED <<goal, taskVars, reruns, review, pass>> /\ UNCHANGED <<task, link, result>>
    BY DEF CancelJob, reviewVars, taskVars
  <1>2. link[t] \in Runs /\ link[t] # 0
    BY <1>0 DEF CancelPlace, RowsOK
  <1>3. \A r \in Reconciler : ~Active(r) /\ ~Active(r)'
    BY <1>0, <1>1, AtWork DEF Active
  <1>4. CASE job[t][link[t]] \in Live \cup {"cancelled"}
    <2>1. Goto("close") /\ job' = [job EXCEPT ![t][link[t]] = "cancelled"]
      BY <1>4 DEF CancelJob
    <2>2. op'.kind = "close" /\ op'.left = op.left /\ op'.snap = op.snap
      BY <1>0, <2>1, GotoFacts
    <2>3. /\ job'[t][link[t]] = "cancelled" /\ \A m \in Runs \ {link[t]} : job'[t][m] = job[t][m]
          /\ \A u \in Task \ {t} : job'[u] = job[u]
      <3>1. RowsOK /\ link[t] \in Runs /\ job' = [job EXCEPT ![t][link[t]] = "cancelled"]
        BY <1>0, <1>2, <2>1
      <3>2. "cancelled" \in JobStatus
        BY DEF JobStatus
      <3>3. job[t][link[t]] \notin {"good", "escalated", "held"}
        BY <1>4 DEF Live
      <3> QED
        BY <3>1, <3>2, <3>3, JobSet
    <2>4. \A u \in Task, n \in Runs : /\ job'[u][n] \in Live => job[u][n] \in Live
                                      /\ job'[u][n] = "absent" <=> job[u][n] = "absent"
      BY <1>2, <1>4, <2>3 DEF Live
    <2>5. \A u \in Task : RowTidy(u)'
      <3>1. Undecided' => Undecided
        BY <1>1 DEF Undecided
      <3>2. \A u \in Task : RowTidy(u) /\ link[u] \in Runs \cup {0} /\ ~Rerunning(u, {"link", "goal", "event"})
        BY <1>0 DEF TidyInv, RowsOK, Rerunning
      <3> QED
        BY <1>1, <2>4, <3>1, <3>2, RowKept
    <2>6. CancelPlace'
      <3>1. \A u \in Task : op.snap[u] = "next" => u = t
        BY <1>0 DEF CancelPlace
      <3>2. \A u \in Task : op.snap[u] = "next" /\ link[u] # 0 => job'[u][link[u]] \notin Live
        BY <2>3, <3>1 DEF Live
      <3> QED
        BY <1>0, <1>1, <2>2, <3>2 DEF CancelPlace
    <2>7. GoalPlace' /\ RerunPlace'
      BY <1>0, <1>1, <1>3, <2>2 DEF GoalPlace, RerunPlace
    <2> QED
      BY <1>1, <1>3, <2>2, <2>5, <2>6, <2>7, TidyOpStep
  <1>5. CASE job[t][link[t]] \notin Live \cup {"cancelled"}
    <2>1. op' = NoOp /\ job' = job
      BY <1>5 DEF CancelJob
    <2>2. \A u \in Task : RowTidy(u)'
      BY <1>0, <1>1, <2>1, RowsSame
    <2>3. GoalPlace' /\ RerunPlace' /\ CancelPlace'
      BY <1>0, <1>1, <1>3, <2>1, RestFacts DEF GoalPlace, RerunPlace, CancelPlace
    <2> QED
      BY <1>1, <1>3, <2>1, <2>2, <2>3, TidyOpStep
  <1> QED
    BY <1>4, <1>5

\* It closes the task: what the task names cannot run.
LEMMA TidyCloseTask ==
    ASSUME GoalIInv, TidyInv, ~Overlap, NEW t \in Task, CloseTask(t)
    PROVE  TidyInv'
  <1>0. /\ op \in OpRecord /\ op.kind = "close" /\ op.snap[t] = "next" /\ CancelPlace /\ RowsOK /\ GoalPlace
        /\ RowTidy(t) /\ t \in op.left
    BY DEF GoalIInv, CallersOK, TidyInv, CloseTask, CancelPlace
  <1>1. /\ UNCHANGED <<goal, reruns, job, review, pass, link, result>> /\ SetTask(t, "cancelled")
        /\ op' = [op EXCEPT !.kind = "cancel", !.left = @ \ {t}, !.snap[t] = "pending"]
    BY DEF CloseTask, reviewVars
  <1>2. task'[t] = "cancelled" /\ \A u \in Task \ {t} : task'[u] = task[u]
    BY <1>0, <1>1 DEF SetTask, RowsOK
  <1>3. /\ op'.kind = "cancel" /\ op'.left = op.left \ {t} /\ op'.snap[t] = "pending"
        /\ \A u \in Task \ {t} : op'.snap[u] = op.snap[u]
    BY <1>0, <1>1 DEF OpRecord
  <1>4. \A r \in Reconciler : ~Active(r) /\ ~Active(r)'
    BY <1>0, <1>1, AtWork DEF Active
  <1>5. Undecided' => Undecided
    BY <1>1 DEF Undecided
  <1>6. ASSUME NEW u \in Task PROVE RowTidy(u)'
    <2>1. ~Rerunning(u, {"link", "goal", "event"}) /\ ~Rerunning(u, {"goal", "event"})
      BY <1>0 DEF Rerunning
    <2>2. CASE u = t
      <3>1. LiveRuns(t)' = LiveRuns(t) /\ (link[t] # 0 => job[t][link[t]] \notin Live)
        BY <1>0, <1>1 DEF LiveRuns, CancelPlace
      <3> QED
        BY <1>0, <1>1, <1>2, <1>5, <2>1, <2>2, <3>1 DEF RowTidy
    <2>3. CASE u # t
      <3>1. RowTidy(u) /\ link[u] \in Runs \cup {0}
        BY <1>0 DEF TidyInv, RowsOK
      <3> QED
        BY <1>1, <1>2, <1>5, <2>1, <2>3, <3>1, RowKept
    <2> QED
      BY <2>2, <2>3
  <1>7. CancelPlace'
    <2>1. \A u \in Task : op'.snap[u] # "next"
      BY <1>0, <1>3 DEF CancelPlace
    <2>2. \A u \in Task : task'[u] = "running" => u \in op'.left
      BY <1>0, <1>2, <1>3 DEF CancelPlace
    <2>3. \A u \in op'.left : task'[u] \in {"running", "pending"} /\ op'.snap[u] \in {task'[u], "next"}
      <3>1. op.left \subseteq Task
        BY <1>0 DEF OpRecord
      <3> QED
        BY <1>0, <1>2, <1>3, <3>1 DEF CancelPlace
    <2> QED
      BY <2>1, <2>2, <2>3 DEF CancelPlace
  <1>8. GoalPlace' /\ RerunPlace'
    BY <1>0, <1>1, <1>3, <1>4 DEF GoalPlace, RerunPlace
  <1> QED
    BY <1>1, <1>3, <1>4, <1>6, <1>7, <1>8, TidyOpStep

\* A step of a call that changes only the rows of task t and that no rerun of
\* another task is waiting for.
LEMMA OthersTidy ==
    ASSUME GoalIInv, TidyInv, NEW t \in Task, Undecided' => Undecided,
           \A u \in Task \ {t} : /\ task'[u] = task[u] /\ link'[u] = link[u] /\ job'[u] = job[u]
                                 /\ reruns'[u] = reruns[u] /\ (u \in result => u \in result')
                                 /\ ~Rerunning(u, {"link", "goal", "event"}),
           RowTidy(t)'
    PROVE  \A u \in Task : RowTidy(u)'
  <1>1. ASSUME NEW u \in Task \ {t} PROVE RowTidy(u)'
    <2>1. RowTidy(u) /\ link[u] \in Runs \cup {0}
      BY DEF TidyInv, GoalIInv, RowsOK
    <2> QED
      BY <2>1, RowKept
  <1> QED
    BY <1>1

\* A rerun begins when nothing of the task can run, with a job of its own.
LEMMA TidyEnqueueRerun ==
    ASSUME GoalIInv, TidyInv, NEW t \in Task, \A r \in Reconciler : ~Active(r), op.kind \in {"idle", "release"},
           reruns[t] < MaxReruns, CanRerun(t), EnqueueRerun(t), UNCHANGED <<goal, taskVars, reruns, review, pass>>
    PROVE  TidyInv'
  <1>0. RowsOK /\ RowTidy(t) /\ GoalPlace /\ UNCHANGED <<task, link, result>>
    BY DEF GoalIInv, TidyInv, taskVars
  <1>1. PICK n \in Runs : n = reruns[t] + 2 /\ n # 1
    BY <1>0, GoalsAssumption DEF RowsOK, Runs
  <1>2. EnqueueRun(t, n)
    BY <1>1 DEF EnqueueRerun
  <1>3. op'.kind = "link" /\ op'.left = {t} /\ op'.run = n
    BY <1>1 DEF EnqueueRerun, NoOp
  <1>4. (\A u \in Task \ {t} : job'[u] = job[u]) /\ (\A m \in Runs \ {n} : job'[t][m] = job[t][m])
    BY <1>0, <1>2, EnqueueFacts DEF EnqueueRun, RowsOK
  <1>5. task[t] \in {"failed", "escalated", "complete"}
    BY DEF CanRerun
  <1>6. Undecided' => Undecided
    BY DEF Undecided
  <1>7. \A u \in Task : ~Rerunning(u, {"link", "goal", "event"}) /\ ~Rerunning(u, {"link"}) /\ ~Rerunning(u, {"goal", "event"})
    BY DEF Rerunning
  <1>8. RowTidy(t)'
    <2>1. Undecided' => LiveRuns(t)' \subseteq {n}
      <3>1. Undecided => LiveRuns(t) = {}
        BY <1>0, <1>5, <1>7 DEF RowTidy
      <3> QED
        BY <1>4, <1>6, <3>1 DEF LiveRuns
    <2>2. job'[t][1] = job[t][1]
      BY <1>1, <1>4, RunFacts
    <2>3. Rerunning(t, {"link"})' /\ op'.run = n
      BY <1>3 DEF Rerunning
    <2>4. link'[t] <= reruns'[t] + 1
      BY <1>0, <1>7 DEF RowTidy
    <2>5. Undecided' /\ task'[t] = "complete" => t \in result'
      BY <1>0, <1>6 DEF RowTidy
    <2>6. job'[t][1] # "absent" => t \notin Unresolvable
      BY <1>0, <2>2 DEF RowTidy
    <2> QED
      BY <1>0, <1>5, <2>1, <2>3, <2>4, <2>5, <2>6 DEF RowTidy
  <1>9. \A u \in Task : RowTidy(u)'
    BY <1>0, <1>4, <1>6, <1>7, <1>8, OthersTidy
  <1>10. GoalPlace'
    <2>1. \A r \in Reconciler : ~Active(r)'
      BY DEF Active
    <2> QED
      BY <1>0, <1>3, <2>1 DEF GoalPlace
  <1>11. CancelPlace' /\ RerunPlace'
    BY <1>0, <1>1, <1>3, <1>5 DEF CancelPlace, RerunPlace
  <1> QED
    BY <1>3, <1>9, <1>10, <1>11, TidyOpStep

\* The task is marked as running under the new job.
LEMMA TidyRerunLink ==
    ASSUME GoalIInv, TidyInv, ~Overlap, NEW t \in Task, RerunLink(t)
    PROVE  TidyInv'
  <1>0. /\ op \in OpRecord /\ op.kind = "link" /\ t \in op.left /\ op.left \subseteq Task /\ RowsOK /\ RowTidy(t)
        /\ GoalPlace /\ RerunPlace
    BY DEF GoalIInv, CallersOK, TidyInv, RerunLink, OpRecord
  <1>1. /\ SetTask(t, "running") /\ result' = result \ {t} /\ link' = [link EXCEPT ![t] = op.run] /\ Goto("goal")
        /\ UNCHANGED <<goal, reruns, job, review, pass>>
    BY DEF RerunLink, reviewVars
  <1>2. op'.kind = "goal" /\ op'.left = op.left /\ op'.run = op.run
    BY <1>0, <1>1, GotoFacts
  <1>3. /\ task'[t] = "running" /\ link'[t] = op.run
        /\ \A u \in Task \ {t} : task'[u] = task[u] /\ link'[u] = link[u]
    BY <1>0, <1>1 DEF SetTask, RowsOK
  <1>4. op.left = {t} /\ op.run = reruns[t] + 2 /\ task[t] \in {"failed", "escalated", "complete"}
    BY <1>0 DEF RerunPlace
  <1>5. Undecided' => Undecided
    BY <1>1 DEF Undecided
  <1>6. \A r \in Reconciler : ~Active(r) /\ ~Active(r)'
    BY <1>0, <1>1, AtWork DEF Active
  <1>7. RowTidy(t)'
    <2>1. Undecided => LiveRuns(t)' \subseteq {op.run}
      BY <1>0, <1>1, <1>4 DEF RowTidy, LiveRuns
    <2>2. Rerunning(t, {"goal", "event"})'
      BY <1>0, <1>2 DEF Rerunning
    <2>3. job'[t][1] # "absent" => t \notin Unresolvable
      BY <1>0, <1>1 DEF RowTidy
    <2> QED
      BY <1>3, <1>5, <2>1, <2>2, <2>3 DEF RowTidy
  <1>8. \A u \in Task : RowTidy(u)'
    <2>1. \A u \in Task \ {t} : ~Rerunning(u, {"link", "goal", "event"}) /\ (u \in result => u \in result')
      BY <1>1, <1>4 DEF Rerunning
    <2> QED
      BY <1>1, <1>3, <1>5, <1>7, <2>1, OthersTidy
  <1>9. GoalPlace'
    BY <1>0, <1>1, <1>2, <1>3, <1>6 DEF GoalPlace
  <1>10. CancelPlace' /\ RerunPlace'
    BY <1>1, <1>2, <1>3, <1>4 DEF CancelPlace, RerunPlace
  <1> QED
    BY <1>1, <1>2, <1>6, <1>8, <1>9, <1>10, TidyOpStep

\* The goal is reopened, and the event recorded.
LEMMA TidyRerunEnd ==
    ASSUME GoalIInv, TidyInv, ~Overlap, RerunGoal \/ \E t \in Task : RerunEvent(t)
    PROVE  TidyInv'
  <1>0. /\ op \in OpRecord /\ RowsOK /\ GoalPlace /\ RerunPlace /\ op.left \subseteq Task
        /\ op.kind \in {"goal", "event"}
    BY DEF GoalIInv, CallersOK, TidyInv, RerunGoal, RerunEvent, OpRecord
  <1>1. UNCHANGED <<taskVars, job, review, pass>> /\ UNCHANGED <<task, link, result>>
    BY DEF RerunGoal, RerunEvent, taskVars, reviewVars
  <1>2. \A r \in Reconciler : ~Active(r) /\ ~Active(r)'
    BY <1>0, <1>1, AtWork DEF Active
  <1>3. Undecided' => Undecided
    BY <1>1 DEF Undecided
  <1>4. CASE RerunGoal
    <2>1. Goto("event") /\ goal' = "running" /\ reruns' = reruns /\ op.kind = "goal"
      BY <1>4 DEF RerunGoal
    <2>2. op'.kind = "event" /\ op'.left = op.left /\ op'.run = op.run
      BY <1>0, <2>1, GotoFacts
    <2>3. ASSUME NEW u \in Task PROVE RowTidy(u)'
      <3>1. /\ Rerunning(u, {"goal", "event"}) => Rerunning(u, {"goal", "event"})'
            /\ ~Rerunning(u, {"link"}) /\ RowTidy(u) /\ link[u] \in Runs \cup {0}
        BY <1>0, <2>1, <2>2 DEF Rerunning, TidyInv, RowsOK
      <3> QED
        BY <1>1, <1>3, <2>1, <3>1, RowKeptOn
    <2>4. GoalPlace' /\ CancelPlace' /\ RerunPlace'
      BY <1>0, <1>1, <2>1, <2>2 DEF GoalPlace, CancelPlace, RerunPlace
    <2> QED
      BY <1>1, <1>2, <2>2, <2>3, <2>4, TidyOpStep
  <1>5. CASE \E t \in Task : RerunEvent(t)
    <2>1. PICK t \in Task : RerunEvent(t)
      BY <1>5
    <2>2. /\ op.kind = "event" /\ t \in op.left /\ op' = NoOp /\ goal' = goal
          /\ reruns' = [reruns EXCEPT ![t] = @ + 1]
      BY <2>1 DEF RerunEvent
    <2>3. op.left = {t} /\ link[t] = reruns[t] + 2 /\ goal = "running"
      BY <1>0, <2>2 DEF RerunPlace, GoalPlace
    <2>4. reruns'[t] = reruns[t] + 1 /\ reruns[t] \in Nat /\ \A u \in Task \ {t} : reruns'[u] = reruns[u]
      BY <1>0, <2>2, GoalsAssumption DEF RowsOK
    <2>5. RowTidy(t)'
      <3>1. RowTidy(t) /\ ~Rerunning(t, {"link"}) /\ LiveRuns(t)' = LiveRuns(t)
        BY <1>1, <2>2 DEF TidyInv, Rerunning, LiveRuns
      <3>2. link'[t] <= reruns'[t] + 1
        BY <1>1, <2>3, <2>4
      <3> QED
        BY <1>1, <1>3, <3>1, <3>2 DEF RowTidy
    <2>6. \A u \in Task : RowTidy(u)'
      <3>1. \A u \in Task \ {t} : ~Rerunning(u, {"link", "goal", "event"})
        BY <2>3 DEF Rerunning
      <3> QED
        BY <1>1, <1>3, <2>4, <2>5, <3>1, OthersTidy
    <2>7. GoalPlace' /\ CancelPlace' /\ RerunPlace'
      BY <1>2, <2>2, <2>3, RestFacts DEF GoalPlace, CancelPlace, RerunPlace
    <2> QED
      BY <1>1, <1>2, <2>2, <2>6, <2>7, TidyOpStep
  <1> QED
    BY <1>4, <1>5

\* The reruns of an operator and of a reviewer.
LEMMA TidyReruns ==
    ASSUME GoalIInv, TidyInv, ~Overlap, NEW t \in Task, Rerun(t) \/ ReleaseHeld(t)
    PROVE  TidyInv'
  <1>0. UNCHANGED <<goal, taskVars, reruns, review, pass>> /\ GoalPlace
    BY DEF Rerun, ReleaseHeld, reviewVars, TidyInv
  <1>1. op.kind \in {"idle", "release"} /\ \A r \in Reconciler : ~Active(r)
    BY AtWork, RestFacts DEF Rerun, ReleaseHeld, Ready
  <1>2. reruns[t] < MaxReruns
    BY DEF Rerun, ReleaseHeld, GoalIInv, OpInv
  <1>3. CASE CanRerun(t) /\ EnqueueRerun(t)
    BY <1>0, <1>1, <1>2, <1>3, TidyEnqueueRerun
  <1>4. CASE ~(CanRerun(t) /\ EnqueueRerun(t))
    <2>1. op' = NoOp /\ job' = job
      BY <1>4 DEF Rerun, ReleaseHeld
    <2>2. \A u \in Task : RowTidy(u)'
      BY <1>0, <1>1, <2>1, RowsSame
    <2>3. \A r \in Reconciler : ~Active(r)'
      BY <1>0, <1>1 DEF Active
    <2>4. GoalPlace'
      BY <1>0, <1>1, <2>1, <2>3, RestFacts DEF GoalPlace, taskVars
    <2>5. CancelPlace' /\ RerunPlace'
      BY <2>1, RestFacts DEF CancelPlace, RerunPlace
    <2> QED
      BY <1>0, <1>1, <2>1, <2>2, <2>4, <2>5, TidyOpStep
  <1> QED
    BY <1>3, <1>4

\* A reviewer decides.
LEMMA TidyDecide ==
    ASSUME GoalIInv, TidyInv, ~Overlap, NEW t \in Task, NEW r \in Runs,
           NEW d \in {"approved", "rejected"}, Decide(t, r, d)
    PROVE  TidyInv'
  <1>0. RowsOK /\ GoalPlace
    BY DEF GoalIInv, TidyInv
  <1>1. /\ UNCHANGED <<goal, taskVars, reruns, job, pass>> /\ UNCHANGED <<task, result, link>>
        /\ review' = [review EXCEPT ![t][r] = d]
    BY DEF Decide, taskVars
  <1>2. op'.kind \in {"reject", "release", "approve"}
    BY DEF Decide, NoOp
  <1>3. op.kind = "idle" /\ \A q \in Reconciler : ~Active(q) /\ ~Active(q)'
    BY <1>1, AtWork, RestFacts DEF Decide, Ready, Active
  <1>4. ~Undecided'
    <2>1. review'[t][r] = d
      BY <1>0, <1>1 DEF RowsOK
    <2> QED
      BY <2>1 DEF Undecided
  <1>5. ASSUME NEW u \in Task PROVE RowTidy(u)'
    <2>1. RowTidy(u) /\ link[u] \in Runs \cup {0} /\ ~Rerunning(u, {"link", "goal", "event"})
      BY <1>0, <1>3 DEF TidyInv, RowsOK, Rerunning
    <2> QED
      BY <1>1, <1>4, <2>1, RowKept
  <1>6. GoalPlace'
    BY <1>0, <1>1, <1>2, <1>3 DEF GoalPlace
  <1>7. CancelPlace' /\ RerunPlace'
    BY <1>2, <1>4 DEF CancelPlace, RerunPlace
  <1> QED
    BY <1>1, <1>2, <1>3, <1>5, <1>6, <1>7, TidyOpStep

\* The decision closes the task.
LEMMA TidyCloseReviewed ==
    ASSUME GoalIInv, TidyInv, ~Overlap, NEW t \in Task, CloseReviewed(t)
    PROVE  TidyInv'
  <1>0. RowsOK /\ GoalPlace /\ RowTidy(t) /\ op \in OpRecord /\ op.kind \in {"approve", "reject"} /\ t \in op.left
    BY DEF GoalIInv, CallersOK, TidyInv, CloseReviewed
  <1>1. PICK s \in {"complete", "failed"} :
             /\ SetTask(t, s) /\ Goto(IF s = "complete" THEN "start" ELSE "fail")
             /\ UNCHANGED <<goal, result, link, reruns, job, review, pass>>
    BY <1>0 DEF CloseReviewed, reviewVars
  <1>2. op'.kind = (IF s = "complete" THEN "start" ELSE "fail") /\ op'.left = op.left
    BY <1>0, <1>1, GotoFacts
  <1>3. task'[t] = s /\ \A u \in Task \ {t} : task'[u] = task[u]
    BY <1>0, <1>1 DEF SetTask, RowsOK
  <1>4. \A r \in Reconciler : ~Active(r) /\ ~Active(r)'
    BY <1>0, <1>1, AtWork DEF Active
  <1>5. ~Undecided /\ ~Undecided'
    BY <1>0, <1>1 DEF TidyInv, RerunPlace, Undecided
  <1>6. \A u \in Task : ~Rerunning(u, {"link", "goal", "event"}) /\ ~Rerunning(u, {"goal", "event"})
    BY <1>0 DEF Rerunning
  <1>7. RowTidy(t)'
    <2>1. link'[t] <= reruns'[t] + 1 /\ (job'[t][1] # "absent" => t \notin Unresolvable)
      BY <1>0, <1>1, <1>6 DEF RowTidy
    <2> QED
      BY <1>3, <1>5, <2>1 DEF RowTidy
  <1>8. \A u \in Task : RowTidy(u)'
    BY <1>1, <1>3, <1>5, <1>6, <1>7, OthersTidy
  <1>9. GoalPlace'
    BY <1>0, <1>1, <1>2, <1>3, <1>4 DEF GoalPlace
  <1>10. CancelPlace' /\ RerunPlace'
    BY <1>2 DEF CancelPlace, RerunPlace
  <1> QED
    BY <1>1, <1>2, <1>4, <1>8, <1>9, <1>10, TidyOpStep

LEMMA InitTidy == Init => TidyInv
  <1> SUFFICES ASSUME Init PROVE TidyInv
    OBVIOUS
  <1>1. /\ op = NoOp /\ goal \in {"ready", "paused"} /\ (\A r \in Reconciler : pass[r] = Idle)
        /\ \A t \in Task : task[t] = "pending" /\ link[t] = 0 /\ reruns[t] = 0 /\ \A n \in Runs : job[t][n] = "absent"
    BY DEF Init, NoSnap
  <1>2. \A r \in Reconciler : ~Active(r) /\ PassTidy(r)
    BY <1>1, RestFacts DEF Active, PassTidy
  <1>3. OneCaller /\ GoalPlace /\ CancelPlace /\ RerunPlace
    BY <1>1, <1>2, RestFacts DEF OneCaller, GoalPlace, CancelPlace, RerunPlace
  <1>4. ASSUME NEW t \in Task PROVE RowTidy(t)
    <2>1. LiveRuns(t) = {}
      BY <1>1 DEF LiveRuns, Live
    <2> QED
      BY <1>1, <2>1, RunFacts DEF RowTidy
  <1> QED
    BY <1>2, <1>3, <1>4 DEF TidyInv

LEMMA NextTidy ==
    ASSUME GoalIInv, TidyInv, ~Overlap, "api" \notin Crashes, [Next]_vars
    PROVE  TidyInv'
  <1>1. CASE UNCHANGED vars
    <2>1. UNCHANGED <<goal, taskVars, reruns, job, review, pass, op>>
      BY <1>1 DEF vars, reviewVars
    <2>2. (Undecided' => Undecided) /\ (op.kind \in {"approve", "reject", "release"} => ~Undecided')
      BY <2>1 DEF Undecided, TidyInv, RerunPlace
    <2> QED
      BY <2>1, <2>2, TidyOutside
  <1>2. ASSUME NEW r \in Reconciler, Reconcile(r) \/ WorkerCrash(r) \/ Restart(r) PROVE TidyInv'
    BY <1>2, TidyReading, TidyRestart, TidySettle, TidyBlock, TidySubmit, TidyLink DEF Reconcile
  <1>3. CASE Request
    BY <1>3, TidyGoalRow, TidyCancel, TidyReruns, TidyDecide DEF Request
  <1>4. CASE Operate
    BY <1>4, TidyGoalRow, TidySetRunning, TidyLookAtJob, TidyCancelJob, TidyCloseTask, TidyRerunLink, TidyRerunEnd,
       TidyReruns, TidyCloseReviewed DEF Operate
  <1>5. ~ApiCrash
    BY DEF ApiCrash
  <1>6. CASE Work
    BY <1>6, TidyWork
  <1> QED
    BY <1>1, <1>2, <1>3, <1>4, <1>5, <1>6 DEF Next

-----------------------------------------------------------------------------
(* The theorems.                                                            *)

\* Runs that are all the same are at most one.
LEMMA OneAtMost ==
    ASSUME NEW S, \A n, m \in S : n = m
    PROVE  Cardinality(S) <= 1
  <1>1. CASE S = {}
    BY <1>1, FS_EmptySet
  <1>2. CASE S # {}
    <2>1. PICK n : n \in S
      BY <1>2
    <2>2. S = {n}
      BY <2>1
    <2>3. Cardinality({n}) = 1
      BY FS_Singleton, Zenon
    <2> QED
      BY <2>2, <2>3
  <1> QED
    BY <1>1, <1>2

\* The link of a task changes in a pass, or when its rerun is linked.
LEMMA LinkKept ==
    ASSUME Next
    PROVE  link' = link \/ op' = op \/ op.kind = "link"
  <1>1. ASSUME NEW r \in Reconciler, Reconcile(r) \/ WorkerCrash(r) \/ Restart(r) PROVE op' = op
    BY <1>1 DEF Reconcile, BeginPass, PauseForReview, EndSettle, EndBlock, Finish, Settle, Block, Submit, LinkJob,
       WorkerCrash, Restart
  <1>2. CASE Request
    BY <1>2 DEF Request, Start, Pause, Cancel, Rerun, Decide, DecidePlan, taskVars
  <1>3. CASE Operate
    BY <1>3 DEF Operate, CheckStart, SetRunning, SetPaused, SetCancelled, RerunGoal, SetFailed, LookAtJob, CancelJob,
       CloseTask, RerunLink, RerunEvent, ReleaseHeld, CloseReviewed, taskVars
  <1>4. CASE ApiCrash \/ Work
    BY <1>4 DEF ApiCrash, Work, JobStarts, JobRequeued, JobCancelled, PublishReview, JobEnds, taskVars
  <1> QED
    BY <1>1, <1>2, <1>3, <1>4 DEF Next

\* Only these steps write the goal's row.
LEMMA GoalKept ==
    ASSUME Next
    PROVE  \/ goal' \in {goal, "cancelled"} \/ op.kind \in {"run", "pause", "goal", "fail"}
           \/ \E r \in Reconciler : PauseForReview(r) \/ Finish(r)
  <1>1. ASSUME NEW r \in Reconciler, Reconcile(r) \/ WorkerCrash(r) \/ Restart(r), ~PauseForReview(r), ~Finish(r)
        PROVE  goal' = goal
    BY <1>1 DEF Reconcile, BeginPass, EndSettle, EndBlock, Settle, Block, Submit, LinkJob, WorkerCrash, Restart
  <1>2. CASE Request
    BY <1>2 DEF Request, Start, Pause, Cancel, Rerun, Decide, DecidePlan
  <1>3. CASE Operate
    BY <1>3 DEF Operate, CheckStart, SetRunning, SetPaused, SetCancelled, RerunGoal, SetFailed, LookAtJob, CancelJob,
       CloseTask, RerunLink, RerunEvent, ReleaseHeld, CloseReviewed
  <1>4. CASE ApiCrash \/ Work
    BY <1>4 DEF ApiCrash, Work, JobStarts, JobRequeued, JobCancelled, PublishReview, JobEnds
  <1> QED
    BY <1>1, <1>2, <1>3, <1>4 DEF Next

\* Calls that do not overlap and are carried out to their end: cancelling stops
\* the work.  No cancelled task names a job that can run, and a cancelled goal
\* has no task whose job can, unless a reviewer closed one over its rerun
\* (coordinator.py, cancel).
THEOREM CancellationHolds ==
    ASSUME ~Overlap, "api" \notin Crashes
    PROVE  Spec => []CancelStopsWork
  <1>1. GoalIInv /\ TidyInv => CancelStopsWork
    <2> SUFFICES ASSUME GoalIInv, TidyInv, NEW t \in Task, link[t] # 0,
                        task[t] = "cancelled" \/ (goal = "cancelled" /\ op = NoOp /\ Undecided)
                 PROVE  job[t][link[t]] \notin Live
      BY DEF CancelStopsWork
    <2>1. RowTidy(t) /\ link[t] \in Runs /\ task[t] \in TaskStatus
      BY DEF GoalIInv, TidyInv, RowsOK
    <2>2. CASE task[t] = "cancelled"
      BY <2>1, <2>2 DEF RowTidy
    <2>3. CASE task[t] # "cancelled"
      <3>1. op.kind = "idle" /\ task[t] # "running"
        BY <2>3, RestFacts DEF TidyInv, GoalPlace
      <3>2. task[t] \in {"failed", "escalated", "complete"}
        BY <2>1, <2>3, <3>1 DEF RowTidy, TaskStatus
      <3>3. LiveRuns(t) = {}
        BY <2>1, <2>3, <3>1, <3>2 DEF RowTidy, Rerunning
      <3> QED
        BY <2>1, <3>3 DEF LiveRuns
    <2> QED
      BY <2>2, <2>3
  <1>2. GoalIInv /\ TidyInv /\ [Next]_vars => GoalIInv' /\ TidyInv'
    BY NextGoalIInv, NextTidy
  <1> QED
    BY InitGoalIInv, InitTidy, <1>1, <1>2, PTL DEF Spec

\* The same calls leave no loose ends: until a reviewer decides, a task has at
\* most one job that can run; a goal is complete only over completed tasks; a
\* rerun gets a job of its own; and a cancelled goal stays cancelled until a
\* rerun or a rejection (coordinator.py, rerun, cancel, reconcile).
THEOREM CallsAreTidy ==
    ASSUME ~Overlap, "api" \notin Crashes
    PROVE  Spec => RunsTidy
  <1>1. GoalIInv /\ TidyInv => OneLiveJob /\ CompleteMeansDone
    <2> SUFFICES ASSUME TidyInv PROVE OneLiveJob /\ CompleteMeansDone
      OBVIOUS
    <2>1. ASSUME Undecided, NEW t \in Task PROVE Cardinality({r \in Runs : job[t][r] \in Live}) <= 1
      <3>1. \A n, m \in LiveRuns(t) : n = m
        BY <2>1 DEF TidyInv, RowTidy
      <3>2. Cardinality(LiveRuns(t)) <= 1
        BY <3>1, OneAtMost
      <3> QED
        BY <3>2 DEF LiveRuns
    <2>2. CompleteMeansDone
      BY RestFacts DEF TidyInv, GoalPlace, CompleteMeansDone
    <2> QED
      BY <2>1, <2>2 DEF OneLiveJob
  <1>2. GoalIInv /\ TidyInv /\ [Next]_vars => GoalIInv' /\ TidyInv'
    BY NextGoalIInv, NextTidy
  <1>3. GoalIInv /\ TidyInv /\ [Next]_vars => [RerunIsFresh /\ CancelIsDurable]_vars
    <2> SUFFICES ASSUME GoalIInv, TidyInv, Next PROVE RerunIsFresh /\ CancelIsDurable
      OBVIOUS
    <2>1. GoalIInv' /\ TidyInv'
      BY <1>2
    <2>2. ASSUME NEW t \in Task, op.kind # "link", op'.kind = "link", t \in op'.left PROVE link[t] # op'.run
      <3>1. link' = link
        BY <2>2, LinkKept
      <3>2. op'.run = reruns'[t] + 2 /\ reruns'[t] \in Nat /\ link'[t] \in Nat
        <4>1. op'.run = reruns'[t] + 2
          BY <2>1, <2>2 DEF TidyInv, RerunPlace
        <4>2. RowsOK'
          BY <2>1 DEF GoalIInv
        <4>3. reruns'[t] \in 0..MaxReruns /\ link'[t] \in Runs \cup {0}
          BY <4>2 DEF RowsOK
        <4>4. reruns'[t] \in Nat
          BY <4>3, GoalsAssumption
        <4>5. link'[t] \in Nat
          BY <4>3, GoalsAssumption DEF Runs
        <4> QED
          BY <4>1, <4>4, <4>5
      <3>3. link'[t] <= reruns'[t] + 1
        BY <2>1, <2>2 DEF TidyInv, RowTidy, Rerunning
      <3> QED
        BY <3>1, <3>2, <3>3
    <2>3. ASSUME goal = "cancelled" PROVE goal' = "cancelled" \/ op.kind \in {"goal", "fail"}
      <3>1. op.kind \notin {"run", "pause"} /\ \A r \in Reconciler : ~Active(r)
        BY <2>3 DEF TidyInv, GoalPlace
      <3>2. \A r \in Reconciler : ~PauseForReview(r) /\ ~Finish(r)
        BY <3>1 DEF PauseForReview, Finish, Active
      <3> QED
        BY <2>3, <3>1, <3>2, GoalKept
    <2> QED
      BY <2>2, <2>3 DEF RerunIsFresh, CancelIsDurable
  <1> QED
    BY InitGoalIInv, InitTidy, <1>1, <1>2, <1>3, PTL DEF Spec, RunsTidy

=============================================================================
