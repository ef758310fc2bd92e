----------------------------- MODULE Completion -----------------------------
(***************************************************************************)
(* Publication of committed results (core/jobs/completion.py).             *)
(*                                                                         *)
(* Every worker process runs CompletionPublisher.publish_pending on each   *)
(* cycle: it reads the unpublished rows of the completion outbox and moves *)
(* each one into the artifact store and the review queue, then             *)
(* acknowledges it.  The three stores are three databases, so an event is  *)
(* published by several transactions; two processes may work on the same   *)
(* event, each may fail or die between any two of them, and the whole      *)
(* event is then replayed.                                                 *)
(*                                                                         *)
(* A job has one outbox row, in the name of the attempt that completed it  *)
(* (Jobs!EvidenceInOutbox), so the job names the attempt.  Its review is   *)
(* keyed by that attempt (goal tasks) or by the job's own fresh task id.   *)
(***************************************************************************)
EXTENDS Naturals, Sequences, SequencesExt

CONSTANTS
    Job,        \* jobs whose result carries evidence
    File,       \* identity_key: workspace root and file name
    Content,    \* artifact contents, told apart by their hash
    Outputs,    \* results: [artifacts : Seq([file, content]), escalated]
    Publisher,  \* worker processes
    MaxFaults,  \* bound on store failures and process deaths together
    MaxDirect   \* bound on versions written by the API process

ASSUME CompletionAssumption ==
    /\ Outputs \subseteq [artifacts : Seq([file : File, content : Content]),
                          escalated : BOOLEAN]
    /\ MaxFaults \in Nat
    /\ MaxDirect \in Nat

VARIABLES
    outbox,    \* completion_outbox: the jobs in created_at order
    output,    \* job_outputs of those jobs
    published, \* the jobs whose row has a published_at
    versions,  \* artifact_versions per file; version n is the n-th element
    link,      \* artifact_attempt_versions: version per job and file, 0: none
    review,    \* review_queue.status per job, "none" without a row
    evidence,  \* review_queue.agent_output: the versions shown to a reviewer
    todo,      \* per publisher: events still to publish in this pass
    stage,     \* per publisher: the next call on the oldest of them
    refs,      \* per publisher: the references _publish collected for it
    faults,    \* failures so far
    direct     \* versions written by the API process so far

vars == <<outbox, output, published, versions, link, review, evidence,
          todo, stage, refs, faults, direct>>
stores == <<outbox, output, published, versions, link, review, evidence>>

NoRefs == [f \in File |-> 0]

Init ==
    /\ outbox = <<>>
    /\ output \in [Job -> Outputs]   \* read only once the job is in the outbox
    /\ published = {}
    /\ versions = [f \in File |-> <<>>]
    /\ link = [j \in Job |-> NoRefs]
    /\ review = [j \in Job |-> "none"]
    /\ evidence = [j \in Job |-> NoRefs]
    /\ todo = [p \in Publisher |-> {}]
    /\ stage = [p \in Publisher |-> "idle"]
    /\ refs = [p \in Publisher |-> NoRefs]
    /\ faults = 0
    /\ direct = 0

-----------------------------------------------------------------------------
\* The newest version already has this content hash.
IsLatest(old, c) == old # <<>> /\ Last(old).content = c

\* What job j's result says of file f: the first artifact with that name.
Produced(j, f) ==
    LET arts == output[j].artifacts
        first == {n \in DOMAIN arts : arts[n].file = f /\ \A m \in 1..(n - 1) : arts[m].file # f}
    IN  {arts[n].content : n \in first}

BugToStore(j, f) == Produced(j, f)   \* only the content of the newest version is compared
\* What ArtifactStore.record has to store of a file for the attempt of job j: a
\* version the attempt already has is reused, by a replay as by a later artifact
\* with the same name.
ToStore(j, f) == IF link[j][f] # 0 THEN {} ELSE Produced(j, f)

\* A newest version with the same hash is reused, otherwise a new one is written.
Stored(j, f, c) ==
    IF IsLatest(versions[f], c) THEN versions[f]
    ELSE Append(versions[f], [content |-> c, by |-> j])

\* Event j is older than event k.
Older(j, k) == \E m, n \in DOMAIN outbox : m < n /\ outbox[m] = j /\ outbox[n] = k

\* The event that p is at: the oldest of those it has still to publish.
Event(p, j) == j \in todo[p] /\ \A k \in todo[p] : ~Older(k, j)

\* The event is done (or given up until the next pass).
NextEvent(p, j) ==
    /\ todo' = [todo EXCEPT ![p] = @ \ {j}]
    /\ stage' = [stage EXCEPT ![p] = IF todo[p] = {j} THEN "idle" ELSE "record"]
    /\ refs' = [refs EXCEPT ![p] = NoRefs]

\* _finish commits a result with evidence and its outbox row.
CommitResult(j) ==
    /\ ~Contains(outbox, j)
    /\ outbox' = Append(outbox, j)
    /\ UNCHANGED <<output, published, versions, link, review, evidence,
                   todo, stage, refs, faults, direct>>

\* publish_pending: the rows with published_at IS NULL, oldest first.
BeginPass(p) ==
    /\ stage[p] = "idle"
    /\ LET pending == {j \in Job : Contains(outbox, j)} \ published IN
       /\ pending # {}
       /\ todo' = [todo EXCEPT ![p] = pending]
    /\ stage' = [stage EXCEPT ![p] = "record"]
    /\ UNCHANGED <<stores, refs, faults, direct>>

BugRecord(p, j) ==   \* a version the attempt already has is an integrity error
    /\ stage[p] = "record" /\ Event(p, j)
    /\ IF link[j] # NoRefs
       THEN NextEvent(p, j) /\ UNCHANGED <<versions, link>>
       ELSE /\ versions' = [f \in File |-> IF ToStore(j, f) = {} THEN versions[f]
                                           ELSE Stored(j, f, CHOOSE c \in ToStore(j, f) : TRUE)]
            /\ link' = [link EXCEPT ![j] = [f \in File |-> IF ToStore(j, f) = {} THEN @[f] ELSE Len(versions'[f])]]
            /\ refs' = [refs EXCEPT ![p] = link'[j]]
            /\ stage' = [stage EXCEPT ![p] = IF output[j].escalated THEN "review" ELSE "ack"]
            /\ UNCHANGED todo
    /\ UNCHANGED <<outbox, output, published, review, evidence, faults, direct>>
\* artifacts.record, one transaction, and the references read back from it.
Record(p, j) ==
    /\ stage[p] = "record" /\ Event(p, j)
    /\ versions' = [f \in File |-> IF ToStore(j, f) = {} THEN versions[f]
                                   ELSE Stored(j, f, CHOOSE c \in ToStore(j, f) : TRUE)]
    /\ link' = [link EXCEPT ![j] = [f \in File |-> IF ToStore(j, f) = {} THEN @[f] ELSE Len(versions'[f])]]
    /\ refs' = [refs EXCEPT ![p] = link'[j]]
    /\ stage' = [stage EXCEPT ![p] = IF output[j].escalated THEN "review" ELSE "ack"]
    /\ UNCHANGED <<outbox, output, published, review, evidence, todo, faults, direct>>

BugEnqueueReview(p, j) ==   \* INSERT OR REPLACE
    /\ stage[p] = "review" /\ Event(p, j)
    /\ review' = [review EXCEPT ![j] = "pending"]
    /\ evidence' = [evidence EXCEPT ![j] = refs[p]]
    /\ stage' = [stage EXCEPT ![p] = "check"]
    /\ UNCHANGED <<outbox, output, published, versions, link, todo, refs, faults, direct>>
\* reviews.enqueue: INSERT OR IGNORE.
EnqueueReview(p, j) ==
    /\ stage[p] = "review" /\ Event(p, j)
    /\ IF review[j] = "none"
       THEN /\ review' = [review EXCEPT ![j] = "pending"]
            /\ evidence' = [evidence EXCEPT ![j] = refs[p]]
       ELSE UNCHANGED <<review, evidence>>
    /\ stage' = [stage EXCEPT ![p] = "check"]
    /\ UNCHANGED <<outbox, output, published, versions, link, todo, refs, faults, direct>>

\* The row read back must show this completion's evidence; otherwise the
\* event is left for a later pass.
CheckReview(p, j) ==
    /\ stage[p] = "check" /\ Event(p, j)
    /\ IF review[j] # "none" /\ evidence[j] = refs[p]
       THEN /\ stage' = [stage EXCEPT ![p] = "ack"]
            /\ UNCHANGED <<todo, refs>>
       ELSE NextEvent(p, j)
    /\ UNCHANGED <<stores, faults, direct>>

\* jobs.acknowledge_completion.
Acknowledge(p, j) ==
    /\ stage[p] = "ack" /\ Event(p, j)
    /\ published' = published \cup {j}
    /\ NextEvent(p, j)
    /\ UNCHANGED <<outbox, output, versions, link, review, evidence, faults, direct>>

BugFails(p, j) ==   \* the failed event is acknowledged
    /\ Event(p, j)
    /\ faults < MaxFaults
    /\ faults' = faults + 1
    /\ published' = published \cup {j}
    /\ NextEvent(p, j)
    /\ UNCHANGED <<outbox, output, versions, link, review, evidence, direct>>
\* The next call raises and rolls back; publish_pending logs it and goes on.
Fails(p, j) ==
    /\ Event(p, j)
    /\ faults < MaxFaults
    /\ faults' = faults + 1
    /\ NextEvent(p, j)
    /\ UNCHANGED <<stores, direct>>

\* The process dies; another one, or the same after its restart, replays.
Dies(p) ==
    /\ stage[p] # "idle"
    /\ faults < MaxFaults
    /\ faults' = faults + 1
    /\ todo' = [todo EXCEPT ![p] = {}]
    /\ stage' = [stage EXCEPT ![p] = "idle"]
    /\ refs' = [refs EXCEPT ![p] = NoRefs]
    /\ UNCHANGED <<stores, direct>>

\* ReviewQueue.resolve: compare-and-set on status = 'pending'.
Resolve(j, decision) ==
    /\ review[j] = "pending"
    /\ review' = [review EXCEPT ![j] = decision]
    /\ UNCHANGED <<outbox, output, published, versions, link, evidence,
                   todo, stage, refs, faults, direct>>

\* A task routed in the API process records without an attempt.
RecordDirect(f, c) ==
    /\ direct < MaxDirect
    /\ ~IsLatest(versions[f], c)
    /\ versions' = [versions EXCEPT ![f] = Append(@, [content |-> c, by |-> "api"])]
    /\ direct' = direct + 1
    /\ UNCHANGED <<outbox, output, published, link, review, evidence,
                   todo, stage, refs, faults>>

Publish(p) ==
    \/ BeginPass(p)
    \/ \E j \in Job : Record(p, j) \/ EnqueueReview(p, j) \/ CheckReview(p, j) \/ Acknowledge(p, j)

Next ==
    \/ \E j \in Job : CommitResult(j)
    \/ \E p \in Publisher : Publish(p) \/ Dies(p) \/ \E j \in Job : Fails(p, j)
    \/ \E j \in Job, decision \in {"approved", "accepted", "rejected"} :
           Resolve(j, decision)
    \/ \E f \in File, c \in Content : RecordDirect(f, c)

\* The worker loop calls publish_pending for ever; the bound on faults says
\* that a store which failed answers again.
Fairness == \A p \in Publisher : WF_vars(Publish(p))

Spec == Init /\ [][Next]_vars /\ Fairness

-----------------------------------------------------------------------------
(* Properties *)

\* The stores and the publishers' positions have their declared shape.
TypeOK ==
    /\ outbox \in Seq(Job) /\ IsInjective(outbox)
    /\ output \in [Job -> Outputs]
    /\ published \subseteq Job
    /\ versions \in [File -> Seq([content : Content, by : Job \cup {"api"}])]
    /\ link \in [Job -> [File -> Nat]]
    /\ review \in [Job -> {"none", "pending", "approved", "accepted", "rejected"}]
    /\ evidence \in [Job -> [File -> Nat]]
    /\ todo \in [Publisher -> SUBSET Job]
    /\ stage \in [Publisher -> {"idle", "record", "review", "check", "ack"}]
    /\ \A p \in Publisher : (stage[p] = "idle") <=> (todo[p] = {})
    /\ refs \in [Publisher -> [File -> Nat]]
    /\ faults \in 0..MaxFaults
    /\ direct \in 0..MaxDirect

\* An acknowledged completion has left nothing behind: each file it produced
\* is in the artifact store with the content it produced, under the version
\* its attempt is linked to, and an escalated result has a review that shows
\* exactly these versions.  Acknowledging before, or after a failed call,
\* would lose evidence for ever.
PublishedIsComplete ==
    \A j \in published :
        /\ \A f \in File : \A c \in Produced(j, f) :
               /\ link[j][f] \in 1..Len(versions[f])
               /\ versions[f][link[j][f]].content = c
        /\ output[j].escalated => /\ review[j] # "none"
                                  /\ evidence[j] = link[j]

\* The publishers keep their place and what they acknowledge is complete
\* (publish_pending, _publish).
CompletionInv == TypeOK /\ PublishedIsComplete

\* However often an event is replayed, and whatever other jobs and the API
\* wrote to the same file meanwhile, an attempt adds at most one version of a
\* file; and no version repeats the one before it.
ReplayAddsNothing ==
    \A f \in File : \A m, n \in 1..Len(versions[f]) :
        /\ m # n /\ versions[f][m].by = versions[f][n].by => versions[f][m].by = "api"
        /\ n = m + 1 => versions[f][m].content # versions[f][n].content

\* A reviewer's decision, the evidence it was taken on, and stored versions
\* are never changed by a replay.
DecisionsStand ==
    [][/\ \A j \in Job :
              /\ review[j] \notin {"none", "pending"} => review'[j] = review[j]
              /\ review[j] # "none" => evidence'[j] = evidence[j]
       /\ \A f \in File : IsPrefix(versions[f], versions'[f])]_vars

\* Every committed result is published in the end, by one process or another.
AllPublished == \A j \in Job : Contains(outbox, j) ~> j \in published
=============================================================================
