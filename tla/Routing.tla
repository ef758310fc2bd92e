------------------------------- MODULE Routing -------------------------------
(***************************************************************************)
(* The routing graph of Andromeda (agents/andromeda/orchestrator.py,       *)
(* nodes.py), the policy gate in front of it with its single-use grants    *)
(* (core/policy), and the review of what it escalates.                     *)
(*                                                                         *)
(* A task is routed once by the API (direct), or once per attempt of its   *)
(* durable job: an attempt that lost its lease goes on beside the next     *)
(* one, and only the current attempt may commit its result.                *)
(***************************************************************************)
EXTENDS Naturals, Sequences, FiniteSets

CONSTANTS
    Task,              \* submissions, each with a fresh task id
    Of,                \* [Task -> Submission]: what is submitted
    Skill, Origin, Payload,
    Rules,             \* config/policy.yaml, in order
    Agent,             \* agents in the registry
    Offers,            \* [Agent -> SUBSET (Skill \X Origin)]: skills and who may use them
    Implemented,       \* registered agents that this process can run
    Confidence,        \* the confidences (percent) that agents report
    CompletionLevel,   \* completion threshold of a task that brings none
    FailureLevel,      \* confidence_failure_threshold
    RetryLevel,        \* the literal of handle_failure
    MaxAttempts,       \* attempts of a durable job
    None

Submission == [origin : Origin, skills : Seq(Skill), payload : Payload,
               threshold : Nat \cup {None}, durable : BOOLEAN]

ASSUME RoutingAssumption ==
    /\ \A t \in Task : Of[t] \in Submission /\ Len(Of[t].skills) > 0
    /\ Rules \in Seq([skills : SUBSET Skill, origins : SUBSET Origin,
                      action : {"deny", "require_review"}])
    /\ Offers \in [Agent -> SUBSET (Skill \X Origin)]
    /\ Implemented \subseteq Agent
    /\ Confidence \subseteq Nat
    /\ {CompletionLevel, FailureLevel, RetryLevel} \subseteq Nat
    /\ MaxAttempts \in Nat \ {0}
    /\ None \notin Skill \cup Agent \cup Nat
    /\ IsFiniteSet(Task)

VARIABLES
    route,     \* [Task -> [1..MaxAttempts -> Routing]]: the calls of route()
    current,   \* [Task -> Nat]: newest attempt, 0 before the submission
    grants,    \* [GrantKey -> Nat]: rows of policy_grants that can be consumed
    review,    \* [Task -> Review]: rows of review_queue
    granting,  \* [Task -> Nat]: approve calls between resolve and the grant
    log        \* [Task -> SUBSET Logged]: rows of the task log

vars == <<route, current, grants, review, granting, log>>

\* Where a call of route() is.
Nodes == {"none", "consume", "skill_match", "running", "complete", "escalate",
          "no_agent_found", "logged", "done", "dead"}
Final == {"complete", "escalated", "no_agent_found"}
Logged == Final \cup {"received"}
Attempts == 1..MaxAttempts

\* payload_digest, with the origin and the skill it is stored beside.
GrantKey == Origin \X Skill \X Payload
Key(t, s) == <<Of[t].origin, s, Of[t].payload>>

\* The fields of AndromedaState that decide something, and what the call has
\* done: grants consumed, agent runs.
Routing == [at : Nodes, todo : SUBSET Nat, confidence : Nat, retries : Nat,
            status : Final \cup {"routing", "failed"},
            hold : Skill \cup {None}, spent : SUBSET GrantKey, runs : Nat]

Fresh == [at |-> "none", todo |-> {}, confidence |-> 0, retries |-> 0, status |-> "routing",
          hold |-> None, spent |-> {}, runs |-> 0]

Review == [status : {"none", "pending", "approved", "accepted", "rejected"},
           hold   : GrantKey \cup {<<>>}]

Init ==
    /\ route = [t \in Task |-> [n \in Attempts |-> Fresh]]
    /\ current = [t \in Task |-> 0]
    /\ grants = [k \in GrantKey |-> 0]
    /\ review = [t \in Task |-> [status |-> "none", hold |-> <<>>]]
    /\ granting = [t \in Task |-> 0]
    /\ log = [t \in Task |-> {}]

-----------------------------------------------------------------------------
(* The policy engine *)

\* evaluate_skill: the first rule that matches decides; no rule, allowed.
EvaluateSkill(s, o) ==
    LET hits == {i \in DOMAIN Rules : s \in Rules[i].skills /\ o \in Rules[i].origins}
    IN  IF hits = {} THEN "allow"
        ELSE Rules[CHOOSE i \in hits : \A j \in hits : i <= j].action

Skills(t) == {Of[t].skills[i] : i \in DOMAIN Of[t].skills}
Decided(t, action) == {s \in Skills(t) : EvaluateSkill(s, Of[t].origin) = action}
Denied(t) == Decided(t, "deny") # {}

\* The held skills of each task, by their place in required_skills.
Held == [t \in Task |-> {i \in DOMAIN Of[t].skills : Of[t].skills[i] \in Decided(t, "require_review")}]

AfterPolicy(r) == [r EXCEPT !.at = IF r.todo = {} THEN "skill_match" ELSE "consume"]

BugPolicyCheck(t) ==   \* a held skill ends the look for denials
    IF Denied(t) /\ Held[t] = {} THEN [Fresh EXCEPT !.at = "no_agent_found"]
    ELSE AfterPolicy([Fresh EXCEPT !.todo = Held[t]])
\* policy_node, first loop: a denial of any skill ends the task before a grant
\* is touched.
PolicyCheck(t) ==
    IF Denied(t) THEN [Fresh EXCEPT !.at = "no_agent_found"]
    ELSE AfterPolicy([Fresh EXCEPT !.todo = Held[t]])

-----------------------------------------------------------------------------
(* The graph.  A node that only computes is part of the step before it.     *)

At(t, n, node) == route[t][n].at = node
Newest(t, node) == \E n \in Attempts : n = current[t] /\ At(t, n, node)
Move(t, n, r) == route' = [route EXCEPT ![t][n] = r]
Others == <<current, grants, review, granting, log>>

\* route(): the task is logged as received and the graph is entered.
Enter(t, n) ==
    /\ Move(t, n, PolicyCheck(t))
    /\ current' = [current EXCEPT ![t] = n]
    /\ log' = [log EXCEPT ![t] = @ \cup {"received"}]
    /\ UNCHANGED <<grants, review, granting>>

Submit(t) == current[t] = 0 /\ Enter(t, 1)

\* The durable attempt lost its lease: the next attempt routes the task again,
\* while the threads of the old one may go on.
NextAttempt(t) ==
    /\ Of[t].durable
    /\ current[t] \in 1..(MaxAttempts - 1)
    /\ ~Newest(t, "done")
    /\ Enter(t, current[t] + 1)

BugUseGrant(k) == UNCHANGED grants   \* found, and not marked as consumed
\* One row with consumed_at IS NULL gets its consumed_at.
UseGrant(k) == grants' = [grants EXCEPT ![k] = @ - 1]

\* policy_node, second loop: each held skill, in their order, consumes a grant
\* or holds the task for review.
ConsumeGrant(t, n) ==
    /\ At(t, n, "consume")
    /\ \E i \in route[t][n].todo :
         LET r == route[t][n]
             s == Of[t].skills[i]
             k == Key(t, s)
         IN  /\ \A j \in r.todo : i <= j
             /\ IF grants[k] > 0
                THEN /\ UseGrant(k)
                     /\ Move(t, n, AfterPolicy([r EXCEPT !.todo = @ \ {i}, !.spent = @ \cup {k}]))
                ELSE /\ Move(t, n, [r EXCEPT !.hold = s, !.at = "escalate"])
                     /\ UNCHANGED grants
    /\ UNCHANGED <<current, review, granting, log>>

\* Agents that offer every required skill to this origin.
Capable(t) == {a \in Agent : \A s \in Skills(t) : <<s, Of[t].origin>> \in Offers[a]}

\* _execute_node fails without a run when this process has no such agent: a
\* manifest in the registry may be left from an earlier boot.
Assign(r, a) ==
    IF a \in Implemented THEN [r EXCEPT !.at = "running", !.runs = @ + 1]
    ELSE [r EXCEPT !.at = "escalate", !.status = "failed", !.confidence = 0]

\* skill_match, load_check, assign and the call of the agent: routing weights,
\* which another thread reloads, and average confidences choose among the
\* capable agents.
SkillMatch(t, n) ==
    /\ At(t, n, "skill_match")
    /\ \/ /\ Capable(t) = {}
          /\ Move(t, n, [route[t][n] EXCEPT !.at = "no_agent_found"])
       \/ \E a \in Capable(t) : Move(t, n, Assign(route[t][n], a))
    /\ UNCHANGED Others

MayRetry(r) == r.retries < 1 /\ r.confidence >= RetryLevel

BugHandleFailure(t, r) ==   \* the retry enters the graph at its first node
    IF MayRetry(r)
    THEN AfterPolicy([r EXCEPT !.retries = @ + 1, !.status = "routing", !.todo = Held[t]])
    ELSE [r EXCEPT !.at = "escalate"]
\* handle_failure: one more match and run, or a human.
HandleFailure(t, r) ==
    IF MayRetry(r)
    THEN [r EXCEPT !.retries = @ + 1, !.status = "routing", !.at = "skill_match"]
    ELSE [r EXCEPT !.at = "escalate"]

Threshold(t) == IF Of[t].threshold = None THEN CompletionLevel ELSE Of[t].threshold

\* _after_execute, for a run that did not fail.
AfterExecute(t, r) ==
    IF r.confidence >= Threshold(t) THEN [r EXCEPT !.at = "complete"]
    ELSE IF r.confidence >= FailureLevel THEN HandleFailure(t, r)
    ELSE [r EXCEPT !.at = "escalate"]

AgentReturns(t, n, c) ==
    /\ At(t, n, "running")
    /\ Move(t, n, AfterExecute(t, [route[t][n] EXCEPT !.confidence = c,
                                                      !.status = "complete"]))
    /\ UNCHANGED Others

\* The agent raises, or the sandbox could not verify its program.
AgentFails(t, n) ==
    /\ At(t, n, "running")
    /\ Move(t, n, [route[t][n] EXCEPT !.confidence = 0, !.status = "failed",
                                      !.at = "escalate"])
    /\ UNCHANGED Others

\* The last node sets the status, and route() logs the final state.
EndGraph(t, n) ==
    /\ route[t][n].at \in {"complete", "escalate", "no_agent_found"}
    /\ LET r == route[t][n]
           final == IF r.at = "escalate" THEN "escalated" ELSE r.at
       IN  /\ log' = [log EXCEPT ![t] = @ \cup {final}]
           /\ Move(t, n, [r EXCEPT !.status = final, !.at = "logged"])
    /\ UNCHANGED <<current, grants, review, granting>>

-----------------------------------------------------------------------------
(* What becomes of the result *)

\* ReviewQueue.enqueue of an escalated result: one row per task, first wins.
EnqueueReview(t, n) ==
    LET r == route[t][n] IN
    review' = IF r.status = "escalated" /\ review[t].status = "none"
              THEN [review EXCEPT ![t] =
                       [status |-> "pending",
                        hold   |-> IF r.hold = None THEN <<>> ELSE Key(t, r.hold)]]
              ELSE review

\* A direct call stores its evidence before it returns (artifacts: Completion).
Return(t, n) ==
    /\ ~Of[t].durable
    /\ At(t, n, "logged")
    /\ EnqueueReview(t, n)
    /\ Move(t, n, [route[t][n] EXCEPT !.at = "done"])
    /\ UNCHANGED <<current, grants, granting, log>>

BugCommit(t, n) ==   \* any attempt that ends exposes its evidence
    /\ Of[t].durable
    /\ At(t, n, "logged")
    /\ EnqueueReview(t, n)
    /\ Move(t, n, [route[t][n] EXCEPT !.at = "done"])
    /\ UNCHANGED <<current, grants, granting, log>>
\* route() returns to the worker; the repository takes the result of the
\* current attempt only, and the publisher writes its review.
Commit(t, n) ==
    /\ Of[t].durable
    /\ At(t, n, "logged")
    /\ n = current[t]
    /\ EnqueueReview(t, n)
    /\ Move(t, n, [route[t][n] EXCEPT !.at = "done"])
    /\ UNCHANGED <<current, grants, granting, log>>

\* The process dies, or the result of an attempt is discarded.
Dies(t, n) ==
    /\ route[t][n].at \notin {"none", "done", "dead"}
    /\ Move(t, n, [route[t][n] EXCEPT !.at = "dead"])
    /\ UNCHANGED Others

-----------------------------------------------------------------------------
(* Reviewers and grants *)

\* ReviewQueue.resolve: a decided item is not decided again.
Resolve(t, decision) ==
    /\ review[t].status = "pending"
    /\ review' = [review EXCEPT ![t].status = decision]

\* approve_task, accept_task, reject_task: the decision is committed first.
\* The task log gets a row for it, which nothing here reads.
Decide(t, decision) ==
    /\ Resolve(t, decision)
    /\ granting' = IF decision \in {"approved", "accepted"} /\ review[t].hold # <<>>
                   THEN [granting EXCEPT ![t] = @ + 1] ELSE granting
    /\ UNCHANGED <<route, current, grants, log>>

\* _issue_policy_grant.
IssueGrant(t) ==
    /\ granting[t] > 0
    /\ granting' = [granting EXCEPT ![t] = @ - 1]
    /\ grants' = [grants EXCEPT ![review[t].hold] = @ + 1]
    /\ UNCHANGED <<route, current, review, log>>

\* The API dies after the decision: the grant is never issued.
GrantLost(t) ==
    /\ granting[t] > 0
    /\ granting' = [granting EXCEPT ![t] = @ - 1]
    /\ UNCHANGED <<route, current, grants, review, log>>

\* expires_at passes: consume does not see the row any more.
Expire(k) ==
    /\ grants[k] > 0
    /\ grants' = [grants EXCEPT ![k] = @ - 1]
    /\ UNCHANGED <<route, current, review, granting, log>>

GraphStep(t, n) ==
    \/ ConsumeGrant(t, n) \/ SkillMatch(t, n) \/ AgentFails(t, n)
    \/ \E c \in Confidence : AgentReturns(t, n, c)
    \/ EndGraph(t, n) \/ Return(t, n) \/ Commit(t, n)

Next ==
    \/ \E t \in Task : Submit(t) \/ NextAttempt(t) \/ IssueGrant(t) \/ GrantLost(t)
    \/ \E t \in Task, n \in Attempts : GraphStep(t, n) \/ Dies(t, n)
    \/ \E t \in Task, d \in {"approved", "accepted", "rejected"} : Decide(t, d)
    \/ \E k \in GrantKey : Expire(k)

Spec == Init /\ [][Next]_vars

-----------------------------------------------------------------------------
(* Properties *)

\* The state has its declared shape.
TypeOK ==
    /\ route \in [Task -> [Attempts -> Routing]]
    /\ current \in [Task -> 0..MaxAttempts]
    /\ grants \in [GrantKey -> Nat]
    /\ review \in [Task -> Review]
    /\ granting \in [Task -> Nat]
    /\ log \in [Task -> SUBSET Logged]

HeldKeys == [t \in Task |-> {Key(t, s) : s \in Decided(t, "require_review")}]

\* No run of an agent that the policy holds for review is without an approval
\* of its own: calls of route() that ran are never more than the approved
\* reviews of that origin, skill and payload, whatever calls, attempts and
\* reviewers race for the grants (consume, resolve, _issue_policy_grant).
ApprovalsCoverRuns ==
    \A k \in GrantKey :
        Cardinality({c \in Task \X Attempts : /\ k \in HeldKeys[c[1]]
                                              /\ route[c[1]][c[2]].runs > 0})
        <= Cardinality({t \in Task : /\ review[t].status \in {"approved", "accepted"}
                                     /\ review[t].hold = k})

\* A task with a denied skill runs no agent, and spends no grant that was
\* issued for another of its skills (the two loops of policy_node).
DenialIsFree ==
    \A t \in Task, n \in Attempts :
        Denied(t) => route[t][n].runs = 0 /\ route[t][n].spent = {}

\* A call runs an agent at most twice, and what it reports as complete was
\* reported by its last run with enough confidence for this task
\* (_after_execute, handle_failure).
OutcomeEarned ==
    \A t \in Task, n \in Attempts :
        LET r == route[t][n] IN
        /\ r.runs <= 2
        /\ r.status = "complete" /\ r.at \in {"logged", "done"} =>
               r.runs > 0 /\ r.confidence >= Threshold(t)

\* Every call of route() is where the graph can be, and neither a denial nor a
\* confidence below the threshold passes for a completed run (policy_node,
\* _after_execute, handle_failure).
RoutingInv == TypeOK /\ DenialIsFree /\ OutcomeEarned

\* A review stands for a logged result, and of a durable task for the result
\* its job committed: attempts that lost the job expose nothing (route()
\* returns early when it has an execution_attempt_id).
ReviewIsCommitted ==
    \A t \in Task : review[t].status # "none" =>
        /\ "escalated" \in log[t]
        /\ \E n \in Attempts :
               LET r == route[t][n] IN
               /\ n = current[t]
               /\ r.at = "done" /\ r.status = "escalated"
               /\ review[t].hold = IF r.hold = None THEN <<>> ELSE Key(t, r.hold)

\* A task that is in review for a policy hold has run no agent, unless an
\* attempt that has lost the task's job consumed a grant and ran: neither the
\* call that is held nor a retry within it runs under a hold (policy_node,
\* handle_failure, _release_goal_task_after_review).
HeldRanOnlyWhenLost ==
    \A t \in Task, n \in Attempts :
        review[t].hold # <<>> /\ route[t][n].runs > 0 =>
            n < current[t] /\ review[t].hold \in route[t][n].spent
=============================================================================
