------------------------------ MODULE Learning ------------------------------
(***************************************************************************)
(* What Orion learns and how it reaches the agents: lessons proposed from  *)
(* human corrections and gated by a reviewer (orion/pipeline/              *)
(* lesson_proposal.py, orion/core/lesson_store.py, the /lessons            *)
(* endpoints), the agents' memory (core/nebula/store.py), fine-tuning      *)
(* candidates (finetune_detector.py, candidate_store.py,                   *)
(* candidate_client.py) and the routing weights (heuristic_generator.py,   *)
(* weights_loader.py).                                                     *)
(*                                                                         *)
(* Every endpoint runs in a thread of the service; a step is one database  *)
(* transaction, one file replacement or one LLM call.  A reply of the LLM  *)
(* is a set of contents.  Skills stand for (skill, agent) pairs, one agent *)
(* each.  Confidences are percents, weights ten-thousandths.               *)
(***************************************************************************)
EXTENDS Integers, Sequences, FiniteSets, FiniteSetsExt, SequencesExt, Functions

CONSTANTS Skills, Agents, None,
          Correction,      \* [Skills -> set of event ids with a human correction]
          Content,         \* what a lesson may say
          LessonIds,       \* bound: lessons that may be stored
          Requests,        \* concurrent requests of one kind
          MinExamples,     \* corrections a proposal needs (min_examples)
          MaxLessons,      \* MAX_LESSONS
          MaxMemories,     \* bound: memories written
          SkillLessons,    \* MAX_SKILL_LESSONS
          Averages,        \* the average confidences that occur
          Scores,          \* the scores per agent that occur: a set of [Agents -> percent]
          MaxExtras        \* bound: crashes, failures and direct writes or deletions of memories

VARIABLES lesson,     \* lesson_candidates: [LessonIds -> row or None]
          used,       \* lesson_sources
          propose,    \* POST /lessons/propose in progress: [Requests -> state]
          review,     \* POST /lessons/{id}/approve in progress: [Requests -> state]
          memories,   \* Nebula, oldest first
          candidate,  \* finetune_candidates: [Agents -> row or None]
          decide,     \* candidate reviews in progress: [Requests -> state]
          weights,    \* the weights file: version, weights, metrics
          seen,       \* the events: [Skills -> average, scores, enough of them]
          written,    \* history: [LessonIds -> memories written for the lesson]
          extras,     \* crashes, failures, direct writes and deletions so far
          cut,        \* history: lessons whose approval a crash interrupted
          reverted    \* history: lessons whose approval was taken back

lessonVars    == <<lesson, used, propose, review, memories, written, cut, reverted>>
candidateVars == <<candidate, decide>>
weightVars    == <<weights, seen>>
vars == <<lessonVars, candidateVars, weightVars, extras>>

\* A row of lesson_candidates.
Evidence == UNION {Correction[s] : s \in Skills}
LessonRow == [skill : Skills, content : Content, status : {"pending", "approved", "rejected"},
              evidence : SUBSET Evidence, memory : {None, "attached"}]

\* An event belongs to one skill, and no row and no content is NULL.
ASSUME LearningAssumption ==
    /\ \A s, q \in Skills : s # q => Correction[s] \cap Correction[q] = {}
    /\ None \notin LessonRow \cup Content \cup LessonIds \cup Skills

NoProposal == [at |-> "idle", todo |-> {}, skill |-> None, evidence |-> {}, fresh |-> {}]
NoReview   == [at |-> "idle", lesson |-> None, edited |-> None, content |-> None]
NoDecision == [at |-> "idle", agent |-> None, to |-> None]

Extra == extras < MaxExtras /\ extras' = extras + 1

Stored == {l \in LessonIds : lesson[l] # None}

-----------------------------------------------------------------------------
(* Proposals.                                                              *)

\* _correction_groups: the corrected events no lesson has used.
Groups == {s \in Skills : Cardinality(Correction[s] \ used) >= MinExamples}

\* propose_lessons reads the groups once ...
StartProposal(r) ==
    /\ propose[r].at = "idle" /\ Groups # {}
    /\ propose' = [propose EXCEPT ![r] = [NoProposal EXCEPT !.at = "group", !.todo = Groups,
           !.evidence = UNION {Correction[s] \ used : s \in Groups}]]
    /\ UNCHANGED <<lesson, used, review, memories, written, cut, reverted, candidateVars, weightVars, extras>>

\* has_content: the lesson is pending or approved for the skill.
HasContent(s, c) ==
    \E l \in Stored : /\ lesson[l].skill = s /\ lesson[l].content = c
                      /\ lesson[l].status \in {"pending", "approved"}

\* What a reply leads to: fresh lessons to store, or, when all of them are
\* known already, the evidence is spent; an empty reply leaves it for later.
AfterReply(r, s, reply) ==
    LET fresh == {c \in reply : ~HasContent(s, c)} IN
    /\ propose' = [propose EXCEPT ![r] =
                      [propose[r] EXCEPT !.at = IF fresh = {} THEN "group" ELSE "add",
                                         !.skill = IF fresh = {} THEN None ELSE s,
                                         !.todo = @ \ {s}, !.fresh = fresh]]
    /\ used' = IF reply # {} /\ fresh = {} THEN used \cup (propose[r].evidence \cap Correction[s])
               ELSE used

\* ... asks the LLM about each ...
Reply(r, s, reply) ==
    /\ propose[r].at = "group" /\ s \in propose[r].todo
    /\ AfterReply(r, s, reply)
    /\ UNCHANGED <<lesson, review, memories, written, cut, reverted, candidateVars, weightVars, extras>>

\* ... and leaves the group if the LLM fails or does not answer with a list.
ReplyFails(r, s) ==
    /\ Extra
    /\ propose[r].at = "group" /\ s \in propose[r].todo
    /\ propose' = [propose EXCEPT ![r].todo = @ \ {s}]
    /\ UNCHANGED <<lesson, used, review, memories, written, cut, reverted, candidateVars, weightVars>>

\* add: the candidate and its sources in one transaction, lesson by lesson.
AddLesson(r, l) ==
    /\ propose[r].at = "add" /\ lesson[l] = None
    /\ l = CHOOSE k \in LessonIds \ Stored : TRUE
    /\ \E c \in propose[r].fresh :
          LET ev == propose[r].evidence \cap Correction[propose[r].skill] IN
          /\ lesson' = [lesson EXCEPT ![l] = [skill |-> propose[r].skill, content |-> c,
                           status |-> "pending", evidence |-> ev, memory |-> None]]
          /\ used' = used \cup ev
          /\ propose' = [propose EXCEPT ![r] =
                            [propose[r] EXCEPT !.fresh = @ \ {c},
                                               !.at = IF propose[r].fresh = {c} THEN "group" ELSE "add",
                                               !.skill = IF propose[r].fresh = {c} THEN None ELSE @]]
    /\ UNCHANGED <<review, memories, written, cut, reverted, candidateVars, weightVars, extras>>

EndProposal(r) ==
    /\ \/ propose[r].at = "group" /\ propose[r].todo = {}
       \/ propose[r].at = "add" /\ Stored = LessonIds   \* the bound on lessons
    /\ propose' = [propose EXCEPT ![r] = NoProposal]
    /\ UNCHANGED <<lesson, used, review, memories, written, cut, reverted, candidateVars, weightVars, extras>>

-----------------------------------------------------------------------------
(* Reviews of lessons.                                                     *)

BugClaim(l, to, edited) ==   \* the status is not compared in the update
    /\ l \in Stored
    /\ lesson' = [lesson EXCEPT ![l] = [lesson[l] EXCEPT !.status = to, !.content = IF edited = None THEN @ ELSE edited]]
\* claim: pending -> approved or rejected, once; an edit replaces the content.
Claim(l, to, edited) ==
    /\ l \in Stored /\ lesson[l].status = "pending"
    /\ lesson' = [lesson EXCEPT ![l] = [lesson[l] EXCEPT !.status = to, !.content = IF edited = None THEN @ ELSE edited]]

\* approve_skill_lesson reads the lesson, with an edited content or None ...
StartReview(r, l, edited) ==
    /\ review[r].at = "idle" /\ l \in Stored
    /\ review' = [review EXCEPT ![r] = [at |-> "read", lesson |-> l, edited |-> edited, content |-> lesson[l].content]]
    /\ UNCHANGED <<lesson, used, propose, memories, written, cut, reverted, candidateVars, weightVars, extras>>

\* ... claims it, then remembers it and attaches the memory.
Approve(r) ==
    /\ review[r].at = "read"
    /\ IF lesson[review[r].lesson].status = "pending"
       THEN /\ Claim(review[r].lesson, "approved", review[r].edited)
            /\ review' = [review EXCEPT ![r].at = "claimed"]
       ELSE review' = [review EXCEPT ![r] = NoReview] /\ UNCHANGED lesson   \* 409
    /\ UNCHANGED <<used, propose, memories, written, cut, reverted, candidateVars, weightVars, extras>>

\* reject_skill_lesson.
Reject(l) ==
    /\ Claim(l, "rejected", None)
    /\ UNCHANGED <<used, propose, review, memories, written, cut, reverted, candidateVars, weightVars, extras>>

\* remember: one row in the skill's namespace, with the edited content or the
\* one read at the start.
Remember(r) ==
    /\ review[r].at = "claimed" /\ Len(memories) < MaxMemories
    /\ LET l == review[r].lesson
           text == IF review[r].edited = None THEN review[r].content ELSE review[r].edited IN
       /\ memories' = Append(memories, [skill |-> lesson[l].skill, content |-> text, lesson |-> l])
       /\ written' = [written EXCEPT ![l] = @ + 1]
    /\ review' = [review EXCEPT ![r].at = "remembered"]
    /\ UNCHANGED <<lesson, used, propose, cut, reverted, candidateVars, weightVars, extras>>

\* The write fails: revert puts the lesson back to pending, with the content it
\* has now.
RememberFails(r) ==
    /\ Extra
    /\ review[r].at = "claimed"
    /\ LET l == review[r].lesson IN lesson' = [lesson EXCEPT ![l] = [lesson[l] EXCEPT !.status = "pending", !.memory = None]]
    /\ review' = [review EXCEPT ![r] = NoReview]
    /\ reverted' = reverted \cup {review[r].lesson}
    /\ UNCHANGED <<used, propose, memories, written, cut, candidateVars, weightVars>>

\* attach_memory.
Attach(r) ==
    /\ review[r].at = "remembered"
    /\ lesson' = [lesson EXCEPT ![review[r].lesson].memory = "attached"]
    /\ review' = [review EXCEPT ![r] = NoReview]
    /\ UNCHANGED <<used, propose, memories, written, cut, reverted, candidateVars, weightVars, extras>>

\* POST /memory: any caller may write to any namespace.
RememberDirectly(s, c) ==
    /\ Extra
    /\ Len(memories) < MaxMemories
    /\ memories' = Append(memories, [skill |-> s, content |-> c, lesson |-> None])
    /\ UNCHANGED <<lesson, used, propose, review, written, cut, reverted, candidateVars, weightVars>>

\* DELETE /memory/{id}.
Forget(i) ==
    /\ Extra
    /\ memories' = RemoveAt(memories, i)
    /\ UNCHANGED <<lesson, used, propose, review, written, cut, reverted, candidateVars, weightVars>>

\* recall, for route: the newest memories of the skill.
Recalled(s) ==
    {i \in DOMAIN memories :
        /\ memories[i].skill = s
        /\ Cardinality({j \in DOMAIN memories : j > i /\ memories[j].skill = s}) < SkillLessons}

-----------------------------------------------------------------------------
(* Fine-tuning candidates.                                                 *)

\* check: an agent with enough good events and no candidate of any status.
Detect(a) ==
    /\ candidate[a] = None
    /\ candidate' = [candidate EXCEPT ![a] = [status |-> "pending", by |-> None]]
    /\ UNCHANGED <<decide, lessonVars, weightVars, extras>>

\* approve_finetune_candidate and reject_finetune_candidate read the row ...
StartDecision(r, a, to) ==
    /\ decide[r].at = "idle"
    /\ candidate[a] # None /\ candidate[a].status = "pending"
    /\ decide' = [decide EXCEPT ![r] = [at |-> "read", agent |-> a, to |-> to]]
    /\ UNCHANGED <<candidate, lessonVars, weightVars, extras>>

BugSetStatus(a, to, r) == [candidate EXCEPT ![a] = [status |-> to, by |-> r]]   \* the last update wins
\* ... and update it where it is still pending; the answer does not say whether
\* it was.
SetStatus(a, to, r) ==
    IF candidate[a].status = "pending" THEN [candidate EXCEPT ![a] = [status |-> to, by |-> r]] ELSE candidate

FinishDecision(r) ==
    /\ decide[r].at = "read"
    /\ candidate' = SetStatus(decide[r].agent, decide[r].to, r)
    /\ decide' = [decide EXCEPT ![r] = NoDecision]
    /\ UNCHANGED <<lessonVars, weightVars, extras>>

-----------------------------------------------------------------------------
(* Routing weights.                                                        *)

Unit == 10000
Tolerance == 500     \* WEIGHT_TOLERANCE
Improvement == 5     \* IMPROVEMENT_THRESHOLD

Total(f) == FoldFunction(LAMBDA x, y : x + y, 0, f)

\* Averages and scores are percentages.
ASSUME WeightsAssumption == Averages \subseteq Int /\ Scores \subseteq [Agents -> Int]

\* round(x / t, 4) in ten-thousandths: to the nearest, ties to the even one.
Rounded(x, t) ==
    LET q == (x * Unit) \div t
        r == 2 * ((x * Unit) % t)
    IN  IF r > t \/ (r = t /\ q % 2 = 1) THEN q + 1 ELSE q

\* _suggested_weights: each agent's share of the scores.
SuggestedWeights(s) ==
    LET score == seen[s].scores
    IN  [a \in Agents |-> IF Total(score) <= 0 THEN Rounded(1, Cardinality(Agents))
                          ELSE Rounded(score[a], Total(score))]

\* _weights_match.
WeightsMatch(s) ==
    \A a \in Agents : LET d == weights.of[s][a] - SuggestedWeights(s)[a] IN d <= Tolerance /\ -d <= Tolerance

BugLastAverage(s) == IF weights.metrics[s] # None THEN weights.metrics[s] ELSE 0   \* no baseline after version 0
\* _last_avg_confidence: the average at the skill's last update; without one,
\* nothing before the first version and today's average after it.
LastAverage(s) ==
    IF weights.metrics[s] # None THEN weights.metrics[s]
    ELSE IF weights.version = 0 THEN 0 ELSE seen[s].average

\* should_update_weights.
ShouldUpdate(s) ==
    /\ seen[s].enough
    /\ seen[s].average - LastAverage(s) > Improvement
    /\ WeightsMatch(s) => weights.version = 0

\* run: every skill is judged by the file as it was read, then the file is
\* replaced as a whole.
UpdateWeights ==
    LET up == {s \in Skills : ShouldUpdate(s)} IN
    /\ up # {}
    /\ weights' = [version |-> weights.version + 1,
                   of      |-> [s \in Skills |-> IF s \in up THEN SuggestedWeights(s) ELSE weights.of[s]],
                   metrics |-> [s \in Skills |-> IF s \in up THEN seen[s].average ELSE weights.metrics[s]]]
    /\ UNCHANGED <<seen, lessonVars, candidateVars, extras>>

\* New events change what the window of a skill says: the average lies between
\* the agents' own, and an agent without events scores 0.
Observe(s, avg, sc) ==
    /\ \E a \in Agents : sc[a] >= avg
    /\ \E a \in Agents : sc[a] \in 1..avg
    /\ seen' = [seen EXCEPT ![s] = [average |-> avg, scores |-> sc, enough |-> TRUE]]
    /\ UNCHANGED <<weights, lessonVars, candidateVars, extras>>

-----------------------------------------------------------------------------
\* The service dies: the requests in progress end where they are.
Crash ==
    /\ Extra
    /\ propose' = [r \in Requests |-> NoProposal]
    /\ review' = [r \in Requests |-> NoReview]
    /\ decide' = [r \in Requests |-> NoDecision]
    /\ cut' = cut \cup {review[r].lesson : r \in {q \in Requests : review[q].at = "claimed"}}
    /\ UNCHANGED <<lesson, used, memories, written, reverted, candidate, weightVars>>

LessonInit ==
    /\ lesson = [l \in LessonIds |-> None] /\ used = {}
    /\ propose = [r \in Requests |-> NoProposal] /\ review = [r \in Requests |-> NoReview]
    /\ memories = <<>> /\ written = [l \in LessonIds |-> 0] /\ cut = {} /\ reverted = {} /\ extras = 0

CandidateInit == candidate = [a \in Agents |-> None] /\ decide = [r \in Requests |-> NoDecision]

\* The seed file: version 0, one agent per skill.
WeightInit ==
    /\ weights = [version |-> 0, metrics |-> [s \in Skills |-> None],
                  of |-> [s \in Skills |-> [a \in Agents |-> IF a = CHOOSE b \in Agents : TRUE THEN Unit ELSE 0]]]
    /\ seen = [s \in Skills |-> [average |-> 0, scores |-> [a \in Agents |-> 0], enough |-> FALSE]]

Init == LessonInit /\ CandidateInit /\ WeightInit

LessonNext ==
    \/ \E r \in Requests : StartProposal(r) \/ EndProposal(r) \/ Approve(r) \/ Remember(r) \/ RememberFails(r) \/ Attach(r)
    \/ \E r \in Requests, s \in Skills, reply \in kSubset(1, Content) \cup kSubset(MaxLessons, Content) \cup {{}} :
           Reply(r, s, reply)
    \/ \E r \in Requests, s \in Skills : ReplyFails(r, s)
    \/ \E r \in Requests, l \in LessonIds : AddLesson(r, l)
    \/ \E r \in Requests, l \in LessonIds, edited \in Content \cup {None} : StartReview(r, l, edited)
    \/ \E l \in LessonIds : Reject(l)
    \/ \E s \in Skills, c \in Content : RememberDirectly(s, c)
    \/ \E i \in 1..Len(memories) : Forget(i)

CandidateNext ==
    \/ \E a \in Agents : Detect(a)
    \/ \E r \in Requests, a \in Agents, to \in {"approved", "rejected"} : StartDecision(r, a, to)
    \/ \E r \in Requests : FinishDecision(r)

WeightNext ==
    \/ UpdateWeights
    \/ \E s \in Skills, avg \in Averages, sc \in Scores : Observe(s, avg, sc)

Next == LessonNext \/ CandidateNext \/ WeightNext \/ Crash

Spec == Init /\ [][Next]_vars

-----------------------------------------------------------------------------
(* Properties.                                                             *)

\* A recalled memory that names a lesson belongs to an approved one, written once, with
\* the text the reviewer approved (unless a review in between was taken back,
\* whose edit stays in the row); and an approved lesson that nobody is still
\* working on has been written, unless a crash cut the approval short.
MemoryMatchesReview ==
    /\ \A s \in Skills : \A i \in Recalled(s) :
          LET m == memories[i] IN
          m.lesson # None =>
              /\ lesson[m.lesson].status = "approved" /\ lesson[m.lesson].skill = s
              /\ lesson[m.lesson].content = m.content \/ m.lesson \in reverted
    /\ \A l \in Stored :
          /\ written[l] <= 1
          /\ (lesson[l].status = "approved" /\ l \notin cut
               /\ \A r \in Requests : review[r].lesson = l => review[r].at = "read") => written[l] = 1

\* Corrections are spent only on a skill that has got a lesson: an outage, an
\* unusable or an empty reply leaves them for the next proposal, whatever the
\* proposals beside it do.
EvidenceKept ==
    \A s \in Skills : used \cap Correction[s] # {} => \E l \in Stored : lesson[l].skill = s

\* What lessons leave in memory was reviewed and what they use up was used
\* (approve_skill_lesson, propose_lessons, claim, revert).
LessonsInv == MemoryMatchesReview /\ EvidenceKept

\* A decided candidate stays decided as it was: the second of two reviewers,
\* and the detector's next pass, change nothing.
DecisionStands ==
    [][\A a \in Agents : candidate[a] # None /\ candidate[a].status # "pending" => candidate'[a] = candidate[a]]_vars

\* A skill that has no recorded average when the first version is written
\* keeps the weights it has: its baseline is then always today's average.
KeepsWeights(s) == weights.version > 0 /\ weights.metrics[s] = None => weights'.of[s] = weights.of[s]

\* The routing weights of a skill add up to one, to the rounding, and late
\* skills keep theirs (_last_avg_confidence, _suggested_weights).
LateSkillsStay ==
    [][\A s \in Skills : Total(weights'.of[s]) - Unit \in -1..1 /\ KeepsWeights(s)]_vars
=============================================================================
