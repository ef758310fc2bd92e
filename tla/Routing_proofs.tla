--------------------------- MODULE Routing_proofs ---------------------------
(***************************************************************************)
(* The routing graph, the policy gate and the review queue, for every set  *)
(* of tasks and agents, every policy, every threshold and every number of  *)
(* attempts.                                                               *)
(*                                                                         *)
(* None of the four properties is inductive: that runs are covered by      *)
(* approvals is a balance of the grants at hand, the grants consumed and   *)
(* the grants still to be issued, and needs what the place of a call in    *)
(* the graph says of the grants it has consumed; that a review is the      *)
(* committed result needs that only the newest attempt is ever done.       *)
(***************************************************************************)
EXTENDS Routing, FiniteSetTheorems, TLAPS

\* What the place of a call in the graph says about it.
CallOK(t, r) ==
    /\ r.at = "none" => r = Fresh
    /\ r.runs <= r.retries + 1 /\ r.retries <= 1
    /\ r.at = "skill_match" => r.runs <= r.retries
    /\ r.at \in {"running", "complete"} => r.runs > 0
    /\ r.at = "complete" => r.confidence >= Threshold(t)
    /\ r.at \in {"logged", "done"} =>
          /\ r.status \in Final
          /\ r.status = "complete" => r.runs > 0 /\ r.confidence >= Threshold(t)

\* What a call has consumed and what holds it.
PolicyOK(t, r) ==
    /\ Denied(t) => r.runs = 0 /\ r.spent = {} /\ r.at \in {"none", "no_agent_found", "logged", "done", "dead"}
    /\ r.at = "consume" => /\ r.runs = 0 /\ r.hold = None /\ r.todo \subseteq Held[t]
                           /\ HeldKeys[t] \subseteq r.spent \cup {Key(t, Of[t].skills[i]) : i \in r.todo}
    /\ (r.at \in {"skill_match", "running"} \/ r.runs > 0) => HeldKeys[t] \subseteq r.spent
    /\ r.hold # None => /\ r.hold \in Decided(t, "require_review") /\ r.runs = 0
                        /\ r.at \in {"escalate", "logged", "done", "dead"}

CallsInv == \A t \in Task, n \in Attempts : CallOK(t, route[t][n]) /\ PolicyOK(t, route[t][n])

\* Attempts are made one after the other, and only the newest may be done.
AttemptsInv ==
    \A t \in Task :
        /\ ~Of[t].durable => current[t] <= 1
        /\ \A n \in Attempts :
              /\ n > current[t] => route[t][n] = Fresh
              /\ n <= current[t] => route[t][n].at # "none"
              /\ route[t][n].at = "done" => n = current[t]
              /\ route[t][n].at \in {"logged", "done"} /\ route[t][n].status = "escalated" => "escalated" \in log[t]

\* Reviews stand for committed results, and a grant is owed once per approval.
ReviewsInv ==
    /\ ReviewIsCommitted
    /\ \A t \in Task :
          /\ review[t].status = "none" => review[t].hold = <<>>
          /\ granting[t] <= 1
          /\ granting[t] > 0 => review[t].status \in {"approved", "accepted"} /\ review[t].hold # <<>>

\* The calls that consumed a grant, the approvals whose grant is owed, and
\* the approvals.
SpentBy(k) == {c \in Task \X Attempts : k \in route[c[1]][c[2]].spent}
Owed(k) == {t \in Task : granting[t] > 0 /\ review[t].hold = k}
Approved(k) == {t \in Task : review[t].status \in {"approved", "accepted"} /\ review[t].hold = k}

\* Grants at hand, consumed and owed are never more than the approvals.
Balanced ==
    \A k \in GrantKey :
        grants[k] + Cardinality(SpentBy(k)) + Cardinality(Owed(k)) <= Cardinality(Approved(k))

RoutingIInv == TypeOK /\ CallsInv /\ AttemptsInv /\ ReviewsInv /\ Balanced

-----------------------------------------------------------------------------
(* What a submission is.                                                    *)

LEMMA Submitted ==
    ASSUME NEW t \in Task
    PROVE  /\ Of[t].origin \in Origin /\ Of[t].payload \in Payload /\ Of[t].skills \in Seq(Skill)
           /\ Threshold(t) \in Nat
           /\ Skills(t) \subseteq Skill /\ Decided(t, "require_review") \subseteq Skill
           /\ \A s \in Skill : Key(t, s) \in GrantKey
           /\ HeldKeys[t] \subseteq GrantKey /\ HeldKeys[t] = {Key(t, s) : s \in Decided(t, "require_review")}
           /\ Held[t] \subseteq Nat
           /\ \A i \in Held[t] : Of[t].skills[i] \in Decided(t, "require_review")
           /\ \A s \in Decided(t, "require_review") : \E i \in Held[t] : Of[t].skills[i] = s
  <1>1. Of[t] \in Submission
    BY RoutingAssumption
  <1>2. Of[t].origin \in Origin /\ Of[t].payload \in Payload /\ Of[t].skills \in Seq(Skill)
        /\ Of[t].threshold \in Nat \cup {None}
    BY <1>1 DEF Submission
  <1>3. Threshold(t) \in Nat
    BY <1>2, RoutingAssumption DEF Threshold
  <1>4. Skills(t) \subseteq Skill /\ Decided(t, "require_review") \subseteq Skill
    BY <1>2 DEF Skills, Decided
  <1>5. \A s \in Skill : Key(t, s) \in GrantKey
    BY <1>2 DEF Key, GrantKey
  <1>6. HeldKeys[t] = {Key(t, s) : s \in Decided(t, "require_review")}
    BY DEF HeldKeys
  <1>7. HeldKeys[t] \subseteq GrantKey
    BY <1>4, <1>5, <1>6
  <1>8. Held[t] = {i \in DOMAIN Of[t].skills : Of[t].skills[i] \in Decided(t, "require_review")}
    BY DEF Held
  <1>9. DOMAIN Of[t].skills \subseteq Nat
    BY <1>2
  <1>10. \A s \in Decided(t, "require_review") : \E i \in Held[t] : Of[t].skills[i] = s
    BY <1>8 DEF Decided, Skills
  <1> QED
    BY <1>2, <1>3, <1>4, <1>5, <1>6, <1>7, <1>8, <1>9, <1>10

\* The sets that the balance counts are finite.
LEMMA CountsFinite ==
    /\ IsFiniteSet(Task \X Attempts)
    /\ \A S \in SUBSET Task : IsFiniteSet(S) /\ Cardinality(S) \in Nat
    /\ \A S \in SUBSET (Task \X Attempts) : IsFiniteSet(S) /\ Cardinality(S) \in Nat
  <1>1. IsFiniteSet(Attempts)
    BY RoutingAssumption, FS_Interval DEF Attempts
  <1>2. IsFiniteSet(Task)
    BY RoutingAssumption
  <1>3. IsFiniteSet(Task \X Attempts)
    BY <1>1, <1>2, FS_Product
  <1> QED
    BY <1>2, <1>3, FS_Subset, FS_CardinalityType

\* The balance survives when no count grows and no approval goes.
LEMMA BalanceKept ==
    ASSUME TypeOK, Balanced,
           \A k \in GrantKey : grants'[k] \in Nat /\ grants'[k] <= grants[k],
           \A k \in GrantKey : SpentBy(k)' \subseteq SpentBy(k),
           \A k \in GrantKey : Owed(k)' \subseteq Owed(k),
           \A k \in GrantKey : Approved(k) \subseteq Approved(k)' /\ Approved(k)' \subseteq Task
    PROVE  Balanced'
  <1> SUFFICES ASSUME NEW k \in GrantKey
               PROVE  (grants[k] + Cardinality(SpentBy(k)) + Cardinality(Owed(k)) <= Cardinality(Approved(k)))'
    BY DEF Balanced
  <1>1. PICK S, T \in SUBSET (Task \X Attempts) : T \subseteq S /\ S = SpentBy(k) /\ T = SpentBy(k)'
    BY DEF SpentBy
  <1>2. PICK O, P \in SUBSET Task : P \subseteq O /\ O = Owed(k) /\ P = Owed(k)'
    BY DEF Owed
  <1>3. PICK A, B \in SUBSET Task : A \subseteq B /\ A = Approved(k) /\ B = Approved(k)'
    BY DEF Approved
  <1>4. /\ Cardinality(S) \in Nat /\ Cardinality(T) \in Nat /\ Cardinality(O) \in Nat /\ Cardinality(P) \in Nat
        /\ Cardinality(A) \in Nat /\ Cardinality(B) \in Nat
        /\ IsFiniteSet(S) /\ IsFiniteSet(O) /\ IsFiniteSet(B)
    BY CountsFinite
  <1>5. Cardinality(T) <= Cardinality(S) /\ Cardinality(P) <= Cardinality(O) /\ Cardinality(A) <= Cardinality(B)
    BY <1>1, <1>2, <1>3, <1>4, FS_Subset
  <1>6. grants[k] \in Nat /\ grants[k] + Cardinality(S) + Cardinality(O) <= Cardinality(A)
    BY <1>1, <1>2, <1>3 DEF TypeOK, Balanced
  <1>7. grants'[k] + Cardinality(T) + Cardinality(P) <= Cardinality(B)
    BY <1>4, <1>5, <1>6
  <1> QED
    BY <1>1, <1>2, <1>3, <1>7

-----------------------------------------------------------------------------
(* Steps of one call.                                                       *)

\* A call that is under way moves within the graph: what is left to show is
\* about its new state x.
LEMMA OneCall ==
    ASSUME RoutingIInv, NEW t \in Task, NEW n \in Attempts, NEW x \in Routing,
           Move(t, n, x), UNCHANGED <<current, review, granting>>,
           grants' \in [GrantKey -> Nat], log' \in [Task -> SUBSET Logged],
           \A u \in Task : log[u] \subseteq log'[u],
           route[t][n].at \notin {"none", "done"}, x.at \notin {"none", "done"},
           CallOK(t, x), PolicyOK(t, x),
           x.at = "logged" /\ x.status = "escalated" => "escalated" \in log'[t]
    PROVE  TypeOK' /\ CallsInv' /\ AttemptsInv' /\ ReviewsInv'
  <1>1. /\ route \in [Task -> [Attempts -> Routing]] /\ route' \in [Task -> [Attempts -> Routing]]
        /\ route'[t][n] = x
        /\ \A u \in Task, m \in Attempts : (u = t /\ m = n) \/ route'[u][m] = route[u][m]
    BY DEF RoutingIInv, TypeOK, Move
  <1>2. TypeOK'
    BY <1>1 DEF RoutingIInv, TypeOK
  <1>3. CallsInv'
    BY <1>1 DEF RoutingIInv, CallsInv
  <1>4. AttemptsInv'
    <2>1. n <= current[t]
      <3>1. ~(n > current[t])
        BY DEF RoutingIInv, AttemptsInv, Fresh
      <3> QED
        BY <3>1, RoutingAssumption DEF RoutingIInv, TypeOK, Attempts
    <2>2. ASSUME NEW u \in Task, NEW m \in Attempts
          PROVE  /\ m > current[u] => route'[u][m] = Fresh
                 /\ m <= current[u] => route'[u][m].at # "none"
                 /\ route'[u][m].at = "done" => m = current[u]
                 /\ route'[u][m].at \in {"logged", "done"} /\ route'[u][m].status = "escalated" => "escalated" \in log'[u]
      <3>1. CASE u = t /\ m = n
        <4>1. ~(n > current[t])
          BY DEF RoutingIInv, AttemptsInv, Fresh
        <4> QED
          BY <1>1, <3>1, <4>1
      <3>2. CASE ~(u = t /\ m = n)
        <4>1. route'[u][m] = route[u][m]
          BY <1>1, <3>2
        <4> QED
          BY <4>1 DEF RoutingIInv, AttemptsInv
      <3> QED
        BY <3>1, <3>2
    <2> QED
      BY <2>2 DEF RoutingIInv, AttemptsInv
  <1>5. ReviewsInv'
    <2>1. ASSUME NEW u \in Task, review[u].status # "none"
          PROVE  /\ "escalated" \in log'[u]
                 /\ \E m \in Attempts :
                      LET r == route'[u][m] IN
                      /\ m = current'[u] /\ r.at = "done" /\ r.status = "escalated"
                      /\ review'[u].hold = IF r.hold = None THEN <<>> ELSE Key(u, r.hold)
      <3>1. "escalated" \in log[u]
        BY <2>1 DEF RoutingIInv, ReviewsInv, ReviewIsCommitted
      <3>2. PICK m \in Attempts :
               LET r == route[u][m] IN
               /\ m = current[u] /\ r.at = "done" /\ r.status = "escalated"
               /\ review[u].hold = IF r.hold = None THEN <<>> ELSE Key(u, r.hold)
        BY <2>1 DEF RoutingIInv, ReviewsInv, ReviewIsCommitted
      <3>3. route'[u][m] = route[u][m]
        BY <1>1, <3>2
      <3> QED
        BY <3>1, <3>2, <3>3
    <2>2. ReviewIsCommitted'
      BY <2>1 DEF ReviewIsCommitted
    <2> QED
      BY <2>2 DEF RoutingIInv, ReviewsInv
  <1> QED
    BY <1>2, <1>3, <1>4, <1>5

\* Such a move that consumes no grant keeps the balance.
LEMMA CallBalanced ==
    ASSUME RoutingIInv, NEW t \in Task, NEW n \in Attempts, NEW x \in Routing,
           Move(t, n, x), UNCHANGED <<grants, review, granting>>, x.spent = route[t][n].spent
    PROVE  Balanced'
  <1>1. \A u \in Task, m \in Attempts : route'[u][m].spent = route[u][m].spent
    BY DEF RoutingIInv, TypeOK, Move
  <1>2. \A k \in GrantKey : SpentBy(k)' \subseteq SpentBy(k)
    BY <1>1 DEF SpentBy
  <1>3. \A k \in GrantKey : Owed(k)' = Owed(k) /\ Approved(k)' = Approved(k) /\ Approved(k) \subseteq Task
    BY DEF Owed, Approved
  <1>4. \A k \in GrantKey : grants'[k] \in Nat /\ grants'[k] <= grants[k]
    BY DEF RoutingIInv, TypeOK
  <1> QED
    BY <1>2, <1>3, <1>4, BalanceKept DEF RoutingIInv

\* The facts of a call that every step starts from.
LEMMA CallFacts ==
    ASSUME RoutingIInv, NEW t \in Task, NEW n \in Attempts
    PROVE  /\ route[t][n] \in Routing /\ CallOK(t, route[t][n]) /\ PolicyOK(t, route[t][n])
           /\ grants \in [GrantKey -> Nat] /\ log \in [Task -> SUBSET Logged]
  BY DEF RoutingIInv, TypeOK, CallsInv

\* A step of the graph that consumes nothing and logs nothing.
LEMMA QuietCall ==
    ASSUME RoutingIInv, NEW t \in Task, NEW n \in Attempts, NEW x \in Routing,
           Move(t, n, x), UNCHANGED Others,
           route[t][n].at \notin {"none", "done"}, x.at \notin {"none", "done", "logged"},
           CallOK(t, x), PolicyOK(t, x), x.spent = route[t][n].spent
    PROVE  RoutingIInv'
  <1>1. UNCHANGED <<current, grants, review, granting, log>>
    BY DEF Others
  <1>2. TypeOK' /\ CallsInv' /\ AttemptsInv' /\ ReviewsInv'
    BY <1>1, CallFacts, OneCall
  <1>3. Balanced'
    BY <1>1, CallBalanced
  <1> QED
    BY <1>2, <1>3 DEF RoutingIInv

\* skill_match: an agent runs, or cannot.
LEMMA MatchKeeps ==
    ASSUME RoutingIInv, NEW t \in Task, NEW n \in Attempts, SkillMatch(t, n)
    PROVE  RoutingIInv'
  <1>1. PICK r \in Routing : r = route[t][n] /\ r.at = "skill_match" /\ CallOK(t, r) /\ PolicyOK(t, r)
    BY CallFacts DEF SkillMatch, At
  <1>2. /\ r.runs \in Nat /\ r.retries \in Nat /\ r.runs <= r.retries /\ r.retries <= 1
        /\ ~Denied(t) /\ HeldKeys[t] \subseteq r.spent /\ r.hold = None
    BY <1>1 DEF Routing, CallOK, PolicyOK
  <1>3. CASE Move(t, n, [route[t][n] EXCEPT !.at = "no_agent_found"])
    <2>1. PICK x \in Routing : /\ x = [r EXCEPT !.at = "no_agent_found"] /\ x.at = "no_agent_found"
                               /\ x.runs = r.runs /\ x.retries = r.retries /\ x.spent = r.spent /\ x.hold = r.hold
      <3>1. LET y == [r EXCEPT !.at = "no_agent_found"] IN
            /\ y \in Routing /\ y.at = "no_agent_found"
            /\ y.runs = r.runs /\ y.retries = r.retries /\ y.spent = r.spent /\ y.hold = r.hold
        BY DEF Routing, Nodes
      <3> QED
        BY <3>1
    <2>2. CallOK(t, x) /\ PolicyOK(t, x)
      BY <1>2, <2>1 DEF CallOK, PolicyOK
    <2> QED
      BY <1>1, <1>3, <2>1, <2>2, QuietCall DEF SkillMatch
  <1>4. ASSUME NEW a \in Capable(t), Move(t, n, Assign(route[t][n], a)) PROVE RoutingIInv'
    <2>1. CASE a \in Implemented
      <3>1. PICK x \in Routing : /\ x = [r EXCEPT !.at = "running", !.runs = r.runs + 1] /\ x.at = "running"
                                 /\ x.runs = r.runs + 1 /\ x.retries = r.retries /\ x.spent = r.spent /\ x.hold = r.hold
        <4>0. PICK m \in Nat : m = r.runs + 1
          BY <1>2
        <4>1. LET y == [r EXCEPT !.at = "running", !.runs = m] IN
              /\ y \in Routing /\ y.at = "running"
              /\ y.runs = m /\ y.retries = r.retries /\ y.spent = r.spent /\ y.hold = r.hold
          BY DEF Routing, Nodes
        <4> QED
          BY <4>0, <4>1
      <3>2. CallOK(t, x) /\ PolicyOK(t, x)
        BY <1>2, <3>1 DEF CallOK, PolicyOK
      <3>3. Move(t, n, x)
        BY <1>1, <1>4, <2>1, <3>1 DEF Assign
      <3> QED
        BY <1>1, <3>1, <3>2, <3>3, QuietCall DEF SkillMatch
    <2>2. CASE a \notin Implemented
      <3>1. PICK x \in Routing : /\ x = [r EXCEPT !.at = "escalate", !.status = "failed", !.confidence = 0]
                                 /\ x.at = "escalate" /\ x.runs = r.runs /\ x.retries = r.retries
                                 /\ x.spent = r.spent /\ x.hold = r.hold
        <4>1. LET y == [r EXCEPT !.at = "escalate", !.status = "failed", !.confidence = 0] IN
              /\ y \in Routing /\ y.at = "escalate"
              /\ y.runs = r.runs /\ y.retries = r.retries /\ y.spent = r.spent /\ y.hold = r.hold
          BY DEF Routing, Nodes
        <4> QED
          BY <4>1
      <3>2. CallOK(t, x) /\ PolicyOK(t, x)
        BY <1>2, <3>1 DEF CallOK, PolicyOK
      <3>3. Move(t, n, x)
        BY <1>1, <1>4, <2>2, <3>1 DEF Assign
      <3> QED
        BY <1>1, <3>1, <3>2, <3>3, QuietCall DEF SkillMatch
    <2> QED
      BY <2>1, <2>2
  <1> QED
    BY <1>3, <1>4 DEF SkillMatch

\* The agent's result: the call is complete, escalated or tried once more.
LEMMA RunKeeps ==
    ASSUME RoutingIInv, NEW t \in Task, NEW n \in Attempts,
           AgentFails(t, n) \/ \E c \in Confidence : AgentReturns(t, n, c)
    PROVE  RoutingIInv'
  <1>1. PICK r \in Routing : r = route[t][n] /\ r.at = "running" /\ CallOK(t, r) /\ PolicyOK(t, r)
    BY CallFacts DEF AgentFails, AgentReturns, At
  <1>2. /\ r.runs \in Nat /\ r.retries \in Nat /\ r.runs <= r.retries + 1 /\ r.retries <= 1 /\ r.runs > 0
        /\ ~Denied(t) /\ HeldKeys[t] \subseteq r.spent /\ r.hold = None /\ r.spent \in SUBSET GrantKey
    BY <1>1 DEF Routing, CallOK, PolicyOK
  <1>3. PICK x \in Routing :
           /\ Move(t, n, x) /\ x.runs = r.runs /\ x.spent = r.spent /\ x.hold = r.hold
           /\ \/ x.at = "escalate" /\ x.retries = r.retries
              \/ x.at = "complete" /\ x.retries = r.retries /\ x.confidence >= Threshold(t)
              \/ x.at = "skill_match" /\ r.retries = 0 /\ x.retries = 1
    <2>1. CASE AgentFails(t, n)
      <3>1. LET y == [r EXCEPT !.confidence = 0, !.status = "failed", !.at = "escalate"] IN
            /\ y \in Routing /\ y.at = "escalate"
            /\ y.runs = r.runs /\ y.retries = r.retries /\ y.spent = r.spent /\ y.hold = r.hold
        BY DEF Routing, Nodes
      <3> QED
        BY <1>1, <2>1, <3>1 DEF AgentFails
    <2>2. ASSUME NEW c \in Confidence, AgentReturns(t, n, c)
          PROVE  \E x \in Routing :
                   /\ Move(t, n, x) /\ x.runs = r.runs /\ x.spent = r.spent /\ x.hold = r.hold
                   /\ \/ x.at = "escalate" /\ x.retries = r.retries
                      \/ x.at = "complete" /\ x.retries = r.retries /\ x.confidence >= Threshold(t)
                      \/ x.at = "skill_match" /\ r.retries = 0 /\ x.retries = 1
      <3>1. c \in Nat
        BY RoutingAssumption
      <3>2. PICK y \in Routing : /\ y = [r EXCEPT !.confidence = c, !.status = "complete"] /\ y.confidence = c
                                 /\ y.runs = r.runs /\ y.retries = r.retries /\ y.spent = r.spent /\ y.hold = r.hold
        <4>1. LET y == [r EXCEPT !.confidence = c, !.status = "complete"] IN
              /\ y \in Routing /\ y.confidence = c
              /\ y.runs = r.runs /\ y.retries = r.retries /\ y.spent = r.spent /\ y.hold = r.hold
          BY <3>1 DEF Routing, Final
        <4> QED
          BY <4>1
      <3>3. Move(t, n, AfterExecute(t, y))
        BY <1>1, <2>2, <3>2 DEF AgentReturns
      <3>4. ASSUME NEW at \in {"complete", "escalate"}
            PROVE  LET x == [y EXCEPT !.at = at] IN
                   /\ x \in Routing /\ x.at = at /\ x.confidence = c
                   /\ x.runs = r.runs /\ x.retries = r.retries /\ x.spent = r.spent /\ x.hold = r.hold
        BY <3>2 DEF Routing, Nodes
      <3>5. CASE AfterExecute(t, y) = [y EXCEPT !.at = "escalate"]
        BY <3>3, <3>4, <3>5
      <3>6. CASE y.confidence >= Threshold(t)
        <4>1. Move(t, n, [y EXCEPT !.at = "complete"])
          BY <3>3, <3>6 DEF AfterExecute
        <4> QED
          BY <3>2, <3>4, <3>6, <4>1
      <3>7. CASE ~(y.confidence >= Threshold(t)) /\ y.confidence >= FailureLevel /\ MayRetry(y)
        <4>1. r.retries = 0
          BY <1>2, <3>2, <3>7 DEF MayRetry
        <4>2. AfterExecute(t, y) = [y EXCEPT !.retries = 1, !.status = "routing", !.at = "skill_match"]
          <5>1. AfterExecute(t, y) = [y EXCEPT !.retries = y.retries + 1, !.status = "routing", !.at = "skill_match"]
            BY <3>7 DEF AfterExecute, HandleFailure
          <5>2. y.retries + 1 = 1
            BY <3>2, <4>1
          <5> QED
            BY <5>1, <5>2
        <4>3. LET x == [y EXCEPT !.retries = 1, !.status = "routing", !.at = "skill_match"] IN
              /\ x \in Routing /\ x.at = "skill_match"
              /\ x.runs = r.runs /\ x.retries = 1 /\ x.spent = r.spent /\ x.hold = r.hold
          BY <3>2 DEF Routing, Nodes
        <4> QED
          BY <3>3, <4>1, <4>2, <4>3
      <3> QED
        BY <3>5, <3>6, <3>7 DEF AfterExecute, HandleFailure
    <2> QED
      BY <2>1, <2>2
  <1>4. CallOK(t, x) /\ PolicyOK(t, x)
    BY <1>2, <1>3 DEF CallOK, PolicyOK
  <1> QED
    BY <1>1, <1>3, <1>4, QuietCall DEF AgentFails, AgentReturns

\* A call dies.
LEMMA DeathKeeps ==
    ASSUME RoutingIInv, NEW t \in Task, NEW n \in Attempts, Dies(t, n)
    PROVE  RoutingIInv'
  <1>1. PICK r \in Routing : r = route[t][n] /\ r.at \notin {"none", "done", "dead"} /\ CallOK(t, r) /\ PolicyOK(t, r)
    BY CallFacts DEF Dies
  <1>2. PICK x \in Routing : /\ x = [r EXCEPT !.at = "dead"] /\ x.at = "dead"
                             /\ x.runs = r.runs /\ x.retries = r.retries /\ x.spent = r.spent /\ x.hold = r.hold
    <2>1. LET y == [r EXCEPT !.at = "dead"] IN
          /\ y \in Routing /\ y.at = "dead"
          /\ y.runs = r.runs /\ y.retries = r.retries /\ y.spent = r.spent /\ y.hold = r.hold
      BY DEF Routing, Nodes
    <2> QED
      BY <2>1
  <1>3. CallOK(t, x) /\ PolicyOK(t, x)
    BY <1>1, <1>2 DEF CallOK, PolicyOK
  <1> QED
    BY <1>1, <1>2, <1>3, QuietCall DEF Dies

\* A grant is consumed, or its lack holds the task.
LEMMA ConsumeKeeps ==
    ASSUME RoutingIInv, NEW t \in Task, NEW n \in Attempts, ConsumeGrant(t, n)
    PROVE  RoutingIInv'
  <1>1. PICK r \in Routing : r = route[t][n] /\ r.at = "consume" /\ CallOK(t, r) /\ PolicyOK(t, r)
    BY CallFacts DEF ConsumeGrant, At
  <1>2. /\ r.runs = 0 /\ r.retries \in Nat /\ r.retries <= 1 /\ r.hold = None /\ r.todo \subseteq Held[t]
        /\ ~Denied(t) /\ r.spent \in SUBSET GrantKey /\ r.todo \in SUBSET Nat
        /\ HeldKeys[t] \subseteq r.spent \cup {Key(t, Of[t].skills[i]) : i \in r.todo}
    BY <1>1 DEF Routing, CallOK, PolicyOK
  <1>3. PICK i \in r.todo, s \in Skill, k \in GrantKey :
           /\ s = Of[t].skills[i] /\ s \in Decided(t, "require_review") /\ k = Key(t, s)
           /\ IF grants[k] > 0
              THEN UseGrant(k) /\ Move(t, n, AfterPolicy([r EXCEPT !.todo = r.todo \ {i}, !.spent = r.spent \cup {k}]))
              ELSE Move(t, n, [r EXCEPT !.hold = s, !.at = "escalate"]) /\ UNCHANGED grants
    <2>1. \A i \in r.todo : /\ Of[t].skills[i] \in Decided(t, "require_review") /\ Of[t].skills[i] \in Skill
                            /\ Key(t, Of[t].skills[i]) \in GrantKey
      BY <1>2, Submitted
    <2>2. PICK i \in r.todo :
             LET s == Of[t].skills[i]  k == Key(t, s) IN
             IF grants[k] > 0
             THEN UseGrant(k) /\ Move(t, n, AfterPolicy([r EXCEPT !.todo = r.todo \ {i}, !.spent = r.spent \cup {k}]))
             ELSE Move(t, n, [r EXCEPT !.hold = s, !.at = "escalate"]) /\ UNCHANGED grants
      BY <1>1 DEF ConsumeGrant
    <2> QED
      BY <2>1, <2>2
  <1>4. UNCHANGED <<current, review, granting, log>>
    BY DEF ConsumeGrant
  <1>5. grants \in [GrantKey -> Nat] /\ log \in [Task -> SUBSET Logged] /\ route \in [Task -> [Attempts -> Routing]]
    BY DEF RoutingIInv, TypeOK
  <1>6. CASE ~(grants[k] > 0)
    <2>1. PICK x \in Routing : /\ x = [r EXCEPT !.hold = s, !.at = "escalate"] /\ x.at = "escalate" /\ x.hold = s
                               /\ x.runs = r.runs /\ x.retries = r.retries /\ x.spent = r.spent
      <3>1. LET y == [r EXCEPT !.hold = s, !.at = "escalate"] IN
            /\ y \in Routing /\ y.at = "escalate" /\ y.hold = s
            /\ y.runs = r.runs /\ y.retries = r.retries /\ y.spent = r.spent
        BY DEF Routing, Nodes
      <3> QED
        BY <3>1
    <2>2. CallOK(t, x) /\ PolicyOK(t, x)
      BY <1>2, <1>3, <2>1 DEF CallOK, PolicyOK
    <2>3. Move(t, n, x) /\ UNCHANGED Others
      BY <1>3, <1>4, <1>6, <2>1 DEF Others
    <2> QED
      BY <1>1, <2>1, <2>2, <2>3, QuietCall
  <1>7. CASE grants[k] > 0
    <2>1. PICK todo \in SUBSET Nat, spent \in SUBSET GrantKey, at \in {"skill_match", "consume"} :
             /\ todo = r.todo \ {i} /\ spent = r.spent \cup {k}
             /\ at = IF todo = {} THEN "skill_match" ELSE "consume"
      <3>1. r.todo \ {i} \in SUBSET Nat /\ r.spent \cup {k} \in SUBSET GrantKey
        BY <1>2
      <3> QED
        BY <3>1
    <2>2. PICK x \in Routing : /\ x = AfterPolicy([r EXCEPT !.todo = todo, !.spent = spent])
                               /\ x.at = at /\ x.todo = todo /\ x.spent = spent
                               /\ x.hold = r.hold /\ x.runs = r.runs /\ x.retries = r.retries
      <3>1. PICK y \in Routing : /\ y = [r EXCEPT !.todo = todo, !.spent = spent] /\ y.todo = todo /\ y.spent = spent
                                 /\ y.hold = r.hold /\ y.runs = r.runs /\ y.retries = r.retries
        <4>1. LET y == [r EXCEPT !.todo = todo, !.spent = spent] IN
              /\ y \in Routing /\ y.todo = todo /\ y.spent = spent
              /\ y.hold = r.hold /\ y.runs = r.runs /\ y.retries = r.retries
          BY DEF Routing
        <4> QED
          BY <4>1
      <3>2. AfterPolicy(y) = [y EXCEPT !.at = at]
        BY <2>1, <3>1 DEF AfterPolicy
      <3>3. LET x == [y EXCEPT !.at = at] IN
            /\ x \in Routing /\ x.at = at /\ x.todo = y.todo /\ x.spent = y.spent
            /\ x.hold = y.hold /\ x.runs = y.runs /\ x.retries = y.retries
        BY DEF Routing, Nodes
      <3> QED
        BY <3>1, <3>2, <3>3
    <2>3. Move(t, n, x) /\ grants' = [grants EXCEPT ![k] = @ - 1]
      BY <1>3, <1>7, <2>1, <2>2 DEF UseGrant
    <2>4. HeldKeys[t] \subseteq spent \cup {Key(t, Of[t].skills[j]) : j \in todo}
      BY <1>2, <1>3, <2>1
    <2>5. CallOK(t, x)
      BY <1>2, <2>2 DEF CallOK
    <2>6. PolicyOK(t, x)
      BY <1>2, <2>1, <2>2, <2>4 DEF PolicyOK
    <2>7. grants' \in [GrantKey -> Nat] /\ grants'[k] = grants[k] - 1 /\ grants[k] \in Nat
          /\ \A l \in GrantKey : l # k => grants'[l] = grants[l]
      BY <1>5, <1>7, <2>3
    <2>8. TypeOK' /\ CallsInv' /\ AttemptsInv' /\ ReviewsInv'
      BY <1>1, <1>4, <1>5, <2>2, <2>3, <2>5, <2>6, <2>7, OneCall
    <2>9. ASSUME NEW l \in GrantKey
          PROVE  (grants[l] + Cardinality(SpentBy(l)) + Cardinality(Owed(l)) <= Cardinality(Approved(l)))'
      <3>1. PICK S, T \in SUBSET (Task \X Attempts) : S = SpentBy(l) /\ T = SpentBy(l)'
        BY DEF SpentBy
      <3>2. PICK O, A \in SUBSET Task : O = Owed(l) /\ A = Approved(l) /\ O = Owed(l)' /\ A = Approved(l)'
        BY <1>4 DEF Owed, Approved
      <3>3. Cardinality(S) \in Nat /\ Cardinality(T) \in Nat /\ Cardinality(O) \in Nat /\ Cardinality(A) \in Nat
            /\ IsFiniteSet(S)
        BY CountsFinite
      <3>4. grants[l] \in Nat /\ grants[l] + Cardinality(S) + Cardinality(O) <= Cardinality(A)
        BY <1>5, <3>1, <3>2 DEF RoutingIInv, Balanced
      <3>5. /\ route'[t][n].spent = route[t][n].spent \cup {k}
            /\ \A u \in Task, m \in Attempts : (u = t /\ m = n) \/ route'[u][m].spent = route[u][m].spent
        BY <1>1, <1>5, <2>1, <2>2, <2>3 DEF Move
      <3>6. l # k => T \subseteq S
        BY <3>1, <3>5 DEF SpentBy
      <3>0. PICK c \in Task \X Attempts : c = <<t, n>>
        OBVIOUS
      <3>7. T \subseteq S \cup {c}
        BY <3>0, <3>1, <3>5 DEF SpentBy
      <3>8. Cardinality(T) <= Cardinality(S) + 1
        <4>1. IsFiniteSet(S \cup {c}) /\ Cardinality(S \cup {c}) = IF c \in S THEN Cardinality(S) ELSE Cardinality(S) + 1
          BY <3>3, FS_AddElement
        <4>2. Cardinality(T) <= Cardinality(S \cup {c})
          BY <3>7, <4>1, FS_Subset
        <4>3. Cardinality(S \cup {c}) <= Cardinality(S) + 1 /\ Cardinality(S \cup {c}) \in Nat
          BY <3>3, <4>1
        <4> QED
          BY <3>3, <4>2, <4>3
      <3>9. l # k => Cardinality(T) <= Cardinality(S)
        BY <3>3, <3>6, FS_Subset
      <3>10. grants'[l] + Cardinality(T) + Cardinality(O) <= Cardinality(A)
        BY <2>7, <3>3, <3>4, <3>8, <3>9
      <3> QED
        BY <3>1, <3>2, <3>10
    <2> QED
      BY <2>8, <2>9 DEF RoutingIInv, Balanced
  <1> QED
    BY <1>6, <1>7

\* The final state of a call is logged.
LEMMA EndKeeps ==
    ASSUME RoutingIInv, NEW t \in Task, NEW n \in Attempts, EndGraph(t, n)
    PROVE  RoutingIInv'
  <1>1. PICK r \in Routing : /\ r = route[t][n] /\ r.at \in {"complete", "escalate", "no_agent_found"}
                             /\ CallOK(t, r) /\ PolicyOK(t, r)
    BY CallFacts DEF EndGraph
  <1>2. PICK final \in Final : final = IF r.at = "escalate" THEN "escalated" ELSE r.at
    BY <1>1 DEF Final
  <1>3. /\ log' = [log EXCEPT ![t] = @ \cup {final}] /\ UNCHANGED <<current, grants, review, granting>>
        /\ Move(t, n, [r EXCEPT !.status = final, !.at = "logged"])
    BY <1>1, <1>2 DEF EndGraph
  <1>4. PICK x \in Routing : /\ x = [r EXCEPT !.status = final, !.at = "logged"] /\ x.at = "logged" /\ x.status = final
                             /\ x.runs = r.runs /\ x.retries = r.retries /\ x.spent = r.spent /\ x.hold = r.hold
                             /\ x.confidence = r.confidence
    <2>1. LET y == [r EXCEPT !.status = final, !.at = "logged"] IN
          /\ y \in Routing /\ y.at = "logged" /\ y.status = final
          /\ y.runs = r.runs /\ y.retries = r.retries /\ y.spent = r.spent /\ y.hold = r.hold
          /\ y.confidence = r.confidence
      BY DEF Routing, Nodes
    <2> QED
      BY <2>1
  <1>5. CallOK(t, x)
    BY <1>1, <1>2, <1>4 DEF CallOK, Final
  <1>6. PolicyOK(t, x)
    BY <1>1, <1>4 DEF PolicyOK
  <1>7. /\ log' \in [Task -> SUBSET Logged] /\ final \in log'[t] /\ \A u \in Task : log[u] \subseteq log'[u]
        /\ grants' \in [GrantKey -> Nat]
    BY <1>3 DEF RoutingIInv, TypeOK, Logged
  <1>8. TypeOK' /\ CallsInv' /\ AttemptsInv' /\ ReviewsInv'
    BY <1>1, <1>3, <1>4, <1>5, <1>6, <1>7, OneCall
  <1>9. Balanced'
    BY <1>1, <1>3, <1>4, CallBalanced
  <1> QED
    BY <1>8, <1>9 DEF RoutingIInv

\* The result of the newest attempt is taken, and its review enqueued.
LEMMA TakeKeeps ==
    ASSUME RoutingIInv, NEW t \in Task, NEW n \in Attempts, Return(t, n) \/ Commit(t, n)
    PROVE  RoutingIInv'
  <1>1. PICK r \in Routing : r = route[t][n] /\ r.at = "logged" /\ CallOK(t, r) /\ PolicyOK(t, r)
    BY CallFacts DEF Return, Commit, At
  <1>2. n = current[t]
    <2>1. ~(n > current[t])
      BY <1>1 DEF RoutingIInv, AttemptsInv, Fresh
    <2>2. current[t] \in 0 .. MaxAttempts /\ n \in 1 .. MaxAttempts
      BY DEF RoutingIInv, TypeOK, Attempts
    <2>3. ~Of[t].durable => current[t] <= 1
      BY DEF RoutingIInv, AttemptsInv
    <2> QED
      BY <2>1, <2>2, <2>3, RoutingAssumption DEF Return, Commit
  <1>3. EnqueueReview(t, n) /\ Move(t, n, [r EXCEPT !.at = "done"]) /\ UNCHANGED <<current, grants, granting, log>>
    BY <1>1 DEF Return, Commit
  <1>4. PICK x \in Routing : /\ x = [r EXCEPT !.at = "done"] /\ x.at = "done" /\ x.status = r.status
                             /\ x.runs = r.runs /\ x.retries = r.retries /\ x.spent = r.spent /\ x.hold = r.hold
                             /\ x.confidence = r.confidence
    <2>1. LET y == [r EXCEPT !.at = "done"] IN
          /\ y \in Routing /\ y.at = "done" /\ y.status = r.status
          /\ y.runs = r.runs /\ y.retries = r.retries /\ y.spent = r.spent /\ y.hold = r.hold
          /\ y.confidence = r.confidence
      BY DEF Routing, Nodes
    <2> QED
      BY <2>1
  <1>5. CallOK(t, x) /\ PolicyOK(t, x)
    BY <1>1, <1>4 DEF CallOK, PolicyOK
  <1>6. /\ route \in [Task -> [Attempts -> Routing]] /\ route' \in [Task -> [Attempts -> Routing]]
        /\ route'[t][n] = x
        /\ \A u \in Task, m \in Attempts : (u = t /\ m = n) \/ route'[u][m] = route[u][m]
    BY <1>3, <1>4 DEF RoutingIInv, TypeOK, Move
  <1>7. review[t].status = "none"
    <2>1. ASSUME review[t].status # "none" PROVE FALSE
      <3>1. PICK m \in Attempts : m = current[t] /\ route[t][m].at = "done"
        BY <2>1 DEF RoutingIInv, ReviewsInv, ReviewIsCommitted
      <3> QED
        BY <1>1, <1>2, <3>1
    <2> QED
      BY <2>1
  <1>8. PICK h \in GrantKey \cup {<<>>} : h = IF r.hold = None THEN <<>> ELSE Key(t, r.hold)
    <2>1. r.hold = None \/ Key(t, r.hold) \in GrantKey
      BY <1>1, Submitted DEF PolicyOK
    <2> QED
      BY <2>1
  <1>9. /\ review \in [Task -> Review]
        /\ review' = IF r.status = "escalated" THEN [review EXCEPT ![t] = [status |-> "pending", hold |-> h]] ELSE review
    BY <1>1, <1>3, <1>7, <1>8 DEF EnqueueReview, RoutingIInv, TypeOK
  <1>10. /\ \A u \in Task : u # t => review'[u] = review[u]
         /\ review' \in [Task -> Review]
         /\ r.status = "escalated" => review'[t].status = "pending" /\ review'[t].hold = h
         /\ r.status # "escalated" => review'[t] = review[t]
    BY <1>9 DEF Review
  <1>11. granting[t] = 0 /\ review[t].hold = <<>>
    BY <1>7 DEF RoutingIInv, TypeOK, ReviewsInv
  <1>12. TypeOK'
    BY <1>3, <1>6, <1>10 DEF RoutingIInv, TypeOK
  <1>13. CallsInv'
    BY <1>5, <1>6 DEF RoutingIInv, CallsInv
  <1>14. AttemptsInv'
    <2>1. ASSUME NEW u \in Task, NEW m \in Attempts
          PROVE  /\ m > current[u] => route'[u][m] = Fresh
                 /\ m <= current[u] => route'[u][m].at # "none"
                 /\ route'[u][m].at = "done" => m = current[u]
                 /\ route'[u][m].at \in {"logged", "done"} /\ route'[u][m].status = "escalated" => "escalated" \in log[u]
      <3>1. CASE u = t /\ m = n
        <4>1. n \in Int /\ ~(n > current[t])
          BY <1>2 DEF Attempts
        <4>2. r.status = "escalated" => "escalated" \in log[t]
          BY <1>1 DEF RoutingIInv, AttemptsInv
        <4> QED
          BY <1>2, <1>4, <1>6, <3>1, <4>1, <4>2
      <3>2. CASE ~(u = t /\ m = n)
        <4>1. route'[u][m] = route[u][m]
          BY <1>6, <3>2
        <4> QED
          BY <4>1 DEF RoutingIInv, AttemptsInv
      <3> QED
        BY <3>1, <3>2
    <2> QED
      BY <1>3, <2>1 DEF RoutingIInv, AttemptsInv
  <1>15. ReviewsInv'
    <2>1. ASSUME NEW u \in Task, review'[u].status # "none"
          PROVE  /\ "escalated" \in log'[u]
                 /\ \E m \in Attempts :
                      LET q == route'[u][m] IN
                      /\ m = current'[u] /\ q.at = "done" /\ q.status = "escalated"
                      /\ review'[u].hold = IF q.hold = None THEN <<>> ELSE Key(u, q.hold)
      <3>1. CASE u = t
        <4>1. r.status = "escalated" /\ review'[t].hold = h
          BY <1>7, <1>10, <2>1, <3>1
        <4>2. "escalated" \in log[t]
          BY <1>1, <4>1 DEF RoutingIInv, AttemptsInv
        <4>3. LET q == route'[t][n] IN
              /\ n = current'[t] /\ q.at = "done" /\ q.status = "escalated"
              /\ review'[t].hold = IF q.hold = None THEN <<>> ELSE Key(t, q.hold)
          <5>1. n = current'[t]
            BY <1>2, <1>3
          <5>2. x.at = "done" /\ x.status = "escalated" /\ h = IF x.hold = None THEN <<>> ELSE Key(t, x.hold)
            BY <1>4, <1>8, <4>1
          <5> QED
            BY <1>6, <4>1, <5>1, <5>2
        <4>4. log' = log
          BY <1>3
        <4> QED
          BY <3>1, <4>2, <4>3, <4>4
      <3>2. CASE u # t
        <4>1. review[u].status # "none" /\ review'[u] = review[u]
          BY <1>10, <2>1, <3>2
        <4>2. "escalated" \in log[u]
          BY <4>1 DEF RoutingIInv, ReviewsInv, ReviewIsCommitted
        <4>3. PICK m \in Attempts :
                 LET q == route[u][m] IN
                 /\ m = current[u] /\ q.at = "done" /\ q.status = "escalated"
                 /\ review[u].hold = IF q.hold = None THEN <<>> ELSE Key(u, q.hold)
          BY <4>1 DEF RoutingIInv, ReviewsInv, ReviewIsCommitted
        <4>4. route'[u][m] = route[u][m]
          BY <1>6, <3>2
        <4> QED
          BY <1>3, <4>1, <4>2, <4>3, <4>4
      <3> QED
        BY <3>1, <3>2
    <2>2. ReviewIsCommitted'
      BY <2>1 DEF ReviewIsCommitted
    <2>3. ASSUME NEW u \in Task
          PROVE  /\ review'[u].status = "none" => review'[u].hold = <<>>
                 /\ granting[u] <= 1
                 /\ granting[u] > 0 => review'[u].status \in {"approved", "accepted"} /\ review'[u].hold # <<>>
      <3>1. CASE u = t
        BY <1>10, <1>11, <3>1 DEF RoutingIInv, ReviewsInv
      <3>2. CASE u # t
        BY <1>10, <3>2 DEF RoutingIInv, ReviewsInv
      <3> QED
        BY <3>1, <3>2
    <2> QED
      BY <1>3, <2>2, <2>3 DEF ReviewsInv
  <1>16. Balanced'
    <2>1. \A u \in Task, m \in Attempts : route'[u][m].spent = route[u][m].spent
      BY <1>1, <1>4, <1>6
    <2>2. \A k \in GrantKey : SpentBy(k)' \subseteq SpentBy(k)
      BY <2>1 DEF SpentBy
    <2>3. \A k \in GrantKey : Owed(k)' \subseteq Owed(k)
      BY <1>3, <1>10, <1>11 DEF Owed
    <2>4. \A k \in GrantKey : Approved(k) \subseteq Approved(k)' /\ Approved(k)' \subseteq Task
      BY <1>7, <1>10 DEF Approved
    <2>5. \A k \in GrantKey : grants'[k] \in Nat /\ grants'[k] <= grants[k]
      BY <1>3 DEF RoutingIInv, TypeOK
    <2> QED
      BY <2>2, <2>3, <2>4, <2>5, BalanceKept DEF RoutingIInv
  <1> QED
    BY <1>12, <1>13, <1>14, <1>15, <1>16 DEF RoutingIInv

-----------------------------------------------------------------------------
(* Attempts, reviewers and grants.                                          *)

\* route() is called: the first attempt of a task, or the one after the newest.
LEMMA EnterKeeps ==
    ASSUME RoutingIInv, NEW t \in Task, Submit(t) \/ NextAttempt(t)
    PROVE  RoutingIInv'
  <1>1. PICK n \in Attempts : /\ Enter(t, n) /\ n = current[t] + 1
                              /\ n = 1 \/ Of[t].durable
                              /\ \A m \in Attempts : m = current[t] => route[t][m].at # "done"
    <2>1. current[t] \in 0 .. MaxAttempts /\ MaxAttempts \in Nat \ {0}
      BY RoutingAssumption DEF RoutingIInv, TypeOK
    <2>2. CASE Submit(t)
      <3>1. 1 \in Attempts /\ current[t] = 0 /\ \A m \in Attempts : m # 0
        BY <2>1, <2>2 DEF Submit, Attempts
      <3> QED
        BY <2>2, <3>1 DEF Submit
    <2>3. CASE NextAttempt(t)
      <3>1. current[t] + 1 \in Attempts
        BY <2>1, <2>3 DEF NextAttempt, Attempts
      <3> QED
        BY <2>3, <3>1 DEF NextAttempt, Newest, At
    <2> QED
      BY <2>2, <2>3
  <1>2. current[t] \in 0 .. MaxAttempts /\ n \in 1 .. MaxAttempts /\ MaxAttempts \in Nat
    BY RoutingAssumption DEF RoutingIInv, TypeOK, Attempts
  <1>3. route[t][n] = Fresh
    <2>1. n > current[t]
      BY <1>1, <1>2
    <2> QED
      BY <2>1 DEF RoutingIInv, AttemptsInv
  <1>4. PICK x \in Routing : /\ x = PolicyCheck(t) /\ x.runs = 0 /\ x.retries = 0 /\ x.spent = {} /\ x.hold = None
                             /\ \/ Denied(t) /\ x.at = "no_agent_found"
                                \/ ~Denied(t) /\ x.at = "consume" /\ x.todo = Held[t]
                                \/ ~Denied(t) /\ x.at = "skill_match" /\ Held[t] = {}
    <2>1. Fresh \in Routing
      BY DEF Fresh, Routing, Nodes, Final
    <2>2. CASE Denied(t)
      <3>1. LET y == [Fresh EXCEPT !.at = "no_agent_found"] IN
            /\ y \in Routing /\ y.at = "no_agent_found" /\ y.runs = 0 /\ y.retries = 0 /\ y.spent = {} /\ y.hold = None
        BY <2>1 DEF Fresh, Routing, Nodes
      <3> QED
        BY <2>2, <3>1 DEF PolicyCheck
    <2>3. CASE ~Denied(t)
      <3>1. PICK h \in SUBSET Nat : h = Held[t]
        BY Submitted
      <3>2. PICK y \in Routing : y = [Fresh EXCEPT !.todo = h] /\ y.todo = h
                                 /\ y.runs = 0 /\ y.retries = 0 /\ y.spent = {} /\ y.hold = None
        <4>1. LET y == [Fresh EXCEPT !.todo = h] IN
              /\ y \in Routing /\ y.todo = h /\ y.runs = 0 /\ y.retries = 0 /\ y.spent = {} /\ y.hold = None
          BY <2>1 DEF Fresh, Routing
        <4> QED
          BY <4>1
      <3>3. PICK at \in {"skill_match", "consume"} : at = IF h = {} THEN "skill_match" ELSE "consume"
        OBVIOUS
      <3>4. PolicyCheck(t) = [y EXCEPT !.at = at]
        BY <2>3, <3>1, <3>2, <3>3 DEF PolicyCheck, AfterPolicy
      <3>5. LET x == [y EXCEPT !.at = at] IN
            /\ x \in Routing /\ x.at = at /\ x.todo = y.todo
            /\ x.runs = y.runs /\ x.retries = y.retries /\ x.spent = y.spent /\ x.hold = y.hold
        BY DEF Routing, Nodes
      <3> QED
        BY <2>3, <3>1, <3>2, <3>3, <3>4, <3>5
    <2> QED
      BY <2>2, <2>3
  <1>5. CallOK(t, x)
    BY <1>4 DEF CallOK
  <1>6. PolicyOK(t, x)
    <2>1. HeldKeys[t] \subseteq {Key(t, Of[t].skills[i]) : i \in Held[t]}
      BY Submitted
    <2> QED
      BY <1>4, <2>1 DEF PolicyOK
  <1>7. /\ route \in [Task -> [Attempts -> Routing]] /\ route' \in [Task -> [Attempts -> Routing]]
        /\ route'[t][n] = x
        /\ \A u \in Task, m \in Attempts : (u = t /\ m = n) \/ route'[u][m] = route[u][m]
    BY <1>1, <1>4 DEF RoutingIInv, TypeOK, Enter, Move
  <1>8. /\ current' = [current EXCEPT ![t] = n] /\ log' = [log EXCEPT ![t] = @ \cup {"received"}]
        /\ UNCHANGED <<grants, review, granting>>
    BY <1>1 DEF Enter
  <1>9. /\ current' \in [Task -> 0 .. MaxAttempts] /\ current'[t] = n /\ \A u \in Task : u # t => current'[u] = current[u]
        /\ log' \in [Task -> SUBSET Logged] /\ \A u \in Task : log[u] \subseteq log'[u]
    BY <1>2, <1>8 DEF RoutingIInv, TypeOK, Logged
  <1>10. TypeOK'
    BY <1>7, <1>8, <1>9 DEF RoutingIInv, TypeOK
  <1>11. CallsInv'
    BY <1>5, <1>6, <1>7 DEF RoutingIInv, CallsInv
  <1>12. review[t].status = "none"
    BY <1>1 DEF RoutingIInv, ReviewsInv, ReviewIsCommitted
  <1>13. AttemptsInv'
    <2>1. ASSUME NEW u \in Task, NEW m \in Attempts
          PROVE  /\ m > current'[u] => route'[u][m] = Fresh
                 /\ m <= current'[u] => route'[u][m].at # "none"
                 /\ route'[u][m].at = "done" => m = current'[u]
                 /\ route'[u][m].at \in {"logged", "done"} /\ route'[u][m].status = "escalated" => "escalated" \in log'[u]
      <3>1. CASE u = t /\ m = n
        BY <1>2, <1>4, <1>7, <1>9, <3>1
      <3>2. CASE u = t /\ m # n
        <4>1. route'[u][m] = route[u][m] /\ m \in 1 .. MaxAttempts
          BY <1>7, <3>2 DEF Attempts
        <4>2. (m > n => m > current[t]) /\ (m <= n => m <= current[t])
          BY <1>1, <1>2, <3>2, <4>1
        <4>3. route[t][m].at # "done"
          BY <1>1 DEF RoutingIInv, AttemptsInv
        <4> QED
          BY <1>9, <3>2, <4>1, <4>2, <4>3 DEF RoutingIInv, AttemptsInv
      <3>3. CASE u # t
        <4>1. route'[u][m] = route[u][m] /\ current'[u] = current[u]
          BY <1>7, <1>9, <3>3
        <4> QED
          BY <1>9, <4>1 DEF RoutingIInv, AttemptsInv
      <3> QED
        BY <3>1, <3>2, <3>3
    <2>2. ASSUME NEW u \in Task, ~Of[u].durable PROVE current'[u] <= 1
      <3>1. CASE u = t
        BY <1>1, <1>9, <2>2, <3>1
      <3>2. CASE u # t
        BY <1>9, <2>2, <3>2 DEF RoutingIInv, AttemptsInv
      <3> QED
        BY <3>1, <3>2
    <2> QED
      BY <2>1, <2>2 DEF AttemptsInv
  <1>14. ReviewsInv'
    <2>1. ASSUME NEW u \in Task, review'[u].status # "none"
          PROVE  /\ "escalated" \in log'[u]
                 /\ \E m \in Attempts :
                      LET q == route'[u][m] IN
                      /\ m = current'[u] /\ q.at = "done" /\ q.status = "escalated"
                      /\ review'[u].hold = IF q.hold = None THEN <<>> ELSE Key(u, q.hold)
      <3>1. u # t /\ review[u].status # "none" /\ review'[u] = review[u]
        BY <1>8, <1>12, <2>1
      <3>2. "escalated" \in log[u]
        BY <3>1 DEF RoutingIInv, ReviewsInv, ReviewIsCommitted
      <3>3. PICK m \in Attempts :
               LET q == route[u][m] IN
               /\ m = current[u] /\ q.at = "done" /\ q.status = "escalated"
               /\ review[u].hold = IF q.hold = None THEN <<>> ELSE Key(u, q.hold)
        BY <3>1 DEF RoutingIInv, ReviewsInv, ReviewIsCommitted
      <3>4. route'[u][m] = route[u][m] /\ current'[u] = current[u]
        BY <1>7, <1>9, <3>1
      <3> QED
        BY <1>9, <3>1, <3>2, <3>3, <3>4
    <2>2. ReviewIsCommitted'
      BY <2>1 DEF ReviewIsCommitted
    <2> QED
      BY <1>8, <2>2 DEF RoutingIInv, ReviewsInv
  <1>15. Balanced'
    <2>0. route'[t][n].spent = {} /\ route[t][n].spent = {}
      BY <1>3, <1>4, <1>7 DEF Fresh
    <2>1. \A u \in Task, m \in Attempts : route'[u][m].spent = route[u][m].spent
      BY <1>7, <2>0
    <2>2. \A k \in GrantKey : SpentBy(k)' \subseteq SpentBy(k)
      BY <2>1 DEF SpentBy
    <2>3. \A k \in GrantKey : Owed(k)' = Owed(k) /\ Approved(k)' = Approved(k) /\ Approved(k) \subseteq Task
      BY <1>8 DEF Owed, Approved
    <2>4. \A k \in GrantKey : grants'[k] \in Nat /\ grants'[k] <= grants[k]
      BY <1>8 DEF RoutingIInv, TypeOK
    <2> QED
      BY <2>2, <2>3, <2>4, BalanceKept DEF RoutingIInv
  <1> QED
    BY <1>10, <1>11, <1>13, <1>14, <1>15 DEF RoutingIInv

-----------------------------------------------------------------------------
(* The reviewers' calls, and grants that expire.                            *)

\* The routing calls are as they were: only the balance has to be shown.
LEMMA DeskKeeps ==
    ASSUME RoutingIInv, UNCHANGED <<route, current, log>>,
           grants' \in [GrantKey -> Nat], granting' \in [Task -> Nat], review' \in [Task -> Review],
           \A t \in Task : /\ review'[t].hold = review[t].hold
                           /\ review'[t].status = "none" <=> review[t].status = "none"
                           /\ granting'[t] <= 1
                           /\ granting'[t] > 0 => review'[t].status \in {"approved", "accepted"} /\ review'[t].hold # <<>>,
           Balanced'
    PROVE  RoutingIInv'
  <1>1. TypeOK'
    BY DEF RoutingIInv, TypeOK
  <1>2. CallsInv'
    BY DEF RoutingIInv, CallsInv
  <1>3. AttemptsInv'
    BY DEF RoutingIInv, AttemptsInv
  <1>4. ReviewIsCommitted'
    BY DEF RoutingIInv, ReviewsInv, ReviewIsCommitted
  <1>5. ReviewsInv'
    BY <1>4 DEF RoutingIInv, ReviewsInv
  <1> QED
    BY <1>1, <1>2, <1>3, <1>5 DEF RoutingIInv

\* A decision that owes a grant is one approval more.
LEMMA DecideKeeps ==
    ASSUME RoutingIInv, NEW t \in Task, NEW d \in {"approved", "accepted", "rejected"}, Decide(t, d)
    PROVE  RoutingIInv'
  <1>1. /\ review[t].status = "pending" /\ review \in [Task -> Review]
        /\ review' = [review EXCEPT ![t].status = d]
        /\ granting \in [Task -> Nat] /\ grants \in [GrantKey -> Nat]
        /\ UNCHANGED <<route, current, grants, log>>
    BY DEF Decide, Resolve, RoutingIInv, TypeOK
  <1>2. /\ review' \in [Task -> Review] /\ review'[t].status = d /\ review'[t].hold = review[t].hold
        /\ \A u \in Task : u # t => review'[u] = review[u]
    BY <1>1 DEF Review
  <1>3. granting[t] = 0
    BY <1>1 DEF RoutingIInv, ReviewsInv
  <1>4. /\ granting' \in [Task -> Nat] /\ \A u \in Task : u # t => granting'[u] = granting[u]
        /\ granting'[t] = IF d \in {"approved", "accepted"} /\ review[t].hold # <<>> THEN 1 ELSE 0
    <2>1. granting' = IF d \in {"approved", "accepted"} /\ review[t].hold # <<>>
                      THEN [granting EXCEPT ![t] = 1] ELSE granting
      BY <1>1, <1>3 DEF Decide
    <2> QED
      BY <1>1, <1>3, <2>1
  <1>5. ASSUME NEW u \in Task
        PROVE  /\ review'[u].hold = review[u].hold
               /\ review'[u].status = "none" <=> review[u].status = "none"
               /\ granting'[u] <= 1
               /\ granting'[u] > 0 => review'[u].status \in {"approved", "accepted"} /\ review'[u].hold # <<>>
    <2>1. CASE u = t
      BY <1>1, <1>2, <1>4, <2>1
    <2>2. CASE u # t
      BY <1>2, <1>4, <2>2 DEF RoutingIInv, ReviewsInv
    <2> QED
      BY <2>1, <2>2
  <1>6. \A k \in GrantKey : SpentBy(k)' = SpentBy(k)
    BY <1>1 DEF SpentBy
  <1>7. \A k \in GrantKey : t \notin Owed(k) /\ t \notin Approved(k)
    BY <1>1, <1>3 DEF Owed, Approved
  <1>8. \A k \in GrantKey : /\ Owed(k) \subseteq Task /\ Approved(k) \subseteq Task
                            /\ \A u \in Task : u # t => /\ u \in Owed(k)' <=> u \in Owed(k)
                                                        /\ u \in Approved(k)' <=> u \in Approved(k)
                            /\ Owed(k)' \subseteq Task /\ Approved(k)' \subseteq Task
    BY <1>2, <1>4 DEF Owed, Approved
  <1>9. \A k \in GrantKey : t \in Owed(k)' => t \in Approved(k)'
    BY <1>2, <1>4 DEF Owed, Approved
  <1>10. Balanced'
    <2> SUFFICES ASSUME NEW k \in GrantKey
                 PROVE  (grants[k] + Cardinality(SpentBy(k)) + Cardinality(Owed(k)) <= Cardinality(Approved(k)))'
      BY DEF Balanced
    <2>1. PICK S \in SUBSET (Task \X Attempts) : S = SpentBy(k) /\ S = SpentBy(k)'
      BY <1>6 DEF SpentBy
    <2>2. PICK O, P \in SUBSET Task : O = Owed(k) /\ P = Owed(k)'
      BY <1>8
    <2>3. PICK A, B \in SUBSET Task : A = Approved(k) /\ B = Approved(k)'
      BY <1>8
    <2>4. /\ IsFiniteSet(O) /\ IsFiniteSet(P) /\ IsFiniteSet(A) /\ IsFiniteSet(B)
          /\ Cardinality(S) \in Nat /\ Cardinality(O) \in Nat /\ Cardinality(P) \in Nat
          /\ Cardinality(A) \in Nat /\ Cardinality(B) \in Nat
      BY CountsFinite
    <2>5. t \notin O /\ t \notin A /\ (t \in P => t \in B)
      BY <1>7, <1>9, <2>2, <2>3
    <2>6. /\ P = IF t \in P THEN O \cup {t} ELSE O
          /\ B = IF t \in B THEN A \cup {t} ELSE A
      <3>1. \A u \in Task : u # t => (u \in P <=> u \in O) /\ (u \in B <=> u \in A)
        BY <1>8, <2>2, <2>3
      <3>2. P = IF t \in P THEN O \cup {t} ELSE O
        BY <2>5, <3>1
      <3>3. B = IF t \in B THEN A \cup {t} ELSE A
        BY <2>5, <3>1
      <3> QED
        BY <3>2, <3>3
    <2>7. /\ Cardinality(P) = IF t \in P THEN Cardinality(O) + 1 ELSE Cardinality(O)
          /\ Cardinality(B) = IF t \in B THEN Cardinality(A) + 1 ELSE Cardinality(A)
      <3>1. Cardinality(O \cup {t}) = Cardinality(O) + 1
        BY <2>4, <2>5, FS_AddElement
      <3>2. Cardinality(A \cup {t}) = Cardinality(A) + 1
        BY <2>4, <2>5, FS_AddElement
      <3> QED
        BY <2>6, <3>1, <3>2
    <2>8. grants[k] + Cardinality(S) + Cardinality(O) <= Cardinality(A) /\ grants'[k] = grants[k] /\ grants[k] \in Nat
      BY <1>1, <2>1, <2>2, <2>3 DEF RoutingIInv, Balanced
    <2>9. grants'[k] + Cardinality(S) + Cardinality(P) <= Cardinality(B)
      BY <2>4, <2>5, <2>6, <2>7, <2>8
    <2> QED
      BY <2>1, <2>2, <2>3, <2>9
  <1> QED
    BY <1>1, <1>2, <1>4, <1>5, <1>10, DeskKeeps

\* An owed grant is issued, or never: either way it is owed no more.
LEMMA OwedKeeps ==
    ASSUME RoutingIInv, NEW t \in Task, IssueGrant(t) \/ GrantLost(t)
    PROVE  RoutingIInv'
  <1>1. /\ granting[t] > 0 /\ granting \in [Task -> Nat] /\ grants \in [GrantKey -> Nat] /\ review \in [Task -> Review]
        /\ granting' = [granting EXCEPT ![t] = @ - 1]
        /\ UNCHANGED <<route, current, review, log>>
    BY DEF IssueGrant, GrantLost, RoutingIInv, TypeOK
  <1>2. granting[t] = 1 /\ review[t].hold # <<>>
    BY <1>1 DEF RoutingIInv, ReviewsInv
  <1>3. PICK h \in GrantKey : h = review[t].hold
    BY <1>1, <1>2 DEF Review
  <1>4. granting' \in [Task -> Nat] /\ granting'[t] = 0 /\ \A u \in Task : u # t => granting'[u] = granting[u]
    BY <1>1, <1>2
  <1>5. /\ grants' \in [GrantKey -> Nat]
        /\ grants'[h] <= grants[h] + 1
        /\ \A k \in GrantKey : k # h => grants'[k] = grants[k]
    <2>1. grants' = [grants EXCEPT ![h] = @ + 1] \/ grants' = grants
      BY <1>3 DEF IssueGrant, GrantLost
    <2> QED
      BY <1>1, <2>1
  <1>6. \A u \in Task : /\ granting'[u] <= 1
                        /\ granting'[u] > 0 => review'[u].status \in {"approved", "accepted"} /\ review'[u].hold # <<>>
    BY <1>1, <1>4 DEF RoutingIInv, ReviewsInv
  <1>7. \A k \in GrantKey : SpentBy(k)' = SpentBy(k) /\ Approved(k)' = Approved(k)
    BY <1>1 DEF SpentBy, Approved
  <1>8. t \in Owed(h) /\ \A k \in GrantKey : Owed(k) \subseteq Task /\ Owed(k)' = Owed(k) \ {t}
    BY <1>1, <1>3, <1>4 DEF Owed
  <1>9. Balanced'
    <2> SUFFICES ASSUME NEW k \in GrantKey
                 PROVE  (grants[k] + Cardinality(SpentBy(k)) + Cardinality(Owed(k)) <= Cardinality(Approved(k)))'
      BY DEF Balanced
    <2>1. PICK S \in SUBSET (Task \X Attempts) : S = SpentBy(k) /\ S = SpentBy(k)'
      BY <1>7 DEF SpentBy
    <2>2. PICK O \in SUBSET Task : O = Owed(k) /\ O \ {t} = Owed(k)'
      BY <1>8
    <2>3. PICK A \in SUBSET Task : A = Approved(k) /\ A = Approved(k)'
      BY <1>7 DEF Approved
    <2>4. /\ IsFiniteSet(O) /\ Cardinality(S) \in Nat /\ Cardinality(O) \in Nat /\ Cardinality(A) \in Nat
          /\ Cardinality(O \ {t}) \in Nat
      BY CountsFinite
    <2>5. Cardinality(O \ {t}) = IF t \in O THEN Cardinality(O) - 1 ELSE Cardinality(O)
      BY <2>4, FS_RemoveElement
    <2>6. k = h => t \in O
      BY <1>8, <2>2
    <2>7. grants[k] + Cardinality(S) + Cardinality(O) <= Cardinality(A)
      BY <2>1, <2>2, <2>3 DEF RoutingIInv, Balanced
    <2>8. grants[k] \in Nat /\ grants'[k] \in Nat /\ grants'[k] <= IF k = h THEN grants[k] + 1 ELSE grants[k]
      BY <1>1, <1>5
    <2>9. grants'[k] + Cardinality(S) + Cardinality(O \ {t}) <= Cardinality(A)
      BY <2>4, <2>5, <2>6, <2>7, <2>8
    <2> QED
      BY <2>1, <2>2, <2>3, <2>9
  <1> QED
    BY <1>1, <1>4, <1>5, <1>6, <1>9, DeskKeeps

\* A grant that expires covers nothing any more.
LEMMA ExpireKeeps ==
    ASSUME RoutingIInv, NEW k \in GrantKey, Expire(k)
    PROVE  RoutingIInv'
  <1>1. /\ grants \in [GrantKey -> Nat] /\ grants[k] > 0 /\ grants' = [grants EXCEPT ![k] = @ - 1]
        /\ granting \in [Task -> Nat] /\ review \in [Task -> Review]
        /\ UNCHANGED <<route, current, review, granting, log>>
    BY DEF Expire, RoutingIInv, TypeOK
  <1>2. grants' \in [GrantKey -> Nat] /\ \A j \in GrantKey : grants'[j] <= grants[j]
    BY <1>1
  <1>3. \A j \in GrantKey : SpentBy(j)' = SpentBy(j) /\ Owed(j)' = Owed(j) /\ Approved(j)' = Approved(j)
                            /\ Approved(j) \subseteq Task
    BY <1>1 DEF SpentBy, Owed, Approved
  <1>4. Balanced'
    BY <1>2, <1>3, BalanceKept DEF RoutingIInv
  <1>5. \A u \in Task : /\ granting'[u] <= 1
                        /\ granting'[u] > 0 => review'[u].status \in {"approved", "accepted"} /\ review'[u].hold # <<>>
    BY <1>1 DEF RoutingIInv, ReviewsInv
  <1> QED
    BY <1>1, <1>2, <1>4, <1>5, DeskKeeps

-----------------------------------------------------------------------------
(* The invariant, and what it says.                                         *)

\* Before the first submission nothing is spent, owed or approved.
LEMMA InitHolds ==
    Init => RoutingIInv
  <1> SUFFICES ASSUME Init PROVE RoutingIInv
    OBVIOUS
  <1>1. Fresh \in Routing
    BY DEF Fresh, Routing, Nodes, Final
  <1>2. MaxAttempts \in Nat \ {0}
    BY RoutingAssumption
  <1>3. TypeOK
    BY <1>1, <1>2 DEF Init, TypeOK, Review, Logged
  <1>4. \A t \in Task, n \in Attempts : route[t][n] = Fresh
    BY DEF Init
  <1>5. ASSUME NEW t \in Task PROVE CallOK(t, Fresh) /\ PolicyOK(t, Fresh)
    BY DEF CallOK, PolicyOK, Fresh
  <1>6. CallsInv
    BY <1>4, <1>5 DEF CallsInv
  <1>7. \A t \in Task : current[t] = 0 /\ review[t].status = "none" /\ review[t].hold = <<>> /\ granting[t] = 0
    BY DEF Init
  <1>8. AttemptsInv
    <2>1. Fresh.at = "none" /\ \A n \in Attempts : n > 0 /\ ~(n <= 0)
      BY <1>2 DEF Fresh, Attempts
    <2> QED
      BY <1>4, <1>7, <2>1 DEF AttemptsInv
  <1>9. ReviewsInv
    BY <1>7 DEF ReviewsInv, ReviewIsCommitted
  <1>10. Balanced
    <2> SUFFICES ASSUME NEW k \in GrantKey
                 PROVE  grants[k] + Cardinality(SpentBy(k)) + Cardinality(Owed(k)) <= Cardinality(Approved(k))
      BY DEF Balanced
    <2>1. \A t \in Task, n \in Attempts : route[t][n].spent = {}
      BY <1>4 DEF Fresh
    <2>2. SpentBy(k) = {} /\ Owed(k) = {} /\ Approved(k) = {}
      BY <1>7, <2>1 DEF SpentBy, Owed, Approved
    <2>3. grants[k] = 0
      BY DEF Init
    <2> QED
      BY <2>2, <2>3, FS_EmptySet
  <1> QED
    BY <1>3, <1>6, <1>8, <1>9, <1>10 DEF RoutingIInv

\* Every step of the routing graph, the reviewers and the grants keeps it.
LEMMA StepKeeps ==
    RoutingIInv /\ [Next]_vars => RoutingIInv'
  <1> SUFFICES ASSUME RoutingIInv, [Next]_vars PROVE RoutingIInv'
    OBVIOUS
  <1>1. ASSUME NEW t \in Task, Submit(t) \/ NextAttempt(t) \/ IssueGrant(t) \/ GrantLost(t) PROVE RoutingIInv'
    BY <1>1, EnterKeeps, OwedKeeps
  <1>2. ASSUME NEW t \in Task, NEW n \in Attempts, GraphStep(t, n) PROVE RoutingIInv'
    BY <1>2, ConsumeKeeps, MatchKeeps, RunKeeps, EndKeeps, TakeKeeps DEF GraphStep
  <1>3. ASSUME NEW t \in Task, NEW n \in Attempts, Dies(t, n) PROVE RoutingIInv'
    BY <1>3, DeathKeeps
  <1>4. ASSUME NEW t \in Task, NEW d \in {"approved", "accepted", "rejected"}, Decide(t, d) PROVE RoutingIInv'
    BY <1>4, DecideKeeps
  <1>5. ASSUME NEW k \in GrantKey, Expire(k) PROVE RoutingIInv'
    BY <1>5, ExpireKeeps
  <1>6. CASE UNCHANGED vars
    <2>1. UNCHANGED <<route, current, grants, review, granting, log>>
      BY <1>6 DEF vars
    <2> QED
      BY <2>1 DEF RoutingIInv, TypeOK, CallsInv, AttemptsInv, ReviewsInv, ReviewIsCommitted, Balanced, SpentBy, Owed, Approved
  <1> QED
    BY <1>1, <1>2, <1>3, <1>4, <1>5, <1>6 DEF Next

\* The inductive invariant of the routing graph holds in every reachable state.
THEOREM RoutingHolds ==
    Spec => []RoutingIInv
  BY InitHolds, StepKeeps, PTL DEF Spec

\* Neither a denied skill nor a confidence below the threshold passes for a
\* completed run, and no call runs an agent more than twice (policy_node,
\* _after_execute, handle_failure).
THEOREM CallsStayOnTheGraph ==
    Spec => []RoutingInv
  <1>1. RoutingIInv => RoutingInv
    <2> SUFFICES ASSUME RoutingIInv PROVE RoutingInv
      OBVIOUS
    <2>1. TypeOK
      BY DEF RoutingIInv
    <2>2. DenialIsFree
      BY DEF RoutingIInv, CallsInv, PolicyOK, DenialIsFree
    <2>3. ASSUME NEW t \in Task, NEW n \in Attempts, NEW r \in Routing, CallOK(t, r)
          PROVE  /\ r.runs <= 2
                 /\ r.status = "complete" /\ r.at \in {"logged", "done"} => r.runs > 0 /\ r.confidence >= Threshold(t)
      <3>1. r.runs \in Nat /\ r.retries \in Nat
        BY DEF Routing
      <3> QED
        BY <2>3, <3>1 DEF CallOK
    <2>4. OutcomeEarned
      BY <2>3, CallFacts DEF OutcomeEarned
    <2> QED
      BY <2>1, <2>2, <2>4 DEF RoutingInv
  <1> QED
    BY <1>1, RoutingHolds, PTL

\* A review stands for the logged, escalated result that the newest attempt
\* committed (ReviewQueue.enqueue, route()).
THEOREM ReviewsAreCommitted ==
    Spec => []ReviewIsCommitted
  <1>1. RoutingIInv => ReviewIsCommitted
    BY DEF RoutingIInv, ReviewsInv
  <1> QED
    BY <1>1, RoutingHolds, PTL

\* Runs that the policy holds never outnumber the approvals of their origin,
\* skill and payload (GrantStore.consume, resolve, _issue_policy_grant).
THEOREM RunsAreApproved ==
    Spec => []ApprovalsCoverRuns
  <1>1. RoutingIInv => ApprovalsCoverRuns
    <2> SUFFICES ASSUME RoutingIInv, NEW k \in GrantKey
                 PROVE  Cardinality({c \in Task \X Attempts : k \in HeldKeys[c[1]] /\ route[c[1]][c[2]].runs > 0})
                        <= Cardinality(Approved(k))
      BY DEF ApprovalsCoverRuns, Approved
    <2>1. PICK R \in SUBSET (Task \X Attempts) :
             R = {c \in Task \X Attempts : k \in HeldKeys[c[1]] /\ route[c[1]][c[2]].runs > 0}
      OBVIOUS
    <2>2. PICK S \in SUBSET (Task \X Attempts) : S = SpentBy(k)
      BY DEF SpentBy
    <2>3. R \subseteq S
      <3> SUFFICES ASSUME NEW c \in R PROVE c \in S
        OBVIOUS
      <3>1. c[1] \in Task /\ c[2] \in Attempts /\ k \in HeldKeys[c[1]] /\ route[c[1]][c[2]].runs > 0
        BY <2>1
      <3>2. HeldKeys[c[1]] \subseteq route[c[1]][c[2]].spent
        BY <3>1, CallFacts DEF PolicyOK
      <3> QED
        BY <2>1, <2>2, <3>1, <3>2 DEF SpentBy
    <2>4. PICK O, A \in SUBSET Task : O = Owed(k) /\ A = Approved(k)
      BY DEF Owed, Approved
    <2>5. /\ IsFiniteSet(S) /\ Cardinality(R) \in Nat /\ Cardinality(S) \in Nat
          /\ Cardinality(O) \in Nat /\ Cardinality(A) \in Nat
      BY CountsFinite
    <2>6. Cardinality(R) <= Cardinality(S)
      BY <2>3, <2>5, FS_Subset
    <2>7. grants[k] \in Nat /\ grants[k] + Cardinality(S) + Cardinality(O) <= Cardinality(A)
      BY <2>2, <2>4 DEF RoutingIInv, TypeOK, Balanced
    <2> QED
      BY <2>1, <2>4, <2>5, <2>6, <2>7
  <1> QED
    BY <1>1, RoutingHolds, PTL

\* Only an attempt that has lost the job can have run a task that is in review
\* for a hold, and it consumed a grant for what is held (policy_node,
\* handle_failure).
THEOREM HeldTasksWait ==
    Spec => []HeldRanOnlyWhenLost
  <1>1. RoutingIInv => HeldRanOnlyWhenLost
    <2> SUFFICES ASSUME RoutingIInv, NEW t \in Task, NEW n \in Attempts,
                        review[t].hold # <<>>, route[t][n].runs > 0
                 PROVE  n < current[t] /\ review[t].hold \in route[t][n].spent
      BY DEF HeldRanOnlyWhenLost
    <2>1. review[t].status # "none"
      BY DEF RoutingIInv, ReviewsInv
    <2>2. PICK m \in Attempts :
             LET r == route[t][m] IN
             /\ m = current[t] /\ review[t].hold = IF r.hold = None THEN <<>> ELSE Key(t, r.hold)
      BY <2>1 DEF RoutingIInv, ReviewsInv, ReviewIsCommitted
    <2>3. PICK r \in Routing : r = route[t][m] /\ PolicyOK(t, r)
      BY CallFacts
    <2>4. /\ r.hold # None /\ review[t].hold = Key(t, r.hold) /\ r.runs = 0
          /\ r.hold \in Decided(t, "require_review")
      BY <2>2, <2>3 DEF PolicyOK
    <2>5. review[t].hold \in HeldKeys[t]
      BY <2>4, Submitted
    <2>6. review[t].hold \in route[t][n].spent
      BY <2>5, CallFacts DEF PolicyOK
    <2>7. n # m
      BY <2>3, <2>4
    <2>8. ~(n > current[t])
      <3>1. Fresh.runs = 0
        BY DEF Fresh
      <3> QED
        BY <3>1 DEF RoutingIInv, AttemptsInv
    <2>9. n \in Nat /\ m \in Nat
      BY RoutingAssumption DEF Attempts
    <2> QED
      BY <2>2, <2>6, <2>7, <2>8, <2>9
  <1> QED
    BY <1>1, RoutingHolds, PTL
=============================================================================
