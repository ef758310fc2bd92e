--------------------------- MODULE Learning_proofs ---------------------------
(***************************************************************************)
(* Lessons and candidates, for every set of skills, corrections, contents  *)
(* and requests, and every bound.                                          *)
(*                                                                         *)
(* LessonsInv is not inductive: it looks at rows, memories and evidence,   *)
(* and says nothing of the requests between their steps.  A request keeps  *)
(* the content it read while others edit, approve and take back the same   *)
(* lesson.                                                                 *)
(*                                                                         *)
(* The second half is about the weights and the heuristic cycle: an alert  *)
(* compares averages, so its theorem rests on lemmas about sums, proved by *)
(* induction over the set of positions for which a statement holds.        *)
(***************************************************************************)
EXTENDS Heuristics, SequenceTheorems, FiniteSetTheorems, WellFoundedInduction, TLAPS

ReviewRecord == [at : {"idle", "read", "claimed", "remembered"}, lesson : LessonIds \cup {None},
                 edited : Content \cup {None}, content : Content \cup {None}]
ProposalRecord == [at : {"idle", "group", "add"}, todo : SUBSET Skills, skill : Skills \cup {None},
                   evidence : SUBSET Evidence, fresh : SUBSET Content]
Memory == [skill : Skills, content : Content, lesson : LessonIds \cup {None}]

TablesOK ==
    /\ lesson \in [LessonIds -> LessonRow \cup {None}]
    /\ written \in [LessonIds -> Nat]
    /\ memories \in Seq(Memory)
    /\ review \in [Requests -> ReviewRecord]
    /\ propose \in [Requests -> ProposalRecord]

Text(v) == IF v.edited = None THEN v.content ELSE v.edited
Holds(v, l) == v.lesson = l /\ v.at \in {"claimed", "remembered"}

\* What a request knows of the lesson it reviews.
RequestOK(v) ==
    /\ v.at # "idle" => v.lesson \in Stored /\ v.content \in Content
    /\ v.at = "read" => \/ v.content = lesson[v.lesson].content \/ v.lesson \in reverted
                        \/ lesson[v.lesson].status # "pending"
    /\ v.at = "claimed" => /\ lesson[v.lesson].status = "approved" /\ written[v.lesson] = 0
                           /\ Text(v) = lesson[v.lesson].content \/ v.lesson \in reverted
    /\ v.at = "remembered" => lesson[v.lesson].status = "approved" /\ written[v.lesson] = 1

\* One request at a time works on an approval.
OneHolder == \A r, q \in Requests, l \in LessonIds : Holds(review[r], l) /\ Holds(review[q], l) => r = q

\* What was written for a lesson, and who still owes it.
RowOK(l) ==
    /\ written[l] <= 1
    /\ l \notin Stored \/ lesson[l].status # "approved" => written[l] = 0
    /\ l \in Stored /\ lesson[l].status = "approved" =>
          \/ l \in cut \/ written[l] = 1
          \/ \E r \in Requests : review[r].lesson = l /\ review[r].at = "claimed"

\* A memory that names a lesson is that of an approval.
MemoryOK(m) ==
    m.lesson # None =>
        /\ m.lesson \in Stored /\ lesson[m.lesson].status = "approved" /\ lesson[m.lesson].skill = m.skill
        /\ written[m.lesson] = 1
        /\ lesson[m.lesson].content = m.content \/ m.lesson \in reverted

LearningIInv ==
    /\ TablesOK
    /\ \A r \in Requests : RequestOK(review[r])
    /\ OneHolder
    /\ \A l \in LessonIds : RowOK(l)
    /\ \A i \in DOMAIN memories : MemoryOK(memories[i])
    /\ \A r \in Requests : propose[r].at = "add" => propose[r].skill \in Skills
    /\ EvidenceKept

-----------------------------------------------------------------------------
(* Proposals.                                                               *)

\* Rows that keep their skill keep the evidence accounted for.
LEMMA EvidenceStays ==
    ASSUME EvidenceKept, UNCHANGED used,
           \A l \in Stored : l \in Stored' /\ lesson'[l].skill = lesson[l].skill
    PROVE  EvidenceKept'
  BY DEF EvidenceKept

\* A step of a proposal that stores nothing.
LEMMA ProposalStep ==
    ASSUME LearningIInv, NEW r \in Requests, NEW p \in ProposalRecord, p.at = "add" => p.skill \in Skills,
           propose' = [propose EXCEPT ![r] = p], UNCHANGED <<lesson, review, memories, written, cut, reverted>>,
           EvidenceKept'
    PROVE  LearningIInv'
  <1>1. /\ propose \in [Requests -> ProposalRecord] /\ propose' \in [Requests -> ProposalRecord]
        /\ \A q \in Requests : propose'[q] = IF q = r THEN p ELSE propose[q]
    BY DEF LearningIInv, TablesOK
  <1>2. \A q \in Requests : propose'[q].at = "add" => propose'[q].skill \in Skills
    BY <1>1 DEF LearningIInv
  <1>3. TablesOK'
    BY <1>1 DEF LearningIInv, TablesOK
  <1>4. (\A q \in Requests : RequestOK(review[q]))'
    BY DEF LearningIInv, RequestOK, Stored, Text
  <1>5. OneHolder' /\ (\A l \in LessonIds : RowOK(l))' /\ (\A i \in DOMAIN memories : MemoryOK(memories[i]))'
    BY DEF LearningIInv, OneHolder, Holds, RowOK, MemoryOK, Stored
  <1> QED
    BY <1>2, <1>3, <1>4, <1>5 DEF LearningIInv

\* Groups are read, left or done with.
LEMMA ProposalKeeps ==
    ASSUME LearningIInv, NEW r \in Requests,
           StartProposal(r) \/ EndProposal(r) \/ \E s \in Skills : ReplyFails(r, s)
    PROVE  LearningIInv'
  <1>1. /\ propose \in [Requests -> ProposalRecord] /\ EvidenceKept
        /\ UNCHANGED <<lesson, used, review, memories, written, cut, reverted>>
    BY DEF LearningIInv, TablesOK, StartProposal, EndProposal, ReplyFails
  <1>2. EvidenceKept'
    BY <1>1, EvidenceStays DEF Stored
  <1>3. NoProposal \in ProposalRecord /\ NoProposal.at = "idle"
    BY DEF NoProposal, ProposalRecord
  <1>4. CASE StartProposal(r)
    <2>1. PICK todo \in SUBSET Skills, ev \in SUBSET Evidence :
             propose' = [propose EXCEPT ![r] = [NoProposal EXCEPT !.at = "group", !.todo = todo, !.evidence = ev]]
      <3>1. Groups \in SUBSET Skills /\ UNION {Correction[s] \ used : s \in Groups} \in SUBSET Evidence
        BY DEF Groups, Evidence
      <3> QED
        BY <1>4, <3>1 DEF StartProposal
    <2>2. PICK p \in ProposalRecord : p = [NoProposal EXCEPT !.at = "group", !.todo = todo, !.evidence = ev] /\ p.at = "group"
      <3>1. LET p == [NoProposal EXCEPT !.at = "group", !.todo = todo, !.evidence = ev] IN p \in ProposalRecord /\ p.at = "group"
        BY DEF NoProposal, ProposalRecord
      <3> QED
        BY <3>1
    <2> QED
      BY <1>1, <1>2, <2>1, <2>2, ProposalStep
  <1>5. CASE EndProposal(r)
    BY <1>1, <1>2, <1>3, <1>5, ProposalStep DEF EndProposal
  <1>6. ASSUME NEW s \in Skills, ReplyFails(r, s) PROVE LearningIInv'
    <2>1. PICK q \in ProposalRecord : q = propose[r] /\ q.at = "group"
      BY <1>1, <1>6 DEF ReplyFails
    <2>2. LET p == [q EXCEPT !.todo = @ \ {s}] IN p \in ProposalRecord /\ p.at = "group"
      BY <2>1 DEF ProposalRecord
    <2>3. propose' = [propose EXCEPT ![r] = [q EXCEPT !.todo = @ \ {s}]]
      BY <1>1, <1>6, <2>1 DEF ReplyFails
    <2> QED
      BY <1>1, <1>2, <2>2, <2>3, ProposalStep
  <1> QED
    BY <1>4, <1>5, <1>6

\* A reply that is known already spends the evidence of a skill with a lesson.
LEMMA ReplyKeeps ==
    ASSUME LearningIInv, NEW r \in Requests, NEW s \in Skills, NEW reply \in SUBSET Content, Reply(r, s, reply)
    PROVE  LearningIInv'
  <1>1. /\ propose \in [Requests -> ProposalRecord] /\ EvidenceKept /\ lesson \in [LessonIds -> LessonRow \cup {None}]
        /\ UNCHANGED <<lesson, review, memories, written, cut, reverted>>
    BY DEF LearningIInv, TablesOK, Reply
  <1>2. PICK fresh \in SUBSET Content : fresh = {c \in reply : ~HasContent(s, c)}
    OBVIOUS
  <1>3. PICK q \in ProposalRecord : q = propose[r]
    BY <1>1
  <1>4. PICK at \in {"group", "add"}, k \in Skills \cup {None} :
           /\ at = IF fresh = {} THEN "group" ELSE "add"
           /\ k = IF fresh = {} THEN None ELSE s
    OBVIOUS
  <1>5. propose' = [propose EXCEPT ![r] = [q EXCEPT !.at = at, !.skill = k, !.todo = @ \ {s}, !.fresh = fresh]]
    BY <1>2, <1>3, <1>4 DEF Reply, AfterReply
  <1>6. PICK p \in ProposalRecord : /\ p = [q EXCEPT !.at = at, !.skill = k, !.todo = @ \ {s}, !.fresh = fresh]
                                    /\ p.at = at /\ p.skill = k
    <2>1. LET p == [q EXCEPT !.at = at, !.skill = k, !.todo = @ \ {s}, !.fresh = fresh] IN
          p \in ProposalRecord /\ p.at = at /\ p.skill = k
      BY DEF ProposalRecord
    <2> QED
      BY <2>1
  <1>7. EvidenceKept'
    <2>1. used' = IF reply # {} /\ fresh = {} THEN used \cup (q.evidence \cap Correction[s]) ELSE used
      BY <1>2, <1>3 DEF Reply, AfterReply
    <2>2. CASE reply # {} /\ fresh = {}
      <3>1. \E l \in Stored : lesson[l].skill = s
        BY <1>2, <2>2 DEF HasContent
      <3>2. \A t \in Skills : t # s => used' \cap Correction[t] = used \cap Correction[t]
        BY <2>1, <2>2, LearningAssumption
      <3> QED
        BY <1>1, <3>1, <3>2 DEF EvidenceKept, Stored
    <2>3. CASE ~(reply # {} /\ fresh = {})
      BY <1>1, <2>1, <2>3, EvidenceStays DEF Stored
    <2> QED
      BY <2>2, <2>3
  <1> QED
    BY <1>1, <1>4, <1>5, <1>6, <1>7, ProposalStep

\* A lesson is stored with its evidence.
LEMMA AddKeeps ==
    ASSUME LearningIInv, NEW r \in Requests, NEW l \in LessonIds, AddLesson(r, l)
    PROVE  LearningIInv'
  <1>1. /\ lesson \in [LessonIds -> LessonRow \cup {None}] /\ lesson[l] = None /\ l \notin Stored
        /\ UNCHANGED <<review, memories, written, cut, reverted>>
    BY DEF LearningIInv, TablesOK, AddLesson, Stored
  <1>2. PICK q \in ProposalRecord : q = propose[r] /\ q.at = "add" /\ q.skill \in Skills
    BY DEF LearningIInv, TablesOK, AddLesson
  <1>3. PICK c \in Content, ev \in SUBSET Evidence :
           /\ ev = q.evidence \cap Correction[q.skill]
           /\ lesson' = [lesson EXCEPT ![l] = [skill |-> q.skill, content |-> c, status |-> "pending",
                                               evidence |-> ev, memory |-> None]]
           /\ used' = used \cup ev
           /\ propose' = [propose EXCEPT ![r] =
                 [q EXCEPT !.fresh = @ \ {c}, !.at = IF q.fresh = {c} THEN "group" ELSE "add",
                           !.skill = IF q.fresh = {c} THEN None ELSE @]]
    <2>1. q.evidence \cap Correction[q.skill] \in SUBSET Evidence /\ q.fresh \subseteq Content
      BY <1>2 DEF ProposalRecord
    <2>2. PICK ev \in SUBSET Evidence : ev = q.evidence \cap Correction[q.skill]
      BY <2>1
    <2>3. PICK c \in q.fresh :
             /\ lesson' = [lesson EXCEPT ![l] = [skill |-> q.skill, content |-> c, status |-> "pending",
                                                 evidence |-> ev, memory |-> None]]
             /\ used' = used \cup ev
             /\ propose' = [propose EXCEPT ![r] =
                   [q EXCEPT !.fresh = @ \ {c}, !.at = IF q.fresh = {c} THEN "group" ELSE "add",
                             !.skill = IF q.fresh = {c} THEN None ELSE @]]
      BY <1>2, <2>2, Zenon DEF AddLesson
    <2>4. c \in Content
      BY <2>1
    <2> QED
      BY <2>2, <2>3, <2>4, Zenon
  <1>4. PICK y \in LessonRow : /\ lesson' = [lesson EXCEPT ![l] = y] /\ y.skill = q.skill /\ y.status = "pending" /\ y # None
    <2>1. LET y == [skill |-> q.skill, content |-> c, status |-> "pending", evidence |-> ev, memory |-> None] IN
          y \in LessonRow /\ y.skill = q.skill /\ y.status = "pending"
      BY <1>2 DEF LessonRow
    <2> QED
      BY <1>3, <2>1, LearningAssumption
  <1>5. /\ lesson' \in [LessonIds -> LessonRow \cup {None}] /\ lesson'[l] = y
        /\ \A k \in LessonIds : k # l => lesson'[k] = lesson[k]
    BY <1>1, <1>4
  <1>6. Stored' = Stored \cup {l}
    BY <1>4, <1>5 DEF Stored
  <1>7. PICK p \in ProposalRecord : propose' = [propose EXCEPT ![r] = p] /\ (p.at = "add" => p.skill \in Skills)
    <2>1. CASE q.fresh = {c}
      <3>1. LET p == [q EXCEPT !.fresh = @ \ {c}, !.at = "group", !.skill = None] IN
            p \in ProposalRecord /\ p.at = "group"
        BY DEF ProposalRecord
      <3>2. propose' = [propose EXCEPT ![r] = [q EXCEPT !.fresh = @ \ {c}, !.at = "group", !.skill = None]]
        BY <1>3, <2>1
      <3> QED
        BY <3>1, <3>2
    <2>2. CASE q.fresh # {c}
      <3>1. LET p == [q EXCEPT !.fresh = @ \ {c}, !.at = "add", !.skill = q.skill] IN
            p \in ProposalRecord /\ p.skill = q.skill
        BY DEF ProposalRecord
      <3>2. propose' = [propose EXCEPT ![r] = [q EXCEPT !.fresh = @ \ {c}, !.at = "add", !.skill = q.skill]]
        BY <1>3, <2>2
      <3> QED
        BY <1>2, <3>1, <3>2
    <2> QED
      BY <2>1, <2>2
  <1>8. /\ propose' \in [Requests -> ProposalRecord]
        /\ \A x \in Requests : propose'[x].at = "add" => propose'[x].skill \in Skills
    BY <1>7 DEF LearningIInv, TablesOK
  <1>9. TablesOK'
    BY <1>1, <1>5, <1>8 DEF LearningIInv, TablesOK
  <1>10. \A k \in Stored : k # l /\ k \in LessonIds /\ k \in Stored' /\ lesson'[k] = lesson[k]
    BY <1>1, <1>5, <1>6 DEF Stored
  <1>11. (\A x \in Requests : RequestOK(review[x]))'
    <2> SUFFICES ASSUME NEW x \in Requests PROVE RequestOK(review[x])'
      OBVIOUS
    <2>1. PICK v \in ReviewRecord : v = review[x] /\ v = review'[x] /\ RequestOK(v)
      BY <1>1 DEF LearningIInv, TablesOK
    <2>2. v.at # "idle" => v.lesson \in Stored
      BY <2>1 DEF RequestOK
    <2> QED
      BY <1>1, <1>10, <2>1, <2>2 DEF RequestOK, Text
  <1>12. OneHolder'
    BY <1>1 DEF LearningIInv, OneHolder, Holds
  <1>13. (\A k \in LessonIds : RowOK(k))'
    <2> SUFFICES ASSUME NEW k \in LessonIds PROVE RowOK(k)'
      OBVIOUS
    <2>1. CASE k = l
      <3>1. written[l] = 0 /\ written'[l] = 0
        BY <1>1 DEF LearningIInv, RowOK
      <3> QED
        BY <1>4, <1>5, <2>1, <3>1 DEF RowOK
    <2>2. CASE k # l
      <3>1. RowOK(k) /\ lesson'[k] = lesson[k] /\ (k \in Stored' <=> k \in Stored)
        BY <1>5, <1>6, <2>2 DEF LearningIInv
      <3> QED
        BY <1>1, <3>1 DEF RowOK
    <2> QED
      BY <2>1, <2>2
  <1>14. (\A i \in DOMAIN memories : MemoryOK(memories[i]))'
    <2> SUFFICES ASSUME NEW i \in DOMAIN memories PROVE MemoryOK(memories[i])'
      BY <1>1
    <2>1. MemoryOK(memories[i])
      BY DEF LearningIInv
    <2> QED
      BY <1>1, <1>10, <2>1 DEF MemoryOK
  <1>15. EvidenceKept'
    <2>1. l \in Stored' /\ lesson'[l].skill = q.skill
      BY <1>4, <1>5, <1>6
    <2>2. \A t \in Skills : t # q.skill => used' \cap Correction[t] = used \cap Correction[t]
      BY <1>2, <1>3, LearningAssumption
    <2> SUFFICES ASSUME NEW t \in Skills, (used \cap Correction[t] # {})' PROVE \E k \in Stored' : lesson'[k].skill = t
      BY DEF EvidenceKept
    <2>3. CASE t = q.skill
      BY <2>1, <2>3
    <2>4. CASE t # q.skill
      <3>1. PICK k \in Stored : lesson[k].skill = t
        BY <2>2, <2>4 DEF LearningIInv, EvidenceKept
      <3> QED
        BY <1>10, <3>1
    <2> QED
      BY <2>3, <2>4
  <1> QED
    BY <1>8, <1>9, <1>11, <1>12, <1>13, <1>14, <1>15 DEF LearningIInv

-----------------------------------------------------------------------------
(* Reviews.                                                                 *)

\* A step of a review on the row of one lesson, which writes no memory.
LEMMA RowStep ==
    ASSUME LearningIInv, NEW l \in Stored, NEW y \in LessonRow, y.skill = lesson[l].skill,
           written[l] = 0 \/ (y.status = lesson[l].status /\ y.content = lesson[l].content),
           lesson' = [lesson EXCEPT ![l] = y], UNCHANGED <<used, propose, memories, written, cut>>,
           reverted \subseteq reverted', review' \in [Requests -> ReviewRecord], OneHolder',
           \A q \in Requests : review'[q] # review[q] \/ review[q].lesson = l => RequestOK(review[q])',
           \A q \in Requests : review[q].at = "claimed" /\ review[q].lesson # l => review'[q] = review[q],
           RowOK(l)'
    PROVE  LearningIInv'
  <1>1. l \in LessonIds /\ lesson \in [LessonIds -> LessonRow \cup {None}] /\ y # None
    BY LearningAssumption DEF LearningIInv, TablesOK, Stored
  <1>2. /\ lesson' \in [LessonIds -> LessonRow \cup {None}] /\ lesson'[l] = y
        /\ \A k \in LessonIds : k # l => lesson'[k] = lesson[k]
    BY <1>1
  <1>3. Stored' = Stored
    BY <1>1, <1>2 DEF Stored
  <1>4. TablesOK'
    BY <1>2 DEF LearningIInv, TablesOK
  <1>5. EvidenceKept'
    <2>1. \A k \in Stored : k \in Stored' /\ lesson'[k].skill = lesson[k].skill
      BY <1>2, <1>3 DEF Stored
    <2> QED
      BY <2>1, EvidenceStays DEF LearningIInv
  <1>6. ASSUME NEW q \in Requests PROVE RequestOK(review[q])'
    <2>1. CASE review'[q] # review[q] \/ review[q].lesson = l
      BY <2>1
    <2>2. CASE review'[q] = review[q] /\ review[q].lesson # l
      <3>1. PICK v \in ReviewRecord : v = review[q] /\ v = review'[q] /\ RequestOK(v) /\ v.lesson # l
        BY <2>2 DEF LearningIInv, TablesOK
      <3>2. v.at # "idle" => v.lesson \in Stored /\ v.lesson \in Stored' /\ lesson'[v.lesson] = lesson[v.lesson]
        BY <1>2, <1>3, <3>1 DEF RequestOK, Stored
      <3> QED
        BY <3>1, <3>2 DEF RequestOK, Text
    <2> QED
      BY <2>1, <2>2
  <1>7. ASSUME NEW k \in LessonIds PROVE RowOK(k)'
    <2>1. CASE k # l
      <3>1. RowOK(k) /\ lesson'[k] = lesson[k] /\ (k \in Stored' <=> k \in Stored)
        BY <1>2, <1>3, <2>1 DEF LearningIInv
      <3>2. \A q \in Requests : review[q].at = "claimed" /\ review[q].lesson = k => review'[q] = review[q]
        BY <2>1
      <3> QED
        BY <3>1, <3>2 DEF RowOK
    <2> QED
      BY <2>1
  <1>8. ASSUME NEW i \in DOMAIN memories PROVE MemoryOK(memories[i])'
    <2>1. PICK m : m = memories[i] /\ m = memories'[i] /\ MemoryOK(m)
      BY DEF LearningIInv
    <2>2. CASE m.lesson = None
      BY <2>1, <2>2 DEF MemoryOK
    <2>3. CASE m.lesson # None /\ m.lesson = l
      BY <1>2, <1>3, <2>1, <2>3 DEF MemoryOK
    <2>4. CASE m.lesson # None /\ m.lesson # l
      <3>1. m.lesson \in Stored /\ m.lesson \in LessonIds
        BY <2>1, <2>4 DEF MemoryOK, Stored
      <3>2. lesson'[m.lesson] = lesson[m.lesson]
        BY <1>2, <2>4, <3>1
      <3> QED
        BY <1>3, <2>1, <3>1, <3>2 DEF MemoryOK
    <2> QED
      BY <2>2, <2>3, <2>4
  <1>9. (\A r \in Requests : propose[r].at = "add" => propose[r].skill \in Skills)'
    BY DEF LearningIInv
  <1> QED
    BY <1>4, <1>5, <1>6, <1>7, <1>8, <1>9 DEF LearningIInv

\* What the invariant says of a row and of a request.
LEMMA ReviewFacts ==
    ASSUME LearningIInv
    PROVE  /\ \A l \in Stored : l \in LessonIds /\ lesson[l] \in LessonRow /\ RowOK(l)
           /\ \A r \in Requests : review[r] \in ReviewRecord /\ RequestOK(review[r])
           /\ written \in [LessonIds -> Nat] /\ review \in [Requests -> ReviewRecord]
           /\ NoReview \in ReviewRecord /\ NoReview.at = "idle" /\ NoReview.lesson = None
  BY DEF LearningIInv, TablesOK, Stored, NoReview, ReviewRecord

\* A request reads the lesson.
LEMMA StartReviewKeeps ==
    ASSUME LearningIInv, NEW r \in Requests, NEW l \in LessonIds, NEW edited \in Content \cup {None},
           StartReview(r, l, edited)
    PROVE  LearningIInv'
  <1>1. /\ l \in Stored /\ review[r].at = "idle" /\ lesson[l] \in LessonRow /\ review \in [Requests -> ReviewRecord]
        /\ UNCHANGED <<lesson, used, propose, memories, written, cut, reverted>>
    BY ReviewFacts DEF StartReview
  <1>2. PICK w \in ReviewRecord : /\ review' = [review EXCEPT ![r] = w]
                                  /\ w.at = "read" /\ w.lesson = l /\ w.content = lesson[l].content /\ w.content \in Content
    <2>1. LET w == [at |-> "read", lesson |-> l, edited |-> edited, content |-> lesson[l].content] IN
          w \in ReviewRecord /\ w.at = "read" /\ w.lesson = l /\ w.content = lesson[l].content /\ w.content \in Content
      BY <1>1 DEF ReviewRecord, LessonRow
    <2> QED
      BY <2>1 DEF StartReview
  <1>3. review' \in [Requests -> ReviewRecord] /\ review'[r] = w /\ \A q \in Requests : q # r => review'[q] = review[q]
    BY <1>1, <1>2
  <1>4. OneHolder'
    <2>1. \A k \in LessonIds : ~Holds(w, k)
      BY <1>2 DEF Holds
    <2> QED
      BY <1>3, <2>1 DEF LearningIInv, OneHolder
  <1>5. \A q \in Requests : review'[q] # review[q] \/ review[q].lesson = l => RequestOK(review[q])'
    <2> SUFFICES ASSUME NEW q \in Requests PROVE RequestOK(review[q])'
      OBVIOUS
    <2>1. CASE q = r
      BY <1>1, <1>2, <1>3, <2>1 DEF RequestOK, Stored
    <2>2. CASE q # r
      <3>1. RequestOK(review[q]) /\ review'[q] = review[q] /\ Stored' = Stored
        BY <1>1, <1>3, <2>2 DEF LearningIInv, Stored
      <3> QED
        BY <1>1, <3>1 DEF RequestOK, Text
    <2> QED
      BY <2>1, <2>2
  <1>6. \A q \in Requests : review[q].at = "claimed" => review'[q] = review[q]
    BY <1>1, <1>3
  <1>7. RowOK(l)'
    <2>1. RowOK(l) /\ Stored' = Stored
      BY <1>1, ReviewFacts DEF Stored
    <2> QED
      BY <1>1, <1>6, <2>1 DEF RowOK
  <1>8. lesson' = [lesson EXCEPT ![l] = lesson[l]]
    BY <1>1 DEF LearningIInv, TablesOK
  <1> QED
    BY <1>1, <1>3, <1>4, <1>5, <1>6, <1>7, <1>8, RowStep

\* A request that ends leaves the lesson to the others.
LEMMA HolderLeaves ==
    ASSUME LearningIInv, NEW r \in Requests, review' = [review EXCEPT ![r] = NoReview]
    PROVE  OneHolder' /\ RequestOK(NoReview)'
  <1>1. \A q \in Requests : review'[q] = IF q = r THEN NoReview ELSE review[q]
    BY ReviewFacts
  <1>2. \A k \in LessonIds : ~Holds(NoReview, k)
    BY DEF Holds, NoReview
  <1>3. OneHolder'
    BY <1>1, <1>2 DEF LearningIInv, OneHolder
  <1>4. RequestOK(NoReview)'
    BY DEF RequestOK, NoReview
  <1> QED
    BY <1>3, <1>4

\* A pending lesson is decided.
LEMMA ClaimFacts ==
    ASSUME LearningIInv, NEW l \in LessonIds, NEW to \in {"approved", "rejected"}, NEW edited \in Content \cup {None},
           Claim(l, to, edited)
    PROVE  /\ l \in Stored /\ written[l] = 0 /\ lesson[l].status = "pending"
           /\ \A q \in Requests : ~Holds(review[q], l)
           /\ \E y \in LessonRow : /\ lesson' = [lesson EXCEPT ![l] = y] /\ y.skill = lesson[l].skill /\ y.status = to
                                   /\ y.content = IF edited = None THEN lesson[l].content ELSE edited
  <1>1. l \in Stored /\ lesson[l].status = "pending" /\ lesson[l] \in LessonRow /\ RowOK(l)
    BY ReviewFacts DEF Claim
  <1>2. written[l] = 0
    BY <1>1 DEF RowOK
  <1>3. ASSUME NEW q \in Requests PROVE ~Holds(review[q], l)
    <2>1. RequestOK(review[q])
      BY DEF LearningIInv
    <2> QED
      BY <1>1, <2>1 DEF RequestOK, Holds
  <1>4. PICK x \in LessonRow : x = lesson[l]
    BY <1>1
  <1>5. PICK c \in Content : c = IF edited = None THEN x.content ELSE edited
    BY DEF LessonRow
  <1>6. lesson' = [lesson EXCEPT ![l] = [x EXCEPT !.status = to, !.content = c]]
    BY <1>4, <1>5 DEF Claim
  <1>7. LET y == [x EXCEPT !.status = to, !.content = c] IN
        y \in LessonRow /\ y.skill = x.skill /\ y.status = to /\ y.content = c
    BY DEF LessonRow
  <1> QED
    BY <1>1, <1>2, <1>3, <1>4, <1>5, <1>6, <1>7

\* One of several reviewers of a pending lesson approves it.
LEMMA ApproveKeeps ==
    ASSUME LearningIInv, NEW r \in Requests, Approve(r)
    PROVE  LearningIInv'
  <1>1. PICK v \in ReviewRecord : v = review[r] /\ v.at = "read" /\ RequestOK(v)
    BY ReviewFacts DEF Approve
  <1>2. PICK l \in LessonIds : l = v.lesson /\ l \in Stored /\ lesson[l] \in LessonRow /\ RowOK(l)
    BY <1>1, ReviewFacts DEF RequestOK
  <1>3. review \in [Requests -> ReviewRecord] /\ UNCHANGED <<used, propose, memories, written, cut, reverted>>
    BY ReviewFacts DEF Approve
  <1>4. CASE lesson[l].status = "pending"
    <2>1. PICK e \in Content \cup {None} : e = v.edited
      BY DEF ReviewRecord
    <2>2. Claim(l, "approved", e) /\ review' = [review EXCEPT ![r].at = "claimed"]
      BY <1>1, <1>2, <1>4, <2>1 DEF Approve
    <2>3. /\ written[l] = 0 /\ \A q \in Requests : ~Holds(review[q], l)
      BY <2>2, ClaimFacts
    <2>4. PICK y \in LessonRow : /\ lesson' = [lesson EXCEPT ![l] = y] /\ y.skill = lesson[l].skill /\ y.status = "approved"
                                 /\ y.content = IF e = None THEN lesson[l].content ELSE e
      BY <2>2, ClaimFacts
    <2>5. PICK w \in ReviewRecord : /\ review' = [review EXCEPT ![r] = w]
                                    /\ w.at = "claimed" /\ w.lesson = l /\ w.edited = e /\ w.content = v.content
      <3>1. LET w == [v EXCEPT !.at = "claimed"] IN
            w \in ReviewRecord /\ w.at = "claimed" /\ w.lesson = v.lesson /\ w.edited = v.edited /\ w.content = v.content
        BY DEF ReviewRecord
      <3>2. review' = [review EXCEPT ![r] = [v EXCEPT !.at = "claimed"]]
        BY <1>1, <1>3, <2>2
      <3> QED
        BY <1>2, <2>1, <3>1, <3>2
    <2>6. review' \in [Requests -> ReviewRecord] /\ review'[r] = w /\ \A q \in Requests : q # r => review'[q] = review[q]
      BY <1>3, <2>5
    <2>7. lesson'[l] = y /\ l \in Stored'
      <3>1. lesson'[l] = y /\ y # None
        BY <2>4, LearningAssumption DEF LearningIInv, TablesOK
      <3> QED
        BY <3>1 DEF Stored
    <2>8. OneHolder'
      <3> SUFFICES ASSUME NEW p \in Requests, NEW q \in Requests, NEW k \in LessonIds,
                          Holds(review'[p], k), Holds(review'[q], k), p # q
                   PROVE  FALSE
        BY DEF OneHolder, Holds
      <3>1. CASE k = l
        BY <2>3, <2>6, <3>1
      <3>2. CASE k # l
        <4>1. ~Holds(w, k)
          BY <2>5, <3>2 DEF Holds
        <4> QED
          BY <2>6, <4>1 DEF LearningIInv, OneHolder
      <3> QED
        BY <3>1, <3>2
    <2>9. RequestOK(review[r])'
      <3>1. v.content = lesson[l].content \/ l \in reverted
        BY <1>1, <1>2, <1>4 DEF RequestOK
      <3>2. Text(w) = y.content \/ l \in reverted'
        BY <1>3, <2>4, <2>5, <3>1 DEF Text
      <3>3. w.content \in Content
        BY <1>1, <2>5 DEF RequestOK
      <3> QED
        BY <1>3, <2>3, <2>4, <2>5, <2>6, <2>7, <3>2, <3>3 DEF RequestOK, Text
    <2>10. ASSUME NEW q \in Requests, review'[q] # review[q] \/ review[q].lesson = l PROVE RequestOK(review[q])'
      <3>1. CASE q = r
        BY <2>9, <3>1
      <3>2. CASE q # r
        <4>1. PICK u \in ReviewRecord : u = review[q] /\ u = review'[q] /\ RequestOK(u) /\ u.lesson = l /\ ~Holds(u, l)
          BY <2>3, <2>6, <2>10, <3>2, ReviewFacts
        <4>2. u.at \in {"idle", "read"}
          BY <4>1 DEF Holds, ReviewRecord
        <4> QED
          BY <2>4, <2>7, <4>1, <4>2 DEF RequestOK
      <3> QED
        BY <3>1, <3>2
    <2>11. RowOK(l)'
      BY <1>3, <2>3, <2>4, <2>5, <2>6, <2>7 DEF RowOK
    <2>12. \A q \in Requests : review[q].at = "claimed" => review'[q] = review[q]
      BY <1>1, <2>6
    <2> QED
      BY <1>2, <1>3, <2>3, <2>4, <2>6, <2>8, <2>10, <2>11, <2>12, RowStep
  <1>5. CASE lesson[l].status # "pending"
    <2>1. review' = [review EXCEPT ![r] = NoReview] /\ UNCHANGED lesson
      BY <1>1, <1>2, <1>5 DEF Approve
    <2>2. review' \in [Requests -> ReviewRecord] /\ review'[r] = NoReview /\ \A q \in Requests : q # r => review'[q] = review[q]
      BY <1>3, <2>1, ReviewFacts
    <2>3. OneHolder' /\ RequestOK(NoReview)'
      BY <2>1, HolderLeaves
    <2>4. ASSUME NEW q \in Requests PROVE RequestOK(review[q])'
      <3>1. CASE q = r
        BY <2>2, <2>3, <3>1 DEF RequestOK, NoReview
      <3>2. CASE q # r
        <4>1. RequestOK(review[q]) /\ review'[q] = review[q] /\ Stored' = Stored
          BY <2>1, <2>2, <3>2 DEF LearningIInv, Stored
        <4> QED
          BY <1>3, <2>1, <4>1 DEF RequestOK, Text
      <3> QED
        BY <3>1, <3>2
    <2>5. \A q \in Requests : review[q].at = "claimed" => review'[q] = review[q]
      BY <1>1, <2>2
    <2>6. RowOK(l)'
      <3>1. Stored' = Stored
        BY <2>1 DEF Stored
      <3> QED
        BY <1>2, <1>3, <2>1, <2>5, <3>1 DEF RowOK
    <2>7. lesson' = [lesson EXCEPT ![l] = lesson[l]]
      BY <2>1 DEF LearningIInv, TablesOK
    <2> QED
      BY <1>2, <1>3, <2>2, <2>3, <2>4, <2>5, <2>6, <2>7, RowStep
  <1> QED
    BY <1>4, <1>5

\* A pending lesson is rejected.
LEMMA RejectKeeps ==
    ASSUME LearningIInv, NEW l \in LessonIds, Reject(l)
    PROVE  LearningIInv'
  <1>1. Claim(l, "rejected", None) /\ UNCHANGED <<used, propose, review, memories, written, cut, reverted>>
    BY DEF Reject
  <1>2. l \in Stored /\ written[l] = 0 /\ \A q \in Requests : ~Holds(review[q], l)
    BY <1>1, ClaimFacts
  <1>3. PICK y \in LessonRow : lesson' = [lesson EXCEPT ![l] = y] /\ y.skill = lesson[l].skill /\ y.status = "rejected"
    BY <1>1, ClaimFacts
  <1>4. lesson'[l] = y /\ l \in Stored'
    <2>1. lesson'[l] = y /\ y # None
      BY <1>3, LearningAssumption DEF LearningIInv, TablesOK
    <2> QED
      BY <2>1 DEF Stored
  <1>5. OneHolder'
    BY <1>1 DEF LearningIInv, OneHolder, Holds
  <1>6. ASSUME NEW q \in Requests, review[q].lesson = l PROVE RequestOK(review[q])'
    <2>1. PICK u \in ReviewRecord : u = review[q] /\ u = review'[q] /\ RequestOK(u) /\ u.lesson = l /\ ~Holds(u, l)
      BY <1>1, <1>2, <1>6, ReviewFacts
    <2>2. u.at \in {"idle", "read"}
      BY <2>1 DEF Holds, ReviewRecord
    <2> QED
      BY <1>3, <1>4, <2>1, <2>2 DEF RequestOK
  <1>7. RowOK(l)'
    BY <1>1, <1>2, <1>3, <1>4 DEF RowOK
  <1>8. review' \in [Requests -> ReviewRecord]
    BY <1>1, ReviewFacts
  <1> QED
    BY <1>1, <1>2, <1>3, <1>5, <1>6, <1>7, <1>8, RowStep

\* The holder of an approval ends: it takes the approval back, or attaches
\* the memory it has written.
LEMMA HolderEnds ==
    ASSUME LearningIInv, NEW r \in Requests, RememberFails(r) \/ Attach(r)
    PROVE  LearningIInv'
  <1>1. PICK v \in ReviewRecord : v = review[r] /\ v.at \in {"claimed", "remembered"} /\ RequestOK(v)
    BY ReviewFacts DEF RememberFails, Attach
  <1>2. PICK l \in LessonIds : l = v.lesson /\ l \in Stored /\ lesson[l] \in LessonRow /\ RowOK(l)
    BY <1>1, ReviewFacts DEF RequestOK
  <1>3. /\ review \in [Requests -> ReviewRecord] /\ UNCHANGED <<used, propose, memories, written, cut>>
        /\ review' = [review EXCEPT ![r] = NoReview]
    BY ReviewFacts DEF RememberFails, Attach
  <1>4. review' \in [Requests -> ReviewRecord] /\ review'[r] = NoReview /\ \A q \in Requests : q # r => review'[q] = review[q]
    BY <1>3, ReviewFacts
  <1>5. OneHolder' /\ RequestOK(NoReview)'
    BY <1>3, HolderLeaves
  <1>6. ASSUME NEW q \in Requests, q # r PROVE ~Holds(review[q], l)
    BY <1>1, <1>2, <1>6 DEF LearningIInv, OneHolder, Holds
  <1>7. PICK x \in LessonRow : x = lesson[l]
    BY <1>2
  <1>8. CASE RememberFails(r)
    <2>1. /\ lesson' = [lesson EXCEPT ![l] = [x EXCEPT !.status = "pending", !.memory = None]]
          /\ reverted' = reverted \cup {l} /\ v.at = "claimed"
      BY <1>1, <1>2, <1>7, <1>8 DEF RememberFails
    <2>2. PICK y \in LessonRow : lesson' = [lesson EXCEPT ![l] = y] /\ y.skill = x.skill /\ y.status = "pending"
      <3>1. LET y == [x EXCEPT !.status = "pending", !.memory = None] IN
            y \in LessonRow /\ y.skill = x.skill /\ y.status = "pending"
        BY DEF LessonRow
      <3> QED
        BY <2>1, <3>1
    <2>3. lesson'[l] = y /\ l \in Stored'
      <3>1. lesson'[l] = y /\ y # None
        BY <2>2, LearningAssumption DEF LearningIInv, TablesOK
      <3> QED
        BY <3>1 DEF Stored
    <2>4. written[l] = 0
      BY <1>1, <1>2, <2>1 DEF RequestOK
    <2>5. ASSUME NEW q \in Requests, review'[q] # review[q] \/ review[q].lesson = l PROVE RequestOK(review[q])'
      <3>1. CASE q = r
        BY <1>4, <1>5, <3>1 DEF RequestOK, NoReview
      <3>2. CASE q # r
        <4>1. PICK u \in ReviewRecord : u = review[q] /\ u = review'[q] /\ RequestOK(u) /\ u.lesson = l /\ ~Holds(u, l)
          BY <1>4, <1>6, <2>5, <3>2, ReviewFacts
        <4>2. u.at \in {"idle", "read"}
          BY <4>1 DEF Holds, ReviewRecord
        <4> QED
          BY <2>1, <2>3, <4>1, <4>2 DEF RequestOK
      <3> QED
        BY <3>1, <3>2
    <2>6. RowOK(l)'
      BY <1>3, <2>2, <2>3, <2>4 DEF RowOK
    <2>7. \A q \in Requests : review[q].at = "claimed" /\ review[q].lesson # l => review'[q] = review[q]
      BY <1>1, <1>2, <1>4
    <2>8. reverted \subseteq reverted'
      BY <2>1
    <2> QED
      BY <1>2, <1>3, <1>4, <1>5, <1>7, <2>2, <2>4, <2>5, <2>6, <2>7, <2>8, RowStep
  <1>9. CASE Attach(r)
    <2>1. /\ lesson' = [lesson EXCEPT ![l] = [x EXCEPT !.memory = "attached"]]
          /\ reverted' = reverted /\ v.at = "remembered"
      BY <1>1, <1>2, <1>7, <1>9 DEF Attach, LearningIInv, TablesOK
    <2>2. PICK y \in LessonRow : /\ lesson' = [lesson EXCEPT ![l] = y] /\ y.skill = x.skill /\ y.status = x.status
                                 /\ y.content = x.content
      <3>1. LET y == [x EXCEPT !.memory = "attached"] IN
            y \in LessonRow /\ y.skill = x.skill /\ y.status = x.status /\ y.content = x.content
        BY DEF LessonRow
      <3> QED
        BY <2>1, <3>1
    <2>3. lesson'[l] = y /\ l \in Stored'
      <3>1. lesson'[l] = y /\ y # None
        BY <2>2, LearningAssumption DEF LearningIInv, TablesOK
      <3> QED
        BY <3>1 DEF Stored
    <2>4. written[l] = 1 /\ x.status = "approved"
      BY <1>1, <1>2, <1>7, <2>1 DEF RequestOK
    <2>5. ASSUME NEW q \in Requests, review'[q] # review[q] \/ review[q].lesson = l PROVE RequestOK(review[q])'
      <3>1. CASE q = r
        BY <1>4, <1>5, <3>1 DEF RequestOK, NoReview
      <3>2. CASE q # r
        <4>1. PICK u \in ReviewRecord : u = review[q] /\ u = review'[q] /\ RequestOK(u) /\ u.lesson = l /\ ~Holds(u, l)
          BY <1>4, <1>6, <2>5, <3>2, ReviewFacts
        <4>2. u.at \in {"idle", "read"}
          BY <4>1 DEF Holds, ReviewRecord
        <4> QED
          BY <2>2, <2>3, <2>4, <4>1, <4>2 DEF RequestOK
      <3> QED
        BY <3>1, <3>2
    <2>6. RowOK(l)'
      BY <1>3, <2>2, <2>3, <2>4 DEF RowOK
    <2>7. \A q \in Requests : review[q].at = "claimed" /\ review[q].lesson # l => review'[q] = review[q]
      BY <1>1, <1>2, <1>4
    <2>8. reverted \subseteq reverted'
      BY <2>1
    <2>9. /\ l \in Stored /\ y.skill = lesson[l].skill
          /\ y.status = lesson[l].status /\ y.content = lesson[l].content
      BY <1>2, <1>7, <2>2
    <2> QED
      BY <1>3, <1>4, <1>5, <2>2, <2>5, <2>6, <2>7, <2>8, <2>9, RowStep
  <1> QED
    BY <1>8, <1>9

\* The memory of an approval is written.
LEMMA RememberKeeps ==
    ASSUME LearningIInv, NEW r \in Requests, Remember(r)
    PROVE  LearningIInv'
  <1>1. PICK v \in ReviewRecord : v = review[r] /\ v.at = "claimed" /\ RequestOK(v)
    BY ReviewFacts DEF Remember
  <1>2. PICK l \in LessonIds : l = v.lesson /\ l \in Stored /\ lesson[l] \in LessonRow /\ RowOK(l)
    BY <1>1, ReviewFacts DEF RequestOK
  <1>3. /\ review \in [Requests -> ReviewRecord] /\ written \in [LessonIds -> Nat] /\ memories \in Seq(Memory)
        /\ UNCHANGED <<lesson, used, propose, cut, reverted>> /\ Stored' = Stored
    BY ReviewFacts DEF Remember, LearningIInv, TablesOK, Stored
  <1>4. /\ lesson[l].status = "approved" /\ written[l] = 0 /\ v.content \in Content
        /\ Text(v) = lesson[l].content \/ l \in reverted
    BY <1>1, <1>2 DEF RequestOK
  <1>5. PICK new \in Memory : /\ memories' = Append(memories, new)
                              /\ new.skill = lesson[l].skill /\ new.content = Text(v) /\ new.lesson = l
    <2>1. Text(v) \in Content
      BY <1>4 DEF Text, ReviewRecord
    <2>2. LET new == [skill |-> lesson[l].skill, content |-> Text(v), lesson |-> l] IN
          new \in Memory /\ new.skill = lesson[l].skill /\ new.content = Text(v) /\ new.lesson = l
      BY <1>2, <2>1 DEF Memory, LessonRow
    <2>3. memories' = Append(memories, [skill |-> lesson[l].skill, content |-> Text(v), lesson |-> l])
      BY <1>1, <1>2 DEF Remember, Text
    <2> QED
      BY <2>2, <2>3
  <1>6. written' \in [LessonIds -> Nat] /\ written'[l] = 1 /\ \A k \in LessonIds : k # l => written'[k] = written[k]
    <2>1. written' = [written EXCEPT ![l] = 1]
      BY <1>1, <1>2, <1>3, <1>4 DEF Remember
    <2> QED
      BY <1>3, <2>1
  <1>7. PICK w \in ReviewRecord : /\ review' = [review EXCEPT ![r] = w]
                                  /\ w.at = "remembered" /\ w.lesson = l /\ w.content = v.content
    <2>1. LET w == [v EXCEPT !.at = "remembered"] IN
          w \in ReviewRecord /\ w.at = "remembered" /\ w.lesson = v.lesson /\ w.content = v.content
      BY DEF ReviewRecord
    <2>2. review' = [review EXCEPT ![r] = [v EXCEPT !.at = "remembered"]]
      BY <1>1, <1>3 DEF Remember
    <2> QED
      BY <1>2, <2>1, <2>2
  <1>8. review' \in [Requests -> ReviewRecord] /\ review'[r] = w /\ \A q \in Requests : q # r => review'[q] = review[q]
    BY <1>3, <1>7
  <1>9. TablesOK'
    <2>1. memories' \in Seq(Memory)
      BY <1>3, <1>5
    <2> QED
      BY <1>3, <1>6, <1>8, <2>1 DEF LearningIInv, TablesOK
  <1>10. ASSUME NEW q \in Requests PROVE RequestOK(review[q])'
    <2>1. CASE q = r
      BY <1>2, <1>3, <1>4, <1>6, <1>7, <1>8, <2>1 DEF RequestOK
    <2>2. CASE q # r
      <3>1. PICK u \in ReviewRecord : u = review[q] /\ u = review'[q] /\ RequestOK(u)
        BY <1>8, <2>2, ReviewFacts
      <3>2. u.lesson = l => u.at \in {"idle", "read"}
        BY <1>1, <1>2, <2>2, <3>1 DEF LearningIInv, OneHolder, Holds, ReviewRecord
      <3>3. u.at \in {"claimed", "remembered"} => u.lesson \in LessonIds /\ u.lesson # l
        BY <3>1, <3>2 DEF RequestOK, Stored
      <3> QED
        BY <1>3, <1>6, <3>1, <3>3 DEF RequestOK, Text
    <2> QED
      BY <2>1, <2>2
  <1>11. OneHolder'
    <2>1. ASSUME NEW q \in Requests, NEW k \in LessonIds, Holds(review'[q], k) PROVE Holds(review[q], k)
      BY <1>1, <1>2, <1>7, <1>8, <2>1 DEF Holds
    <2> QED
      BY <2>1 DEF LearningIInv, OneHolder, Holds
  <1>12. ASSUME NEW k \in LessonIds PROVE RowOK(k)'
    <2>1. CASE k = l
      BY <1>2, <1>3, <1>4, <1>6, <2>1 DEF RowOK
    <2>2. CASE k # l
      <3>1. \A q \in Requests : review[q].lesson = k => review'[q] = review[q]
        BY <1>1, <1>2, <1>8, <2>2
      <3>2. RowOK(k)
        BY DEF LearningIInv
      <3> QED
        BY <1>3, <1>6, <2>2, <3>1, <3>2 DEF RowOK
    <2> QED
      BY <2>1, <2>2
  <1>13. (\A i \in DOMAIN memories : MemoryOK(memories[i]))'
    <2> SUFFICES ASSUME NEW i \in DOMAIN memories', NEW m, m = memories'[i] PROVE MemoryOK(m)'
      BY DEF MemoryOK
    <2>1. (i \in DOMAIN memories /\ m = memories[i]) \/ m = new
      <3>1. Len(memories') = Len(memories) + 1 /\ \A j \in 1 .. Len(memories) : memories'[j] = memories[j]
        BY <1>3, <1>5, AppendProperties
      <3>2. memories'[Len(memories) + 1] = new /\ DOMAIN memories = 1 .. Len(memories) /\ DOMAIN memories' = 1 .. Len(memories')
        BY <1>3, <1>5, <1>9, AppendProperties DEF TablesOK
      <3>3. Len(memories) \in Nat
        BY <1>3
      <3>4. i \in 1 .. Len(memories) \/ i = Len(memories) + 1
        BY <3>1, <3>2, <3>3
      <3> QED
        BY <3>1, <3>2, <3>4
    <2>2. CASE m = new
      BY <1>2, <1>3, <1>4, <1>5, <1>6, <2>2 DEF MemoryOK
    <2>3. CASE i \in DOMAIN memories /\ m = memories[i]
      <3>1. MemoryOK(m)
        BY <2>3 DEF LearningIInv
      <3>2. m.lesson # None => m.lesson # l /\ m.lesson \in LessonIds
        BY <1>4, <3>1 DEF MemoryOK, Stored
      <3> QED
        BY <1>3, <1>6, <3>1, <3>2 DEF MemoryOK
    <2> QED
      BY <2>1, <2>2, <2>3
  <1>14. EvidenceKept'
    BY <1>3, EvidenceStays DEF LearningIInv
  <1>15. (\A q \in Requests : propose[q].at = "add" => propose[q].skill \in Skills)'
    BY <1>3 DEF LearningIInv
  <1> QED
    BY <1>9, <1>10, <1>11, <1>12, <1>13, <1>14, <1>15 DEF LearningIInv

-----------------------------------------------------------------------------
(* Memories written and deleted directly, crashes, and the other parts.     *)

\* Memories come and go, and the ones that stay are as they were.
LEMMA MemoryKeeps ==
    ASSUME LearningIInv,
           \/ \E s \in Skills, c \in Content : RememberDirectly(s, c)
           \/ \E i \in 1 .. Len(memories) : Forget(i)
    PROVE  LearningIInv'
  <1>1. /\ UNCHANGED <<lesson, used, propose, review, written, cut, reverted>> /\ memories \in Seq(Memory)
        /\ Stored' = Stored
    BY DEF RememberDirectly, Forget, LearningIInv, TablesOK, Stored
  <1>2. /\ memories' \in Seq(Memory)
        /\ \A j \in DOMAIN memories' :
              memories'[j].lesson = None \/ \E k \in DOMAIN memories : memories'[j] = memories[k]
    <2>1. ASSUME NEW s \in Skills, NEW c \in Content, RememberDirectly(s, c) PROVE <1>2!1 /\ <1>2!2
      <3>1. PICK new \in Memory : memories' = Append(memories, new) /\ new.lesson = None
        <4>1. LET new == [skill |-> s, content |-> c, lesson |-> None] IN new \in Memory /\ new.lesson = None
          BY DEF Memory
        <4> QED
          BY <2>1, <4>1 DEF RememberDirectly
      <3>2. /\ memories' \in Seq(Memory) /\ Len(memories') = Len(memories) + 1
            /\ \A j \in 1 .. Len(memories) : memories'[j] = memories[j]
            /\ memories'[Len(memories) + 1] = new
        BY <1>1, <3>1, AppendProperties
      <3>3. /\ Len(memories) \in Nat /\ DOMAIN memories = 1 .. Len(memories)
            /\ DOMAIN memories' = 1 .. Len(memories')
        BY <1>1, <3>2
      <3>4. ASSUME NEW j \in DOMAIN memories'
            PROVE  memories'[j].lesson = None \/ \E k \in DOMAIN memories : memories'[j] = memories[k]
        <4>1. j \in 1 .. Len(memories) \/ j = Len(memories) + 1
          BY <3>2, <3>3
        <4> QED
          BY <3>1, <3>2, <3>3, <4>1
      <3> QED
        BY <3>2, <3>4
    <2>2. ASSUME NEW i \in 1 .. Len(memories), Forget(i) PROVE <1>2!1 /\ <1>2!2
      <3>1. /\ Len(memories) \in Nat /\ DOMAIN memories = 1 .. Len(memories)
            /\ i \in Nat /\ 1 <= i /\ i <= Len(memories)
        BY <1>1
      <3>2. PICK a, b : /\ a = SubSeq(memories, 1, i - 1) /\ b = SubSeq(memories, i + 1, Len(memories))
        OBVIOUS
      <3>3. /\ a \in Seq(Memory) /\ Len(a) = i - 1
            /\ \A j \in 1 .. Len(a) : a[j] = memories[j]
        <4>1. \A j \in 1 .. i - 1 : memories[j] \in Memory
          BY <1>1, <3>1
        <4>2. i - 1 \in Int /\ 1 \in Int
          BY <3>1
        <4>3. /\ a \in Seq(Memory) /\ Len(a) = IF 1 <= i - 1 THEN i - 1 - 1 + 1 ELSE 0
              /\ \A j \in 1 .. i - 1 - 1 + 1 : a[j] = memories[1 + j - 1]
          BY <3>2, <4>1, <4>2, SubSeqProperties
        <4> QED
          BY <3>1, <4>3
      <3>4. /\ b \in Seq(Memory) /\ Len(b) = Len(memories) - i
            /\ \A j \in 1 .. Len(b) : b[j] = memories[i + j]
        <4>1. \A j \in i + 1 .. Len(memories) : memories[j] \in Memory
          BY <1>1, <3>1
        <4>2. i + 1 \in Int /\ Len(memories) \in Int
          BY <3>1
        <4>3. /\ b \in Seq(Memory) /\ Len(b) = IF i + 1 <= Len(memories) THEN Len(memories) - (i + 1) + 1 ELSE 0
              /\ \A j \in 1 .. Len(memories) - (i + 1) + 1 : b[j] = memories[(i + 1) + j - 1]
          BY <3>2, <4>1, <4>2, SubSeqProperties
        <4>4. Len(b) = Len(memories) - i
          <5>1. CASE i + 1 <= Len(memories)
            BY <3>1, <4>3, <5>1
          <5>2. CASE ~(i + 1 <= Len(memories))
            <6>1. Len(b) = 0
              BY <4>3, <5>2
            <6>2. i = Len(memories)
              <7>1. PICK n \in Nat : n = Len(memories)
                BY <3>1
              <7>2. i \in Nat /\ i <= n /\ ~(i + 1 <= n)
                BY <3>1, <5>2, <7>1
              <7>3. i = n
                BY <7>2
              <7> QED
                BY <7>1, <7>3
            <6> QED
              BY <3>1, <6>1, <6>2
          <5> QED
            BY <5>1, <5>2
        <4>5. ASSUME NEW j \in 1 .. Len(b) PROVE b[j] = memories[i + j]
          <5>1. j \in 1 .. Len(memories) - (i + 1) + 1 /\ (i + 1) + j - 1 = i + j
            BY <3>1, <4>4
          <5> QED
            BY <4>3, <5>1
        <4> QED
          BY <4>3, <4>4, <4>5
      <3>5. /\ memories' = a \o b /\ memories' \in Seq(Memory) /\ Len(memories') = Len(a) + Len(b)
            /\ \A j \in 1 .. Len(a) + Len(b) : memories'[j] = IF j <= Len(a) THEN a[j] ELSE b[j - Len(a)]
        <4>1. memories' = a \o b
          BY <2>2, <3>2 DEF Forget, RemoveAt
        <4>2. /\ a \o b \in Seq(Memory) /\ Len(a \o b) = Len(a) + Len(b)
              /\ \A j \in 1 .. Len(a) + Len(b) : (a \o b)[j] = IF j <= Len(a) THEN a[j] ELSE b[j - Len(a)]
          BY <3>3, <3>4, ConcatProperties
        <4> QED
          BY <4>1, <4>2
      <3>6. ASSUME NEW j \in DOMAIN memories' PROVE \E k \in DOMAIN memories : memories'[j] = memories[k]
        <4>1. j \in 1 .. Len(a) + Len(b) /\ Len(a) \in Nat /\ Len(b) \in Nat
          BY <3>3, <3>4, <3>5
        <4>2. CASE j <= Len(a)
          BY <3>1, <3>3, <3>5, <4>1, <4>2
        <4>3. CASE j > Len(a)
          <5>1. j - Len(a) \in 1 .. Len(b) /\ memories'[j] = b[j - Len(a)]
            BY <3>5, <4>1, <4>3
          <5>2. memories'[j] = memories[i + (j - Len(a))] /\ i + (j - Len(a)) \in 1 .. Len(memories)
            BY <3>1, <3>3, <3>4, <5>1
          <5> QED
            BY <3>1, <5>2
        <4> QED
          BY <4>1, <4>2, <4>3
      <3> QED
        BY <3>5, <3>6
    <2> QED
      BY <2>1, <2>2
  <1>3. TablesOK'
    BY <1>1, <1>2 DEF LearningIInv, TablesOK
  <1>4. (\A i \in DOMAIN memories : MemoryOK(memories[i]))'
    <2> SUFFICES ASSUME NEW i \in DOMAIN memories', NEW m, m = memories'[i] PROVE MemoryOK(m)'
      BY DEF MemoryOK
    <2>1. m.lesson = None \/ MemoryOK(m)
      BY <1>2 DEF LearningIInv
    <2> QED
      BY <1>1, <2>1 DEF MemoryOK
  <1>5. (\A q \in Requests : RequestOK(review[q]))'
    BY <1>1 DEF LearningIInv, RequestOK, Text
  <1>6. OneHolder' /\ (\A l \in LessonIds : RowOK(l))' /\ EvidenceKept'
    BY <1>1 DEF LearningIInv, OneHolder, Holds, RowOK, EvidenceKept
  <1>7. (\A q \in Requests : propose[q].at = "add" => propose[q].skill \in Skills)'
    BY <1>1 DEF LearningIInv
  <1> QED
    BY <1>3, <1>4, <1>5, <1>6, <1>7 DEF LearningIInv

\* A crash cuts the approvals short that have no memory yet.
LEMMA CrashKeeps ==
    ASSUME LearningIInv, Crash
    PROVE  LearningIInv'
  <1>1. /\ UNCHANGED <<lesson, used, memories, written, reverted>> /\ Stored' = Stored
        /\ propose' = [r \in Requests |-> NoProposal] /\ review' = [r \in Requests |-> NoReview]
        /\ cut' = cut \cup {review[r].lesson : r \in {q \in Requests : review[q].at = "claimed"}}
    BY DEF Crash, Stored
  <1>2. NoProposal \in ProposalRecord /\ NoProposal.at = "idle" /\ NoReview \in ReviewRecord /\ NoReview.at = "idle"
    BY DEF NoProposal, ProposalRecord, NoReview, ReviewRecord
  <1>3. TablesOK'
    BY <1>1, <1>2 DEF LearningIInv, TablesOK
  <1>4. \A q \in Requests : review'[q].at = "idle" /\ propose'[q].at = "idle"
    BY <1>1, <1>2
  <1>5. (\A q \in Requests : RequestOK(review[q]))'
    BY <1>4 DEF RequestOK
  <1>6. OneHolder'
    BY <1>4 DEF OneHolder, Holds
  <1>7. ASSUME NEW l \in LessonIds PROVE RowOK(l)'
    <2>1. RowOK(l)
      BY DEF LearningIInv
    <2>2. l \in cut \/ (\E r \in Requests : review[r].lesson = l /\ review[r].at = "claimed") => l \in cut'
      BY <1>1
    <2> QED
      BY <1>1, <2>1, <2>2 DEF RowOK
  <1>8. (\A i \in DOMAIN memories : MemoryOK(memories[i]))' /\ EvidenceKept'
    BY <1>1 DEF LearningIInv, MemoryOK, EvidenceKept
  <1>9. (\A q \in Requests : propose[q].at = "add" => propose[q].skill \in Skills)'
    BY <1>4
  <1> QED
    BY <1>3, <1>5, <1>6, <1>7, <1>8, <1>9 DEF LearningIInv

\* Candidates and weights share nothing with the lessons.
LEMMA OthersKeep ==
    ASSUME LearningIInv, UNCHANGED lessonVars
    PROVE  LearningIInv'
  <1>1. UNCHANGED <<lesson, used, propose, review, memories, written, cut, reverted>>
    BY DEF lessonVars
  <1>2. (\A q \in Requests : RequestOK(review[q]))' /\ Stored' = Stored
    BY <1>1 DEF LearningIInv, RequestOK, Text, Stored
  <1>3. TablesOK' /\ OneHolder' /\ EvidenceKept'
    BY <1>1, <1>2 DEF LearningIInv, TablesOK, OneHolder, Holds, EvidenceKept
  <1>4. (\A l \in LessonIds : RowOK(l))' /\ (\A i \in DOMAIN memories : MemoryOK(memories[i]))'
    BY <1>1, <1>2 DEF LearningIInv, RowOK, MemoryOK
  <1>5. (\A q \in Requests : propose[q].at = "add" => propose[q].skill \in Skills)'
    BY <1>1 DEF LearningIInv
  <1> QED
    BY <1>2, <1>3, <1>4, <1>5 DEF LearningIInv

-----------------------------------------------------------------------------
(* The theorems.                                                            *)

\* The inductive invariant of the lessons holds in every reachable state.
THEOREM LearningHolds ==
    Spec => []LearningIInv
  <1>1. Init => LearningIInv
    <2> SUFFICES ASSUME LessonInit PROVE LearningIInv
      BY DEF Init
    <2>1. NoProposal \in ProposalRecord /\ NoProposal.at = "idle" /\ NoReview \in ReviewRecord /\ NoReview.at = "idle"
      BY DEF NoProposal, ProposalRecord, NoReview, ReviewRecord
    <2>2. TablesOK
      BY <2>1 DEF LessonInit, TablesOK
    <2>3. \A r \in Requests : review[r].at = "idle" /\ propose[r].at = "idle"
      BY <2>1 DEF LessonInit
    <2>4. Stored = {} /\ DOMAIN memories = {} /\ used = {} /\ \A l \in LessonIds : written[l] = 0
      BY DEF LessonInit, Stored
    <2>5. (\A r \in Requests : RequestOK(review[r])) /\ OneHolder
      BY <2>3 DEF RequestOK, OneHolder, Holds
    <2>6. (\A l \in LessonIds : RowOK(l)) /\ EvidenceKept
      BY <2>4 DEF RowOK, EvidenceKept
    <2> QED
      BY <2>2, <2>3, <2>4, <2>5, <2>6 DEF LearningIInv
  <1>2. LearningIInv /\ [Next]_vars => LearningIInv'
    <2> SUFFICES ASSUME LearningIInv, [Next]_vars PROVE LearningIInv'
      OBVIOUS
    <2>1. CASE LessonNext
      <3>1. \A k : kSubset(k, Content) \subseteq SUBSET Content
        BY DEF kSubset
      <3>2. ASSUME NEW r \in Requests,
                   StartProposal(r) \/ EndProposal(r) \/ Approve(r) \/ Remember(r) \/ RememberFails(r) \/ Attach(r)
            PROVE  LearningIInv'
        BY <3>2, ProposalKeeps, ApproveKeeps, RememberKeeps, HolderEnds
      <3>3. ASSUME NEW r \in Requests, NEW s \in Skills, NEW reply \in SUBSET Content, Reply(r, s, reply)
            PROVE  LearningIInv'
        BY <3>3, ReplyKeeps
      <3>4. ASSUME NEW r \in Requests, NEW s \in Skills, ReplyFails(r, s) PROVE LearningIInv'
        BY <3>4, ProposalKeeps
      <3>5. ASSUME NEW r \in Requests, NEW l \in LessonIds, AddLesson(r, l) PROVE LearningIInv'
        BY <3>5, AddKeeps
      <3>6. ASSUME NEW r \in Requests, NEW l \in LessonIds, NEW edited \in Content \cup {None}, StartReview(r, l, edited)
            PROVE  LearningIInv'
        BY <3>6, StartReviewKeeps
      <3>7. ASSUME NEW l \in LessonIds, Reject(l) PROVE LearningIInv'
        BY <3>7, RejectKeeps
      <3>8. ASSUME NEW s \in Skills, NEW c \in Content, RememberDirectly(s, c) PROVE LearningIInv'
        BY <3>8, MemoryKeeps
      <3>9. ASSUME NEW i \in 1 .. Len(memories), Forget(i) PROVE LearningIInv'
        BY <3>9, MemoryKeeps
      <3>10. kSubset(1, Content) \cup kSubset(MaxLessons, Content) \cup {{}} \subseteq SUBSET Content
        BY <3>1
      <3> QED
        BY <2>1, <3>2, <3>3, <3>4, <3>5, <3>6, <3>7, <3>8, <3>9, <3>10 DEF LessonNext
    <2>2. CASE CandidateNext
      BY <2>2, OthersKeep DEF CandidateNext, Detect, StartDecision, FinishDecision
    <2>3. CASE WeightNext
      BY <2>3, OthersKeep DEF WeightNext, UpdateWeights, Observe
    <2>4. CASE Crash
      BY <2>4, CrashKeeps
    <2>5. CASE UNCHANGED vars
      BY <2>5, OthersKeep DEF vars
    <2> QED
      BY <2>1, <2>2, <2>3, <2>4, <2>5 DEF Next
  <1> QED
    BY <1>1, <1>2, PTL DEF Spec

\* Whatever reviewers, proposals, failed writes and crashes do beside each
\* other: a recalled memory that names a lesson carries what a reviewer
\* approved, an approval is written once, and corrections are spent only on a
\* skill that has got a lesson (approve_skill_lesson, claim, revert,
\* propose_lessons).
THEOREM LessonsAreReviewed ==
    Spec => []LessonsInv
  <1>1. LearningIInv => LessonsInv
    <2> SUFFICES ASSUME LearningIInv PROVE LessonsInv
      OBVIOUS
    <2>1. ASSUME NEW s \in Skills, NEW i \in Recalled(s), memories[i].lesson # None
          PROVE  /\ lesson[memories[i].lesson].status = "approved" /\ lesson[memories[i].lesson].skill = s
                 /\ lesson[memories[i].lesson].content = memories[i].content \/ memories[i].lesson \in reverted
      <3>1. i \in DOMAIN memories /\ memories[i].skill = s
        BY DEF Recalled
      <3>2. MemoryOK(memories[i])
        BY <3>1 DEF LearningIInv
      <3> QED
        BY <2>1, <3>1, <3>2 DEF MemoryOK
    <2>2. ASSUME NEW l \in Stored
          PROVE  /\ written[l] <= 1
                 /\ (lesson[l].status = "approved" /\ l \notin cut
                      /\ \A r \in Requests : review[r].lesson = l => review[r].at = "read") => written[l] = 1
      BY ReviewFacts DEF RowOK
    <2>3. MemoryMatchesReview
      BY <2>1, <2>2 DEF MemoryMatchesReview
    <2> QED
      BY <2>3 DEF LessonsInv, LearningIInv
  <1> QED
    BY <1>1, LearningHolds, PTL

\* A decided candidate is decided for good: neither the second of two
\* reviewers nor the detector changes it (SetStatus, check).
THEOREM CandidatesStand ==
    Spec => DecisionStands
  <1> DEFINE Rows == candidate = [a \in Agents |-> candidate[a]]
             Stands == \A a \in Agents : candidate[a] # None /\ candidate[a].status # "pending" => candidate'[a] = candidate[a]
  <1>1. Init => Rows
    BY DEF Init, CandidateInit
  <1>2. Rows /\ [Next]_vars => Rows' /\ Stands
    <2> SUFFICES ASSUME Rows, [Next]_vars PROVE Rows' /\ Stands
      OBVIOUS
    <2>1. CASE UNCHANGED candidate
      BY <2>1
    <2>2. ASSUME NEW a \in Agents, Detect(a) PROVE Rows' /\ Stands
      BY <2>2 DEF Detect
    <2>3. ASSUME NEW r \in Requests, FinishDecision(r) PROVE Rows' /\ Stands
      BY <2>3 DEF FinishDecision, SetStatus
    <2>4. LessonNext => UNCHANGED candidate
      BY DEF LessonNext, StartProposal, EndProposal, Approve, Remember, RememberFails, Attach, Reply, ReplyFails,
             AddLesson, StartReview, Reject, RememberDirectly, Forget, candidateVars
    <2>5. WeightNext \/ Crash => UNCHANGED candidate
      BY DEF WeightNext, UpdateWeights, Observe, Crash, candidateVars
    <2>6. CASE CandidateNext
      BY <2>1, <2>2, <2>3, <2>6 DEF CandidateNext, StartDecision
    <2>7. CASE UNCHANGED vars
      BY <2>1, <2>7 DEF vars, candidateVars
    <2> QED
      BY <2>1, <2>4, <2>5, <2>6, <2>7 DEF Next
  <1>3. Rows /\ [Next]_vars => [Stands]_vars
    BY <1>2
  <1> HIDE DEF Rows, Stands
  <1>4. Spec => [][Stands]_vars
    BY <1>1, <1>2, <1>3, PTL DEF Spec
  <1> QED
    BY <1>4 DEF DecisionStands, Stands

-----------------------------------------------------------------------------
(* Routing weights.                                                        *)

\* A skill without a recorded average keeps its weights once a version has
\* been written (should_update_weights, _last_avg_confidence), whatever is
\* observed and whichever skills are updated meanwhile.
THEOREM LateSkillsKeepWeights == Spec => [][\A s \in Skills : KeepsWeights(s)]_vars
  <1> DEFINE Averaged == seen \in [Skills -> [average : Int, scores : [Agents -> Int], enough : BOOLEAN]]
             Kept == \A s \in Skills : KeepsWeights(s)
  <1>1. Init => Averaged
    BY DEF Init, WeightInit
  <1>2. Averaged /\ [Next]_vars => Averaged' /\ Kept
    <2> SUFFICES ASSUME Averaged, [Next]_vars PROVE Averaged' /\ Kept
      OBVIOUS
    <2>1. CASE UNCHANGED weightVars
      BY <2>1 DEF weightVars, KeepsWeights
    <2>2. CASE UpdateWeights
      <3>1. ASSUME NEW s \in Skills, weights.version > 0, weights.metrics[s] = None PROVE ~ShouldUpdate(s)
        <4>1. LastAverage(s) = seen[s].average /\ seen[s].average \in Int
          BY <3>1 DEF LastAverage
        <4> QED
          BY <4>1 DEF ShouldUpdate, Improvement
      <3> QED
        BY <2>2, <3>1 DEF UpdateWeights, KeepsWeights
    <2>3. ASSUME NEW s \in Skills, NEW avg \in Averages, NEW sc \in Scores, Observe(s, avg, sc) PROVE Averaged' /\ Kept
      <3>1. avg \in Int /\ sc \in [Agents -> Int]
        BY WeightsAssumption
      <3> QED
        BY <2>3, <3>1 DEF Observe, KeepsWeights
    <2>4. CASE UNCHANGED vars
      BY <2>1, <2>4 DEF vars
    <2>5. LessonNext => UNCHANGED weightVars
      BY DEF LessonNext, StartProposal, EndProposal, Approve, Remember, RememberFails, Attach, Reply, ReplyFails,
             AddLesson, StartReview, Reject, RememberDirectly, Forget
    <2>6. CandidateNext \/ Crash => UNCHANGED weightVars
      BY DEF CandidateNext, Detect, StartDecision, FinishDecision, Crash
    <2> QED
      BY <2>1, <2>2, <2>3, <2>4, <2>5, <2>6 DEF Next, WeightNext
  <1>3. Averaged /\ [Next]_vars => [Kept]_vars
    BY <1>2
  <1> HIDE DEF Averaged, Kept
  <1>4. Spec => [][Kept]_vars
    BY <1>1, <1>2, <1>3, PTL DEF Spec
  <1> QED
    BY <1>4 DEF Kept

-----------------------------------------------------------------------------
(* Sums of confidences.                                                    *)

\* Induction over the numbers, for a set of them.
LEMMA Induct ==
    ASSUME NEW S, 0 \in S, \A n \in Nat : n \in S => n + 1 \in S
    PROVE  \A n \in Nat : n \in S
  <1> DEFINE D == Nat \ S
             R == {ss \in Nat \X Nat : ss[1] < ss[2]}
  <1>1. SUFFICES ASSUME D # {} PROVE FALSE
    OBVIOUS
  <1>2. IsWellFoundedOn(R, Nat)
    BY NatLessThanWellFounded DEF OpToRel
  <1>3. PICK d \in D : \A e \in D : ~(<<e, d>> \in R)
    <2> D \subseteq Nat
      OBVIOUS
    <2> HIDE DEF D, R
    <2> QED
      BY <1>1, <1>2, WFMin
  <1>4. d \in Nat /\ d # 0 /\ d - 1 \in Nat
    BY <1>3
  <1>5. d - 1 \notin D
    <2>1. <<d - 1, d>> \in R
      BY <1>4
    <2> HIDE DEF R
    <2> QED
      BY <1>3, <2>1
  <1> QED
    BY <1>3, <1>4, <1>5

\* A set of numbers has a least one.
LEMMA Least ==
    ASSUME NEW S \in SUBSET Nat, S # {}
    PROVE  \E n \in S : \A m \in S : n <= m
  <1> DEFINE R == {ss \in Nat \X Nat : ss[1] < ss[2]}
  <1>1. IsWellFoundedOn(R, Nat)
    BY NatLessThanWellFounded DEF OpToRel
  <1>2. PICK d \in S : \A e \in S : ~(<<e, d>> \in R)
    <2> HIDE DEF R
    <2> QED
      BY <1>1, WFMin
  <1>3. \A e \in S : ~(e < d)
    BY <1>2
  <1> QED
    BY <1>3

\* The sums of a sequence are what their definition says.
LEMMA SumsFacts ==
    ASSUME NEW f \in Seq(Nat)
    PROVE  /\ Sums(f) \in [0..Len(f) -> Nat] /\ Sums(f)[0] = 0
           /\ \A n \in 1..Len(f) : Sums(f)[n] = Sums(f)[n - 1] + f[n]
  <1> DEFINE Def(g) == [n \in 0..Len(f) |-> IF n = 0 THEN 0 ELSE g[n - 1] + f[n]]
             Upto(n, g) == g[0] = 0 /\ \A i \in 1..n : g[i] = g[i - 1] + f[i]
             Exists(n) == \E g \in [0..n -> Nat] : Upto(n, g)
             S == {n \in Nat : n <= Len(f) => Exists(n)}
  <1>0. Len(f) \in Nat /\ \A i \in 1..Len(f) : f[i] \in Nat
    OBVIOUS
  <1>1. 0 \in S
    <2>1. [i \in 0..0 |-> 0] \in [0..0 -> Nat] /\ Upto(0, [i \in 0..0 |-> 0])
      OBVIOUS
    <2> QED
      BY <2>1
  <1>2. ASSUME NEW n \in Nat, n \in S PROVE n + 1 \in S
    <2>0. SUFFICES ASSUME n + 1 <= Len(f) PROVE Exists(n + 1)
      <3> HIDE DEF Exists
      <3> QED
        BY <1>2
    <2>1. PICK g \in [0..n -> Nat] : Upto(n, g)
      <3>1. Exists(n)
        <4> HIDE DEF Exists
        <4> QED
          BY <1>0, <1>2, <2>0
      <3> QED
        BY <3>1
    <2> DEFINE h == [i \in 0..(n + 1) |-> IF i = n + 1 THEN g[n] + f[n + 1] ELSE g[i]]
    <2>2. f[n + 1] \in Nat /\ g[n] \in Nat
      BY <1>0, <2>0
    <2>3. h \in [0..(n + 1) -> Nat]
      BY <2>2
    <2>4. h[0] = 0
      BY <2>1
    <2>5. ASSUME NEW i \in 1..(n + 1) PROVE h[i] = h[i - 1] + f[i]
      <3>1. CASE i = n + 1
        BY <3>1
      <3>2. CASE i \in 1..n
        BY <2>1, <3>2
      <3> QED
        BY <3>1, <3>2
    <2> QED
      BY <2>3, <2>4, <2>5
  <1>3. Len(f) \in S
    <2> HIDE DEF S
    <2> QED
      BY <1>0, <1>1, <1>2, Induct
  <1>4. PICK g \in [0..Len(f) -> Nat] : Upto(Len(f), g)
    BY <1>0, <1>3
  <1>5. g = Def(g)
    <2>1. \A n \in 0..Len(f) : g[n] = Def(g)[n]
      BY <1>0, <1>4
    <2> QED
      BY <2>1
  <1>6. Sums(f) = CHOOSE to : to = Def(to)
    BY DEF Sums
  <1>7. Sums(f) = Def(Sums(f))
    <2> HIDE DEF Def
    <2> QED
      BY <1>5, <1>6
  <1> DEFINE s == Sums(f)
             T == {n \in Nat : n <= Len(f) => s[n] \in Nat}
  <1>8. DOMAIN s = 0..Len(f) /\ s[0] = 0 /\ \A n \in 1..Len(f) : s[n] = s[n - 1] + f[n]
    <2> HIDE DEF s
    <2>1. s = Def(s)
      BY <1>7 DEF s
    <2> QED
      BY <1>0, <2>1
  <1> HIDE DEF s
  <1>9. \A n \in Nat : n \in T
    <2>1. 0 \in T
      BY <1>8
    <2>2. ASSUME NEW n \in Nat, n \in T PROVE n + 1 \in T
      <3>1. SUFFICES ASSUME n + 1 <= Len(f) PROVE s[n + 1] \in Nat
        OBVIOUS
      <3>2. s[n] \in Nat /\ n + 1 \in 1..Len(f) /\ (n + 1) - 1 = n
        BY <1>0, <2>2, <3>1
      <3>3. f[n + 1] \in Nat /\ s[n + 1] = s[n] + f[n + 1]
        BY <1>0, <1>8, <3>2
      <3> QED
        BY <3>2, <3>3
    <2> HIDE DEF T
    <2> QED
      BY <2>1, <2>2, Induct
  <1>10. s \in [0..Len(f) -> Nat]
    <2>1. s = [n \in 0..Len(f) |-> s[n]]
      <3>1. s = Def(s)
        BY <1>7 DEF s
      <3> QED
        BY <1>8, <3>1
    <2>2. \A n \in 0..Len(f) : s[n] \in Nat
      BY <1>0, <1>9
    <2> QED
      BY <2>1, <2>2
  <1> QED
    BY <1>8, <1>10 DEF s

\* What a set of positions adds to the elements counted so far.
LEMMA CountTo ==
    ASSUME NEW n \in Nat, NEW S
    PROVE  /\ Cardinality(S \cap (1..n)) \in Nat
           /\ Cardinality(S \cap (1..(n + 1))) = Cardinality(S \cap (1..n)) + (IF n + 1 \in S THEN 1 ELSE 0)
  <1>1. IsFiniteSet(S \cap (1..n))
    <2>1. IsFiniteSet(1..n)
      BY FS_Interval
    <2> QED
      BY <2>1, FS_Subset
  <1>2. Cardinality(S \cap (1..n)) \in Nat
    BY <1>1, FS_CardinalityType
  <1>3. CASE n + 1 \in S
    <2>1. S \cap (1..(n + 1)) = (S \cap (1..n)) \cup {n + 1} /\ n + 1 \notin S \cap (1..n)
      BY <1>3
    <2> QED
      BY <1>1, <1>2, <1>3, <2>1, FS_AddElement
  <1>4. CASE n + 1 \notin S
    <2>1. S \cap (1..(n + 1)) = S \cap (1..n)
      BY <1>4
    <2> QED
      BY <1>2, <1>4, <2>1
  <1> QED
    BY <1>2, <1>3, <1>4

\* Numbers bounded by e on S, and 0 elsewhere, have a sum bounded by e times
\* the size of S, from below and from above.
LEMMA SumBounds ==
    ASSUME NEW f \in Seq(Nat), NEW S \in SUBSET (1..Len(f)), NEW e \in Nat,
           \A i \in (1..Len(f)) \ S : f[i] = 0
    PROVE  /\ Sums(f)[Len(f)] \in Nat /\ Cardinality(S) \in Nat
           /\ (\A i \in S : e <= f[i]) => e * Cardinality(S) <= Sums(f)[Len(f)]
           /\ (\A i \in S : f[i] <= e) => Sums(f)[Len(f)] <= e * Cardinality(S)
  <1> DEFINE s == Sums(f)
             c(n) == Cardinality(S \cap (1..n))
             Low  == \A i \in S : e <= f[i]
             High == \A i \in S : f[i] <= e
             Within(n) == (Low => e * c(n) <= s[n]) /\ (High => s[n] <= e * c(n))
             T == {n \in Nat : n <= Len(f) => Within(n)}
  <1>0. Len(f) \in Nat /\ \A i \in 1..Len(f) : f[i] \in Nat
    OBVIOUS
  <1>1. /\ s[0] = 0 /\ \A n \in 0..Len(f) : s[n] \in Nat
        /\ \A n \in 1..Len(f) : s[n] = s[n - 1] + f[n]
    BY SumsFacts
  <1>2. \A n \in Nat : c(n) \in Nat /\ c(n + 1) = c(n) + (IF n + 1 \in S THEN 1 ELSE 0)
    BY CountTo
  <1>3. c(0) = 0
    <2>1. S \cap (1..0) = {}
      OBVIOUS
    <2> QED
      BY <2>1, FS_EmptySet
  <1> HIDE DEF s, c
  <1>4. 0 \in T
    BY <1>1, <1>3
  <1>5. ASSUME NEW n \in Nat, n \in T PROVE n + 1 \in T
    <2>0. SUFFICES ASSUME n + 1 <= Len(f) PROVE Within(n + 1)
      <3> HIDE DEF Within
      <3> QED
        OBVIOUS
    <2>1. Within(n) /\ c(n) \in Nat /\ s[n] \in Nat
      <3>1. n \in 0..Len(f)
        BY <1>0, <2>0
      <3> HIDE DEF Within
      <3> QED
        BY <1>0, <1>1, <1>2, <1>5, <3>1
    <2>2. n + 1 \in 1..Len(f) /\ f[n + 1] \in Nat
      BY <1>0, <2>0
    <2>3. s[n + 1] = s[n] + f[n + 1]
      BY <1>1, <2>2
    <2>4. CASE n + 1 \in S
      <3>1. c(n + 1) = c(n) + 1 /\ (Low => e <= f[n + 1]) /\ (High => f[n + 1] <= e)
        BY <1>2, <2>2, <2>4
      <3>2. e * (c(n) + 1) = e * c(n) + e
        BY <2>1
      <3>3. PICK a \in Nat : a = e * c(n)
        BY <2>1
      <3>4. PICK x \in Nat, y \in Nat : x = f[n + 1] /\ y = s[n]
        BY <2>1, <2>2
      <3>5. (Low => a <= y /\ e <= x) /\ (High => y <= a /\ x <= e)
        BY <2>1, <3>1, <3>3, <3>4
      <3>6. (Low => a + e <= y + x) /\ (High => y + x <= a + e)
        BY <3>5
      <3>7. e * c(n + 1) = a + e /\ s[n + 1] = y + x
        BY <2>3, <3>1, <3>2, <3>3, <3>4
      <3> QED
        BY <3>6, <3>7
    <2>5. CASE n + 1 \notin S
      <3>1. c(n + 1) = c(n) /\ f[n + 1] = 0
        BY <1>2, <2>1, <2>2, <2>5
      <3> QED
        BY <2>1, <2>3, <3>1
    <2> QED
      BY <2>4, <2>5
  <1>6. Len(f) \in T
    <2> HIDE DEF T
    <2> QED
      BY <1>0, <1>4, <1>5, Induct
  <1>7. S \cap (1..Len(f)) = S
    OBVIOUS
  <1>8. Within(Len(f)) /\ c(Len(f)) \in Nat /\ s[Len(f)] \in Nat
    <2> HIDE DEF Within
    <2> QED
      BY <1>0, <1>1, <1>2, <1>6
  <1>9. c(Len(f)) = Cardinality(S) /\ s[Len(f)] = Sums(f)[Len(f)]
    BY <1>7 DEF s, c
  <1> QED
    BY <1>8, <1>9

\* Sums of sequences that add up, add up.
LEMMA SumsAdd ==
    ASSUME NEW f \in Seq(Nat), NEW g \in Seq(Nat), NEW h \in Seq(Nat), Len(f) = Len(h), Len(g) = Len(h),
           \A i \in 1..Len(h) : h[i] = f[i] + g[i]
    PROVE  Sums(h)[Len(h)] = Sums(f)[Len(h)] + Sums(g)[Len(h)]
  <1> DEFINE T == {n \in Nat : n <= Len(h) => Sums(h)[n] = Sums(f)[n] + Sums(g)[n]}
  <1>0. Len(h) \in Nat /\ \A i \in 1..Len(h) : f[i] \in Nat /\ g[i] \in Nat
    OBVIOUS
  <1>1. /\ Sums(f)[0] = 0 /\ Sums(g)[0] = 0 /\ Sums(h)[0] = 0
        /\ \A n \in 0..Len(h) : Sums(f)[n] \in Nat /\ Sums(g)[n] \in Nat
        /\ \A n \in 1..Len(h) : /\ Sums(f)[n] = Sums(f)[n - 1] + f[n]
                                /\ Sums(g)[n] = Sums(g)[n - 1] + g[n]
                                /\ Sums(h)[n] = Sums(h)[n - 1] + h[n]
    BY SumsFacts
  <1>2. 0 \in T
    BY <1>1
  <1>3. ASSUME NEW n \in Nat, n \in T PROVE n + 1 \in T
    <2>0. SUFFICES ASSUME n + 1 <= Len(h) PROVE Sums(h)[n + 1] = Sums(f)[n + 1] + Sums(g)[n + 1]
      OBVIOUS
    <2>1. Sums(h)[n] = Sums(f)[n] + Sums(g)[n] /\ Sums(f)[n] \in Nat /\ Sums(g)[n] \in Nat
      BY <1>0, <1>1, <1>3, <2>0
    <2>2. n + 1 \in 1..Len(h) /\ (n + 1) - 1 = n
      BY <1>0, <2>0
    <2>3. h[n + 1] = f[n + 1] + g[n + 1] /\ f[n + 1] \in Nat /\ g[n + 1] \in Nat
      BY <1>0, <2>2
    <2>4. /\ Sums(f)[n + 1] = Sums(f)[n] + f[n + 1] /\ Sums(g)[n + 1] = Sums(g)[n] + g[n + 1]
          /\ Sums(h)[n + 1] = Sums(h)[n] + h[n + 1]
      BY <1>1, <2>2
    <2>5. PICK a \in Nat, b \in Nat, x \in Nat, y \in Nat :
             a = Sums(f)[n] /\ b = Sums(g)[n] /\ x = f[n + 1] /\ y = g[n + 1]
      BY <2>1, <2>3
    <2>6. (a + b) + (x + y) = (a + x) + (b + y)
      OBVIOUS
    <2> QED
      BY <2>1, <2>3, <2>4, <2>5, <2>6
  <1> HIDE DEF T
  <1>4. Len(h) \in T
    BY <1>0, <1>2, <1>3, Induct
  <1> QED
    BY <1>0, <1>4 DEF T

-----------------------------------------------------------------------------
(* The heuristic cycle.                                                    *)

\* Events are stored as they arrive, so earlier ones are older.
LogOK ==
    /\ log \in Seq([ev : Feedback, age : 0..3])
    /\ \A i, j \in 1..Len(log) : i < j => log[j].age <= log[i].age

\* Signals are about the last day and keep one corrected event per input.
SignalOK(s) ==
    /\ Counted(s) \subseteq {i \in 1..Len(log) : log[i].age = 0}
    /\ \A i, j \in s.corrected : log[i].ev.hash = log[j].ev.hash => i = j

\* A cycle looks at agents of the last day, knows events of the last week of
\* the agent at hand, and holds an alert that is earned.
CycleOK ==
    /\ cycle = [at |-> cycle.at, todo |-> cycle.todo, signals |-> cycle.signals, agents |-> cycle.agents,
                agent |-> cycle.agent, week |-> cycle.week, raced |-> cycle.raced]
    /\ cycle.at = "idle" => cycle = NoCycle
    /\ \A a \in cycle.agents : \E i \in 1..Len(log) : log[i].age = 0 /\ log[i].ev.agent = a
    /\ cycle.at = "month" => cycle.week \subseteq EventsOf(cycle.agent, 1) /\ cycle.week # {}
    /\ cycle.at = "alert" => Drifted(cycle.agent, cycle.raced)
    /\ \A s \in cycle.signals : SignalOK(s)

HeuristicIInv == LogOK /\ CycleOK /\ DriftIsWitnessed

\* The confidences at the positions of a set, as a sequence of numbers.
Chosen(S) == [i \in 1..Len(log) |-> IF i \in S THEN log[i].ev.confidence ELSE 0]

LEMMA ChosenFacts ==
    ASSUME LogOK, NEW S
    PROVE  /\ Chosen(S) \in Seq(Nat) /\ Len(Chosen(S)) = Len(log) /\ Len(log) \in Nat
           /\ \A i \in 1..Len(log) : /\ log[i].ev.confidence \in Nat
                                     /\ Chosen(S)[i] = IF i \in S THEN log[i].ev.confidence ELSE 0
           /\ DOMAIN log = 1..Len(log) /\ Sum(S) = Sums(Chosen(S))[Len(log)]
  <1>1. log \in Seq([ev : Feedback, age : 0..3])
    BY DEF LogOK
  <1>2. Len(log) \in Nat /\ DOMAIN log = 1..Len(log) /\ \A i \in 1..Len(log) : log[i] \in [ev : Feedback, age : 0..3]
    BY <1>1, LenProperties, ElementOfSeq
  <1>3. \A i \in 1..Len(log) : log[i].ev.confidence \in Nat
    BY <1>2, HeuristicsAssumption
  <1>4. Chosen(S) \in [1..Len(log) -> Nat]
    BY <1>3 DEF Chosen
  <1>5. Chosen(S) \in Seq(Nat) /\ Len(Chosen(S)) = Len(log)
    BY <1>2, <1>4
  <1>6. \A i \in 1..Len(log) : Chosen(S)[i] = IF i \in S THEN log[i].ev.confidence ELSE 0
    BY DEF Chosen
  <1>7. Sum(S) = Sums(Chosen(S))[Len(log)]
    BY DEF Sum, Chosen
  <1> QED
    BY <1>2, <1>3, <1>5, <1>6, <1>7

\* The average of a part is not below that of the whole by d, if no number
\* outside the part exceeds one of the part by d.
LEMMA PartAverage ==
    ASSUME NEW A \in Nat, NEW B \in Nat, NEW w \in Nat, NEW o \in Nat, NEW m \in Nat, NEW d \in Nat,
           w >= 1, d >= 1, m * w <= A, B <= (m + d - 1) * o
    PROVE  ~((A + B) * w - A * (w + o) >= d * (w + o) * w)
  <1>1. PICK t \in Nat : t = o * w
    OBVIOUS
  <1>2. (m * w) * o <= A * o
    OBVIOUS
  <1>3. B * w <= ((m + d - 1) * o) * w
    OBVIOUS
  <1>4. (m * w) * o = m * t /\ ((m + d - 1) * o) * w = (m + d - 1) * t
    BY <1>1
  <1>5. (m + d - 1) * t = m * t + d * t - t
    OBVIOUS
  <1>6. (A + B) * w - A * (w + o) = B * w - A * o
    OBVIOUS
  <1>7. d * (w + o) * w = d * w * w + d * t
    BY <1>1
  <1>8. d * w * w >= 1
    OBVIOUS
  <1>9. PICK a \in Int, b \in Int, p \in Int, q \in Int, r \in Int :
           a = A * o /\ b = B * w /\ p = m * t /\ q = d * t /\ r = d * w * w
    OBVIOUS
  <1>10. p <= a /\ b <= p + q - t /\ r >= 1
    BY <1>2, <1>3, <1>4, <1>5, <1>8, <1>9
  <1>11. ~(b - a >= r + q)
    BY <1>10
  <1> QED
    BY <1>6, <1>7, <1>9, <1>11

\* An agent is found drifting, by some of its events of the last week and all
\* of the last month, only if one of them exceeds a later one by the threshold;
\* or one that is not among those of the week exceeds any of those.
LEMMA DriftEarned ==
    ASSUME LogOK, NEW a, NEW V \in SUBSET EventsOf(a, 1), NEW k \in V, IsDrifting(V, EventsOf(a, 2))
    PROVE  Drifted(a, V # EventsOf(a, 1))
  <1> DEFINE W == V
             M == EventsOf(a, 2)
             O == M \ W
             C == {log[i].ev.confidence : i \in W}
  <1>0. /\ Len(log) \in Nat /\ DOMAIN log = 1..Len(log)
        /\ \A i \in 1..Len(log) : log[i].ev.confidence \in Nat /\ log[i].age \in 0..3
    <2>1. \A i \in 1..Len(log) : log[i] \in [ev : Feedback, age : 0..3]
      BY ElementOfSeq DEF LogOK
    <2> QED
      BY <2>1, ChosenFacts
  <1>1. W \subseteq M /\ M \subseteq 1..Len(log) /\ k \in W
    BY <1>0 DEF EventsOf, Recent
  <1>2. AtLeastAbove(M, W, Drop)
    BY <1>1 DEF IsDrifting
  <1>3. PICK m \in C : \A c \in C : m <= c
    <2>1. C \subseteq Nat /\ C # {}
      BY <1>0, <1>1
    <2> HIDE DEF C
    <2> QED
      BY <2>1, Least
  <1>4. PICK j \in W : m = log[j].ev.confidence
    BY <1>3
  <1>5. m \in Nat /\ \A i \in W : m <= log[i].ev.confidence
    BY <1>0, <1>1, <1>3, <1>4
  <1>6. SUFFICES ASSUME ~Drifted(a, V # EventsOf(a, 1)) PROVE FALSE
    OBVIOUS
  <1>7. Drop \in Nat /\ Drop >= 1
    BY HeuristicsAssumption
  <1>8. ASSUME NEW i \in O PROVE log[i].ev.confidence <= m + Drop - 1
    <2>1. /\ i \in 1..Len(log) /\ j \in 1..Len(log) /\ log[j].age <= 1
          /\ log[i].ev.agent = a /\ log[j].ev.agent = a
      BY <1>0, <1>1 DEF EventsOf, Recent
    <2>2. log[i].age \in 0..3 /\ log[j].age \in 0..3 /\ log[i].ev.confidence \in Nat
      BY <1>0, <2>1
    <2>3. i < j \/ V # EventsOf(a, 1)
      <3>0. SUFFICES ASSUME V = EventsOf(a, 1) PROVE i < j
        OBVIOUS
      <3>1. i # j /\ ~(log[i].age <= log[j].age)
        <4>1. i \notin EventsOf(a, 1) /\ i \in Recent(2) /\ j \in EventsOf(a, 1)
          BY <3>0 DEF EventsOf
        <4>2. ~(log[i].age <= 1)
          BY <1>0, <2>1, <4>1 DEF EventsOf, Recent
        <4> QED
          BY <2>1, <2>2, <4>1, <4>2
      <3>2. ~(j < i)
        BY <2>1, <3>1 DEF LogOK
      <3> QED
        BY <2>1, <3>1, <3>2
    <2>4. ~(log[i].ev.confidence - log[j].ev.confidence >= Drop)
      BY <1>0, <1>6, <2>1, <2>3 DEF Drifted
    <2>5. PICK c \in Nat : c = log[i].ev.confidence
      BY <2>2
    <2>6. ~(c - m >= Drop)
      BY <1>4, <2>4, <2>5
    <2>7. c <= m + Drop - 1
      BY <1>5, <1>7, <2>6
    <2> QED
      BY <2>5, <2>7
  <1> HIDE DEF W, M, O, C
  <1>9. W \subseteq 1..Len(log) /\ O \subseteq 1..Len(log) /\ M = W \cup O /\ W \cap O = {} /\ k \in W
    BY <1>1 DEF O
  <1>10. Sum(M) = Sum(W) + Sum(O)
    <2>1. \A i \in 1..Len(log) : Chosen(M)[i] = Chosen(W)[i] + Chosen(O)[i]
      <3> SUFFICES ASSUME NEW i \in 1..Len(log) PROVE Chosen(M)[i] = Chosen(W)[i] + Chosen(O)[i]
        OBVIOUS
      <3>1. log[i].ev.confidence \in Nat
        BY <1>0
      <3> QED
        BY <1>9, <3>1 DEF Chosen
    <2>2. \A S : Chosen(S) \in Seq(Nat) /\ Len(Chosen(S)) = Len(log) /\ Sum(S) = Sums(Chosen(S))[Len(log)]
      BY ChosenFacts
    <2>3. PICK f \in Seq(Nat), g \in Seq(Nat), h \in Seq(Nat) : f = Chosen(W) /\ g = Chosen(O) /\ h = Chosen(M)
      BY <2>2
    <2>4. /\ Len(f) = Len(h) /\ Len(g) = Len(h) /\ Len(h) = Len(log)
          /\ \A i \in 1..Len(h) : h[i] = f[i] + g[i]
      BY <2>1, <2>2, <2>3
    <2>5. Sums(h)[Len(h)] = Sums(f)[Len(h)] + Sums(g)[Len(h)]
      BY <2>4, SumsAdd
    <2> QED
      BY <2>2, <2>3, <2>4, <2>5
  <1>11. /\ Sum(W) \in Nat /\ Cardinality(W) \in Nat /\ m * Cardinality(W) <= Sum(W)
    <2>1. PICK f \in Seq(Nat) : f = Chosen(W) /\ Len(f) = Len(log) /\ Sum(W) = Sums(f)[Len(f)]
      BY ChosenFacts
    <2>2. \A i \in 1..Len(f) : IF i \in W THEN m <= f[i] ELSE f[i] = 0
      BY <1>5, <2>1 DEF Chosen
    <2> QED
      BY <1>5, <1>9, <2>1, <2>2, SumBounds
  <1>12. /\ Sum(O) \in Nat /\ Cardinality(O) \in Nat /\ Sum(O) <= (m + Drop - 1) * Cardinality(O)
    <2>1. PICK f \in Seq(Nat) : f = Chosen(O) /\ Len(f) = Len(log) /\ Sum(O) = Sums(f)[Len(f)]
      BY ChosenFacts
    <2>2. \A i \in 1..Len(f) : IF i \in O THEN f[i] <= m + Drop - 1 ELSE f[i] = 0
      BY <1>0, <1>8, <1>9, <2>1 DEF Chosen
    <2>3. m + Drop - 1 \in Nat
      BY <1>5, <1>7
    <2> QED
      BY <1>9, <2>1, <2>2, <2>3, SumBounds
  <1>13. Cardinality(M) = Cardinality(W) + Cardinality(O) /\ Cardinality(W) >= 1
    <2>1. IsFiniteSet(1..Len(log))
      BY <1>0, FS_Interval
    <2>2. IsFiniteSet(W) /\ IsFiniteSet(O)
      BY <1>9, <2>1, FS_Subset
    <2>3. Cardinality(M) = Cardinality(W) + Cardinality(O) - Cardinality(W \cap O)
      BY <1>9, <2>2, FS_Union
    <2>4. Cardinality(W \cap O) = 0 /\ Cardinality(W) # 0
      BY <1>9, <2>2, FS_EmptySet
    <2> QED
      BY <1>11, <1>12, <2>3, <2>4
  <1>14. (Sum(W) + Sum(O)) * Cardinality(W) - Sum(W) * (Cardinality(W) + Cardinality(O))
             >= Drop * (Cardinality(W) + Cardinality(O)) * Cardinality(W)
    BY <1>2, <1>10, <1>13 DEF AtLeastAbove
  <1> QED
    BY <1>5, <1>7, <1>11, <1>12, <1>13, <1>14, PartAverage

\* What the cycle holds outlives events that are stored, and what it has
\* published outlives every change of ages.
LEMMA LogGrows ==
    ASSUME LogOK, NEW ev \in Feedback, log' = Append(log, [ev |-> ev, age |-> 0])
    PROVE  /\ LogOK' /\ Len(log') = Len(log) + 1 /\ Len(log) \in Nat
           /\ \A i \in 1..Len(log) : i \in 1..Len(log') /\ log'[i] = log[i]
  <1>1. log \in Seq([ev : Feedback, age : 0..3]) /\ Len(log) \in Nat /\ [ev |-> ev, age |-> 0] \in [ev : Feedback, age : 0..3]
    BY DEF LogOK
  <1>2. /\ log' \in Seq([ev : Feedback, age : 0..3]) /\ Len(log') = Len(log) + 1
        /\ \A i \in 1..Len(log) : log'[i] = log[i]
        /\ log'[Len(log) + 1] = [ev |-> ev, age |-> 0]
    BY <1>1, AppendProperties
  <1>3. ASSUME NEW i \in 1..Len(log'), NEW j \in 1..Len(log'), i < j PROVE log'[j].age <= log'[i].age
    <2>1. CASE j \in 1..Len(log)
      <3>1. i \in 1..Len(log)
        BY <1>1, <1>2, <1>3, <2>1
      <3> QED
        BY <1>2, <1>3, <2>1, <3>1 DEF LogOK
    <2>2. CASE j = Len(log) + 1
      <3>1. i \in 1..Len(log) /\ log'[j].age = 0
        BY <1>1, <1>2, <1>3, <2>2
      <3>2. log[i] \in [ev : Feedback, age : 0..3]
        BY <1>1, <3>1, ElementOfSeq
      <3> QED
        BY <1>2, <3>1, <3>2
    <2> QED
      BY <1>1, <1>2, <2>1, <2>2
  <1>4. \A i \in 1..Len(log) : i \in 1..Len(log')
    BY <1>1, <1>2
  <1> QED
    BY <1>1, <1>2, <1>3, <1>4 DEF LogOK

\* What was witnessed stays so while positions keep their events.
LEMMA DriftStays ==
    ASSUME LogOK, LogOK', \A i \in 1..Len(log) : i \in 1..Len(log') /\ log'[i].ev = log[i].ev
    PROVE  \A a, r : Drifted(a, r) => Drifted(a, r)'
  <1>1. DOMAIN log = 1..Len(log) /\ DOMAIN log' = 1..Len(log')
    BY DEF LogOK
  <1> SUFFICES ASSUME NEW a, NEW r, Drifted(a, r) PROVE Drifted(a, r)'
    OBVIOUS
  <1>2. PICK i \in 1..Len(log), j \in 1..Len(log) :
           /\ i < j \/ r
           /\ log[i].ev.agent = a /\ log[j].ev.agent = a
           /\ log[i].ev.confidence - log[j].ev.confidence >= Drop
    BY <1>1 DEF Drifted
  <1>3. /\ i \in DOMAIN log' /\ j \in DOMAIN log'
        /\ i < j \/ r
        /\ log'[i].ev.agent = a /\ log'[j].ev.agent = a
        /\ log'[i].ev.confidence - log'[j].ev.confidence >= Drop
    BY <1>1, <1>2
  <1> QED
    BY <1>3 DEF Drifted

\* The signals that a cycle starts with keep one event per input.
LEMMA SignalFresh ==
    ASSUME LogOK, NEW d
    PROVE  SignalOK(Signal(d))
  <1> DEFINE S == {i \in Recent(0) : log[i].ev.domain = d}
             s == Signal(d)
  <1>1. DOMAIN log = 1..Len(log) /\ Len(log) \in Nat
    BY DEF LogOK
  <1>2. s.corrected = {i \in Best(S) : log[i].ev.correction # None} /\ s.high \subseteq Best(S)
    BY DEF Signal
  <1>3. Best(S) \subseteq S /\ S \subseteq Recent(0) /\ Recent(0) \subseteq 1..Len(log)
    BY <1>1 DEF Best, Recent
  <1>4. ASSUME NEW i \in Best(S), NEW j \in Best(S), log[i].ev.hash = log[j].ev.hash PROVE i = j
    <2>1. i \in S /\ j \in S /\ i \in 1..Len(log) /\ j \in 1..Len(log)
      BY <1>3
    <2>2. log[i].ev.confidence \in Nat /\ log[j].ev.confidence \in Nat
      BY <2>1, ChosenFacts
    <2>3. /\ log[j].ev.confidence < log[i].ev.confidence \/ (log[j].ev.confidence = log[i].ev.confidence /\ i <= j)
          /\ log[i].ev.confidence < log[j].ev.confidence \/ (log[i].ev.confidence = log[j].ev.confidence /\ j <= i)
      BY <1>4, <2>1 DEF Best
    <2>4. i <= j /\ j <= i
      BY <2>2, <2>3
    <2> QED
      BY <2>1, <2>4
  <1>5. \A i \in Recent(0) : log[i].age = 0
    <2>1. \A i \in Recent(0) : log[i] \in [ev : Feedback, age : 0..3] /\ log[i].age <= 0
      BY <1>3, ElementOfSeq DEF LogOK, Recent
    <2> QED
      BY <2>1
  <1> HIDE DEF S, s
  <1>6. Counted(s) \subseteq Best(S)
    BY <1>2 DEF Counted
  <1>7. Counted(s) \subseteq {i \in 1..Len(log) : log[i].age = 0}
    BY <1>3, <1>5, <1>6
  <1>8. SignalOK(s)
    BY <1>2, <1>4, <1>7 DEF SignalOK
  <1> QED
    BY <1>8 DEF s

LEMMA InitHeuristics == HeuristicInit => HeuristicIInv
  BY DEF HeuristicInit, HeuristicIInv, LogOK, CycleOK, DriftIsWitnessed, NoCycle

\* Every step of the cycle, and every event, keeps it.
LEMMA NextHeuristics == HeuristicIInv /\ HeuristicNext => HeuristicIInv'
  <1> SUFFICES ASSUME HeuristicIInv, HeuristicNext PROVE HeuristicIInv'
    OBVIOUS
  <1>0. LogOK /\ CycleOK /\ DriftIsWitnessed /\ DOMAIN log = 1..Len(log) /\ Len(log) \in Nat
    BY DEF HeuristicIInv, LogOK
  <1>1. ASSUME UNCHANGED log
        PROVE  /\ LogOK' /\ (\A a, r : Drifted(a, r)' = Drifted(a, r)) /\ (\A s : SignalOK(s)' = SignalOK(s))
               /\ \A a : EventsOf(a, 1)' = EventsOf(a, 1)
    BY <1>0, <1>1 DEF LogOK, Drifted, SignalOK, EventsOf, Recent
  <1>2. ASSUME UNCHANGED log, CycleOK', \A p \in published' : p.kind = "drift" => p \in published PROVE HeuristicIInv'
    BY <1>0, <1>1, <1>2 DEF HeuristicIInv, DriftIsWitnessed
  <1>3. CASE StartHeuristics \/ EndHeuristics
    <2>1. UNCHANGED <<log, published>>
      BY <1>3 DEF StartHeuristics, EndHeuristics
    <2>2. \/ cycle' = NoCycle
          \/ \E D : cycle' = [NoCycle EXCEPT !.at = "extract", !.todo = D]
      BY <1>3 DEF StartHeuristics, EndHeuristics
    <2>3. /\ cycle'.at \in {"idle", "extract"}
          /\ cycle'.at = "idle" => cycle' = NoCycle
          /\ cycle'.agents = {} /\ cycle'.signals = {}
          /\ cycle' = [at |-> cycle'.at, todo |-> cycle'.todo, signals |-> cycle'.signals, agents |-> cycle'.agents,
                      agent |-> cycle'.agent, week |-> cycle'.week, raced |-> cycle'.raced]
      <3>1. CASE cycle' = NoCycle
        BY <3>1 DEF NoCycle
      <3>2. CASE \E D : cycle' = [NoCycle EXCEPT !.at = "extract", !.todo = D]
        <4>1. PICK D : cycle' = [at |-> "extract", todo |-> D, signals |-> {}, agents |-> {}, agent |-> None,
                                 week |-> {}, raced |-> FALSE]
          BY <3>2 DEF NoCycle
        <4> QED
          BY <4>1
      <3> QED
        BY <2>2, <3>1, <3>2
    <2>4. CycleOK'
      BY <2>3 DEF CycleOK, NoCycle
    <2> QED
      BY <1>2, <2>1, <2>4
  <1>4. ASSUME NEW d \in cycle.todo, ExtractSignal(d) PROVE HeuristicIInv'
    <2>1. /\ UNCHANGED <<log, published>> /\ cycle.at = "extract"
          /\ cycle' = [cycle EXCEPT !.todo = @ \ {d}, !.signals = @ \cup {Signal(d)}]
      BY <1>4 DEF ExtractSignal
    <2>2. /\ cycle'.at = "extract" /\ cycle'.signals = cycle.signals \cup {Signal(d)} /\ cycle'.agents = cycle.agents
          /\ cycle' = [at |-> cycle'.at, todo |-> cycle'.todo, signals |-> cycle'.signals, agents |-> cycle'.agents,
                      agent |-> cycle'.agent, week |-> cycle'.week, raced |-> cycle'.raced]
      BY <1>0, <2>1 DEF CycleOK
    <2>3. \A s \in cycle'.signals : SignalOK(s)
      BY <1>0, <2>2, SignalFresh DEF CycleOK
    <2>4. CycleOK'
      BY <1>0, <1>1, <2>1, <2>2, <2>3 DEF CycleOK
    <2> QED
      BY <1>2, <2>1, <2>4
  <1>5. CASE CollectAgents
    <2>1. /\ UNCHANGED <<log, published>>
          /\ cycle' = [cycle EXCEPT !.at = "routing", !.todo = cycle.signals, !.agents = CollectAgentIds(cycle.signals)]
      BY <1>5 DEF CollectAgents
    <2>2. \A a \in CollectAgentIds(cycle.signals) : \E i \in 1..Len(log) : log[i].age = 0 /\ log[i].ev.agent = a
      BY <1>0 DEF CollectAgentIds, CycleOK, SignalOK
    <2>3. CycleOK'
      BY <1>0, <1>1, <2>1, <2>2 DEF CycleOK
    <2> QED
      BY <1>2, <2>1, <2>3
  <1>6. ASSUME NEW s \in cycle.todo, CheckRouting(s) \/ CheckFineTune(s) PROVE HeuristicIInv'
    <2>1. UNCHANGED log /\ cycle.at \in {"routing", "fine_tune"} /\ cycle' = [cycle EXCEPT !.todo = @ \ {s}]
      BY <1>6 DEF CheckRouting, CheckFineTune
    <2>2. CycleOK'
      BY <1>0, <1>1, <2>1 DEF CycleOK
    <2>3. \A p \in published' : p.kind = "drift" => p \in published
      BY <1>6 DEF CheckRouting, CheckFineTune
    <2> QED
      BY <1>2, <2>1, <2>2, <2>3
  <1>7. ASSUME NEW a \in cycle.agents, ReadWeek(a) PROVE HeuristicIInv'
    <2>1. /\ UNCHANGED <<log, published>>
          /\ cycle' = [cycle EXCEPT !.at = "month", !.agents = @ \ {a}, !.agent = a, !.week = EventsOf(a, 1)]
      BY <1>7 DEF ReadWeek
    <2>2. PICK k \in 1..Len(log) : log[k].age = 0 /\ log[k].ev.agent = a
      BY <1>0 DEF CycleOK
    <2>3. k \in EventsOf(a, 1)
      BY <1>0, <2>2 DEF EventsOf, Recent
    <2>4. /\ cycle'.at = "month" /\ cycle'.signals = cycle.signals /\ cycle'.agents = cycle.agents \ {a}
          /\ cycle'.agent = a /\ cycle'.week = EventsOf(a, 1)
          /\ cycle' = [at |-> cycle'.at, todo |-> cycle'.todo, signals |-> cycle'.signals, agents |-> cycle'.agents,
                      agent |-> cycle'.agent, week |-> cycle'.week, raced |-> cycle'.raced]
      BY <1>0, <2>1 DEF CycleOK
    <2>5. CycleOK'
      BY <1>0, <1>1, <2>1, <2>3, <2>4 DEF CycleOK
    <2> QED
      BY <1>2, <2>1, <2>5
  <1>8. CASE ReadMonth
    <2> DEFINE a == cycle.agent
               drifts == IsDrifting(cycle.week, EventsOf(a, 2))
    <2>1. /\ UNCHANGED <<log, published>> /\ cycle.at = "month"
          /\ cycle' = [cycle EXCEPT !.at = IF drifts THEN "alert" ELSE "routing", !.raced = (cycle.week # EventsOf(a, 1))]
      BY <1>8 DEF ReadMonth
    <2>2. cycle.week \subseteq EventsOf(a, 1) /\ cycle.week # {}
      BY <1>0, <2>1 DEF CycleOK
    <2>3. drifts => Drifted(a, cycle.week # EventsOf(a, 1))
      BY <1>0, <2>2, DriftEarned
    <2> HIDE DEF drifts
    <2>4. /\ cycle'.at = (IF drifts THEN "alert" ELSE "routing") /\ cycle'.signals = cycle.signals
          /\ cycle'.agents = cycle.agents /\ cycle'.agent = a /\ cycle'.raced = (cycle.week # EventsOf(a, 1))
          /\ cycle' = [at |-> cycle'.at, todo |-> cycle'.todo, signals |-> cycle'.signals, agents |-> cycle'.agents,
                      agent |-> cycle'.agent, week |-> cycle'.week, raced |-> cycle'.raced]
      BY <1>0, <2>1 DEF CycleOK
    <2>5. cycle'.at = "alert" => Drifted(cycle'.agent, cycle'.raced)
      BY <2>3, <2>4
    <2>6. CycleOK'
      BY <1>0, <1>1, <2>1, <2>4, <2>5 DEF CycleOK
    <2> QED
      BY <1>2, <2>1, <2>6
  <1>9. CASE EmitDriftAlert
    <2>1. /\ UNCHANGED log /\ cycle.at = "alert" /\ cycle' = [cycle EXCEPT !.at = "routing"]
          /\ published' = published \cup {[kind |-> "drift", agent |-> cycle.agent, raced |-> cycle.raced]}
      BY <1>9 DEF EmitDriftAlert
    <2>2. CycleOK'
      BY <1>0, <1>1, <2>1 DEF CycleOK
    <2>3. Drifted(cycle.agent, cycle.raced)
      BY <1>0, <2>1 DEF CycleOK
    <2> QED
      BY <1>0, <1>1, <2>1, <2>2, <2>3 DEF HeuristicIInv, DriftIsWitnessed
  <1>10. CASE AgentsDone
    <2>1. UNCHANGED <<log, published>> /\ cycle' = [cycle EXCEPT !.at = "fine_tune", !.todo = cycle.signals]
      BY <1>10 DEF AgentsDone
    <2>2. CycleOK'
      BY <1>0, <1>1, <2>1 DEF CycleOK
    <2> QED
      BY <1>2, <2>1, <2>2
  <1>11. CASE GrowOld
    <2>1. /\ cycle.at = "idle" /\ UNCHANGED <<cycle, published>>
          /\ log' = [i \in DOMAIN log |-> [log[i] EXCEPT !.age = IF @ = 3 THEN 3 ELSE @ + 1]]
      BY <1>11 DEF GrowOld
    <2>2. \A i \in 1..Len(log) : log[i] \in [ev : Feedback, age : 0..3]
      BY <1>0, ElementOfSeq DEF LogOK
    <2>3. \A i \in 1..Len(log) : /\ log'[i] \in [ev : Feedback, age : 0..3] /\ log'[i].ev = log[i].ev
                                 /\ log'[i].age = IF log[i].age = 3 THEN 3 ELSE log[i].age + 1
      BY <1>0, <2>1, <2>2
    <2>4. log' \in [1..Len(log) -> [ev : Feedback, age : 0..3]]
      BY <1>0, <2>1, <2>3
    <2>5. log' \in Seq([ev : Feedback, age : 0..3]) /\ Len(log') = Len(log)
      <3>1. PICK n \in Nat : n = Len(log)
        BY <1>0
      <3>2. PICK l \in [1..n -> [ev : Feedback, age : 0..3]] : l = log'
        BY <2>4, <3>1
      <3>3. l \in Seq([ev : Feedback, age : 0..3])
        BY SeqDef
      <3>4. Len(l) = n
        BY <3>3
      <3> QED
        BY <3>1, <3>2, <3>3, <3>4
    <2>6. ASSUME NEW i \in 1..Len(log), NEW j \in 1..Len(log), i < j PROVE log'[j].age <= log'[i].age
      <3>1. log[i].age \in 0..3 /\ log[j].age \in 0..3 /\ log[j].age <= log[i].age
        BY <1>0, <2>2, <2>6 DEF LogOK
      <3> QED
        BY <2>3, <3>1
    <2>7. LogOK'
      BY <2>5, <2>6 DEF LogOK
    <2>8. \A a, r : Drifted(a, r) => Drifted(a, r)'
      BY <1>0, <2>3, <2>5, <2>7, DriftStays
    <2>9. cycle = NoCycle /\ cycle' = NoCycle
      BY <1>0, <2>1 DEF CycleOK
    <2>10. CycleOK'
      BY <2>9 DEF CycleOK, NoCycle
    <2> QED
      BY <1>0, <2>1, <2>7, <2>8, <2>10 DEF HeuristicIInv, DriftIsWitnessed
  <1>12. ASSUME NEW ev \in Feedback, StoreFeedback(ev) PROVE HeuristicIInv'
    <2>1. log' = Append(log, [ev |-> ev, age |-> 0]) /\ UNCHANGED <<cycle, published>>
      BY <1>12 DEF StoreFeedback
    <2>2. LogOK' /\ \A i \in 1..Len(log) : i \in 1..Len(log') /\ log'[i] = log[i]
      BY <1>0, <2>1, LogGrows
    <2>3. \A a, r : Drifted(a, r) => Drifted(a, r)'
      BY <1>0, <2>2, DriftStays
    <2>4. /\ \A s : SignalOK(s) => SignalOK(s)'
          /\ \A a : EventsOf(a, 1) \subseteq EventsOf(a, 1)'
      <3>1. DOMAIN log' = 1..Len(log')
        BY <2>2 DEF LogOK
      <3>2. ASSUME NEW s, SignalOK(s) PROVE SignalOK(s)'
        <4>1. \A i \in Counted(s) : i \in 1..Len(log') /\ log'[i] = log[i] /\ log[i].age = 0
          BY <2>2, <3>2 DEF SignalOK
        <4>2. s.corrected \subseteq Counted(s)
          BY DEF Counted
        <4>3. \A i, j \in s.corrected : log'[i].ev.hash = log'[j].ev.hash => i = j
          BY <3>2, <4>1, <4>2 DEF SignalOK
        <4>4. Counted(s) \subseteq {i \in 1..Len(log') : log'[i].age = 0}
          BY <4>1
        <4> QED
          BY <4>3, <4>4 DEF SignalOK, Counted
      <3>3. ASSUME NEW a, NEW i \in EventsOf(a, 1) PROVE i \in EventsOf(a, 1)'
        BY <1>0, <2>2, <3>1 DEF EventsOf, Recent
      <3> QED
        BY <3>2, <3>3
    <2>5. CycleOK'
      BY <1>0, <2>1, <2>2, <2>3, <2>4 DEF CycleOK
    <2> QED
      BY <1>0, <2>1, <2>2, <2>3, <2>5 DEF HeuristicIInv, DriftIsWitnessed
  <1> QED
    BY <1>3, <1>4, <1>5, <1>6, <1>7, <1>8, <1>9, <1>10, <1>11, <1>12 DEF HeuristicNext

\* What the heuristic cycle publishes is borne out by the log, for every
\* sequence of events between its reads and every set of thresholds: an agent
\* is alerted about only if one of its events exceeds a later one by the drop
\* (get_agent_trend compares averages of which one is part of the other) or
\* events arrived between its two reads, and no trigger is ever held back by
\* conflicting corrections.
THEOREM HeuristicsAreEarned == HeuristicSpec => []HeuristicsInv
  <1> DEFINE N == HeuristicNext \/ (Next /\ UNCHANGED heuristicVars)
  <1>1. Init /\ HeuristicInit => HeuristicIInv
    BY InitHeuristics
  <1>2. HeuristicIInv /\ [N]_<<vars, heuristicVars>> => HeuristicIInv'
    <2>1. HeuristicIInv /\ UNCHANGED heuristicVars => HeuristicIInv'
      BY DEF HeuristicIInv, heuristicVars, LogOK, CycleOK, DriftIsWitnessed, Drifted, SignalOK, EventsOf, Recent
    <2> QED
      BY <2>1, NextHeuristics
  <1>3. HeuristicIInv => HeuristicsInv
    BY DEF HeuristicIInv, CycleOK, SignalOK, HeuristicsInv, ConflictsNeverSeen, HasConflictingCorrections
  <1> QED
    BY <1>1, <1>2, <1>3, PTL DEF HeuristicSpec

=============================================================================
