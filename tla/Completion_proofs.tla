-------------------------- MODULE Completion_proofs --------------------------
(***************************************************************************)
(* Publication of committed results and the payloads of their artifacts,   *)
(* for any number of publishers, jobs, files and failures.                 *)
(***************************************************************************)
EXTENDS Completion, ArtifactStorage, WellFoundedInduction, TLAPS

(* A replay is harmless because the link between an attempt and its version *)
(* is written in the transaction that writes the version, and never again:  *)
(* what a publisher has read of it stays true.                              *)

\* record has nothing left to do for the job.
Recorded(j) == \A f \in File : ToStore(j, f) = {}

\* An attempt is linked to a version with the content it produced.
LinksHold ==
    \A j \in Job, f \in File : link[j][f] # 0 =>
        link[j][f] \in 1..Len(versions[f]) /\ versions[f][link[j][f]].content \in Produced(j, f)

\* The attempt that wrote a version is linked to it, and a version differs from
\* the one before it.
VersionsHold ==
    \A f \in File : \A n \in 1..Len(versions[f]) :
        /\ versions[f][n].by # "api" => versions[f][n].by \in Job /\ link[versions[f][n].by][f] = n
        /\ n + 1 <= Len(versions[f]) => versions[f][n].content # versions[f][n + 1].content

\* A review shows what the attempt is linked to.
ReviewsHold == \A j \in Job : review[j] # "none" => Recorded(j) /\ evidence[j] = link[j]

\* A publisher works on committed results, and past record it has the links.
PublisherHolds(p) ==
    /\ \A j \in todo[p] : Contains(outbox, j)
    /\ stage[p] \in {"review", "check", "ack"} =>
          \A j \in todo[p] : Event(p, j) =>
              /\ Recorded(j) /\ refs[p] = link[j]
              /\ stage[p] = "ack" /\ output[j].escalated => review[j] # "none"

AcknowledgedHold == \A j \in published : Recorded(j) /\ (output[j].escalated => review[j] # "none")

CompletionIInv ==
    /\ TypeOK /\ LinksHold /\ VersionsHold /\ ReviewsHold /\ AcknowledgedHold
    /\ \A p \in Publisher : PublisherHolds(p)

-----------------------------------------------------------------------------
(* Lemmas on the helpers.                                                   *)

\* What a sequence is.
LEMMA SeqFacts ==
    ASSUME NEW S, NEW s \in Seq(S)
    PROVE  Len(s) \in Nat /\ DOMAIN s = 1..Len(s) /\ \A n \in 1..Len(s) : s[n] \in S
  OBVIOUS

\* A file's name is decided by its first artifact.
LEMMA ProducedOne ==
    ASSUME output \in [Job -> Outputs], NEW j \in Job, NEW f \in File
    PROVE  /\ Produced(j, f) \subseteq Content
           /\ \A c, d \in Produced(j, f) : c = d
  <1> DEFINE arts == output[j].artifacts
             first == {n \in DOMAIN arts : arts[n].file = f /\ \A m \in 1..(n - 1) : arts[m].file # f}
  <1>1. arts \in Seq([file : File, content : Content])
    <2>1. output[j] \in [artifacts : Seq([file : File, content : Content]), escalated : BOOLEAN]
      BY CompletionAssumption
    <2> QED
      BY <2>1
  <1>2. DOMAIN arts = 1..Len(arts) /\ Len(arts) \in Nat /\ \A n \in 1..Len(arts) : arts[n].content \in Content
    <2> HIDE DEF arts
    <2>1. \A n \in 1..Len(arts) : arts[n] \in [file : File, content : Content]
      BY <1>1, SeqFacts, Zenon
    <2>2. \A n \in 1..Len(arts) : arts[n].content \in Content
      BY <2>1
    <2>3. Len(arts) \in Nat /\ DOMAIN arts = 1..Len(arts)
      BY <1>1
    <2> QED
      BY <2>2, <2>3
  <1>3. \A m, n \in first : m = n
    <2> SUFFICES ASSUME NEW m \in first, NEW n \in first, m < n PROVE FALSE
      BY <1>2
    <2>1. m \in 1..(n - 1) /\ arts[m].file = f
      BY <1>2
    <2> QED
      BY <2>1
  <1>4. Produced(j, f) = {arts[n].content : n \in first}
    BY DEF Produced
  <1> QED
    BY <1>2, <1>3, <1>4

\* Appending to a sequence.
LEMMA AppendFacts ==
    ASSUME NEW S, NEW s \in Seq(S), NEW e \in S
    PROVE  /\ Append(s, e) \in Seq(S) /\ Len(Append(s, e)) = Len(s) + 1 /\ Len(s) \in Nat
           /\ \A n \in 1..Len(s) : Append(s, e)[n] = s[n]
           /\ Append(s, e)[Len(s) + 1] = e
  OBVIOUS

\* The events a publisher has read are ordered: it is at one of them.
LEMMA EventOne ==
    ASSUME TypeOK, NEW p \in Publisher, PublisherHolds(p), NEW j \in Job, NEW k \in Job, Event(p, j), Event(p, k)
    PROVE  j = k
  <1>1. outbox \in Seq(Job) /\ DOMAIN outbox = 1..Len(outbox) /\ Len(outbox) \in Nat
    BY DEF TypeOK
  <1>2. PICK m \in DOMAIN outbox, n \in DOMAIN outbox : outbox[m] = j /\ outbox[n] = k
    BY <1>1 DEF PublisherHolds, Event, Contains
  <1>3. ~(m < n) /\ ~(n < m)
    BY <1>2 DEF Event, Older
  <1> QED
    BY <1>1, <1>2, <1>3

\* As the outbox grows, the event a publisher is at stays the oldest.
LEMMA EventStays ==
    ASSUME TypeOK, NEW p \in Publisher, NEW j \in Job, todo'[p] = todo[p], Event(p, j)',
           outbox' = outbox \/ \E i \in Job : outbox' = Append(outbox, i)
    PROVE  Event(p, j)
  <1>1. outbox \in Seq(Job)
    BY DEF TypeOK
  <1>2. \A n \in DOMAIN outbox : n \in DOMAIN outbox' /\ outbox'[n] = outbox[n]
    BY <1>1
  <1>3. ASSUME NEW k, Older(k, j) PROVE Older(k, j)'
    BY <1>2, <1>3 DEF Older
  <1> QED
    BY <1>3 DEF Event

-----------------------------------------------------------------------------
(* What a step leaves true.                                                 *)

\* A step that writes no version, no link and no review.
LEMMA StoresSame ==
    ASSUME CompletionIInv, UNCHANGED <<output, versions, link, review, evidence>>
    PROVE  LinksHold' /\ VersionsHold' /\ ReviewsHold' /\ \A j \in Job : Recorded(j)' <=> Recorded(j)
  <1>1. \A j \in Job, f \in File : Produced(j, f)' = Produced(j, f) /\ ToStore(j, f)' = ToStore(j, f)
    BY DEF Produced, ToStore
  <1>2. \A j \in Job : Recorded(j)' <=> Recorded(j)
    BY <1>1 DEF Recorded
  <1>3. LinksHold'
    BY <1>1 DEF CompletionIInv, LinksHold
  <1>4. VersionsHold'
    BY DEF CompletionIInv, VersionsHold
  <1>5. ReviewsHold'
    BY <1>2 DEF CompletionIInv, ReviewsHold
  <1> QED
    BY <1>2, <1>3, <1>4, <1>5

\* What is recorded stays as it is, and reviews stay.
Onwards ==
    \A j \in Job : /\ Recorded(j) => Recorded(j)' /\ link'[j] = link[j]
                   /\ review[j] # "none" => review'[j] # "none"

LEMMA OnwardsSame ==
    ASSUME CompletionIInv, UNCHANGED <<output, versions, link, review, evidence>>
    PROVE  Onwards
  BY StoresSame DEF Onwards

\* A publisher that does nothing keeps what it knows.
LEMMA PublisherKept ==
    ASSUME CompletionIInv, NEW q \in Publisher, todo'[q] = todo[q], stage'[q] = stage[q], refs'[q] = refs[q],
           output' = output, Onwards, outbox' = outbox \/ \E i \in Job : outbox' = Append(outbox, i)
    PROVE  PublisherHolds(q)'
  <1>1. outbox \in Seq(Job) /\ todo[q] \subseteq Job /\ PublisherHolds(q) /\ TypeOK
    BY DEF CompletionIInv, TypeOK
  <1>2. \A j \in todo[q] : Contains(outbox', j)
    BY <1>1 DEF PublisherHolds, Contains
  <1>3. ASSUME NEW j \in todo[q], stage[q] \in {"review", "check", "ack"}, Event(q, j)'
        PROVE  /\ Recorded(j)' /\ refs[q] = link'[j]
               /\ stage[q] = "ack" /\ output[j].escalated => review'[j] # "none"
    <2>1. j \in Job
      BY <1>1
    <2>2. Event(q, j)
      BY <1>1, <1>3, <2>1, EventStays
    <2> QED
      BY <1>1, <1>3, <2>1, <2>2 DEF PublisherHolds, Onwards
  <1> QED
    BY <1>2, <1>3 DEF PublisherHolds

\* A publisher that has not come past record knows nothing.
LEMMA PublisherFresh ==
    ASSUME NEW p \in Publisher, stage'[p] \in {"idle", "record"}, \A j \in todo'[p] : Contains(outbox', j)
    PROVE  PublisherHolds(p)'
  BY DEF PublisherHolds

\* What is acknowledged stays complete.
LEMMA AcknowledgedKept ==
    ASSUME CompletionIInv, Onwards, published' = published, output' = output
    PROVE  AcknowledgedHold'
  <1>1. published \subseteq Job
    BY DEF CompletionIInv, TypeOK
  <1> QED
    BY <1>1 DEF CompletionIInv, AcknowledgedHold, Onwards

\* A publisher turns to its next event.
LEMMA NextEventFacts ==
    ASSUME TypeOK, NEW p \in Publisher, NEW j \in Job, j \in todo[p], NextEvent(p, j)
    PROVE  /\ todo' \in [Publisher -> SUBSET Job] /\ refs' \in [Publisher -> [File -> Nat]]
           /\ stage' \in [Publisher -> {"idle", "record", "review", "check", "ack"}]
           /\ \A q \in Publisher : (stage'[q] = "idle") <=> (todo'[q] = {})
           /\ \A q \in Publisher \ {p} : todo'[q] = todo[q] /\ stage'[q] = stage[q] /\ refs'[q] = refs[q]
           /\ stage'[p] \in {"idle", "record"} /\ todo'[p] \subseteq todo[p]
  <1>1. /\ todo \in [Publisher -> SUBSET Job] /\ refs \in [Publisher -> [File -> Nat]]
        /\ stage \in [Publisher -> {"idle", "record", "review", "check", "ack"}]
        /\ \A q \in Publisher : (stage[q] = "idle") <=> (todo[q] = {})
    BY DEF TypeOK
  <1>2. NoRefs \in [File -> Nat]
    BY DEF NoRefs
  <1>3. /\ todo' = [todo EXCEPT ![p] = todo[p] \ {j}]
        /\ stage' = [stage EXCEPT ![p] = IF todo[p] = {j} THEN "idle" ELSE "record"]
        /\ refs' = [refs EXCEPT ![p] = NoRefs]
    BY DEF NextEvent
  <1>4. /\ todo'[p] = todo[p] \ {j} /\ stage'[p] = IF todo[p] = {j} THEN "idle" ELSE "record"
        /\ \A q \in Publisher \ {p} : todo'[q] = todo[q] /\ stage'[q] = stage[q] /\ refs'[q] = refs[q]
    BY <1>1, <1>3
  <1>5. /\ todo' \in [Publisher -> SUBSET Job] /\ refs' \in [Publisher -> [File -> Nat]]
        /\ stage' \in [Publisher -> {"idle", "record", "review", "check", "ack"}]
    BY <1>1, <1>2, <1>3
  <1>6. (stage'[p] = "idle") <=> (todo'[p] = {})
    <2>1. CASE todo[p] = {j}
      BY <1>4, <2>1
    <2>2. CASE todo[p] # {j}
      BY <1>4, <2>2
    <2> QED
      BY <2>1, <2>2
  <1> QED
    BY <1>1, <1>4, <1>5, <1>6

-----------------------------------------------------------------------------
(* The steps.                                                               *)

\* A result is committed.
LEMMA CommitStep ==
    ASSUME CompletionIInv, NEW j \in Job, CommitResult(j)
    PROVE  CompletionIInv'
  <1>0. outbox \in Seq(Job) /\ IsInjective(outbox) /\ TypeOK
    BY DEF CompletionIInv, TypeOK
  <1>1. /\ outbox' = Append(outbox, j) /\ ~Contains(outbox, j)
        /\ UNCHANGED <<output, published, versions, link, review, evidence, todo, stage, refs, faults, direct>>
    BY DEF CommitResult
  <1>2. outbox' \in Seq(Job) /\ IsInjective(outbox')
    <2>1. /\ outbox' \in Seq(Job) /\ Len(outbox') = Len(outbox) + 1 /\ Len(outbox) \in Nat
          /\ (\A n \in 1..Len(outbox) : outbox'[n] = outbox[n]) /\ outbox'[Len(outbox) + 1] = j
      BY <1>0, <1>1, AppendFacts
    <2>2. DOMAIN outbox' = 1..(Len(outbox) + 1) /\ DOMAIN outbox = 1..Len(outbox)
      BY <1>0, <2>1
    <2>3. \A n \in 1..Len(outbox) : outbox[n] # j
      BY <1>1 DEF Contains
    <2> QED
      BY <1>0, <2>1, <2>2, <2>3 DEF IsInjective
  <1>3. TypeOK'
    BY <1>0, <1>1, <1>2 DEF TypeOK
  <1>4. LinksHold' /\ VersionsHold' /\ ReviewsHold' /\ Onwards
    BY <1>1, StoresSame, OnwardsSame
  <1>5. AcknowledgedHold'
    BY <1>1, <1>4, AcknowledgedKept
  <1>6. \A q \in Publisher : PublisherHolds(q)'
    BY <1>1, <1>4, PublisherKept
  <1> QED
    BY <1>3, <1>4, <1>5, <1>6 DEF CompletionIInv

\* A step that leaves the stores alone and turns one publisher to another event.
LEMMA IdleStep ==
    ASSUME CompletionIInv, NEW p \in Publisher, UNCHANGED stores, TypeOK',
           \A q \in Publisher \ {p} : todo'[q] = todo[q] /\ stage'[q] = stage[q] /\ refs'[q] = refs[q],
           PublisherHolds(p)'
    PROVE  CompletionIInv'
  <1>1. UNCHANGED <<outbox, output, published, versions, link, review, evidence>>
    BY DEF stores
  <1>2. LinksHold' /\ VersionsHold' /\ ReviewsHold' /\ Onwards
    BY <1>1, StoresSame, OnwardsSame
  <1>3. AcknowledgedHold'
    BY <1>1, <1>2, AcknowledgedKept
  <1>4. \A q \in Publisher \ {p} : PublisherHolds(q)'
    BY <1>1, <1>2, PublisherKept
  <1> QED
    BY <1>2, <1>3, <1>4 DEF CompletionIInv

\* A pass begins or dies, a call fails, or a review is found to be another's.
LEMMA QuietSteps ==
    ASSUME CompletionIInv, NEW p \in Publisher,
           BeginPass(p) \/ Dies(p) \/ \E j \in Job : Fails(p, j) \/ CheckReview(p, j)
    PROVE  CompletionIInv'
  <1>0. /\ TypeOK /\ PublisherHolds(p) /\ todo \in [Publisher -> SUBSET Job] /\ refs \in [Publisher -> [File -> Nat]]
        /\ stage \in [Publisher -> {"idle", "record", "review", "check", "ack"}]
        /\ \A q \in Publisher : (stage[q] = "idle") <=> (todo[q] = {})
        /\ faults \in 0..MaxFaults /\ MaxFaults \in Nat
    BY CompletionAssumption DEF CompletionIInv, TypeOK
  <1>1. UNCHANGED <<stores, direct>> /\ UNCHANGED <<outbox, output, published, versions, link, review, evidence>>
    BY DEF BeginPass, Dies, Fails, CheckReview, stores
  <1>2. faults' \in 0..MaxFaults
    BY <1>0 DEF BeginPass, Dies, Fails, CheckReview
  <1>3. ASSUME todo' \in [Publisher -> SUBSET Job], refs' \in [Publisher -> [File -> Nat]],
               stage' \in [Publisher -> {"idle", "record", "review", "check", "ack"}],
               \A q \in Publisher : (stage'[q] = "idle") <=> (todo'[q] = {})
        PROVE  TypeOK'
    BY <1>0, <1>1, <1>2, <1>3 DEF TypeOK
  <1>4. CASE BeginPass(p)
    <2> DEFINE pending == {j \in Job : Contains(outbox, j)} \ published
    <2>1. /\ pending # {} /\ todo' = [todo EXCEPT ![p] = pending] /\ stage' = [stage EXCEPT ![p] = "record"] /\ refs' = refs
      BY <1>4 DEF BeginPass
    <2>2. pending \in SUBSET Job /\ \A j \in pending : Contains(outbox, j)
      OBVIOUS
    <2> HIDE DEF pending
    <2>3. /\ todo'[p] = pending /\ stage'[p] = "record"
          /\ \A q \in Publisher \ {p} : todo'[q] = todo[q] /\ stage'[q] = stage[q] /\ refs'[q] = refs[q]
      BY <1>0, <2>1
    <2>4. TypeOK'
      BY <1>0, <1>3, <2>1, <2>2, <2>3
    <2>5. PublisherHolds(p)'
      BY <1>1, <2>2, <2>3, PublisherFresh
    <2> QED
      BY <1>1, <2>3, <2>4, <2>5, IdleStep
  <1>5. CASE Dies(p)
    <2>1. /\ todo' = [todo EXCEPT ![p] = {}] /\ stage' = [stage EXCEPT ![p] = "idle"] /\ refs' = [refs EXCEPT ![p] = NoRefs]
      BY <1>5 DEF Dies
    <2>2. NoRefs \in [File -> Nat]
      BY DEF NoRefs
    <2>3. /\ todo'[p] = {} /\ stage'[p] = "idle"
          /\ \A q \in Publisher \ {p} : todo'[q] = todo[q] /\ stage'[q] = stage[q] /\ refs'[q] = refs[q]
      BY <1>0, <2>1
    <2>4. TypeOK'
      BY <1>0, <1>3, <2>1, <2>2, <2>3
    <2>5. PublisherHolds(p)'
      BY <2>3, PublisherFresh
    <2> QED
      BY <1>1, <2>3, <2>4, <2>5, IdleStep
  <1>6. ASSUME NEW j \in Job, j \in todo[p], NextEvent(p, j) PROVE CompletionIInv'
    <2>1. /\ TypeOK' /\ stage'[p] \in {"idle", "record"} /\ todo'[p] \subseteq todo[p]
          /\ \A q \in Publisher \ {p} : todo'[q] = todo[q] /\ stage'[q] = stage[q] /\ refs'[q] = refs[q]
      BY <1>0, <1>3, <1>6, NextEventFacts
    <2>2. PublisherHolds(p)'
      BY <1>0, <1>1, <2>1, PublisherFresh DEF PublisherHolds
    <2> QED
      BY <1>1, <2>1, <2>2, IdleStep
  <1>7. ASSUME NEW j \in Job, Event(p, j), stage[p] = "check", stage' = [stage EXCEPT ![p] = "ack"], UNCHANGED <<todo, refs>>,
               review[j] # "none"
        PROVE  CompletionIInv'
    <2>1. stage'[p] = "ack" /\ \A q \in Publisher \ {p} : todo'[q] = todo[q] /\ stage'[q] = stage[q] /\ refs'[q] = refs[q]
      BY <1>0, <1>7
    <2>2. TypeOK'
      <3>1. todo[p] # {}
        BY <1>7 DEF Event
      <3> QED
        BY <1>0, <1>3, <1>7, <2>1, <3>1
    <2>3. PublisherHolds(p)'
      <3>1. \A k \in Job : Recorded(k)' <=> Recorded(k)
        BY <1>1, StoresSame
      <3>2. ASSUME NEW k \in todo[p], Event(p, k)' PROVE k = j /\ k \in Job
        <4>1. k \in Job /\ Event(p, k)
          BY <1>0, <1>1, <1>7, <3>2, EventStays
        <4> QED
          BY <1>0, <1>7, <4>1, EventOne
      <3>3. Recorded(j) /\ refs[p] = link[j]
        BY <1>0, <1>7 DEF PublisherHolds, Event
      <3> QED
        BY <1>0, <1>1, <1>7, <2>1, <3>1, <3>2, <3>3 DEF PublisherHolds
    <2> QED
      BY <1>1, <2>1, <2>2, <2>3, IdleStep
  <1>8. ASSUME NEW j \in Job, Fails(p, j) PROVE CompletionIInv'
    BY <1>6, <1>8 DEF Fails, Event
  <1>9. ASSUME NEW j \in Job, CheckReview(p, j) PROVE CompletionIInv'
    BY <1>6, <1>7, <1>9 DEF CheckReview, Event
  <1> QED
    BY <1>4, <1>5, <1>8, <1>9

\* An event is acknowledged: everything is where it belongs.
LEMMA AcknowledgeStep ==
    ASSUME CompletionIInv, NEW p \in Publisher, NEW j \in Job, Acknowledge(p, j)
    PROVE  CompletionIInv'
  <1>0. /\ TypeOK /\ PublisherHolds(p) /\ published \subseteq Job /\ AcknowledgedHold
        /\ stage[p] = "ack" /\ Event(p, j) /\ j \in todo[p]
    BY DEF CompletionIInv, TypeOK, Acknowledge, Event
  <1>1. /\ published' = published \cup {j} /\ NextEvent(p, j)
        /\ UNCHANGED <<outbox, output, versions, link, review, evidence, faults, direct>>
    BY DEF Acknowledge
  <1>2. /\ todo' \in [Publisher -> SUBSET Job] /\ refs' \in [Publisher -> [File -> Nat]]
        /\ stage' \in [Publisher -> {"idle", "record", "review", "check", "ack"}]
        /\ \A q \in Publisher : (stage'[q] = "idle") <=> (todo'[q] = {})
        /\ \A q \in Publisher \ {p} : todo'[q] = todo[q] /\ stage'[q] = stage[q] /\ refs'[q] = refs[q]
        /\ stage'[p] \in {"idle", "record"} /\ todo'[p] \subseteq todo[p]
    BY <1>0, <1>1, NextEventFacts
  <1>3. TypeOK'
    BY <1>0, <1>1, <1>2 DEF TypeOK
  <1>4. LinksHold' /\ VersionsHold' /\ ReviewsHold' /\ Onwards /\ \A k \in Job : Recorded(k)' <=> Recorded(k)
    BY <1>1, StoresSame, OnwardsSame
  <1>5. AcknowledgedHold'
    <2>1. Recorded(j) /\ (output[j].escalated => review[j] # "none")
      BY <1>0 DEF PublisherHolds
    <2> QED
      BY <1>0, <1>1, <1>4, <2>1 DEF AcknowledgedHold
  <1>6. \A q \in Publisher \ {p} : PublisherHolds(q)'
    BY <1>1, <1>2, <1>4, PublisherKept
  <1>7. PublisherHolds(p)'
    BY <1>0, <1>1, <1>2, PublisherFresh DEF PublisherHolds
  <1> QED
    BY <1>3, <1>4, <1>5, <1>6, <1>7 DEF CompletionIInv

\* A review is asked for, with the versions the attempt is linked to.
LEMMA EnqueueStep ==
    ASSUME CompletionIInv, NEW p \in Publisher, NEW j \in Job, EnqueueReview(p, j)
    PROVE  CompletionIInv'
  <1>0. /\ TypeOK /\ PublisherHolds(p) /\ ReviewsHold /\ stage[p] = "review" /\ Event(p, j) /\ j \in todo[p]
        /\ review \in [Job -> {"none", "pending", "approved", "accepted", "rejected"}]
        /\ evidence \in [Job -> [File -> Nat]] /\ refs \in [Publisher -> [File -> Nat]]
        /\ stage \in [Publisher -> {"idle", "record", "review", "check", "ack"}]
    BY DEF CompletionIInv, TypeOK, EnqueueReview, Event
  <1>1. /\ stage' = [stage EXCEPT ![p] = "check"]
        /\ UNCHANGED <<outbox, output, published, versions, link, todo, refs, faults, direct>>
    BY DEF EnqueueReview
  <1>2. Recorded(j) /\ refs[p] = link[j]
    BY <1>0 DEF PublisherHolds
  <1>3. /\ review' \in [Job -> {"none", "pending", "approved", "accepted", "rejected"}]
        /\ evidence' \in [Job -> [File -> Nat]]
        /\ \A k \in Job \ {j} : review'[k] = review[k] /\ evidence'[k] = evidence[k]
        /\ review'[j] # "none"
        /\ (review[j] = "none" /\ evidence'[j] = refs[p]) \/ (review[j] # "none" /\ evidence'[j] = evidence[j])
    <2>1. CASE review[j] = "none"
      BY <1>0, <2>1 DEF EnqueueReview
    <2>2. CASE review[j] # "none"
      BY <1>0, <2>2 DEF EnqueueReview
    <2> QED
      BY <2>1, <2>2
  <1>4. \A k \in Job, f \in File : Produced(k, f)' = Produced(k, f) /\ ToStore(k, f)' = ToStore(k, f)
    BY <1>1 DEF Produced, ToStore
  <1>5. \A k \in Job : Recorded(k)' <=> Recorded(k)
    BY <1>4 DEF Recorded
  <1>6. Onwards
    BY <1>1, <1>3, <1>5 DEF Onwards
  <1>7. stage'[p] = "check" /\ \A q \in Publisher \ {p} : todo'[q] = todo[q] /\ stage'[q] = stage[q] /\ refs'[q] = refs[q]
    BY <1>0, <1>1
  <1>8. TypeOK'
    <2>1. stage' \in [Publisher -> {"idle", "record", "review", "check", "ack"}]
      BY <1>0, <1>1
    <2>2. \A q \in Publisher : (stage'[q] = "idle") <=> (todo'[q] = {})
      BY <1>0, <1>1, <1>7 DEF TypeOK
    <2> QED
      BY <1>0, <1>1, <1>3, <2>1, <2>2 DEF TypeOK
  <1>9. LinksHold' /\ VersionsHold'
    BY <1>1, <1>4 DEF CompletionIInv, LinksHold, VersionsHold
  <1>10. ReviewsHold'
    BY <1>0, <1>1, <1>2, <1>3, <1>5 DEF ReviewsHold
  <1>11. AcknowledgedHold'
    BY <1>1, <1>6, AcknowledgedKept
  <1>12. \A q \in Publisher \ {p} : PublisherHolds(q)'
    BY <1>1, <1>6, <1>7, PublisherKept
  <1>13. PublisherHolds(p)'
    <2>1. ASSUME NEW k \in todo[p], Event(p, k)' PROVE k = j /\ k \in Job
      <3>1. k \in Job /\ Event(p, k)
        BY <1>0, <1>1, <2>1, EventStays DEF TypeOK
      <3> QED
        BY <1>0, <3>1, EventOne
    <2> QED
      BY <1>0, <1>1, <1>2, <1>5, <1>7, <2>1 DEF PublisherHolds
  <1> QED
    BY <1>8, <1>9, <1>10, <1>11, <1>12, <1>13 DEF CompletionIInv

\* A reviewer decides.
LEMMA ResolveStep ==
    ASSUME CompletionIInv, NEW j \in Job, NEW d \in {"approved", "accepted", "rejected"}, Resolve(j, d)
    PROVE  CompletionIInv'
  <1>0. TypeOK /\ ReviewsHold /\ review \in [Job -> {"none", "pending", "approved", "accepted", "rejected"}]
    BY DEF CompletionIInv, TypeOK
  <1>1. /\ review[j] = "pending" /\ review' = [review EXCEPT ![j] = d]
        /\ UNCHANGED <<outbox, output, published, versions, link, evidence, todo, stage, refs, faults, direct>>
    BY DEF Resolve
  <1>2. /\ review' \in [Job -> {"none", "pending", "approved", "accepted", "rejected"}]
        /\ \A k \in Job : review'[k] # "none" <=> review[k] # "none"
    BY <1>0, <1>1
  <1>3. \A k \in Job, f \in File : Produced(k, f)' = Produced(k, f) /\ ToStore(k, f)' = ToStore(k, f)
    BY <1>1 DEF Produced, ToStore
  <1>4. \A k \in Job : Recorded(k)' <=> Recorded(k)
    BY <1>3 DEF Recorded
  <1>5. Onwards
    BY <1>1, <1>2, <1>4 DEF Onwards
  <1>6. TypeOK'
    BY <1>0, <1>1, <1>2 DEF TypeOK
  <1>7. LinksHold' /\ VersionsHold'
    BY <1>1, <1>3 DEF CompletionIInv, LinksHold, VersionsHold
  <1>8. ReviewsHold'
    BY <1>0, <1>1, <1>2, <1>4 DEF ReviewsHold
  <1>9. AcknowledgedHold'
    BY <1>1, <1>5, AcknowledgedKept
  <1>10. \A q \in Publisher : PublisherHolds(q)'
    BY <1>1, <1>5, PublisherKept
  <1> QED
    BY <1>6, <1>7, <1>8, <1>9, <1>10 DEF CompletionIInv

Version == [content : Content, by : Job \cup {"api"}]

LEMMA VersionFacts ==
    ASSUME NEW c \in Content, NEW b \in Job \cup {"api"}
    PROVE  \E e \in Version : e = [content |-> c, by |-> b] /\ e.content = c /\ e.by = b
  <1> DEFINE e == [content |-> c, by |-> b]
  <1>1. e \in Version
    BY DEF Version
  <1>2. e.content = c /\ e.by = b
    OBVIOUS
  <1> HIDE DEF e
  <1>3. \E x \in Version : x = e /\ x.content = c /\ x.by = b
    BY <1>1, <1>2
  <1> QED
    BY <1>3, Zenon DEF e

\* A new version is written after those there are, and differs from the newest.
LEMMA GrownFacts ==
    ASSUME NEW s \in Seq(Version), NEW e \in Version, ~IsLatest(s, e.content)
    PROVE  /\ Append(s, e) \in Seq(Version) /\ Len(Append(s, e)) = Len(s) + 1 /\ Len(s) \in Nat
           /\ \A n \in 1..Len(s) : Append(s, e)[n] = s[n]
           /\ Append(s, e)[Len(s) + 1] = e
           /\ Len(s) >= 1 => s[Len(s)].content # e.content
  <1>1. Len(s) \in Nat
    OBVIOUS
  <1>2. Len(s) >= 1 => s # <<>>
    BY <1>1
  <1>3. Len(s) >= 1 => s[Len(s)].content # e.content
    BY <1>2 DEF IsLatest, Last
  <1> QED
    BY <1>3, AppendFacts

\* What record does with a file of the job.
RecordsFile(j, f) ==
    \/ ToStore(j, f) = {} /\ versions'[f] = versions[f] /\ link'[j][f] = link[j][f]
    \/ \E c \in ToStore(j, f) :
           /\ versions[f] # <<>> /\ Last(versions[f]).content = c /\ versions'[f] = versions[f]
           /\ link'[j][f] = Len(versions[f])
    \/ \E c \in ToStore(j, f) :
           /\ ~IsLatest(versions[f], c) /\ versions'[f] = Append(versions[f], [content |-> c, by |-> j])
           /\ link'[j][f] = Len(versions[f]) + 1

LEMMA RecordFacts ==
    ASSUME CompletionIInv, NEW p \in Publisher, NEW j \in Job, Record(p, j)
    PROVE  /\ \A f \in File : RecordsFile(j, f)
           /\ versions' \in [File -> Seq(Version)] /\ link' \in [Job -> [File -> Nat]]
           /\ \A k \in Job \ {j} : link'[k] = link[k]
  <1>0. versions \in [File -> Seq(Version)] /\ link \in [Job -> [File -> Nat]] /\ output \in [Job -> Outputs]
    BY DEF CompletionIInv, TypeOK, Version
  <1> DEFINE nv == [f \in File |-> IF ToStore(j, f) = {} THEN versions[f]
                                   ELSE Stored(j, f, CHOOSE c \in ToStore(j, f) : TRUE)]
             nl == [f \in File |-> IF ToStore(j, f) = {} THEN link[j][f] ELSE Len(nv[f])]
  <1>1. versions' = nv /\ link' = [link EXCEPT ![j] = nl]
    <2>1. versions' = nv
      BY DEF Record
    <2>2. link' = [link EXCEPT ![j] = [f \in File |-> IF ToStore(j, f) = {} THEN link[j][f] ELSE Len(versions'[f])]]
      BY DEF Record
    <2> QED
      BY <2>1, <2>2
  <1>2. ASSUME NEW f \in File
        PROVE  /\ \/ ToStore(j, f) = {} /\ nv[f] = versions[f] /\ nl[f] = link[j][f]
                  \/ \E c \in ToStore(j, f) :
                         /\ versions[f] # <<>> /\ Last(versions[f]).content = c /\ nv[f] = versions[f]
                         /\ nl[f] = Len(versions[f])
                  \/ \E c \in ToStore(j, f) :
                         /\ ~IsLatest(versions[f], c) /\ nv[f] = Append(versions[f], [content |-> c, by |-> j])
                         /\ nl[f] = Len(versions[f]) + 1
               /\ nv[f] \in Seq(Version) /\ nl[f] \in Nat
    <2>0. versions[f] \in Seq(Version) /\ Len(versions[f]) \in Nat /\ link[j][f] \in Nat
      BY <1>0
    <2>1. CASE ToStore(j, f) = {}
      BY <2>0, <2>1
    <2>2. CASE ToStore(j, f) # {}
      <3>1. PICK c \in ToStore(j, f) : c = CHOOSE d \in ToStore(j, f) : TRUE
        BY <2>2
      <3>2. c \in Content
        BY <1>0, <3>1, ProducedOne DEF ToStore
      <3>3. nv[f] = Stored(j, f, c) /\ nl[f] = Len(nv[f])
        BY <2>2, <3>1
      <3> HIDE DEF nv, nl
      <3>4. CASE IsLatest(versions[f], c)
        BY <2>0, <3>1, <3>3, <3>4 DEF Stored, IsLatest
      <3>5. CASE ~IsLatest(versions[f], c)
        <4>1. PICK e \in Version : e = [content |-> c, by |-> j] /\ e.content = c
          <5>1. j \in Job \cup {"api"}
            OBVIOUS
          <5> QED
            BY <3>2, <5>1, VersionFacts, Zenon
        <4>2. nv[f] = Append(versions[f], e)
          BY <3>3, <3>5, <4>1 DEF Stored
        <4>3. nv[f] \in Seq(Version) /\ Len(nv[f]) = Len(versions[f]) + 1
          BY <2>0, <3>5, <4>1, <4>2, GrownFacts
        <4>4. nl[f] = Len(versions[f]) + 1 /\ nl[f] \in Nat
          BY <2>0, <3>3, <4>3
        <4> QED
          BY <3>1, <3>5, <4>1, <4>2, <4>3, <4>4, Zenon
      <3> QED
        BY <3>4, <3>5
    <2> QED
      BY <2>1, <2>2
  <1>3. nv \in [File -> Seq(Version)] /\ nl \in [File -> Nat]
    <2>1. (\A f \in File : nv[f] \in Seq(Version)) /\ \A f \in File : nl[f] \in Nat
      BY <1>2
    <2>2. (nv = [f \in File |-> nv[f]]) /\ (nl = [f \in File |-> nl[f]])
      OBVIOUS
    <2> HIDE DEF nv, nl
    <2> QED
      BY <2>1, <2>2
  <1> HIDE DEF nv, nl
  <1>4. link' \in [Job -> [File -> Nat]] /\ link'[j] = nl /\ \A k \in Job \ {j} : link'[k] = link[k]
    BY <1>0, <1>1, <1>3
  <1>5. ASSUME NEW f \in File PROVE RecordsFile(j, f)
    BY <1>1, <1>2, <1>4 DEF RecordsFile
  <1> QED
    BY <1>1, <1>3, <1>4, <1>5

\* A file gets no version or one more, which the attempt that wrote it is linked to.
Grows(f) ==
    /\ \/ versions'[f] = versions[f]
       \/ \E e \in Version : /\ ~IsLatest(versions[f], e.content) /\ versions'[f] = Append(versions[f], e)
                             /\ e.by # "api" => e.by \in Job /\ link'[e.by][f] = Len(versions[f]) + 1
    /\ \A k \in Job : link[k][f] # 0 => link'[k][f] = link[k][f]

LEMMA VersionsGrow ==
    ASSUME CompletionIInv, NEW f \in File, Grows(f)
    PROVE  /\ Len(versions'[f]) \in Nat
           /\ \A n \in 1..Len(versions[f]) : n \in 1..Len(versions'[f]) /\ versions'[f][n] = versions[f][n]
           /\ \A n \in 1..Len(versions'[f]) :
                 /\ versions'[f][n].by # "api" => versions'[f][n].by \in Job /\ link'[versions'[f][n].by][f] = n
                 /\ n + 1 <= Len(versions'[f]) => versions'[f][n].content # versions'[f][n + 1].content
  <1>0. versions[f] \in Seq(Version) /\ Len(versions[f]) \in Nat
    <2>1. versions \in [File -> Seq(Version)]
      BY DEF CompletionIInv, TypeOK, Version
    <2> QED
      BY <2>1
  <1>1. \A n \in 1..Len(versions[f]) :
           /\ versions[f][n].by # "api" => versions[f][n].by \in Job /\ link[versions[f][n].by][f] = n /\ n # 0
           /\ n + 1 <= Len(versions[f]) => versions[f][n].content # versions[f][n + 1].content
    BY DEF CompletionIInv, VersionsHold
  <1>2. \A n \in 1..Len(versions[f]) :
           versions[f][n].by # "api" => versions[f][n].by \in Job /\ link'[versions[f][n].by][f] = n
    BY <1>1 DEF Grows
  <1>3. CASE versions'[f] = versions[f]
    <2>1. PICK v : v = versions[f] /\ v = versions'[f]
      BY <1>3
    <2>2. Len(v) \in Nat
      BY <1>0, <2>1
    <2>3. \A n \in 1..Len(v) :
             /\ v[n].by # "api" => v[n].by \in Job /\ link'[v[n].by][f] = n
             /\ n + 1 <= Len(v) => v[n].content # v[n + 1].content
      BY <1>1, <1>2, <2>1
    <2> QED
      BY <2>1, <2>2, <2>3
  <1>4. CASE \E e \in Version : /\ ~IsLatest(versions[f], e.content) /\ versions'[f] = Append(versions[f], e)
                                /\ e.by # "api" => e.by \in Job /\ link'[e.by][f] = Len(versions[f]) + 1
    <2>1. PICK e \in Version : /\ ~IsLatest(versions[f], e.content) /\ versions'[f] = Append(versions[f], e)
                               /\ e.by # "api" => e.by \in Job /\ link'[e.by][f] = Len(versions[f]) + 1
      BY <1>4
    <2>2. /\ Len(versions'[f]) = Len(versions[f]) + 1
          /\ \A n \in 1..Len(versions[f]) : versions'[f][n] = versions[f][n]
          /\ versions'[f][Len(versions[f]) + 1] = e
          /\ Len(versions[f]) >= 1 => versions[f][Len(versions[f])].content # e.content
      BY <1>0, <2>1, GrownFacts
    <2>3. ASSUME NEW n \in 1..Len(versions'[f])
          PROVE  versions'[f][n].by # "api" => versions'[f][n].by \in Job /\ link'[versions'[f][n].by][f] = n
      <3>1. CASE n = Len(versions[f]) + 1
        BY <2>1, <2>2, <3>1
      <3>2. CASE n \in 1..Len(versions[f])
        BY <1>2, <2>2, <3>2
      <3> QED
        BY <1>0, <2>2, <3>1, <3>2
    <2>4. ASSUME NEW n \in 1..Len(versions'[f]), n + 1 <= Len(versions'[f])
          PROVE  versions'[f][n].content # versions'[f][n + 1].content
      <3>1. CASE n = Len(versions[f])
        BY <1>0, <2>2, <3>1
      <3>2. CASE n + 1 \in 1..Len(versions[f])
        <4>1. n \in 1..Len(versions[f]) /\ n + 1 <= Len(versions[f])
          BY <1>0, <2>2, <3>2
        <4>2. versions[f][n].content # versions[f][n + 1].content
          BY <1>1, <4>1
        <4>3. versions'[f][n] = versions[f][n] /\ versions'[f][n + 1] = versions[f][n + 1]
          BY <2>2, <3>2, <4>1
        <4> QED
          BY <4>2, <4>3
      <3> QED
        BY <1>0, <2>2, <2>4, <3>1, <3>2
    <2>5. Len(versions'[f]) \in Nat /\ \A n \in 1..Len(versions[f]) : n \in 1..Len(versions'[f])
      BY <1>0, <2>2
    <2> QED
      BY <2>2, <2>3, <2>4, <2>5
  <1> QED
    BY <1>3, <1>4 DEF Grows

\* The links of an attempt outlive what others write.
LEMMA LinkOutlives ==
    ASSUME CompletionIInv, NEW f \in File, Grows(f), NEW k \in Job, link[k][f] # 0, output' = output
    PROVE  link'[k][f] \in 1..Len(versions'[f]) /\ versions'[f][link'[k][f]].content \in Produced(k, f)'
  <1>1. link[k][f] \in 1..Len(versions[f]) /\ versions[f][link[k][f]].content \in Produced(k, f)
    BY DEF CompletionIInv, LinksHold
  <1>2. Produced(k, f)' = Produced(k, f) /\ link'[k][f] = link[k][f]
    BY DEF Produced, Grows
  <1> QED
    BY <1>1, <1>2, VersionsGrow

\* record writes what the attempt has not written yet.
LEMMA RecordGrows ==
    ASSUME CompletionIInv, NEW p \in Publisher, NEW j \in Job, Record(p, j), NEW f \in File
    PROVE  Grows(f)
  <1>0. RecordsFile(j, f) /\ \A k \in Job \ {j} : link'[k] = link[k]
    BY RecordFacts
  <1>1. \A k \in Job : link[k][f] # 0 => link'[k][f] = link[k][f]
    <2>1. link[j][f] # 0 => link'[j][f] = link[j][f]
      BY <1>0 DEF RecordsFile, ToStore
    <2> QED
      BY <1>0, <2>1
  <1>2. CASE \E c \in ToStore(j, f) :
                /\ ~IsLatest(versions[f], c) /\ versions'[f] = Append(versions[f], [content |-> c, by |-> j])
                /\ link'[j][f] = Len(versions[f]) + 1
    <2>1. PICK c \in ToStore(j, f) :
                /\ ~IsLatest(versions[f], c) /\ versions'[f] = Append(versions[f], [content |-> c, by |-> j])
                /\ link'[j][f] = Len(versions[f]) + 1
      BY <1>2
    <2>2. c \in Content /\ j \in Job \cup {"api"}
      BY <2>1, ProducedOne DEF ToStore, CompletionIInv, TypeOK
    <2>3. PICK e \in Version : e = [content |-> c, by |-> j] /\ e.content = c /\ e.by = j
      BY <2>2, VersionFacts, Zenon
    <2>4. /\ ~IsLatest(versions[f], e.content) /\ versions'[f] = Append(versions[f], e)
          /\ e.by \in Job /\ link'[e.by][f] = Len(versions[f]) + 1
      BY <2>1, <2>3
    <2> QED
      BY <1>1, <2>4 DEF Grows
  <1>3. CASE versions'[f] = versions[f]
    BY <1>1, <1>3 DEF Grows
  <1> QED
    BY <1>0, <1>2, <1>3 DEF RecordsFile

LEMMA RecordStep ==
    ASSUME CompletionIInv, NEW p \in Publisher, NEW j \in Job, Record(p, j)
    PROVE  CompletionIInv'
  <1>0. /\ TypeOK /\ stage[p] = "record" /\ Event(p, j) /\ j \in todo[p] /\ PublisherHolds(p) /\ ReviewsHold
        /\ refs \in [Publisher -> [File -> Nat]] /\ link \in [Job -> [File -> Nat]]
        /\ stage \in [Publisher -> {"idle", "record", "review", "check", "ack"}]
    BY DEF CompletionIInv, TypeOK, Record, Event
  <1>1. /\ UNCHANGED <<outbox, output, published, review, evidence, todo, faults, direct>>
        /\ refs' = [refs EXCEPT ![p] = link'[j]]
        /\ stage' = [stage EXCEPT ![p] = IF output[j].escalated THEN "review" ELSE "ack"]
    BY DEF Record
  <1>2. /\ \A f \in File : RecordsFile(j, f)
        /\ versions' \in [File -> Seq(Version)] /\ link' \in [Job -> [File -> Nat]]
        /\ \A k \in Job \ {j} : link'[k] = link[k]
    BY RecordFacts
  <1>3. \A f \in File : Grows(f)
    BY RecordGrows
  <1>4. \A k \in Job, f \in File : Produced(k, f)' = Produced(k, f)
    BY <1>1 DEF Produced
  <1>5. Recorded(j)'
    <2> SUFFICES ASSUME NEW f \in File PROVE ToStore(j, f)' = {}
      BY DEF Recorded
    <2>1. CASE ToStore(j, f) = {} /\ link'[j][f] = link[j][f]
      BY <1>4, <2>1 DEF ToStore
    <2>2. CASE link'[j][f] = Len(versions[f]) /\ versions[f] # <<>>
      <3>1. versions[f] \in Seq(Version)
        <4>1. versions \in [File -> Seq(Version)]
          BY <1>0 DEF TypeOK, Version
        <4> QED
          BY <4>1
      <3>2. link'[j][f] # 0
        BY <2>2, <3>1
      <3> QED
        BY <3>2 DEF ToStore
    <2>3. CASE link'[j][f] = Len(versions[f]) + 1
      <3>1. Len(versions[f]) \in Nat
        <4>1. versions \in [File -> Seq(Version)]
          BY <1>0 DEF TypeOK, Version
        <4> QED
          BY <4>1
      <3>2. link'[j][f] # 0
        BY <2>3, <3>1
      <3> QED
        BY <3>2 DEF ToStore
    <2> QED
      BY <1>2, <2>1, <2>2, <2>3 DEF RecordsFile
  <1>6. Onwards
    <2>1. ASSUME NEW k \in Job \ {j} PROVE Recorded(k)' <=> Recorded(k)
      <3>1. \A f \in File : ToStore(k, f)' = ToStore(k, f)
        BY <1>2, <1>4 DEF ToStore
      <3> QED
        BY <3>1 DEF Recorded
    <2>2. Recorded(j) => link'[j] = link[j]
      <3>1. Recorded(j) => \A f \in File : link'[j][f] = link[j][f]
        BY <1>2 DEF Recorded, RecordsFile
      <3>2. link'[j] \in [File -> Nat] /\ link[j] \in [File -> Nat]
        BY <1>0, <1>2
      <3> QED
        BY <3>1, <3>2
    <2> QED
      BY <1>1, <1>2, <1>5, <2>1, <2>2 DEF Onwards
  <1>7. /\ refs'[p] = link'[j] /\ stage'[p] = IF output[j].escalated THEN "review" ELSE "ack"
        /\ \A q \in Publisher \ {p} : todo'[q] = todo[q] /\ stage'[q] = stage[q] /\ refs'[q] = refs[q]
    BY <1>0, <1>1
  <1>8. TypeOK'
    <2>1. refs' \in [Publisher -> [File -> Nat]] /\ stage' \in [Publisher -> {"idle", "record", "review", "check", "ack"}]
      BY <1>0, <1>1, <1>2
    <2>2. \A q \in Publisher : (stage'[q] = "idle") <=> (todo'[q] = {})
      BY <1>0, <1>1, <1>7 DEF TypeOK
    <2>3. versions' \in [File -> Seq([content : Content, by : Job \cup {"api"}])]
      BY <1>2 DEF Version
    <2> QED
      BY <1>0, <1>1, <1>2, <2>1, <2>2, <2>3 DEF TypeOK
  <1>9. LinksHold'
    <2> SUFFICES ASSUME NEW k \in Job, NEW f \in File, link'[k][f] # 0
                 PROVE  link'[k][f] \in 1..Len(versions'[f]) /\ versions'[f][link'[k][f]].content \in Produced(k, f)'
      BY DEF LinksHold
    <2>1. CASE link[k][f] # 0
      BY <1>1, <1>3, <2>1, LinkOutlives
    <2>2. CASE link[k][f] = 0
      <3>1. k = j
        BY <1>2, <2>2
      <3>2. versions[f] \in Seq(Version) /\ Len(versions[f]) \in Nat
        <4>1. versions \in [File -> Seq(Version)]
          BY <1>0 DEF TypeOK, Version
        <4> QED
          BY <4>1
      <3>3. PICK c \in ToStore(j, f) :
              \/ /\ versions[f] # <<>> /\ Last(versions[f]).content = c /\ versions'[f] = versions[f]
                 /\ link'[j][f] = Len(versions[f])
              \/ /\ ~IsLatest(versions[f], c) /\ versions'[f] = Append(versions[f], [content |-> c, by |-> j])
                 /\ link'[j][f] = Len(versions[f]) + 1
        BY <1>2, <2>2, <3>1 DEF RecordsFile
      <3>4. c \in Produced(j, f)' /\ c \in Content
        BY <1>0, <1>4, <3>3, ProducedOne DEF ToStore, TypeOK
      <3>5. CASE /\ versions[f] # <<>> /\ Last(versions[f]).content = c /\ versions'[f] = versions[f]
                 /\ link'[j][f] = Len(versions[f])
        <4>1. Len(versions[f]) \in 1..Len(versions[f])
          BY <3>2, <3>5
        <4>2. versions[f][Len(versions[f])].content = c
          BY <3>5 DEF Last
        <4> QED
          BY <3>1, <3>4, <3>5, <4>1, <4>2
      <3>6. CASE /\ ~IsLatest(versions[f], c) /\ versions'[f] = Append(versions[f], [content |-> c, by |-> j])
                 /\ link'[j][f] = Len(versions[f]) + 1
        <4>0. j \in Job \cup {"api"}
          OBVIOUS
        <4>1. PICK e \in Version : e = [content |-> c, by |-> j] /\ e.content = c
          BY <3>4, <4>0, VersionFacts, Zenon
        <4>2. versions'[f] = Append(versions[f], e)
          BY <3>6, <4>1
        <4>3. Len(versions'[f]) = Len(versions[f]) + 1 /\ versions'[f][Len(versions[f]) + 1] = e
          BY <3>2, <4>2, AppendFacts
        <4> QED
          BY <3>1, <3>2, <3>4, <3>6, <4>1, <4>3
      <3> QED
        BY <3>3, <3>5, <3>6
    <2> QED
      BY <2>1, <2>2
  <1>10. VersionsHold'
    BY <1>3, VersionsGrow DEF VersionsHold
  <1>11. ReviewsHold'
    BY <1>0, <1>1, <1>6 DEF ReviewsHold, Onwards
  <1>12. AcknowledgedHold'
    BY <1>1, <1>6, AcknowledgedKept
  <1>13. \A q \in Publisher \ {p} : PublisherHolds(q)'
    BY <1>1, <1>6, <1>7, PublisherKept
  <1>14. PublisherHolds(p)'
    <2>1. ASSUME NEW k \in todo[p], Event(p, k)' PROVE k = j /\ k \in Job
      <3>1. k \in Job /\ Event(p, k)
        BY <1>0, <1>1, <2>1, EventStays DEF TypeOK
      <3> QED
        BY <1>0, <3>1, EventOne
    <2> QED
      BY <1>0, <1>1, <1>5, <1>7, <2>1 DEF PublisherHolds
  <1> QED
    BY <1>8, <1>9, <1>10, <1>11, <1>12, <1>13, <1>14 DEF CompletionIInv

\* The API process writes a version of its own.
LEMMA DirectGrows ==
    ASSUME CompletionIInv, NEW g \in File, NEW c \in Content, RecordDirect(g, c)
    PROVE  versions' \in [File -> Seq(Version)] /\ \A f \in File : Grows(f)
  <1>0. versions \in [File -> Seq(Version)]
    BY DEF CompletionIInv, TypeOK, Version
  <1>1. "api" \in Job \cup {"api"}
    OBVIOUS
  <1>2. PICK e \in Version : e = [content |-> c, by |-> "api"] /\ e.content = c /\ e.by = "api"
    BY <1>1, VersionFacts, Zenon
  <1>3. /\ ~IsLatest(versions[g], c) /\ link' = link
        /\ versions' = [versions EXCEPT ![g] = Append(versions[g], [content |-> c, by |-> "api"])]
    BY DEF RecordDirect
  <1>4. versions' = [versions EXCEPT ![g] = Append(versions[g], e)]
    BY <1>2, <1>3
  <1>5. versions[g] \in Seq(Version)
    BY <1>0
  <1>6. Append(versions[g], e) \in Seq(Version)
    BY <1>2, <1>5, AppendFacts
  <1>7. /\ versions' \in [File -> Seq(Version)] /\ versions'[g] = Append(versions[g], e)
        /\ \A f \in File \ {g} : versions'[f] = versions[f]
    BY <1>0, <1>4, <1>6
  <1>8. ~IsLatest(versions[g], e.content)
    BY <1>2, <1>3
  <1>9. Grows(g)
    BY <1>2, <1>3, <1>7, <1>8 DEF Grows
  <1>10. \A f \in File \ {g} : Grows(f)
    BY <1>3, <1>7 DEF Grows
  <1> QED
    BY <1>7, <1>9, <1>10

LEMMA RecordDirectStep ==
    ASSUME CompletionIInv, NEW g \in File, NEW c \in Content, RecordDirect(g, c)
    PROVE  CompletionIInv'
  <1>0. TypeOK /\ ReviewsHold /\ direct \in 0..MaxDirect /\ MaxDirect \in Nat
    BY CompletionAssumption DEF CompletionIInv, TypeOK
  <1>1. /\ direct < MaxDirect /\ direct' = direct + 1
        /\ UNCHANGED <<outbox, output, published, link, review, evidence, todo, stage, refs, faults>>
    BY DEF RecordDirect
  <1>2. versions' \in [File -> Seq(Version)] /\ \A f \in File : Grows(f)
    BY DirectGrows
  <1>3. \A k \in Job, f \in File : Produced(k, f)' = Produced(k, f) /\ ToStore(k, f)' = ToStore(k, f)
    BY <1>1 DEF Produced, ToStore
  <1>4. \A k \in Job : Recorded(k)' <=> Recorded(k)
    BY <1>3 DEF Recorded
  <1>5. Onwards
    BY <1>1, <1>4 DEF Onwards
  <1>6. TypeOK'
    <2>1. versions' \in [File -> Seq([content : Content, by : Job \cup {"api"}])]
      BY <1>2 DEF Version
    <2>2. direct' \in 0..MaxDirect
      BY <1>0, <1>1
    <2> QED
      BY <1>0, <1>1, <2>1, <2>2 DEF TypeOK
  <1>7. LinksHold'
    <2> SUFFICES ASSUME NEW k \in Job, NEW f \in File, link'[k][f] # 0
                 PROVE  link'[k][f] \in 1..Len(versions'[f]) /\ versions'[f][link'[k][f]].content \in Produced(k, f)'
      BY DEF LinksHold
    <2>1. link[k][f] # 0
      BY <1>1
    <2> QED
      BY <1>1, <1>2, <2>1, LinkOutlives
  <1>8. VersionsHold'
    BY <1>2, VersionsGrow DEF VersionsHold
  <1>9. ReviewsHold'
    BY <1>0, <1>1, <1>4 DEF ReviewsHold
  <1>10. AcknowledgedHold'
    BY <1>1, <1>5, AcknowledgedKept
  <1>11. \A q \in Publisher : PublisherHolds(q)'
    BY <1>1, <1>5, PublisherKept
  <1> QED
    BY <1>6, <1>7, <1>8, <1>9, <1>10, <1>11 DEF CompletionIInv

LEMMA InitCompletion == Init => CompletionIInv
  <1> SUFFICES ASSUME Init PROVE CompletionIInv
    OBVIOUS
  <1>0. MaxFaults \in Nat /\ MaxDirect \in Nat
    BY CompletionAssumption
  <1>1. NoRefs \in [File -> Nat] /\ \A f \in File : NoRefs[f] = 0
    BY DEF NoRefs
  <1>2. TypeOK
    <2>1. outbox \in Seq(Job) /\ IsInjective(outbox)
      BY DEF Init, IsInjective
    <2>2. versions \in [File -> Seq([content : Content, by : Job \cup {"api"}])]
      BY DEF Init
    <2>3. faults \in 0..MaxFaults /\ direct \in 0..MaxDirect
      BY <1>0 DEF Init
    <2>4. /\ link \in [Job -> [File -> Nat]] /\ evidence \in [Job -> [File -> Nat]] /\ refs \in [Publisher -> [File -> Nat]]
          /\ output \in [Job -> Outputs] /\ published \subseteq Job
      BY <1>1 DEF Init
    <2>5. /\ review \in [Job -> {"none", "pending", "approved", "accepted", "rejected"}]
          /\ todo \in [Publisher -> SUBSET Job] /\ stage \in [Publisher -> {"idle", "record", "review", "check", "ack"}]
          /\ \A p \in Publisher : (stage[p] = "idle") <=> (todo[p] = {})
      BY DEF Init
    <2> QED
      BY <2>1, <2>2, <2>3, <2>4, <2>5 DEF TypeOK
  <1>3. LinksHold
    BY <1>1 DEF Init, LinksHold
  <1>4. VersionsHold
    <2>1. \A f \in File : 1..Len(versions[f]) = {}
      BY DEF Init
    <2> QED
      BY <2>1 DEF VersionsHold
  <1>5. ReviewsHold /\ AcknowledgedHold
    BY DEF Init, ReviewsHold, AcknowledgedHold
  <1>6. \A p \in Publisher : PublisherHolds(p)
    BY DEF Init, PublisherHolds
  <1> QED
    BY <1>2, <1>3, <1>4, <1>5, <1>6 DEF CompletionIInv

LEMMA NextCompletion == CompletionIInv /\ [Next]_vars => CompletionIInv'
  <1> SUFFICES ASSUME CompletionIInv, [Next]_vars PROVE CompletionIInv'
    OBVIOUS
  <1>1. CASE UNCHANGED vars
    <2>1. UNCHANGED <<outbox, output, published, versions, link, review, evidence, todo, stage, refs, faults, direct>>
      BY <1>1 DEF vars
    <2>2. LinksHold' /\ VersionsHold' /\ ReviewsHold' /\ Onwards
      BY <2>1, StoresSame, OnwardsSame
    <2>3. TypeOK'
      BY <2>1 DEF CompletionIInv, TypeOK
    <2>4. AcknowledgedHold'
      BY <2>1, <2>2, AcknowledgedKept
    <2>5. \A q \in Publisher : PublisherHolds(q)'
      BY <2>1, <2>2, PublisherKept
    <2> QED
      BY <2>2, <2>3, <2>4, <2>5 DEF CompletionIInv
  <1>2. CASE \E j \in Job : CommitResult(j)
    BY <1>2, CommitStep
  <1>3. ASSUME NEW p \in Publisher, Publish(p) PROVE CompletionIInv'
    BY <1>3, QuietSteps, RecordStep, EnqueueStep, AcknowledgeStep DEF Publish
  <1>4. ASSUME NEW p \in Publisher, Dies(p) \/ \E j \in Job : Fails(p, j) PROVE CompletionIInv'
    BY <1>4, QuietSteps
  <1>5. CASE \E j \in Job, d \in {"approved", "accepted", "rejected"} : Resolve(j, d)
    BY <1>5, ResolveStep
  <1>6. CASE \E f \in File, c \in Content : RecordDirect(f, c)
    BY <1>6, RecordDirectStep
  <1> QED
    BY <1>1, <1>2, <1>3, <1>4, <1>5, <1>6 DEF Next

-----------------------------------------------------------------------------
(* The theorems on publication.                                             *)

LEMMA CompletionAlways == Spec => []CompletionIInv
  BY InitCompletion, NextCompletion, PTL DEF Spec

\* What a publisher has acknowledged is complete, whichever publishers worked on
\* it and failed or died before (publish_pending, _publish, record).
THEOREM PublicationComplete == Spec => []CompletionInv
  <1>1. CompletionIInv => CompletionInv
    <2> SUFFICES ASSUME CompletionIInv, NEW j \in published PROVE
                 /\ \A f \in File : \A c \in Produced(j, f) :
                        link[j][f] \in 1..Len(versions[f]) /\ versions[f][link[j][f]].content = c
                 /\ output[j].escalated => review[j] # "none" /\ evidence[j] = link[j]
      BY DEF CompletionInv, PublishedIsComplete, CompletionIInv
    <2>1. j \in Job /\ output \in [Job -> Outputs]
      BY DEF CompletionIInv, TypeOK
    <2>2. ASSUME NEW f \in File, NEW c \in Produced(j, f)
          PROVE  link[j][f] \in 1..Len(versions[f]) /\ versions[f][link[j][f]].content = c
      <3>1. link[j][f] # 0
        BY DEF CompletionIInv, AcknowledgedHold, Recorded, ToStore
      <3>2. link[j][f] \in 1..Len(versions[f]) /\ versions[f][link[j][f]].content \in Produced(j, f)
        BY <2>1, <3>1 DEF CompletionIInv, LinksHold
      <3>3. \A d, e \in Produced(j, f) : d = e
        BY <2>1, ProducedOne
      <3> QED
        BY <3>2, <3>3
    <2>3. output[j].escalated => review[j] # "none" /\ evidence[j] = link[j]
      BY <2>1 DEF CompletionIInv, AcknowledgedHold, ReviewsHold
    <2> QED
      BY <2>2, <2>3
  <1> QED
    BY <1>1, CompletionAlways, PTL

\* However often an event is replayed, its attempt adds at most one version of a
\* file, and no version repeats the one before it (ArtifactStore.record).
THEOREM ReplayIsHarmless == Spec => []ReplayAddsNothing
  <1>1. CompletionIInv => ReplayAddsNothing
    <2> SUFFICES ASSUME CompletionIInv, NEW f \in File, NEW m \in 1..Len(versions[f]), NEW n \in 1..Len(versions[f])
                 PROVE  /\ m # n /\ versions[f][m].by = versions[f][n].by => versions[f][m].by = "api"
                        /\ n = m + 1 => versions[f][m].content # versions[f][n].content
      BY DEF ReplayAddsNothing
    <2>1. /\ versions[f][m].by # "api" => link[versions[f][m].by][f] = m
          /\ versions[f][n].by # "api" => link[versions[f][n].by][f] = n
          /\ m + 1 <= Len(versions[f]) => versions[f][m].content # versions[f][m + 1].content
      BY DEF CompletionIInv, VersionsHold
    <2>2. n = m + 1 => m + 1 <= Len(versions[f])
      OBVIOUS
    <2> QED
      BY <2>1, <2>2
  <1> QED
    BY <1>1, CompletionAlways, PTL

\* A step that grows a file keeps its versions.
LEMMA GrowsKeeps ==
    ASSUME CompletionIInv, NEW f \in File, versions' \in [File -> Seq(Version)], Grows(f)
    PROVE  IsPrefix(versions[f], versions'[f])
  <1>1. versions \in [File -> Seq(Version)]
    BY DEF CompletionIInv, TypeOK, Version
  <1>2. PICK s \in Seq(Version), t \in Seq(Version) : s = versions[f] /\ t = versions'[f]
    BY <1>1
  <1>3. Len(s) \in Nat /\ Len(t) \in Nat /\ \A n \in 1..Len(s) : n \in 1..Len(t) /\ t[n] = s[n]
    BY <1>2, VersionsGrow
  <1>4. Len(s) <= Len(t)
    BY <1>3
  <1>5. SubSeq(s, 1, Len(s)) = SubSeq(t, 1, Len(s))
    BY <1>3, <1>4
  <1> QED
    BY <1>2, <1>4, <1>5 DEF IsPrefix

\* A reviewer's decision, the evidence it was taken on and the versions stored
\* are never changed, by a replay or by another job (enqueue, resolve, record).
THEOREM DecisionsAreFinal == Spec => DecisionsStand
  <1> DEFINE Stands == /\ \A j \in Job :
                              /\ review[j] \notin {"none", "pending"} => review'[j] = review[j]
                              /\ review[j] # "none" => evidence'[j] = evidence[j]
                       /\ \A f \in File : IsPrefix(versions[f], versions'[f])
  <1>1. CompletionIInv /\ [Next]_vars => [Stands]_vars
    <2> SUFFICES ASSUME CompletionIInv, Next PROVE Stands
      OBVIOUS
    <2>0. /\ review \in [Job -> {"none", "pending", "approved", "accepted", "rejected"}]
          /\ evidence \in [Job -> [File -> Nat]] /\ versions \in [File -> Seq(Version)]
      BY DEF CompletionIInv, TypeOK, Version
    <2>1. ASSUME versions' = versions, link' = link PROVE \A f \in File : IsPrefix(versions[f], versions'[f])
      BY <2>0, <2>1, GrowsKeeps DEF Grows
    <2>2. CASE UNCHANGED <<versions, link, review, evidence>>
      BY <2>1, <2>2
    <2>3. ASSUME NEW p \in Publisher, NEW j \in Job, Record(p, j) PROVE Stands
      <3>1. (\A f \in File : Grows(f)) /\ versions' \in [File -> Seq(Version)]
        BY <2>3, RecordGrows, RecordFacts
      <3> QED
        BY <2>3, <3>1, GrowsKeeps DEF Record
    <2>4. ASSUME NEW g \in File, NEW c \in Content, RecordDirect(g, c) PROVE Stands
      <3>1. (\A f \in File : Grows(f)) /\ versions' \in [File -> Seq(Version)]
        BY <2>4, DirectGrows
      <3> QED
        BY <2>4, <3>1, GrowsKeeps DEF RecordDirect
    <2>5. ASSUME NEW p \in Publisher, NEW j \in Job, EnqueueReview(p, j) PROVE Stands
      <3>1. versions' = versions /\ link' = link
        BY <2>5 DEF EnqueueReview
      <3>2. CASE review[j] = "none"
        BY <2>0, <2>1, <2>5, <3>1, <3>2 DEF EnqueueReview
      <3>3. CASE review[j] # "none"
        BY <2>1, <2>5, <3>1, <3>3 DEF EnqueueReview
      <3> QED
        BY <3>2, <3>3
    <2>6. ASSUME NEW j \in Job, NEW d \in {"approved", "accepted", "rejected"}, Resolve(j, d) PROVE Stands
      BY <2>0, <2>1, <2>6 DEF Resolve
    <2>7. ASSUME NEW p \in Publisher, Publish(p) PROVE Stands
      <3>1. ASSUME BeginPass(p) \/ \E j \in Job : CheckReview(p, j) \/ Acknowledge(p, j)
            PROVE  UNCHANGED <<versions, link, review, evidence>>
        BY <3>1 DEF BeginPass, CheckReview, Acknowledge, stores
      <3> HIDE DEF Stands
      <3> QED
        BY <2>2, <2>3, <2>5, <2>7, <3>1 DEF Publish
    <2>8. ASSUME (\E j \in Job : CommitResult(j)) \/ \E p \in Publisher : Dies(p) \/ \E j \in Job : Fails(p, j)
          PROVE  UNCHANGED <<versions, link, review, evidence>>
      BY <2>8 DEF CommitResult, Dies, Fails, stores
    <2> HIDE DEF Stands
    <2> QED
      BY <2>2, <2>4, <2>6, <2>7, <2>8 DEF Next
  <1> QED
    BY <1>1, CompletionAlways, PTL DEF Spec, DecisionsStand


-----------------------------------------------------------------------------
(* Payloads outside the database.                                           *)
(*                                                                          *)
(* A recorder writes under an id above all that its path has, so it never   *)
(* writes over a payload that counts.  The ids whose payloads a retention   *)
(* pass deletes are below a version that is still there, and those it takes *)
(* for orphans were not known when it read the rows: such a row belongs to  *)
(* a transaction that was open meanwhile.                                   *)

Row == [path : Paths, version : 1..MaxVersion, payload : Payloads, old : BOOLEAN, raced : BOOLEAN]

Item == [path : Paths, payload : Payloads]

StorageTypes ==
    /\ rows \subseteq Row
    /\ objects \in [Ids -> Payloads \cup {NoPayload}]
    /\ recorder \in [active : BOOLEAN, todo : Seq(Item), pending : SUBSET Row, put : BOOLEAN, overlap : BOOLEAN]
    /\ pass \in [pc : {"idle", "payloads", "list", "delete"}, ids : SUBSET Ids, known : SUBSET Ids]

\* An id has one row, and an idle recorder has nothing.
IdsDiffer ==
    /\ \A r, s \in Seen : Id(r) = Id(s) => r = s
    /\ rows \cap recorder.pending = {}
    /\ ~recorder.active => recorder = NotRecording

\* What a recorder has put is there until it commits, unless a clean-up overlaps.
PutStands ==
    /\ recorder.put => recorder.todo # <<>> /\ Target \in Ids /\ (recorder.overlap \/ objects[Target] = Head(recorder.todo).payload)
    /\ recorder.overlap \/ \A r \in recorder.pending : objects[Id(r)] = r.payload

\* What a retention pass is about to delete.
PassHolds ==
    /\ pass.pc = "payloads" => \A i \in pass.ids : (\A r \in Seen : Id(r) # i) /\ \E r \in rows : r.path = i[1] /\ i[2] < r.version
    /\ pass.pc \in {"list", "delete"} => recorder.overlap = recorder.active
    /\ pass.pc = "list" => \A r \in rows : r.raced \/ Id(r) \in pass.known
    /\ pass.pc = "delete" => \A r \in rows : r.raced \/ Id(r) \notin pass.ids

StorageIInv == StorageTypes /\ IdsDiffer /\ PutStands /\ PassHolds /\ PayloadsStand

\* A bounded set of numbers has a highest one.
LEMMA HighestExists ==
    ASSUME NEW N \in Nat, NEW S \in SUBSET (1..N), S # {}
    PROVE  \E n \in S : \A m \in S : m <= n
  <1> DEFINE D == {N - n : n \in S}
             R == {ss \in Nat \X Nat : ss[1] < ss[2]}
  <1>1. D \subseteq Nat /\ D # {}
    <2>1. \A n \in S : n \in 1..N
      OBVIOUS
    <2>2. \A n \in S : N - n \in Nat
      BY <2>1
    <2> QED
      BY <2>2
  <1>2. IsWellFoundedOn(R, Nat)
    BY NatLessThanWellFounded DEF OpToRel
  <1>3. PICK d \in D : \A e \in D : ~(<<e, d>> \in R)
    <2> HIDE DEF D, R
    <2> QED
      BY <1>1, <1>2, WFMin
  <1>4. PICK n \in S : d = N - n
    BY <1>3
  <1>5. ASSUME NEW m \in S PROVE m <= n
    <2>1. N - m \in D
      OBVIOUS
    <2>2. ~(N - m < d)
      BY <1>1, <1>3, <2>1
    <2> QED
      BY <1>4, <2>2
  <1> QED
    BY <1>5

\* A path that has rows has a newest one.
LEMMA LatestExists ==
    ASSUME NEW seen \in SUBSET Row, NEW path \in Paths, NEW s \in seen, s.path = path
    PROVE  /\ LatestOf(path, seen) # {}
           /\ \A r \in LatestOf(path, seen) : r \in seen /\ r.path = path /\ \A t \in seen : t.path = path => t.version <= r.version
  <1> DEFINE mine == {r \in seen : r.path = path}
             nums == {r.version : r \in mine}
  <1>0. MaxVersion \in Nat
    BY StorageAssumption
  <1>1. \A r \in seen : r.version \in 1..MaxVersion
    BY DEF Row
  <1>2. nums \in SUBSET (1..MaxVersion) /\ nums # {}
    BY <1>1
  <1>3. PICK n \in nums : \A m \in nums : m <= n
    <2> HIDE DEF nums
    <2> QED
      BY <1>0, <1>2, HighestExists
  <1>4. PICK r \in mine : r.version = n
    BY <1>3
  <1>5. \A t \in seen : t.path = path => t.version <= r.version
    BY <1>3, <1>4
  <1>6. r \in LatestOf(path, seen)
    BY <1>4, <1>5 DEF LatestOf
  <1> QED
    BY <1>6 DEF LatestOf

\* The next version is one above the newest.
LEMMA NextAbove ==
    ASSUME NEW seen \in SUBSET Row, NEW path \in Paths
    PROVE  /\ \A r \in seen : r.path = path => r.version < NextVersion(path, seen)
           /\ \/ NextVersion(path, seen) = 1 /\ \A r \in seen : r.path # path
              \/ \E r \in seen : r.path = path /\ NextVersion(path, seen) = r.version + 1
  <1>1. CASE \E s \in seen : s.path = path
    <2>1. PICK r \in LatestOf(path, seen) : r = CHOOSE q \in LatestOf(path, seen) : TRUE
      BY <1>1, LatestExists
    <2>2. r \in seen /\ r.path = path /\ \A t \in seen : t.path = path => t.version <= r.version
      BY <1>1, <2>1, LatestExists
    <2>3. NextVersion(path, seen) = r.version + 1
      BY <1>1, <2>1 DEF NextVersion
    <2>4. \A t \in seen : t.version \in Int
      <3>1. \A t \in seen : t.version \in 1..MaxVersion
        BY DEF Row
      <3> QED
        BY <3>1, StorageAssumption
    <2> QED
      BY <2>2, <2>3, <2>4
  <1>2. CASE ~\E s \in seen : s.path = path
    BY <1>2 DEF NextVersion
  <1> QED
    BY <1>1, <1>2

\* It depends on the ids alone.
LEMMA NextSame ==
    ASSUME NEW seen \in SUBSET Row, NEW now \in SUBSET Row, NEW path \in Paths,
           \A r \in seen : \E s \in now : Id(s) = Id(r), \A s \in now : \E r \in seen : Id(s) = Id(r)
    PROVE  NextVersion(path, now) = NextVersion(path, seen)
  <1> DEFINE a == NextVersion(path, seen)
             b == NextVersion(path, now)
  <1>1. /\ \A r \in seen : r.path = path => r.version < a
        /\ (a = 1 /\ \A r \in seen : r.path # path) \/ \E r \in seen : r.path = path /\ a = r.version + 1
    BY NextAbove
  <1>2. /\ \A r \in now : r.path = path => r.version < b
        /\ (b = 1 /\ \A r \in now : r.path # path) \/ \E r \in now : r.path = path /\ b = r.version + 1
    BY NextAbove
  <1>3. /\ \A r \in seen : r.version \in Int /\ \E s \in now : s.path = r.path /\ s.version = r.version
        /\ \A s \in now : s.version \in Int /\ \E r \in seen : s.path = r.path /\ s.version = r.version
    <2>1. (\A r \in seen : r.version \in 1..MaxVersion) /\ \A r \in now : r.version \in 1..MaxVersion
      BY DEF Row
    <2> QED
      BY <2>1, StorageAssumption DEF Id
  <1> HIDE DEF a, b
  <1>4. a = b
    <2>1. CASE \A r \in seen : r.path # path
      BY <1>1, <1>2, <1>3, <2>1
    <2>2. CASE \E r \in seen : r.path = path
      <3>1. PICK r \in seen : r.path = path /\ a = r.version + 1
        BY <1>1, <2>2
      <3>2. PICK s \in now : s.path = path /\ s.version = r.version
        BY <1>3, <3>1
      <3>3. PICK t \in now : t.path = path /\ b = t.version + 1
        BY <1>2, <3>2
      <3>4. t.version < a
        BY <1>1, <1>3, <3>3
      <3>5. s.version < b
        BY <1>2, <3>2
      <3>6. r.version \in Int /\ t.version \in Int
        BY <1>3
      <3> QED
        BY <3>1, <3>2, <3>3, <3>4, <3>5, <3>6
    <2> QED
      BY <2>1, <2>2
  <1> QED
    BY <1>4 DEF a, b

\* A recorder writes under an id that no row has, above all those of its path.
LEMMA TargetFacts ==
    ASSUME StorageTypes, recorder.todo # <<>>
    PROVE  /\ Head(recorder.todo) \in Item /\ Tail(recorder.todo) \in Seq(Item)
           /\ Target[1] \in Paths
           /\ \A r \in Seen : Id(r) # Target /\ (r.path = Target[1] => r.version < Target[2])
  <1>1. recorder.todo \in Seq(Item) /\ Seen \in SUBSET Row
    BY DEF StorageTypes, Seen
  <1>2. Head(recorder.todo) \in Item /\ Tail(recorder.todo) \in Seq(Item)
    BY <1>1
  <1>3. PICK path \in Paths : path = Head(recorder.todo).path
    BY <1>2 DEF Item
  <1>4. PICK n : n = NextVersion(path, Seen)
    OBVIOUS
  <1>5. Target[1] = path /\ Target[2] = n /\ Target = <<path, n>>
    BY <1>3, <1>4 DEF Target
  <1>6. \A r \in Seen : r.path = path => r.version < n
    BY <1>1, <1>4, NextAbove
  <1>7. \A r \in Seen : Id(r) = <<r.path, r.version>> /\ r.version \in Int
    <2>1. \A r \in Seen : r.version \in 1..MaxVersion
      BY <1>1 DEF Row
    <2> QED
      BY <2>1, StorageAssumption DEF Id
  <1>8. \A r \in Seen : Id(r) # <<path, n>>
    BY <1>6, <1>7
  <1> QED
    BY <1>2, <1>3, <1>5, <1>6, <1>8

\* The id of a row.
LEMMA IdFacts ==
    ASSUME NEW r \in Row
    PROVE  Id(r) \in Ids /\ Id(r)[1] = r.path /\ Id(r)[2] = r.version /\ r.version \in Int
  <1>1. r.path \in Paths /\ r.version \in 1..MaxVersion
    BY DEF Row
  <1> QED
    BY <1>1, StorageAssumption DEF Id, Ids

\* A record call begins.
LEMMA BeginRecordStep ==
    ASSUME StorageIInv, NEW batch \in Batches, BeginRecord(batch)
    PROVE  StorageIInv'
  <1>0. /\ StorageTypes /\ IdsDiffer /\ PassHolds /\ PayloadsStand
        /\ recorder = NotRecording /\ UNCHANGED <<rows, objects, pass, troubles>>
    BY DEF StorageIInv, IdsDiffer, BeginRecord
  <1>1. batch \in Seq(Item)
    BY StorageAssumption DEF Item
  <1>2. /\ recorder' = [active |-> TRUE, todo |-> batch, pending |-> {}, put |-> FALSE, overlap |-> pass.pc \in {"list", "delete"}]
    BY DEF BeginRecord, NotRecording
  <1>3. /\ recorder'.active = TRUE /\ recorder'.pending = {} /\ recorder'.put = FALSE
        /\ recorder'.overlap = (pass.pc \in {"list", "delete"})
        /\ recorder' \in [active : BOOLEAN, todo : Seq(Item), pending : SUBSET Row, put : BOOLEAN, overlap : BOOLEAN]
    BY <1>1, <1>2
  <1>4. Seen' = rows /\ Seen = rows
    BY <1>0, <1>3 DEF Seen, NotRecording
  <1>5. StorageTypes'
    BY <1>0, <1>3 DEF StorageTypes
  <1>6. IdsDiffer' /\ PutStands'
    BY <1>0, <1>3, <1>4 DEF IdsDiffer, PutStands
  <1>7. PassHolds'
    BY <1>0, <1>3, <1>4 DEF PassHolds
  <1> QED
    BY <1>0, <1>5, <1>6, <1>7 DEF StorageIInv, PayloadsStand

\* A file that has not changed is passed over.
LEMMA SkipStep ==
    ASSUME StorageIInv, SkipUnchanged
    PROVE  StorageIInv'
  <1>0. /\ StorageTypes /\ IdsDiffer /\ PutStands /\ PassHolds /\ PayloadsStand
        /\ recorder.active /\ recorder.todo # <<>> /\ ~recorder.put
        /\ recorder' = [recorder EXCEPT !.todo = Tail(recorder.todo)] /\ UNCHANGED <<rows, objects, pass, troubles>>
    BY DEF StorageIInv, SkipUnchanged
  <1>1. Tail(recorder.todo) \in Seq(Item)
    BY <1>0, TargetFacts
  <1>2. /\ recorder'.active = recorder.active /\ recorder'.pending = recorder.pending /\ recorder'.put = recorder.put
        /\ recorder'.overlap = recorder.overlap
        /\ recorder' \in [active : BOOLEAN, todo : Seq(Item), pending : SUBSET Row, put : BOOLEAN, overlap : BOOLEAN]
    BY <1>0, <1>1 DEF StorageTypes
  <1>3. Seen' = Seen
    BY <1>0, <1>2 DEF Seen
  <1>4. StorageTypes'
    BY <1>0, <1>2 DEF StorageTypes
  <1>5. IdsDiffer' /\ PutStands'
    BY <1>0, <1>2, <1>3 DEF IdsDiffer, PutStands
  <1>6. PassHolds'
    BY <1>0, <1>2, <1>3 DEF PassHolds
  <1> QED
    BY <1>0, <1>4, <1>5, <1>6 DEF StorageIInv, PayloadsStand

\* A payload is put under a new id.
LEMMA PutStep ==
    ASSUME StorageIInv, PutObject
    PROVE  StorageIInv'
  <1>0. /\ StorageTypes /\ IdsDiffer /\ PutStands /\ PassHolds /\ PayloadsStand
        /\ recorder.active /\ recorder.todo # <<>> /\ ~recorder.put /\ Target \in Ids
        /\ objects' = [objects EXCEPT ![Target] = Head(recorder.todo).payload]
        /\ recorder' = [recorder EXCEPT !.put = TRUE] /\ UNCHANGED <<rows, pass, troubles>>
    BY DEF StorageIInv, PutObject
  <1>1. Head(recorder.todo) \in Item /\ \A r \in Seen : Id(r) # Target
    BY <1>0, TargetFacts
  <1>2. /\ recorder'.active = recorder.active /\ recorder'.pending = recorder.pending /\ recorder'.put = TRUE
        /\ recorder'.overlap = recorder.overlap /\ recorder'.todo = recorder.todo
        /\ recorder' \in [active : BOOLEAN, todo : Seq(Item), pending : SUBSET Row, put : BOOLEAN, overlap : BOOLEAN]
    BY <1>0 DEF StorageTypes
  <1>3. Seen' = Seen /\ Target' = Target
    BY <1>0, <1>2 DEF Seen, Target
  <1>4. /\ objects' \in [Ids -> Payloads \cup {NoPayload}] /\ objects'[Target] = Head(recorder.todo).payload
        /\ \A i \in Ids : i # Target => objects'[i] = objects[i]
    <2>1. Head(recorder.todo).payload \in Payloads
      BY <1>1 DEF Item
    <2> QED
      BY <1>0, <2>1 DEF StorageTypes
  <1>5. \A r \in Seen : objects'[Id(r)] = objects[Id(r)]
    <2>1. \A r \in Seen : r \in Row
      BY <1>0 DEF StorageTypes, Seen
    <2> QED
      BY <1>1, <1>4, <2>1, IdFacts
  <1>6. StorageTypes'
    BY <1>0, <1>2, <1>4 DEF StorageTypes
  <1>7. IdsDiffer'
    BY <1>0, <1>2, <1>3 DEF IdsDiffer
  <1>8. PutStands'
    BY <1>0, <1>2, <1>3, <1>4, <1>5 DEF PutStands, Seen
  <1>9. PassHolds'
    BY <1>0, <1>2, <1>3 DEF PassHolds
  <1>10. PayloadsStand'
    BY <1>0, <1>5 DEF PayloadsStand, Seen
  <1> QED
    BY <1>6, <1>7, <1>8, <1>9, <1>10 DEF StorageIInv

\* Its row is written.
LEMMA InsertStep ==
    ASSUME StorageIInv, InsertRow
    PROVE  StorageIInv'
  <1> DEFINE row == [path |-> Target[1], version |-> Target[2], payload |-> Head(recorder.todo).payload,
                     old |-> FALSE, raced |-> FALSE]
  <1>0. /\ StorageTypes /\ IdsDiffer /\ PutStands /\ PassHolds /\ PayloadsStand
        /\ recorder.active /\ recorder.put
        /\ recorder' = [recorder EXCEPT !.todo = Tail(recorder.todo), !.pending = recorder.pending \cup {row}, !.put = FALSE]
        /\ UNCHANGED <<rows, objects, pass, troubles>>
    BY DEF StorageIInv, InsertRow
  <1>1. recorder.todo # <<>> /\ Target \in Ids /\ (recorder.overlap \/ objects[Target] = Head(recorder.todo).payload)
    BY <1>0 DEF PutStands
  <1>2. /\ Head(recorder.todo) \in Item /\ Tail(recorder.todo) \in Seq(Item)
        /\ \A r \in Seen : Id(r) # Target /\ (r.path = Target[1] => r.version < Target[2])
    BY <1>0, <1>1, TargetFacts
  <1>3. row \in Row /\ Id(row) = Target /\ row.payload = Head(recorder.todo).payload
    <2>1. Head(recorder.todo).payload \in Payloads
      BY <1>2 DEF Item
    <2>2. Target[1] \in Paths /\ Target[2] \in 1..MaxVersion /\ Target = <<Target[1], Target[2]>>
      BY <1>1 DEF Ids
    <2> QED
      BY <2>1, <2>2 DEF Row, Id
  <1> HIDE DEF row
  <1>4. /\ recorder'.active = recorder.active /\ recorder'.pending = recorder.pending \cup {row} /\ recorder'.put = FALSE
        /\ recorder'.overlap = recorder.overlap
        /\ recorder' \in [active : BOOLEAN, todo : Seq(Item), pending : SUBSET Row, put : BOOLEAN, overlap : BOOLEAN]
    BY <1>0, <1>2, <1>3 DEF StorageTypes
  <1>5. Seen' = Seen \cup {row}
    BY <1>0, <1>4 DEF Seen
  <1>6. StorageTypes'
    BY <1>0, <1>4 DEF StorageTypes
  <1>7. IdsDiffer'
    <2>1. \A r, s \in Seen' : Id(r) = Id(s) => r = s
      BY <1>0, <1>2, <1>3, <1>5 DEF IdsDiffer
    <2>2. row \notin rows
      BY <1>2, <1>3 DEF Seen
    <2> QED
      BY <1>0, <1>4, <2>1, <2>2 DEF IdsDiffer
  <1>8. PutStands'
    BY <1>0, <1>1, <1>3, <1>4 DEF PutStands
  <1>9. ASSUME NEW i \in pass.ids, pass.pc = "payloads" PROVE Id(row) # i
    <2>1. PICK r \in rows : r.path = i[1] /\ i[2] < r.version
      BY <1>0, <1>9 DEF PassHolds
    <2>2. r \in Seen /\ r.version \in Int
      BY <1>0, <2>1, IdFacts DEF StorageTypes, Seen
    <2>3. ASSUME i = Target PROVE FALSE
      <3>1. r.version < i[2] /\ i[2] \in Int
        BY <1>1, <1>2, <2>1, <2>2, <2>3 DEF Ids
      <3> QED
        BY <2>1, <2>2, <3>1
    <2> QED
      BY <1>3, <2>3
  <1>10. PassHolds'
    BY <1>0, <1>4, <1>5, <1>9 DEF PassHolds
  <1> QED
    BY <1>0, <1>6, <1>7, <1>8, <1>10 DEF StorageIInv, PayloadsStand

\* A transaction rolls back: only what it put may go.
LEMMA RollbackStep ==
    ASSUME StorageIInv, InsertFails \/ RecordEnds
    PROVE  StorageIInv'
  <1>0. /\ StorageTypes /\ IdsDiffer /\ PutStands /\ PassHolds /\ PayloadsStand
        /\ recorder' = NotRecording /\ UNCHANGED <<rows, pass>>
    BY DEF StorageIInv, InsertFails, RecordEnds, Unlock
  <1>1. /\ recorder'.active = FALSE /\ recorder'.pending = {} /\ recorder'.put = FALSE /\ recorder'.overlap = FALSE
        /\ recorder' \in [active : BOOLEAN, todo : Seq(Item), pending : SUBSET Row, put : BOOLEAN, overlap : BOOLEAN]
    BY <1>0 DEF NotRecording
  <1>2. /\ objects' \in [Ids -> Payloads \cup {NoPayload}]
        /\ \A r \in rows : objects'[Id(r)] = objects[Id(r)]
    <2>1. CASE RecordEnds
      BY <1>0, <2>1 DEF RecordEnds, StorageTypes
    <2>2. CASE InsertFails
      <3>1. recorder.put /\ objects' = [objects EXCEPT ![Target] = NoPayload]
        BY <2>2 DEF InsertFails
      <3>2. recorder.todo # <<>> /\ Target \in Ids
        BY <1>0, <3>1 DEF PutStands
      <3>3. \A r \in rows : Id(r) # Target /\ r \in Row
        BY <1>0, <3>2, TargetFacts DEF Seen, StorageTypes
      <3> QED
        BY <1>0, <3>1, <3>2, <3>3, IdFacts DEF StorageTypes
    <2> QED
      BY <2>1, <2>2
  <1>3. Seen' = rows /\ rows \subseteq Seen
    BY <1>0, <1>1 DEF Seen
  <1>4. StorageTypes'
    BY <1>0, <1>1, <1>2 DEF StorageTypes
  <1>5. IdsDiffer' /\ PutStands'
    BY <1>0, <1>1, <1>3 DEF IdsDiffer, PutStands
  <1>6. PassHolds'
    BY <1>0, <1>1, <1>3 DEF PassHolds
  <1>7. PayloadsStand'
    BY <1>0, <1>2 DEF PayloadsStand
  <1> QED
    BY <1>4, <1>5, <1>6, <1>7 DEF StorageIInv

\* A transaction commits: its rows are known to have raced with a clean-up or not.
LEMMA CommitRecordStep ==
    ASSUME StorageIInv, CommitRecord
    PROVE  StorageIInv'
  <1> DEFINE Done(r) == [r EXCEPT !.raced = recorder.overlap]
  <1>0. /\ StorageTypes /\ IdsDiffer /\ PutStands /\ PassHolds /\ PayloadsStand
        /\ recorder.active /\ recorder' = NotRecording /\ UNCHANGED <<objects, pass, troubles>>
        /\ rows' = rows \cup {Done(r) : r \in recorder.pending}
        /\ rows \subseteq Row /\ recorder.pending \subseteq Row /\ recorder.overlap \in BOOLEAN
    BY DEF StorageIInv, StorageTypes, CommitRecord, Unlock
  <1>1. /\ recorder'.active = FALSE /\ recorder'.pending = {} /\ recorder'.put = FALSE /\ recorder'.overlap = FALSE
        /\ recorder' \in [active : BOOLEAN, todo : Seq(Item), pending : SUBSET Row, put : BOOLEAN, overlap : BOOLEAN]
    BY <1>0 DEF NotRecording
  <1>2. \A r \in recorder.pending : Done(r) \in Row /\ Id(Done(r)) = Id(r) /\ Done(r).payload = r.payload /\ Done(r).raced = recorder.overlap
    BY <1>0 DEF Row, Id
  <1> HIDE DEF Done
  <1>3. rows' \subseteq Row /\ Seen' = rows' /\ \A s \in rows' : s \in rows \/ \E r \in recorder.pending : s = Done(r)
    BY <1>0, <1>1, <1>2 DEF Seen
  <1>4. StorageTypes'
    BY <1>0, <1>1, <1>3 DEF StorageTypes
  <1>5. IdsDiffer'
    <2>1. ASSUME NEW r \in rows', NEW s \in rows', Id(r) = Id(s) PROVE r = s
      <3>0. \A t \in rows' : \E q \in Seen : Id(q) = Id(t) /\ ((q = t /\ t \in rows) \/ (t = Done(q) /\ q \in recorder.pending))
        <4> SUFFICES ASSUME NEW t \in rows'
                     PROVE  \E q \in Seen : Id(q) = Id(t) /\ ((q = t /\ t \in rows) \/ (t = Done(q) /\ q \in recorder.pending))
          OBVIOUS
        <4>1. CASE t \in rows
          BY <4>1 DEF Seen
        <4>2. CASE \E q \in recorder.pending : t = Done(q)
          BY <1>2, <4>2 DEF Seen
        <4> QED
          BY <1>3, <4>1, <4>2
      <3>1. PICK q \in Seen : Id(q) = Id(r) /\ ((q = r /\ r \in rows) \/ (r = Done(q) /\ q \in recorder.pending))
        BY <3>0
      <3>2. PICK t \in Seen : Id(t) = Id(s) /\ ((t = s /\ s \in rows) \/ (s = Done(t) /\ t \in recorder.pending))
        BY <3>0
      <3>3. q = t
        BY <1>0, <2>1, <3>1, <3>2 DEF IdsDiffer
      <3>4. ~(q \in rows /\ q \in recorder.pending)
        BY <1>0 DEF IdsDiffer
      <3> QED
        BY <3>1, <3>2, <3>3, <3>4
    <2> QED
      BY <1>0, <1>1, <1>3, <2>1 DEF IdsDiffer
  <1>6. PutStands'
    BY <1>1 DEF PutStands
  <1>7. PassHolds'
    <2>1. ASSUME NEW i \in pass.ids, pass.pc = "payloads"
          PROVE  (\A s \in rows' : Id(s) # i) /\ \E s \in rows' : s.path = i[1] /\ i[2] < s.version
      <3>1. (\A r \in Seen : Id(r) # i) /\ \E s \in rows : s.path = i[1] /\ i[2] < s.version
        BY <1>0, <2>1 DEF PassHolds
      <3> QED
        BY <1>0, <1>2, <1>3, <3>1 DEF Seen
    <2>2. ASSUME pass.pc \in {"list", "delete"}, NEW s \in rows', s \notin rows PROVE s.raced = TRUE
      <3>1. recorder.overlap = TRUE
        BY <1>0, <2>2 DEF PassHolds
      <3> QED
        BY <1>2, <1>3, <2>2, <3>1
    <2>3. pass.pc = "list" => \A r \in rows' : r.raced \/ Id(r) \in pass.known
      BY <1>0, <2>2 DEF PassHolds
    <2>4. pass.pc = "delete" => \A r \in rows' : r.raced \/ Id(r) \notin pass.ids
      BY <1>0, <2>2 DEF PassHolds
    <2> QED
      BY <1>0, <1>1, <1>3, <2>1, <2>3, <2>4 DEF PassHolds
  <1>8. PayloadsStand'
    BY <1>0, <1>2, <1>3 DEF PayloadsStand, PutStands
  <1> QED
    BY <1>4, <1>5, <1>6, <1>7, <1>8 DEF StorageIInv

\* A version grows old: its id stays.
LEMMA GrowOldStep ==
    ASSUME StorageIInv, NEW row \in rows, GrowOld(row)
    PROVE  StorageIInv'
  <1> DEFINE aged == [row EXCEPT !.old = TRUE]
  <1>0. /\ StorageTypes /\ IdsDiffer /\ PutStands /\ PassHolds /\ PayloadsStand /\ ~row.old
        /\ rows' = (rows \ {row}) \cup {aged} /\ UNCHANGED <<objects, recorder, pass, troubles>>
        /\ rows \subseteq Row /\ row \in Row /\ recorder.pending \subseteq Row
    BY DEF StorageIInv, StorageTypes, GrowOld
  <1>1. /\ aged \in Row /\ Id(aged) = Id(row) /\ aged.payload = row.payload /\ aged.raced = row.raced
        /\ aged.path = row.path /\ aged.version = row.version
    BY <1>0 DEF Row, Id
  <1> HIDE DEF aged
  <1>2. rows' \subseteq Row /\ Seen' = rows' \cup recorder.pending /\ Seen' \in SUBSET Row /\ Seen \in SUBSET Row
    BY <1>0, <1>1 DEF Seen
  <1>3. \A s \in rows' : \E r \in rows : /\ Id(s) = Id(r) /\ s.payload = r.payload /\ s.raced = r.raced
                                         /\ s.path = r.path /\ s.version = r.version
                                         /\ (s = r /\ r # row) \/ (s = aged /\ r = row)
    BY <1>0, <1>1
  <1>4. \A r \in rows : \E s \in rows' : Id(s) = Id(r) /\ s.path = r.path /\ s.version = r.version
    BY <1>0, <1>1
  <1>5. StorageTypes'
    BY <1>0, <1>2 DEF StorageTypes
  <1>6. IdsDiffer'
    <2>1. \A s \in Seen' : \E r \in Seen : Id(s) = Id(r) /\ ((s = r /\ r # row) \/ (s = aged /\ r = row) \/ (s = r /\ r \in recorder.pending))
      BY <1>2, <1>3 DEF Seen
    <2>2. ASSUME NEW s \in Seen', NEW t \in Seen', Id(s) = Id(t) PROVE s = t
      <3>1. PICK r \in Seen : Id(s) = Id(r) /\ ((s = r /\ r # row) \/ (s = aged /\ r = row) \/ (s = r /\ r \in recorder.pending))
        BY <2>1
      <3>2. PICK q \in Seen : Id(t) = Id(q) /\ ((t = q /\ q # row) \/ (t = aged /\ q = row) \/ (t = q /\ q \in recorder.pending))
        BY <2>1
      <3>3. r = q /\ row \notin recorder.pending
        BY <1>0, <2>2, <3>1, <3>2 DEF IdsDiffer
      <3> QED
        BY <3>1, <3>2, <3>3
    <2>3. aged \notin recorder.pending
      <3>1. row \in Seen /\ \A r \in recorder.pending : r \in Seen /\ r # row
        BY <1>0 DEF IdsDiffer, Seen
      <3> QED
        BY <1>0, <1>1, <3>1 DEF IdsDiffer
    <2> QED
      BY <1>0, <2>2, <2>3 DEF IdsDiffer
  <1>7. recorder.put => Target' = Target
    <2> SUFFICES ASSUME recorder.put PROVE Target' = Target
      OBVIOUS
    <2>1. recorder.todo # <<>>
      BY <1>0 DEF PutStands
    <2>2. PICK path \in Paths : path = Head(recorder.todo).path
      BY <1>0, <2>1, TargetFacts DEF Item
    <2>3. (\A r \in Seen : \E s \in Seen' : Id(s) = Id(r)) /\ \A s \in Seen' : \E r \in Seen : Id(s) = Id(r)
      BY <1>2, <1>3, <1>4 DEF Seen
    <2>4. NextVersion(path, Seen') = NextVersion(path, Seen)
      BY <1>2, <2>3, NextSame
    <2> QED
      BY <1>0, <2>2, <2>4 DEF Target
  <1>8. PutStands'
    BY <1>0, <1>7 DEF PutStands
  <1>9. PassHolds'
    <2>1. ASSUME NEW i \in pass.ids, pass.pc = "payloads"
          PROVE  (\A s \in Seen' : Id(s) # i) /\ \E s \in rows' : s.path = i[1] /\ i[2] < s.version
      <3>1. (\A r \in Seen : Id(r) # i) /\ \E r \in rows : r.path = i[1] /\ i[2] < r.version
        BY <1>0, <2>1 DEF PassHolds
      <3> QED
        BY <1>2, <1>3, <1>4, <3>1 DEF Seen
    <2>2. pass.pc = "list" => \A s \in rows' : s.raced \/ Id(s) \in pass.known
      BY <1>0, <1>3 DEF PassHolds
    <2>3. pass.pc = "delete" => \A s \in rows' : s.raced \/ Id(s) \notin pass.ids
      BY <1>0, <1>3 DEF PassHolds
    <2> QED
      BY <1>0, <2>1, <2>2, <2>3 DEF PassHolds
  <1>10. PayloadsStand'
    BY <1>0, <1>3 DEF PayloadsStand
  <1> QED
    BY <1>5, <1>6, <1>8, <1>9, <1>10 DEF StorageIInv

\* The retention pass deletes rows: every path keeps its newest.
LEMMA DeleteOldStep ==
    ASSUME StorageIInv, DeleteOldRows
    PROVE  StorageIInv'
  <1>0. /\ StorageTypes /\ IdsDiffer /\ PayloadsStand /\ rows \subseteq Row
        /\ recorder = NotRecording /\ UNCHANGED <<objects, recorder, troubles>> /\ rows' = rows \ Superseded
        /\ pass' = [pc |-> "payloads", ids |-> {Id(r) : r \in Superseded}, known |-> {}]
    BY DEF StorageIInv, StorageTypes, IdsDiffer, DeleteOldRows, NoPass
  <1>1. Superseded \subseteq rows /\ recorder.pending = {} /\ ~recorder.put /\ Seen = rows /\ Seen' = rows'
    BY <1>0 DEF Superseded, NotRecording, Seen
  <1>2. \A r \in Superseded : Id(r) \in Ids
    BY <1>0, <1>1, IdFacts
  <1>3. /\ pass'.pc = "payloads" /\ pass'.ids = {Id(r) : r \in Superseded}
        /\ pass' \in [pc : {"idle", "payloads", "list", "delete"}, ids : SUBSET Ids, known : SUBSET Ids]
    BY <1>0, <1>2
  <1>4. StorageTypes'
    BY <1>0, <1>3 DEF StorageTypes
  <1>5. IdsDiffer' /\ PutStands'
    BY <1>0, <1>1 DEF IdsDiffer, PutStands
  <1>6. ASSUME NEW r \in Superseded
        PROVE  (\A s \in rows' : Id(s) # Id(r)) /\ \E s \in rows' : s.path = Id(r)[1] /\ Id(r)[2] < s.version
    <2>1. r \in rows /\ r \in Row /\ r.path \in Paths /\ r \notin LatestOf(r.path, rows) /\ Id(r)[1] = r.path /\ Id(r)[2] = r.version
      BY <1>0, <1>1, IdFacts DEF Superseded, Row
    <2>2. PICK s \in LatestOf(r.path, rows) : s \in rows /\ s.path = r.path /\ \A t \in rows : t.path = r.path => t.version <= s.version
      BY <1>0, <2>1, LatestExists
    <2>3. PICK t \in rows : t.path = r.path /\ ~(t.version <= r.version)
      BY <2>1 DEF LatestOf
    <2>4. t.version <= s.version /\ t.version \in Int /\ s.version \in Int /\ r.version \in Int
      BY <1>0, <2>1, <2>2, <2>3, IdFacts
    <2>5. s \notin Superseded
      BY <2>2 DEF Superseded
    <2>6. \A q \in rows' : Id(q) # Id(r)
      BY <1>0, <1>1, <2>1 DEF IdsDiffer
    <2> QED
      BY <1>0, <2>1, <2>2, <2>3, <2>4, <2>5, <2>6
  <1>7. PassHolds'
    BY <1>1, <1>3, <1>6 DEF PassHolds
  <1> QED
    BY <1>0, <1>4, <1>5, <1>7 DEF StorageIInv, PayloadsStand

\* It deletes a payload: of a row that is gone, or of one it does not know.
LEMMA DeleteStep ==
    ASSUME StorageIInv, NEW id \in Ids, DeletePayload(id) \/ DeleteOrphan(id)
    PROVE  StorageIInv'
  <1>0. /\ StorageTypes /\ IdsDiffer /\ PutStands /\ PassHolds /\ PayloadsStand /\ rows \subseteq Row /\ recorder.pending \subseteq Row
        /\ id \in pass.ids /\ pass.pc \in {"payloads", "delete"} /\ UNCHANGED <<rows, recorder, troubles>>
        /\ objects' = [objects EXCEPT ![id] = NoPayload] /\ pass' = [pass EXCEPT !.ids = pass.ids \ {id}]
    BY DEF StorageIInv, StorageTypes, DeletePayload, DeleteOrphan
  <1>1. /\ pass'.pc = pass.pc /\ pass'.ids = pass.ids \ {id} /\ pass'.known = pass.known
        /\ pass' \in [pc : {"idle", "payloads", "list", "delete"}, ids : SUBSET Ids, known : SUBSET Ids]
    BY <1>0 DEF StorageTypes
  <1>2. objects' \in [Ids -> Payloads \cup {NoPayload}] /\ \A i \in Ids : i # id => objects'[i] = objects[i]
    BY <1>0 DEF StorageTypes
  <1>3. Seen' = Seen /\ Target' = Target /\ \A r \in Seen : r \in Row /\ Id(r) \in Ids
    BY <1>0, IdFacts DEF Seen, Target
  <1>4. StorageTypes'
    BY <1>0, <1>1, <1>2 DEF StorageTypes
  <1>5. IdsDiffer'
    BY <1>0, <1>3 DEF IdsDiffer
  <1>6. PassHolds'
    BY <1>0, <1>1, <1>3 DEF PassHolds
  <1>7. CASE pass.pc = "payloads"
    <2>1. (\A r \in Seen : Id(r) # id) /\ \E r \in rows : r.path = id[1] /\ id[2] < r.version
      BY <1>0, <1>7 DEF PassHolds
    <2>2. \A r \in Seen : objects'[Id(r)] = objects[Id(r)]
      BY <1>2, <1>3, <2>1
    <2>3. PayloadsStand'
      BY <1>0, <2>2 DEF PayloadsStand, Seen
    <2>4. recorder.put => Target # id
      <3>1. SUFFICES ASSUME recorder.put, Target = id PROVE FALSE
        OBVIOUS
      <3>2. PICK r \in rows : r.path = id[1] /\ id[2] < r.version
        BY <2>1
      <3>3. recorder.todo # <<>>
        BY <1>0, <3>1 DEF PutStands
      <3>4. r.version < id[2] /\ r.version \in Int
        BY <1>0, <3>1, <3>2, <3>3, TargetFacts, IdFacts DEF Seen
      <3>5. id[2] \in Int
        BY StorageAssumption DEF Ids
      <3> QED
        BY <3>2, <3>4, <3>5
    <2>5. PutStands'
      BY <1>0, <1>2, <1>3, <2>2, <2>4 DEF PutStands, Seen
    <2> QED
      BY <1>4, <1>5, <1>6, <2>3, <2>5 DEF StorageIInv
  <1>8. CASE pass.pc = "delete"
    <2>1. \A r \in rows : r.raced \/ Id(r) # id
      BY <1>0, <1>8 DEF PassHolds
    <2>2. PayloadsStand'
      BY <1>0, <1>2, <1>3, <2>1 DEF PayloadsStand, Seen
    <2>3. recorder.overlap = recorder.active
      BY <1>0, <1>8 DEF PassHolds
    <2>4. PutStands'
      <3>1. CASE recorder.active
        <4>1. recorder.overlap /\ recorder'.overlap /\ recorder' = recorder
          BY <1>0, <2>3, <3>1
        <4>2. recorder.put => recorder.todo # <<>> /\ Target' \in Ids
          BY <1>0, <1>3 DEF PutStands
        <4> QED
          BY <4>1, <4>2 DEF PutStands
      <3>2. CASE ~recorder.active
        <4>1. recorder' = recorder /\ recorder = NotRecording
          BY <1>0, <3>2 DEF IdsDiffer
        <4>2. recorder'.pending = {} /\ recorder'.put = FALSE
          BY <4>1 DEF NotRecording
        <4> QED
          BY <4>2 DEF PutStands
      <3> QED
        BY <3>1, <3>2
    <2> QED
      BY <1>4, <1>5, <1>6, <2>2, <2>4 DEF StorageIInv
  <1> QED
    BY <1>0, <1>7, <1>8

\* It reads the known ids, then lists the objects.
LEMMA ReadStep ==
    ASSUME StorageIInv, ReadKnown
    PROVE  StorageIInv'
  <1>0. /\ StorageTypes /\ IdsDiffer /\ PutStands /\ PayloadsStand /\ rows \subseteq Row
        /\ pass' = [pass EXCEPT !.pc = "list", !.known = {Id(r) : r \in rows}]
        /\ recorder' = [recorder EXCEPT !.overlap = recorder.active] /\ UNCHANGED <<rows, objects, troubles>>
    BY DEF StorageIInv, StorageTypes, ReadKnown
  <1>1. {Id(r) : r \in rows} \in SUBSET Ids
    BY <1>0, IdFacts
  <1>2. /\ pass'.pc = "list" /\ pass'.known = {Id(r) : r \in rows}
        /\ pass' \in [pc : {"idle", "payloads", "list", "delete"}, ids : SUBSET Ids, known : SUBSET Ids]
    BY <1>0, <1>1 DEF StorageTypes
  <1>3. /\ recorder'.active = recorder.active /\ recorder'.pending = recorder.pending /\ recorder'.put = recorder.put
        /\ recorder'.overlap = recorder.active /\ recorder'.todo = recorder.todo
        /\ recorder' \in [active : BOOLEAN, todo : Seq(Item), pending : SUBSET Row, put : BOOLEAN, overlap : BOOLEAN]
    BY <1>0 DEF StorageTypes
  <1>4. Seen' = Seen /\ Target' = Target
    BY <1>0, <1>3 DEF Seen, Target
  <1>5. StorageTypes'
    BY <1>0, <1>2, <1>3 DEF StorageTypes
  <1>6. CASE recorder.active
    <2>1. IdsDiffer' /\ PutStands'
      BY <1>0, <1>3, <1>4, <1>6 DEF IdsDiffer, PutStands
    <2>2. PassHolds'
      BY <1>0, <1>2, <1>3 DEF PassHolds
    <2> QED
      BY <1>0, <1>5, <2>1, <2>2 DEF StorageIInv, PayloadsStand
  <1>7. CASE ~recorder.active
    <2>1. recorder = NotRecording
      BY <1>0, <1>7 DEF IdsDiffer
    <2>2. recorder' = NotRecording
      BY <1>0, <2>1 DEF NotRecording
    <2>3. recorder.pending = {} /\ ~recorder.put
      BY <2>1 DEF NotRecording
    <2>4. IdsDiffer' /\ PutStands'
      BY <1>0, <1>3, <1>4, <2>2, <2>3 DEF IdsDiffer, PutStands
    <2>5. PassHolds'
      BY <1>0, <1>2, <1>3 DEF PassHolds
    <2> QED
      BY <1>0, <1>5, <2>4, <2>5 DEF StorageIInv, PayloadsStand
  <1> QED
    BY <1>6, <1>7

LEMMA ListStep ==
    ASSUME StorageIInv, ListIds \/ PassEnds
    PROVE  StorageIInv'
  <1>0. StorageTypes /\ IdsDiffer /\ PutStands /\ PassHolds /\ PayloadsStand /\ UNCHANGED <<rows, objects, recorder>>
    BY DEF StorageIInv, ListIds, PassEnds
  <1>1. Seen' = Seen /\ Target' = Target
    BY <1>0 DEF Seen, Target
  <1>2. IdsDiffer' /\ PutStands' /\ PayloadsStand'
    BY <1>0, <1>1 DEF IdsDiffer, PutStands, PayloadsStand
  <1>3. CASE PassEnds
    <2>1. pass' = [pc |-> "idle", ids |-> {}, known |-> {}]
      BY <1>3 DEF PassEnds, NoPass
    <2>2. pass'.pc = "idle" /\ pass' \in [pc : {"idle", "payloads", "list", "delete"}, ids : SUBSET Ids, known : SUBSET Ids]
      BY <2>1
    <2> QED
      BY <1>0, <1>2, <2>2 DEF StorageIInv, StorageTypes, PassHolds
  <1>4. CASE ListIds
    <2> DEFINE orphans == {i \in Ids : objects[i] # NoPayload} \ pass.known
    <2>1. pass.pc = "list" /\ pass' = [pass EXCEPT !.pc = "delete", !.ids = orphans]
      BY <1>4 DEF ListIds
    <2>2. orphans \in SUBSET Ids /\ orphans \cap pass.known = {}
      OBVIOUS
    <2> HIDE DEF orphans
    <2>3. /\ pass'.pc = "delete" /\ pass'.ids = orphans
          /\ pass' \in [pc : {"idle", "payloads", "list", "delete"}, ids : SUBSET Ids, known : SUBSET Ids]
      BY <1>0, <2>1, <2>2 DEF StorageTypes
    <2>4. PassHolds'
      BY <1>0, <2>1, <2>2, <2>3 DEF PassHolds
    <2> QED
      BY <1>0, <1>2, <2>3, <2>4 DEF StorageIInv, StorageTypes
  <1> QED
    BY <1>3, <1>4

\* Every version in the database can be read, for any number of paths, versions,
\* batches and failures, unless a clean-up overlapped its transaction (record,
\* delete_older_than, cleanup_orphans).
THEOREM PayloadsAreReadable == StorageSpec => []PayloadsStand
  <1>1. StorageInit => StorageIInv
    <2> SUFFICES ASSUME StorageInit PROVE StorageIInv
      OBVIOUS
    <2>1. /\ recorder = [active |-> FALSE, todo |-> <<>>, pending |-> {}, put |-> FALSE, overlap |-> FALSE]
          /\ pass = [pc |-> "idle", ids |-> {}, known |-> {}] /\ rows = {} /\ objects = [i \in Ids |-> NoPayload]
      BY DEF StorageInit, NotRecording, NoPass
    <2>2. /\ recorder.pending = {} /\ ~recorder.put /\ pass.pc = "idle"
          /\ recorder \in [active : BOOLEAN, todo : Seq(Item), pending : SUBSET Row, put : BOOLEAN, overlap : BOOLEAN]
          /\ pass \in [pc : {"idle", "payloads", "list", "delete"}, ids : SUBSET Ids, known : SUBSET Ids]
      BY <2>1
    <2>3. recorder = NotRecording
      BY DEF StorageInit
    <2>4. StorageTypes
      BY <2>1, <2>2 DEF StorageTypes
    <2>5. IdsDiffer /\ PutStands /\ PassHolds /\ PayloadsStand
      BY <2>1, <2>2, <2>3 DEF IdsDiffer, PutStands, PassHolds, PayloadsStand, Seen
    <2> QED
      BY <2>4, <2>5 DEF StorageIInv
  <1>2. StorageIInv /\ [StorageStep]_storageVars => StorageIInv'
    <2> SUFFICES ASSUME StorageIInv, [StorageStep]_storageVars PROVE StorageIInv'
      OBVIOUS
    <2>1. CASE UNCHANGED storageVars
      BY <2>1 DEF storageVars, StorageIInv, StorageTypes, IdsDiffer, PutStands, PassHolds, PayloadsStand, Seen, Target
    <2>2. CASE StorageStep
      BY <2>2, BeginRecordStep, SkipStep, PutStep, InsertStep, RollbackStep, CommitRecordStep, GrowOldStep,
         DeleteOldStep, DeleteStep, ReadStep, ListStep DEF StorageStep
    <2> QED
      BY <2>1, <2>2
  <1>3. StorageIInv => PayloadsStand
    BY DEF StorageIInv
  <1> QED
    BY <1>1, <1>2, <1>3, PTL DEF StorageSpec

=============================================================================
