---------------------------- MODULE Orion_proofs ----------------------------
(***************************************************************************)
(* Orion's feedback pipeline, for any number of streams, messages, domains *)
(* and starts, whatever the thresholds of a flush are.                     *)
(***************************************************************************)
EXTENDS Orion, FiniteSetTheorems, SequenceTheorems, TLAPS

EventRow    == [msg : Messages, quarantined : BOOLEAN, payload : BOOLEAN]
Categories  == {m.cat : m \in Messages} \cup {"__invalid__"}
FeedbackRow == [msg : Messages, quarantined : BOOLEAN, cat : Categories]
AnExample   == [task : Tasks, src : {"event", "signal", "training"}, verified : BOOLEAN]
Local == [at : {"idle", "handle", "curate", "append", "mark", "flush", "ack", "quarantine", "extract", "signals"},
          batch : Seq(Messages), rows : SUBSET Tasks, ids : SUBSET Tasks, dom : Domains \cup {None},
          version : Nat, signals : SUBSET (Categories \X Domains)]

Types ==
    /\ service \in {"down", "unlink", "up"} /\ boots \in 0..MaxBoots /\ legacy \in BOOLEAN
    /\ Log \in [Streams -> Seq(Messages)] /\ taken \in [Streams -> Nat]
    /\ pel \subseteq [msg : Messages, consumer : 1..MaxBoots]
    /\ mode \in [Streams -> {"pending", "live"}] /\ co \in [Coroutines -> Local]
    /\ events \in [Tasks -> EventRow \cup {None}] /\ curated \subseteq Tasks
    /\ feedback \in Seq(FeedbackRow)
    /\ buffer \in [Domains -> Seq(AnExample)] /\ files \in [Domains -> Seq(Seq(AnExample))]
    /\ trainer \in [at : {"idle", "write"}, rows : SUBSET Tasks, dom : Domains \cup {None}, version : Nat]
    /\ gone \subseteq AnExample

\* A message is on one stream, and what was delivered is on it.
LogHolds ==
    /\ \A r, s \in Streams : \A i \in 1..Len(Log[r]), j \in 1..Len(Log[s]) : Log[r][i] = Log[s][j] => r = s /\ i = j
    /\ \A s \in Streams : taken[s] <= Len(Log[s])
    /\ service # "down" => boots # 0

\* ingest's gate: a row is in the name of its task, and one that is not
\* quarantined comes from an execution that did not fail or from a person.
EventsHold ==
    \A t \in Tasks : events[t] # None =>
        /\ events[t].msg.task = t
        /\ ~events[t].quarantined => events[t].msg.verified \/ events[t].msg.execution \notin FailedExecutions

\* The query's gate.
Fit(t) ==
    /\ events[t] # None /\ ~events[t].quarantined
    /\ events[t].msg.verified \/ (events[t].msg.confidence >= 90 /\ events[t].msg.outcome = "success")

Curable(t) == Fit(t) /\ DeriveDomain(events[t].msg) \in Domains

Everywhere == InBuffers \cup InFiles \cup gone

Accounted(t) == \E e \in Everywhere : e.src = "event" /\ e.task = t

\* What a coroutine has read of the rows stays true, and it marks what it appended.
CuratorHolds(c) ==
    /\ \A t \in co[c].rows : Curable(t)
    /\ co[c].at = "mark" => co[c].dom \in Domains /\ \A t \in co[c].ids : Accounted(t)
    /\ co[c].at = "flush" => co[c].dom \in Domains /\ co[c].version # 0

\* The handler of a message has ended.
Handled(s, m) ==
    \/ m \in broken
    \/ s \in RefineryStreams /\ (~m.valid \/ ~Registered(m) \/ events[m.task] # None)
    \/ s \notin RefineryStreams /\ \E j \in 1..Len(feedback) : feedback[j].msg = m

\* A listener acknowledges what it has handled.
ListenerHolds(s) ==
    /\ \A i \in 1..Len(co[s].batch) : \E j \in 1..Len(Log[s]) : co[s].batch[i] = Log[s][j]
    /\ co[s].at # "idle" => co[s].batch # <<>>
    /\ co[s].at \notin {"idle", "handle"} => Handled(s, Head(co[s].batch))
    /\ co[s].at = "quarantine" => co[s].version \in 1..Len(feedback)

\* Both gates, for what is in the dataset of a domain.
Trained(d) == Range(buffer[d]) \cup UNION {Range(files[d][v]) : v \in 1..Len(files[d])}
DataHolds == \A d \in Domains : \A e \in Trained(d) : e.src = "event" => Fit(e.task) /\ DeriveDomain(events[e.task].msg) = d

TrainerHolds ==
    trainer.at = "write" =>
        trainer.dom \in Domains /\ trainer.version # 0 /\ \A t \in trainer.rows : events[t] # None

OrionIInv ==
    /\ Types /\ LogHolds /\ EventsHold /\ DataHolds /\ CuratedAccounted /\ AckedIsStored /\ TrainerHolds
    /\ \A c \in Coroutines : CuratorHolds(c)
    /\ \A s \in Streams : ListenerHolds(s)

-----------------------------------------------------------------------------
(* Lemmas on sequences and finite sets.                                     *)

LEMMA SeqFacts ==
    ASSUME NEW S, NEW s \in Seq(S)
    PROVE  Len(s) \in Nat /\ DOMAIN s = 1..Len(s) /\ \A n \in 1..Len(s) : s[n] \in S
  OBVIOUS

LEMMA RangeFacts ==
    ASSUME NEW S, NEW s \in Seq(S)
    PROVE  Range(s) \subseteq S /\ \A e : e \in Range(s) <=> \E i \in 1..Len(s) : s[i] = e
  BY SeqFacts DEF Range

LEMMA RangeConcat ==
    ASSUME NEW S, NEW s \in Seq(S), NEW t \in Seq(S)
    PROVE  s \o t \in Seq(S) /\ Range(s \o t) = Range(s) \cup Range(t)
  <1>1. s \o t \in Seq(S)
    OBVIOUS
  <1>2. \A e : e \in Range(s \o t) <=> \E i \in 1..Len(s \o t) : (s \o t)[i] = e
    BY <1>1, RangeFacts
  <1>3. (\A e : e \in Range(s) <=> \E i \in 1..Len(s) : s[i] = e) /\ \A e : e \in Range(t) <=> \E i \in 1..Len(t) : t[i] = e
    BY RangeFacts
  <1>4. /\ Len(s) \in Nat /\ Len(t) \in Nat /\ Len(s \o t) = Len(s) + Len(t)
        /\ \A i \in 1..Len(s) : (s \o t)[i] = s[i]
        /\ \A i \in 1..Len(t) : (s \o t)[Len(s) + i] = t[i]
    BY ConcatProperties
  <1>5. ASSUME NEW e, e \in Range(s \o t) PROVE e \in Range(s) \cup Range(t)
    <2>1. PICK i \in 1..Len(s \o t) : (s \o t)[i] = e
      BY <1>2, <1>5
    <2>2. CASE i <= Len(s)
      <3>1. i \in 1..Len(s) /\ s[i] = e
        BY <1>4, <2>1, <2>2
      <3> QED
        BY <1>3, <3>1
    <2>3. CASE ~(i <= Len(s))
      <3>1. PICK k \in 1..Len(t) : i = Len(s) + k
        <4>1. i - Len(s) \in 1..Len(t) /\ i = Len(s) + (i - Len(s))
          BY <1>4, <2>1, <2>3
        <4> QED
          BY <4>1
      <3>2. t[k] = e
        BY <1>4, <2>1, <3>1
      <3> QED
        BY <1>3, <3>2
    <2> QED
      BY <2>2, <2>3
  <1>6. ASSUME NEW e, e \in Range(s) PROVE e \in Range(s \o t)
    <2>1. PICK i \in 1..Len(s) : s[i] = e
      BY <1>3, <1>6
    <2>2. i \in 1..Len(s \o t) /\ (s \o t)[i] = e
      BY <1>4, <2>1
    <2> QED
      BY <1>2, <2>2
  <1>7. ASSUME NEW e, e \in Range(t) PROVE e \in Range(s \o t)
    <2>1. PICK i \in 1..Len(t) : t[i] = e
      BY <1>3, <1>7
    <2>2. PICK k \in 1..Len(s \o t) : k = Len(s) + i
      BY <1>4, <2>1
    <2>3. (s \o t)[k] = e
      BY <1>4, <2>1, <2>2
    <2> QED
      BY <1>2, <2>3
  <1> QED
    BY <1>1, <1>5, <1>6, <1>7

\* SetToSeq lists a finite set.
LEMMA SetToSeqFacts ==
    ASSUME NEW S, IsFiniteSet(S)
    PROVE  SetToSeq(S) \in Seq(S) /\ Range(SetToSeq(S)) = S /\ Len(SetToSeq(S)) = Cardinality(S)
  <1> DEFINE n == Cardinality(S)
  <1>1. n \in Nat /\ ExistsBijection(1..n, S)
    BY FS_CardinalityType
  <1>2. \E f \in [1..n -> S] : IsInjective(f)
    BY <1>1 DEF ExistsBijection, Bijection, Injection
  <1>3. PICK f : f = SetToSeq(S)
    OBVIOUS
  <1>4. f \in [1..n -> S] /\ IsInjective(f)
    BY <1>2, <1>3 DEF SetToSeq
  <1>5. IsFiniteSet(1..n) /\ Cardinality(1..n) = n
    <2>1. 1 \in Int /\ n \in Int
      BY <1>1
    <2>2. IsFiniteSet(1..n) /\ Cardinality(1..n) = IF 1 > n THEN 0 ELSE n - 1 + 1
      BY <2>1, FS_Interval
    <2> QED
      BY <1>1, <2>2
  <1> HIDE DEF n
  <1>6. f \in Injection(1..n, S)
    BY <1>4 DEF Injection
  <1>7. f \in Surjection(1..n, S)
    BY <1>5, <1>6, FS_Injection DEF n
  <1>8. f \in Seq(S) /\ Len(f) = n
    BY <1>1, <1>4
  <1>9. Range(f) = S
    BY <1>4, <1>7 DEF Range, Surjection
  <1> QED
    BY <1>3, <1>8, <1>9 DEF n

LEMMA TasksFinite == IsFiniteSet(Tasks)
  <1> DEFINE f == [m \in Messages |-> m.task]
  <1>1. f \in Surjection(Messages, Tasks)
    <2>1. f \in [Messages -> Tasks]
      BY DEF Tasks
    <2>2. \A t \in Tasks : \E m \in Messages : f[m] = t
      BY DEF Tasks
    <2> QED
      BY <2>1, <2>2 DEF Surjection
  <1> QED
    BY <1>1, OrionAssumption, FS_Surjection

-----------------------------------------------------------------------------
(* Lemmas on messages, rows and examples.                                   *)

LEMMA MessageFacts ==
    ASSUME NEW m \in Messages
    PROVE  m.task \in Tasks /\ m.verified \in BOOLEAN /\ m.valid \in BOOLEAN /\ m.known \in BOOLEAN
  <1>1. m \in [task : STRING, agent : STRING, family : STRING, known : BOOLEAN, valid : BOOLEAN,
               outcome : STRING, confidence : Nat, execution : STRING, verified : BOOLEAN,
               corrected : BOOLEAN, hash : STRING, cat : STRING, id : Nat]
    BY OrionAssumption
  <1>2. m.verified \in BOOLEAN /\ m.valid \in BOOLEAN /\ m.known \in BOOLEAN
    BY <1>1
  <1> QED
    BY <1>2 DEF Tasks

\* The example made from a message, as it is or as it is read back.
LEMMA ExampleFacts ==
    ASSUME NEW m \in Messages, NEW src \in {"event", "signal", "training"}
    PROVE  /\ Example(m, src) \in AnExample /\ Example(m, src).src = src /\ Example(m, src).task = m.task
           /\ Example([m EXCEPT !.verified = FALSE], src) \in AnExample
           /\ Example([m EXCEPT !.verified = FALSE], src).src = src
  <1>1. m.task \in Tasks /\ m.verified \in BOOLEAN
    BY MessageFacts
  <1>2. [m EXCEPT !.verified = FALSE].task = m.task /\ [m EXCEPT !.verified = FALSE].verified = FALSE
    <2>1. m \in [task : STRING, agent : STRING, family : STRING, known : BOOLEAN, valid : BOOLEAN,
                 outcome : STRING, confidence : Nat, execution : STRING, verified : BOOLEAN,
                 corrected : BOOLEAN, hash : STRING, cat : STRING, id : Nat]
      BY OrionAssumption
    <2> QED
      BY <2>1
  <1>3. ASSUME NEW x \in Tasks, NEW v \in BOOLEAN
        PROVE  [task |-> x, src |-> src, verified |-> v] \in AnExample
    BY DEF AnExample
  <1> QED
    BY <1>1, <1>2, <1>3 DEF Example

\* new holds the examples that f makes of the rows I, all from one source.
Makes(f, I, new, src) ==
    /\ \A i \in I : f[i] \in new /\ f[i] \in AnExample /\ f[i].src = src
    /\ \A e \in new : \E i \in I : f[i] = e

LEMMA Examples ==
    ASSUME NEW I, IsFiniteSet(I), NEW f, NEW src, NEW new, Makes(f, I, new, src)
    PROVE  /\ IsFiniteSet(new) /\ SetToSeq(new) \in Seq(AnExample) /\ Range(SetToSeq(new)) = new
           /\ \A e \in new : e \in AnExample /\ e.src = src
  <1> DEFINE g == [i \in I |-> f[i]]
  <1>1. g \in Surjection(I, new)
    BY DEF Surjection, Makes
  <1>2. IsFiniteSet(new)
    BY <1>1, FS_Surjection
  <1>3. SetToSeq(new) \in Seq(new) /\ Range(SetToSeq(new)) = new
    BY <1>2, SetToSeqFacts
  <1>4. \A e \in new : e \in AnExample /\ e.src = src
    BY DEF Makes
  <1>5. SetToSeq(new) \in Seq(AnExample)
    BY <1>3, <1>4
  <1> QED
    BY <1>2, <1>3, <1>4, <1>5

\* A row of the events table.
LEMMA EventFacts ==
    ASSUME Types, NEW t \in Tasks, events[t] # None
    PROVE  /\ events[t] \in EventRow /\ events[t].msg \in Messages
           /\ events[t].quarantined \in BOOLEAN /\ events[t].payload \in BOOLEAN
  <1>1. events[t] \in EventRow
    BY DEF Types
  <1> QED
    BY <1>1 DEF EventRow

\* Rows of the feedback table keep their messages.
LEMMA FeedbackFacts ==
    ASSUME Types, NEW i \in 1..Len(feedback)
    PROVE  feedback[i] \in FeedbackRow /\ feedback[i].msg \in Messages /\ feedback[i].cat \in Categories
  <1>1. feedback[i] \in FeedbackRow
    BY SeqFacts DEF Types
  <1> QED
    BY <1>1 DEF FeedbackRow

-----------------------------------------------------------------------------
(* What a step leaves true.                                                 *)

\* Rows and marks are never taken back, and an example that was anywhere is
\* somewhere.
Steady ==
    /\ \A t \in Tasks : events[t] # None => events'[t] = events[t]
    /\ Len(feedback) <= Len(feedback') /\ \A i \in 1..Len(feedback) : feedback'[i].msg = feedback[i].msg
    /\ Everywhere \subseteq Everywhere' /\ broken \subseteq broken' /\ Log' = Log

LEMMA SteadySame ==
    ASSUME Types, UNCHANGED <<events, feedback, buffer, files, gone, broken, Log>>
    PROVE  Steady
  <1>1. Len(feedback) \in Nat
    BY DEF Types
  <1> QED
    BY <1>1 DEF Steady, Everywhere, InBuffers, InFiles

LEMMA FitKept ==
    ASSUME Steady, NEW t \in Tasks, Fit(t)
    PROVE  Fit(t)' /\ events'[t] = events[t]
  BY DEF Steady, Fit

LEMMA CurableKept ==
    ASSUME Steady, NEW t \in Tasks, Curable(t)
    PROVE  Curable(t)' /\ events'[t] = events[t]
  <1>1. Fit(t)' /\ events'[t] = events[t]
    BY FitKept DEF Curable
  <1> QED
    BY <1>1 DEF Curable, DeriveDomain

LEMMA HandledKept ==
    ASSUME Types, Types', Steady, NEW s, NEW m \in Messages, Handled(s, m)
    PROVE  Handled(s, m)'
  <1>1. m.task \in Tasks
    BY MessageFacts
  <1>2. Len(feedback) \in Nat /\ Len(feedback') \in Nat
    BY DEF Types
  <1>3. events[m.task] # None => events'[m.task] # None
    BY <1>1 DEF Steady
  <1>4. ASSUME NEW j \in 1..Len(feedback), feedback[j].msg = m PROVE \E i \in 1..Len(feedback') : feedback'[i].msg = m
    <2>1. j \in 1..Len(feedback') /\ feedback'[j].msg = m
      BY <1>2, <1>4 DEF Steady
    <2> QED
      BY <2>1
  <1> QED
    BY <1>3, <1>4 DEF Handled, Registered, Steady

LEMMA CuratorKept ==
    ASSUME Types, Steady, NEW c \in Coroutines, co'[c] = co[c], CuratorHolds(c)
    PROVE  CuratorHolds(c)'
  <1>1. co[c] \in Local
    BY DEF Types
  <1>2. co[c].rows \subseteq Tasks
    BY <1>1 DEF Local
  <1>3. \A t : Accounted(t) => Accounted(t)'
    BY DEF Accounted, Steady
  <1>4. \A t \in co'[c].rows : Curable(t)'
    BY <1>2, CurableKept DEF CuratorHolds
  <1> QED
    BY <1>3, <1>4 DEF CuratorHolds

LEMMA ListenerKept ==
    ASSUME Types, Types', Steady, NEW s \in Streams, co'[s] = co[s], ListenerHolds(s)
    PROVE  ListenerHolds(s)'
  <1>1. co[s] \in Local
    BY DEF Types, Coroutines
  <1>2. co[s].batch \in Seq(Messages)
    BY <1>1 DEF Local
  <1>3. co[s].at \notin {"idle", "handle"} => Handled(s, Head(co[s].batch))'
    <2>1. SUFFICES ASSUME co[s].at \notin {"idle", "handle"} PROVE Handled(s, Head(co[s].batch))'
      OBVIOUS
    <2>2. co[s].batch # <<>> /\ Handled(s, Head(co[s].batch))
      BY <2>1 DEF ListenerHolds
    <2>3. Head(co[s].batch) \in Messages
      BY <1>2, <2>2
    <2>4. PICK m \in Messages : m = Head(co[s].batch)
      BY <2>3
    <2>5. Handled(s, m)'
      BY <2>2, <2>4, HandledKept
    <2>6. m = Head(co'[s].batch)
      BY <2>4
    <2> QED
      BY <2>5, <2>6 DEF Handled
  <1>4. Len(feedback) \in Nat /\ Len(feedback') \in Nat
    <2>1. feedback \in Seq(FeedbackRow) /\ feedback' \in Seq(FeedbackRow)
      BY DEF Types
    <2> QED
      BY <2>1, LenProperties
  <1>5. co[s].at = "quarantine" => co'[s].version \in 1..Len(feedback')
    BY <1>4 DEF Steady, ListenerHolds
  <1>6. Log' = Log
    BY DEF Steady
  <1> QED
    BY <1>3, <1>5, <1>6 DEF ListenerHolds

\* What is in a domain's dataset.
LEMMA TrainedType ==
    ASSUME Types, NEW d \in Domains
    PROVE  /\ Trained(d) \subseteq AnExample /\ buffer[d] \in Seq(AnExample) /\ files[d] \in Seq(Seq(AnExample))
           /\ \A v \in 1..Len(files[d]) : files[d][v] \in Seq(AnExample)
  <1>1. buffer[d] \in Seq(AnExample) /\ files[d] \in Seq(Seq(AnExample))
    BY DEF Types
  <1>2. \A v \in 1..Len(files[d]) : files[d][v] \in Seq(AnExample)
    BY <1>1, SeqFacts
  <1>3. Range(buffer[d]) \subseteq AnExample
    BY <1>1, RangeFacts
  <1>4. \A v \in 1..Len(files[d]) : Range(files[d][v]) \subseteq AnExample
    BY <1>2, RangeFacts
  <1> QED
    BY <1>1, <1>2, <1>3, <1>4 DEF Trained

LEMMA DataKept ==
    ASSUME Types, Steady, DataHolds, UNCHANGED <<buffer, files>>
    PROVE  DataHolds'
  <1>1. ASSUME NEW d \in Domains, NEW e \in Trained(d), e.src = "event"
        PROVE  Fit(e.task)' /\ DeriveDomain(events'[e.task].msg) = d
    <2>1. Fit(e.task) /\ DeriveDomain(events[e.task].msg) = d
      BY <1>1 DEF DataHolds
    <2>2. e \in AnExample
      BY TrainedType
    <2>3. e.task \in Tasks
      BY <2>2 DEF AnExample
    <2> QED
      BY <2>1, <2>3, FitKept
  <1>2. \A d \in Domains : Trained(d)' = Trained(d)
    BY DEF Trained
  <1> QED
    BY <1>1, <1>2 DEF DataHolds, DeriveDomain

\* Acknowledged messages have been handled.
LEMMA AckedAs ==
    AckedIsStored <=> \A s \in Streams : \A i \in 1..taken[s] : (\A p \in pel : p.msg # Log[s][i]) => Handled(s, Log[s][i])
  BY Zenon DEF AckedIsStored, Handled

LEMMA Kept ==
    ASSUME OrionIInv, Types', Steady
    PROVE  /\ UNCHANGED <<taken, service, boots>> => LogHolds'
           /\ events' = events => EventsHold'
           /\ UNCHANGED <<buffer, files>> => DataHolds'
           /\ curated' = curated => CuratedAccounted'
           /\ UNCHANGED <<pel, taken>> => AckedIsStored'
           /\ trainer' = trainer => TrainerHolds'
  <1>0. Log' = Log /\ Types
    BY DEF Steady, OrionIInv
  <1>1. UNCHANGED <<taken, service, boots>> => LogHolds'
    BY <1>0 DEF OrionIInv, LogHolds
  <1>2. events' = events => EventsHold'
    BY DEF OrionIInv, EventsHold
  <1>3. UNCHANGED <<buffer, files>> => DataHolds'
    BY DataKept DEF OrionIInv
  <1>4. curated' = curated => CuratedAccounted'
    <2>1. CuratedAccounted /\ Everywhere \subseteq Everywhere'
      BY DEF Steady, OrionIInv
    <2> QED
      BY <2>1 DEF CuratedAccounted, Everywhere
  <1>5. UNCHANGED <<pel, taken>> => AckedIsStored'
    <2> SUFFICES ASSUME UNCHANGED <<pel, taken>>, NEW s \in Streams, NEW i \in 1..taken[s], \A p \in pel : p.msg # Log[s][i]
                 PROVE  Handled(s, Log[s][i])'
      BY <1>0 DEF AckedIsStored, Handled
    <2>1. Handled(s, Log[s][i])
      BY AckedAs DEF OrionIInv
    <2>2. Log[s] \in Seq(Messages) /\ taken[s] \in Nat /\ taken[s] <= Len(Log[s])
      BY <1>0 DEF Types, OrionIInv, LogHolds
    <2>3. Log[s][i] \in Messages
      BY <2>2
    <2>4. PICK m \in Messages : m = Log[s][i]
      BY <2>3
    <2>5. Handled(s, m)'
      BY <1>0, <2>1, <2>4, HandledKept
    <2>6. m = Log'[s][i]
      BY <1>0, <2>4
    <2> QED
      BY <2>5, <2>6 DEF Handled
  <1>6. trainer' = trainer => TrainerHolds'
    <2>1. trainer \in [at : {"idle", "write"}, rows : SUBSET Tasks, dom : Domains \cup {None}, version : Nat]
      BY <1>0 DEF Types
    <2>2. trainer.rows \subseteq Tasks
      BY <2>1
    <2>3. \A t \in trainer.rows : events[t] # None => events'[t] # None
      BY <2>2 DEF Steady
    <2> QED
      BY <2>3 DEF OrionIInv, TrainerHolds
  <1> QED
    BY <1>1, <1>2, <1>3, <1>4, <1>5, <1>6

\* One coroutine moves and the others wait.
LEMMA OneMoves ==
    ASSUME OrionIInv, Types', Steady, NEW c \in Coroutines, \A o \in Coroutines \ {c} : co'[o] = co[o],
           CuratorHolds(c)', c \in Streams => ListenerHolds(c)',
           LogHolds', EventsHold', DataHolds', CuratedAccounted', AckedIsStored', TrainerHolds'
    PROVE  OrionIInv'
  <1>1. \A o \in Coroutines : CuratorHolds(o)'
    BY CuratorKept DEF OrionIInv
  <1>2. \A s \in Streams : ListenerHolds(s)'
    <2>1. \A s \in Streams : s \in Coroutines
      BY DEF Coroutines
    <2> QED
      BY <2>1, ListenerKept DEF OrionIInv
  <1> QED
    BY <1>1, <1>2 DEF OrionIInv

\* None moves.
LEMMA NoneMoves ==
    ASSUME OrionIInv, Types', Steady, co' = co,
           LogHolds', EventsHold', DataHolds', CuratedAccounted', AckedIsStored', TrainerHolds'
    PROVE  OrionIInv'
  <1>1. \A o \in Coroutines : CuratorHolds(o)'
    BY CuratorKept DEF OrionIInv
  <1>2. \A s \in Streams : ListenerHolds(s)'
    BY ListenerKept DEF OrionIInv
  <1> QED
    BY <1>1, <1>2 DEF OrionIInv

At == {"idle", "handle", "curate", "append", "mark", "flush", "ack", "quarantine", "extract", "signals"}

\* The local state of a coroutine.
LEMMA LocalFacts ==
    ASSUME Types, NEW c \in Coroutines
    PROVE  /\ co[c] \in Local /\ co[c].at \in At /\ co[c].batch \in Seq(Messages) /\ co[c].rows \subseteq Tasks
           /\ co[c].ids \subseteq Tasks /\ co[c].dom \in Domains \cup {None} /\ co[c].version \in Nat
           /\ co[c].signals \in SUBSET (Categories \X Domains)
  <1>1. co[c] \in Local
    BY DEF Types
  <1> QED
    BY <1>1 DEF Local, At

\* It takes another value.
LEMMA LocalStep ==
    ASSUME Types, NEW c \in Coroutines, NEW r \in Local, co' = [co EXCEPT ![c] = r]
    PROVE  co' \in [Coroutines -> Local] /\ co'[c] = r /\ \A o \in Coroutines \ {c} : co'[o] = co[o]
  BY DEF Types

\* It goes elsewhere in its code.
LEMMA AtStep ==
    ASSUME Types, NEW c \in Coroutines, NEW a \in At, co' = [co EXCEPT ![c].at = a]
    PROVE  /\ co' \in [Coroutines -> Local] /\ \A o \in Coroutines \ {c} : co'[o] = co[o]
           /\ co'[c] \in Local /\ co'[c].at = a /\ co'[c].batch = co[c].batch /\ co'[c].rows = co[c].rows
           /\ co'[c].ids = co[c].ids /\ co'[c].dom = co[c].dom /\ co'[c].version = co[c].version
  <1>1. PICK r : r = [co[c] EXCEPT !.at = a]
    OBVIOUS
  <1>2. co' = [co EXCEPT ![c] = r]
    BY <1>1
  <1>3. co[c] \in Local
    BY DEF Types
  <1>4. /\ r \in Local /\ r.at = a /\ r.batch = co[c].batch /\ r.rows = co[c].rows
        /\ r.ids = co[c].ids /\ r.dom = co[c].dom /\ r.version = co[c].version
    BY <1>1, <1>3 DEF Local, At
  <1>5. co' \in [Coroutines -> Local] /\ co'[c] = r /\ \A o \in Coroutines \ {c} : co'[o] = co[o]
    BY <1>2, <1>4, LocalStep
  <1> QED
    BY <1>4, <1>5

LEMMA IdleFacts ==
    /\ Idle \in Local /\ Idle.at = "idle" /\ Idle.batch = <<>> /\ Idle.rows = {} /\ Idle.ids = {} /\ Idle.dom = None
    /\ Idle.version = 0 /\ Idle.signals = {}
  BY DEF Idle, Local

-----------------------------------------------------------------------------
(* The steps.                                                               *)

\* A coroutine moves and no table changes.
LEMMA QuietMove ==
    ASSUME OrionIInv, NEW c \in Coroutines, co' \in [Coroutines -> Local], \A o \in Coroutines \ {c} : co'[o] = co[o],
           mode' \in [Streams -> {"pending", "live"}],
           UNCHANGED <<service, boots, legacy, Log, taken, pel, events, curated, feedback, buffer, files, trainer, gone, broken>>,
           Types' /\ Steady => CuratorHolds(c)' /\ (c \in Streams => ListenerHolds(c)')
    PROVE  OrionIInv'
  <1>0. Types
    BY DEF OrionIInv
  <1>1. Types'
    BY <1>0 DEF Types
  <1>2. Steady
    BY <1>0, SteadySame
  <1>3. LogHolds' /\ EventsHold' /\ DataHolds' /\ CuratedAccounted' /\ AckedIsStored' /\ TrainerHolds'
    BY <1>1, <1>2, Kept
  <1> QED
    BY <1>1, <1>2, <1>3, OneMoves

\* A coroutine that is neither marking nor flushing keeps the rows it read.
LEMMA CuratorMoves ==
    ASSUME Types, Steady, NEW c \in Coroutines, CuratorHolds(c), co'[c].rows \subseteq co[c].rows,
           co'[c].at \notin {"mark", "flush"}
    PROVE  CuratorHolds(c)'
  <1>1. co[c].rows \subseteq Tasks
    BY LocalFacts
  <1> QED
    BY <1>1, CurableKept DEF CuratorHolds

\* A listener that has handled its message goes on with it.
LEMMA ListenerMoves ==
    ASSUME Types, Types', Steady, NEW s \in Streams, ListenerHolds(s), co'[s].batch = co[s].batch,
           co[s].at \notin {"idle", "handle"}, co'[s].at # "quarantine"
    PROVE  ListenerHolds(s)'
  <1>1. co[s].batch \in Seq(Messages) /\ co[s].batch # <<>> /\ Handled(s, Head(co[s].batch))
    BY LocalFacts DEF Coroutines, ListenerHolds
  <1>2. PICK m \in Messages : m = Head(co[s].batch)
    BY <1>1
  <1>3. Handled(s, m)'
    BY <1>1, <1>2, HandledKept
  <1>4. Handled(s, Head(co[s].batch))'
    <2>1. m = Head(co'[s].batch)
      BY <1>2
    <2> QED
      BY <1>3, <2>1 DEF Handled
  <1>5. Log' = Log
    BY DEF Steady
  <1> QED
    BY <1>1, <1>4, <1>5 DEF ListenerHolds

\* A listener that begins on messages of its stream.
LEMMA ListenerFresh ==
    ASSUME NEW s \in Streams, co'[s].at \in {"idle", "handle"}, co'[s].at = "handle" => co'[s].batch # <<>>,
           \A i \in 1..Len(co'[s].batch) : \E j \in 1..Len(Log'[s]) : co'[s].batch[i] = Log'[s][j]
    PROVE  ListenerHolds(s)'
  BY DEF ListenerHolds

LEMMA ReadPendingStep ==
    ASSUME OrionIInv, NEW s \in Streams, ReadPending(s)
    PROVE  OrionIInv'
  <1> DEFINE own == OwnPending(s)
  <1>0. Types /\ s \in Coroutines /\ CuratorHolds(s) /\ ListenerHolds(s)
    BY DEF OrionIInv, Coroutines
  <1>1. /\ mode' \in [Streams -> {"pending", "live"}] /\ co[s].at = "idle"
        /\ co' = IF own = {} THEN co ELSE [co EXCEPT ![s].at = "handle", ![s].batch = SetToSeq(own)]
        /\ UNCHANGED <<service, boots, legacy, Log, taken, pel, events, curated, feedback, buffer, files, trainer, gone, broken>>
    <2>1. mode' = [mode EXCEPT ![s] = IF Cardinality(own) < BatchSize THEN "live" ELSE mode[s]]
      BY DEF ReadPending
    <2>2. mode' \in [Streams -> {"pending", "live"}]
      BY <1>0, <2>1 DEF Types
    <2> QED
      BY <2>2 DEF ReadPending, dataVars, ghostVars
  <1>2. own \subseteq Messages /\ \A m \in own : m \in Range(Log[s])
    BY <1>0 DEF OwnPending, Types
  <1>3. Log[s] \in Seq(Messages)
    BY <1>0 DEF Types
  <1> HIDE DEF own
  <1>4. SetToSeq(own) \in Seq(own) /\ Range(SetToSeq(own)) = own
    <2>1. IsFiniteSet(own)
      BY <1>2, OrionAssumption, FS_Subset
    <2> QED
      BY <2>1, SetToSeqFacts
  <1>5. CASE own = {}
    BY <1>0, <1>1, <1>5, QuietMove, CuratorKept, ListenerKept DEF Types
  <1>6. CASE own # {}
    <2>1. PICK b : b = SetToSeq(own)
      OBVIOUS
    <2>2. /\ b \in Seq(Messages) /\ b # <<>>
          /\ \A i \in 1..Len(b) : \E j \in 1..Len(Log[s]) : b[i] = Log[s][j]
      <3>1. b \in Seq(own) /\ Range(b) = own
        BY <1>4, <2>1
      <3>2. b \in Seq(Messages)
        BY <1>2, <3>1
      <3>3. b # <<>>
        BY <1>6, <3>1 DEF Range
      <3>4. \A i \in 1..Len(b) : b[i] \in Range(Log[s])
        BY <1>2, <3>1, SeqFacts
      <3> QED
        BY <1>3, <3>2, <3>3, <3>4, RangeFacts
    <2>3. PICK r : r = [co[s] EXCEPT !.at = "handle", !.batch = b]
      OBVIOUS
    <2>4. r \in Local /\ r.at = "handle" /\ r.batch = b /\ r.rows = co[s].rows
      BY <1>0, <2>2, <2>3, LocalFacts DEF Local
    <2>5. co' = [co EXCEPT ![s] = r]
      BY <1>1, <1>6, <2>1, <2>3
    <2>6. co' \in [Coroutines -> Local] /\ co'[s] = r /\ \A o \in Coroutines \ {s} : co'[o] = co[o]
      BY <1>0, <2>4, <2>5, LocalStep
    <2>7. ASSUME Steady PROVE CuratorHolds(s)'
      BY <1>0, <2>4, <2>6, <2>7, CuratorMoves
    <2>8. ListenerHolds(s)'
      <3>1. Log' = Log /\ co'[s].at = "handle" /\ co'[s].batch = b
        BY <1>1, <2>4, <2>6
      <3>2. \A i \in 1..Len(co'[s].batch) : \E j \in 1..Len(Log'[s]) : co'[s].batch[i] = Log'[s][j]
        BY <2>2, <3>1
      <3> QED
        BY <2>2, <3>1, <3>2, ListenerFresh
    <2> QED
      BY <1>0, <1>1, <2>6, <2>7, <2>8, QuietMove
  <1> QED
    BY <1>5, <1>6

\* The rows that qualify are read.
LEMMA ReadUncuratedStep ==
    ASSUME OrionIInv, NEW c \in Coroutines, ReadUncurated(c)
    PROVE  OrionIInv'
  <1> DEFINE found == {t \in Uncurated : DeriveDomain(events[t].msg) \in Domains}
             a == IF found = {} THEN AfterCuration(c) ELSE "append"
  <1>0. Types /\ CuratorHolds(c) /\ (c \in Streams => ListenerHolds(c)) /\ co[c].at = "curate"
    BY DEF OrionIInv, ReadUncurated
  <1>1. /\ co' = [co EXCEPT ![c].rows = found, ![c].at = a]
        /\ UNCHANGED <<service, boots, legacy, Log, taken, pel, mode, events, curated, feedback, buffer, files, trainer, gone, broken>>
    BY DEF ReadUncurated, logVars, dataVars, ghostVars
  <1>2. found \subseteq Tasks /\ \A t \in found : Curable(t)
    BY DEF Uncurated, Fit, Curable
  <1>3. a \in {"extract", "ack", "append"}
    BY DEF AfterCuration
  <1> HIDE DEF found, a
  <1>4. PICK r : r = [co[c] EXCEPT !.rows = found, !.at = a]
    OBVIOUS
  <1>5. r \in Local /\ r.at = a /\ r.batch = co[c].batch /\ r.rows = found
    BY <1>0, <1>2, <1>3, <1>4, LocalFacts DEF Local
  <1>6. co' = [co EXCEPT ![c] = r]
    BY <1>1, <1>4
  <1>7. co' \in [Coroutines -> Local] /\ co'[c] = r /\ \A o \in Coroutines \ {c} : co'[o] = co[o]
    BY <1>0, <1>5, <1>6, LocalStep
  <1>8. ASSUME Steady PROVE CuratorHolds(c)'
    <2>1. \A t \in found : Curable(t)'
      BY <1>2, <1>8, CurableKept
    <2> QED
      BY <1>3, <1>5, <1>7, <2>1 DEF CuratorHolds
  <1>9. ASSUME Types', Steady, c \in Streams PROVE ListenerHolds(c)'
    BY <1>0, <1>3, <1>5, <1>7, <1>9, ListenerMoves
  <1> QED
    BY <1>0, <1>1, <1>7, <1>8, <1>9, QuietMove DEF Types

\* The extraction cycle begins, reads the categories, or fails.
LEMMA CycleMoves ==
    ASSUME OrionIInv, StartCycle \/ Extract \/ CycleFails
    PROVE  OrionIInv'
  <1>0. Types /\ "cycle" \in Coroutines /\ CuratorHolds("cycle") /\ "cycle" \notin Streams
    BY OrionAssumption DEF OrionIInv, Coroutines
  <1>1. UNCHANGED <<service, boots, legacy, Log, taken, pel, mode, events, curated, feedback, buffer, files, trainer, gone, broken>>
    BY DEF StartCycle, Extract, CycleFails, logVars, dataVars, ghostVars
  <1>2. /\ co' \in [Coroutines -> Local] /\ \A o \in Coroutines \ {"cycle"} : co'[o] = co[o]
        /\ co'["cycle"].rows \subseteq co["cycle"].rows /\ co'["cycle"].at \notin {"mark", "flush"}
    <2>1. CASE StartCycle
      <3>1. co' = [co EXCEPT !["cycle"].at = "curate"]
        BY <2>1 DEF StartCycle
      <3> QED
        BY <1>0, <3>1, AtStep DEF At
    <2>2. CASE CycleFails
      <3>1. co' = [co EXCEPT !["cycle"] = Idle]
        BY <2>2 DEF CycleFails
      <3> QED
        BY <1>0, <3>1, LocalStep, IdleFacts
    <2>3. CASE Extract
      <3>1. PICK r : r = IF Signals = {} THEN Idle ELSE [Idle EXCEPT !.at = "signals", !.signals = Signals]
        OBVIOUS
      <3>2. co' = [co EXCEPT !["cycle"] = r]
        BY <2>3, <3>1 DEF Extract
      <3>3. Signals \in SUBSET (Categories \X Domains)
        BY <1>0, FeedbackFacts DEF Signals
      <3>4. r \in Local /\ r.rows = {} /\ r.at \in {"idle", "signals"}
        BY <3>1, <3>3, IdleFacts DEF Local
      <3> QED
        BY <1>0, <3>2, <3>4, LocalStep
    <2> QED
      BY <2>1, <2>2, <2>3
  <1>3. ASSUME Steady PROVE CuratorHolds("cycle")'
    BY <1>0, <1>2, <1>3, CuratorMoves
  <1> QED
    BY <1>0, <1>1, <1>2, <1>3, QuietMove DEF Types

\* New messages are delivered: each is now pending.
LEMMA ReadLiveStep ==
    ASSUME OrionIInv, NEW s \in Streams, ReadLive(s)
    PROVE  OrionIInv'
  <1>0. Types /\ s \in Coroutines /\ CuratorHolds(s) /\ LogHolds /\ service = "up" /\ boots \in 1..MaxBoots
    <2>1. Types /\ s \in Coroutines /\ CuratorHolds(s) /\ LogHolds /\ service = "up"
      BY DEF OrionIInv, Coroutines, ReadLive, LoopFree
    <2>2. boots \in 0..MaxBoots /\ boots # 0 /\ MaxBoots \in Nat
      BY <2>1, OrionAssumption DEF Types, LogHolds
    <2> QED
      BY <2>1, <2>2
  <1>1. PICK n \in 1..BatchSize :
           /\ taken[s] + n <= Len(Log[s]) /\ Take(s, n)
           /\ co' = [co EXCEPT ![s].at = "handle", ![s].batch = SubSeq(Log[s], taken[s] + 1, taken[s] + n)]
    BY DEF ReadLive
  <1>2. UNCHANGED <<service, boots, legacy, Log, mode, events, curated, feedback, buffer, files, trainer, gone, broken>>
    BY DEF ReadLive, dataVars, ghostVars
  <1>3. Log[s] \in Seq(Messages) /\ taken[s] \in Nat /\ n \in Nat /\ n >= 1 /\ Len(Log[s]) \in Nat
    BY <1>0, OrionAssumption DEF Types
  <1>4. PICK b : b = SubSeq(Log[s], taken[s] + 1, taken[s] + n)
    OBVIOUS
  <1>5. /\ b \in Seq(Messages) /\ Len(b) = n /\ \A i \in 1..n : b[i] = Log[s][taken[s] + i]
    <2>1. PICK l \in Seq(Messages), k \in Nat : l = Log[s] /\ k = taken[s]
      BY <1>3
    <2>2. k + n <= Len(l) /\ b = SubSeq(l, k + 1, k + n) /\ n \in Nat /\ n >= 1 /\ Len(l) \in Nat
      BY <1>1, <1>3, <1>4, <2>1
    <2>3. \A i \in (k + 1)..(k + n) : l[i] \in Messages
      <3>1. \A i \in (k + 1)..(k + n) : i \in 1..Len(l)
        BY <2>2
      <3> QED
        BY <2>1, <3>1, ElementOfSeq
    <2>4. PICK x \in Int, y \in Int : x = k + 1 /\ y = k + n
      BY <2>1, <2>2
    <2>5. /\ b \in Seq(Messages) /\ Len(b) = IF x <= y THEN y - x + 1 ELSE 0
          /\ \A i \in 1..(y - x + 1) : b[i] = l[x + i - 1]
      BY <2>2, <2>3, <2>4, SubSeqProperties
    <2>6. Len(b) = n /\ y - x + 1 = n
      <3>1. k \in Nat /\ n \in Nat /\ n >= 1
        BY <2>1, <2>2
      <3>2. x <= y /\ y - x + 1 = n
        BY <2>4, <3>1
      <3> QED
        BY <2>5, <3>2
    <2>7. \A i \in 1..n : b[i] = l[k + i]
      <3> SUFFICES ASSUME NEW i \in 1..n PROVE b[i] = l[k + i]
        OBVIOUS
      <3>1. x + i - 1 = k + i
        BY <2>1, <2>2, <2>4
      <3> QED
        BY <2>5, <2>6, <3>1
    <2> QED
      BY <2>1, <2>5, <2>6, <2>7
  <1>6. PICK r : r = [co[s] EXCEPT !.at = "handle", !.batch = b]
    OBVIOUS
  <1>7. r \in Local /\ r.at = "handle" /\ r.batch = b /\ r.rows = co[s].rows
    BY <1>0, <1>5, <1>6, LocalFacts DEF Local
  <1>8. co' = [co EXCEPT ![s] = r]
    BY <1>1, <1>4, <1>6
  <1>9. co' \in [Coroutines -> Local] /\ co'[s] = r /\ \A o \in Coroutines \ {s} : co'[o] = co[o]
    BY <1>0, <1>7, <1>8, LocalStep
  <1>10. /\ taken' = [taken EXCEPT ![s] = taken[s] + n]
         /\ pel' = pel \cup {[msg |-> Log[s][i], consumer |-> boots] : i \in (taken[s] + 1)..(taken[s] + n)}
    BY <1>1 DEF Take
  <1>11. /\ taken' \in [Streams -> Nat] /\ taken'[s] = taken[s] + n
         /\ \A o \in Streams \ {s} : taken'[o] = taken[o]
    BY <1>0, <1>3, <1>10 DEF Types
  <1>12. /\ pel' \subseteq [msg : Messages, consumer : 1..MaxBoots] /\ pel \subseteq pel'
         /\ \A i \in (taken[s] + 1)..(taken[s] + n) : \E p \in pel' : p.msg = Log[s][i]
    <2>1. \A i \in (taken[s] + 1)..(taken[s] + n) : Log[s][i] \in Messages
      BY <1>1, <1>3
    <2>2. \A i \in (taken[s] + 1)..(taken[s] + n) :
             /\ [msg |-> Log[s][i], consumer |-> boots] \in [msg : Messages, consumer : 1..MaxBoots]
             /\ [msg |-> Log[s][i], consumer |-> boots].msg = Log[s][i]
      BY <1>0, <2>1
    <2>3. pel \subseteq [msg : Messages, consumer : 1..MaxBoots]
      BY <1>0 DEF Types
    <2>4. PICK new : new = {[msg |-> Log[s][i], consumer |-> boots] : i \in (taken[s] + 1)..(taken[s] + n)}
      OBVIOUS
    <2>5. new \subseteq [msg : Messages, consumer : 1..MaxBoots]
      BY <2>2, <2>4
    <2>6. \A i \in (taken[s] + 1)..(taken[s] + n) : \E p \in new : p.msg = Log[s][i]
      BY <2>2, <2>4
    <2>7. pel' = pel \cup new
      BY <1>10, <2>4
    <2> QED
      BY <2>3, <2>5, <2>6, <2>7
  <1>13. Types'
    BY <1>0, <1>2, <1>9, <1>11, <1>12 DEF Types
  <1>14. Steady
    BY <1>0, <1>2, SteadySame
  <1>15. EventsHold' /\ DataHolds' /\ CuratedAccounted' /\ TrainerHolds'
    BY <1>2, <1>13, <1>14, Kept
  <1>16. LogHolds'
    BY <1>0, <1>1, <1>2, <1>11 DEF LogHolds
  <1>17. AckedIsStored'
    <2> SUFFICES ASSUME NEW o \in Streams, NEW i \in 1..taken'[o], \A p \in pel' : p.msg # Log[o][i]
                 PROVE  Handled(o, Log[o][i])'
      BY <1>2 DEF AckedIsStored, Handled
    <2>1. i \in 1..taken[o]
      <3>1. CASE o = s
        <4>1. ~(i \in (taken[s] + 1)..(taken[s] + n))
          BY <1>12, <3>1
        <4> QED
          BY <1>3, <1>11, <3>1, <4>1
      <3>2. CASE o # s
        BY <1>11, <3>2
      <3> QED
        BY <3>1, <3>2
    <2>2. Handled(o, Log[o][i])
      BY <1>12, <2>1, AckedAs DEF OrionIInv
    <2> QED
      BY <1>2, <2>2 DEF Handled
  <1>18. CuratorHolds(s)'
    BY <1>0, <1>7, <1>9, <1>14, CuratorMoves
  <1>19. ListenerHolds(s)'
    <2>1. Log' = Log /\ co'[s].at = "handle" /\ co'[s].batch = b /\ b # <<>>
      BY <1>2, <1>3, <1>5, <1>7, <1>9
    <2>2. \A i \in 1..Len(co'[s].batch) : \E j \in 1..Len(Log'[s]) : co'[s].batch[i] = Log'[s][j]
      <3> SUFFICES ASSUME NEW i \in 1..Len(b) PROVE \E j \in 1..Len(Log[s]) : b[i] = Log[s][j]
        BY <2>1
      <3>1. taken[s] + i \in 1..Len(Log[s]) /\ b[i] = Log[s][taken[s] + i]
        BY <1>1, <1>3, <1>5
      <3> QED
        BY <3>1
    <2> QED
      BY <2>1, <2>2, ListenerFresh
  <1> QED
    BY <1>0, <1>9, <1>13, <1>14, <1>15, <1>16, <1>17, <1>18, <1>19, OneMoves

\* The step of a listener that has a message in hand.
LEMMA HeadFacts ==
    ASSUME OrionIInv, NEW s \in Streams, co[s].at # "idle"
    PROVE  /\ co[s].batch \in Seq(Messages) /\ co[s].batch # <<>> /\ Head(co[s].batch) \in Messages
           /\ \E j \in 1..Len(Log[s]) : Head(co[s].batch) = Log[s][j]
           /\ Tail(co[s].batch) \in Seq(Messages)
           /\ \A i \in 1..Len(Tail(co[s].batch)) : \E j \in 1..Len(Log[s]) : Tail(co[s].batch)[i] = Log[s][j]
  <1>1. ListenerHolds(s) /\ Types /\ s \in Coroutines
    BY DEF OrionIInv, Coroutines
  <1>2. co[s].batch \in Seq(Messages) /\ co[s].batch # <<>>
    BY <1>1, LocalFacts DEF ListenerHolds
  <1>3. PICK b \in Seq(Messages) : b = co[s].batch /\ b # <<>>
    BY <1>2
  <1>4. \A i \in 1..Len(b) : \E j \in 1..Len(Log[s]) : b[i] = Log[s][j]
    BY <1>1, <1>3 DEF ListenerHolds
  <1>5. /\ Head(b) \in Messages /\ Tail(b) \in Seq(Messages) /\ Head(b) = b[1] /\ 1 \in 1..Len(b)
        /\ \A i \in 1..Len(Tail(b)) : i + 1 \in 1..Len(b) /\ Tail(b)[i] = b[i + 1]
    BY <1>3
  <1> QED
    BY <1>3, <1>4, <1>5

\* A message is acknowledged or its acknowledgement fails; the next one follows.
LEMMA NextMessage ==
    ASSUME OrionIInv, NEW s \in Streams, co[s].at = "ack",
           co' = [co EXCEPT ![s] = IF Tail(co[s].batch) = <<>> THEN Idle
                                   ELSE [Idle EXCEPT !.at = "handle", !.batch = Tail(co[s].batch)]],
           Log' = Log, Steady
    PROVE  /\ co' \in [Coroutines -> Local] /\ \A o \in Coroutines \ {s} : co'[o] = co[o]
           /\ CuratorHolds(s)' /\ ListenerHolds(s)'
  <1>0. Types /\ s \in Coroutines /\ CuratorHolds(s)
    BY DEF OrionIInv, Coroutines
  <1>1. PICK b \in Seq(Messages) : b = Tail(co[s].batch) /\ \A i \in 1..Len(b) : \E j \in 1..Len(Log[s]) : b[i] = Log[s][j]
    BY HeadFacts
  <1>2. PICK r : r = IF b = <<>> THEN Idle ELSE [Idle EXCEPT !.at = "handle", !.batch = b]
    OBVIOUS
  <1>3. r \in Local /\ r.rows = {} /\ r.batch = b /\ r.at = IF b = <<>> THEN "idle" ELSE "handle"
    BY <1>1, <1>2, IdleFacts DEF Local
  <1>4. co' = [co EXCEPT ![s] = r]
    BY <1>1, <1>2
  <1>5. co' \in [Coroutines -> Local] /\ co'[s] = r /\ \A o \in Coroutines \ {s} : co'[o] = co[o]
    BY <1>0, <1>3, <1>4, LocalStep
  <1>6. co'[s].rows = {} /\ co'[s].batch = b /\ co'[s].at = IF b = <<>> THEN "idle" ELSE "handle"
    BY <1>3, <1>5
  <1>7. CuratorHolds(s)'
    BY <1>0, <1>6, CuratorMoves
  <1>8. ListenerHolds(s)'
    <2>1. \A i \in 1..Len(co'[s].batch) : \E j \in 1..Len(Log'[s]) : co'[s].batch[i] = Log'[s][j]
      BY <1>1, <1>6
    <2>2. co'[s].at \in {"idle", "handle"} /\ (co'[s].at = "handle" => co'[s].batch # <<>>)
      BY <1>6
    <2> QED
      BY <2>1, <2>2, ListenerFresh
  <1> QED
    BY <1>5, <1>7, <1>8

LEMMA AckFailsStep ==
    ASSUME OrionIInv, NEW s \in Streams, AckFails(s)
    PROVE  OrionIInv'
  <1>0. Types /\ s \in Coroutines /\ co[s].at = "ack"
    BY DEF OrionIInv, Coroutines, AckFails
  <1>1. UNCHANGED <<service, boots, legacy, Log, taken, pel, mode, events, curated, feedback, buffer, files, trainer, gone, broken>>
    BY DEF AckFails, logVars, dataVars
  <1>2. Steady
    BY <1>0, <1>1, SteadySame
  <1>3. (Len(co[s].batch) = 1) <=> (Tail(co[s].batch) = <<>>)
    <2>1. co[s].batch \in Seq(Messages) /\ co[s].batch # <<>>
      BY <1>0, HeadFacts
    <2>2. PICK b \in Seq(Messages) : b = co[s].batch /\ b # <<>>
      BY <2>1
    <2>3. Len(b) \in Nat /\ Len(b) # 0 /\ Tail(b) \in Seq(Messages) /\ Len(Tail(b)) = Len(b) - 1
      BY <2>2
    <2>4. (Len(Tail(b)) = 0) <=> (Tail(b) = <<>>)
      BY <2>3, EmptySeq
    <2> QED
      BY <2>2, <2>3, <2>4
  <1>4. co' = [co EXCEPT ![s] = IF Tail(co[s].batch) = <<>> THEN Idle
                                ELSE [Idle EXCEPT !.at = "handle", !.batch = Tail(co[s].batch)]]
    BY <1>3 DEF AckFails
  <1>5. /\ co' \in [Coroutines -> Local] /\ \A o \in Coroutines \ {s} : co'[o] = co[o]
        /\ CuratorHolds(s)' /\ ListenerHolds(s)'
    BY <1>0, <1>1, <1>2, <1>4, NextMessage
  <1> QED
    BY <1>0, <1>1, <1>5, QuietMove DEF Types

LEMMA AckStep ==
    ASSUME OrionIInv, NEW s \in Streams, Ack(s)
    PROVE  OrionIInv'
  <1>0. Types /\ s \in Coroutines /\ co[s].at = "ack" /\ LogHolds /\ ListenerHolds(s)
    BY DEF OrionIInv, Coroutines, Ack
  <1>1. UNCHANGED <<service, boots, legacy, Log, taken, mode, events, curated, feedback, buffer, files, trainer, gone, broken>>
    BY DEF Ack, dataVars
  <1>2. Steady
    BY <1>0, <1>1, SteadySame
  <1>3. PICK m \in Messages : m = Head(co[s].batch)
    BY <1>0, HeadFacts
  <1>4. /\ pel' = {p \in pel : p.msg # m}
        /\ co' = [co EXCEPT ![s] = IF Tail(co[s].batch) = <<>> THEN Idle
                                   ELSE [Idle EXCEPT !.at = "handle", !.batch = Tail(co[s].batch)]]
    BY <1>3 DEF Ack
  <1>5. /\ co' \in [Coroutines -> Local] /\ \A o \in Coroutines \ {s} : co'[o] = co[o]
        /\ CuratorHolds(s)' /\ ListenerHolds(s)'
    BY <1>0, <1>1, <1>2, <1>4, NextMessage
  <1>6. Types'
    BY <1>0, <1>1, <1>4, <1>5 DEF Types
  <1>7. LogHolds' /\ EventsHold' /\ DataHolds' /\ CuratedAccounted' /\ TrainerHolds'
    BY <1>1, <1>2, <1>6, Kept
  <1>8. AckedIsStored'
    <2> SUFFICES ASSUME NEW o \in Streams, NEW i \in 1..taken[o], \A p \in pel' : p.msg # Log[o][i]
                 PROVE  Handled(o, Log[o][i])'
      BY <1>1 DEF AckedIsStored, Handled
    <2>1. CASE Log[o][i] = m
      <3>1. PICK j \in 1..Len(Log[s]) : m = Log[s][j]
        BY <1>0, <1>3, HeadFacts
      <3>2. i \in 1..Len(Log[o])
        BY <1>0 DEF LogHolds, Types
      <3>3. o = s
        BY <1>0, <2>1, <3>1, <3>2 DEF LogHolds
      <3>4. Handled(s, m)
        BY <1>0, <1>3 DEF ListenerHolds
      <3> QED
        BY <1>1, <2>1, <3>3, <3>4 DEF Handled
    <2>2. CASE Log[o][i] # m
      <3>1. \A p \in pel : p.msg # Log[o][i]
        BY <1>4, <2>2
      <3>2. Handled(o, Log[o][i])
        BY <3>1, AckedAs DEF OrionIInv
      <3> QED
        BY <1>1, <3>2 DEF Handled
    <2> QED
      BY <2>1, <2>2
  <1> QED
    BY <1>0, <1>2, <1>5, <1>6, <1>7, <1>8, OneMoves

\* The migration adds rows that come from successes.
LEMMA StartStep ==
    ASSUME OrionIInv, Start
    PROVE  OrionIInv'
  <1>0. Types /\ boots < MaxBoots /\ boots' = boots + 1 /\ MaxBoots \in Nat
    BY OrionAssumption DEF OrionIInv, Start
  <1>1. UNCHANGED <<legacy, Log, taken, pel, co, curated, feedback, buffer, files, trainer, gone, broken>>
    BY DEF Start, dataVars, ghostVars
  <1>2. mode' \in [Streams -> {"pending", "live"}] /\ service' \in {"unlink", "up"}
    BY DEF Start
  <1>3. boots' \in 0..MaxBoots /\ boots' # 0
    BY <1>0 DEF Types
  <1>4. /\ DOMAIN events' = Tasks /\ events' = [t \in Tasks |-> events'[t]]
        /\ \A t \in Tasks : events'[t] # events[t] =>
              /\ events[t] = None
              /\ \E m \in Legacy : m.task = t /\ events'[t] = [msg |-> m, quarantined |-> FALSE, payload |-> TRUE]
    <2>0. events \in [Tasks -> EventRow \cup {None}]
      BY <1>0 DEF Types
    <2>1. CASE legacy
      <3>1. events' = [t \in Tasks |->
                  IF events[t] = None /\ \E m \in Legacy : m.task = t
                  THEN [msg |-> CHOOSE m \in Legacy : m.task = t, quarantined |-> FALSE, payload |-> TRUE]
                  ELSE events[t]]
        BY <2>1 DEF Start
      <3>2. ASSUME NEW t \in Tasks, \E m \in Legacy : m.task = t
            PROVE  \E m \in Legacy : m.task = t /\ m = CHOOSE n \in Legacy : n.task = t
        BY <3>2, Zenon
      <3>3. ASSUME NEW t \in Tasks, events'[t] # events[t]
            PROVE  /\ events[t] = None
                   /\ \E m \in Legacy : m.task = t /\ events'[t] = [msg |-> m, quarantined |-> FALSE, payload |-> TRUE]
        <4>1. /\ events[t] = None /\ \E m \in Legacy : m.task = t
              /\ events'[t] = [msg |-> CHOOSE m \in Legacy : m.task = t, quarantined |-> FALSE, payload |-> TRUE]
          BY <3>1, <3>3
        <4>2. PICK m \in Legacy : m.task = t /\ m = CHOOSE n \in Legacy : n.task = t
          BY <3>2, <4>1
        <4> QED
          BY <4>1, <4>2
      <3> QED
        BY <3>1, <3>3
    <2>2. CASE ~legacy
      BY <2>0, <2>2 DEF Start
    <2> QED
      BY <2>1, <2>2
  <1>5. Legacy \subseteq Messages /\ \A m \in Legacy : m.execution \notin FailedExecutions
    BY OrionAssumption DEF Messages
  <1>6. ASSUME NEW t \in Tasks, events'[t] # events[t]
        PROVE  /\ events[t] = None /\ events'[t] \in EventRow /\ events'[t].msg.task = t
               /\ events'[t].msg.execution \notin FailedExecutions
    <2>1. PICK m \in Legacy : m.task = t /\ events'[t] = [msg |-> m, quarantined |-> FALSE, payload |-> TRUE]
      BY <1>4, <1>6
    <2>2. m \in Messages /\ m.execution \notin FailedExecutions
      BY <1>5, <2>1
    <2>3. events'[t].msg = m /\ events'[t] \in EventRow
      BY <2>1, <2>2 DEF EventRow
    <2> QED
      BY <1>4, <1>6, <2>1, <2>2, <2>3
  <1>7. events' \in [Tasks -> EventRow \cup {None}]
    <2>1. \A t \in Tasks : events'[t] \in EventRow \cup {None}
      BY <1>0, <1>6 DEF Types
    <2> QED
      BY <1>4, <2>1
  <1>8. Types'
    BY <1>0, <1>1, <1>2, <1>3, <1>7 DEF Types
  <1>9. Steady
    <2>1. Len(feedback) \in Nat
      BY <1>0 DEF Types
    <2> QED
      BY <1>1, <1>6, <2>1 DEF Steady, Everywhere, InBuffers, InFiles
  <1>10. LogHolds'
    BY <1>1, <1>3 DEF OrionIInv, LogHolds
  <1>11. EventsHold'
    <2> SUFFICES ASSUME NEW t \in Tasks, events'[t] # None
                 PROVE  /\ events'[t].msg.task = t
                        /\ ~events'[t].quarantined => events'[t].msg.verified \/ events'[t].msg.execution \notin FailedExecutions
      BY DEF EventsHold
    <2>1. CASE events'[t] = events[t]
      BY <2>1 DEF OrionIInv, EventsHold
    <2>2. CASE events'[t] # events[t]
      BY <1>6, <2>2
    <2> QED
      BY <2>1, <2>2
  <1>12. DataHolds' /\ CuratedAccounted' /\ AckedIsStored' /\ TrainerHolds'
    BY <1>1, <1>8, <1>9, Kept
  <1> QED
    BY <1>1, <1>8, <1>9, <1>10, <1>11, <1>12, NoneMoves

LEMMA UnlinkStep ==
    ASSUME OrionIInv, UnlinkLegacy
    PROVE  OrionIInv'
  <1>0. Types /\ service = "unlink" /\ service' = "up" /\ legacy' = FALSE
    BY DEF OrionIInv, UnlinkLegacy
  <1>1. UNCHANGED <<boots, Log, taken, pel, mode, co, events, curated, feedback, buffer, files, trainer, gone, broken>>
    BY DEF UnlinkLegacy, dataVars, ghostVars
  <1>2. Types'
    BY <1>0, <1>1 DEF Types
  <1>3. Steady
    BY <1>0, <1>1, SteadySame
  <1>4. LogHolds'
    BY <1>0, <1>1 DEF OrionIInv, LogHolds
  <1>5. EventsHold' /\ DataHolds' /\ CuratedAccounted' /\ AckedIsStored' /\ TrainerHolds'
    BY <1>1, <1>2, <1>3, Kept
  <1> QED
    BY <1>1, <1>2, <1>3, <1>4, <1>5, NoneMoves

\* The process dies and takes the buffers along.
LEMMA CrashStep ==
    ASSUME OrionIInv, Crash
    PROVE  OrionIInv'
  <1>0. Types /\ service' = "down" /\ gone' = gone \cup InBuffers /\ buffer' = [d \in Domains |-> <<>>]
        /\ co' = [c \in Coroutines |-> Idle]
        /\ trainer' = [trainer EXCEPT !.at = "idle", !.rows = {}, !.dom = None, !.version = 0]
    BY DEF OrionIInv, Crash, InBuffers
  <1>1. UNCHANGED <<boots, legacy, Log, taken, pel, mode, events, curated, feedback, files, broken>>
    BY DEF Crash, logVars
  <1>2. InBuffers \subseteq AnExample
    <2>1. \A d \in Domains : Range(buffer[d]) \subseteq AnExample
      BY <1>0, RangeFacts DEF Types
    <2> QED
      BY <2>1 DEF InBuffers
  <1>3. trainer' \in [at : {"idle", "write"}, rows : SUBSET Tasks, dom : Domains \cup {None}, version : Nat] /\ trainer'.at = "idle"
    <2>1. trainer \in [at : {"idle", "write"}, rows : SUBSET Tasks, dom : Domains \cup {None}, version : Nat]
      BY <1>0 DEF Types
    <2>2. PICK r : r = [trainer EXCEPT !.at = "idle", !.rows = {}, !.dom = None, !.version = 0]
      OBVIOUS
    <2>3. r \in [at : {"idle", "write"}, rows : SUBSET Tasks, dom : Domains \cup {None}, version : Nat] /\ r.at = "idle"
      BY <2>1, <2>2
    <2> QED
      BY <1>0, <2>2, <2>3
  <1>4. co' \in [Coroutines -> Local] /\ buffer' \in [Domains -> Seq(AnExample)]
    BY <1>0, IdleFacts
  <1>5. Types'
    BY <1>0, <1>1, <1>2, <1>3, <1>4 DEF Types
  <1>6. Steady
    <2>1. Len(feedback) \in Nat
      BY <1>0 DEF Types
    <2>2. Everywhere \subseteq Everywhere'
      BY <1>0, <1>1 DEF Everywhere, InFiles
    <2> QED
      BY <1>1, <2>1, <2>2 DEF Steady
  <1>7. LogHolds'
    BY <1>0, <1>1 DEF OrionIInv, LogHolds
  <1>8. EventsHold' /\ CuratedAccounted' /\ AckedIsStored'
    BY <1>1, <1>5, <1>6, Kept
  <1>9. TrainerHolds'
    BY <1>3 DEF TrainerHolds
  <1>10. DataHolds'
    <2>1. ASSUME NEW d \in Domains PROVE Trained(d)' \subseteq Trained(d)
      <3>1. Range(buffer'[d]) = {}
        BY <1>0 DEF Range
      <3> QED
        BY <1>1, <3>1 DEF Trained
    <2> QED
      BY <1>1, <2>1 DEF OrionIInv, DataHolds, Fit, DeriveDomain
  <1>11. ASSUME NEW c \in Coroutines PROVE CuratorHolds(c)'
    <2>1. co'[c].rows = {} /\ co'[c].at = "idle"
      BY <1>0, IdleFacts
    <2> QED
      BY <2>1 DEF CuratorHolds
  <1>12. ASSUME NEW s \in Streams PROVE ListenerHolds(s)'
    <2>1. co'[s].batch = <<>> /\ co'[s].at = "idle"
      BY <1>0, IdleFacts DEF Coroutines
    <2>2. \A i \in 1..Len(co'[s].batch) : \E j \in 1..Len(Log'[s]) : co'[s].batch[i] = Log'[s][j]
      BY <2>1
    <2> QED
      BY <2>1, <2>2, ListenerFresh
  <1> QED
    BY <1>5, <1>7, <1>8, <1>9, <1>10, <1>11, <1>12 DEF OrionIInv

\* A listener's message has just been handled.
LEMMA ListenerDone ==
    ASSUME OrionIInv, Steady, NEW s \in Streams, co[s].at # "idle", co'[s].batch = co[s].batch,
           NEW m, m = Head(co[s].batch), Handled(s, m)', co'[s].at = "quarantine" => co'[s].version \in 1..Len(feedback')
    PROVE  ListenerHolds(s)'
  <1>1. ListenerHolds(s) /\ Log' = Log
    BY DEF OrionIInv, Steady
  <1>2. co[s].batch # <<>>
    BY HeadFacts
  <1>3. m = Head(co'[s].batch)
    OBVIOUS
  <1>4. Handled(s, Head(co[s].batch))'
    BY <1>3 DEF Handled
  <1> QED
    BY <1>1, <1>2, <1>4 DEF ListenerHolds

\* An event becomes a row, quarantined unless it is eligible.
LEMMA ProcessRefineryStep ==
    ASSUME OrionIInv, NEW s \in Streams, ProcessRefineryEvent(s)
    PROVE  OrionIInv'
  <1>0. Types /\ s \in Coroutines /\ co[s].at = "handle" /\ s \in RefineryStreams /\ CuratorHolds(s)
    BY DEF OrionIInv, Coroutines, ProcessRefineryEvent
  <1>1. UNCHANGED <<service, boots, legacy, Log, taken, pel, mode, curated, feedback, buffer, files, trainer, gone, broken>>
    BY DEF ProcessRefineryEvent, logVars, dataVars, ghostVars
  <1>2. PICK m \in Messages : m = Head(co[s].batch)
    BY <1>0, HeadFacts
  <1>3. m.task \in Tasks
    BY MessageFacts
  <1>4. PICK row : row = [msg |-> m, quarantined |-> ~Eligible(m), payload |-> FALSE]
    OBVIOUS
  <1>5. row \in EventRow /\ row.msg = m /\ (~row.quarantined => m.verified \/ m.execution \notin FailedExecutions)
    <2>1. (~Eligible(m)) \in BOOLEAN
      BY Zenon
    <2>2. PICK q \in BOOLEAN : q = ~Eligible(m)
      BY <2>1, Zenon
    <2>3. row = [msg |-> m, quarantined |-> q, payload |-> FALSE]
      BY <1>4, <2>2, Zenon
    <2>4. row \in EventRow /\ row.msg = m /\ row.quarantined = q
      BY <2>3 DEF EventRow
    <2>5. ~q => m.verified \/ m.execution \notin FailedExecutions
      BY <2>2, Zenon DEF Eligible
    <2> QED
      BY <2>4, <2>5
  <1>6. /\ events' = events \/ (events[m.task] = None /\ events' = [events EXCEPT ![m.task] = row])
        /\ events'[m.task] # None \/ ~m.valid \/ ~Registered(m)
        /\ \E a \in {"curate", "ack"} : co' = [co EXCEPT ![s].at = a]
    <2>1. CASE m.valid /\ Registered(m)
      <3>1. events' = IF events[m.task] = None THEN [events EXCEPT ![m.task] = row] ELSE events
        BY <1>2, <1>4, <2>1, Zenon DEF ProcessRefineryEvent, AppendEvent
      <3>2. row # None
        BY <1>5, OrionAssumption DEF EventRow
      <3>3. events \in [Tasks -> EventRow \cup {None}]
        BY <1>0 DEF Types
      <3>4. PICK a : a = IF Eligible(m) THEN "curate" ELSE "ack"
        OBVIOUS
      <3>5. co' = [co EXCEPT ![s].at = a]
        BY <1>2, <2>1, <3>4 DEF ProcessRefineryEvent
      <3>6. events'[m.task] # None
        BY <1>3, <3>1, <3>2, <3>3
      <3> QED
        BY <3>1, <3>4, <3>5, <3>6
    <2>2. CASE ~(m.valid /\ Registered(m))
      BY <1>2, <2>2 DEF ProcessRefineryEvent
    <2> QED
      BY <2>1, <2>2
  <1>7. events' \in [Tasks -> EventRow \cup {None}]
    BY <1>0, <1>5, <1>6 DEF Types
  <1>8. \A t \in Tasks : events'[t] = events[t] \/ (t = m.task /\ events[t] = None /\ events'[t] = row)
    BY <1>0, <1>6 DEF Types
  <1>9. PICK a \in {"curate", "ack"} : co' = [co EXCEPT ![s].at = a]
    BY <1>6
  <1>10. /\ co' \in [Coroutines -> Local] /\ \A o \in Coroutines \ {s} : co'[o] = co[o]
         /\ co'[s].at = a /\ co'[s].batch = co[s].batch /\ co'[s].rows = co[s].rows
    BY <1>0, <1>9, AtStep DEF At
  <1>11. Types'
    BY <1>0, <1>1, <1>7, <1>10 DEF Types
  <1>12. Steady
    <2>1. Len(feedback) \in Nat
      BY <1>0 DEF Types
    <2> QED
      BY <1>1, <1>8, <2>1 DEF Steady, Everywhere, InBuffers, InFiles
  <1>13. EventsHold'
    <2> SUFFICES ASSUME NEW t \in Tasks, events'[t] # None
                 PROVE  /\ events'[t].msg.task = t
                        /\ ~events'[t].quarantined => events'[t].msg.verified \/ events'[t].msg.execution \notin FailedExecutions
      BY DEF EventsHold
    <2>1. CASE events'[t] = events[t]
      BY <2>1 DEF OrionIInv, EventsHold
    <2>2. CASE events'[t] = row /\ t = m.task
      BY <1>5, <2>2
    <2> QED
      BY <1>8, <2>1, <2>2
  <1>14. LogHolds' /\ DataHolds' /\ CuratedAccounted' /\ AckedIsStored' /\ TrainerHolds'
    BY <1>1, <1>11, <1>12, Kept
  <1>15. Handled(s, m)'
    BY <1>0, <1>6 DEF Handled, Registered
  <1>16. ListenerHolds(s)'
    BY <1>0, <1>2, <1>9, <1>10, <1>12, <1>15, ListenerDone
  <1>17. CuratorHolds(s)'
    BY <1>0, <1>9, <1>10, <1>12, CuratorMoves
  <1> QED
    BY <1>0, <1>10, <1>11, <1>12, <1>13, <1>14, <1>16, <1>17, OneMoves

\* The feedback table takes a row.
LEMMA ProcessFeedbackStep ==
    ASSUME OrionIInv, NEW s \in Streams, ProcessFeedback(s)
    PROVE  OrionIInv'
  <1>0. Types /\ s \in Coroutines /\ co[s].at = "handle" /\ s \notin RefineryStreams /\ CuratorHolds(s)
    BY DEF OrionIInv, Coroutines, ProcessFeedback
  <1>1. UNCHANGED <<service, boots, legacy, Log, taken, pel, mode, events, curated, buffer, files, trainer, gone, broken>>
    BY DEF ProcessFeedback, logVars, dataVars, ghostVars
  <1>2. PICK m \in Messages : m = Head(co[s].batch)
    BY <1>0, HeadFacts
  <1>3. PICK row : row = [msg |-> m, quarantined |-> FALSE, cat |-> IF m.valid THEN m.cat ELSE "__invalid__"]
    OBVIOUS
  <1>4. row \in FeedbackRow /\ row.msg = m
    <2>1. PICK k \in Categories : k = IF m.valid THEN m.cat ELSE "__invalid__"
      BY DEF Categories
    <2>2. row = [msg |-> m, quarantined |-> FALSE, cat |-> k]
      BY <1>3, <2>1
    <2> QED
      BY <2>2 DEF FeedbackRow
  <1>5. feedback \in Seq(FeedbackRow) /\ feedback' = Append(feedback, row) /\ Len(feedback) \in Nat
    BY <1>0, <1>2, <1>3 DEF Types, ProcessFeedback
  <1>6. /\ feedback' \in Seq(FeedbackRow) /\ Len(feedback') = Len(feedback) + 1
        /\ \A i \in 1..Len(feedback) : feedback'[i] = feedback[i]
        /\ feedback'[Len(feedback) + 1] = row
    BY <1>4, <1>5, AppendProperties
  <1>7. PICK a, v : a = (IF m.valid THEN "ack" ELSE "quarantine") /\ v = Len(feedback) + 1
    OBVIOUS
  <1>8. a \in {"ack", "quarantine"} /\ v \in Nat /\ v \in 1..Len(feedback')
    BY <1>5, <1>6, <1>7
  <1>9. PICK r : r = [co[s] EXCEPT !.at = a, !.version = v]
    OBVIOUS
  <1>10. r \in Local /\ r.at = a /\ r.version = v /\ r.batch = co[s].batch /\ r.rows = co[s].rows
    BY <1>0, <1>8, <1>9, LocalFacts DEF Local
  <1>11. co' = [co EXCEPT ![s] = r]
    BY <1>2, <1>7, <1>9 DEF ProcessFeedback
  <1>12. co' \in [Coroutines -> Local] /\ co'[s] = r /\ \A o \in Coroutines \ {s} : co'[o] = co[o]
    BY <1>0, <1>10, <1>11, LocalStep
  <1>13. Types'
    BY <1>0, <1>1, <1>6, <1>12 DEF Types
  <1>14. Steady
    BY <1>1, <1>5, <1>6 DEF Steady, Everywhere, InBuffers, InFiles
  <1>15. LogHolds' /\ EventsHold' /\ DataHolds' /\ CuratedAccounted' /\ AckedIsStored' /\ TrainerHolds'
    BY <1>1, <1>13, <1>14, Kept
  <1>16. Handled(s, m)'
    <2>1. feedback'[v].msg = m
      BY <1>4, <1>6, <1>7
    <2> QED
      BY <1>0, <1>8, <2>1 DEF Handled
  <1>17. ListenerHolds(s)'
    BY <1>0, <1>2, <1>8, <1>10, <1>12, <1>14, <1>16, ListenerDone
  <1>18. CuratorHolds(s)'
    BY <1>0, <1>8, <1>10, <1>12, <1>14, CuratorMoves
  <1> QED
    BY <1>0, <1>12, <1>13, <1>14, <1>15, <1>17, <1>18, OneMoves

\* The sentinel row is quarantined.
LEMMA QuarantineStep ==
    ASSUME OrionIInv, NEW s \in Streams, Quarantine(s)
    PROVE  OrionIInv'
  <1>0. Types /\ s \in Coroutines /\ co[s].at = "quarantine" /\ CuratorHolds(s) /\ ListenerHolds(s)
    BY DEF OrionIInv, Coroutines, Quarantine
  <1>1. UNCHANGED <<service, boots, legacy, Log, taken, pel, mode, events, curated, buffer, files, trainer, gone, broken>>
    BY DEF Quarantine, logVars, dataVars, ghostVars
  <1>2. feedback \in Seq(FeedbackRow) /\ Len(feedback) \in Nat
    BY <1>0 DEF Types
  <1>3. PICK v \in 1..Len(feedback) : v = co[s].version
    BY <1>0 DEF ListenerHolds
  <1>4. PICK row : row = [feedback[v] EXCEPT !.quarantined = TRUE]
    OBVIOUS
  <1>5. row \in FeedbackRow /\ row.msg = feedback[v].msg
    <2>1. feedback[v] \in FeedbackRow
      BY <1>0, <1>3, FeedbackFacts
    <2> QED
      BY <1>4, <2>1 DEF FeedbackRow
  <1>6. feedback' = [feedback EXCEPT ![v] = row]
    BY <1>3, <1>4 DEF Quarantine
  <1>7. /\ feedback' \in Seq(FeedbackRow) /\ Len(feedback') = Len(feedback)
        /\ \A i \in 1..Len(feedback) : feedback'[i] = IF i = v THEN row ELSE feedback[i]
    BY <1>2, <1>3, <1>5, <1>6, ExceptSeq
  <1>8. co' = [co EXCEPT ![s].at = "ack"]
    BY DEF Quarantine
  <1>9. /\ co' \in [Coroutines -> Local] /\ \A o \in Coroutines \ {s} : co'[o] = co[o]
        /\ co'[s].at = "ack" /\ co'[s].batch = co[s].batch /\ co'[s].rows = co[s].rows
    BY <1>0, <1>8, AtStep DEF At
  <1>10. Types'
    BY <1>0, <1>1, <1>7, <1>9 DEF Types
  <1>11. Steady
    BY <1>1, <1>2, <1>5, <1>7 DEF Steady, Everywhere, InBuffers, InFiles
  <1>12. LogHolds' /\ EventsHold' /\ DataHolds' /\ CuratedAccounted' /\ AckedIsStored' /\ TrainerHolds'
    BY <1>1, <1>10, <1>11, Kept
  <1>13. CuratorHolds(s)' /\ ListenerHolds(s)'
    BY <1>0, <1>9, <1>10, <1>11, CuratorMoves, ListenerMoves
  <1> QED
    BY <1>0, <1>9, <1>10, <1>11, <1>12, <1>13, OneMoves

\* The handler meets a database error.
LEMMA HandlerFailsStep ==
    ASSUME OrionIInv, NEW s \in Streams, HandlerFails(s)
    PROVE  OrionIInv'
  <1>0. Types /\ s \in Coroutines /\ co[s].at # "idle" /\ CuratorHolds(s)
    BY DEF OrionIInv, Coroutines, HandlerFails
  <1>1. UNCHANGED <<service, boots, legacy, Log, taken, pel, mode, events, curated, feedback, buffer, files, trainer, gone>>
    BY DEF HandlerFails, logVars, dataVars
  <1>2. PICK m \in Messages : m = Head(co[s].batch)
    BY <1>0, HeadFacts
  <1>3. broken' = broken \cup {m} /\ co' = [co EXCEPT ![s].at = "ack"]
    BY <1>2 DEF HandlerFails
  <1>4. /\ co' \in [Coroutines -> Local] /\ \A o \in Coroutines \ {s} : co'[o] = co[o]
        /\ co'[s].at = "ack" /\ co'[s].batch = co[s].batch /\ co'[s].rows = co[s].rows
    BY <1>0, <1>3, AtStep DEF At
  <1>5. Types'
    BY <1>0, <1>1, <1>4 DEF Types
  <1>6. Steady
    <2>1. Len(feedback) \in Nat
      BY <1>0 DEF Types
    <2> QED
      BY <1>1, <1>3, <2>1 DEF Steady, Everywhere, InBuffers, InFiles
  <1>7. LogHolds' /\ EventsHold' /\ DataHolds' /\ CuratedAccounted' /\ AckedIsStored' /\ TrainerHolds'
    BY <1>1, <1>5, <1>6, Kept
  <1>8. Handled(s, m)'
    BY <1>3 DEF Handled
  <1>9. CuratorHolds(s)' /\ ListenerHolds(s)'
    BY <1>0, <1>2, <1>4, <1>6, <1>8, CuratorMoves, ListenerDone
  <1> QED
    BY <1>0, <1>4, <1>5, <1>6, <1>7, <1>9, OneMoves

-----------------------------------------------------------------------------
(* The dataset store.                                                       *)

\* Examples go to the buffer of a domain.
LEMMA AppendFacts ==
    ASSUME Types, NEW d \in Domains, NEW S, SetToSeq(S) \in Seq(AnExample), Range(SetToSeq(S)) = S, AppendExamples(d, S),
           UNCHANGED <<files, gone>>
    PROVE  /\ buffer' \in [Domains -> Seq(AnExample)] /\ Everywhere' = Everywhere \cup S
           /\ buffer'[d] = buffer[d] \o SetToSeq(S) /\ \A o \in Domains \ {d} : buffer'[o] = buffer[o]
           /\ Trained(d)' = Trained(d) \cup S /\ \A o \in Domains \ {d} : Trained(o)' = Trained(o)
  <1>1. PICK q \in Seq(AnExample) : q = SetToSeq(S)
    OBVIOUS
  <1>2. buffer[d] \in Seq(AnExample) /\ buffer \in [Domains -> Seq(AnExample)]
    BY DEF Types
  <1>3. buffer' = [buffer EXCEPT ![d] = buffer[d] \o q]
    BY <1>1 DEF AppendExamples
  <1>4. buffer[d] \o q \in Seq(AnExample) /\ Range(buffer[d] \o q) = Range(buffer[d]) \cup S
    BY <1>1, <1>2, RangeConcat
  <1>5. /\ buffer' \in [Domains -> Seq(AnExample)] /\ buffer'[d] = buffer[d] \o q
        /\ \A o \in Domains \ {d} : buffer'[o] = buffer[o]
    BY <1>2, <1>3, <1>4
  <1>6. Range(buffer'[d]) = Range(buffer[d]) \cup S
    BY <1>4, <1>5
  <1>7. InBuffers' = InBuffers \cup S
    <2>1. ASSUME NEW e, e \in InBuffers' PROVE e \in InBuffers \cup S
      BY <1>5, <1>6, <2>1 DEF InBuffers
    <2>2. ASSUME NEW e, e \in InBuffers \cup S PROVE e \in InBuffers'
      BY <1>5, <1>6, <2>2 DEF InBuffers
    <2> QED
      BY <2>1, <2>2
  <1>8. InFiles' = InFiles
    BY DEF InFiles
  <1>9. Everywhere' = Everywhere \cup S
    BY <1>7, <1>8 DEF Everywhere
  <1>10. Trained(d)' = Trained(d) \cup S /\ \A o \in Domains \ {d} : Trained(o)' = Trained(o)
    BY <1>5, <1>6 DEF Trained
  <1> QED
    BY <1>1, <1>5, <1>9, <1>10

\* A file is written: one version has the content, the others are as they were.
LEMMA WriteFacts ==
    ASSUME Types, NEW d \in Domains, NEW v \in Nat, v # 0, NEW content \in Seq(AnExample), WriteFile(d, v, content)
    PROVE  /\ files' \in [Domains -> Seq(Seq(AnExample))] /\ \A o \in Domains \ {d} : files'[o] = files[o]
           /\ \E k \in 1..Len(files'[d]) :
                 /\ files'[d][k] = content /\ (k \in 1..Len(files[d]) => k = v /\ v <= Len(files[d]))
                 /\ \A w \in 1..Len(files'[d]) : w # k => w \in 1..Len(files[d]) /\ files'[d][w] = files[d][w]
                 /\ \A w \in 1..Len(files[d]) : w \in 1..Len(files'[d]) /\ (w # k => files'[d][w] = files[d][w])
  <1>1. files \in [Domains -> Seq(Seq(AnExample))]
    BY DEF Types
  <1>2. PICK f \in Seq(Seq(AnExample)) : f = files[d]
    BY <1>1
  <1>3. PICK g : g = IF v <= Len(f) THEN [f EXCEPT ![v] = content] ELSE Append(f, content)
    OBVIOUS
  <1>4. files' = [files EXCEPT ![d] = g]
    BY <1>2, <1>3 DEF WriteFile
  <1>5. Len(f) \in Nat
    BY <1>2
  <1>6. /\ g \in Seq(Seq(AnExample))
        /\ \E k \in 1..Len(g) :
              /\ g[k] = content /\ (k \in 1..Len(f) => k = v /\ v <= Len(f))
              /\ \A w \in 1..Len(g) : w # k => w \in 1..Len(f) /\ g[w] = f[w]
              /\ \A w \in 1..Len(f) : w \in 1..Len(g) /\ (w # k => g[w] = f[w])
    <2>1. CASE v <= Len(f)
      <3>1. v \in 1..Len(f) /\ g = [f EXCEPT ![v] = content]
        BY <1>3, <1>5, <2>1
      <3>2. /\ g \in Seq(Seq(AnExample)) /\ Len(g) = Len(f)
            /\ \A j \in 1..Len(f) : g[j] = IF j = v THEN content ELSE f[j]
        BY <3>1, ExceptSeq
      <3>3. v \in 1..Len(g) /\ g[v] = content
        BY <3>1, <3>2
      <3> QED
        BY <2>1, <3>2, <3>3
    <2>2. CASE ~(v <= Len(f))
      <3>1. g = Append(f, content)
        BY <1>3, <2>2
      <3>2. /\ g \in Seq(Seq(AnExample)) /\ Len(g) = Len(f) + 1
            /\ \A i \in 1..Len(f) : g[i] = f[i]
            /\ g[Len(f) + 1] = content
        BY <3>1, AppendProperties
      <3>3. PICK k \in 1..Len(g) : k = Len(f) + 1
        BY <1>5, <3>2
      <3>4. g[k] = content /\ ~(k \in 1..Len(f)) /\ \A w \in 1..Len(g) : w # k => w \in 1..Len(f)
        BY <1>5, <3>2, <3>3
      <3>5. \A w \in 1..Len(f) : w \in 1..Len(g)
        BY <1>5, <3>2
      <3> QED
        BY <3>2, <3>4, <3>5
    <2> QED
      BY <2>1, <2>2
  <1>7. files' \in [Domains -> Seq(Seq(AnExample))] /\ files'[d] = g /\ \A o \in Domains \ {d} : files'[o] = files[o]
    BY <1>1, <1>4, <1>6
  <1> QED
    BY <1>2, <1>6, <1>7

InFilesOf(d) == UNION {Range(files[d][v]) : v \in 1..Len(files[d])}

\* What was there is there or was overwritten.
LEMMA WriteKeeps ==
    ASSUME Types, NEW d \in Domains, NEW v \in Nat, v # 0, NEW content \in Seq(AnExample), WriteFile(d, v, content)
    PROVE  /\ files' \in [Domains -> Seq(Seq(AnExample))] /\ \A o \in Domains \ {d} : files'[o] = files[o]
           /\ InFilesOf(d)' \subseteq InFilesOf(d) \cup Range(content) /\ Range(content) \subseteq InFilesOf(d)'
           /\ InFilesOf(d) \subseteq InFilesOf(d)' \cup Overwritten(d, v) /\ Overwritten(d, v) \subseteq AnExample
           /\ InFiles \subseteq InFiles' \cup Overwritten(d, v) /\ Range(content) \subseteq InFiles'
  <1>1. files' \in [Domains -> Seq(Seq(AnExample))] /\ \A o \in Domains \ {d} : files'[o] = files[o]
    BY WriteFacts
  <1>2. PICK k \in 1..Len(files'[d]) :
           /\ files'[d][k] = content /\ (k \in 1..Len(files[d]) => k = v /\ v <= Len(files[d]))
           /\ \A w \in 1..Len(files'[d]) : w # k => w \in 1..Len(files[d]) /\ files'[d][w] = files[d][w]
           /\ \A w \in 1..Len(files[d]) : w \in 1..Len(files'[d]) /\ (w # k => files'[d][w] = files[d][w])
    BY WriteFacts
  <1>3. ASSUME NEW e, e \in InFilesOf(d)' PROVE e \in InFilesOf(d) \cup Range(content)
    <2>1. PICK w \in 1..Len(files'[d]) : e \in Range(files'[d][w])
      BY <1>3 DEF InFilesOf
    <2>2. CASE w = k
      BY <1>2, <2>1, <2>2
    <2>3. CASE w # k
      <3>1. w \in 1..Len(files[d]) /\ e \in Range(files[d][w])
        BY <1>2, <2>1, <2>3
      <3> QED
        BY <3>1 DEF InFilesOf
    <2> QED
      BY <2>2, <2>3
  <1>4. Range(content) \subseteq InFilesOf(d)'
    BY <1>2 DEF InFilesOf
  <1>5. ASSUME NEW e, e \in InFilesOf(d) PROVE e \in InFilesOf(d)' \cup Overwritten(d, v)
    <2>1. PICK w \in 1..Len(files[d]) : e \in Range(files[d][w])
      BY <1>5 DEF InFilesOf
    <2>2. CASE w = k
      <3>1. w = v /\ v <= Len(files[d])
        BY <1>2, <2>2
      <3> QED
        BY <2>1, <3>1 DEF Overwritten
    <2>3. CASE w # k
      <3>1. w \in 1..Len(files'[d]) /\ e \in Range(files'[d][w])
        BY <1>2, <2>1, <2>3
      <3> QED
        BY <3>1 DEF InFilesOf
    <2> QED
      BY <2>2, <2>3
  <1>6. Overwritten(d, v) \subseteq AnExample
    <2>1. files[d] \in Seq(Seq(AnExample))
      BY DEF Types
    <2>2. CASE v <= Len(files[d])
      <3>1. v \in 1..Len(files[d])
        BY <2>1, <2>2
      <3>2. files[d][v] \in Seq(AnExample)
        BY <2>1, <3>1, SeqFacts
      <3>3. Range(files[d][v]) \subseteq AnExample
        BY <3>2, RangeFacts
      <3> QED
        BY <2>2, <3>3 DEF Overwritten
    <2>3. CASE ~(v <= Len(files[d]))
      BY <2>3 DEF Overwritten
    <2> QED
      BY <2>2, <2>3
  <1>7. InFiles = UNION {InFilesOf(o) : o \in Domains} /\ InFiles' = UNION {InFilesOf(o)' : o \in Domains}
    BY DEF InFiles, InFilesOf
  <1>8. \A o \in Domains \ {d} : InFilesOf(o)' = InFilesOf(o)
    BY <1>1 DEF InFilesOf
  <1>9. InFiles \subseteq InFiles' \cup Overwritten(d, v)
    <2>1. ASSUME NEW e, e \in InFiles PROVE e \in InFiles' \cup Overwritten(d, v)
      <3>1. PICK o \in Domains : e \in InFilesOf(o)
        BY <1>7, <2>1
      <3>2. e \in InFilesOf(o)' \/ e \in Overwritten(d, v)
        BY <1>5, <1>8, <3>1
      <3> QED
        BY <1>7, <3>2
    <2> QED
      BY <2>1
  <1>10. Range(content) \subseteq InFiles'
    BY <1>4, <1>7
  <1> QED
    BY <1>1, <1>3, <1>4, <1>5, <1>6, <1>9, <1>10

\* Rows that qualify become examples of their domain.
LEMMA AppendRowsStep ==
    ASSUME OrionIInv, NEW c \in Coroutines, AppendRows(c)
    PROVE  OrionIInv'
  <1>0. /\ Types /\ CuratorHolds(c) /\ (c \in Streams => ListenerHolds(c)) /\ co[c].at = "append"
        /\ co[c].rows \subseteq Tasks /\ EventsHold /\ DataHolds
    BY LocalFacts DEF OrionIInv, AppendRows
  <1>1. UNCHANGED <<service, boots, legacy, Log, taken, pel, mode, events, curated, feedback, files, trainer, gone, broken>>
    BY DEF AppendRows, logVars, ghostVars
  <1>2. PICK d \in {DeriveDomain(events[t].msg) : t \in co[c].rows}, ids \in SUBSET co[c].rows :
           /\ ids = {t \in co[c].rows : DeriveDomain(events[t].msg) = d}
           /\ AppendExamples(d, {Example(events[t].msg, "event") : t \in ids})
           /\ co' = [co EXCEPT ![c].at = "mark", ![c].ids = ids, ![c].dom = d]
    BY DEF AppendRows
  <1>3. d \in Domains /\ ids \subseteq Tasks /\ \A t \in ids : Fit(t) /\ DeriveDomain(events[t].msg) = d
    BY <1>0, <1>2 DEF CuratorHolds, Curable
  <1>4. PICK new : new = {Example(events[t].msg, "event") : t \in ids}
    OBVIOUS
  <1>5. \A t \in ids : /\ Example(events[t].msg, "event") \in AnExample /\ Example(events[t].msg, "event").src = "event"
                       /\ Example(events[t].msg, "event").task = t
    <2>1. \A t \in ids : events[t].msg \in Messages /\ events[t].msg.task = t
      BY <1>0, <1>3, EventFacts DEF EventsHold, Fit
    <2> SUFFICES ASSUME NEW t \in ids
                 PROVE  /\ Example(events[t].msg, "event") \in AnExample /\ Example(events[t].msg, "event").src = "event"
                        /\ Example(events[t].msg, "event").task = t
      OBVIOUS
    <2>2. PICK m \in Messages : m = events[t].msg /\ m.task = t
      BY <2>1
    <2>3. Example(m, "event") \in AnExample /\ Example(m, "event").src = "event" /\ Example(m, "event").task = m.task
      BY ExampleFacts
    <2> QED
      BY <2>2, <2>3
  <1>6. /\ SetToSeq(new) \in Seq(AnExample) /\ Range(SetToSeq(new)) = new
        /\ \A e \in new : e \in AnExample /\ e.src = "event"
    <2>1. IsFiniteSet(ids)
      BY <1>3, TasksFinite, FS_Subset
    <2>2. PICK f : f = [t \in ids |-> Example(events[t].msg, "event")]
      OBVIOUS
    <2>3. \A t \in ids : f[t] \in new /\ f[t] \in AnExample /\ f[t].src = "event"
      BY <1>4, <1>5, <2>2
    <2>4. \A e \in new : \E t \in ids : f[t] = e
      BY <1>4, <2>2
    <2>5. Makes(f, ids, new, "event")
      BY <2>3, <2>4 DEF Makes
    <2> QED
      BY <2>1, <2>5, Examples
  <1>7. \A e \in new : e.task \in ids
    BY <1>4, <1>5
  <1>8. /\ buffer' \in [Domains -> Seq(AnExample)] /\ Everywhere' = Everywhere \cup new
        /\ Trained(d)' = Trained(d) \cup new /\ \A o \in Domains \ {d} : Trained(o)' = Trained(o)
    <2>1. AppendExamples(d, new)
      BY <1>2, <1>4
    <2> QED
      BY <1>0, <1>1, <1>3, <1>6, <2>1, AppendFacts
  <1>9. PICK r : r = [co[c] EXCEPT !.at = "mark", !.ids = ids, !.dom = d]
    OBVIOUS
  <1>10. r \in Local /\ r.at = "mark" /\ r.ids = ids /\ r.dom = d /\ r.batch = co[c].batch /\ r.rows = co[c].rows
    BY <1>0, <1>3, <1>9, LocalFacts DEF Local
  <1>11. co' = [co EXCEPT ![c] = r]
    BY <1>2, <1>9
  <1>12. co' \in [Coroutines -> Local] /\ co'[c] = r /\ \A o \in Coroutines \ {c} : co'[o] = co[o]
    BY <1>0, <1>10, <1>11, LocalStep
  <1>13. Types'
    BY <1>0, <1>1, <1>8, <1>12 DEF Types
  <1>14. Steady
    <2>1. Len(feedback) \in Nat
      BY <1>0 DEF Types
    <2> QED
      BY <1>1, <1>8, <2>1 DEF Steady
  <1>15. LogHolds' /\ EventsHold' /\ CuratedAccounted' /\ AckedIsStored' /\ TrainerHolds'
    BY <1>1, <1>13, <1>14, Kept
  <1>16. DataHolds'
    <2> SUFFICES ASSUME NEW o \in Domains, NEW e \in Trained(o)', e.src = "event"
                 PROVE  Fit(e.task)' /\ DeriveDomain(events'[e.task].msg) = o
      BY DEF DataHolds, DeriveDomain
    <2>1. Fit(e.task) /\ DeriveDomain(events[e.task].msg) = o
      <3>1. CASE o = d /\ e \in new
        BY <1>3, <1>7, <3>1
      <3>2. CASE e \in Trained(o)
        BY <1>0, <3>2 DEF DataHolds
      <3> QED
        BY <1>8, <3>1, <3>2
    <2> QED
      BY <1>1, <2>1 DEF Fit, DeriveDomain
  <1>17. CuratorHolds(c)'
    <2>1. \A t \in co'[c].rows : Curable(t)'
      BY <1>0, <1>10, <1>12, <1>14, CurableKept DEF CuratorHolds
    <2>2. \A t \in ids : Accounted(t)'
      BY <1>4, <1>5, <1>8 DEF Accounted
    <2> QED
      BY <1>3, <1>10, <1>12, <2>1, <2>2 DEF CuratorHolds
  <1>18. ASSUME c \in Streams PROVE ListenerHolds(c)'
    BY <1>0, <1>10, <1>12, <1>13, <1>14, <1>18, ListenerMoves
  <1> QED
    BY <1>12, <1>13, <1>14, <1>15, <1>16, <1>17, <1>18, OneMoves

\* Where a coroutine goes once the ids of one domain are done.
LEMMA NextDomainFacts ==
    ASSUME Types, NEW c \in Coroutines
    PROVE  /\ NextDomain(c) \in Local /\ NextDomain(c).rows \subseteq co[c].rows /\ NextDomain(c).batch = co[c].batch
           /\ NextDomain(c).at \in {"idle", "signals", "extract", "ack", "append"}
  <1>1. PICK a : a = IF co[c].ids = {} THEN IF co[c].signals = {} THEN "idle" ELSE "signals"
                     ELSE IF co[c].rows = co[c].ids THEN AfterCuration(c) ELSE "append"
    OBVIOUS
  <1>2. a \in {"idle", "signals", "extract", "ack", "append"}
    BY <1>1 DEF AfterCuration
  <1>3. PICK r : r = [co[c] EXCEPT !.rows = co[c].rows \ co[c].ids, !.ids = {}, !.dom = None, !.version = 0, !.at = a]
    OBVIOUS
  <1>4. r \in Local /\ r.rows \subseteq co[c].rows /\ r.batch = co[c].batch /\ r.at = a
    BY <1>2, <1>3, LocalFacts DEF Local
  <1>5. NextDomain(c) = r
    BY <1>1, <1>3 DEF NextDomain
  <1> QED
    BY <1>2, <1>4, <1>5

\* The appended rows are marked.
LEMMA MarkStep ==
    ASSUME OrionIInv, NEW c \in Coroutines, MarkCurated(c)
    PROVE  OrionIInv'
  <1>0. /\ Types /\ CuratorHolds(c) /\ (c \in Streams => ListenerHolds(c)) /\ co[c].at = "mark"
        /\ curated' = curated \cup co[c].ids
    BY DEF OrionIInv, MarkCurated
  <1>1. UNCHANGED <<service, boots, legacy, Log, taken, pel, mode, events, feedback, buffer, files, trainer, gone, broken>>
    BY DEF MarkCurated, logVars, dataVars, ghostVars
  <1>2. PICK d \in Domains : d = co[c].dom
    BY <1>0 DEF CuratorHolds
  <1>3. PICK v \in Nat : v = NextVersion(d) /\ v # 0
    <2>1. files[d] \in Seq(Seq(AnExample))
      BY <1>0 DEF Types
    <2>2. Len(files[d]) \in Nat
      BY <2>1
    <2> QED
      BY <2>2 DEF NextVersion
  <1>4. PICK r : r = IF ShouldFlush(buffer[d]) THEN [co[c] EXCEPT !.at = "flush", !.version = v] ELSE NextDomain(c)
    OBVIOUS
  <1>5. /\ r \in Local /\ r.batch = co[c].batch /\ r.rows \subseteq co[c].rows
        /\ r.at \in {"flush", "idle", "signals", "extract", "ack", "append"}
        /\ r.at = "flush" => r.dom = d /\ r.version = v
    <2>1. CASE ShouldFlush(buffer[d])
      BY <1>0, <1>2, <1>4, <2>1, LocalFacts DEF Local
    <2>2. CASE ~ShouldFlush(buffer[d])
      BY <1>0, <1>4, <2>2, NextDomainFacts
    <2> QED
      BY <2>1, <2>2
  <1>6. co' = [co EXCEPT ![c] = r]
    BY <1>2, <1>3, <1>4 DEF MarkCurated
  <1>7. co' \in [Coroutines -> Local] /\ co'[c] = r /\ \A o \in Coroutines \ {c} : co'[o] = co[o]
    BY <1>0, <1>5, <1>6, LocalStep
  <1>8. co[c].ids \subseteq Tasks
    BY <1>0, LocalFacts
  <1>9. Types'
    BY <1>0, <1>1, <1>7, <1>8 DEF Types
  <1>10. Steady
    BY <1>0, <1>1, SteadySame
  <1>11. LogHolds' /\ EventsHold' /\ DataHolds' /\ AckedIsStored' /\ TrainerHolds'
    BY <1>1, <1>9, <1>10, Kept
  <1>12. CuratedAccounted'
    <2>1. \A t \in co[c].ids : Accounted(t)
      BY <1>0 DEF CuratorHolds
    <2>2. \A t \in curated : Accounted(t)
      BY DEF OrionIInv, CuratedAccounted, Accounted, Everywhere
    <2>3. \A t \in curated' : Accounted(t)'
      BY <1>0, <1>10, <2>1, <2>2 DEF Accounted, Steady
    <2> QED
      BY <2>3 DEF CuratedAccounted, Accounted, Everywhere
  <1>13. CuratorHolds(c)'
    <2>1. \A t \in co'[c].rows : Curable(t)'
      BY <1>0, <1>5, <1>7, <1>10, CurableKept, LocalFacts DEF CuratorHolds
    <2> QED
      BY <1>2, <1>3, <1>5, <1>7, <2>1 DEF CuratorHolds
  <1>14. ASSUME c \in Streams PROVE ListenerHolds(c)'
    BY <1>0, <1>5, <1>7, <1>9, <1>10, <1>14, ListenerMoves
  <1> QED
    BY <1>7, <1>9, <1>10, <1>11, <1>12, <1>13, <1>14, OneMoves

\* The buffer becomes a file.
LEMMA FlushStep ==
    ASSUME OrionIInv, NEW c \in Coroutines, Flush(c)
    PROVE  OrionIInv'
  <1>0. Types /\ CuratorHolds(c) /\ (c \in Streams => ListenerHolds(c)) /\ co[c].at = "flush" /\ DataHolds
    BY DEF OrionIInv, Flush
  <1>1. UNCHANGED <<service, boots, legacy, Log, taken, pel, mode, events, curated, feedback, trainer, broken>>
    BY DEF Flush, logVars
  <1>2. PICK d \in Domains, v \in Nat : d = co[c].dom /\ v = co[c].version /\ v # 0
    BY <1>0, LocalFacts DEF CuratorHolds
  <1>3. /\ WriteFile(d, v, buffer[d]) /\ gone' = gone \cup Overwritten(d, v)
        /\ buffer' = [buffer EXCEPT ![d] = <<>>] /\ co' = [co EXCEPT ![c] = NextDomain(c)]
    BY <1>2 DEF Flush
  <1>4. buffer \in [Domains -> Seq(AnExample)] /\ buffer[d] \in Seq(AnExample)
    BY <1>0 DEF Types
  <1>5. /\ files' \in [Domains -> Seq(Seq(AnExample))] /\ \A o \in Domains \ {d} : files'[o] = files[o]
        /\ InFilesOf(d)' \subseteq InFilesOf(d) \cup Range(buffer[d])
        /\ Overwritten(d, v) \subseteq AnExample
        /\ InFiles \subseteq InFiles' \cup Overwritten(d, v) /\ Range(buffer[d]) \subseteq InFiles'
    BY <1>0, <1>2, <1>3, <1>4, WriteKeeps
  <1>6. buffer' \in [Domains -> Seq(AnExample)] /\ buffer'[d] = <<>> /\ \A o \in Domains \ {d} : buffer'[o] = buffer[o]
    BY <1>3, <1>4
  <1>7. PICK r \in Local : /\ r = NextDomain(c) /\ r.rows \subseteq co[c].rows /\ r.batch = co[c].batch
                           /\ r.at \in {"idle", "signals", "extract", "ack", "append"}
    BY <1>0, NextDomainFacts
  <1>8. co' \in [Coroutines -> Local] /\ co'[c] = r /\ \A o \in Coroutines \ {c} : co'[o] = co[o]
    BY <1>0, <1>3, <1>7, LocalStep
  <1>9. Types'
    BY <1>0, <1>1, <1>3, <1>5, <1>6, <1>8 DEF Types
  <1>10. Everywhere \subseteq Everywhere'
    <2>1. ASSUME NEW e, e \in InBuffers PROVE e \in InBuffers' \cup InFiles'
      <3>1. PICK o \in Domains : e \in Range(buffer[o])
        BY <2>1 DEF InBuffers
      <3>2. CASE o = d
        BY <1>5, <3>1, <3>2
      <3>3. CASE o # d
        BY <1>6, <3>1, <3>3 DEF InBuffers
      <3> QED
        BY <3>2, <3>3
    <2> QED
      BY <1>3, <1>5, <2>1 DEF Everywhere
  <1>11. Steady
    <2>1. Len(feedback) \in Nat
      BY <1>0 DEF Types
    <2> QED
      BY <1>1, <1>10, <2>1 DEF Steady
  <1>12. LogHolds' /\ EventsHold' /\ CuratedAccounted' /\ AckedIsStored' /\ TrainerHolds'
    BY <1>1, <1>9, <1>11, Kept
  <1>13. \A o \in Domains : Trained(o)' \subseteq Trained(o)
    <2>1. Range(buffer'[d]) = {}
      BY <1>6 DEF Range
    <2>2. Trained(d)' \subseteq Trained(d)
      BY <1>5, <2>1 DEF Trained, InFilesOf
    <2>3. \A o \in Domains \ {d} : Trained(o)' = Trained(o)
      BY <1>5, <1>6 DEF Trained
    <2> QED
      BY <2>2, <2>3
  <1>14. DataHolds'
    BY <1>0, <1>1, <1>13 DEF DataHolds, Fit, DeriveDomain
  <1>15. CuratorHolds(c)'
    BY <1>0, <1>7, <1>8, <1>11, CuratorMoves
  <1>16. ASSUME c \in Streams PROVE ListenerHolds(c)'
    BY <1>0, <1>7, <1>8, <1>9, <1>11, <1>16, ListenerMoves
  <1> QED
    BY <1>8, <1>9, <1>11, <1>12, <1>14, <1>15, <1>16, OneMoves

\* Rows of the feedback table are copied, as signals.
LEMMA CurateSignalStep ==
    ASSUME OrionIInv, CurateSignal
    PROVE  OrionIInv'
  <1>0. Types /\ "cycle" \in Coroutines /\ "cycle" \notin Streams /\ DataHolds
    BY OrionAssumption DEF OrionIInv, Coroutines
  <1>1. UNCHANGED <<service, boots, legacy, Log, taken, pel, mode, events, curated, feedback, files, trainer, gone, broken>>
    BY DEF CurateSignal, logVars, ghostVars
  <1>a. PICK cat \in {sig[1] : sig \in co["cycle"].signals}, d \in Domains :
          LET rest == co["cycle"].signals \ {<<cat, d>>}
              next == [Idle EXCEPT !.at = IF rest = {} THEN "idle" ELSE "signals", !.signals = rest]
              new == {Example(ReadBack(feedback[i]), "signal") : i \in Curatable(cat, d)}
          IN /\ <<cat, d>> \in co["cycle"].signals
             /\ AppendExamples(d, new)
             /\ co' = [co EXCEPT !["cycle"] =
                   IF new # {} /\ ShouldFlush(buffer[d] \o SetToSeq(new))
                   THEN [next EXCEPT !.at = "flush", !.dom = d, !.version = NextVersion(d)]
                   ELSE next]
    BY Zenon DEF CurateSignal
  <1>b. PICK rest : rest = co["cycle"].signals \ {<<cat, d>>}
    OBVIOUS
  <1>c. PICK next : next = [Idle EXCEPT !.at = IF rest = {} THEN "idle" ELSE "signals", !.signals = rest]
    OBVIOUS
  <1>d. PICK new : new = {Example(ReadBack(feedback[i]), "signal") : i \in Curatable(cat, d)}
    OBVIOUS
  <1>2. /\ AppendExamples(d, new)
        /\ co' = [co EXCEPT !["cycle"] =
              IF new # {} /\ ShouldFlush(buffer[d] \o SetToSeq(new))
              THEN [next EXCEPT !.at = "flush", !.dom = d, !.version = NextVersion(d)]
              ELSE next]
    BY <1>a, <1>b, <1>c, <1>d, Zenon
  <1>3. PICK I : I = Curatable(cat, d)
    OBVIOUS
  <1>4. I \subseteq 1..Len(feedback) /\ Len(feedback) \in Nat /\ IsFiniteSet(I)
    <2>1. I \subseteq 1..Len(feedback)
      BY <1>3 DEF Curatable, CorrectionPairs, HighQuality, Deduped, Window
    <2>2. Len(feedback) \in Nat
      BY <1>0 DEF Types
    <2>3. IsFiniteSet(1..Len(feedback))
      BY <2>2, FS_Interval
    <2> QED
      BY <2>1, <2>2, <2>3, FS_Subset
  <1>5. PICK f : f = [i \in I |-> Example(ReadBack(feedback[i]), "signal")]
    OBVIOUS
  <1>6. ASSUME NEW i \in I PROVE f[i] \in AnExample /\ f[i].src = "signal"
    <2>1. PICK m \in Messages : m = feedback[i].msg
      BY <1>0, <1>4, FeedbackFacts
    <2>2. f[i] = Example([m EXCEPT !.verified = FALSE], "signal")
      BY <1>5, <2>1 DEF ReadBack
    <2>3. /\ Example([m EXCEPT !.verified = FALSE], "signal") \in AnExample
          /\ Example([m EXCEPT !.verified = FALSE], "signal").src = "signal"
      BY ExampleFacts
    <2> QED
      BY <2>2, <2>3
  <1>7. /\ \A i \in I : f[i] \in new /\ f[i] \in AnExample /\ f[i].src = "signal"
        /\ \A e \in new : \E i \in I : f[i] = e
    BY <1>d, <1>3, <1>5, <1>6
  <1>8. /\ SetToSeq(new) \in Seq(AnExample) /\ Range(SetToSeq(new)) = new
        /\ \A e \in new : e \in AnExample /\ e.src = "signal"
    <2>1. Makes(f, I, new, "signal")
      BY <1>7 DEF Makes
    <2> QED
      BY <1>4, <2>1, Examples
  <1>9. /\ buffer' \in [Domains -> Seq(AnExample)] /\ Everywhere' = Everywhere \cup new
        /\ Trained(d)' = Trained(d) \cup new /\ \A o \in Domains \ {d} : Trained(o)' = Trained(o)
    BY <1>0, <1>1, <1>2, <1>8, AppendFacts
  <1>10. PICK v \in Nat : v = NextVersion(d) /\ v # 0
    <2>1. files[d] \in Seq(Seq(AnExample))
      BY <1>0 DEF Types
    <2>2. Len(files[d]) \in Nat
      BY <2>1
    <2> QED
      BY <2>2 DEF NextVersion
  <1>11. next \in Local /\ next.rows = {} /\ next.at \in {"idle", "signals"}
    <2>1. rest \in SUBSET (Categories \X Domains)
      BY <1>0, <1>b, LocalFacts
    <2>2. PICK a \in {"idle", "signals"} : a = IF rest = {} THEN "idle" ELSE "signals"
      OBVIOUS
    <2>3. next = [Idle EXCEPT !.at = a, !.signals = rest]
      BY <1>c, <2>2
    <2> QED
      BY <2>1, <2>2, <2>3, IdleFacts DEF Local
  <1>12. PICK r : r = IF new # {} /\ ShouldFlush(buffer[d] \o SetToSeq(new))
                      THEN [next EXCEPT !.at = "flush", !.dom = d, !.version = v]
                      ELSE next
    OBVIOUS
  <1>13. /\ r \in Local /\ r.rows = {} /\ r.at \in {"idle", "signals", "flush"}
         /\ r.at = "flush" => r.dom = d /\ r.version = v
    <2>1. CASE r = next
      BY <1>11, <2>1
    <2>2. CASE r = [next EXCEPT !.at = "flush", !.dom = d, !.version = v]
      BY <1>11, <2>2 DEF Local
    <2> QED
      BY <1>12, <2>1, <2>2
  <1>14. co' = [co EXCEPT !["cycle"] = r]
    BY <1>2, <1>10, <1>12
  <1>15. co' \in [Coroutines -> Local] /\ co'["cycle"] = r /\ \A o \in Coroutines \ {"cycle"} : co'[o] = co[o]
    BY <1>0, <1>13, <1>14, LocalStep
  <1>16. Types'
    BY <1>0, <1>1, <1>9, <1>15 DEF Types
  <1>17. Steady
    BY <1>1, <1>4, <1>9 DEF Steady
  <1>18. LogHolds' /\ EventsHold' /\ CuratedAccounted' /\ AckedIsStored' /\ TrainerHolds'
    BY <1>1, <1>16, <1>17, Kept
  <1>19. DataHolds'
    <2> SUFFICES ASSUME NEW o \in Domains, NEW e \in Trained(o)', e.src = "event"
                 PROVE  Fit(e.task)' /\ DeriveDomain(events'[e.task].msg) = o
      BY DEF DataHolds, DeriveDomain
    <2>1. e \in Trained(o)
      BY <1>8, <1>9
    <2>2. Fit(e.task) /\ DeriveDomain(events[e.task].msg) = o
      BY <1>0, <2>1 DEF DataHolds
    <2> QED
      BY <1>1, <2>2 DEF Fit, DeriveDomain
  <1>20. CuratorHolds("cycle")'
    BY <1>10, <1>13, <1>15 DEF CuratorHolds
  <1> QED
    BY <1>0, <1>15, <1>16, <1>17, <1>18, <1>19, <1>20, OneMoves

-----------------------------------------------------------------------------
(* The training request.                                                    *)

LEMMA StartTrainingStep ==
    ASSUME OrionIInv, NEW d \in Domains, StartTraining(d)
    PROVE  OrionIInv'
  <1>0. Types
    BY DEF OrionIInv
  <1>1. /\ UNCHANGED <<service, boots, legacy, Log, taken, pel, mode, co, events, curated, feedback, buffer, files, gone, broken>>
        /\ trainer' = [at |-> "write", rows |-> Trainable(d), dom |-> d, version |-> NextVersion(d)]
    BY DEF StartTraining, logVars, dataVars, ghostVars
  <1>2. NextVersion(d) \in Nat /\ NextVersion(d) # 0
    <2>1. files[d] \in Seq(Seq(AnExample))
      BY <1>0 DEF Types
    <2>2. Len(files[d]) \in Nat
      BY <2>1
    <2> QED
      BY <2>2 DEF NextVersion
  <1>3. Trainable(d) \subseteq Tasks /\ \A t \in Trainable(d) : events[t] # None
    BY DEF Trainable
  <1>4. /\ trainer' \in [at : {"idle", "write"}, rows : SUBSET Tasks, dom : Domains \cup {None}, version : Nat]
        /\ trainer'.dom = d /\ trainer'.version = NextVersion(d) /\ trainer'.rows = Trainable(d)
    BY <1>1, <1>2, <1>3
  <1>5. Types'
    BY <1>0, <1>1, <1>4 DEF Types
  <1>6. Steady
    BY <1>0, <1>1, SteadySame
  <1>7. LogHolds' /\ EventsHold' /\ DataHolds' /\ CuratedAccounted' /\ AckedIsStored'
    BY <1>1, <1>5, <1>6, Kept
  <1>8. TrainerHolds'
    BY <1>1, <1>2, <1>3, <1>4 DEF TrainerHolds
  <1> QED
    BY <1>1, <1>5, <1>6, <1>7, <1>8, NoneMoves

\* The examples of a training request.
LEMMA TrainExamplesFacts ==
    ASSUME OrionIInv, trainer.at = "write"
    PROVE  /\ TrainExamples(trainer.rows) \in Seq(AnExample)
           /\ \A e \in Range(TrainExamples(trainer.rows)) : e.src = "training"
           /\ trainer.dom \in Domains /\ trainer.version \in Nat /\ trainer.version # 0
  <1>0. Types /\ trainer.dom \in Domains /\ trainer.version # 0 /\ \A t \in trainer.rows : events[t] # None
    BY DEF OrionIInv, TrainerHolds
  <1>1. trainer \in [at : {"idle", "write"}, rows : SUBSET Tasks, dom : Domains \cup {None}, version : Nat]
    BY <1>0 DEF Types
  <1>2. trainer.rows \subseteq Tasks /\ trainer.version \in Nat
    BY <1>1
  <1>3. PICK I \in SUBSET Tasks : I = trainer.rows
    BY <1>2
  <1>4. IsFiniteSet(I)
    BY TasksFinite, FS_Subset
  <1>5. PICK f : f = [t \in I |-> Example(events[t].msg, "training")]
    OBVIOUS
  <1>6. PICK new : new = {Example(events[t].msg, "training") : t \in I}
    OBVIOUS
  <1>7. ASSUME NEW t \in I PROVE f[t] \in AnExample /\ f[t].src = "training"
    <2>1. PICK m \in Messages : m = events[t].msg
      BY <1>0, <1>3, EventFacts
    <2>2. Example(m, "training") \in AnExample /\ Example(m, "training").src = "training"
      BY ExampleFacts
    <2> QED
      BY <1>5, <2>1, <2>2
  <1>8. /\ \A t \in I : f[t] \in new /\ f[t] \in AnExample /\ f[t].src = "training"
        /\ \A e \in new : \E t \in I : f[t] = e
    BY <1>5, <1>6, <1>7
  <1>9. /\ SetToSeq(new) \in Seq(AnExample) /\ Range(SetToSeq(new)) = new
        /\ \A e \in new : e \in AnExample /\ e.src = "training"
    <2>1. Makes(f, I, new, "training")
      BY <1>8 DEF Makes
    <2> QED
      BY <1>4, <2>1, Examples
  <1>10. TrainExamples(trainer.rows) = SetToSeq(new)
    BY <1>3, <1>6 DEF TrainExamples
  <1> QED
    BY <1>0, <1>2, <1>9, <1>10

LEMMA FinishTrainingStep ==
    ASSUME OrionIInv, FinishTraining
    PROVE  OrionIInv'
  <1>0. Types /\ DataHolds /\ trainer.at = "write"
    BY DEF OrionIInv, FinishTraining
  <1>1. /\ UNCHANGED <<service, boots, legacy, Log, taken, pel, mode, co, events, curated, feedback, buffer, broken>>
        /\ trainer' = [at |-> "idle", rows |-> {}, dom |-> None, version |-> 0]
    BY DEF FinishTraining, logVars
  <1>2. PICK d \in Domains, v \in Nat, content \in Seq(AnExample) :
           /\ d = trainer.dom /\ v = trainer.version /\ v # 0 /\ content = TrainExamples(trainer.rows)
           /\ \A e \in Range(content) : e.src = "training"
    BY <1>0, TrainExamplesFacts
  <1>3. WriteFile(d, v, content) /\ gone' = gone \cup Overwritten(d, v)
    BY <1>2 DEF FinishTraining
  <1>4. /\ files' \in [Domains -> Seq(Seq(AnExample))] /\ \A o \in Domains \ {d} : files'[o] = files[o]
        /\ InFilesOf(d)' \subseteq InFilesOf(d) \cup Range(content)
        /\ Overwritten(d, v) \subseteq AnExample
        /\ InFiles \subseteq InFiles' \cup Overwritten(d, v)
    BY <1>0, <1>2, <1>3, WriteKeeps
  <1>5. trainer' \in [at : {"idle", "write"}, rows : SUBSET Tasks, dom : Domains \cup {None}, version : Nat] /\ trainer'.at = "idle"
    BY <1>1
  <1>6. Types'
    BY <1>0, <1>1, <1>3, <1>4, <1>5 DEF Types
  <1>7. Steady
    <2>1. Len(feedback) \in Nat
      BY <1>0 DEF Types
    <2>2. InBuffers' = InBuffers
      BY <1>1 DEF InBuffers
    <2>3. Everywhere \subseteq Everywhere'
      BY <1>3, <1>4, <2>2 DEF Everywhere
    <2> QED
      BY <1>1, <2>1, <2>3 DEF Steady
  <1>8. LogHolds' /\ EventsHold' /\ CuratedAccounted' /\ AckedIsStored'
    BY <1>1, <1>6, <1>7, Kept
  <1>9. TrainerHolds'
    BY <1>5 DEF TrainerHolds
  <1>10. DataHolds'
    <2> SUFFICES ASSUME NEW o \in Domains, NEW e \in Trained(o)', e.src = "event"
                 PROVE  Fit(e.task)' /\ DeriveDomain(events'[e.task].msg) = o
      BY DEF DataHolds, DeriveDomain
    <2>1. Trained(d)' \subseteq Trained(d) \cup Range(content)
      BY <1>1, <1>4 DEF Trained, InFilesOf
    <2>2. \A x \in Domains \ {d} : Trained(x)' = Trained(x)
      BY <1>1, <1>4 DEF Trained
    <2>3. e \in Trained(o)
      BY <1>2, <2>1, <2>2
    <2>4. Fit(e.task) /\ DeriveDomain(events[e.task].msg) = o
      BY <1>0, <2>3 DEF DataHolds
    <2> QED
      BY <1>1, <2>4 DEF Fit, DeriveDomain
  <1> QED
    BY <1>1, <1>6, <1>7, <1>8, <1>9, <1>10, NoneMoves

-----------------------------------------------------------------------------
(* The theorems.                                                            *)

LEMMA InitHolds ==
    ASSUME Init
    PROVE  OrionIInv
  <1>1. PICK w \in Worlds : Log = w.log /\ legacy = w.old
    BY DEF Init
  <1>2. /\ Log \in [Streams -> Seq(Messages)] /\ legacy \in BOOLEAN
        /\ \A r, s \in Streams : \A i \in 1..Len(Log[r]), j \in 1..Len(Log[s]) : Log[r][i] = Log[s][j] => r = s /\ i = j
    BY <1>1, OrionAssumption
  <1>3. /\ service = "down" /\ boots = 0 /\ pel = {} /\ curated = {} /\ feedback = <<>> /\ gone = {}
        /\ taken = [s \in Streams |-> 0] /\ mode = [s \in Streams |-> "pending"] /\ co = [c \in Coroutines |-> Idle]
        /\ events = [t \in Tasks |-> None] /\ buffer = [d \in Domains |-> <<>>] /\ files = [d \in Domains |-> <<>>]
        /\ trainer = [at |-> "idle", rows |-> {}, dom |-> None, version |-> 0]
    BY DEF Init
  <1>4. trainer \in [at : {"idle", "write"}, rows : SUBSET Tasks, dom : Domains \cup {None}, version : Nat] /\ trainer.at = "idle"
    BY <1>3
  <1>5. co \in [Coroutines -> Local] /\ \A c \in Coroutines : co[c] = Idle
    BY <1>3, IdleFacts
  <1>6. Types
    <2>1. boots \in 0..MaxBoots
      BY <1>3, OrionAssumption
    <2>2. taken \in [Streams -> Nat] /\ mode \in [Streams -> {"pending", "live"}] /\ events \in [Tasks -> EventRow \cup {None}]
      BY <1>3
    <2>3. feedback \in Seq(FeedbackRow) /\ buffer \in [Domains -> Seq(AnExample)] /\ files \in [Domains -> Seq(Seq(AnExample))]
      BY <1>3
    <2> QED
      BY <1>2, <1>3, <1>4, <1>5, <2>1, <2>2, <2>3 DEF Types
  <1>7. LogHolds
    <2>1. \A s \in Streams : Len(Log[s]) \in Nat /\ taken[s] = 0
      BY <1>2, <1>3
    <2> QED
      BY <1>2, <1>3, <2>1 DEF LogHolds
  <1>8. EventsHold /\ CuratedAccounted /\ TrainerHolds
    BY <1>3, <1>4 DEF EventsHold, CuratedAccounted, TrainerHolds
  <1>9. DataHolds
    <2>1. ASSUME NEW d \in Domains PROVE Trained(d) = {}
      <3>1. buffer[d] = <<>> /\ files[d] = <<>>
        BY <1>3
      <3>2. Range(buffer[d]) = {}
        BY <3>1 DEF Range
      <3> QED
        BY <3>1, <3>2 DEF Trained
    <2> QED
      BY <2>1 DEF DataHolds
  <1>10. AckedIsStored
    <2>1. \A s \in Streams : taken[s] = 0
      BY <1>3
    <2>2. \A s \in Streams : \A i \in 1..taken[s] : FALSE
      BY <2>1
    <2> QED
      BY <2>2 DEF AckedIsStored
  <1>11. ASSUME NEW c \in Coroutines PROVE CuratorHolds(c)
    <2>1. co[c].rows = {} /\ co[c].at = "idle"
      BY <1>5, IdleFacts
    <2> QED
      BY <2>1 DEF CuratorHolds
  <1>12. ASSUME NEW s \in Streams PROVE ListenerHolds(s)
    <2>1. co[s].batch = <<>> /\ co[s].at = "idle"
      BY <1>5, IdleFacts DEF Coroutines
    <2>2. \A i \in 1..Len(co[s].batch) : FALSE
      BY <2>1
    <2> QED
      BY <2>1, <2>2 DEF ListenerHolds
  <1> QED
    BY <1>6, <1>7, <1>8, <1>9, <1>10, <1>11, <1>12 DEF OrionIInv

LEMMA StutterHolds ==
    ASSUME OrionIInv, UNCHANGED vars
    PROVE  OrionIInv'
  <1>1. UNCHANGED <<service, boots, legacy, Log, taken, pel, mode, co, events, curated, feedback, buffer, files, trainer, gone, broken>>
    BY DEF vars
  <1>2. Types /\ Types'
    BY <1>1 DEF OrionIInv, Types
  <1>3. Steady
    BY <1>1, <1>2, SteadySame
  <1>4. LogHolds' /\ EventsHold' /\ DataHolds' /\ CuratedAccounted' /\ AckedIsStored' /\ TrainerHolds'
    BY <1>1, <1>2, <1>3, Kept
  <1> QED
    BY <1>1, <1>2, <1>3, <1>4, NoneMoves

LEMMA NextHolds ==
    ASSUME OrionIInv, [Next]_vars
    PROVE  OrionIInv'
  <1>0. Streams \subseteq Coroutines /\ "cycle" \in Coroutines
    BY DEF Coroutines
  <1>1. ASSUME NEW s \in Streams, Listen(s) \/ HandlerFails(s) \/ AckFails(s) PROVE OrionIInv'
    <2>1. CASE ReadPending(s) \/ ReadLive(s)
      BY <2>1, ReadPendingStep, ReadLiveStep
    <2>2. CASE ProcessRefineryEvent(s) \/ ProcessFeedback(s) \/ Quarantine(s)
      BY <2>2, ProcessRefineryStep, ProcessFeedbackStep, QuarantineStep
    <2>3. CASE Ack(s) \/ HandlerFails(s) \/ AckFails(s)
      BY <2>3, AckStep, HandlerFailsStep, AckFailsStep
    <2>4. CASE Step(s)
      BY <1>0, <2>4, ReadUncuratedStep, AppendRowsStep, MarkStep, FlushStep DEF Step
    <2> QED
      BY <1>1, <2>1, <2>2, <2>3, <2>4 DEF Listen
  <1>2. CASE Start \/ UnlinkLegacy \/ Crash
    BY <1>2, StartStep, UnlinkStep, CrashStep
  <1>3. CASE StartCycle \/ Cycle \/ CycleFails
    <2>1. CASE StartCycle \/ Extract \/ CycleFails
      BY <2>1, CycleMoves
    <2>2. CASE CurateSignal
      BY <2>2, CurateSignalStep
    <2>3. CASE Step("cycle")
      BY <1>0, <2>3, ReadUncuratedStep, AppendRowsStep, MarkStep, FlushStep DEF Step
    <2> QED
      BY <1>3, <2>1, <2>2, <2>3 DEF Cycle
  <1>4. ASSUME NEW d \in Domains, StartTraining(d) PROVE OrionIInv'
    BY <1>4, StartTrainingStep
  <1>5. CASE FinishTraining
    BY <1>5, FinishTrainingStep
  <1>6. CASE UNCHANGED vars
    BY <1>6, StutterHolds
  <1> QED
    BY <1>1, <1>2, <1>3, <1>4, <1>5, <1>6 DEF Next

LEMMA Inductive == Spec => []OrionIInv
  <1>1. Init => OrionIInv
    BY InitHolds
  <1>2. OrionIInv /\ [Next]_vars => OrionIInv'
    BY NextHolds
  <1> QED
    BY <1>1, <1>2, PTL DEF Spec

\* What reaches the training data passed both gates: ingest quarantines an
\* event whose execution failed, and the query of get_uncurated_events takes
\* the verified rows and the confident successes, whichever coroutine appends
\* them and whatever a training request overwrites.
THEOREM TrainingIsGated == Spec => []TrainingGate
  <1>1. ASSUME OrionIInv PROVE TrainingGate
    <2>0. Types /\ EventsHold /\ DataHolds
      BY <1>1 DEF OrionIInv
    <2> SUFFICES ASSUME NEW d \in Domains,
                        NEW e \in Range(buffer[d]) \cup UNION {Range(files[d][v]) : v \in 1..Len(files[d])}, e.src = "event"
                 PROVE  LET m == events[e.task].msg IN
                        /\ DeriveDomain(m) = d
                        /\ \/ m.verified
                           \/ /\ m.outcome = "success" /\ m.confidence >= 90
                              /\ m.execution \notin FailedExecutions
      BY DEF TrainingGate
    <2>1. e \in Trained(d)
      BY DEF Trained
    <2>2. e \in AnExample
      BY <2>0, <2>1, TrainedType
    <2>3. e.task \in Tasks
      BY <2>2 DEF AnExample
    <2>4. Fit(e.task) /\ DeriveDomain(events[e.task].msg) = d
      BY <2>0, <2>1 DEF DataHolds
    <2>5. events[e.task].msg.verified \/ events[e.task].msg.execution \notin FailedExecutions
      BY <2>0, <2>3, <2>4 DEF EventsHold, Fit
    <2> QED
      BY <2>4, <2>5 DEF Fit
  <1> QED
    BY <1>1, Inductive, PTL

\* A marked task has its example in a buffer or a file unless a crash or an
\* overwriting request took it, and an acknowledged message has been stored or
\* refused or met a database error: whatever the order in which the
\* coroutines, the cycle, the training request and crashes come.
THEOREM NothingIsLost == Spec => []NothingLost
  <1>1. ASSUME OrionIInv PROVE NothingLost
    <2>0. Types /\ LogHolds /\ EventsHold /\ CuratedAccounted /\ AckedIsStored
      BY <1>1 DEF OrionIInv
    <2>1. \A p \in pel : p.msg \in Messages /\ p.consumer \in 1..MaxBoots
      BY <2>0 DEF Types
    <2>2. \A c \in Coroutines : co[c].at \in At
      BY <2>0, LocalFacts
    <2>3. \A t \in Tasks : events[t] = None \/ events[t].msg.task = t
      BY <2>0 DEF EventsHold
    <2>4. {e.task : e \in InBuffers \cup InFiles} \subseteq Tasks
      <3>1. \A e \in InBuffers \cup InFiles : \E d \in Domains : e \in Trained(d)
        BY DEF InBuffers, InFiles, Trained
      <3>2. \A e \in InBuffers \cup InFiles : e \in AnExample
        BY <2>0, <3>1, TrainedType
      <3>3. \A e \in AnExample : e.task \in Tasks
        BY DEF AnExample
      <3> QED
        BY <3>2, <3>3
    <2>5. TypeOK
      BY <2>0, <2>1, <2>2, <2>3, <2>4 DEF TypeOK, Types, LogHolds, At
    <2> QED
      BY <2>0, <2>5 DEF NothingLost
  <1> QED
    BY <1>1, Inductive, PTL

-----------------------------------------------------------------------------
(* A marked task stays out.                                                 *)

\* A place is an index in the buffer or in a file.
LEMMA PlacesAre ==
    ASSUME NEW t, NEW d
    PROVE  /\ \A p : p \in Places(t, d) <=>
                 \/ \E i \in Hits(t, buffer[d]) : p = <<0, i>>
                 \/ \E v \in 1..Len(files[d]) : \E i \in Hits(t, files[d][v]) : p = <<v, i>>
           /\ \A p : p \in Places(t, d)' <=>
                 \/ \E i \in Hits(t, buffer'[d]) : p = <<0, i>>
                 \/ \E v \in 1..Len(files'[d]) : \E i \in Hits(t, files'[d][v]) : p = <<v, i>>
  <1>1. \A p : p \in Places(t, d) <=>
                 \/ \E i \in Hits(t, buffer[d]) : p = <<0, i>>
                 \/ \E v \in 1..Len(files[d]) : \E i \in Hits(t, files[d][v]) : p = <<v, i>>
    BY DEF Places
  <1>2. \A p : p \in Places(t, d)' <=>
                 \/ \E i \in Hits(t, buffer'[d]) : p = <<0, i>>
                 \/ \E v \in 1..Len(files'[d]) : \E i \in Hits(t, files'[d][v]) : p = <<v, i>>
    <2>1. Places(t, d)' = ({0} \X Hits(t, buffer'[d])) \cup UNION {{v} \X Hits(t, files'[d][v]) : v \in 1..Len(files'[d])}
      BY DEF Places, Hits
    <2> QED
      BY <2>1
  <1> QED
    BY <1>1, <1>2

LEMMA PlacesAfter ==
    ASSUME NEW t, NEW d, NEW p, p \in Places(t, d)'
    PROVE  \/ \E i \in Hits(t, buffer'[d]) : p = <<0, i>>
           \/ \E v \in 1..Len(files'[d]) : \E i \in Hits(t, files'[d][v]) : p = <<v, i>>
  BY PlacesAre

LEMMA HitsFinite ==
    ASSUME NEW t, NEW seq \in Seq(AnExample)
    PROVE  IsFiniteSet(Hits(t, seq)) /\ Hits(t, seq) \subseteq Nat
  <1>1. Len(seq) \in Nat
    OBVIOUS
  <1>2. IsFiniteSet(1..Len(seq))
    BY <1>1, FS_Interval
  <1>3. Hits(t, seq) \subseteq 1..Len(seq)
    BY DEF Hits
  <1> QED
    BY <1>1, <1>2, <1>3, FS_Subset

LEMMA PlacesFinite ==
    ASSUME Types, NEW t, NEW d \in Domains
    PROVE  IsFiniteSet(Places(t, d))
  <1>1. buffer[d] \in Seq(AnExample) /\ files[d] \in Seq(Seq(AnExample)) /\ \A v \in 1..Len(files[d]) : files[d][v] \in Seq(AnExample)
    BY TrainedType
  <1>2. PICK n \in Nat : n = Len(files[d])
    BY <1>1
  <1>3. IsFiniteSet({0} \X Hits(t, buffer[d]))
    <2>1. IsFiniteSet({0}) /\ IsFiniteSet(Hits(t, buffer[d]))
      BY <1>1, HitsFinite, FS_Singleton
    <2> QED
      BY <2>1, FS_Product
  <1>4. PICK f : f = [v \in 1..n |-> {v} \X Hits(t, files[d][v])]
    OBVIOUS
  <1>5. \A v \in 1..n : IsFiniteSet(f[v])
    <2> SUFFICES ASSUME NEW v \in 1..n PROVE IsFiniteSet(f[v])
      OBVIOUS
    <2>1. IsFiniteSet({v}) /\ IsFiniteSet(Hits(t, files[d][v]))
      BY <1>1, <1>2, HitsFinite, FS_Singleton
    <2>2. IsFiniteSet({v} \X Hits(t, files[d][v]))
      BY <2>1, FS_Product
    <2> QED
      BY <1>4, <2>2
  <1>6. PICK S : S = {f[v] : v \in 1..n}
    OBVIOUS
  <1>7. IsFiniteSet(S)
    <2>1. IsFiniteSet(1..n)
      BY FS_Interval
    <2>2. f \in [1..n -> S] /\ \A T \in S : \E v \in 1..n : f[v] = T
      BY <1>4, <1>6
    <2>3. f \in Surjection(1..n, S)
      BY <2>2 DEF Surjection
    <2> QED
      BY <2>1, <2>3, FS_Surjection
  <1>8. IsFiniteSet(UNION S)
    <2>1. \A T \in S : IsFiniteSet(T)
      BY <1>5, <1>6
    <2> QED
      BY <1>7, <2>1, FS_UNION
  <1>9. Places(t, d) \subseteq ({0} \X Hits(t, buffer[d])) \cup UNION S
    <2> SUFFICES ASSUME NEW p \in Places(t, d) PROVE p \in ({0} \X Hits(t, buffer[d])) \cup UNION S
      OBVIOUS
    <2>1. CASE \E i \in Hits(t, buffer[d]) : p = <<0, i>>
      BY <2>1
    <2>2. ASSUME NEW v \in 1..Len(files[d]), NEW i \in Hits(t, files[d][v]), p = <<v, i>> PROVE p \in UNION S
      <3>1. p \in f[v] /\ f[v] \in S
        BY <1>2, <1>4, <1>6, <2>2
      <3> QED
        BY <3>1
    <2> QED
      BY <2>1, <2>2, PlacesAre
  <1> QED
    BY <1>3, <1>8, <1>9, FS_Union, FS_Subset

\* Fewer places are fewer copies.
LEMMA FewerPlaces ==
    ASSUME Types, NEW t, NEW d \in Domains, Places(t, d)' \subseteq Places(t, d)
    PROVE  Copies(t, d)' <= Copies(t, d)
  <1>1. IsFiniteSet(Places(t, d))
    BY PlacesFinite
  <1>2. PICK P, Q : P = Places(t, d) /\ Q = Places(t, d)'
    OBVIOUS
  <1>3. IsFiniteSet(P) /\ Q \in SUBSET P
    BY <1>1, <1>2
  <1>4. Cardinality(Q) <= Cardinality(P)
    BY <1>3, FS_Subset
  <1> QED
    BY <1>2, <1>4 DEF Copies

LEMMA MovedPlaces ==
    ASSUME Types, NEW t, NEW d \in Domains, NEW f \in Injection(Places(t, d)', Places(t, d))
    PROVE  Copies(t, d)' <= Copies(t, d)
  <1>1. IsFiniteSet(Places(t, d))
    BY PlacesFinite
  <1>2. PICK P, Q : P = Places(t, d) /\ Q = Places(t, d)'
    OBVIOUS
  <1>3. IsFiniteSet(P) /\ f \in Injection(Q, P)
    BY <1>1, <1>2
  <1>4. Cardinality(Q) <= Cardinality(P)
    BY <1>3, FS_Injection
  <1> QED
    BY <1>2, <1>4 DEF Copies

LEMMA FewerHits ==
    ASSUME NEW t, NEW d, Hits(t, buffer'[d]) \subseteq Hits(t, buffer[d]), files'[d] = files[d]
    PROVE  Places(t, d)' \subseteq Places(t, d)
  <1>1. ASSUME NEW p, p \in Places(t, d)' PROVE p \in Places(t, d)
    <2>1. CASE \E i \in Hits(t, buffer'[d]) : p = <<0, i>>
      BY <2>1, PlacesAre
    <2>2. CASE \E v \in 1..Len(files'[d]) : \E i \in Hits(t, files'[d][v]) : p = <<v, i>>
      BY <2>2, PlacesAre
    <2> QED
      BY <1>1, <2>1, <2>2, PlacesAfter
  <1> QED
    BY <1>1

\* A buffer grows by examples that are not the task's.
LEMMA OthersAppended ==
    ASSUME Types, NEW t, NEW d \in Domains, NEW q \in Seq(AnExample), buffer'[d] = buffer[d] \o q, files'[d] = files[d],
           \A e \in Range(q) : e.task # t \/ e.src # "event"
    PROVE  Places(t, d)' \subseteq Places(t, d)
  <1>1. buffer[d] \in Seq(AnExample)
    BY DEF Types
  <1>2. PICK b \in Seq(AnExample) : b = buffer[d]
    BY <1>1
  <1>3. /\ Len(b) \in Nat /\ Len(q) \in Nat /\ Len(b \o q) = Len(b) + Len(q)
        /\ \A i \in 1..Len(b) : (b \o q)[i] = b[i]
        /\ \A i \in 1..Len(q) : (b \o q)[Len(b) + i] = q[i]
    BY ConcatProperties
  <1>4. Hits(t, b \o q) \subseteq Hits(t, b)
    <2> SUFFICES ASSUME NEW i \in 1..Len(b \o q), (b \o q)[i].task = t, (b \o q)[i].src = "event" PROVE i \in Hits(t, b)
      BY DEF Hits
    <2>1. CASE i <= Len(b)
      <3>1. i \in 1..Len(b)
        BY <1>3, <2>1
      <3>2. (b \o q)[i] = b[i]
        BY <1>3, <3>1
      <3> QED
        BY <3>1, <3>2 DEF Hits
    <2>2. CASE ~(i <= Len(b))
      <3>1. PICK k \in 1..Len(q) : i = Len(b) + k
        <4>1. i - Len(b) \in 1..Len(q) /\ i = Len(b) + (i - Len(b))
          BY <1>3, <2>2
        <4> QED
          BY <4>1
      <3>2. (b \o q)[i] = q[k]
        BY <1>3, <3>1
      <3>3. q[k] \in Range(q)
        BY RangeFacts
      <3> QED
        BY <3>2, <3>3
    <2> QED
      BY <2>1, <2>2
  <1>5. Hits(t, buffer'[d]) \subseteq Hits(t, buffer[d])
    BY <1>2, <1>4
  <1> QED
    BY <1>5, FewerHits

\* A file without examples of the task is written.
LEMMA OthersWritten ==
    ASSUME Types, NEW t, NEW d \in Domains, NEW o \in Domains, NEW v \in Nat, v # 0, NEW content \in Seq(AnExample),
           WriteFile(o, v, content), buffer' = buffer, \A e \in Range(content) : e.src # "event"
    PROVE  Places(t, d)' \subseteq Places(t, d)
  <1>1. \A x \in Domains \ {o} : files'[x] = files[x]
    BY WriteFacts
  <1>2. PICK k \in 1..Len(files'[o]) :
           /\ files'[o][k] = content
           /\ \A w \in 1..Len(files'[o]) : w # k => w \in 1..Len(files[o]) /\ files'[o][w] = files[o][w]
    BY WriteFacts
  <1>3. Hits(t, content) = {}
    <2> SUFFICES ASSUME NEW i \in 1..Len(content), content[i].src = "event" PROVE FALSE
      BY DEF Hits
    <2>1. content[i] \in Range(content)
      BY RangeFacts
    <2> QED
      BY <2>1
  <1>4. CASE d # o
    BY <1>1, <1>4, PlacesAre
  <1>5. CASE d = o
    <2> SUFFICES ASSUME NEW p \in Places(t, d)' PROVE p \in Places(t, d)
      OBVIOUS
    <2>1. CASE \E i \in Hits(t, buffer'[d]) : p = <<0, i>>
      BY <2>1, PlacesAre
    <2>2. ASSUME NEW w \in 1..Len(files'[d]), NEW i \in Hits(t, files'[d][w]), p = <<w, i>> PROVE p \in Places(t, d)
      <3>1. w # k
        BY <1>2, <1>3, <1>5, <2>2
      <3>2. w \in 1..Len(files[d]) /\ i \in Hits(t, files[d][w])
        BY <1>2, <1>5, <2>2, <3>1
      <3> QED
        BY <2>2, <3>2, PlacesAre
    <2> QED
      BY <2>1, <2>2, PlacesAre
  <1> QED
    BY <1>4, <1>5

\* A buffer becomes a file: its places move.
LEMMA BufferWritten ==
    ASSUME Types, NEW t, NEW d \in Domains, NEW o \in Domains, NEW v \in Nat, v # 0,
           WriteFile(o, v, buffer[o]), buffer' = [buffer EXCEPT ![o] = <<>>]
    PROVE  Copies(t, d)' <= Copies(t, d)
  <1>0. buffer \in [Domains -> Seq(AnExample)] /\ buffer[o] \in Seq(AnExample)
    BY DEF Types
  <1>1. \A x \in Domains \ {o} : files'[x] = files[x] /\ buffer'[x] = buffer[x]
    BY <1>0, WriteFacts
  <1>2. PICK k \in 1..Len(files'[o]) :
           /\ files'[o][k] = buffer[o]
           /\ \A w \in 1..Len(files'[o]) : w # k => w \in 1..Len(files[o]) /\ files'[o][w] = files[o][w]
    BY <1>0, WriteFacts
  <1>3. CASE d # o
    <2>1. Places(t, d)' \subseteq Places(t, d)
      BY <1>1, <1>3, PlacesAre
    <2> QED
      BY <2>1, FewerPlaces
  <1>4. CASE d = o
    <2>1. Hits(t, buffer'[d]) = {}
      <3>1. buffer'[d] = <<>>
        BY <1>0, <1>4
      <3> QED
        BY <3>1 DEF Hits
    <2>2. PICK P, Q : P = Places(t, d) /\ Q = Places(t, d)'
      OBVIOUS
    <2>3. ASSUME NEW p \in Q
          PROVE  \E w \in 1..Len(files'[d]) : \E i \in Hits(t, files'[d][w]) : p = <<w, i>>
      BY <2>1, <2>2, PlacesAre
    <2>4. \A w \in 1..Len(files'[d]) : w # 0
      OBVIOUS
    <2>5. PICK f : f = [p \in Q |-> IF p[1] = k THEN <<0, p[2]>> ELSE p]
      OBVIOUS
    <2>6. ASSUME NEW p \in Q PROVE f[p] \in P /\ p[1] # 0 /\ p = <<p[1], p[2]>>
      <3>0. PICK w \in 1..Len(files'[d]) : \E i \in Hits(t, files'[d][w]) : p = <<w, i>>
        BY <2>3
      <3>1. PICK i \in Hits(t, files'[d][w]) : p = <<w, i>>
        BY <3>0
      <3>2. CASE w = k
        <4>1. f[p] = <<0, i>> /\ i \in Hits(t, buffer[d])
          BY <1>2, <1>4, <2>5, <3>1, <3>2
        <4> QED
          BY <2>2, <2>4, <3>1, <4>1, PlacesAre
      <3>3. CASE w # k
        <4>1. f[p] = <<w, i>> /\ w \in 1..Len(files[d]) /\ i \in Hits(t, files[d][w])
          BY <1>2, <1>4, <2>5, <3>1, <3>3
        <4> QED
          BY <2>2, <2>4, <3>1, <4>1, PlacesAre
      <3> QED
        BY <3>2, <3>3
    <2>7. ASSUME NEW p \in Q, NEW q \in Q, f[p] = f[q] PROVE p = q
      <3>1. p[1] # 0 /\ p = <<p[1], p[2]>> /\ q[1] # 0 /\ q = <<q[1], q[2]>>
        BY <2>6
      <3>2. CASE p[1] = k /\ q[1] = k
        <4>1. <<0, p[2]>> = <<0, q[2]>>
          BY <2>5, <2>7, <3>2
        <4> QED
          BY <3>1, <3>2, <4>1
      <3>3. CASE p[1] = k /\ q[1] # k
        <4>1. <<0, p[2]>> = q
          BY <2>5, <2>7, <3>3
        <4> QED
          BY <3>1, <4>1
      <3>4. CASE p[1] # k /\ q[1] = k
        <4>1. p = <<0, q[2]>>
          BY <2>5, <2>7, <3>4
        <4> QED
          BY <3>1, <4>1
      <3>5. CASE p[1] # k /\ q[1] # k
        BY <2>5, <2>7, <3>5
      <3> QED
        BY <3>2, <3>3, <3>4, <3>5
    <2>8. f \in Injection(Q, P)
      <3>1. f \in [Q -> P]
        BY <2>5, <2>6
      <3> QED
        BY <3>1, <2>7 DEF Injection, IsInjective
    <2> QED
      BY <2>2, <2>8, MovedPlaces
  <1> QED
    BY <1>3, <1>4

Narrows == \A c \in Coroutines : co'[c].rows \subseteq co[c].rows
NoMore(t) == \A d \in Domains : Copies(t, d)' <= Copies(t, d)

LEMMA DataSame ==
    ASSUME Types, NEW t, UNCHANGED <<buffer, files>>
    PROVE  NoMore(t)
  <1>1. ASSUME NEW d \in Domains PROVE Copies(t, d)' <= Copies(t, d)
    <2>1. Places(t, d)' = Places(t, d)
      BY DEF Places, Hits
    <2> QED
      BY <2>1, FewerPlaces
  <1> QED
    BY <1>1 DEF NoMore

LEMMA OneNarrows ==
    ASSUME Types, NEW c \in Coroutines, NEW r, co' = [co EXCEPT ![c] = r], r.rows \subseteq co[c].rows
    PROVE  Narrows
  <1>1. co'[c] = r /\ \A o \in Coroutines \ {c} : co'[o] = co[o]
    BY DEF Types
  <1> QED
    BY <1>1 DEF Narrows

LEMMA AtNarrows ==
    ASSUME Types, NEW c \in Coroutines, NEW a, co' = [co EXCEPT ![c].at = a]
    PROVE  Narrows
  <1>1. PICK r : r = [co[c] EXCEPT !.at = a]
    OBVIOUS
  <1>2. r.rows = co[c].rows
    BY <1>1, LocalFacts DEF Local
  <1>3. co' = [co EXCEPT ![c] = r]
    BY <1>1
  <1> QED
    BY <1>2, <1>3, OneNarrows

\* The steps of a listener that leave the dataset alone.
LEMMA ListenNarrows ==
    ASSUME Types, NEW s \in Streams,
           ReadPending(s) \/ ReadLive(s) \/ ProcessRefineryEvent(s) \/ ProcessFeedback(s) \/ Quarantine(s)
           \/ Ack(s) \/ HandlerFails(s) \/ AckFails(s)
    PROVE  Narrows /\ UNCHANGED <<buffer, files>>
  <1>0. s \in Coroutines
    BY DEF Coroutines
  <1>1. UNCHANGED <<buffer, files>>
    BY DEF ReadPending, ReadLive, ProcessRefineryEvent, ProcessFeedback, Quarantine, Ack, HandlerFails, AckFails, dataVars
  <1>2. ASSUME NEW b, co' = [co EXCEPT ![s].at = "handle", ![s].batch = b] PROVE Narrows
    <2>1. PICK r : r = [co[s] EXCEPT !.at = "handle", !.batch = b]
      OBVIOUS
    <2>2. r.rows = co[s].rows
      BY <1>0, <2>1, LocalFacts DEF Local
    <2>3. co' = [co EXCEPT ![s] = r]
      BY <1>2, <2>1
    <2> QED
      BY <1>0, <2>2, <2>3, OneNarrows
  <1>3. CASE ReadPending(s)
    <2>1. co' = co \/ co' = [co EXCEPT ![s].at = "handle", ![s].batch = SetToSeq(OwnPending(s))]
      BY <1>3 DEF ReadPending
    <2> QED
      BY <1>1, <1>2, <2>1 DEF Narrows
  <1>4. CASE ReadLive(s)
    <2>1. PICK n : co' = [co EXCEPT ![s].at = "handle", ![s].batch = SubSeq(Log[s], taken[s] + 1, taken[s] + n)]
      BY <1>4 DEF ReadLive
    <2> QED
      BY <1>1, <1>2, <2>1
  <1>5. CASE ProcessRefineryEvent(s)
    <2>1. \E a : co' = [co EXCEPT ![s].at = a]
      BY <1>5 DEF ProcessRefineryEvent
    <2> QED
      BY <1>0, <1>1, <2>1, AtNarrows
  <1>6. CASE ProcessFeedback(s)
    <2>1. PICK a, v : a = (IF Head(co[s].batch).valid THEN "ack" ELSE "quarantine") /\ v = Len(feedback) + 1
      OBVIOUS
    <2>2. PICK r : r = [co[s] EXCEPT !.at = a, !.version = v]
      OBVIOUS
    <2>3. r.rows = co[s].rows
      BY <1>0, <2>2, LocalFacts DEF Local
    <2>4. co' = [co EXCEPT ![s] = r]
      BY <1>6, <2>1, <2>2 DEF ProcessFeedback
    <2> QED
      BY <1>0, <1>1, <2>3, <2>4, OneNarrows
  <1>7. CASE Quarantine(s) \/ HandlerFails(s)
    <2>1. co' = [co EXCEPT ![s].at = "ack"]
      BY <1>7 DEF Quarantine, HandlerFails
    <2> QED
      BY <1>0, <1>1, <2>1, AtNarrows
  <1>8. CASE Ack(s) \/ AckFails(s)
    <2>1. PICK r : (r = Idle \/ r = [Idle EXCEPT !.at = "handle", !.batch = Tail(co[s].batch)]) /\ co' = [co EXCEPT ![s] = r]
      BY <1>8 DEF Ack, AckFails
    <2>2. r.rows = {}
      BY <2>1, IdleFacts DEF Idle
    <2> QED
      BY <1>0, <1>1, <2>1, <2>2, OneNarrows
  <1> QED
    BY <1>3, <1>4, <1>5, <1>6, <1>7, <1>8

\* The steps that curate, of any coroutine.
LEMMA StepMarked ==
    ASSUME OrionIInv, NEW t \in curated, NEW c \in Coroutines, Step(c)
    PROVE  /\ \A o \in Coroutines : t \notin co[o].rows => t \notin co'[o].rows
           /\ (\A o \in Coroutines : t \notin co[o].rows) => NoMore(t)
  <1>0. Types /\ CuratorHolds(c)
    BY DEF OrionIInv
  <1>1. CASE ReadUncurated(c)
    <2>1. PICK found : found = {x \in Uncurated : DeriveDomain(events[x].msg) \in Domains}
      OBVIOUS
    <2>2. PICK a : a = IF found = {} THEN AfterCuration(c) ELSE "append"
      OBVIOUS
    <2>3. PICK r : r = [co[c] EXCEPT !.rows = found, !.at = a]
      OBVIOUS
    <2>4. co' = [co EXCEPT ![c] = r]
      BY <1>1, <2>1, <2>2, <2>3 DEF ReadUncurated
    <2>5. r.rows = found
      BY <1>0, <2>3, LocalFacts DEF Local
    <2>6. t \notin found
      BY <2>1 DEF Uncurated
    <2>7. co'[c] = r /\ \A o \in Coroutines \ {c} : co'[o] = co[o]
      BY <1>0, <2>4 DEF Types
    <2>8. UNCHANGED <<buffer, files>>
      BY <1>1 DEF ReadUncurated, dataVars
    <2> QED
      BY <1>0, <2>5, <2>6, <2>7, <2>8, DataSame
  <1>2. CASE AppendRows(c)
    <2>1. PICK d \in {DeriveDomain(events[x].msg) : x \in co[c].rows}, ids \in SUBSET co[c].rows :
             /\ ids = {x \in co[c].rows : DeriveDomain(events[x].msg) = d}
             /\ AppendExamples(d, {Example(events[x].msg, "event") : x \in ids})
             /\ co' = [co EXCEPT ![c].at = "mark", ![c].ids = ids, ![c].dom = d]
      BY <1>2 DEF AppendRows
    <2>2. PICK r : r = [co[c] EXCEPT !.at = "mark", !.ids = ids, !.dom = d]
      OBVIOUS
    <2>3. r.rows = co[c].rows
      BY <1>0, <2>2, LocalFacts DEF Local
    <2>4. co' = [co EXCEPT ![c] = r]
      BY <2>1, <2>2
    <2>5. Narrows
      BY <1>0, <2>3, <2>4, OneNarrows
    <2>6. ASSUME t \notin co[c].rows PROVE NoMore(t)
      <3>0. UNCHANGED <<files, gone>>
        BY <1>2 DEF AppendRows, ghostVars
      <3>1. d \in Domains /\ ids \subseteq Tasks /\ \A x \in ids : Fit(x)
        BY <1>0, <2>1, LocalFacts DEF CuratorHolds, Curable
      <3>2. PICK new : new = {Example(events[x].msg, "event") : x \in ids}
        OBVIOUS
      <3>3. ASSUME NEW x \in ids
            PROVE  /\ Example(events[x].msg, "event") \in AnExample /\ Example(events[x].msg, "event").src = "event"
                   /\ Example(events[x].msg, "event").task = x
        <4>1. PICK m \in Messages : m = events[x].msg /\ m.task = x
          BY <1>0, <3>1, EventFacts DEF OrionIInv, EventsHold, Fit
        <4>2. Example(m, "event") \in AnExample /\ Example(m, "event").src = "event" /\ Example(m, "event").task = m.task
          BY ExampleFacts
        <4> QED
          BY <4>1, <4>2
      <3>4. PICK f : f = [x \in ids |-> Example(events[x].msg, "event")]
        OBVIOUS
      <3>5. Makes(f, ids, new, "event")
        <4>1. \A x \in ids : f[x] \in new /\ f[x] \in AnExample /\ f[x].src = "event"
          BY <3>2, <3>3, <3>4
        <4>2. \A e \in new : \E x \in ids : f[x] = e
          BY <3>2, <3>4
        <4> QED
          BY <4>1, <4>2 DEF Makes
      <3>6. IsFiniteSet(ids)
        BY <3>1, TasksFinite, FS_Subset
      <3>7. SetToSeq(new) \in Seq(AnExample) /\ Range(SetToSeq(new)) = new
        BY <3>5, <3>6, Examples
      <3>8. \A e \in new : e.task # t
        <4>1. \A x \in ids : x # t /\ Example(events[x].msg, "event").task = x
          BY <2>6, <3>3
        <4> QED
          BY <3>2, <4>1
      <3>9. AppendExamples(d, new)
        BY <2>1, <3>2
      <3>10. PICK q \in Seq(AnExample) : q = SetToSeq(new) /\ Range(q) = new
        BY <3>7
      <3>11. buffer'[d] = buffer[d] \o q /\ \A o \in Domains \ {d} : buffer'[o] = buffer[o]
        BY <1>0, <3>0, <3>1, <3>7, <3>9, <3>10, AppendFacts
      <3>12. ASSUME NEW o \in Domains PROVE Copies(t, o)' <= Copies(t, o)
        <4>1. CASE o = d
          <5>1. Places(t, d)' \subseteq Places(t, d)
            BY <1>0, <3>0, <3>1, <3>8, <3>10, <3>11, OthersAppended
          <5> QED
            BY <1>0, <3>1, <4>1, <5>1, FewerPlaces
        <4>2. CASE o # d
          <5>1. buffer'[o] = buffer[o] /\ files'[o] = files[o]
            BY <3>0, <3>11, <4>2
          <5>2. Places(t, o)' \subseteq Places(t, o)
            BY <5>1, FewerHits
          <5> QED
            BY <1>0, <5>2, FewerPlaces
        <4> QED
          BY <4>1, <4>2
      <3> QED
        BY <3>12 DEF NoMore
    <2> QED
      BY <2>5, <2>6 DEF Narrows
  <1>3. CASE MarkCurated(c)
    <2>1. PICK r, v : /\ r = [co[c] EXCEPT !.at = "flush", !.version = v] \/ r = NextDomain(c)
                      /\ co' = [co EXCEPT ![c] = r]
      BY <1>3 DEF MarkCurated
    <2>2. r.rows \subseteq co[c].rows
      <3>1. CASE r = NextDomain(c)
        BY <1>0, <3>1, NextDomainFacts
      <3>2. CASE r = [co[c] EXCEPT !.at = "flush", !.version = v]
        <4>1. co[c] \in Local
          BY <1>0, LocalFacts
        <4>2. r.rows = co[c].rows
          BY <3>2, <4>1 DEF Local
        <4> QED
          BY <4>2
      <3> QED
        BY <2>1, <3>1, <3>2
    <2>3. Narrows
      BY <1>0, <2>1, <2>2, OneNarrows
    <2>4. UNCHANGED <<buffer, files>>
      BY <1>3 DEF MarkCurated, dataVars
    <2> QED
      BY <1>0, <2>3, <2>4, DataSame DEF Narrows
  <1>4. CASE Flush(c)
    <2>1. PICK d \in Domains, v \in Nat : d = co[c].dom /\ v = co[c].version /\ v # 0
      BY <1>0, <1>4, LocalFacts DEF CuratorHolds, Flush
    <2>2. WriteFile(d, v, buffer[d]) /\ buffer' = [buffer EXCEPT ![d] = <<>>] /\ co' = [co EXCEPT ![c] = NextDomain(c)]
      BY <1>4, <2>1 DEF Flush
    <2>3. Narrows
      BY <1>0, <2>2, NextDomainFacts, OneNarrows
    <2>4. NoMore(t)
      BY <1>0, <2>1, <2>2, BufferWritten DEF NoMore
    <2> QED
      BY <2>3, <2>4 DEF Narrows
  <1> QED
    BY <1>1, <1>2, <1>3, <1>4 DEF Step

\* The steps of the cycle that curate nothing from the events.
LEMMA CycleMarked ==
    ASSUME OrionIInv, NEW t, StartCycle \/ Extract \/ CycleFails \/ CurateSignal
    PROVE  Narrows /\ NoMore(t)
  <1>0. Types /\ "cycle" \in Coroutines
    BY DEF OrionIInv, Coroutines
  <1>1. CASE StartCycle
    <2>1. co' = [co EXCEPT !["cycle"].at = "curate"] /\ UNCHANGED <<buffer, files>>
      BY <1>1 DEF StartCycle, dataVars
    <2> QED
      BY <1>0, <2>1, AtNarrows, DataSame
  <1>2. CASE Extract \/ CycleFails
    <2>1. /\ \E r : (r = Idle \/ r = [Idle EXCEPT !.at = "signals", !.signals = Signals]) /\ co' = [co EXCEPT !["cycle"] = r]
          /\ UNCHANGED <<buffer, files>>
      BY <1>2 DEF Extract, CycleFails, dataVars
    <2>2. PICK r : (r = Idle \/ r = [Idle EXCEPT !.at = "signals", !.signals = Signals]) /\ co' = [co EXCEPT !["cycle"] = r]
      BY <2>1
    <2>3. r.rows = {}
      BY <2>2, IdleFacts DEF Idle
    <2> QED
      BY <1>0, <2>1, <2>2, <2>3, OneNarrows, DataSame
  <1>3. CASE CurateSignal
    <2>a. PICK cat \in {sig[1] : sig \in co["cycle"].signals}, d \in Domains :
            LET rest == co["cycle"].signals \ {<<cat, d>>}
                next == [Idle EXCEPT !.at = IF rest = {} THEN "idle" ELSE "signals", !.signals = rest]
                new == {Example(ReadBack(feedback[i]), "signal") : i \in Curatable(cat, d)}
            IN /\ <<cat, d>> \in co["cycle"].signals
               /\ AppendExamples(d, new)
               /\ co' = [co EXCEPT !["cycle"] =
                     IF new # {} /\ ShouldFlush(buffer[d] \o SetToSeq(new))
                     THEN [next EXCEPT !.at = "flush", !.dom = d, !.version = NextVersion(d)]
                     ELSE next]
      BY <1>3, Zenon DEF CurateSignal
    <2>b. PICK rest : rest = co["cycle"].signals \ {<<cat, d>>}
      OBVIOUS
    <2>c. PICK next : next = [Idle EXCEPT !.at = IF rest = {} THEN "idle" ELSE "signals", !.signals = rest]
      OBVIOUS
    <2>d. PICK new : new = {Example(ReadBack(feedback[i]), "signal") : i \in Curatable(cat, d)}
      OBVIOUS
    <2>e. PICK r : r = IF new # {} /\ ShouldFlush(buffer[d] \o SetToSeq(new))
                       THEN [next EXCEPT !.at = "flush", !.dom = d, !.version = NextVersion(d)]
                       ELSE next
      OBVIOUS
    <2>1. AppendExamples(d, new) /\ co' = [co EXCEPT !["cycle"] = r]
      BY <2>a, <2>b, <2>c, <2>d, <2>e, Zenon
    <2>2. r.rows = {}
      <3>1. next.rows = {} /\ next = [Idle EXCEPT !.at = next.at, !.signals = next.signals]
        BY <2>c DEF Idle
      <3> QED
        BY <2>e, <3>1 DEF Idle
    <2>3. Narrows
      BY <1>0, <2>1, <2>2, OneNarrows
    <2>4. UNCHANGED <<files, gone>>
      BY <1>3 DEF CurateSignal, ghostVars
    <2>5. PICK I : I = Curatable(cat, d)
      OBVIOUS
    <2>6. I \subseteq 1..Len(feedback) /\ IsFiniteSet(I)
      <3>1. I \subseteq 1..Len(feedback)
        BY <2>5 DEF Curatable, CorrectionPairs, HighQuality, Deduped, Window
      <3>2. Len(feedback) \in Nat
        BY <1>0 DEF Types
      <3>3. IsFiniteSet(1..Len(feedback))
        BY <3>2, FS_Interval
      <3> QED
        BY <3>1, <3>3, FS_Subset
    <2>7. PICK f : f = [i \in I |-> Example(ReadBack(feedback[i]), "signal")]
      OBVIOUS
    <2>8. ASSUME NEW i \in I PROVE f[i] \in AnExample /\ f[i].src = "signal"
      <3>1. PICK m \in Messages : m = feedback[i].msg
        BY <1>0, <2>6, FeedbackFacts
      <3>2. f[i] = Example([m EXCEPT !.verified = FALSE], "signal")
        BY <2>7, <3>1 DEF ReadBack
      <3>3. /\ Example([m EXCEPT !.verified = FALSE], "signal") \in AnExample
            /\ Example([m EXCEPT !.verified = FALSE], "signal").src = "signal"
        BY ExampleFacts
      <3> QED
        BY <3>2, <3>3
    <2>9. Makes(f, I, new, "signal")
      <3>1. \A i \in I : f[i] \in new /\ f[i] \in AnExample /\ f[i].src = "signal"
        BY <2>d, <2>5, <2>7, <2>8
      <3>2. \A e \in new : \E i \in I : f[i] = e
        BY <2>d, <2>5, <2>7
      <3> QED
        BY <3>1, <3>2 DEF Makes
    <2>10. SetToSeq(new) \in Seq(AnExample) /\ Range(SetToSeq(new)) = new /\ \A e \in new : e.src = "signal"
      BY <2>6, <2>9, Examples
    <2>11. PICK q \in Seq(AnExample) : q = SetToSeq(new) /\ Range(q) = new
      BY <2>10
    <2>12. buffer'[d] = buffer[d] \o q /\ \A o \in Domains \ {d} : buffer'[o] = buffer[o]
      BY <1>0, <2>1, <2>4, <2>10, <2>11, AppendFacts
    <2>13. ASSUME NEW o \in Domains PROVE Copies(t, o)' <= Copies(t, o)
      <3>1. CASE o = d
        <4>1. Places(t, d)' \subseteq Places(t, d)
          BY <1>0, <2>4, <2>10, <2>11, <2>12, OthersAppended
        <4> QED
          BY <1>0, <3>1, <4>1, FewerPlaces
      <3>2. CASE o # d
        <4>1. buffer'[o] = buffer[o] /\ files'[o] = files[o]
          BY <2>4, <2>12, <3>2
        <4>2. Places(t, o)' \subseteq Places(t, o)
          BY <4>1, FewerHits
        <4> QED
          BY <1>0, <4>2, FewerPlaces
      <3> QED
        BY <3>1, <3>2
    <2> QED
      BY <2>3, <2>13 DEF NoMore
  <1> QED
    BY <1>1, <1>2, <1>3

\* The process and the training request.
LEMMA ProcessMarked ==
    ASSUME OrionIInv, NEW t, Start \/ UnlinkLegacy \/ Crash \/ (\E d \in Domains : StartTraining(d)) \/ FinishTraining
    PROVE  Narrows /\ NoMore(t)
  <1>0. Types
    BY DEF OrionIInv
  <1>1. CASE Start \/ UnlinkLegacy \/ \E d \in Domains : StartTraining(d)
    <2>1. co' = co /\ UNCHANGED <<buffer, files>>
      BY <1>1 DEF Start, UnlinkLegacy, StartTraining, dataVars
    <2> QED
      BY <1>0, <2>1, DataSame DEF Narrows
  <1>2. CASE Crash
    <2>1. co' = [c \in Coroutines |-> Idle] /\ buffer' = [d \in Domains |-> <<>>] /\ files' = files
      BY <1>2 DEF Crash
    <2>2. Narrows
      BY <2>1, IdleFacts DEF Narrows
    <2>3. ASSUME NEW d \in Domains PROVE Copies(t, d)' <= Copies(t, d)
      <3>1. buffer'[d] = <<>> /\ files'[d] = files[d]
        BY <2>1
      <3>2. Hits(t, buffer'[d]) = {}
        BY <3>1 DEF Hits
      <3>3. Places(t, d)' \subseteq Places(t, d)
        BY <3>1, <3>2, FewerHits
      <3> QED
        BY <1>0, <3>3, FewerPlaces
    <2> QED
      BY <2>2, <2>3 DEF NoMore
  <1>3. CASE FinishTraining
    <2>0. trainer.at = "write" /\ co' = co /\ buffer' = buffer
      BY <1>3 DEF FinishTraining
    <2>1. PICK o \in Domains, v \in Nat, content \in Seq(AnExample) :
             /\ o = trainer.dom /\ v = trainer.version /\ v # 0 /\ content = TrainExamples(trainer.rows)
             /\ \A e \in Range(content) : e.src = "training"
      BY <2>0, TrainExamplesFacts
    <2>2. WriteFile(o, v, content)
      BY <1>3, <2>1 DEF FinishTraining
    <2>3. ASSUME NEW d \in Domains PROVE Copies(t, d)' <= Copies(t, d)
      <3>1. Places(t, d)' \subseteq Places(t, d)
        BY <1>0, <2>0, <2>1, <2>2, OthersWritten
      <3> QED
        BY <1>0, <3>1, FewerPlaces
    <2> QED
      BY <2>0, <2>3 DEF Narrows, NoMore
  <1> QED
    BY <1>1, <1>2, <1>3

\* The mark settles it: whichever of the listeners and the cycle curates next,
\* no coroutine reads a marked row again, and the number of its examples grows
\* only through a coroutine that held the row before the mark (mark_curated,
\* get_uncurated_events, append_example, flush).
THEOREM MarksStand == Spec => MarkedStaysOut
  <1>1. ASSUME OrionIInv, Next, NEW t \in curated
        PROVE  /\ \A c \in Coroutines : t \notin co[c].rows => t \notin co'[c].rows
               /\ (\A c \in Coroutines : t \notin co[c].rows) => \A d \in Domains : Copies(t, d)' <= Copies(t, d)
    <2>0. Types /\ Streams \subseteq Coroutines /\ "cycle" \in Coroutines
      BY <1>1 DEF OrionIInv, Coroutines
    <2>1. ASSUME Narrows, NoMore(t)
          PROVE  /\ \A c \in Coroutines : t \notin co[c].rows => t \notin co'[c].rows
                 /\ (\A c \in Coroutines : t \notin co[c].rows) => \A d \in Domains : Copies(t, d)' <= Copies(t, d)
      BY <2>1 DEF Narrows, NoMore
    <2>2. ASSUME NEW c \in Coroutines, Step(c)
          PROVE  /\ \A o \in Coroutines : t \notin co[o].rows => t \notin co'[o].rows
                 /\ (\A o \in Coroutines : t \notin co[o].rows) => \A d \in Domains : Copies(t, d)' <= Copies(t, d)
      BY <1>1, <2>2, StepMarked DEF NoMore
    <2>3. ASSUME NEW s \in Streams, Listen(s) \/ HandlerFails(s) \/ AckFails(s)
          PROVE  Step(s) \/ (Narrows /\ NoMore(t))
      BY <2>0, <2>3, ListenNarrows, DataSame DEF Listen
    <2>4. CASE StartCycle \/ Cycle \/ CycleFails
      <3>1. Step("cycle") \/ (Narrows /\ NoMore(t))
        BY <1>1, <2>4, CycleMarked DEF Cycle
      <3> QED
        BY <2>0, <2>1, <2>2, <3>1
    <2>5. CASE Start \/ UnlinkLegacy \/ Crash \/ (\E d \in Domains : StartTraining(d)) \/ FinishTraining
      BY <1>1, <2>1, <2>5, ProcessMarked
    <2>6. CASE \E s \in Streams : Listen(s) \/ HandlerFails(s) \/ AckFails(s)
      <3>1. PICK s \in Streams : Step(s) \/ (Narrows /\ NoMore(t))
        BY <2>3, <2>6
      <3> QED
        BY <2>0, <2>1, <2>2, <3>1
    <2> QED
      BY <1>1, <2>4, <2>5, <2>6 DEF Next
  <1>2. OrionIInv /\ [Next]_vars =>
          [\A t \in curated :
              /\ \A c \in Coroutines : t \notin co[c].rows => t \notin co'[c].rows
              /\ (\A c \in Coroutines : t \notin co[c].rows) =>
                     \A d \in Domains : Copies(t, d)' <= Copies(t, d)]_vars
    BY <1>1
  <1> QED
    BY <1>2, Inductive, PTL DEF Spec, MarkedStaysOut

=============================================================================
