---------------------------- MODULE Agents_proofs ----------------------------
(***************************************************************************)
(* The provider limiter and the agents behind it, for every number of      *)
(* runs, every cap, every set of tasks, file names and critique scores and *)
(* every number of failures.                                               *)
(***************************************************************************)
EXTENDS Agents, FiniteSetTheorems, TLAPS

(* The limiter.  SlotsBalance is not inductive: that a caller has at most   *)
(* one request for its current call needs that the requests that outlived   *)
(* their callers belong to earlier calls, and that no request exists before *)
(* the permit is acquired.                                                  *)

CallRecord == [by : Callers, n : Nat, st : {"queued", "running", "done"}]

\* No two requests belong to the same call, and none to a call not yet made.
RequestsDistinct ==
    /\ \A k, l \in calls : k.by = l.by /\ k.n = l.n => k = l
    /\ \A k \in calls : k.n <= made[k.by]
    /\ \A k \in calls : reply[k.by] = "slot" => k.n # made[k.by]

LimiterInv ==
    /\ LimiterTypeOK
    /\ IsFiniteSet(calls)
    /\ permits + Cardinality(calls) = Cap
    /\ RequestsDistinct

(* Rigel.  What a run executed is the file as it was then: whoever wrote it *)
(* last wrote a file of that name, and a file that was written always has   *)
(* an author.                                                               *)

Run == [pc : {"start", "absent", "skill", "write", "execute", "critique", "returned", "raised"},
        task : RigelTasks, sound : BOOLEAN, todo : Nat, files : Seq(Names), refused : BOOLEAN,
        exec : {"none", "pass", "fail", "timeout", "error", "unavailable"},
        ran : RigelRuns \cup {Nobody}, score : Nat, confidence : Nat,
        fed : {"none", "success", "fail"}, unfed : BOOLEAN]

RigelTypeOK ==
    /\ rigel \in [RigelRuns -> Run]
    /\ workspace \in [Names -> RigelRuns \cup {Nobody}]

\* Run q wrote a file of this name.
Wrote(q, name) == \E i \in DOMAIN rigel[q].files : rigel[q].files[i] = name

\* The evidence of a run is about its own program or one that replaced it.
EvidenceInv(r) ==
    rigel[r].exec = "pass" =>
        /\ rigel[r].ran \in RigelRuns /\ rigel[rigel[r].ran].sound
        /\ rigel[r].ran = r \/ Wrote(rigel[r].ran, rigel[r].files[1])

\* What a run has reported, by where it stands.
Report(run) ==
    /\ run.pc # "returned" => run.fed = "none"
    /\ run.pc \in {"start", "absent", "skill"} => run.files = <<>>
    /\ run.pc \notin {"critique", "returned"} => run.exec = "none"
    /\ run.refused => run.pc = "raised" /\ run.files = <<>>
    /\ run.pc = "returned" =>
         /\ (run.exec \notin {"none", "pass"} /\ run.score <= 100) => run.confidence < CompletionThreshold
         /\ run.fed = "success" => run.exec \in {"none", "pass"}
         /\ run.fed = "none" => run.unfed \/ run.score > 100

RigelInv ==
    /\ RigelTypeOK
    /\ \A n \in Names : workspace[n] # Nobody => Wrote(workspace[n], n)
    /\ \A r \in RigelRuns : \A i \in DOMAIN rigel[r].files : workspace[rigel[r].files[i]] # Nobody
    /\ \A r \in RigelRuns : EvidenceInv(r) /\ Report(rigel[r])

(* Vega.  The place of a run fixes how many records are on the stream and   *)
(* what the last one says.                                                  *)

Status == {"pending", "running", "complete", "failed"}
Record == [stage : Nat, status : Status]
VegaRun == [pc : {"start", "absent", "pending", "asked", "done", "failing", "next", "finally", "ended"},
            task : VegaTasks, stage : Nat, record : Status \cup {"none"}, published : Seq(Record),
            tries : {0, 1}, answer : {"none", "result", "fallback", "raised"},
            fed : {"none", "partial", "success", "fail"}, lost : BOOLEAN]

\* The records follow the life cycle, stage after stage.
Chain(p) ==
    \A i \in 1 .. Len(p) - 1 :
        IF p[i + 1].stage = p[i].stage THEN p[i + 1].status \in ValidTransitions[p[i].status]
        ELSE p[i + 1].stage = p[i].stage + 1 /\ p[i].status = "complete" /\ p[i + 1].status = "pending"

\* The last record.
Last(p, stage, status) == p # <<>> /\ p[Len(p)] = [stage |-> stage, status |-> status]

\* Every stage was announced as complete.
StagesOf(task) == IF task.results = "none" THEN 2 ELSE 3
AllDone(p, stages) == Len(p) = 3 * stages /\ p[Len(p)].status = "complete"

\* A stage was announced as begun and not as ended.
LeftOpen(p) == p # <<>> /\ p[Len(p)].status \in {"pending", "running"}

Place(run) ==
    LET p == run.published  n == run.stage  done == AllDone(run.published, StagesOf(run.task)) IN
    /\ Chain(p)
    /\ run.pc = "start" => p = <<>> /\ n = 0
    /\ run.pc = "next" => Len(p) = 3 * n /\ n > 0 /\ Last(p, n, "complete")
    /\ run.pc = "pending" => Len(p) = 3 * n - 2 /\ n > 0 /\ Last(p, n, "pending")
    /\ run.pc \in {"asked", "done", "failing"} => Len(p) = 3 * n - 1 /\ n > 0 /\ Last(p, n, "running")
    /\ run.pc = "finally" => ~done /\ (LeftOpen(p) => run.lost)
    /\ (run.pc = "ended" /\ run.task.skill # "test_case_execution") =>
          /\ (run.answer = "result") <=> done
          /\ run.fed \in {"partial", "success"} => done
          /\ run.fed = "fail" => ~done
          /\ LeftOpen(p) => run.lost

VegaInv ==
    /\ vega \in [VegaRuns -> VegaRun]
    /\ \A v \in VegaRuns : Place(vega[v])

-----------------------------------------------------------------------------
(* The limiter.                                                             *)

\* What the environment of the limiter, the agents, may do: make a call, take
\* the reply, or nothing.
CallerStep(c) ==
    \/ AskProvider(c)
    \/ \E r \in {"text", "error"} : TakeReply(c, r)
    \/ /\ reply[c] = "text" /\ reply' = [reply EXCEPT ![c] = "slot"]
       /\ made' = [made EXCEPT ![c] = @ + 1] /\ UNCHANGED <<permits, calls>>

\* Callers change their own reply and count their calls.
LEMMA CallerKeeps ==
    ASSUME LimiterInv, NEW c \in Callers, CallerStep(c)
    PROVE  LimiterInv'
  <1>1. /\ UNCHANGED <<permits, calls>>
        /\ \/ /\ reply' = [reply EXCEPT ![c] = "slot"] /\ made' = [made EXCEPT ![c] = @ + 1]
           \/ reply' = [reply EXCEPT ![c] = "idle"] /\ made' = made
    BY DEF CallerStep, AskProvider, TakeReply
  <1>2. LimiterTypeOK'
    BY <1>1 DEF LimiterInv, LimiterTypeOK
  <1>3. RequestsDistinct'
    <2>1. ASSUME NEW k \in calls
          PROVE  k.n <= made'[k.by] /\ (reply'[k.by] = "slot" => k.n # made'[k.by])
      <3>1. k.by \in Callers /\ k.n \in Nat /\ made[k.by] \in Nat /\ k.n <= made[k.by]
            /\ (reply[k.by] = "slot" => k.n # made[k.by])
        BY DEF LimiterInv, LimiterTypeOK, RequestsDistinct
      <3> QED
        BY <1>1, <3>1 DEF LimiterInv, LimiterTypeOK
    <2> QED
      BY <1>1, <2>1 DEF LimiterInv, RequestsDistinct
  <1> QED
    BY <1>1, <1>2, <1>3 DEF LimiterInv

\* A request goes on to its next state: still one request.
LEMMA RequestMoves ==
    ASSUME LimiterInv, NEW k \in calls, NEW s \in {"running", "done"},
           calls' = (calls \ {k}) \cup {[k EXCEPT !.st = s]},
           permits' = permits, made' = made,
           reply' \in [Callers -> {"idle", "slot", "answer", "text", "error"}],
           \A c \in Callers : reply'[c] = "slot" => reply[c] = "slot"
    PROVE  LimiterInv'
  <1>1. k \in CallRecord /\ calls \subseteq CallRecord /\ IsFiniteSet(calls)
    BY DEF LimiterInv, LimiterTypeOK, CallRecord
  <1>2. PICK l \in CallRecord : l = [k EXCEPT !.st = s] /\ l.by = k.by /\ l.n = k.n
    <2>1. /\ [k EXCEPT !.st = s] \in CallRecord
          /\ [k EXCEPT !.st = s].by = k.by /\ [k EXCEPT !.st = s].n = k.n
      BY <1>1 DEF CallRecord
    <2> QED
      BY <2>1
  <1>3. calls' \subseteq CallRecord /\ calls' = (calls \ {k}) \cup {l}
    BY <1>1, <1>2
  <1>4. \A m \in calls \ {k} : m # l
    BY <1>2 DEF LimiterInv, RequestsDistinct
  <1>5. IsFiniteSet(calls \ {k}) /\ Cardinality(calls \ {k}) = Cardinality(calls) - 1
    BY <1>1, FS_RemoveElement
  <1>6. IsFiniteSet(calls') /\ Cardinality(calls') = Cardinality(calls \ {k}) + 1
    <2>1. l \notin calls \ {k}
      BY <1>4
    <2>2. /\ IsFiniteSet((calls \ {k}) \cup {l})
          /\ Cardinality((calls \ {k}) \cup {l}) = Cardinality(calls \ {k}) + 1
      BY <1>5, <2>1, FS_AddElement
    <2> QED
      BY <1>3, <2>2
  <1>7. Cardinality(calls') = Cardinality(calls)
    <2>1. Cardinality(calls) \in Nat
      BY <1>1, FS_CardinalityType
    <2> QED
      BY <1>5, <1>6, <2>1
  <1>8. RequestsDistinct'
    <2>1. \A m \in calls' : m \in calls \/ m = l
      BY <1>3
    <2>2. ASSUME NEW m \in calls', NEW q \in calls', m.by = q.by, m.n = q.n PROVE m = q
      <3>1. \A x, y \in calls : x.by = y.by /\ x.n = y.n => x = y
        BY DEF LimiterInv, RequestsDistinct
      <3>2. \A x \in calls \ {k} : ~(x.by = l.by /\ x.n = l.n)
        BY <1>2, <3>1
      <3>3. (m \in calls \ {k} \/ m = l) /\ (q \in calls \ {k} \/ q = l)
        BY <1>3
      <3> QED
        BY <2>2, <3>1, <3>2, <3>3
    <2>3. ASSUME NEW m \in calls' PROVE m.n <= made'[m.by] /\ (reply'[m.by] = "slot" => m.n # made'[m.by])
      <3>1. PICK q \in calls : q.by = m.by /\ q.n = m.n
        BY <1>2, <2>1
      <3>2. q.by \in Callers
        BY <1>1 DEF CallRecord
      <3> QED
        BY <3>1, <3>2 DEF LimiterInv, RequestsDistinct
    <2> QED
      BY <2>2, <2>3 DEF RequestsDistinct
  <1>9. LimiterTypeOK'
    BY <1>3 DEF LimiterInv, LimiterTypeOK, CallRecord
  <1> QED
    BY <1>6, <1>7, <1>8, <1>9 DEF LimiterInv

\* A request ends and its permit goes back.
LEMMA RequestLeaves ==
    ASSUME LimiterInv, NEW k \in calls, calls' = calls \ {k},
           permits' = permits + 1, made' = made,
           reply' \in [Callers -> {"idle", "slot", "answer", "text", "error"}],
           \A c \in Callers : reply'[c] = "slot" => reply[c] = "slot"
    PROVE  LimiterInv'
  <1>1. calls \subseteq CallRecord /\ IsFiniteSet(calls) /\ Cardinality(calls) \in Nat
    BY FS_CardinalityType DEF LimiterInv, LimiterTypeOK, CallRecord
  <1>2. IsFiniteSet(calls \ {k}) /\ Cardinality(calls \ {k}) = Cardinality(calls) - 1
    BY <1>1, FS_RemoveElement
  <1>3. permits' + Cardinality(calls') = Cap
    BY <1>1, <1>2 DEF LimiterInv, LimiterTypeOK
  <1>4. LimiterTypeOK'
    BY DEF LimiterInv, LimiterTypeOK
  <1>5. RequestsDistinct'
    <2>1. \A m \in calls : m.by \in Callers
      BY <1>1 DEF CallRecord
    <2> QED
      BY <2>1 DEF LimiterInv, RequestsDistinct
  <1> QED
    BY <1>2, <1>3, <1>4, <1>5 DEF LimiterInv

\* A caller gets a permit: its request is new, because it has none for this call.
LEMMA RequestEnters ==
    ASSUME LimiterInv, NEW c \in Callers, AcquireSlot(c)
    PROVE  LimiterInv'
  <1>1. calls \subseteq CallRecord /\ IsFiniteSet(calls) /\ Cardinality(calls) \in Nat
        /\ made \in [Callers -> Nat] /\ permits \in Nat
    BY FS_CardinalityType DEF LimiterInv, LimiterTypeOK, CallRecord
  <1>2. PICK l \in CallRecord : l = [by |-> c, n |-> made[c], st |-> "queued"] /\ l.by = c /\ l.n = made[c]
    <2>1. [by |-> c, n |-> made[c], st |-> "queued"] \in CallRecord
      BY <1>1 DEF CallRecord
    <2> QED
      BY <2>1
  <1>3. calls' = calls \cup {l} /\ permits > 0 /\ permits' = permits - 1 /\ made' = made
        /\ reply[c] = "slot" /\ reply' = [reply EXCEPT ![c] = "answer"]
    BY <1>2 DEF AcquireSlot
  <1>4. \A m \in calls : ~(m.by = l.by /\ m.n = l.n)
    BY <1>2, <1>3 DEF LimiterInv, RequestsDistinct
  <1>5. IsFiniteSet(calls \cup {l}) /\ Cardinality(calls \cup {l}) = Cardinality(calls) + 1
    <2>1. l \notin calls
      BY <1>4
    <2> QED
      BY <1>1, <2>1, FS_AddElement
  <1>6. permits' + Cardinality(calls') = Cap
    BY <1>1, <1>3, <1>5 DEF LimiterInv
  <1>7. LimiterTypeOK'
    BY <1>1, <1>2, <1>3 DEF LimiterInv, LimiterTypeOK, CallRecord
  <1>8. RequestsDistinct'
    <2>1. ASSUME NEW m \in calls', NEW q \in calls', m.by = q.by, m.n = q.n PROVE m = q
      BY <1>3, <1>4, <2>1 DEF LimiterInv, RequestsDistinct
    <2>2. ASSUME NEW m \in calls' PROVE m.n <= made'[m.by] /\ (reply'[m.by] = "slot" => m.n # made'[m.by])
      <3>1. reply \in [Callers -> {"idle", "slot", "answer", "text", "error"}]
        BY DEF LimiterInv, LimiterTypeOK
      <3>2. CASE m = l
        BY <1>1, <1>2, <1>3, <3>1, <3>2
      <3>3. CASE m \in calls
        <4>1. m.by \in Callers /\ m.n <= made[m.by] /\ (reply[m.by] = "slot" => m.n # made[m.by])
          BY <1>1, <3>3 DEF CallRecord, LimiterInv, RequestsDistinct
        <4> QED
          BY <1>3, <3>1, <4>1
      <3> QED
        BY <1>3, <3>2, <3>3
    <2> QED
      BY <2>1, <2>2 DEF RequestsDistinct
  <1> QED
    BY <1>3, <1>5, <1>6, <1>7, <1>8 DEF LimiterInv

\* Every step of the limiter's own threads.
LEMMA LimiterKeeps ==
    ASSUME LimiterInv, LimiterStep
    PROVE  LimiterInv'
  <1>1. /\ reply \in [Callers -> {"idle", "slot", "answer", "text", "error"}]
        /\ \A k \in calls : k.by \in Callers
        /\ IsFiniteSet(calls) /\ permits \in Nat
    BY DEF LimiterInv, LimiterTypeOK
  <1>2. ASSUME NEW c \in Callers, SubmitFails(c) PROVE LimiterInv'
    BY <1>1, <1>2 DEF SubmitFails, LimiterInv, LimiterTypeOK, RequestsDistinct
  <1>3. ASSUME NEW c \in Callers, CallTimesOut(c) PROVE LimiterInv'
    <2>1. /\ reply' \in [Callers -> {"idle", "slot", "answer", "text", "error"}] /\ made' = made
          /\ \A d \in Callers : reply'[d] = "slot" => reply[d] = "slot"
      BY <1>1, <1>3 DEF CallTimesOut
    <2>2. PICK gone \in SUBSET calls : gone = {k \in Current(c) : k.st = "queued"}
          /\ calls' = calls \ gone /\ permits' = permits + Cardinality(gone)
      BY <1>3 DEF CallTimesOut, Current
    <2>3. \A k, l \in gone : k = l
      BY <2>2 DEF LimiterInv, RequestsDistinct, Current
    <2>4. CASE gone = {}
      <3>1. calls' = calls /\ permits' = permits
        BY <1>1, <2>2, <2>4, FS_EmptySet
      <3> QED
        BY <1>1, <2>1, <3>1 DEF LimiterInv, LimiterTypeOK, RequestsDistinct
    <2>5. CASE gone # {}
      <3>1. PICK k \in gone : gone = {k}
        BY <2>3, <2>5
      <3>2. k \in calls /\ calls' = calls \ {k} /\ permits' = permits + 1
        BY <2>2, <3>1, FS_Singleton
      <3> QED
        BY <2>1, <3>2, RequestLeaves
    <2> QED
      BY <2>4, <2>5
  <1>4. ASSUME NEW k \in calls, WorkerTakes(k) PROVE LimiterInv'
    BY <1>1, <1>4, RequestMoves DEF WorkerTakes
  <1>5. ASSUME NEW k \in calls, ProviderAnswers(k) PROVE LimiterInv'
    <2>1. /\ reply' \in [Callers -> {"idle", "slot", "answer", "text", "error"}]
          /\ \A d \in Callers : reply'[d] = "slot" => reply[d] = "slot"
      BY <1>1, <1>5 DEF ProviderAnswers
    <2> QED
      BY <1>5, <2>1, RequestMoves DEF ProviderAnswers
  <1>6. ASSUME NEW k \in calls, ReleaseSlot(k) PROVE LimiterInv'
    BY <1>1, <1>6, RequestLeaves DEF ReleaseSlot
  <1> QED
    BY <1>2, <1>3, <1>4, <1>5, <1>6, RequestEnters DEF LimiterStep

\* The agents only ask, take replies and ask again.
LEMMA AgentsOnlyCall ==
    ASSUME RigelStep \/ VegaStep
    PROVE  UNCHANGED limiterVars \/ \E c \in Callers : CallerStep(c)
  <1>1. ASSUME NEW r \in RigelRuns,
               \/ CallSkill(r) \/ SkillRaises(r) \/ ScanRefuses(r) \/ NormalizeOutput(r)
               \/ WriteFails(r) \/ Execute(r) \/ FinishRun(r)
               \/ \E name \in Names : WriteFile(r, name)
        PROVE  UNCHANGED limiterVars \/ CallerStep(r)
    BY <1>1 DEF CallSkill, SkillRaises, ScanRefuses, NormalizeOutput, WriteFails, Execute, FinishRun, WriteFile, CallerStep
  <1>2. ASSUME NEW v \in VegaRuns,
               \/ BeginStage(v) \/ RunStage(v) \/ ReplyUnparsable(v) \/ StageParses(v) \/ StageRaises(v)
               \/ CompleteStage(v) \/ FailStage(v) \/ EndPipeline(v) \/ CountResults(v)
        PROVE  UNCHANGED limiterVars \/ CallerStep(v)
    BY <1>2 DEF BeginStage, RunStage, ReplyUnparsable, StageParses, StageRaises, CompleteStage, FailStage,
                EndPipeline, CountResults, CallerStep
  <1> QED
    BY <1>1, <1>2, AgentsAssumption DEF RigelStep, VegaStep

\* At every moment the permits and the requests add up, and a request that is
\* queued leaves a thread for itself.
LEMMA LimiterGivesBalance ==
    ASSUME LimiterInv PROVE SlotsBalance
  <1>1. IsFiniteSet(calls) /\ Cardinality(calls) \in Nat /\ permits \in Nat /\ permits + Cardinality(calls) = Cap
    BY FS_CardinalityType DEF LimiterInv, LimiterTypeOK
  <1>2. ASSUME NEW c \in Callers PROVE Cardinality(Current(c)) <= 1
    <2>1. PICK now \in SUBSET calls : now = Current(c)
      BY DEF Current
    <2>2. \A k, l \in now : k = l
      BY <2>1 DEF Current, LimiterInv, RequestsDistinct
    <2>3. CASE now = {}
      BY <2>1, <2>3, FS_EmptySet
    <2>4. CASE now # {}
      <3>1. PICK k \in now : now = {k}
        BY <2>2, <2>4
      <3>2. Cardinality({k}) = 1
        BY FS_Singleton
      <3> QED
        BY <2>1, <3>1, <3>2
    <2> QED
      BY <2>3, <2>4
  <1>3. ASSUME NEW k \in calls, k.st = "queued" PROVE Cardinality(Busy) < Cap
    <2>1. Busy \subseteq calls \ {k}
      BY <1>3 DEF Busy
    <2>2. IsFiniteSet(calls \ {k}) /\ Cardinality(calls \ {k}) = Cardinality(calls) - 1
      BY <1>1, FS_RemoveElement
    <2>3. Cardinality(Busy) <= Cardinality(calls \ {k}) /\ IsFiniteSet(Busy)
      BY <2>1, <2>2, FS_Subset
    <2>4. Cardinality(Busy) \in Nat
      BY <2>3, FS_CardinalityType
    <2> QED
      BY <1>1, <2>2, <2>3, <2>4, LimiterAssumption
  <1> QED
    BY <1>1, <1>2, <1>3 DEF LimiterInv, SlotsBalance

\* The permits of the provider and its requests in flight add up to the cap
\* whatever the callers do, for every cap, number of callers and number of
\* failures (core/llm/limiter.py:25-69, provider.py:110-130).
THEOREM PermitsAddUp == AgentsSpec => []SlotsBalance
  <1>1. AgentsInit => LimiterInv
    BY FS_EmptySet, LimiterAssumption DEF AgentsInit, LimiterInit, LimiterInv, LimiterTypeOK, RequestsDistinct
  <1>2. LimiterInv /\ [AgentsNext]_agentVars => LimiterInv'
    <2> SUFFICES ASSUME LimiterInv, [AgentsNext]_agentVars PROVE LimiterInv'
      OBVIOUS
    <2>1. CASE UNCHANGED limiterVars
      BY <2>1 DEF limiterVars, LimiterInv, LimiterTypeOK, RequestsDistinct
    <2> QED
      BY <2>1, LimiterKeeps, CallerKeeps, AgentsOnlyCall DEF AgentsNext, agentVars
  <1> QED
    BY <1>1, <1>2, LimiterGivesBalance, PTL DEF AgentsSpec

-----------------------------------------------------------------------------
(* Rigel.                                                                   *)

\* A step of one run that writes no file: the other runs keep what they have,
\* and what is left to show is about the new state x of this run.
LEMMA OneRun ==
    ASSUME RigelInv, NEW r \in RigelRuns, NEW x \in Run,
           rigel' = [rigel EXCEPT ![r] = x], workspace' = workspace,
           x.sound = rigel[r].sound, x.files = rigel[r].files, Report(x),
           \/ x.exec = rigel[r].exec /\ x.ran = rigel[r].ran
           \/ x.exec # "pass"
           \/ /\ x.ran \in RigelRuns /\ rigel[x.ran].sound
              /\ x.ran = r \/ Wrote(x.ran, x.files[1])
    PROVE  RigelInv'
  <1>1. rigel \in [RigelRuns -> Run] /\ rigel' \in [RigelRuns -> Run] /\ rigel'[r] = x
        /\ \A q \in RigelRuns : q # r => rigel'[q] = rigel[q]
    BY DEF RigelInv, RigelTypeOK
  <1>2. \A q \in RigelRuns : rigel'[q].files = rigel[q].files /\ rigel'[q].sound = rigel[q].sound
    BY <1>1
  <1>3. RigelTypeOK'
    BY <1>1 DEF RigelInv, RigelTypeOK
  <1>4. \A n \in Names : workspace'[n] # Nobody => Wrote(workspace[n], n)'
    <2> TAKE n \in Names
    <2>1. workspace[n] # Nobody => workspace[n] \in RigelRuns /\ Wrote(workspace[n], n)
      BY DEF RigelInv, RigelTypeOK
    <2> QED
      BY <1>2, <2>1 DEF Wrote
  <1>5. \A q \in RigelRuns : \A i \in DOMAIN rigel'[q].files : workspace'[rigel'[q].files[i]] # Nobody
    BY <1>2 DEF RigelInv
  <1>6. ASSUME NEW q \in RigelRuns PROVE EvidenceInv(q)'
    <2>1. ASSUME NEW w \in RigelRuns, NEW name, Wrote(w, name) PROVE Wrote(w, name)'
      BY <1>2, <2>1 DEF Wrote
    <2>2. PICK run \in Run : run = rigel'[q]
      BY <1>1
    <2>3. run.exec = "pass" => /\ run.ran \in RigelRuns /\ rigel[run.ran].sound
                               /\ run.ran = q \/ Wrote(run.ran, run.files[1])
      BY <1>1, <2>2 DEF RigelInv, EvidenceInv
    <2>4. run.exec = "pass" => /\ run.ran \in RigelRuns /\ rigel'[run.ran].sound
                               /\ run.ran = q \/ Wrote(run.ran, run.files[1])'
      BY <1>2, <2>1, <2>3
    <2> QED
      BY <2>2, <2>4 DEF EvidenceInv, Wrote
  <1>7. \A q \in RigelRuns : Report(rigel'[q])
    BY <1>1 DEF RigelInv
  <1> QED
    BY <1>3, <1>4, <1>5, <1>6, <1>7 DEF RigelInv

\* Writing a file: the run becomes its author, and whoever wrote it before
\* still has it among its files.
LEMMA RunWrites ==
    ASSUME RigelInv, NEW r \in RigelRuns, NEW name \in Names, WriteFile(r, name)
    PROVE  RigelInv'
  <1>1. rigel \in [RigelRuns -> Run] /\ workspace \in [Names -> RigelRuns \cup {Nobody}] /\ rigel[r] \in Run
        /\ rigel[r].files \in Seq(Names) /\ rigel[r].pc = "write"
    BY DEF RigelInv, RigelTypeOK, Run, WriteFile
  <1>0. PICK files \in Seq(Names), pc \in {"execute", "write"} :
           /\ files = Append(rigel[r].files, name)
           /\ pc = IF Len(rigel[r].files) + 1 = rigel[r].todo THEN "execute" ELSE "write"
    <2>1. Append(rigel[r].files, name) \in Seq(Names)
      BY <1>1
    <2>2. (IF Len(rigel[r].files) + 1 = rigel[r].todo THEN "execute" ELSE "write") \in {"execute", "write"}
      OBVIOUS
    <2> QED
      BY <2>1, <2>2
  <1> DEFINE x == [rigel[r] EXCEPT !.files = files, !.pc = pc]
  <1>2. /\ x \in Run /\ x.files = files /\ x.sound = rigel[r].sound
        /\ x.exec = rigel[r].exec /\ x.ran = rigel[r].ran /\ x.refused = rigel[r].refused /\ x.fed = rigel[r].fed
        /\ x.pc \in {"execute", "write"}
    BY <1>1 DEF Run
  <1>3. rigel' = [rigel EXCEPT ![r] = x] /\ workspace' = [workspace EXCEPT ![name] = r]
    BY <1>1, <1>0 DEF WriteFile
  <1> HIDE DEF x
  <1>4. rigel' \in [RigelRuns -> Run] /\ rigel'[r] = x /\ \A q \in RigelRuns : q # r => rigel'[q] = rigel[q]
    BY <1>1, <1>2, <1>3
  <1>5. ASSUME NEW q \in RigelRuns
        PROVE  /\ rigel'[q].sound = rigel[q].sound
               /\ rigel[q].files \in Seq(Names) /\ rigel'[q].files \in Seq(Names)
               /\ DOMAIN rigel[q].files \subseteq DOMAIN rigel'[q].files
               /\ \A i \in DOMAIN rigel[q].files : rigel'[q].files[i] = rigel[q].files[i]
               /\ \A i \in DOMAIN rigel'[q].files :
                     i \in DOMAIN rigel[q].files \/ rigel'[q].files[i] = name
    <2>1. CASE q = r
      <3>1. PICK old \in Seq(Names) : old = rigel[q].files
        BY <1>1, <2>1
      <3>2. /\ DOMAIN old \subseteq DOMAIN Append(old, name)
            /\ \A i \in DOMAIN old : Append(old, name)[i] = old[i]
            /\ \A i \in DOMAIN Append(old, name) : i \in DOMAIN old \/ Append(old, name)[i] = name
        OBVIOUS
      <3>3. rigel'[q].files = Append(old, name) /\ rigel'[q].sound = rigel[q].sound
        BY <1>0, <1>2, <1>4, <2>1, <3>1
      <3> QED
        BY <1>0, <3>1, <3>2, <3>3
    <2>2. CASE q # r
      BY <1>1, <1>4, <2>2 DEF Run
    <2> QED
      BY <2>1, <2>2
  <1>6. ASSUME NEW w \in RigelRuns, NEW other, Wrote(w, other) PROVE Wrote(w, other)'
    BY <1>5, <1>6 DEF Wrote
  <1>7. Wrote(r, name)'
    <2>1. Len(rigel[r].files) + 1 \in DOMAIN x.files /\ x.files[Len(rigel[r].files) + 1] = name
      BY <1>1, <1>0, <1>2
    <2> QED
      BY <1>4, <2>1 DEF Wrote
  <1>8. ASSUME NEW n \in Names, workspace'[n] # Nobody PROVE Wrote(workspace[n], n)'
    <2>1. CASE n = name
      <3>1. workspace'[n] = r
        BY <1>1, <1>3, <2>1
      <3> QED
        BY <1>7, <2>1, <3>1 DEF Wrote
    <2>2. CASE n # name
      <3>1. PICK w \in RigelRuns : w = workspace[n] /\ w = workspace'[n] /\ Wrote(w, n)
        BY <1>1, <1>3, <1>8, <2>2 DEF RigelInv
      <3>2. Wrote(w, n)'
        BY <1>6, <3>1
      <3>3. PICK i \in DOMAIN rigel'[w].files : rigel'[w].files[i] = n
        BY <3>2 DEF Wrote
      <3> QED
        BY <3>1, <3>3 DEF Wrote
    <2> QED
      BY <2>1, <2>2
  <1>9. ASSUME NEW q \in RigelRuns, NEW i \in DOMAIN rigel'[q].files PROVE workspace'[rigel'[q].files[i]] # Nobody
    <2>1. PICK n \in Names : n = rigel'[q].files[i]
      BY <1>5
    <2>2. n = name \/ workspace[n] # Nobody
      BY <1>5, <2>1 DEF RigelInv
    <2> QED
      BY <1>1, <1>3, <2>1, <2>2, AgentsAssumption
  <1>10. ASSUME NEW q \in RigelRuns PROVE EvidenceInv(q)'
    <2>1. CASE q = r
      <3>1. x.exec # "pass"
        BY <1>1, <1>2 DEF RigelInv, Report
      <3> QED
        BY <1>4, <2>1, <3>1 DEF EvidenceInv
    <2>2. CASE q # r
      <3>1. PICK run \in Run : run = rigel[q] /\ run = rigel'[q]
        BY <1>1, <1>4, <2>2
      <3>2. run.exec = "pass" => /\ run.ran \in RigelRuns /\ rigel[run.ran].sound
                                 /\ run.ran = q \/ Wrote(run.ran, run.files[1])
        BY <3>1 DEF RigelInv, EvidenceInv
      <3>3. run.exec = "pass" => /\ run.ran \in RigelRuns /\ rigel'[run.ran].sound
                                 /\ run.ran = q \/ Wrote(run.ran, run.files[1])'
        BY <1>5, <1>6, <3>2
      <3> QED
        BY <3>1, <3>3 DEF EvidenceInv, Wrote
    <2> QED
      BY <2>1, <2>2
  <1>11. ASSUME NEW q \in RigelRuns PROVE Report(rigel'[q])
    <2>1. Report(x)
      BY <1>1, <1>2 DEF RigelInv, Report
    <2> QED
      BY <1>4, <2>1 DEF RigelInv
  <1>12. RigelTypeOK'
    BY <1>1, <1>3, <1>4 DEF RigelTypeOK
  <1> QED
    BY <1>8, <1>9, <1>10, <1>11, <1>12 DEF RigelInv

\* The confidence of a run is a number; with a critique of at most 100 per cent
\* it is at most 1, and below the threshold unless the program passed.
LEMMA ConfidenceBounded ==
    \A s \in 0 .. 100, score \in Nat, exec \in {"none", "pass", "fail", "timeout", "error", "unavailable"} :
        /\ ScoreConfidence(s, score, exec) \in Nat
        /\ score <= 100 => ScoreConfidence(s, score, exec) <= MaxConfidence
        /\ score <= 100 /\ exec \notin {"none", "pass"} => ScoreConfidence(s, score, exec) < CompletionThreshold
  <1> TAKE s \in 0 .. 100, score \in Nat, exec \in {"none", "pass", "fail", "timeout", "error", "unavailable"}
  <1> DEFINE soft == SoftConfidence(s, score)
  <1>1. soft \in Nat /\ (score <= 100 => soft <= 9000)
    BY DEF SoftConfidence
  <1> HIDE DEF soft
  <1>2. soft \div 10 \in Nat /\ (score <= 100 => soft \div 10 <= 900)
    BY <1>1
  <1> DEFINE c == CalibratedConfidence(soft, exec)
  <1>3. c \in Nat /\ (score <= 100 => c <= 9900) /\ (score <= 100 /\ exec \notin {"none", "pass"} => c <= 1900)
    BY <1>1, <1>2 DEF CalibratedConfidence
  <1> HIDE DEF c
  <1>4. /\ Round3(c) \in Nat
        /\ c <= 9900 => Round3(c) <= 10000
        /\ c <= 1900 => Round3(c) <= 2000
    BY <1>3 DEF Round3
  <1> QED
    BY <1>3, <1>4 DEF c, soft, CompletionThreshold, MaxConfidence, ScoreConfidence

\* Every step of a run.
LEMMA RigelKeeps ==
    ASSUME RigelInv, RigelStep
    PROVE  RigelInv'
  <1>1. ASSUME NEW r \in RigelRuns
        PROVE  /\ rigel \in [RigelRuns -> Run] /\ rigel[r] \in Run /\ Report(rigel[r])
               /\ rigel[r].files \in Seq(Names)
               /\ rigel[r].exec \in {"none", "pass", "fail", "timeout", "error", "unavailable"}
    BY DEF RigelInv, RigelTypeOK, Run
  <1>2. ASSUME NEW r \in RigelRuns, NEW x \in Run, NEW pc \in {"skill", "raised", "critique"}, NEW b \in BOOLEAN,
               x = [rigel[r] EXCEPT !.pc = pc, !.refused = b],
               rigel' = [rigel EXCEPT ![r] = x], workspace' = workspace, Report(x)
        PROVE  RigelInv'
    <2>1. x.sound = rigel[r].sound /\ x.files = rigel[r].files /\ x.exec = rigel[r].exec /\ x.ran = rigel[r].ran
      BY <1>1, <1>2 DEF Run
    <2> QED
      BY <1>2, <2>1, OneRun
  <1>3. ASSUME NEW r \in RigelRuns, CallSkill(r) \/ SkillRaises(r) \/ ScanRefuses(r) \/ WriteFails(r)
        PROVE  RigelInv'
    <2>1. PICK pc \in {"skill", "raised"}, b \in BOOLEAN :
             /\ rigel' = [rigel EXCEPT ![r] = [rigel[r] EXCEPT !.pc = pc, !.refused = b]]
             /\ workspace' = workspace
             /\ rigel[r].pc \in {"start", "skill", "write"}
             /\ pc = "skill" => rigel[r].pc = "start" /\ ~b
             /\ b => rigel[r].pc = "skill"
      <3>1. rigel[r].refused \in BOOLEAN /\ (rigel[r].refused => rigel[r].pc = "raised")
        BY <1>1 DEF Run, Report
      <3>2. [rigel[r] EXCEPT !.pc = "skill"] = [rigel[r] EXCEPT !.pc = "skill", !.refused = rigel[r].refused]
            /\ [rigel[r] EXCEPT !.pc = "raised"] = [rigel[r] EXCEPT !.pc = "raised", !.refused = rigel[r].refused]
        BY <1>1 DEF Run
      <3>3. CASE ScanRefuses(r)
        BY <1>1, <3>3 DEF ScanRefuses
      <3>4. CASE CallSkill(r) \/ SkillRaises(r) \/ WriteFails(r)
        BY <1>1, <3>1, <3>2, <3>4 DEF CallSkill, SkillRaises, WriteFails
      <3> QED
        BY <1>3, <3>3, <3>4
    <2>2. PICK x \in Run : x = [rigel[r] EXCEPT !.pc = pc, !.refused = b]
      <3>1. PICK run \in Run : run = rigel[r]
        BY <1>1
      <3>2. [run EXCEPT !.pc = pc, !.refused = b] \in Run
        BY DEF Run
      <3> QED
        BY <3>1, <3>2
    <2>3. x.pc = pc /\ x.refused = b /\ x.fed = rigel[r].fed /\ x.files = rigel[r].files /\ x.exec = rigel[r].exec
      BY <1>1, <2>2 DEF Run
    <2>4. Report(x)
      BY <1>1, <2>1, <2>3 DEF Report
    <2> QED
      BY <1>2, <2>1, <2>2, <2>4
  <1>4. ASSUME NEW r \in RigelRuns, NormalizeOutput(r) PROVE RigelInv'
    <2>1. PICK pc \in {"write", "execute"}, todo \in Nat :
             /\ rigel' = [rigel EXCEPT ![r] = [rigel[r] EXCEPT !.pc = pc, !.todo = todo]]
             /\ workspace' = workspace /\ rigel[r].pc = "skill"
      <3>1. \A n \in FileCounts(rigel[r].task.skill) : n \in Nat
        BY DEF FileCounts
      <3>2. PICK n \in FileCounts(rigel[r].task.skill) :
               LET todo == IF rigel[r].task.inWorkspace /\ Writable(rigel[r].task.skill) THEN n ELSE 0
               IN  rigel' = [rigel EXCEPT ![r].pc = IF todo > 0 THEN "write" ELSE "execute", ![r].todo = todo]
        BY <1>4 DEF NormalizeOutput
      <3>3. PICK todo \in Nat :
               rigel' = [rigel EXCEPT ![r].pc = IF todo > 0 THEN "write" ELSE "execute", ![r].todo = todo]
        BY <3>1, <3>2
      <3>4. PICK pc \in {"write", "execute"} : pc = IF todo > 0 THEN "write" ELSE "execute"
        OBVIOUS
      <3>5. rigel' = [rigel EXCEPT ![r] = [rigel[r] EXCEPT !.pc = pc, !.todo = todo]]
        BY <1>1, <3>3, <3>4
      <3> QED
        BY <1>4, <3>5 DEF NormalizeOutput
    <2>2. PICK x \in Run : x = [rigel[r] EXCEPT !.pc = pc, !.todo = todo]
      <3>1. PICK run \in Run : run = rigel[r]
        BY <1>1
      <3>2. [run EXCEPT !.pc = pc, !.todo = todo] \in Run
        BY DEF Run
      <3> QED
        BY <3>1, <3>2
    <2>3. /\ x.pc = pc /\ x.refused = rigel[r].refused /\ x.fed = rigel[r].fed /\ x.files = rigel[r].files
          /\ x.exec = rigel[r].exec /\ x.ran = rigel[r].ran /\ x.sound = rigel[r].sound
      BY <1>1, <2>2 DEF Run
    <2>4. Report(x)
      BY <1>1, <2>1, <2>3 DEF Report
    <2> QED
      BY <2>1, <2>2, <2>3, <2>4, OneRun
  <1>5. ASSUME NEW r \in RigelRuns, Execute(r) PROVE RigelInv'
    <2>1. Executes(r) => Author(r) \in RigelRuns /\ (Author(r) = r \/ Wrote(Author(r), rigel[r].files[1]))
      <3>1. CASE rigel[r].files # <<>>
        <4>1. 1 \in DOMAIN rigel[r].files /\ rigel[r].files[1] \in Names
          BY <1>1, <3>1
        <4>2. workspace[rigel[r].files[1]] # Nobody
          BY <4>1 DEF RigelInv
        <4> QED
          BY <3>1, <4>1, <4>2 DEF RigelInv, RigelTypeOK, Author
      <3>2. CASE rigel[r].files = <<>>
        BY <3>2 DEF Author
      <3> QED
        BY <3>1, <3>2
    <2>2. PICK exec \in {"none", "pass", "fail", "timeout", "error", "unavailable"}, ran \in RigelRuns \cup {Nobody} :
             /\ rigel' = [rigel EXCEPT ![r] = [rigel[r] EXCEPT !.pc = "critique", !.exec = exec, !.ran = ran]]
             /\ workspace' = workspace /\ rigel[r].pc = "execute"
             /\ exec = "pass" => ran \in RigelRuns /\ rigel[ran].sound /\ (ran = r \/ Wrote(ran, rigel[r].files[1]))
      <3>1. rigel[r].pc = "execute" /\ rigel[r].exec = "none" /\ rigel[r].ran \in RigelRuns \cup {Nobody}
        BY <1>1, <1>5 DEF Execute, Report, Run
      <3>2. CASE ~Executes(r) /\ rigel' = [rigel EXCEPT ![r].pc = "critique"]
        <4>1. [rigel[r] EXCEPT !.pc = "critique"]
              = [rigel[r] EXCEPT !.pc = "critique", !.exec = "none", !.ran = rigel[r].ran]
          BY <1>1, <3>1 DEF Run
        <4> QED
          BY <1>5, <3>1, <3>2, <4>1 DEF Execute
      <3>3. CASE /\ Executes(r)
                 /\ rigel' = [rigel EXCEPT ![r].pc = "critique", ![r].ran = Author(r),
                                           ![r].exec = IF rigel[Author(r)].sound THEN "pass" ELSE "fail"]
        <4>1. PICK w \in RigelRuns : w = Author(r) /\ (w = r \/ Wrote(w, rigel[r].files[1]))
          BY <2>1, <3>3
        <4>2. PICK o \in {"pass", "fail"} : o = IF rigel[w].sound THEN "pass" ELSE "fail"
          OBVIOUS
        <4>3. rigel' = [rigel EXCEPT ![r] = [rigel[r] EXCEPT !.pc = "critique", !.ran = w, !.exec = o]]
          BY <1>1, <3>3, <4>1, <4>2
        <4>4. [rigel[r] EXCEPT !.pc = "critique", !.ran = w, !.exec = o]
              = [rigel[r] EXCEPT !.pc = "critique", !.exec = o, !.ran = w]
          BY <1>1 DEF Run
        <4> QED
          BY <1>5, <3>1, <4>1, <4>2, <4>3, <4>4 DEF Execute
      <3>4. ASSUME NEW o \in Disturbed(r), rigel' = [rigel EXCEPT ![r].pc = "critique", ![r].exec = o]
            PROVE  /\ o \in {"fail", "timeout", "error", "unavailable"}
                   /\ rigel' = [rigel EXCEPT ![r] = [rigel[r] EXCEPT !.pc = "critique", !.exec = o, !.ran = rigel[r].ran]]
        <4>1. o \in {"fail", "timeout", "error", "unavailable"}
          BY DEF Disturbed
        <4>2. [rigel[r] EXCEPT !.pc = "critique", !.exec = o]
              = [rigel[r] EXCEPT !.pc = "critique", !.exec = o, !.ran = rigel[r].ran]
          BY <1>1, <4>1 DEF Run
        <4> QED
          BY <1>1, <3>4, <4>1, <4>2
      <3> QED
        BY <1>5, <3>1, <3>2, <3>3, <3>4 DEF Execute
    <2>3. PICK x \in Run : x = [rigel[r] EXCEPT !.pc = "critique", !.exec = exec, !.ran = ran]
      <3>1. PICK run \in Run : run = rigel[r]
        BY <1>1
      <3>2. [run EXCEPT !.pc = "critique", !.exec = exec, !.ran = ran] \in Run
        BY DEF Run
      <3> QED
        BY <3>1, <3>2
    <2>4. /\ x.pc = "critique" /\ x.refused = rigel[r].refused /\ x.fed = rigel[r].fed /\ x.files = rigel[r].files
          /\ x.exec = exec /\ x.ran = ran /\ x.sound = rigel[r].sound
      BY <1>1, <2>3 DEF Run
    <2>5. Report(x)
      BY <1>1, <2>2, <2>4 DEF Report
    <2> QED
      BY <2>2, <2>3, <2>4, <2>5, OneRun
  <1>6. ASSUME NEW r \in RigelRuns, FinishRun(r) PROVE RigelInv'
    <2>1. PICK exec \in {"none", "pass", "fail", "timeout", "error", "unavailable"} : exec = rigel[r].exec
      BY <1>1
    <2>0. rigel[r].pc = "critique" /\ rigel[r].fed = "none" /\ rigel[r].unfed \in BOOLEAN
      BY <1>1, <1>6 DEF FinishRun, Report, Run
    <2>2. PICK score \in Scores \cup {FallbackScore}, structural \in StructuralScores(rigel[r].task.skill) :
            ReturnResult(r, score, ScoreConfidence(structural, score, rigel[r].exec))
      BY <1>6 DEF FinishRun
    <2>8. structural \in 0 .. 100 /\ score \in Nat
      BY AgentsAssumption DEF StructuralScores, FallbackScore
    <2>9. PICK conf \in Nat :
             /\ conf = ScoreConfidence(structural, score, rigel[r].exec)
             /\ score <= 100 => conf <= MaxConfidence
             /\ score <= 100 /\ exec \notin {"none", "pass"} => conf < CompletionThreshold
      <3>1. /\ ScoreConfidence(structural, score, exec) \in Nat
            /\ score <= 100 => ScoreConfidence(structural, score, exec) <= MaxConfidence
            /\ score <= 100 /\ exec \notin {"none", "pass"} => ScoreConfidence(structural, score, exec) < CompletionThreshold
        BY <2>8, ConfidenceBounded, Zenon
      <3> QED
        BY <2>1, <3>1
    <2>10. ReturnResult(r, score, conf)
      BY <2>2, <2>9
    <2>3. PICK fed \in {"none", "success", "fail"} :
             /\ \/ rigel' = [rigel EXCEPT ![r] = Returned(rigel[r], score, conf, fed)] /\ (fed = "none" => conf > MaxConfidence)
                \/ rigel' = [rigel EXCEPT ![r] = [Returned(rigel[r], score, conf, fed) EXCEPT !.unfed = TRUE]] /\ fed = "none"
             /\ fed = "success" => exec \in {"none", "pass"}
      <3>1. PICK fed \in {"none", "success", "fail"} :
                 /\ fed = IF conf <= MaxConfidence THEN FeedbackOutcome(exec) ELSE "none"
                 /\ fed = "success" => exec \in {"none", "pass"}
                 /\ fed = "none" => conf > MaxConfidence
        BY DEF FeedbackOutcome, MaxConfidence
      <3>2. \/ rigel' = [rigel EXCEPT ![r] = Returned(rigel[r], score, conf, fed)]
            \/ rigel' = [rigel EXCEPT ![r] = [Returned(rigel[r], score, conf, "none") EXCEPT !.unfed = TRUE]]
        BY <2>1, <2>10, <3>1 DEF ReturnResult
      <3> QED
        BY <3>1, <3>2
    <2>4. PICK x \in Run : /\ rigel' = [rigel EXCEPT ![r] = x]
                          /\ x.pc = "returned" /\ x.refused = rigel[r].refused /\ x.fed = fed /\ x.files = rigel[r].files
                          /\ x.exec = rigel[r].exec /\ x.ran = rigel[r].ran /\ x.sound = rigel[r].sound
                          /\ x.score = score /\ x.confidence = conf /\ (fed = "none" => x.unfed \/ conf > MaxConfidence)
      <3>1. PICK run \in Run : run = rigel[r]
        BY <1>1
      <3>2. PICK y \in Run : /\ y = Returned(run, score, conf, fed)
                          /\ y.pc = "returned" /\ y.refused = run.refused /\ y.fed = fed /\ y.files = run.files
                          /\ y.exec = run.exec /\ y.ran = run.ran /\ y.sound = run.sound
                          /\ y.score = score /\ y.confidence = conf
        <4>1. LET y == Returned(run, score, conf, fed) IN
              /\ y \in Run
              /\ y.pc = "returned" /\ y.refused = run.refused /\ y.fed = fed /\ y.files = run.files
              /\ y.exec = run.exec /\ y.ran = run.ran /\ y.sound = run.sound
              /\ y.score = score /\ y.confidence = conf
          BY <2>8 DEF Run, Returned
        <4> QED
          BY <4>1
      <3>3. PICK z \in Run : /\ z = [y EXCEPT !.unfed = TRUE] /\ z.unfed
                          /\ z.pc = "returned" /\ z.refused = y.refused /\ z.fed = fed /\ z.files = y.files
                          /\ z.exec = y.exec /\ z.ran = y.ran /\ z.sound = y.sound
                          /\ z.score = score /\ z.confidence = conf
        <4>1. [y EXCEPT !.unfed = TRUE] \in Run
          BY DEF Run
        <4>2. PICK z \in Run : z = [y EXCEPT !.unfed = TRUE]
          BY <4>1
        <4>3. z.unfed
          BY <4>2, Zenon DEF Run
        <4>4. /\ z.pc = y.pc /\ z.refused = y.refused /\ z.fed = y.fed /\ z.files = y.files
              /\ z.exec = y.exec /\ z.ran = y.ran /\ z.sound = y.sound
              /\ z.score = y.score /\ z.confidence = y.confidence
          BY <4>2 DEF Run
        <4> QED
          BY <3>2, <4>2, <4>3, <4>4
      <3>4. CASE rigel' = [rigel EXCEPT ![r] = y] /\ (fed = "none" => conf > MaxConfidence)
        BY <3>1, <3>2, <3>4
      <3>5. CASE rigel' = [rigel EXCEPT ![r] = z]
        <4>1. /\ z.refused = rigel[r].refused /\ z.files = rigel[r].files /\ z.exec = rigel[r].exec
              /\ z.ran = rigel[r].ran /\ z.sound = rigel[r].sound
          BY <3>1, <3>2, <3>3
        <4> QED
          BY <3>3, <3>5, <4>1
      <3> QED
        BY <2>3, <3>1, <3>2, <3>3, <3>4, <3>5
    <2>5. /\ rigel' = [rigel EXCEPT ![r] = x] /\ x.exec = rigel[r].exec /\ x.ran = rigel[r].ran
          /\ x.sound = rigel[r].sound /\ x.files = rigel[r].files
      BY <2>4
    <2>6. Report(x)
      <3>2. ~rigel[r].refused
        BY <1>1, <1>6 DEF FinishRun, Report
      <3> QED
        BY <2>1, <2>8, <2>9, <2>3, <2>4, <3>2 DEF Report, MaxConfidence, CompletionThreshold
    <2>7. workspace' = workspace
      BY <1>6 DEF FinishRun
    <2> QED
      BY <2>5, <2>6, <2>7, OneRun
  <1> QED
    BY <1>3, <1>4, <1>5, <1>6, RunWrites DEF RigelStep

-----------------------------------------------------------------------------
(* Vega.                                                                    *)

\* One more record keeps the life cycle when it continues the last one.
LEMMA ChainGrows ==
    ASSUME NEW p \in Seq(Record), NEW rec \in Record, Chain(p),
           p = <<>> \/ IF rec.stage = p[Len(p)].stage THEN rec.status \in ValidTransitions[p[Len(p)].status]
                       ELSE rec.stage = p[Len(p)].stage + 1 /\ p[Len(p)].status = "complete" /\ rec.status = "pending"
    PROVE  /\ Append(p, rec) \in Seq(Record) /\ Chain(Append(p, rec))
           /\ Len(Append(p, rec)) = Len(p) + 1 /\ Append(p, rec)[Len(p) + 1] = rec /\ Append(p, rec) # <<>>
  <1> DEFINE q == Append(p, rec)
  <1>1. /\ q \in Seq(Record) /\ Len(q) = Len(p) + 1 /\ Len(p) \in Nat
        /\ q[Len(p) + 1] = rec /\ \A i \in 1 .. Len(p) : q[i] = p[i]
    OBVIOUS
  <1>3. p = <<>> => Len(p) = 0
    OBVIOUS
  <1> HIDE DEF q
  <1>2. q # <<>>
    <2>1. q = <<>> => Len(q) = 0
      OBVIOUS
    <2> QED
      BY <1>1, <2>1
  <1>4. ASSUME NEW i \in 1 .. Len(q) - 1
        PROVE  IF q[i + 1].stage = q[i].stage THEN q[i + 1].status \in ValidTransitions[q[i].status]
               ELSE q[i + 1].stage = q[i].stage + 1 /\ q[i].status = "complete" /\ q[i + 1].status = "pending"
    <2>1. CASE i = Len(p)
      <3>1. q[i + 1] = rec /\ q[i] = p[Len(p)] /\ p # <<>>
        BY <1>1, <1>3, <2>1
      <3> QED
        BY <3>1
    <2>2. CASE i \in 1 .. Len(p) - 1
      <3>1. q[i + 1] = p[i + 1] /\ q[i] = p[i]
        BY <1>1, <2>2
      <3> QED
        BY <2>2, <3>1 DEF Chain
    <2> QED
      BY <1>1, <2>1, <2>2
  <1>5. Chain(q)
    BY <1>4 DEF Chain
  <1> QED
    BY <1>1, <1>2, <1>5 DEF q

\* A step of one run.
LEMMA OneVega ==
    ASSUME VegaInv, NEW v \in VegaRuns, NEW x \in VegaRun, vega' = [vega EXCEPT ![v] = x], Place(x)
    PROVE  VegaInv'
  BY DEF VegaInv

\* The life cycle of a record.
LEMMA LifeCycle ==
    "running" \in ValidTransitions["pending"] /\ "complete" \in ValidTransitions["running"]
    /\ "failed" \in ValidTransitions["running"] /\ "failed" \notin ValidTransitions["complete"]
  BY DEF ValidTransitions

\* A stage takes its next status and says so.
LEMMA RunAnnounces ==
    ASSUME NEW run \in VegaRun, Place(run), NEW status \in {"running", "complete", "failed"},
           NEW pc \in {"asked", "done", "next", "finally"},
           \/ run.pc = "pending" /\ status = "running" /\ pc \in {"asked", "done"}
           \/ run.pc = "done" /\ status = "complete" /\ pc = "next"
           \/ run.pc = "failing" /\ status = "failed" /\ pc = "finally"
    PROVE  Announced(run, pc, run.stage, status) \in VegaRun /\ Place(Announced(run, pc, run.stage, status))
  <1>1. PICK n \in Nat, p \in Seq(Record) : n = run.stage /\ p = run.published /\ Chain(p)
    BY DEF VegaRun, Place
  <1>2. PICK rec \in Record : rec = [stage |-> n, status |-> status] /\ rec.stage = n /\ rec.status = status
    <2>1. [stage |-> n, status |-> status] \in Record
      BY DEF Record, Status
    <2> QED
      BY <2>1
  <1>3. /\ n > 0 /\ p # <<>> /\ p[Len(p)].stage = n
        /\ p[Len(p)].status = IF run.pc = "pending" THEN "pending" ELSE "running"
        /\ Len(p) = IF run.pc = "pending" THEN 3 * n - 2 ELSE 3 * n - 1
    BY <1>1 DEF Place, Last
  <1>4. rec.stage = p[Len(p)].stage /\ rec.status \in ValidTransitions[p[Len(p)].status]
    BY <1>2, <1>3, LifeCycle
  <1>5. PICK q \in Seq(Record) : /\ q = Append(p, rec) /\ Chain(q) /\ Len(q) = Len(p) + 1
                                 /\ q[Len(q)] = rec /\ q # <<>>
    <2>1. Append(p, rec) \in Seq(Record) /\ Chain(Append(p, rec)) /\ Append(p, rec) # <<>>
          /\ Len(Append(p, rec)) = Len(p) + 1 /\ Append(p, rec)[Len(p) + 1] = rec
      BY <1>1, <1>4, ChainGrows
    <2> QED
      BY <2>1
  <1>6. PICK x \in VegaRun : /\ x = Announced(run, pc, run.stage, status)
                             /\ x.pc = pc /\ x.stage = n /\ x.published = q /\ x.task = run.task
    <2>1. Announced(run, pc, run.stage, status) = [run EXCEPT !.pc = pc, !.stage = n, !.record = status, !.published = q]
      BY <1>1, <1>2, <1>5 DEF Announced
    <2>2. LET y == [run EXCEPT !.pc = pc, !.stage = n, !.record = status, !.published = q]
          IN  y \in VegaRun /\ y.pc = pc /\ y.stage = n /\ y.published = q /\ y.task = run.task
      BY DEF VegaRun, Status
    <2> QED
      BY <2>1, <2>2
  <1>7. Last(q, n, status) /\ q[Len(q)].status = status
    BY <1>2, <1>5 DEF Last
  <1>8. Place(x)
    BY <1>3, <1>5, <1>6, <1>7 DEF Place, AllDone, StagesOf, LeftOpen
  <1> QED
    BY <1>6, <1>8

\* The pipeline ends before its last stage was announced as complete.
LEMMA RunAborts ==
    ASSUME NEW run \in VegaRun, Place(run), NEW lost \in BOOLEAN,
           \/ run.pc \in {"start", "next"} /\ run.stage < StagesOf(run.task)
           \/ run.pc \in {"pending", "done", "failing"} /\ lost
    PROVE  LET x == [run EXCEPT !.pc = "finally", !.lost = lost] IN x \in VegaRun /\ Place(x)
  <1>1. PICK n \in Nat, p \in Seq(Record) : n = run.stage /\ p = run.published /\ Chain(p)
    BY DEF VegaRun, Place
  <1>2. PICK x \in VegaRun : /\ x = [run EXCEPT !.pc = "finally", !.lost = lost]
                             /\ x.pc = "finally" /\ x.published = p /\ x.task = run.task /\ x.lost = lost
    <2>1. LET y == [run EXCEPT !.pc = "finally", !.lost = lost]
          IN  y \in VegaRun /\ y.pc = "finally" /\ y.published = run.published /\ y.task = run.task /\ y.lost = lost
      BY DEF VegaRun
    <2> QED
      BY <1>1, <2>1
  <1>3. ~AllDone(p, StagesOf(run.task))
    <2>1. PICK stages \in {2, 3} : stages = StagesOf(run.task)
      BY DEF StagesOf
    <2>2. Len(p) # 3 * stages
      <3>1. CASE run.pc \in {"start", "next"} /\ n < stages
        BY <1>1, <2>1, <3>1 DEF Place
      <3>2. CASE run.pc \in {"pending", "done", "failing"}
        BY <1>1, <2>1, <3>2 DEF Place
      <3> QED
        BY <1>1, <2>1, <3>1, <3>2
    <2> QED
      BY <2>1, <2>2 DEF AllDone
  <1>4. LeftOpen(p) => lost
    BY <1>1 DEF Place, LeftOpen, Last
  <1>5. Place(x)
    BY <1>1, <1>2, <1>3, <1>4 DEF Place
  <1> QED
    BY <1>2, <1>5

\* A stage begins.
LEMMA RunBegins ==
    ASSUME NEW run \in VegaRun, Place(run), run.pc \in {"start", "next"}
    PROVE  LET x == [Announced(run, "pending", run.stage + 1, "pending") EXCEPT !.tries = 0]
           IN  x \in VegaRun /\ Place(x)
  <1>1. PICK n \in Nat, p \in Seq(Record) : n = run.stage /\ p = run.published /\ Chain(p)
    BY DEF VegaRun, Place
  <1>2. PICK rec \in Record : rec = [stage |-> n + 1, status |-> "pending"] /\ rec.stage = n + 1 /\ rec.status = "pending"
    <2>1. [stage |-> n + 1, status |-> "pending"] \in Record
      BY DEF Record, Status
    <2> QED
      BY <2>1
  <1>3. Len(p) = 3 * n /\ (p = <<>> \/ (p[Len(p)].stage = n /\ p[Len(p)].status = "complete"))
    <2>1. CASE run.pc = "start"
      <3>1. p = <<>> /\ n = 0
        BY <1>1, <2>1 DEF Place
      <3>2. Len(p) = 0
        BY <3>1
      <3> QED
        BY <3>1, <3>2
    <2>2. CASE run.pc = "next"
      <3>1. Len(p) = 3 * n /\ Last(p, n, "complete")
        BY <1>1, <2>2 DEF Place
      <3> QED
        BY <3>1 DEF Last
    <2> QED
      BY <2>1, <2>2
  <1>0. PICK m \in Nat : m = n + 1 /\ m > 0
    OBVIOUS
  <1>4. p = <<>> \/ IF rec.stage = p[Len(p)].stage THEN rec.status \in ValidTransitions[p[Len(p)].status]
                    ELSE rec.stage = p[Len(p)].stage + 1 /\ p[Len(p)].status = "complete" /\ rec.status = "pending"
    BY <1>2, <1>3
  <1>5. PICK q \in Seq(Record) : /\ q = Append(p, rec) /\ Chain(q) /\ Len(q) = Len(p) + 1
                                 /\ q[Len(q)] = rec /\ q # <<>>
    <2>1. Append(p, rec) \in Seq(Record) /\ Chain(Append(p, rec)) /\ Append(p, rec) # <<>>
          /\ Len(Append(p, rec)) = Len(p) + 1 /\ Append(p, rec)[Len(p) + 1] = rec
      BY <1>1, <1>4, ChainGrows
    <2> QED
      BY <2>1
  <1>6. PICK x \in VegaRun : /\ x = [Announced(run, "pending", run.stage + 1, "pending") EXCEPT !.tries = 0]
                             /\ x.pc = "pending" /\ x.stage = n + 1 /\ x.published = q /\ x.task = run.task
    <2>1. Announced(run, "pending", run.stage + 1, "pending")
          = [run EXCEPT !.pc = "pending", !.stage = n + 1, !.record = "pending", !.published = q]
      BY <1>1, <1>2, <1>5 DEF Announced
    <2>2. PICK y \in VegaRun : /\ y = [run EXCEPT !.pc = "pending", !.stage = m, !.record = "pending", !.published = q]
                              /\ y.pc = "pending" /\ y.stage = m /\ y.published = q /\ y.task = run.task
      <3>1. LET y == [run EXCEPT !.pc = "pending", !.stage = m, !.record = "pending", !.published = q]
            IN  y \in VegaRun /\ y.pc = "pending" /\ y.stage = m /\ y.published = q /\ y.task = run.task
        BY DEF VegaRun, Status
      <3> QED
        BY <3>1
    <2>3. LET x == [y EXCEPT !.tries = 0]
          IN  x \in VegaRun /\ x.pc = y.pc /\ x.stage = y.stage /\ x.published = y.published /\ x.task = y.task
      BY DEF VegaRun
    <2> QED
      BY <1>0, <2>1, <2>2, <2>3
  <1>7. Last(q, m, "pending") /\ Len(q) = 3 * m - 2 /\ Chain(q) /\ x.stage = m /\ x.published = q /\ x.pc = "pending"
    <2>3. Len(q) = Len(p) + 1 /\ Len(p) = 3 * n
      BY <1>3, <1>5
    <2>4. Len(q) = 3 * m - 2
      BY <1>0, <2>3
    <2>5. Chain(q) /\ x.published = q /\ x.pc = "pending" /\ x.stage = n + 1
      BY <1>5, <1>6
    <2>1. Len(q) = 3 * m - 2 /\ Chain(q) /\ x.stage = m /\ x.published = q /\ x.pc = "pending"
      BY <1>0, <2>4, <2>5
    <2>2. rec = [stage |-> m, status |-> "pending"]
      BY <1>0, <1>2
    <2> QED
      BY <1>5, <2>1, <2>2 DEF Last
  <1>8. Place(x)
    BY <1>0, <1>7 DEF Place
  <1> QED
    BY <1>6, <1>8

\* A run moves on without a word: a reply came, or did not parse.
LEMMA RunWaits ==
    ASSUME NEW run \in VegaRun, Place(run), run.pc = "asked", NEW pc \in {"asked", "done", "failing"}, NEW tries \in {0, 1}
    PROVE  LET x == [run EXCEPT !.pc = pc, !.tries = tries] IN x \in VegaRun /\ Place(x)
  <1>1. PICK x \in VegaRun : /\ x = [run EXCEPT !.pc = pc, !.tries = tries] /\ x.pc = pc
                             /\ x.published = run.published /\ x.stage = run.stage
    <2>1. LET y == [run EXCEPT !.pc = pc, !.tries = tries]
          IN  y \in VegaRun /\ y.pc = pc /\ y.published = run.published /\ y.stage = run.stage
      BY DEF VegaRun
    <2> QED
      BY <2>1
  <1>2. Place(x)
    BY <1>1 DEF Place
  <1> QED
    BY <1>1, <1>2

\* The pipeline is over: what it answers and what it feeds back agree.
LEMMA RunEnds ==
    ASSUME NEW run \in VegaRun, Place(run),
           NEW answer \in {"result", "fallback", "raised"}, NEW fed \in {"none", "partial", "success", "fail"},
           \/ /\ run.pc = "next" /\ run.stage = StagesOf(run.task) /\ answer = "result" /\ fed # "fail"
           \/ /\ run.pc = "finally" /\ answer # "result" /\ fed \in {"none", "fail"}
           \/ run.pc = "start" /\ run.task.skill = "test_case_execution"
    PROVE  LET x == [run EXCEPT !.pc = "ended", !.answer = answer, !.fed = fed] IN x \in VegaRun /\ Place(x)
  <1>1. PICK x \in VegaRun : /\ x = [run EXCEPT !.pc = "ended", !.answer = answer, !.fed = fed]
                             /\ x.pc = "ended" /\ x.answer = answer /\ x.fed = fed /\ x.lost = run.lost
                             /\ x.published = run.published /\ x.task = run.task
    <2>1. LET y == [run EXCEPT !.pc = "ended", !.answer = answer, !.fed = fed]
          IN  /\ y \in VegaRun /\ y.pc = "ended" /\ y.answer = answer /\ y.fed = fed /\ y.lost = run.lost
              /\ y.published = run.published /\ y.task = run.task
      BY DEF VegaRun
    <2> QED
      BY <2>1
  <1>2. PICK p \in Seq(Record) : p = run.published /\ Chain(p)
    BY DEF VegaRun, Place
  <1>3. CASE run.pc = "next" /\ run.stage = StagesOf(run.task) /\ answer = "result" /\ fed # "fail"
    <2>1. AllDone(p, StagesOf(run.task)) /\ ~LeftOpen(p)
      BY <1>2, <1>3 DEF Place, Last, AllDone, LeftOpen
    <2> QED
      BY <1>1, <1>2, <1>3, <2>1 DEF Place
  <1>4. CASE run.pc = "finally" /\ answer # "result" /\ fed \in {"none", "fail"}
    BY <1>1, <1>2, <1>4 DEF Place
  <1>5. CASE run.pc = "start" /\ run.task.skill = "test_case_execution"
    BY <1>1, <1>2, <1>5 DEF Place
  <1> QED
    BY <1>1, <1>3, <1>4, <1>5

\* Every step of a pipeline.
LEMMA VegaKeeps ==
    ASSUME VegaInv, VegaStep
    PROVE  VegaInv'
  <1> SUFFICES ASSUME NEW v \in VegaRuns,
                      \/ BeginStage(v) \/ RunStage(v) \/ ReplyUnparsable(v) \/ StageParses(v) \/ StageRaises(v)
                      \/ CompleteStage(v) \/ FailStage(v) \/ EndPipeline(v) \/ CountResults(v)
               PROVE  VegaInv'
    BY DEF VegaStep
  <1>1. vega \in [VegaRuns -> VegaRun]
    BY DEF VegaInv
  <1>2. PICK run \in VegaRun : run = vega[v] /\ Place(run)
    BY DEF VegaInv
  <1>3. Stages(v) = StagesOf(run.task)
    BY <1>2 DEF Stages, StagesOf
  <1>4. ASSUME NEW x \in VegaRun, vega' = [vega EXCEPT ![v] = x], Place(x) PROVE VegaInv'
    BY <1>4, OneVega
  <1>5. ASSUME Abort(v), \/ run.pc \in {"start", "next"} /\ run.stage < StagesOf(run.task)
                         \/ run.pc \in {"pending", "done", "failing"}
        PROVE  VegaInv'
    <2>1. vega' = [vega EXCEPT ![v] = [run EXCEPT !.pc = "finally", !.lost = TRUE]]
      BY <1>1, <1>2, <1>5 DEF Abort
    <2>2. [run EXCEPT !.pc = "finally", !.lost = TRUE] \in VegaRun /\ Place([run EXCEPT !.pc = "finally", !.lost = TRUE])
      BY <1>2, <1>5, RunAborts
    <2> QED
      BY <1>4, <2>1, <2>2
  <1>6. ASSUME NEW status \in {"running", "complete", "failed"}, NEW pc \in {"asked", "done", "next", "finally"},
               Publish(v, status, pc),
               \/ run.pc = "pending" /\ status = "running" /\ pc \in {"asked", "done"}
               \/ run.pc = "done" /\ status = "complete" /\ pc = "next"
               \/ run.pc = "failing" /\ status = "failed" /\ pc = "finally"
        PROVE  VegaInv'
    <2>1. vega' = [vega EXCEPT ![v] = Announced(run, pc, run.stage, status)]
      BY <1>1, <1>2, <1>6 DEF Publish
    <2>2. Announced(run, pc, run.stage, status) \in VegaRun /\ Place(Announced(run, pc, run.stage, status))
      BY <1>2, <1>6, RunAnnounces
    <2> QED
      BY <1>4, <2>1, <2>2
  <1>7. CASE BeginStage(v)
    <2>1. run.pc \in {"start", "next"} /\ run.stage < StagesOf(run.task)
      BY <1>2, <1>3, <1>7 DEF BeginStage
    <2>2. CASE vega' = [vega EXCEPT ![v].pc = "finally"]
      <3>1. PICK lost \in BOOLEAN : lost = run.lost
        BY DEF VegaRun
      <3>2. [run EXCEPT !.pc = "finally"] = [run EXCEPT !.pc = "finally", !.lost = lost]
        BY <3>1 DEF VegaRun
      <3>3. vega' = [vega EXCEPT ![v] = [run EXCEPT !.pc = "finally", !.lost = lost]]
        BY <1>1, <1>2, <2>2, <3>2
      <3>4. [run EXCEPT !.pc = "finally", !.lost = lost] \in VegaRun /\ Place([run EXCEPT !.pc = "finally", !.lost = lost])
        BY <1>2, <2>1, RunAborts
      <3> QED
        BY <1>4, <3>3, <3>4
    <2>3. CASE vega' = [vega EXCEPT ![v] = [Announced(@, "pending", vega[v].stage + 1, "pending") EXCEPT !.tries = 0]]
      <3> DEFINE x == [Announced(run, "pending", run.stage + 1, "pending") EXCEPT !.tries = 0]
      <3>1. vega' = [vega EXCEPT ![v] = x]
        BY <1>1, <1>2, <2>3
      <3>2. x \in VegaRun /\ Place(x)
        BY <1>2, <2>1, RunBegins
      <3> QED
        BY <1>4, <3>1, <3>2
    <2> QED
      BY <1>5, <1>7, <2>1, <2>2, <2>3 DEF BeginStage
  <1>8. CASE RunStage(v)
    BY <1>2, <1>5, <1>6, <1>8 DEF RunStage
  <1>9. CASE CompleteStage(v)
    BY <1>2, <1>5, <1>6, <1>9 DEF CompleteStage
  <1>10. CASE FailStage(v)
    BY <1>2, <1>5, <1>6, <1>10 DEF FailStage
  <1>11. CASE ReplyUnparsable(v) \/ StageParses(v) \/ StageRaises(v)
    <2>1. PICK pc \in {"asked", "done", "failing"}, tries \in {0, 1} :
             /\ run.pc = "asked"
             /\ vega' = [vega EXCEPT ![v] = [run EXCEPT !.pc = pc, !.tries = tries]]
      <3>1. run.tries \in {0, 1}
        BY DEF VegaRun
      <3>2. CASE ReplyUnparsable(v)
        <4>1. run.pc = "asked" /\ [run EXCEPT !.tries = 1] = [run EXCEPT !.pc = "asked", !.tries = 1]
          BY <1>2, <3>2 DEF ReplyUnparsable, VegaRun
        <4> QED
          BY <1>1, <1>2, <3>2, <4>1 DEF ReplyUnparsable
      <3>3. CASE StageParses(v) \/ StageRaises(v)
        <4>1. PICK tries \in {0, 1} : tries = run.tries
          BY <3>1
        <4>2. \A pc \in {"done", "failing"} : [run EXCEPT !.pc = pc] = [run EXCEPT !.pc = pc, !.tries = tries]
          BY <4>1 DEF VegaRun
        <4> QED
          BY <1>1, <1>2, <3>3, <4>2 DEF StageParses, StageRaises
      <3> QED
        BY <1>11, <3>2, <3>3
    <2>2. [run EXCEPT !.pc = pc, !.tries = tries] \in VegaRun /\ Place([run EXCEPT !.pc = pc, !.tries = tries])
      BY <1>2, <2>1, RunWaits
    <2> QED
      BY <1>4, <2>1, <2>2
  <1>12. CASE EndPipeline(v) \/ CountResults(v)
    <2>1. PICK answer \in {"result", "fallback", "raised"}, fed \in {"none", "partial", "success", "fail"} :
             /\ vega' = [vega EXCEPT ![v] = [run EXCEPT !.pc = "ended", !.answer = answer, !.fed = fed]]
             /\ \/ /\ run.pc = "next" /\ run.stage = StagesOf(run.task) /\ answer = "result" /\ fed # "fail"
                \/ /\ run.pc = "finally" /\ answer # "result" /\ fed \in {"none", "fail"}
                \/ run.pc = "start" /\ run.task.skill = "test_case_execution"
      <3>1. CASE EndPipeline(v)
        <4>1. PICK answer \in {"result", "fallback", "raised"} : answer = Answer(v) /\ (answer = "result" <=> Succeeded(v))
          BY DEF Answer
        <4>2. PICK outcome \in {"partial", "success", "fail"} :
                 /\ outcome = IF ~Succeeded(v) THEN "fail" ELSE IF Stages(v) = 2 THEN "partial" ELSE "success"
                 /\ Succeeded(v) <=> outcome # "fail"
          OBVIOUS
        <4>3. PICK fed \in {outcome, "none"} :
                 vega' = [vega EXCEPT ![v] = [run EXCEPT !.pc = "ended", !.answer = answer, !.fed = fed]]
          BY <1>2, <3>1, <4>1, <4>2 DEF EndPipeline
        <4>4. Succeeded(v) <=> run.pc = "next" /\ run.stage = StagesOf(run.task)
          BY <1>2, <1>3 DEF Succeeded
        <4>5. run.pc = "finally" \/ Succeeded(v)
          BY <1>2, <3>1 DEF EndPipeline
        <4> QED
          BY <4>1, <4>2, <4>3, <4>4, <4>5
      <3>2. CASE CountResults(v)
        <4>1. PICK fed \in {"none", "partial", "success", "fail"} : fed = run.fed
          BY DEF VegaRun
        <4>2. PICK answer \in {"result", "raised"} : answer = IF vega[v].task.results = "junk" THEN "raised" ELSE "result"
          OBVIOUS
        <4>3. [run EXCEPT !.pc = "ended", !.answer = answer] = [run EXCEPT !.pc = "ended", !.answer = answer, !.fed = fed]
          BY <4>1 DEF VegaRun
        <4>4. vega' = [vega EXCEPT ![v] = [run EXCEPT !.pc = "ended", !.answer = answer]]
          BY <1>1, <1>2, <3>2, <4>2 DEF CountResults
        <4>5. run.pc = "start" /\ run.task.skill = "test_case_execution"
          BY <1>2, <3>2 DEF CountResults
        <4> QED
          BY <4>3, <4>4, <4>5
      <3> QED
        BY <1>12, <3>1, <3>2
    <2>2. LET x == [run EXCEPT !.pc = "ended", !.answer = answer, !.fed = fed] IN x \in VegaRun /\ Place(x)
      BY <1>2, <2>1, RunEnds
    <2> QED
      BY <1>4, <2>1, <2>2
  <1> QED
    BY <1>7, <1>8, <1>9, <1>10, <1>11, <1>12

\* What the agents report was earned, for every set of tasks, file names and
\* critique scores, every number of runs side by side and every number of
\* failures (agents/rigel/agent.py:214-330, agents/vega/pipeline.py:74-187).
THEOREM AgentsReportTruly == AgentsSpec => []ReportsEarned
  <1>1. AgentsInit => RigelInv
    <2> SUFFICES ASSUME AgentsInit PROVE RigelInv
      OBVIOUS
    <2>1. ASSUME NEW r \in RigelRuns
          PROVE  /\ rigel[r] \in Run /\ rigel[r].files = <<>> /\ rigel[r].exec = "none" /\ ~rigel[r].refused
                 /\ rigel[r].fed = "none" /\ rigel[r].pc \in {"start", "absent"}
      <3>1. PICK p \in {"start", "absent"}, t \in RigelTasks, b \in BOOLEAN :
               rigel[r] = [pc |-> p, task |-> t, sound |-> b, todo |-> 0, files |-> <<>>,
                           refused |-> FALSE, exec |-> "none", ran |-> Nobody, score |-> 0,
                           confidence |-> 0, fed |-> "none", unfed |-> FALSE]
        BY DEF AgentsInit, RigelInit
      <3> QED
        BY <3>1 DEF Run
    <2>2. rigel \in [RigelRuns -> Run] /\ workspace = [n \in Names |-> Nobody]
      BY <2>1 DEF AgentsInit, RigelInit
    <2>3. \A r \in RigelRuns : EvidenceInv(r) /\ Report(rigel[r])
      BY <2>1 DEF EvidenceInv, Report
    <2>4. \A r \in RigelRuns : DOMAIN rigel[r].files = {}
      BY <2>1
    <2> QED
      BY <2>2, <2>3, <2>4 DEF RigelInv, RigelTypeOK
  <1>2. AgentsInit => VegaInv
    <2> SUFFICES ASSUME AgentsInit, NEW v \in VegaRuns PROVE vega[v] \in VegaRun /\ Place(vega[v])
      BY DEF VegaInv, AgentsInit, VegaInit
    <2>1. PICK p \in {"start", "absent"}, t \in VegaTasks :
             vega[v] = [pc |-> p, task |-> t, stage |-> 0, record |-> "none", published |-> <<>>,
                        tries |-> 0, answer |-> "none", fed |-> "none", lost |-> FALSE]
      BY DEF AgentsInit, VegaInit
    <2>2. vega[v] \in VegaRun /\ vega[v].pc \in {"start", "absent"} /\ vega[v].published = <<>> /\ vega[v].stage = 0
      BY <2>1 DEF VegaRun
    <2>3. Chain(<<>>)
      BY DEF Chain
    <2> QED
      BY <2>2, <2>3 DEF Place
  <1>3. RigelInv /\ VegaInv /\ [AgentsNext]_agentVars => RigelInv' /\ VegaInv'
    <2> SUFFICES ASSUME RigelInv, VegaInv, [AgentsNext]_agentVars PROVE RigelInv' /\ VegaInv'
      OBVIOUS
    <2>1. UNCHANGED <<rigel, workspace>> => RigelInv'
      BY DEF RigelInv, RigelTypeOK, EvidenceInv, Wrote
    <2>2. UNCHANGED vega => VegaInv'
      BY DEF VegaInv
    <2> QED
      BY <2>1, <2>2, RigelKeeps, VegaKeeps DEF AgentsNext, agentVars
  <1>4. RigelInv /\ VegaInv => ReportsEarned
    <2> SUFFICES ASSUME RigelInv, VegaInv PROVE RigelReports /\ VegaReports
      BY DEF ReportsEarned
    <2>1. RigelReports
      <3>1. ASSUME NEW r \in RigelRuns, rigel[r].refused, NEW n \in Names PROVE workspace[n] # r
        <4>1. DOMAIN rigel[r].files = {}
          BY <3>1 DEF RigelInv, Report
        <4>2. ~Wrote(r, n)
          BY <4>1 DEF Wrote
        <4> QED
          BY <4>2, AgentsAssumption DEF RigelInv
      <3> QED
        BY <3>1 DEF RigelReports, RigelInv, EvidenceInv, Report, Wrote
    <2>2. VegaReports
      BY DEF VegaReports, VegaInv, Place, Chain, AllDone, LeftOpen, Stages, StagesOf
    <2> QED
      BY <2>1, <2>2
  <1> QED
    BY <1>1, <1>2, <1>3, <1>4, PTL DEF AgentsSpec
=============================================================================
