-------------------------------- MODULE Vega --------------------------------
(***************************************************************************)
(* The test agent, agents/vega: a pipeline of stages, each announced on    *)
(* the stream of the bus by records that go pending, running and complete  *)
(* or failed, each asking the provider for JSON and once more when the     *)
(* reply does not parse; then a feedback event, sent however the pipeline  *)
(* ended.  Any publication may fail.                                       *)
(***************************************************************************)
EXTENDS Limiter, Sequences

CONSTANTS VegaRuns,     \* the runs, among the Callers
          VegaTasks     \* what a run may be asked: [skill, results]

VARIABLE vega           \* run -> what it was asked and where it stands

\* requirements_to_test_cases never passes test results to the pipeline, and
\* defect_reporting passes what its payload holds, which may be nothing.
Stages(v) == IF vega[v].task.results = "none" THEN 2 ELSE 3

VegaInit ==
    vega \in [VegaRuns -> {[pc |-> p, task |-> t, stage |-> 0, record |-> "none", published |-> <<>>,
                            tries |-> 0, answer |-> "none", fed |-> "none", lost |-> FALSE] :
                             p \in {"start", "absent"}, t \in VegaTasks}]

ValidTransitions ==
    [pending |-> {"running"}, running |-> {"complete", "retrying", "failed"},
     retrying |-> {"running", "failed"}, complete |-> {}, failed |-> {}]

\* The pipeline's reading of test results: a list, or a dictionary with one.
NormalizeRaises(results) == results \in {"bare_dict", "junk"}

\* A failing publication, or an illegal transition, ends the pipeline.
Abort(v) == vega' = [vega EXCEPT ![v].pc = "finally", ![v].lost = TRUE]

\* The record of a stage takes a status and is published on the stream.
Announced(run, pc, stage, status) ==
    [run EXCEPT !.pc = pc, !.stage = stage, !.record = status,
                !.published = Append(run.published, [stage |-> stage, status |-> status])]

\* A stage begins: its record is made and announced as pending.
BeginStage(v) ==
    /\ vega[v].pc \in {"start", "next"}
    /\ vega[v].task.skill # "test_case_execution"
    /\ vega[v].stage < Stages(v)
    /\ IF vega[v].stage = 2 /\ NormalizeRaises(vega[v].task.results)
       THEN vega' = [vega EXCEPT ![v].pc = "finally"] /\ UNCHANGED mishaps
       ELSE \/ /\ vega' = [vega EXCEPT ![v] = [Announced(@, "pending", vega[v].stage + 1, "pending") EXCEPT !.tries = 0]]
               /\ UNCHANGED mishaps
            \/ Mishap /\ Abort(v)
    /\ UNCHANGED limiterVars

Publish(v, status, pc) == vega' = [vega EXCEPT ![v] = Announced(@, pc, vega[v].stage, status)]

\* The record goes to running, and the stage asks the provider; the bug
\* reporter has nothing to ask when no test failed.
RunStage(v) ==
    /\ vega[v].pc = "pending"
    /\ \/ /\ UNCHANGED mishaps
          /\ IF vega[v].stage = 3 /\ vega[v].task.results = "passing"
             THEN Publish(v, "running", "done") /\ UNCHANGED limiterVars
             ELSE Publish(v, "running", "asked") /\ AskProvider(v)
       \/ Mishap /\ Abort(v) /\ UNCHANGED limiterVars

\* A reply that does not parse is asked for once more.
ReplyUnparsable(v) ==
    /\ vega[v].pc = "asked" /\ vega[v].tries = 0 /\ Mishap
    /\ reply[v] = "text"
    /\ reply' = [reply EXCEPT ![v] = "slot"]
    /\ made' = [made EXCEPT ![v] = @ + 1]
    /\ vega' = [vega EXCEPT ![v].tries = 1]
    /\ UNCHANGED <<permits, calls>>

StageParses(v) ==
    /\ vega[v].pc = "asked"
    /\ TakeReply(v, "text")
    /\ vega' = [vega EXCEPT ![v].pc = "done"]
    /\ UNCHANGED mishaps

StageRaises(v) ==
    /\ vega[v].pc = "asked"
    /\ \/ TakeReply(v, "error") /\ UNCHANGED mishaps
       \/ vega[v].tries = 1 /\ TakeReply(v, "text") /\ Mishap
    /\ vega' = [vega EXCEPT ![v].pc = "failing"]

\* The record is complete and announced.  When the announcement fails, the
\* except branch asks for the transition from complete to failed, which is
\* illegal: its ValueError replaces the cause and no record says how the stage
\* ended.
CompleteStage(v) ==
    /\ vega[v].pc = "done"
    /\ \/ Publish(v, "complete", "next") /\ UNCHANGED mishaps
       \/ Mishap /\ "failed" \notin ValidTransitions["complete"] /\ Abort(v)
    /\ UNCHANGED limiterVars

FailStage(v) ==
    /\ vega[v].pc = "failing"
    /\ \/ Publish(v, "failed", "finally") /\ UNCHANGED mishaps
       \/ Mishap /\ Abort(v)
    /\ UNCHANGED limiterVars

Succeeded(v) == vega[v].pc = "next" /\ vega[v].stage = Stages(v)

\* What run returns: the pipeline's result, canned test cases in its place,
\* or the exception.
Answer(v) ==
    IF Succeeded(v) THEN "result"
    ELSE IF vega[v].task.skill = "requirements_to_test_cases" THEN "fallback" ELSE "raised"

\* The finally block: feedback, whose failure is swallowed; then run returns.
EndPipeline(v) ==
    /\ vega[v].pc = "finally" \/ Succeeded(v)
    /\ LET outcome == IF ~Succeeded(v) THEN "fail" ELSE IF Stages(v) = 2 THEN "partial" ELSE "success"
           ended(fed) == [vega EXCEPT ![v] = [@ EXCEPT !.pc = "ended", !.answer = Answer(v), !.fed = fed]]
       IN \/ vega' = ended(outcome) /\ UNCHANGED mishaps
          \/ vega' = ended("none") /\ Mishap
    /\ UNCHANGED limiterVars

\* test_case_execution counts the results it is given and emits nothing; its
\* own reading takes a dictionary without results for an empty list.
CountResults(v) ==
    /\ vega[v].pc = "start" /\ vega[v].task.skill = "test_case_execution"
    /\ vega' = [vega EXCEPT ![v].pc = "ended",
                            ![v].answer = IF vega[v].task.results = "junk" THEN "raised" ELSE "result"]
    /\ UNCHANGED <<limiterVars, mishaps>>

VegaStep ==
    \E v \in VegaRuns :
      \/ BeginStage(v) \/ RunStage(v) \/ ReplyUnparsable(v) \/ StageParses(v) \/ StageRaises(v)
      \/ CompleteStage(v) \/ FailStage(v) \/ EndPipeline(v) \/ CountResults(v)

-----------------------------------------------------------------------------
\* The records on the stream, the feedback and the answer of a run agree
\* (pipeline.py:74-187, agent.py:170-221): records follow the life cycle and a
\* stage is announced only after the one before it is known to be complete; a
\* result is returned only when every stage was announced as complete, and the
\* canned cases only when one was not; feedback other than "fail" only with
\* the former; and a stage that is left running has lost an announcement.
VegaReports ==
    \A v \in VegaRuns : LET run == vega[v]  p == run.published IN
      /\ \A i \in 1 .. Len(p) - 1 :
           IF p[i + 1].stage = p[i].stage THEN p[i + 1].status \in ValidTransitions[p[i].status]
           ELSE p[i + 1].stage = p[i].stage + 1 /\ p[i].status = "complete" /\ p[i + 1].status = "pending"
      /\ (run.pc = "ended" /\ run.task.skill # "test_case_execution") =>
           LET done == Len(p) = 3 * Stages(v) /\ p[Len(p)].status = "complete"
           IN /\ (run.answer = "result") <=> done
              /\ run.fed \in {"partial", "success"} => done
              /\ run.fed = "fail" => ~done
              /\ (p # <<>> /\ p[Len(p)].status \in {"pending", "running"}) => run.lost
=============================================================================
