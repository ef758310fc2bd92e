------------------------------- MODULE Rigel -------------------------------
(***************************************************************************)
(* The engineering agent, agents/rigel: run asks the provider for the      *)
(* skill's output, scans it, writes it into the task's workspace one file  *)
(* at a time, executes the first written file (or, without a workspace,    *)
(* generated files in a temporary directory) in a container, asks the      *)
(* provider for a critique, computes the confidence and emits feedback.    *)
(* Runs of several tasks share a workspace.  A program is abstracted to    *)
(* whether it exits with 0, and a file to the run that wrote it last.      *)
(***************************************************************************)
EXTENDS Limiter, Sequences

CONSTANTS RigelRuns,    \* the runs, among the Callers
          RigelTasks,   \* what a run may be asked: [skill, inWorkspace, tests]
          Names,        \* file names in the workspace
          Nobody,       \* the author of a file that no run has written
          Scores        \* the scores a critique may give, in per cent

VARIABLES rigel,        \* run -> what it was asked and where it stands
          workspace     \* file name -> the run whose content it holds

rigelVars == <<rigel, workspace>>

-----------------------------------------------------------------------------
\* The skills: which reply must parse as JSON, what may be written, and what
\* can be executed without a workspace.
JsonSkills == {"scaffold", "pr_review", "debug_triage"}

Writable(skill) == skill \notin {"pr_review", "debug_triage"}

FileCounts(skill) == IF skill = "scaffold" THEN 0 .. 2 ELSE {1}

HasExecutionFiles(r) ==
    \/ rigel[r].task.skill = "code_generation" /\ rigel[r].task.tests
    \/ rigel[r].task.skill = "test_writing"

RigelInit ==
    /\ rigel \in [RigelRuns ->
                    {[pc |-> p, task |-> t, sound |-> b, todo |-> 0, files |-> <<>>,
                      refused |-> FALSE, exec |-> "none", ran |-> Nobody, score |-> 0,
                      confidence |-> 0, fed |-> "none", unfed |-> FALSE] :
                       p \in {"start", "absent"}, t \in RigelTasks, b \in BOOLEAN}]
    /\ workspace = [n \in Names |-> Nobody]

CallSkill(r) ==
    /\ rigel[r].pc = "start"
    /\ AskProvider(r)
    /\ rigel' = [rigel EXCEPT ![r].pc = "skill"]
    /\ UNCHANGED <<workspace, mishaps>>

\* call_llm raises, or the reply of a skill that parses it is not JSON.
SkillRaises(r) ==
    /\ rigel[r].pc = "skill"
    /\ \/ TakeReply(r, "error") /\ UNCHANGED mishaps
       \/ rigel[r].task.skill \in JsonSkills /\ TakeReply(r, "text") /\ Mishap
    /\ rigel' = [rigel EXCEPT ![r].pc = "raised"]
    /\ UNCHANGED workspace

\* require_safe_artifacts raises: before any file is written.
ScanRefuses(r) ==
    /\ rigel[r].pc = "skill"
    /\ TakeReply(r, "text") /\ Mishap
    /\ rigel' = [rigel EXCEPT ![r].pc = "raised", ![r].refused = TRUE]
    /\ UNCHANGED workspace

NormalizeOutput(r) ==
    /\ rigel[r].pc = "skill"
    /\ TakeReply(r, "text")
    /\ \E n \in FileCounts(rigel[r].task.skill) :
         LET todo == IF rigel[r].task.inWorkspace /\ Writable(rigel[r].task.skill) THEN n ELSE 0
         IN rigel' = [rigel EXCEPT ![r].pc = IF todo > 0 THEN "write" ELSE "execute", ![r].todo = todo]
    /\ UNCHANGED <<workspace, mishaps>>

\* FileWriter.write overwrites whatever has the name.
WriteFile(r, name) ==
    /\ rigel[r].pc = "write"
    /\ workspace' = [workspace EXCEPT ![name] = r]
    /\ rigel' = [rigel EXCEPT ![r].files = Append(@, name),
                              ![r].pc = IF Len(rigel[r].files) + 1 = rigel[r].todo THEN "execute" ELSE "write"]
    /\ UNCHANGED <<limiterVars, mishaps>>

\* The name escapes the workspace, or the disk fails; files already written stay.
WriteFails(r) ==
    /\ rigel[r].pc = "write" /\ Mishap
    /\ rigel' = [rigel EXCEPT ![r].pc = "raised"]
    /\ UNCHANGED <<workspace, limiterVars>>

\* Which program a run executes: the first file it wrote, as it is now, or
\* what it generated itself.
Author(r) == IF rigel[r].files # <<>> THEN workspace[rigel[r].files[1]] ELSE r

Executes(r) == IF rigel[r].task.inWorkspace THEN rigel[r].files # <<>> ELSE HasExecutionFiles(r)

\* What may go wrong with a container.  Without a Docker daemon "docker run"
\* exits with 125, which in a workspace is taken for the program's failure.
Disturbed(r) == {"timeout", "error", "unavailable"} \cup (IF rigel[r].task.inWorkspace THEN {"fail"} ELSE {})

\* execute_generated_output, and the call of the critique that follows it.
Execute(r) ==
    /\ rigel[r].pc = "execute"
    /\ AskProvider(r)
    /\ \/ /\ ~Executes(r)
          /\ rigel' = [rigel EXCEPT ![r].pc = "critique"]
          /\ UNCHANGED mishaps
       \/ /\ Executes(r)
          /\ rigel' = [rigel EXCEPT ![r].pc = "critique", ![r].ran = Author(r),
                                    ![r].exec = IF rigel[Author(r)].sound THEN "pass" ELSE "fail"]
          /\ UNCHANGED mishaps
       \/ /\ Executes(r) /\ Mishap
          /\ \E o \in Disturbed(r) : rigel' = [rigel EXCEPT ![r].pc = "critique", ![r].exec = o]
    /\ UNCHANGED workspace

-----------------------------------------------------------------------------
\* Confidence, in ten thousandths.  The historical score is 0.50.
StructuralScores(skill) == IF skill = "debug_triage" THEN {0, 100} ELSE {0, 50, 100}

SoftConfidence(structural, score) == 40 * structural + 40 * score + 20 * 50

\* An unavailable sandbox leaves the soft confidence.
BugCalibratedConfidence(soft, exec) ==
    CASE exec = "pass" -> 9000 + soft \div 10
      [] exec = "fail" -> 1000 + soft \div 10
      [] exec = "timeout" -> 500
      [] OTHER -> soft

CalibratedConfidence(soft, exec) ==
    CASE exec = "pass" -> 9000 + soft \div 10
      [] exec = "fail" -> 1000 + soft \div 10
      [] exec = "timeout" -> 500
      [] exec \in {"error", "unavailable"} -> 1500
      [] OTHER -> soft

Round3(x) == 10 * ((x + 5) \div 10)

ScoreConfidence(structural, score, exec) ==
    Round3(CalibratedConfidence(SoftConfidence(structural, score), exec))

CompletionThreshold == 6500

FallbackScore == 75

\* RefineryFeedbackEvent refuses a confidence above 1; the exception is logged.
MaxConfidence == 10000

FeedbackOutcome(exec) == IF exec \in {"none", "pass"} THEN "success" ELSE "fail"

Returned(run, score, conf, fed) ==
    [run EXCEPT !.pc = "returned", !.score = score, !.confidence = conf, !.fed = fed]

\* The feedback, whose failure is swallowed, and the result.
ReturnResult(r, score, conf) ==
    \/ /\ UNCHANGED mishaps
       /\ LET fed == IF conf <= MaxConfidence THEN FeedbackOutcome(rigel[r].exec) ELSE "none"
          IN  rigel' = [rigel EXCEPT ![r] = Returned(@, score, conf, fed)]
    \/ /\ Mishap
       /\ rigel' = [rigel EXCEPT ![r] = [Returned(@, score, conf, "none") EXCEPT !.unfed = TRUE]]

\* The critique's score, or the fallback when it fails or does not parse; then
\* the confidence, the feedback and the result.
FinishRun(r) ==
    /\ rigel[r].pc = "critique"
    /\ \E score \in Scores \cup {FallbackScore}, structural \in StructuralScores(rigel[r].task.skill) :
         /\ \/ TakeReply(r, "text")
            \/ score = FallbackScore /\ TakeReply(r, "error")
         /\ ReturnResult(r, score, ScoreConfidence(structural, score, rigel[r].exec))
    /\ UNCHANGED workspace

RigelStep ==
    \E r \in RigelRuns :
      \/ CallSkill(r) \/ SkillRaises(r) \/ ScanRefuses(r) \/ NormalizeOutput(r)
      \/ WriteFails(r) \/ Execute(r) \/ FinishRun(r)
      \/ \E name \in Names : WriteFile(r, name)

-----------------------------------------------------------------------------
\* What a run tells its caller and the refinery is earned (agent.py:224-330,
\* confidence.py:128-146).  The evidence of a run is about its own code unless
\* another run wrote a file of the same name; a program that did not exit with
\* 0 is never taken for complete while the critique's score is a fraction; the
\* feedback agrees with the execution and is missing only when it could not be
\* published or the confidence is out of range; and a run that the scan refused
\* left nothing in the workspace.
RigelReports ==
    \A r \in RigelRuns : LET run == rigel[r] IN
      /\ run.pc = "returned" =>
           /\ run.exec = "pass" => /\ rigel[run.ran].sound
                                   /\ run.ran = r \/ \E i \in DOMAIN rigel[run.ran].files : rigel[run.ran].files[i] = run.files[1]
           /\ (run.exec \notin {"none", "pass"} /\ run.score <= 100) => run.confidence < CompletionThreshold
           /\ run.fed = "success" => run.exec \in {"none", "pass"}
           /\ run.fed = "none" => run.unfed \/ run.score > 100
      /\ run.pc = "raised" => run.fed = "none" /\ (run.refused => \A n \in Names : workspace[n] # r)
=============================================================================
