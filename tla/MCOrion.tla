------------------------------ MODULE MCOrion ------------------------------
(* Instances of Orion's feedback pipeline for TLC. *)
EXTENDS Orion, TLC

Base == [task |-> "t1", agent |-> "rigel", family |-> "rigel.", known |-> TRUE, valid |-> TRUE,
         outcome |-> "success", confidence |-> 95, execution |-> "pass", verified |-> FALSE,
         corrected |-> FALSE, hash |-> "h1", cat |-> "qa.regression", id |-> 0]

Rigel(t, i) == [Base EXCEPT !.task = t, !.id = i]
\* A run that failed although it claims success, the result of a retry, a
\* result below the bar for training, and a skill nobody registered.
Failed(t, i)   == [Rigel(t, i) EXCEPT !.execution = "fail"]
Retried(t, i)  == [Rigel(t, i) EXCEPT !.outcome = "fail", !.confidence = 15, !.execution = "error"]
Weak(t, i)     == [Rigel(t, i) EXCEPT !.confidence = 80, !.execution = "none"]
Stranger(t, i) == [Rigel(t, i) EXCEPT !.known = FALSE]
\* Vega: a result that a person verified.
Verified(t, i) == [Rigel(t, i) EXCEPT !.agent = "vega", !.family = "qa.", !.outcome = "fail",
                                      !.confidence = 20, !.execution = "none", !.verified = TRUE]
\* Review feedback: a completed task, a correction, and a message that does not parse.
Completed(t, i) == [Rigel(t, i) EXCEPT !.agent = "vega", !.family = "qa.", !.outcome = "completed"]
Corrected(t, i) == [Completed(t, i) EXCEPT !.outcome = "corrected", !.corrected = TRUE, !.verified = TRUE,
                                           !.hash = "h2"]
Garbled(t, i)   == [Rigel(t, i) EXCEPT !.valid = FALSE]

AllStreams == {"rigel", "vega", "feedback"}
Refinery == {"rigel", "vega"}
Case(r, v, f, o) ==
    [log |-> [s \in AllStreams |-> CASE s = "rigel" -> r [] s = "vega" -> v [] OTHER -> f], old |-> o]
TheWorlds == {Case(<<Rigel("t1", 1)>>, <<Verified("t3", 3)>>, <<>>, FALSE),
              Case(<<Rigel("t1", 1), Retried("t1", 2)>>, <<>>, <<>>, FALSE),
              Case(<<Failed("t2", 2), Stranger("t3", 3)>>, <<>>, <<>>, FALSE),
              Case(<<Weak("t2", 2)>>, <<>>, <<>>, TRUE),
              Case(<<>>, <<>>, <<Completed("t4", 4), Garbled("t5", 5)>>, FALSE),
              Case(<<>>, <<>>, <<Completed("t4", 4), Corrected("t5", 5)>>, FALSE)}
TheDomains == {"vega", "rigel"}
OldFile == {Rigel("t6", 6)}
=============================================================================
