------------------------------ MODULE Limiter ------------------------------
(***************************************************************************)
(* core/llm: the limiter that caps the calls in flight to one provider     *)
(* within a process, and call_llm on top of it.  Every caller is a thread  *)
(* that runs an agent's skill.  A call is made by acquiring a permit of    *)
(* the bounded semaphore, submitting the request to an executor with as    *)
(* many threads as there are permits, and waiting for its future; the      *)
(* permit goes back in the future's done callback, on the executor's       *)
(* thread, after the waiting caller has been woken.  A caller that stops   *)
(* waiting cancels the future, which takes effect only while the request   *)
(* is still queued.                                                        *)
(***************************************************************************)
EXTENDS Integers, FiniteSets

CONSTANTS Callers,      \* the threads that run a skill
          Cap,          \* effective_max_concurrent of the provider
          MaxMishaps    \* bound: the failures of a behaviour, timeouts included

ASSUME LimiterAssumption == Cap \in Nat \ {0} /\ MaxMishaps \in Nat

VARIABLES permits,      \* the semaphore's value
          calls,        \* the requests that hold a permit: [by, n, st]
          reply,        \* what each caller waits for, or got
          made,         \* how many calls each caller has made
          mishaps       \* the failures so far

limiterVars == <<permits, calls, reply, made>>

LimiterInit ==
    /\ permits = Cap
    /\ calls = {}
    /\ reply = [c \in Callers |-> "idle"]
    /\ made = [c \in Callers |-> 0]
    /\ mishaps = 0

Mishap == mishaps < MaxMishaps /\ mishaps' = mishaps + 1

Busy == {k \in calls : k.st \in {"running", "done"}}

Current(c) == {k \in calls : k.by = c /\ k.n = made[c]}

\* A caller enters call_llm; part of the agents' actions.
AskProvider(c) ==
    /\ reply[c] = "idle"
    /\ reply' = [reply EXCEPT ![c] = "slot"]
    /\ made' = [made EXCEPT ![c] = @ + 1]
    /\ UNCHANGED <<permits, calls>>

\* A caller leaves call_llm with a text or an exception; part of the agents' actions.
TakeReply(c, r) ==
    /\ reply[c] = r
    /\ reply' = [reply EXCEPT ![c] = "idle"]
    /\ UNCHANGED <<permits, calls, made>>

\* The permit is acquired and the request submitted.
AcquireSlot(c) ==
    /\ reply[c] = "slot" /\ permits > 0
    /\ permits' = permits - 1
    /\ calls' = calls \cup {[by |-> c, n |-> made[c], st |-> "queued"]}
    /\ reply' = [reply EXCEPT ![c] = "answer"]
    /\ UNCHANGED <<made, mishaps>>

\* The executor refuses the request and the permit is given back, or no
\* permit came within the queue timeout.
SubmitFails(c) ==
    /\ Mishap
    /\ reply[c] = "slot"
    /\ reply' = [reply EXCEPT ![c] = "error"]
    /\ UNCHANGED <<permits, calls, made>>

\* A thread of the executor takes the oldest request.
WorkerTakes(k) ==
    /\ k.st = "queued" /\ Cardinality(Busy) < Cap
    /\ calls' = (calls \ {k}) \cup {[k EXCEPT !.st = "running"]}
    /\ UNCHANGED <<permits, reply, made, mishaps>>

\* The provider answers or fails: the future is set and its waiter woken.
ProviderAnswers(k) ==
    /\ k.st = "running"
    /\ calls' = (calls \ {k}) \cup {[k EXCEPT !.st = "done"]}
    /\ \E r \in {"text", "error"} :
         /\ IF r = "error" THEN Mishap ELSE UNCHANGED mishaps
         /\ reply' = IF k \in Current(k.by) /\ reply[k.by] = "answer"
                     THEN [reply EXCEPT ![k.by] = r] ELSE reply
    /\ UNCHANGED <<permits, made>>

\* The done callback.
ReleaseSlot(k) ==
    /\ k.st = "done"
    /\ calls' = calls \ {k}
    /\ permits' = permits + 1
    /\ UNCHANGED <<reply, made, mishaps>>

\* The permit is freed when the caller stops waiting.
BugCallTimesOut(c) ==
    /\ Mishap
    /\ reply[c] = "answer"
    /\ reply' = [reply EXCEPT ![c] = "error"]
    /\ permits' = permits + 1
    /\ calls' = {k \in calls : k \notin Current(c) \/ k.st # "queued"}
    /\ UNCHANGED made

\* future.result times out; future.cancel ends the request, and runs the
\* callback, only when no thread has taken it.
CallTimesOut(c) ==
    /\ Mishap
    /\ reply[c] = "answer"
    /\ reply' = [reply EXCEPT ![c] = "error"]
    /\ LET cancelled == {k \in Current(c) : k.st = "queued"}
       IN /\ calls' = calls \ cancelled
          /\ permits' = permits + Cardinality(cancelled)
    /\ UNCHANGED made

LimiterStep ==
    \/ \E c \in Callers : AcquireSlot(c) \/ SubmitFails(c) \/ CallTimesOut(c)
    \/ \E k \in calls : WorkerTakes(k) \/ ProviderAnswers(k) \/ ReleaseSlot(k)

\* The semaphore, the requests and the replies have their declared shape.
LimiterTypeOK ==
    /\ permits \in Nat
    /\ calls \subseteq [by : Callers, n : Nat, st : {"queued", "running", "done"}]
    /\ reply \in [Callers -> {"idle", "slot", "answer", "text", "error"}]
    /\ made \in [Callers -> Nat]

\* Permits and calls in flight always add up to the cap: a caller that gives
\* up neither frees the permit of a request the provider still works on nor
\* loses it, and a permit means that a thread is or will be free
\* (limiter.py:25-30 and 69, provider.py:126-130).
SlotsBalance ==
    /\ LimiterTypeOK
    /\ permits + Cardinality(calls) = Cap
    /\ \A c \in Callers : Cardinality(Current(c)) <= 1
    /\ (\E k \in calls : k.st = "queued") => Cardinality(Busy) < Cap
=============================================================================
