------------------------------ MODULE Gateway -------------------------------
(***************************************************************************)
(* The A2A gateway (core/a2a): the Wormhole agent of one instance calls a  *)
(* skill of another instance, whose endpoint puts each message in its      *)
(* durable jobs.  Callers of the endpoint may also stream.                 *)
(*                                                                         *)
(* The endpoint builds a task view from two reads, the job row and then    *)
(* the result, and workers, cancellations and other requests happen in     *)
(* between.  A request or its reply may be lost, and the calling process   *)
(* may die.  The deadline of the client passes at any time after its call  *)
(* began.  Malformed, oversized, unauthenticated or unknown requests are   *)
(* answered before any state is touched and left out; tokens stand for     *)
(* the origin they are configured with, and a message key is the pair of   *)
(* origin and message id.                                                  *)
(***************************************************************************)
EXTENDS Integers, FiniteSets, Sequences

CONSTANTS None,
          Calls,        \* tasks of this instance for a skill of the other
          Viewers,      \* streaming callers of the other instance
          Refused,      \* the calls whose origin may not use the skill
          Instances,    \* the instances that connect to each other
          MaxCrashes,   \* bound: deaths of the calling process
          MaxLost,      \* bound: lost requests and replies
          MaxRequeues,  \* bound: leases of the other instance that run out
          MaxBoots      \* bound: starts of an instance

VARIABLES job,       \* the other instance's jobs: [Keys -> status, outcome]
          call,      \* the client's calls: [Calls -> state]
          stream,    \* the streams: [Viewers -> state]
          crashes, lost, requeues,
          unsure,    \* history: the keys about which a message was lost or a caller died
          registry,  \* [Instances -> proxies between a skill and its instance, per entry]
          boots      \* [Instances -> starts so far]

callVars == <<job, call, stream, crashes, lost, requeues, unsure>>
cardVars == <<registry, boots>>
gatewayVars == <<callVars, cardVars>>

\* A call uses a fresh message id each time it runs; a viewer chooses its own.
Keys == (Calls \X (1..(MaxCrashes + 2))) \cup (Viewers \X {0})
Key(c) == <<c, call[c].run>>

-----------------------------------------------------------------------------
(* The endpoint.                                                           *)

TerminalStates == {"completed", "failed", "canceled", "rejected"}
StopStates == TerminalStates \cup {"input_required"}

ASSUME GatewayAssumption == MaxCrashes \in Nat /\ None \notin StopStates

\* _map_job.
MapJob(status, outcome) ==
    CASE status = "queued"    -> "submitted"
      [] status = "running"   -> "working"
      [] status = "cancelled" -> "canceled"
      [] status = "failed"    -> "failed"
      [] status = "complete" /\ outcome = "complete"  -> "completed"
      [] status = "complete" /\ outcome = "escalated" -> "input_required"
      [] status = "complete" /\ outcome = "denied"    -> "rejected"
      [] OTHER -> "failed"

BugTaskView(row, key) == MapJob(job[key].status, row.outcome)   \* the result is read before the job
\* _task_view: the row was read before, the result is read now.
TaskView(row, key) == MapJob(row.status, job[key].outcome)

\* enqueue: a known key returns its job.
EnqueueMessage(key) ==
    job' = [job EXCEPT ![key] = IF @.status = "absent" THEN [status |-> "queued", outcome |-> None] ELSE @]

\* cancel: refused for a job that has ended.
CancelTask(key) ==
    job' = [job EXCEPT ![key].status = IF @ \in {"queued", "running"} THEN "cancelled" ELSE @]

\* The other instance's workers.
Claim(key) ==
    /\ job[key].status = "queued"
    /\ job' = [job EXCEPT ![key].status = "running"]
    /\ UNCHANGED <<call, stream, crashes, lost, requeues, unsure, cardVars>>
Finish(key, outcome) ==
    /\ job[key].status = "running"
    /\ job' = [job EXCEPT ![key] = [status |-> IF outcome = None THEN "failed" ELSE "complete", outcome |-> outcome]]
    /\ UNCHANGED <<call, stream, crashes, lost, requeues, unsure, cardVars>>
Requeue(key) ==
    /\ job[key].status = "running" /\ requeues < MaxRequeues
    /\ requeues' = requeues + 1
    /\ job' = [job EXCEPT ![key].status = "queued"]
    /\ UNCHANGED <<call, stream, crashes, lost, unsure, cardVars>>

-----------------------------------------------------------------------------
(* A call of the Wormhole agent.                                           *)

NoRow  == [status |-> None, outcome |-> None]
NewCall == [at |-> "send", run |-> 1, row |-> NoRow, seen |-> None, late |-> FALSE, retries |-> 0]

\* execute sends the message, with a new id; a skill the caller may not use is
\* rejected without a job.
SendMessage(c) ==
    /\ call[c].at = "send"
    /\ IF c \in Refused
       THEN /\ call' = [call EXCEPT ![c].at = "seen", ![c].seen = "rejected"]
            /\ UNCHANGED job
       ELSE /\ EnqueueMessage(Key(c))
            /\ call' = [call EXCEPT ![c].at = "view", ![c].row = [status |-> "queued", outcome |-> None]]
    /\ UNCHANGED <<stream, crashes, lost, requeues, unsure, cardVars>>

ReceiveView(c) ==
    /\ call[c].at = "view"
    /\ call' = [call EXCEPT ![c].at = "seen", ![c].seen = TaskView(call[c].row, Key(c)), ![c].row = NoRow]
    /\ UNCHANGED <<job, stream, crashes, lost, requeues, unsure, cardVars>>

BugPoll(c) ==   \* the deadline is not looked at
    /\ call[c].at = "seen" /\ call[c].seen \notin StopStates
    /\ call' = [call EXCEPT ![c].at = "view", ![c].row = job[Key(c)]]
    /\ UNCHANGED <<job, stream, crashes, lost, requeues, unsure, cardVars>>
\* GetTask, until the deadline ...
Poll(c) ==
    /\ call[c].at = "seen" /\ call[c].seen \notin StopStates /\ ~call[c].late
    /\ call' = [call EXCEPT ![c].at = "view", ![c].row = job[Key(c)]]
    /\ UNCHANGED <<job, stream, crashes, lost, requeues, unsure, cardVars>>

BugTimeOut(c) ==   \* the client gives up without a word
    /\ call[c].at = "seen" /\ call[c].seen \notin StopStates /\ call[c].late
    /\ call' = [call EXCEPT ![c].at = "error"]
    /\ UNCHANGED <<job, stream, crashes, lost, requeues, unsure, cardVars>>
\* ... and then _cancel_quietly, whatever the task has come to since the last view.
TimeOut(c) ==
    /\ call[c].at = "seen" /\ call[c].seen \notin StopStates /\ call[c].late
    /\ CancelTask(Key(c))
    /\ call' = [call EXCEPT ![c].at = "error"]
    /\ UNCHANGED <<stream, crashes, lost, requeues, unsure, cardVars>>

DeadlinePasses(c) ==
    /\ call[c].at \in {"send", "view", "seen"} /\ ~call[c].late
    /\ call' = [call EXCEPT ![c].late = TRUE]
    /\ UNCHANGED <<job, stream, crashes, lost, requeues, unsure, cardVars>>

\* A request is not delivered, or its reply is not: the client raises, and of a
\* cancellation it does not hear.
MessageLost(c) ==
    /\ lost < MaxLost
    /\ \/ call[c].at \in {"send", "view"}
       \/ call[c].at = "seen" /\ call[c].seen \notin StopStates
    /\ lost' = lost + 1
    /\ unsure' = unsure \cup {Key(c)}
    /\ call' = [call EXCEPT ![c].at = "error", ![c].row = NoRow]
    /\ UNCHANGED <<job, stream, crashes, requeues, cardVars>>

\* run: all or nothing, so that the graph never runs a remote skill again.
Confidence(state) == IF state = "completed" THEN 100 ELSE 0

\* The routing graph goes on: complete, once more, or to a person.
Route(c, threshold) ==
    /\ \/ call[c].at = "seen" /\ call[c].seen \in StopStates
       \/ call[c].at = "error"
    /\ LET conf == IF call[c].at = "error" THEN 0 ELSE Confidence(call[c].seen) IN
       call' = [call EXCEPT ![c] =
           IF conf >= threshold /\ call[c].at # "error" THEN [@ EXCEPT !.at = "complete"]
           ELSE IF conf >= 60 /\ call[c].retries < 1
                THEN [NewCall EXCEPT !.run = call[c].run + 1, !.retries = 1]
                ELSE [@ EXCEPT !.at = "escalated"]]
    /\ UNCHANGED <<job, stream, crashes, lost, requeues, unsure, cardVars>>

\* The process that runs the call dies, and another one runs the task again.
CallerDies(c) ==
    /\ crashes < MaxCrashes /\ call[c].at \in {"send", "view", "seen", "error"}
    /\ crashes' = crashes + 1
    /\ unsure' = unsure \cup {Key(c)}
    /\ call' = [call EXCEPT ![c] = [NewCall EXCEPT !.run = call[c].run + 1]]
    /\ UNCHANGED <<job, stream, lost, requeues, cardVars>>

-----------------------------------------------------------------------------
(* SendStreamingMessage.                                                   *)

NoStream == [at |-> "idle", row |-> NoRow, told |-> None]

\* A viewer sends its message, perhaps again after a broken stream.
OpenStream(v) ==
    /\ stream[v].at \in {"idle", "closed"}
    /\ EnqueueMessage(<<v, 0>>)
    /\ stream' = [stream EXCEPT ![v] = [at |-> "view", row |-> job'[<<v, 0>>], told |-> None]]
    /\ UNCHANGED <<call, crashes, lost, requeues, unsure, cardVars>>

\* events: a frame when the state has changed, artifacts before a completion.
Tell(v) ==
    /\ stream[v].at = "view"
    /\ stream' = [stream EXCEPT ![v] = [at |-> "told", row |-> NoRow, told |-> TaskView(stream[v].row, <<v, 0>>)]]
    /\ UNCHANGED <<job, call, crashes, lost, requeues, unsure, cardVars>>

LookAgain(v) ==
    /\ stream[v].at = "told" /\ stream[v].told \notin StopStates
    /\ stream' = [stream EXCEPT ![v].at = "view", ![v].row = job[<<v, 0>>]]
    /\ UNCHANGED <<job, call, crashes, lost, requeues, unsure, cardVars>>

\* The task has stopped, the time is over, or the viewer is gone.
CloseStream(v) ==
    /\ stream[v].at = "told"
    /\ stream' = [stream EXCEPT ![v].at = "closed"]
    /\ UNCHANGED <<job, call, crashes, lost, requeues, unsure, cardVars>>

-----------------------------------------------------------------------------
(* Agent cards.  An entry of a registry is the number of gateways between  *)
(* the skill and the instance that runs it: 0 for a skill of its own.      *)

\* _collect: the skills of every agent but the Wormhole.
Collect(i) == {n \in registry[i] : n = 0}

\* WormholeAgent.__init__: the skills of the peers that answer replace those
\* of an earlier start; without any the manifest is removed.
Boot(i, answers) ==
    /\ boots[i] < MaxBoots
    /\ boots' = [boots EXCEPT ![i] = @ + 1]
    /\ registry' = [registry EXCEPT ![i] = {0} \cup {n + 1 : n \in UNION {Collect(j) : j \in answers}}]
    /\ UNCHANGED callVars

-----------------------------------------------------------------------------
GatewayInit ==
    /\ job = [k \in Keys |-> [status |-> "absent", outcome |-> None]]
    /\ call = [c \in Calls |-> NewCall] /\ stream = [v \in Viewers |-> NoStream]
    /\ crashes = 0 /\ lost = 0 /\ requeues = 0 /\ unsure = {}
    /\ registry = [i \in Instances |-> {0}] /\ boots = [i \in Instances |-> 0]

ClientStep(c) == SendMessage(c) \/ ReceiveView(c) \/ Poll(c) \/ TimeOut(c) \/ Route(c, 65)

WorkerStep(k) ==
    \/ Claim(k) \/ Requeue(k)
    \/ \E o \in {"complete", "escalated", "denied", "no_agent_found", None} : Finish(k, o)

CallNext(c) ==
    \/ ClientStep(c) \/ Route(c, 100) \/ DeadlinePasses(c) \/ MessageLost(c) \/ CallerDies(c)
    \/ \E k \in Keys : k[1] = c /\ WorkerStep(k)

StreamNext(v) ==
    \/ OpenStream(v) \/ Tell(v) \/ LookAgain(v) \/ CloseStream(v)
    \/ WorkerStep(<<v, 0>>)

CardNext == \E i \in Instances : \E answers \in SUBSET (Instances \ {i}) : Boot(i, answers)

\* The thread of a call goes on, and its deadline passes.
CallFairness(c) == WF_gatewayVars(ClientStep(c)) /\ WF_gatewayVars(DeadlinePasses(c))

GatewayNext == (\E c \in Calls : CallNext(c)) \/ (\E v \in Viewers : StreamNext(v)) \/ CardNext

GatewaySpec == GatewayInit /\ [][GatewayNext]_gatewayVars /\ \A c \in Calls : CallFairness(c)

-----------------------------------------------------------------------------
(* Properties.                                                             *)

\* What the endpoint says of a stopped task it says for ever: a caller, or a
\* stream, that was told of a stop state would be told the same now, although
\* the view it got was put together from two reads.
ViewsStand ==
    /\ \A c \in Calls \ Refused : call[c].seen \in StopStates =>
           MapJob(job[Key(c)].status, job[Key(c)].outcome) = call[c].seen
    /\ \A v \in Viewers : stream[v].told \in StopStates =>
           MapJob(job[<<v, 0>>].status, job[<<v, 0>>].outcome) = stream[v].told

\* A task that is complete here is complete there, and a call that has ended
\* leaves nothing running there, unless a message was lost or the caller died:
\* a client that runs out of time has cancelled the task or come too late.
NothingAbandoned ==
    \A c \in Calls :
        /\ call[c].at = "complete" => job[Key(c)] = [status |-> "complete", outcome |-> "complete"]
        /\ \A n \in 1..call[c].run :
              (call[c].at \in {"complete", "escalated"} \/ n < call[c].run) /\ <<c, n>> \notin unsure =>
                  job[<<c, n>>].status \notin {"queued", "running"}

\* A remote skill has effects: neither the graph's retry nor a chain of
\* gateways runs it more often than the task was run here.
CallsOnce ==
    /\ \A c \in Calls : Cardinality({n \in 1..call[c].run : job[<<c, n>>].status # "absent"}) <= 1 + crashes
    /\ \A i \in Instances : registry[i] \subseteq {0, 1}

\* A call of another instance leaves one run of the skill there, and none that
\* nobody waits for (execute, _cancel_quietly, run, _collect).
CallsAccounted == NothingAbandoned /\ CallsOnce

\* Every call comes back, also from an instance that has no worker.
Returns(c) == <>(call[c].at \in {"complete", "escalated"})
EveryCallReturns == \A c \in Calls : Returns(c)
=============================================================================
