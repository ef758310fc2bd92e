------------------------------- MODULE Orion -------------------------------
(***************************************************************************)
(* Orion's feedback pipeline (orion/__init__.py, orion/pipeline,           *)
(* orion/storage, orion/core/dataset_store.py): agents publish feedback on *)
(* Redis streams; one coroutine per stream reads it as a member of a       *)
(* consumer group and writes it to SQLite; rows good enough to train on    *)
(* are copied into an in-memory buffer per domain, marked as curated, and  *)
(* flushed to a numbered file when the buffer is large enough.  The hourly *)
(* extraction cycle does the same for every row, and copies the            *)
(* high-quality events of the feedback table as well.                      *)
(*                                                                         *)
(* The coroutines run on one event loop: between two awaits a coroutine is *)
(* alone on the loop, so a step below is what happens from one await to    *)
(* the next.  POST /orion/training/run runs in a thread of its own, with   *)
(* its own buffers and the same directory.                                 *)
(*                                                                         *)
(* Left out: the health file, and the dataset_ready notification with the  *)
(* per-skill counter that only feeds it (nothing in the repository reads   *)
(* either); the modelled history is shorter than the 24 hour window.       *)
(***************************************************************************)
EXTENDS Naturals, Sequences, FiniteSets, SequencesExt

CONSTANTS Streams,         \* the streams Orion listens to
          RefineryStreams, \* those with RefineryFeedbackEvents; the others carry FeedbackEvents
          Worlds,          \* the starting points: records of log, what the agents publish
                           \* (a message may be published as late as it is read), and of
                           \* old, whether the flat JSONL files are still there
          Domains,         \* the dataset domains: {"vega", "rigel"}
          Legacy,          \* the events in the flat JSONL files, which a start migrates
          None,
          BatchSize,       \* count=10 of xreadgroup
          FlushVerified,   \* 100 human-verified examples fill a buffer
          FlushTotal,      \* 500 examples of any kind do
          MaxBoots,        \* bound: starts of the process
          MaxExtras        \* bound: extraction cycles, training requests, database and Redis
                           \* errors and crashes together

Messages == Legacy \cup UNION {UNION {Range(w.log[s]) : s \in Streams} : w \in Worlds}

FailedExecutions == {"fail", "timeout", "error"}

\* A message is what one publication put on one stream.  migrate_flat_jsonl
\* writes its rows as successes, without the result of an execution.
ASSUME OrionAssumption ==
    /\ RefineryStreams \subseteq Streams /\ "cycle" \notin Streams
    /\ IsFiniteSet(Messages)
    /\ Messages \subseteq [task : STRING, agent : STRING, family : STRING, known : BOOLEAN, valid : BOOLEAN,
                            outcome : STRING, confidence : Nat, execution : STRING, verified : BOOLEAN,
                            corrected : BOOLEAN, hash : STRING, cat : STRING, id : Nat]
    /\ \A w \in Worlds :
          /\ w.log \in [Streams -> Seq(Messages)] /\ w.old \in BOOLEAN
          /\ \A r, s \in Streams : \A i \in 1..Len(w.log[r]), j \in 1..Len(w.log[s]) :
                w.log[r][i] = w.log[s][j] => r = s /\ i = j
    /\ \A m \in Legacy : m.outcome = "success" /\ m.execution \notin FailedExecutions
    /\ None \notin Domains \cup [msg : Messages, quarantined : BOOLEAN, payload : BOOLEAN]
    /\ BatchSize \in Nat /\ MaxBoots \in Nat /\ MaxExtras \in Nat

VARIABLES service,   \* "down", "migrate", "unlink" or "up"
          boots,     \* starts so far; each start makes a new consumer name
          legacy,    \* the flat files are still there
          Log,       \* what the agents publish, in order
          taken,     \* [Streams -> messages delivered to the group so far]
          pel,       \* unacknowledged deliveries: records [msg, consumer]
          mode,      \* [Streams -> "pending" or "live"]: where xreadgroup reads
          co,        \* the coroutines' local state
          events,    \* table events: [Task -> row or None]
          curated,   \* table curated_events
          feedback,  \* table feedback_events: a sequence of rows
          buffer,    \* [Domains -> Seq(example)], in memory
          files,     \* [Domains -> Seq(file)], file n is version n
          trainer,   \* the training request in progress
          extras,    \* counts towards MaxExtras
          settled,   \* history: messages whose handler has ended
          broken,    \* history: messages whose handler ended with a database error
          gone       \* history: examples lost with the buffers or overwritten

vars == <<service, boots, legacy, Log, taken, pel, mode, co, events, curated,
          feedback, buffer, files, trainer, extras, settled, broken, gone>>

logVars   == <<Log, taken, pel, mode>>
dataVars  == <<buffer, files>>
ghostVars == <<settled, broken, gone>>

Tasks    == {m.task : m \in Messages}
Coroutines == Streams \cup {"cycle"}

Idle == [at |-> "idle", batch |-> <<>>, rows |-> {}, ids |-> {}, dom |-> None, version |-> 0,
         signals |-> {}]

-----------------------------------------------------------------------------
(* What the rows say.                                                      *)

\* _derive_domain.
DeriveDomain(m) ==
    IF m.agent = "rigel" \/ m.family = "rigel." THEN "rigel"
    ELSE IF m.agent = "vega" \/ m.family = "qa." THEN "vega"
    ELSE "__unknown__"

BugEligible(m) ==   \* an execution failure is not considered
    \/ m.verified
    \/ m.outcome \in {"success", "partial"} /\ m.confidence >= 75
\* ingest: worth keeping as a signal.  A failed execution is not, whatever the
\* agent's confidence, unless a person verified the result.
Eligible(m) ==
    \/ m.verified
    \/ /\ m.outcome \in {"success", "partial"}
       /\ m.confidence >= 75
       /\ m.execution \notin FailedExecutions

\* validate_feedback_event against the manifest of a registered agent.
Registered(m) == m.known

BugUncurated ==   \* curated_events is not consulted
    {t \in Tasks : /\ events[t] # None
                   /\ ~events[t].quarantined
                   /\ \/ events[t].msg.verified
                      \/ events[t].msg.confidence >= 90 /\ events[t].msg.outcome = "success"}
\* get_uncurated_events: a higher bar than Eligible.
Uncurated ==
    {t \in Tasks : /\ events[t] # None
                   /\ ~events[t].quarantined
                   /\ \/ events[t].msg.verified
                      \/ events[t].msg.confidence >= 90 /\ events[t].msg.outcome = "success"
                   /\ t \notin curated}

\* _row_to_event: the table has no column for human_verified.
ReadBack(row) == [row.msg EXCEPT !.verified = FALSE]

\* extract: the best row per input hash of a category, those above 0.9 that
\* nobody corrected, and the corrected ones.
Window(cat)  == {i \in 1..Len(feedback) : ~feedback[i].quarantined /\ feedback[i].cat = cat}
Deduped(cat) == {i \in Window(cat) : \A j \in Window(cat) :
                    feedback[j].msg.hash = feedback[i].msg.hash =>
                        \/ feedback[j].msg.confidence < feedback[i].msg.confidence
                        \/ feedback[j].msg.confidence = feedback[i].msg.confidence /\ i <= j}
HighQuality(cat) == {i \in Deduped(cat) : feedback[i].msg.confidence > 90 /\ ~feedback[i].msg.corrected}
CorrectionPairs(cat) ==
    {i \in Deduped(cat) : feedback[i].msg.outcome = "corrected" /\ feedback[i].msg.corrected}

\* _domain_for_task_type: here the vega test comes first.
DomainForTaskType(m) ==
    IF m.family = "qa." \/ m.agent = "vega" THEN "vega"
    ELSE IF m.family = "rigel." \/ m.agent = "rigel" THEN "rigel"
    ELSE None

\* curate, for the domain d: verified corrections, and successes nobody verified.
Curatable(cat, d) ==
    {i \in CorrectionPairs(cat) : ReadBack(feedback[i]).verified /\ DomainForTaskType(feedback[i].msg) = d}
    \cup
    {i \in HighQuality(cat) : /\ ~ReadBack(feedback[i]).verified
                              /\ feedback[i].msg.outcome \in {"success", "completed"}
                              /\ DomainForTaskType(feedback[i].msg) = d}

\* extract_all_domains: the categories of the rows that are not quarantined.
\* A signal's examples go to one buffer per domain; the parts are independent.
Signals == {feedback[i].cat : i \in {j \in 1..Len(feedback) : ~feedback[j].quarantined}} \X Domains

-----------------------------------------------------------------------------
(* The dataset store.                                                      *)

Example(m, src) == [task |-> m.task, src |-> src, verified |-> m.verified]

\* append_example, for a set of messages or rows of one domain.
AppendExamples(d, S) == buffer' = [buffer EXCEPT ![d] = @ \o SetToSeq(S)]

ShouldFlush(buf) ==
    \/ Cardinality({i \in 1..Len(buf) : buf[i].verified}) >= FlushVerified
    \/ Len(buf) >= FlushTotal

\* _next_version: one more than the highest version in the directory.
NextVersion(d) == Len(files[d]) + 1

\* The file is opened for writing, so a file of that version is replaced.
WriteFile(d, v, content) ==
    files' = [files EXCEPT ![d] = IF v <= Len(@) THEN [@ EXCEPT ![v] = content] ELSE Append(@, content)]

Overwritten(d, v) == IF v <= Len(files[d]) THEN Range(files[d][v]) ELSE {}

-----------------------------------------------------------------------------
Init ==
    /\ service = "down" /\ boots = 0
    /\ \E w \in Worlds : Log = w.log /\ legacy = w.old
    /\ taken = [s \in Streams |-> 0]
    /\ pel = {}
    /\ mode = [s \in Streams |-> "pending"]
    /\ co = [c \in Coroutines |-> Idle]
    /\ events = [t \in Tasks |-> None]
    /\ curated = {}
    /\ feedback = <<>>
    /\ buffer = [d \in Domains |-> <<>>]
    /\ files = [d \in Domains |-> <<>>]
    /\ trainer = [at |-> "idle", rows |-> {}, dom |-> None, version |-> 0]
    /\ extras = 0
    /\ settled = {} /\ broken = {} /\ gone = {}

\* start: the tables exist, migrate_flat_jsonl commits the rows of a flat file
\* (INSERT OR IGNORE) ...
Start ==
    /\ service = "down" /\ boots < MaxBoots
    /\ boots' = boots + 1
    /\ mode' = [s \in Streams |-> "pending"]
    /\ IF legacy
       THEN /\ service' = "unlink"
            /\ events' = [t \in Tasks |->
                  IF events[t] = None /\ \E m \in Legacy : m.task = t
                  THEN [msg |-> CHOOSE m \in Legacy : m.task = t, quarantined |-> FALSE, payload |-> TRUE]
                  ELSE events[t]]
       ELSE service' = "up" /\ UNCHANGED events
    /\ UNCHANGED <<legacy, Log, taken, pel, co, curated, feedback, dataVars, trainer,
                   extras, ghostVars>>

\* ... and then removes the file; the listeners start.
UnlinkLegacy ==
    /\ service = "unlink"
    /\ legacy' = FALSE /\ service' = "up"
    /\ UNCHANGED <<boots, Log, taken, pel, mode, co, events, curated, feedback, dataVars,
                   trainer, extras, ghostVars>>

\* The process dies: buffers, coroutines and the request thread go with it.
Crash ==
    /\ service # "down" /\ boots < MaxBoots /\ extras < MaxExtras
    /\ extras' = extras + 1
    /\ service' = "down"
    /\ co' = [c \in Coroutines |-> Idle]
    /\ buffer' = [d \in Domains |-> <<>>]
    /\ trainer' = [trainer EXCEPT !.at = "idle", !.rows = {}, !.dom = None, !.version = 0]
    /\ gone' = gone \cup UNION {Range(buffer[d]) : d \in Domains}
    /\ UNCHANGED <<boots, legacy, logVars, events, curated, feedback, files, settled, broken>>

\* A coroutine inside a synchronous stretch of code keeps the loop.
LoopFree(c) == /\ service = "up"
               /\ \A o \in Coroutines \ {c} : co[o].at # "flush"

-----------------------------------------------------------------------------
(* A listener.                                                             *)

BugTake(s, n) ==   \* the messages are acknowledged when they are read
    /\ taken' = [taken EXCEPT ![s] = @ + n]
    /\ UNCHANGED pel
\* xreadgroup with ">": the next messages of the stream, now pending for this
\* consumer.
Take(s, n) ==
    /\ taken' = [taken EXCEPT ![s] = @ + n]
    /\ pel' = pel \cup {[msg |-> Log[s][i], consumer |-> boots] : i \in (taken[s] + 1)..(taken[s] + n)}

\* xreadgroup with "0": this consumer's own unacknowledged messages.
OwnPending(s) == {p.msg : p \in {q \in pel : q.consumer = boots /\ q.msg \in Range(Log[s])}}

BugReadPending(s) ==   \* the listener never switches to new messages
    /\ LoopFree(s) /\ mode[s] = "pending" /\ co[s].at = "idle"
    /\ OwnPending(s) # {}
    /\ co' = [co EXCEPT ![s].at = "handle", ![s].batch = SetToSeq(OwnPending(s))]
    /\ UNCHANGED <<service, boots, legacy, Log, taken, pel, mode, events, curated, feedback,
                   dataVars, trainer, extras, ghostVars>>
\* _listen, pending replay.
ReadPending(s) ==
    /\ LoopFree(s) /\ mode[s] = "pending" /\ co[s].at = "idle"
    /\ LET own == OwnPending(s) IN
       /\ mode' = [mode EXCEPT ![s] = IF Cardinality(own) < BatchSize THEN "live" ELSE @]
       /\ co' = IF own = {} THEN co
                ELSE [co EXCEPT ![s].at = "handle", ![s].batch = SetToSeq(own)]
    /\ UNCHANGED <<service, boots, legacy, Log, taken, pel, events, curated, feedback,
                   dataVars, trainer, extras, ghostVars>>

\* _listen, live.
ReadLive(s) ==
    /\ LoopFree(s) /\ mode[s] = "live" /\ co[s].at = "idle"
    /\ \E n \in 1..BatchSize :
          /\ taken[s] + n <= Len(Log[s])
          /\ Take(s, n)
          /\ co' = [co EXCEPT ![s].at = "handle",
                              ![s].batch = SubSeq(Log[s], taken[s] + 1, taken[s] + n)]
    /\ UNCHANGED <<service, boots, legacy, Log, mode, events, curated, feedback, dataVars,
                   trainer, extras, ghostVars>>

\* append_event: INSERT OR IGNORE under the task's id.
AppendEvent(m, q) ==
    events' = IF events[m.task] = None
              THEN [events EXCEPT ![m.task] = [msg |-> m, quarantined |-> q, payload |-> FALSE]]
              ELSE events

\* _process_refinery_event and ingest, up to the commit of append_event: a
\* message that does not parse, or whose agent or skill is not registered, is
\* logged and dropped; an eligible event goes on to curation.
ProcessRefineryEvent(s) ==
    /\ s \in RefineryStreams /\ LoopFree(s) /\ co[s].at = "handle"
    /\ LET m == Head(co[s].batch) IN
       IF m.valid /\ Registered(m)
       THEN /\ AppendEvent(m, ~Eligible(m))
            /\ co' = [co EXCEPT ![s].at = IF Eligible(m) THEN "curate" ELSE "ack"]
       ELSE co' = [co EXCEPT ![s].at = "ack"] /\ UNCHANGED events
    /\ UNCHANGED <<service, boots, legacy, logVars, curated, feedback, dataVars, trainer,
                   extras, ghostVars>>

\* _process_feedback and _process_escalation: append, with a new id, or for a
\* message that does not parse a sentinel row that is quarantined next.
ProcessFeedback(s) ==
    /\ s \notin RefineryStreams /\ LoopFree(s) /\ co[s].at = "handle"
    /\ LET m == Head(co[s].batch) IN
       /\ feedback' = Append(feedback, [msg |-> m, quarantined |-> FALSE,
                                        cat |-> IF m.valid THEN m.cat ELSE "__invalid__"])
       /\ co' = [co EXCEPT ![s].at = IF m.valid THEN "ack" ELSE "quarantine",
                           ![s].version = Len(feedback) + 1]
    /\ UNCHANGED <<service, boots, legacy, logVars, events, curated, dataVars, trainer,
                   extras, ghostVars>>

\* quarantine: the second commit of _quarantine_raw.
Quarantine(s) ==
    /\ LoopFree(s) /\ co[s].at = "quarantine"
    /\ feedback' = [feedback EXCEPT ![co[s].version].quarantined = TRUE]
    /\ co' = [co EXCEPT ![s].at = "ack"]
    /\ UNCHANGED <<service, boots, legacy, logVars, events, curated, dataVars, trainer,
                   extras, ghostVars>>

\* A database error while the message is handled is logged, and the message is
\* acknowledged all the same.
HandlerFails(s) ==
    /\ LoopFree(s) /\ co[s].at \in {"handle", "curate", "mark", "quarantine"}
    /\ extras < MaxExtras
    /\ extras' = extras + 1
    /\ broken' = broken \cup {Head(co[s].batch)}
    /\ co' = [co EXCEPT ![s].at = "ack"]
    /\ UNCHANGED <<service, boots, legacy, logVars, events, curated, feedback, dataVars, trainer,
                   settled, gone>>

\* _ack, in the finally clause, and the next message of the batch.
Ack(s) ==
    /\ LoopFree(s) /\ co[s].at = "ack"
    /\ LET m == Head(co[s].batch)
           rest == Tail(co[s].batch)
       IN /\ pel' = {p \in pel : p.msg # m}
          /\ settled' = settled \cup {m}
          /\ co' = [co EXCEPT ![s] = IF rest = <<>> THEN Idle
                                     ELSE [Idle EXCEPT !.at = "handle", !.batch = rest]]
    /\ UNCHANGED <<service, boots, legacy, Log, taken, mode, events, curated, feedback,
                   dataVars, trainer, extras, broken, gone>>

\* An error of _ack is logged and nothing else.
AckFails(s) ==
    /\ LoopFree(s) /\ co[s].at = "ack" /\ extras < MaxExtras
    /\ extras' = extras + 1
    /\ settled' = settled \cup {Head(co[s].batch)}
    /\ co' = [co EXCEPT ![s] = IF Len(co[s].batch) = 1 THEN Idle
                               ELSE [Idle EXCEPT !.at = "handle", !.batch = Tail(co[s].batch)]]
    /\ UNCHANGED <<service, boots, legacy, logVars, events, curated, feedback, dataVars, trainer,
                   broken, gone>>

-----------------------------------------------------------------------------
(* _curate_from_events, run by ingest and by the extraction cycle.         *)

AfterCuration(c) == IF c = "cycle" THEN "extract" ELSE "ack"

\* get_uncurated_events: the rows of unknown domains are left where they are.
ReadUncurated(c) ==
    /\ LoopFree(c) /\ co[c].at = "curate"
    /\ LET rows == {t \in Uncurated : DeriveDomain(events[t].msg) \in Domains} IN
       co' = [co EXCEPT ![c].rows = rows,
                        ![c].at = IF rows = {} THEN AfterCuration(c) ELSE "append"]
    /\ UNCHANGED <<service, boots, legacy, logVars, events, curated, feedback, dataVars, trainer,
                   extras, ghostVars>>

\* The rows of one domain go to its buffer ...
AppendRows(c) ==
    /\ LoopFree(c) /\ co[c].at = "append"
    /\ \E d \in {DeriveDomain(events[t].msg) : t \in co[c].rows} :
          LET ids == {t \in co[c].rows : DeriveDomain(events[t].msg) = d} IN
          /\ AppendExamples(d, {Example(events[t].msg, "event") : t \in ids})
          /\ co' = [co EXCEPT ![c].at = "mark", ![c].ids = ids, ![c].dom = d]
    /\ UNCHANGED <<service, boots, legacy, logVars, events, curated, feedback, files, trainer,
                   extras, ghostVars>>

\* Where a coroutine goes once the ids of one domain are done.
NextDomain(c) ==
    [co[c] EXCEPT !.rows = @ \ co[c].ids, !.ids = {}, !.dom = None, !.version = 0,
                  !.at = IF co[c].ids = {} THEN IF co[c].signals = {} THEN "idle" ELSE "signals"
                         ELSE IF co[c].rows = co[c].ids THEN AfterCuration(c) ELSE "append"]

\* ... are marked, and the buffer is flushed if it is full: flush first picks
\* the version.
MarkCurated(c) ==
    /\ LoopFree(c) /\ co[c].at = "mark"
    /\ curated' = curated \cup co[c].ids
    /\ co' = [co EXCEPT ![c] = IF ShouldFlush(buffer[co[c].dom])
                               THEN [@ EXCEPT !.at = "flush", !.version = NextVersion(co[c].dom)]
                               ELSE NextDomain(c)]
    /\ UNCHANGED <<service, boots, legacy, logVars, events, feedback, dataVars, trainer,
                   extras, ghostVars>>

\* flush, after the version: write the file, point latest at it, empty the buffer.
Flush(c) ==
    /\ service = "up" /\ co[c].at = "flush"
    /\ LET d == co[c].dom IN
       /\ WriteFile(d, co[c].version, buffer[d])
       /\ gone' = gone \cup Overwritten(d, co[c].version)
       /\ buffer' = [buffer EXCEPT ![d] = <<>>]
       /\ co' = [co EXCEPT ![c] = NextDomain(c)]
    /\ UNCHANGED <<service, boots, legacy, logVars, events, curated, feedback, trainer,
                   extras, settled, broken>>

-----------------------------------------------------------------------------
(* run_extraction_cycle, as far as it feeds the dataset.                   *)

StartCycle ==
    /\ LoopFree("cycle") /\ co["cycle"].at = "idle" /\ extras < MaxExtras
    /\ extras' = extras + 1
    /\ co' = [co EXCEPT !["cycle"].at = "curate"]
    /\ UNCHANGED <<service, boots, legacy, logVars, events, curated, feedback, dataVars, trainer,
                   ghostVars>>

\* extract_all_domains.
Extract ==
    /\ LoopFree("cycle") /\ co["cycle"].at = "extract"
    /\ co' = [co EXCEPT !["cycle"] = IF Signals = {} THEN Idle
                                     ELSE [Idle EXCEPT !.at = "signals", !.signals = Signals]]
    /\ UNCHANGED <<service, boots, legacy, logVars, events, curated, feedback, dataVars, trainer,
                   extras, ghostVars>>

\* curate, for one domain of one signal; nothing is marked, so the next cycle
\* finds the same rows.
CurateSignal ==
    /\ LoopFree("cycle") /\ co["cycle"].at = "signals"
    /\ \E cat \in {sig[1] : sig \in co["cycle"].signals}, d \in Domains :
          LET rest == co["cycle"].signals \ {<<cat, d>>}
              next == [Idle EXCEPT !.at = IF rest = {} THEN "idle" ELSE "signals", !.signals = rest]
              new == {Example(ReadBack(feedback[i]), "signal") : i \in Curatable(cat, d)}
          IN /\ <<cat, d>> \in co["cycle"].signals
             /\ AppendExamples(d, new)
             /\ co' = [co EXCEPT !["cycle"] =
                   IF new # {} /\ ShouldFlush(buffer[d] \o SetToSeq(new))
                   THEN [next EXCEPT !.at = "flush", !.dom = d, !.version = NextVersion(d)]
                   ELSE next]
    /\ UNCHANGED <<service, boots, legacy, logVars, events, curated, feedback, files, trainer,
                   extras, ghostVars>>

\* A database error ends the cycle; _run_on_interval logs it and waits.
CycleFails ==
    /\ LoopFree("cycle") /\ co["cycle"].at \in {"curate", "mark", "extract"}
    /\ extras < MaxExtras
    /\ extras' = extras + 1
    /\ co' = [co EXCEPT !["cycle"] = Idle]
    /\ UNCHANGED <<service, boots, legacy, logVars, events, curated, feedback, dataVars, trainer,
                   ghostVars>>

-----------------------------------------------------------------------------
(* run_orion_training: a store of its own over the same directory.         *)

\* The successful rows that have a payload and a result, in the order of domains.
Trainable(d) == {t \in Tasks : /\ events[t] # None
                               /\ ~events[t].quarantined /\ events[t].payload
                               /\ events[t].msg.outcome = "success"
                               /\ DeriveDomain(events[t].msg) = d}

TrainExamples(S) == SetToSeq({Example(events[t].msg, "training") : t \in S})

StartTraining(d) ==
    /\ service = "up" /\ trainer.at = "idle" /\ extras < MaxExtras
    /\ ShouldFlush(TrainExamples(Trainable(d)))
    /\ extras' = extras + 1
    /\ trainer' = [at |-> "write", rows |-> Trainable(d), dom |-> d, version |-> NextVersion(d)]
    /\ UNCHANGED <<service, boots, legacy, logVars, co, events, curated, feedback, dataVars,
                   ghostVars>>

FinishTraining ==
    /\ trainer.at = "write"
    /\ WriteFile(trainer.dom, trainer.version, TrainExamples(trainer.rows))
    /\ gone' = gone \cup Overwritten(trainer.dom, trainer.version)
    /\ trainer' = [at |-> "idle", rows |-> {}, dom |-> None, version |-> 0]
    /\ UNCHANGED <<service, boots, legacy, logVars, co, events, curated, feedback, buffer,
                   extras, settled, broken>>

-----------------------------------------------------------------------------
Step(c) == \/ ReadUncurated(c) \/ AppendRows(c) \/ MarkCurated(c) \/ Flush(c)

Listen(s) == \/ ReadPending(s) \/ ReadLive(s)
             \/ ProcessRefineryEvent(s) \/ ProcessFeedback(s) \/ Quarantine(s)
             \/ Ack(s) \/ Step(s)

Cycle == Extract \/ CurateSignal \/ Step("cycle")

Next == \/ \E s \in Streams : Listen(s) \/ HandlerFails(s) \/ AckFails(s)
        \/ Start \/ UnlinkLegacy \/ Crash
        \/ StartCycle \/ Cycle \/ CycleFails
        \/ \E d \in Domains : StartTraining(d)
        \/ FinishTraining

\* Every coroutine of the loop and the request thread go on; nothing makes the
\* database fail or the process die.
Fairness == /\ WF_vars(Start \/ UnlinkLegacy)
            /\ \A s \in Streams : WF_vars(Listen(s))
            /\ WF_vars(Cycle)

Spec == Init /\ [][Next]_vars /\ Fairness

-----------------------------------------------------------------------------
(* What must hold.                                                         *)

InBuffers == UNION {Range(buffer[d]) : d \in Domains}
InFiles   == UNION {UNION {Range(files[d][v]) : v \in 1..Len(files[d])} : d \in Domains}

\* The tables, buffers and coroutines have their declared shape.
TypeOK ==
    /\ service \in {"down", "unlink", "up"} /\ boots \in 0..MaxBoots /\ legacy \in BOOLEAN
    /\ \A s \in Streams : taken[s] <= Len(Log[s])
    /\ \A p \in pel : p.msg \in Messages /\ p.consumer \in 1..MaxBoots
    /\ \A c \in Coroutines : co[c].at \in {"idle", "handle", "curate", "append", "mark", "flush",
                                           "ack", "quarantine", "extract", "signals"}
    /\ \A t \in Tasks : events[t] = None \/ events[t].msg.task = t
    /\ curated \subseteq Tasks
    /\ {e.task : e \in InBuffers \cup InFiles} \subseteq Tasks

\* Two gates stand between an agent's claim and the training data (ingest, and
\* the query of get_uncurated_events): an example made from an event is in its
\* own domain's dataset, and its event is verified by a person, or a confident
\* success whose execution did not fail.  The row decides, which is the first
\* event stored for the task: a retry cannot change it.
TrainingGate ==
    \A d \in Domains : \A e \in Range(buffer[d]) \cup UNION {Range(files[d][v]) : v \in 1..Len(files[d])} :
        e.src = "event" =>
            LET m == events[e.task].msg IN
            /\ DeriveDomain(m) = d
            /\ \/ m.verified
               \/ /\ m.outcome = "success" /\ m.confidence >= 90
                  /\ m.execution \notin FailedExecutions

\* The mark is permanent and the buffer is not: a task that curated_events
\* excludes from later passes has its example in a buffer or in a file, unless
\* the process died with it or a training request wrote the same version.
CuratedAccounted ==
    \A t \in curated : \E e \in InBuffers \cup InFiles \cup gone : e.src = "event" /\ e.task = t

\* Redis forgets a message when it is acknowledged: a message this consumer has
\* read and acknowledged is in its table, or was refused, or met a database error.
AckedIsStored ==
    \A s \in Streams : \A i \in 1..taken[s] :
        LET m == Log[s][i] IN
        (\A p \in pel : p.msg # m) =>
            \/ m \in broken
            \/ s \in RefineryStreams /\ (~m.valid \/ ~Registered(m) \/ events[m.task] # None)
            \/ s \notin RefineryStreams /\ \E j \in 1..Len(feedback) : feedback[j].msg = m

\* Whatever fails or dies, nothing leaves its place unaccounted for: marks, rows
\* and acknowledgements (mark_curated, flush, append_event, _ack).
NothingLost == TypeOK /\ CuratedAccounted /\ AckedIsStored

\* Where the examples made from a task's event are: in the buffer of a domain
\* (0) or in its n-th file.
Hits(t, seq) == {i \in 1..Len(seq) : seq[i].task = t /\ seq[i].src = "event"}

Places(t, d) ==
    ({0} \X Hits(t, buffer[d])) \cup UNION {{v} \X Hits(t, files[d][v]) : v \in 1..Len(files[d])}

Copies(t, d) == Cardinality(Places(t, d))

\* Three coroutines curate, and each decides on rows it read before its last
\* await: once a task is marked, only a coroutine that holds it in rows it read
\* earlier adds its example once more, and no coroutine picks it up anew.
MarkedStaysOut ==
    [][\A t \in curated :
          /\ \A c \in Coroutines : t \notin co[c].rows => t \notin co'[c].rows
          /\ (\A c \in Coroutines : t \notin co[c].rows) =>
                 \A d \in Domains : Copies(t, d)' <= Copies(t, d)]_vars

\* Every published message is handled, unless the process dies while it is
\* pending.
EveryMessageSettles ==
    <>(\A s \in Streams : \A m \in Range(Log[s]) :
           m \in settled \/ \E p \in pel : p.msg = m /\ p.consumer < boots)
=============================================================================
