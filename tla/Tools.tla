------------------------------- MODULE Tools --------------------------------
(***************************************************************************)
(* The tool servers of Quasar (core/quasar): threads that share one client *)
(* of a tool server, a child process that answers on its standard output.  *)
(*                                                                         *)
(* One thread at a time is in the client (its lock).  A reader thread per  *)
(* process moves what the process has written to the queue made for that   *)
(* process, also after the process was stopped.  Request ids start again   *)
(* with every process.  A process answers in any order, late or never,     *)
(* writes notifications of its own, and may exit.                          *)
(***************************************************************************)
EXTENDS Integers, Sequences, FiniteSets

CONSTANTS Nobody, Threads,
          MaxUses,      \* bound: calls of a thread
          MaxProcs,     \* bound: processes started
          MaxNotes      \* bound: notifications

ASSUME ToolsAssumption ==
    /\ MaxUses \in Nat /\ MaxProcs \in Nat /\ MaxNotes \in Nat
    /\ Nobody \notin Threads

VARIABLES holder,    \* the thread in the client, or Nobody
          proc,      \* the current process, 0 if there is none
          procs,     \* processes started so far
          alive,     \* the processes that run
          nextId,    \* _next_id
          box,       \* the queue the client reads
          boxOf,     \* [process -> the queue its reader fills]
          queue,     \* [queue -> messages]
          asked,     \* [process -> requests it may answer]
          ended,     \* the processes whose reader has met the end of the output
          notes,
          thread     \* [Threads -> state]

toolVars == <<holder, proc, procs, alive, nextId, box, boxOf, queue, asked, ended, notes, thread>>

Processes == 1..MaxProcs
Eof  == [id |-> 0, for |-> Nobody, ok |-> FALSE]     \* the sentinel
Note == [id |-> -1, for |-> Nobody, ok |-> TRUE]     \* a notification

Put(b, m) == queue' = [queue EXCEPT ![b] = Append(@, m)]

\* _stop: the process and its queue are let go of.
Stop == proc' = 0 /\ box' = 0 /\ alive' = alive \ {proc}

\* A thread leaves the client with a result or an error.
Leave(t, at, got) ==
    /\ holder' = Nobody
    /\ thread' = [thread EXCEPT ![t].at = at, ![t].got = got]

\* call_tool: _call waits for the lock.
EnterClient(t) ==
    /\ thread[t].at \in {"idle", "done", "error"} /\ thread[t].uses < MaxUses /\ holder = Nobody
    /\ holder' = t
    /\ thread' = [thread EXCEPT ![t] = [at |-> "start", uses |-> @.uses + 1, got |-> Nobody]]
    /\ UNCHANGED <<proc, procs, alive, nextId, box, boxOf, queue, asked, ended, notes>>

\* _send: the request with the next id reaches the process, if it still runs.
Ask(p, id, for) == asked' = [asked EXCEPT ![p] = @ \cup {[id |-> id, for |-> for]}]

BugNewBox == 1   \* one queue for all processes
NewBox == procs + 1

\* _ensure_started: a dead process is replaced; the new one is asked to
\* initialize with id 1 ...
StartProcess(t) ==
    /\ holder = t /\ thread[t].at = "start" /\ (proc = 0 \/ proc \notin alive) /\ procs < MaxProcs
    /\ procs' = procs + 1 /\ proc' = procs + 1 /\ alive' = alive \cup {procs + 1}
    /\ nextId' = 1
    /\ box' = NewBox /\ boxOf' = [boxOf EXCEPT ![procs + 1] = NewBox]
    /\ Ask(procs + 1, 1, Nobody)
    /\ thread' = [thread EXCEPT ![t].at = "initialize"]
    /\ UNCHANGED <<holder, queue, ended, notes>>

\* ... or cannot be started.
StartFails(t) ==
    /\ holder = t /\ thread[t].at = "start" /\ (proc = 0 \/ proc \notin alive)
    /\ Stop /\ Leave(t, "error", Nobody)
    /\ UNCHANGED <<procs, nextId, boxOf, queue, asked, ended, notes>>

\* _request sends ...
SendRequest(t) ==
    /\ holder = t /\ thread[t].at = "start" /\ proc \in alive
    /\ nextId' = nextId + 1
    /\ Ask(proc, nextId + 1, <<t, thread[t].uses>>)
    /\ thread' = [thread EXCEPT ![t].at = "wait"]
    /\ UNCHANGED <<holder, proc, procs, alive, box, boxOf, queue, ended, notes>>

\* ... and reads the queue until it meets its id: anything else is passed over,
\* the end of the output stops the process.
ReceiveMessage(t) ==
    /\ holder = t /\ thread[t].at \in {"initialize", "wait"} /\ queue[box] # <<>>
    /\ LET m == Head(queue[box]) IN
       /\ queue' = [queue EXCEPT ![box] = Tail(@)]
       /\ IF m = Eof THEN Stop /\ Leave(t, "error", Nobody)
          ELSE IF m.id # nextId THEN UNCHANGED <<proc, box, alive, holder, thread>>
          ELSE IF thread[t].at = "initialize"
          THEN IF m.ok THEN thread' = [thread EXCEPT ![t].at = "start"] /\ UNCHANGED <<proc, box, alive, holder>>
               ELSE Stop /\ Leave(t, "error", Nobody)
          ELSE Leave(t, IF m.ok THEN "done" ELSE "error", m.for) /\ UNCHANGED <<proc, box, alive>>
    /\ UNCHANGED <<procs, nextId, boxOf, asked, ended, notes>>

\* The time is over, or the pipe is broken: the process is dropped, since a late
\* reply would be stale.
GiveUp(t) ==
    /\ holder = t /\ thread[t].at \in {"initialize", "wait"}
    /\ Stop /\ Leave(t, "error", Nobody)
    /\ UNCHANGED <<procs, nextId, boxOf, queue, asked, ended, notes>>

\* The process answers, or has answered before it was stopped; the reader
\* brings it to its queue.
Answer(p, r, ok) ==
    /\ p \notin ended /\ r \in asked[p]
    /\ asked' = [asked EXCEPT ![p] = @ \ {r}]
    /\ Put(boxOf[p], [id |-> r.id, for |-> r.for, ok |-> ok])
    /\ UNCHANGED <<holder, proc, procs, alive, nextId, box, boxOf, ended, notes, thread>>

Notify(p) ==
    /\ p \in alive /\ notes < MaxNotes
    /\ notes' = notes + 1
    /\ Put(boxOf[p], Note)
    /\ UNCHANGED <<holder, proc, procs, alive, nextId, box, boxOf, asked, ended, thread>>

ProcessExits(p) ==
    /\ p \in alive
    /\ alive' = alive \ {p}
    /\ UNCHANGED <<holder, proc, procs, nextId, box, boxOf, queue, asked, ended, notes, thread>>

\* _read ends with the sentinel.
ReaderEnds(p) ==
    /\ p \in 1..procs /\ p \notin alive \cup ended
    /\ ended' = ended \cup {p}
    /\ Put(boxOf[p], Eof)
    /\ UNCHANGED <<holder, proc, procs, alive, nextId, box, boxOf, asked, notes, thread>>

ToolInit ==
    /\ holder = Nobody /\ proc = 0 /\ procs = 0 /\ alive = {} /\ nextId = 0 /\ box = 0
    /\ boxOf = [p \in Processes |-> 0] /\ queue = [b \in 0..MaxProcs |-> <<>>]
    /\ asked = [p \in Processes |-> {}] /\ ended = {} /\ notes = 0
    /\ thread = [t \in Threads |-> [at |-> "idle", uses |-> 0, got |-> Nobody]]

ToolNext ==
    \/ \E t \in Threads : \/ EnterClient(t) \/ StartProcess(t) \/ StartFails(t)
                          \/ SendRequest(t) \/ ReceiveMessage(t) \/ GiveUp(t)
    \/ \E p \in Processes : \/ Notify(p) \/ ProcessExits(p) \/ ReaderEnds(p)
                            \/ \E r \in asked[p], ok \in BOOLEAN : Answer(p, r, ok)

ToolSpec == ToolInit /\ [][ToolNext]_toolVars

\* A thread gets the answer to the request it made, never one to a request that
\* was given up, although ids repeat and old readers still write.
ReplyIsMine ==
    \A t \in Threads : thread[t].at = "done" => thread[t].got = <<t, thread[t].uses>>
=============================================================================
