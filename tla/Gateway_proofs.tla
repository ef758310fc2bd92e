--------------------------- MODULE Gateway_proofs ---------------------------
(***************************************************************************)
(* The tool client and the A2A gateway, for every number of threads,       *)
(* processes, calls, streams and instances and every bound on faults.      *)
(***************************************************************************)
EXTENDS Gateway, Tools, FiniteSetTheorems, TLAPS

(* The tool client.  ReplyIsMine is not inductive: that the next message    *)
(* with the awaited id answers the awaited request needs that the client    *)
(* only reads the queue of the process it talks to, and that no request of  *)
(* that process has an id the client has not given out yet.                 *)

Requester == (Threads \X Nat) \cup {Nobody}
Request == [id : Int, for : Requester]
Message == [id : Int, for : Requester, ok : BOOLEAN]

\* The client and its queues have their declared shape; the reader of process
\* p fills queue p, and the client reads the queue of its process.
ToolTypeOK ==
    /\ holder \in Threads \cup {Nobody}
    /\ procs \in 0..MaxProcs
    /\ proc \in {0, procs}
    /\ box = proc
    /\ alive \in SUBSET (1..procs)
    /\ nextId \in Nat
    /\ boxOf = [p \in Processes |-> IF p <= procs THEN p ELSE 0]
    /\ queue \in [0..MaxProcs -> Seq(Message)]
    /\ asked \in [Processes -> SUBSET Request]
    /\ \A p \in Processes : p > procs => asked[p] = {} /\ queue[p] = <<>>
    /\ thread \in [Threads -> [at : {"idle", "start", "initialize", "wait", "done", "error"},
                               uses : Nat, got : Requester]]

\* No request or reply of the current process has an id that was not given out.
IdsGivenOut ==
    proc # 0 =>
        /\ nextId >= 1
        /\ \A r \in asked[proc] : r.id <= nextId
        /\ \A i \in DOMAIN queue[proc] : queue[proc][i].id <= nextId

\* Only the holder of the lock is in the client.  While it waits, whatever has
\* the awaited id answers its request.
ClientInv(t) ==
    /\ thread[t].at \in {"start", "initialize", "wait"} => holder = t
    /\ thread[t].at \in {"initialize", "wait"} => proc # 0
    /\ thread[t].at = "wait" =>
           /\ \A r \in asked[proc] : r.id = nextId => r.for = <<t, thread[t].uses>>
           /\ \A i \in DOMAIN queue[proc] :
                  queue[proc][i].id = nextId => queue[proc][i].for = <<t, thread[t].uses>>
    /\ thread[t].at = "done" => thread[t].got = <<t, thread[t].uses>>

ToolInv ==
    /\ ToolTypeOK
    /\ IdsGivenOut
    /\ \A t \in Threads : ClientInv(t)

\* Putting a message in a queue adds that message and nothing else.
LEMMA AppendItems ==
    ASSUME NEW S, NEW s \in Seq(S), NEW m \in S
    PROVE  /\ Append(s, m) \in Seq(S)
           /\ \A i \in DOMAIN Append(s, m) :
                 Append(s, m)[i] = m \/ (i \in DOMAIN s /\ Append(s, m)[i] = s[i])
  OBVIOUS

\* Reading a queue takes its first message and leaves the others.
LEMMA TailItems ==
    ASSUME NEW S, NEW s \in Seq(S), s # <<>>
    PROVE  /\ Tail(s) \in Seq(S) /\ Head(s) \in S /\ 1 \in DOMAIN s /\ Head(s) = s[1]
           /\ \A i \in DOMAIN Tail(s) : i + 1 \in DOMAIN s /\ Tail(s)[i] = s[i + 1]
  OBVIOUS

\* What the sentinel and a notification are.
LEMMA Unsolicited == Eof \in Message /\ Note \in Message
  BY DEF Eof, Note, Message, Requester

\* Nothing has been asked or answered at the start.
LEMMA InitToolInv == ToolInit => ToolInv
  <1> SUFFICES ASSUME ToolInit PROVE ToolInv
    OBVIOUS
  <1>1. ToolTypeOK
    <2>1. queue \in [0..MaxProcs -> Seq(Message)]
      BY ToolsAssumption DEF ToolInit
    <2>2. thread \in [Threads -> [at : {"idle", "start", "initialize", "wait", "done", "error"},
                                  uses : Nat, got : Requester]]
      BY DEF ToolInit, Requester
    <2> QED
      BY <2>1, <2>2, ToolsAssumption DEF ToolInit, ToolTypeOK, Processes
  <1> QED
    BY <1>1 DEF ToolInit, ToolInv, IdsGivenOut, ClientInv

\* The threads of the client: entering, starting a process, asking, giving up.
LEMMA ThreadSteps ==
    ASSUME ToolInv, NEW t \in Threads,
           EnterClient(t) \/ StartProcess(t) \/ StartFails(t) \/ SendRequest(t) \/ GiveUp(t)
    PROVE  ToolInv'
  <1> USE ToolsAssumption
  <1>0. Nobody \in Requester /\ Threads \X Nat \subseteq Requester
    BY DEF Requester
  <1>1. CASE EnterClient(t)
    <2>1. ToolTypeOK'
      BY <1>0, <1>1 DEF EnterClient, ToolInv, ToolTypeOK
    <2>2. IdsGivenOut'
      BY <1>1 DEF EnterClient, ToolInv, IdsGivenOut
    <2>3. ASSUME NEW u \in Threads PROVE ClientInv(u)'
      BY <1>1 DEF EnterClient, ToolInv, ClientInv, ToolTypeOK
    <2> QED
      BY <2>1, <2>2, <2>3 DEF ToolInv
  <1>2. CASE StartProcess(t)
    <2> DEFINE p == procs + 1
    <2>0. /\ p \in Processes /\ procs' = p /\ proc' = p /\ box' = p /\ procs \in Nat
          /\ asked[p] = {} /\ queue[p] = <<>> /\ boxOf' = [boxOf EXCEPT ![p] = p]
          /\ asked' = [asked EXCEPT ![p] = {[id |-> 1, for |-> Nobody]}]
          /\ nextId' = 1 /\ queue' = queue /\ holder' = holder /\ holder = t
          /\ alive' = alive \cup {p} /\ thread' = [thread EXCEPT ![t].at = "initialize"]
          /\ thread[t].at = "start"
      <3>1. procs \in Nat /\ p \in Processes /\ p > procs
        BY <1>2 DEF StartProcess, ToolInv, ToolTypeOK, Processes
      <3>2. asked[p] = {} /\ queue[p] = <<>>
        BY <3>1 DEF ToolInv, ToolTypeOK
      <3>3. asked' = [asked EXCEPT ![p] = {[id |-> 1, for |-> Nobody]}]
        BY <1>2, <3>2 DEF StartProcess, Ask
      <3> QED
        BY <1>2, <3>1, <3>2, <3>3 DEF StartProcess, NewBox
    <2>1. ToolTypeOK'
      <3>1. /\ holder' \in Threads \cup {Nobody} /\ procs' \in 0..MaxProcs /\ proc' \in {0, procs'} /\ box' = proc'
            /\ nextId' \in Nat
        BY <2>0 DEF ToolInv, ToolTypeOK, Processes
      <3>a. alive' \in SUBSET (1..procs')
        <4>1. alive \subseteq 1..procs
          BY DEF ToolInv, ToolTypeOK
        <4> QED
          BY <2>0, <4>1
      <3>2. boxOf' = [q \in Processes |-> IF q <= procs' THEN q ELSE 0]
        <4>1. boxOf = [q \in Processes |-> IF q <= procs THEN q ELSE 0]
          BY DEF ToolInv, ToolTypeOK
        <4>2. boxOf' = [q \in Processes |-> IF q = p THEN p ELSE boxOf[q]]
          BY <2>0, <4>1
        <4>3. ASSUME NEW q \in Processes
              PROVE  (IF q = p THEN p ELSE boxOf[q]) = IF q <= procs' THEN q ELSE 0
          BY <2>0, <4>1 DEF Processes
        <4> QED
          BY <4>2, <4>3
      <3>3. asked' \in [Processes -> SUBSET Request]
        <4>1. [id |-> 1, for |-> Nobody] \in Request
          BY <1>0 DEF Request
        <4> QED
          BY <2>0, <4>1 DEF ToolInv, ToolTypeOK
      <3>4. ASSUME NEW q \in Processes, q > procs' PROVE asked'[q] = {} /\ queue'[q] = <<>>
        <4>1. q > procs /\ q # p
          BY <2>0, <3>4 DEF Processes
        <4> QED
          BY <2>0, <4>1 DEF ToolInv, ToolTypeOK
      <3>5. thread' \in [Threads -> [at : {"idle", "start", "initialize", "wait", "done", "error"},
                                     uses : Nat, got : Requester]]
        BY <2>0 DEF ToolInv, ToolTypeOK
      <3> QED
        BY <3>1, <3>a, <3>2, <3>3, <3>4, <3>5, <2>0 DEF ToolInv, ToolTypeOK
    <2>2. IdsGivenOut'
      <3>1. asked'[p] = {[id |-> 1, for |-> Nobody]} /\ queue'[p] = <<>>
        BY <2>0 DEF ToolInv, ToolTypeOK
      <3> QED
        BY <3>1, <2>0 DEF IdsGivenOut
    <2>3. ASSUME NEW u \in Threads PROVE ClientInv(u)'
      <3>1. proc' # 0
        BY <2>0 DEF Processes
      <3>2. u # t => thread'[u] = thread[u]
        BY <2>0 DEF ToolInv, ToolTypeOK
      <3> QED
        BY <2>0, <3>1, <3>2 DEF ToolInv, ClientInv, ToolTypeOK
    <2> QED
      BY <2>1, <2>2, <2>3 DEF ToolInv
  <1>3. CASE StartFails(t) \/ GiveUp(t)
    <2>0. /\ proc' = 0 /\ box' = 0 /\ alive' = alive \ {proc} /\ holder = t /\ holder' = Nobody
          /\ thread' = [thread EXCEPT ![t].at = "error", ![t].got = Nobody]
          /\ UNCHANGED <<procs, nextId, boxOf, queue, asked>>
      BY <1>3 DEF StartFails, GiveUp, Stop, Leave
    <2>1. ToolTypeOK'
      BY <1>0, <2>0 DEF ToolInv, ToolTypeOK
    <2>2. IdsGivenOut'
      BY <2>0 DEF IdsGivenOut
    <2>3. ASSUME NEW u \in Threads PROVE ClientInv(u)'
      BY <2>0 DEF ToolInv, ClientInv, ToolTypeOK
    <2> QED
      BY <2>1, <2>2, <2>3 DEF ToolInv
  <1>4. CASE SendRequest(t)
    <2>0. /\ proc \in Processes /\ proc # 0 /\ proc = procs /\ nextId \in Nat /\ nextId' = nextId + 1
          /\ asked' = [asked EXCEPT ![proc] = @ \cup {[id |-> nextId + 1, for |-> <<t, thread[t].uses>>]}]
          /\ thread' = [thread EXCEPT ![t].at = "wait"] /\ holder = t /\ thread[t].at = "start"
          /\ UNCHANGED <<holder, proc, procs, alive, box, boxOf, queue>>
      BY <1>4 DEF SendRequest, ToolInv, ToolTypeOK, Processes, Ask
    <2>a. <<t, thread[t].uses>> \in Requester
      BY <1>0 DEF ToolInv, ToolTypeOK
    <2>b. asked'[proc] = asked[proc] \cup {[id |-> nextId + 1, for |-> <<t, thread[t].uses>>]}
      BY <2>0 DEF ToolInv, ToolTypeOK
    <2>c. \A r \in asked[proc] : r.id \in Int /\ r.id <= nextId
      BY <2>0 DEF ToolInv, ToolTypeOK, IdsGivenOut, Request
    <2>d. \A i \in DOMAIN queue[proc] : queue[proc][i].id \in Int /\ queue[proc][i].id <= nextId
      <3>1. queue[proc] \in Seq(Message)
        BY <2>0 DEF ToolInv, ToolTypeOK, Processes
      <3>2. \A i \in DOMAIN queue[proc] : queue[proc][i] \in Message
        BY <3>1
      <3> QED
        BY <3>2, <2>0 DEF ToolInv, IdsGivenOut, Message
    <2>1. ToolTypeOK'
      <3>1. asked' \in [Processes -> SUBSET Request]
        <4>1. [id |-> nextId + 1, for |-> <<t, thread[t].uses>>] \in Request
          BY <2>0, <2>a DEF Request
        <4> QED
          BY <2>0, <4>1 DEF ToolInv, ToolTypeOK
      <3>2. ASSUME NEW q \in Processes, q > procs' PROVE asked'[q] = {} /\ queue'[q] = <<>>
        <4>1. q > procs /\ q # proc
          BY <2>0, <3>2 DEF Processes
        <4> QED
          BY <2>0, <4>1 DEF ToolInv, ToolTypeOK
      <3>3. thread' \in [Threads -> [at : {"idle", "start", "initialize", "wait", "done", "error"},
                                     uses : Nat, got : Requester]]
        BY <2>0 DEF ToolInv, ToolTypeOK
      <3> QED
        BY <3>1, <3>2, <3>3, <2>0 DEF ToolInv, ToolTypeOK
    <2>2. IdsGivenOut'
      BY <2>0, <2>b, <2>c, <2>d DEF IdsGivenOut
    <2>3. ASSUME NEW u \in Threads PROVE ClientInv(u)'
      <3>1. CASE u = t
        <4>1. thread'[t].at = "wait" /\ thread'[t].uses = thread[t].uses
          BY <2>0 DEF ToolInv, ToolTypeOK
        <4> QED
          BY <3>1, <4>1, <2>0, <2>b, <2>c, <2>d DEF ClientInv
      <3>2. CASE u # t
        BY <3>2, <2>0 DEF ToolInv, ClientInv, ToolTypeOK
      <3> QED
        BY <3>1, <3>2
    <2> QED
      BY <2>1, <2>2, <2>3 DEF ToolInv
  <1> QED
    BY <1>1, <1>2, <1>3, <1>4

\* The client reads a message: nothing else has the awaited id.
LEMMA ReceiveStep ==
    ASSUME ToolInv, NEW t \in Threads, ReceiveMessage(t)
    PROVE  ToolInv'
  <1> USE ToolsAssumption
  <1> DEFINE m == Head(queue[box])
  <1>1. /\ proc \in Processes /\ proc # 0 /\ proc = procs /\ box = proc /\ nextId >= 1 /\ nextId \in Nat
        /\ holder = t /\ thread[t].at \in {"initialize", "wait"}
        /\ queue[proc] \in Seq(Message) /\ queue[proc] # <<>>
        /\ queue' = [queue EXCEPT ![proc] = Tail(@)]
        /\ UNCHANGED <<procs, nextId, boxOf, asked>>
    BY DEF ReceiveMessage, ToolInv, ToolTypeOK, Processes, ClientInv, IdsGivenOut
  <1>2. /\ Tail(queue[proc]) \in Seq(Message) /\ 1 \in DOMAIN queue[proc] /\ m = queue[proc][1] /\ m \in Message
        /\ \A i \in DOMAIN Tail(queue[proc]) :
              i + 1 \in DOMAIN queue[proc] /\ Tail(queue[proc])[i] = queue[proc][i + 1]
    BY <1>1, TailItems
  <1>3. /\ queue' \in [0..MaxProcs -> Seq(Message)]
        /\ queue'[proc] = Tail(queue[proc])
        /\ \A q \in Processes : q > procs => queue'[q] = queue[q]
    <2>1. queue \in [0..MaxProcs -> Seq(Message)] /\ procs \in Nat /\ proc \in 0..MaxProcs
      BY <1>1 DEF ToolInv, ToolTypeOK, Processes
    <2> HIDE DEF m
    <2>2. queue' \in [0..MaxProcs -> Seq(Message)]
      BY <2>1, <1>1, <1>2
    <2>3. queue'[proc] = Tail(queue[proc])
      BY <2>1, <1>1
    <2>4. ASSUME NEW q \in Processes, q > procs PROVE queue'[q] = queue[q]
      BY <2>1, <2>4, <1>1 DEF Processes
    <2> QED
      BY <2>2, <2>3, <2>4
  <1>4. Nobody \in Requester /\ m.for \in Requester
    BY <1>2 DEF Message, Requester
  <1>5. \/ /\ proc' = 0 /\ box' = 0 /\ alive' = alive \ {proc} /\ holder' = Nobody
           /\ thread' = [thread EXCEPT ![t].at = "error", ![t].got = Nobody]
        \/ UNCHANGED <<proc, box, alive, holder, thread>>
        \/ /\ thread[t].at = "initialize" /\ thread' = [thread EXCEPT ![t].at = "start"]
           /\ UNCHANGED <<proc, box, alive, holder>>
        \/ /\ thread[t].at = "wait" /\ m.id = nextId /\ holder' = Nobody
           /\ \E at \in {"done", "error"} : thread' = [thread EXCEPT ![t].at = at, ![t].got = m.for]
           /\ UNCHANGED <<proc, box, alive>>
    BY <1>1 DEF ReceiveMessage, Stop, Leave
  <1> HIDE DEF m
  <1>6. ToolTypeOK'
    <2>1. thread' \in [Threads -> [at : {"idle", "start", "initialize", "wait", "done", "error"},
                                   uses : Nat, got : Requester]]
      <3>1. thread \in [Threads -> [at : {"idle", "start", "initialize", "wait", "done", "error"},
                                    uses : Nat, got : Requester]]
        BY DEF ToolInv, ToolTypeOK
      <3>2. \/ UNCHANGED thread
            \/ \E at \in {"start", "done", "error"} :
                  \/ thread' = [thread EXCEPT ![t].at = at]
                  \/ \E g \in Requester : thread' = [thread EXCEPT ![t].at = at, ![t].got = g]
        BY <1>4, <1>5
      <3> QED
        BY <3>1, <3>2
    <2>2. /\ holder' \in Threads \cup {Nobody} /\ proc' \in {0, procs'} /\ box' = proc'
          /\ alive' \in SUBSET (1..procs')
      BY <1>1, <1>5 DEF ToolInv, ToolTypeOK
    <2> QED
      BY <1>1, <1>3, <2>1, <2>2 DEF ToolInv, ToolTypeOK
  <1>7. IdsGivenOut'
    BY <1>1, <1>2, <1>3, <1>5 DEF ToolInv, IdsGivenOut
  <1>8. ASSUME NEW u \in Threads PROVE ClientInv(u)'
    <2>1. CASE u # t
      <3>1. thread'[u] = thread[u]
        BY <2>1, <1>5 DEF ToolInv, ToolTypeOK
      <3>2. thread[u].at \notin {"start", "initialize", "wait"}
        BY <2>1, <1>1 DEF ToolInv, ClientInv
      <3> QED
        BY <3>1, <3>2 DEF ToolInv, ClientInv
    <2>2. CASE u = t
      <3>1. CASE /\ proc' = 0 /\ holder' = Nobody
                 /\ thread' = [thread EXCEPT ![t].at = "error", ![t].got = Nobody]
        <4>1. thread'[t].at = "error"
          BY <3>1 DEF ToolInv, ToolTypeOK
        <4> QED
          BY <4>1, <2>2 DEF ClientInv
      <3>2. CASE UNCHANGED <<proc, box, alive, holder, thread>>
        BY <3>2, <2>2, <1>1, <1>2, <1>3 DEF ToolInv, ClientInv
      <3>3. CASE /\ thread' = [thread EXCEPT ![t].at = "start"]
                 /\ UNCHANGED <<proc, box, alive, holder>>
        <4>1. thread'[t].at = "start"
          BY <3>3 DEF ToolInv, ToolTypeOK
        <4> QED
          BY <4>1, <3>3, <1>1, <2>2 DEF ClientInv
      <3>4. CASE /\ thread[t].at = "wait" /\ m.id = nextId
                 /\ \E at \in {"done", "error"} : thread' = [thread EXCEPT ![t].at = at, ![t].got = m.for]
        <4>1. m.for = <<t, thread[t].uses>>
          BY <3>4, <1>2 DEF ToolInv, ClientInv
        <4>2. thread'[t].at \in {"done", "error"} /\ thread'[t].got = m.for /\ thread'[t].uses = thread[t].uses
          BY <3>4 DEF ToolInv, ToolTypeOK
        <4> QED
          BY <4>1, <4>2, <2>2 DEF ClientInv
      <3> QED
        BY <3>1, <3>2, <3>3, <3>4, <1>5
    <2> QED
      BY <2>1, <2>2
  <1> QED
    BY <1>6, <1>7, <1>8 DEF ToolInv

\* A message that is put in the queue of a process is harmless to the client if
\* its id was given out and, when it is the awaited one, it answers the request.
LEMMA PutStep ==
    ASSUME ToolInv, NEW p \in Processes, p <= procs, NEW m \in Message, Put(boxOf[p], m),
           p = proc => m.id <= nextId,
           \A t \in Threads : p = proc /\ thread[t].at = "wait" /\ m.id = nextId =>
                                  m.for = <<t, thread[t].uses>>,
           asked' \in [Processes -> SUBSET Request],
           \A q \in Processes : asked'[q] \subseteq asked[q],
           UNCHANGED <<holder, proc, procs, alive, nextId, box, boxOf, thread>>
    PROVE  ToolInv'
  <1> USE ToolsAssumption
  <1>1. boxOf[p] = p
    BY DEF ToolInv, ToolTypeOK
  <1>2. /\ queue' = [queue EXCEPT ![p] = Append(@, m)] /\ queue[p] \in Seq(Message)
        /\ p \in 0..MaxProcs /\ p \in Nat /\ procs \in Nat
    BY <1>1 DEF Put, ToolInv, ToolTypeOK, Processes
  <1>3. /\ Append(queue[p], m) \in Seq(Message)
        /\ \A i \in DOMAIN Append(queue[p], m) :
              \/ Append(queue[p], m)[i] = m
              \/ i \in DOMAIN queue[p] /\ Append(queue[p], m)[i] = queue[p][i]
    BY <1>2, AppendItems
  <1>4. /\ queue' \in [0..MaxProcs -> Seq(Message)]
        /\ queue'[p] = Append(queue[p], m)
        /\ \A q \in 0..MaxProcs : q # p => queue'[q] = queue[q]
    BY <1>2, <1>3 DEF ToolInv, ToolTypeOK
  <1>5. ToolTypeOK'
    <2>1. \A q \in Processes : q > procs' => asked'[q] = {} /\ queue'[q] = <<>>
      BY <1>2, <1>4 DEF ToolInv, ToolTypeOK, Processes
    <2> QED
      BY <1>4, <2>1 DEF ToolInv, ToolTypeOK
  <1>6. proc # 0 => proc \in Processes /\ proc \in 0..MaxProcs
    BY DEF ToolInv, ToolTypeOK, Processes
  <1>7. IdsGivenOut'
    BY <1>3, <1>4, <1>6 DEF ToolInv, IdsGivenOut
  <1>8. ASSUME NEW t \in Threads PROVE ClientInv(t)'
    <2>1. ClientInv(t)
      BY DEF ToolInv
    <2>2. CASE proc = 0
      BY <2>1, <2>2 DEF ClientInv
    <2>3. CASE proc \in Processes /\ proc # p
      <3>1. queue'[proc] = queue[proc] /\ asked'[proc] \subseteq asked[proc]
        BY <2>3, <1>4, <1>6, <1>2 DEF Processes
      <3> QED
        BY <2>1, <3>1 DEF ClientInv
    <2>4. CASE proc = p
      <3>1. ASSUME thread[t].at = "wait", NEW i \in DOMAIN queue'[p], queue'[p][i].id = nextId
            PROVE  queue'[p][i].for = <<t, thread[t].uses>>
        <4>1. queue'[p][i] = m \/ (i \in DOMAIN queue[p] /\ queue'[p][i] = queue[p][i])
          BY <1>3, <1>4
        <4>2. CASE queue'[p][i] = m
          BY <2>4, <3>1, <4>2
        <4>3. CASE i \in DOMAIN queue[p] /\ queue'[p][i] = queue[p][i]
          BY <2>1, <2>4, <3>1, <4>3 DEF ClientInv
        <4> QED
          BY <4>1, <4>2, <4>3
      <3>2. asked'[p] \subseteq asked[p]
        OBVIOUS
      <3> QED
        BY <2>1, <2>4, <3>1, <3>2 DEF ClientInv
    <2> QED
      BY <2>2, <2>3, <2>4, <1>6
  <1> QED
    BY <1>5, <1>7, <1>8 DEF ToolInv

\* What the processes and their readers do.
LEMMA ProcessSteps ==
    ASSUME ToolInv, NEW p \in Processes,
           \/ Notify(p) \/ ProcessExits(p) \/ ReaderEnds(p)
           \/ \E r \in asked[p], ok \in BOOLEAN : Answer(p, r, ok)
    PROVE  ToolInv'
  <1> USE ToolsAssumption
  <1>0. /\ nextId \in Nat /\ (proc # 0 => nextId >= 1) /\ p # 0 /\ procs \in Nat /\ p \in Nat
        /\ asked \in [Processes -> SUBSET Request] /\ alive \subseteq 1..procs
    BY DEF ToolInv, ToolTypeOK, IdsGivenOut, Processes
  <1>1. CASE Notify(p)
    <2>1. Note.id = -1 /\ Note \in Message
      BY Unsolicited DEF Note
    <2>2. /\ p <= procs /\ Put(boxOf[p], Note)
          /\ UNCHANGED <<holder, proc, procs, alive, nextId, box, boxOf, asked, thread>>
      BY <1>0, <1>1 DEF Notify
    <2>3. /\ p = proc => Note.id <= nextId
          /\ ~(p = proc /\ Note.id = nextId)
          /\ asked' \in [Processes -> SUBSET Request]
          /\ \A q \in Processes : asked'[q] \subseteq asked[q]
      BY <1>0, <2>1, <2>2
    <2> QED
      BY <2>1, <2>2, <2>3, PutStep
  <1>2. CASE ProcessExits(p)
    <2>1. ToolTypeOK'
      BY <1>2, <1>0 DEF ProcessExits, ToolInv, ToolTypeOK
    <2>2. IdsGivenOut' /\ \A t \in Threads : ClientInv(t)'
      BY <1>2 DEF ProcessExits, ToolInv, IdsGivenOut, ClientInv
    <2> QED
      BY <2>1, <2>2 DEF ToolInv
  <1>3. CASE ReaderEnds(p)
    <2>1. Eof.id = 0 /\ Eof \in Message
      BY Unsolicited DEF Eof
    <2>2. /\ p <= procs /\ Put(boxOf[p], Eof)
          /\ UNCHANGED <<holder, proc, procs, alive, nextId, box, boxOf, asked, thread>>
      BY <1>0, <1>3 DEF ReaderEnds
    <2>3. /\ p = proc => Eof.id <= nextId
          /\ ~(p = proc /\ Eof.id = nextId)
          /\ asked' \in [Processes -> SUBSET Request]
          /\ \A q \in Processes : asked'[q] \subseteq asked[q]
      BY <1>0, <2>1, <2>2
    <2> QED
      BY <2>1, <2>2, <2>3, PutStep
  <1>4. CASE \E r \in asked[p], ok \in BOOLEAN : Answer(p, r, ok)
    <2>1. PICK r \in asked[p], ok \in BOOLEAN : Answer(p, r, ok)
      BY <1>4
    <2> DEFINE m == [id |-> r.id, for |-> r.for, ok |-> ok]
    <2>2. r \in Request
      BY <1>0
    <2>3. m \in Message /\ m.id = r.id /\ m.for = r.for
      BY <2>2 DEF Request, Message
    <2>4. p <= procs
      BY <1>0 DEF ToolInv, ToolTypeOK
    <2>5. /\ Put(boxOf[p], m) /\ asked' = [asked EXCEPT ![p] = @ \ {r}]
          /\ UNCHANGED <<holder, proc, procs, alive, nextId, box, boxOf, thread>>
      BY <2>1 DEF Answer
    <2> HIDE DEF m
    <2>6. /\ asked' \in [Processes -> SUBSET Request]
          /\ \A q \in Processes : asked'[q] \subseteq asked[q]
      BY <1>0, <2>5
    <2>7. p = proc => m.id <= nextId
      BY <1>0, <2>3 DEF ToolInv, IdsGivenOut
    <2>8. \A t \in Threads : p = proc /\ thread[t].at = "wait" /\ m.id = nextId =>
                                 m.for = <<t, thread[t].uses>>
      BY <2>3 DEF ToolInv, ClientInv
    <2> QED
      BY <2>3, <2>4, <2>5, <2>6, <2>7, <2>8, PutStep
  <1> QED
    BY <1>1, <1>2, <1>3, <1>4

\* ToolInv is inductive.
LEMMA NextToolInv == ToolInv /\ [ToolNext]_toolVars => ToolInv'
  <1> SUFFICES ASSUME ToolInv, [ToolNext]_toolVars PROVE ToolInv'
    OBVIOUS
  <1>1. CASE UNCHANGED toolVars
    BY <1>1 DEF toolVars, ToolInv, ToolTypeOK, IdsGivenOut, ClientInv
  <1>2. ASSUME NEW t \in Threads,
               \/ EnterClient(t) \/ StartProcess(t) \/ StartFails(t)
               \/ SendRequest(t) \/ ReceiveMessage(t) \/ GiveUp(t)
        PROVE  ToolInv'
    BY <1>2, ThreadSteps, ReceiveStep
  <1>3. ASSUME NEW p \in Processes,
               \/ Notify(p) \/ ProcessExits(p) \/ ReaderEnds(p)
               \/ \E r \in asked[p], ok \in BOOLEAN : Answer(p, r, ok)
        PROVE  ToolInv'
    BY <1>3, ProcessSteps
  <1> QED
    BY <1>1, <1>2, <1>3 DEF ToolNext

\* However many threads share a tool server's client, and however often its
\* process is replaced while old answers are still read, a call that returns a
\* result returns the answer to the request it made (client.py, _request).
THEOREM RepliesAreMine == ToolSpec => []ReplyIsMine
  <1>1. ToolInv => ReplyIsMine
    BY DEF ToolInv, ClientInv, ReplyIsMine
  <1> QED
    BY InitToolInv, NextToolInv, <1>1, PTL DEF ToolSpec

-----------------------------------------------------------------------------
(* The A2A gateway.  Neither ViewsStand nor CallsAccounted is inductive: a  *)
(* view is put together from two reads, so that the row that was read first *)
(* has to be related to the job while the result is still to be read, and   *)
(* a stop state has to come from a job that has ended; a call that ended    *)
(* leaves nothing behind because its task was cancelled, had stopped or was *)
(* never made, which has to be known one step before.                       *)

Ended == {"complete", "failed", "cancelled"}
Active == {"queued", "running"}
Status == Ended \cup Active \cup {"absent"}
Outcome == {"complete", "escalated", "denied", "no_agent_found", None}
Row == [status : Status \cup {None}, outcome : Outcome]
Run == 1..(MaxCrashes + 2)
Answered == StopStates \cup {"submitted", "working", None}

CallRecord == [at : {"send", "view", "seen", "error", "complete", "escalated"},
               run : Run, row : Row, seen : Answered, late : BOOLEAN, retries : {0}]

GatewayTypeOK ==
    /\ job \in [Keys -> [status : Status, outcome : Outcome]]
    /\ call \in [Calls -> CallRecord]
    /\ stream \in [Viewers -> [at : {"idle", "view", "told", "closed"}, row : Row, told : Answered]]
    /\ crashes \in 0..MaxCrashes
    /\ \A c \in Calls : call[c].run <= 1 + crashes

\* The row was read from this job, which may have gone on since.
RowOf(row, k) ==
    /\ row.status \in Ended \cup Active
    /\ job[k].status \in Ended \cup Active
    /\ row.status \in Ended => job[k].status = row.status

\* The state was told of this job.
ToldOf(state, k) ==
    state \in StopStates => job[k].status \in Ended /\ MapJob(job[k].status, job[k].outcome) = state

\* What the client knows of its task, and what it has left behind.
CallInv(c) ==
    LET k == Key(c) IN
    /\ IF c \in Refused
       THEN /\ call[c].seen \in {None, "rejected"} /\ call[c].at \notin {"view", "complete"}
            /\ call[c].at = "seen" => call[c].seen = "rejected"
            /\ \A n \in Run : job[<<c, n>>].status = "absent"
       ELSE /\ call[c].at = "view" => RowOf(call[c].row, k)
            /\ call[c].at = "seen" => job[k].status \in Ended \cup Active
            /\ ToldOf(call[c].seen, k)
    /\ call[c].at = "error" /\ k \notin unsure => job[k].status \notin Active
    /\ call[c].at = "complete" => job[k] = [status |-> "complete", outcome |-> "complete"]
    /\ call[c].at = "escalated" /\ k \notin unsure => job[k].status \notin Active
    /\ \A n \in Run : n < call[c].run /\ <<c, n>> \notin unsure => job[<<c, n>>].status \notin Active

\* What a stream knows of its task.
StreamInv(v) ==
    LET k == <<v, 0>> IN
    /\ stream[v].at = "view" => RowOf(stream[v].row, k)
    /\ stream[v].at \in {"told", "closed"} => job[k].status \in Ended \cup Active
    /\ ToldOf(stream[v].told, k)

GatewayInv ==
    /\ GatewayTypeOK
    /\ \A c \in Calls : CallInv(c)
    /\ \A v \in Viewers : StreamInv(v)
    /\ registry \in [Instances -> SUBSET {0, 1}]

\* A job that has ended or does not exist stays as it is; one that is under way
\* goes on or ends.
Advance(k) ==
    \/ job'[k] = job[k]
    \/ job[k].status \in Active /\ job'[k].status \in Ended \cup Active

\* Only a job that has ended is mapped to a stop state, and only a complete one
\* to completed.
LEMMA MapFacts ==
    ASSUME NEW s \in Ended \cup Active, NEW o \in Outcome
    PROVE  /\ MapJob(s, o) \in Answered
           /\ MapJob(s, o) \in StopStates => s \in Ended
           /\ MapJob(s, o) = "completed" => s = "complete" /\ o = "complete"
  BY DEF MapJob, StopStates, TerminalStates, Ended, Active, Outcome, Answered

\* The keys of calls and of streams.
LEMMA KeyFacts ==
    /\ \A c \in Calls, n \in Run : <<c, n>> \in Keys
    /\ \A v \in Viewers : <<v, 0>> \in Keys
    /\ \A c \in Calls, v \in Viewers, n \in Run : <<c, n>> # <<v, 0>>
    /\ 1 \in Run /\ Run \subseteq Nat
  BY GatewayAssumption DEF Keys, Run

\* A call that takes no step keeps what it knows while its jobs go on.
LEMMA CallKept ==
    ASSUME GatewayTypeOK, NEW c \in Calls, CallInv(c), call'[c] = call[c], unsure \subseteq unsure',
           \A n \in Run : Advance(<<c, n>>)
    PROVE  CallInv(c)'
  <1>1. call[c].run \in Run
    BY DEF GatewayTypeOK, CallRecord
  <1>2. PICK r \in Run : r = call[c].run
    BY <1>1
  <1>3. Key(c) = <<c, r>> /\ Key(c)' = <<c, r>> /\ Advance(<<c, r>>)
    BY <1>2 DEF Key
  <1>4. Active \cap Ended = {} /\ "complete" \in Ended /\ "absent" \notin Active
    BY DEF Active, Ended
  <1>5. (call[c].at = "complete" => job[Key(c)] = [status |-> "complete", outcome |-> "complete"])'
    BY <1>3, <1>4 DEF CallInv, Advance
  <1>6. \A n \in Run : job[<<c, n>>].status \notin Active => job'[<<c, n>>] = job[<<c, n>>]
    BY DEF Advance
  <1>7. c \notin Refused => (call[c].at = "view" => RowOf(call[c].row, Key(c)))'
    BY <1>3, <1>4 DEF CallInv, Advance, RowOf
  <1>8. c \notin Refused => /\ (call[c].at = "seen" => job[Key(c)].status \in Ended \cup Active)'
                           /\ ToldOf(call[c].seen, Key(c))'
    BY <1>3, <1>4 DEF CallInv, Advance, ToldOf
  <1>9. c \in Refused => \A n \in Run : job'[<<c, n>>].status = "absent"
    BY <1>4, <1>6 DEF CallInv
  <1> QED
    BY <1>2, <1>3, <1>4, <1>5, <1>6, <1>7, <1>8, <1>9 DEF CallInv

\* So does a stream.
LEMMA StreamKept ==
    ASSUME GatewayTypeOK, NEW v \in Viewers, StreamInv(v), stream'[v] = stream[v], Advance(<<v, 0>>)
    PROVE  StreamInv(v)'
  <1>1. Active \cap Ended = {}
    BY DEF Active, Ended
  <1> QED
    BY <1>1 DEF StreamInv, Advance, RowOf, ToldOf

\* Nothing has been called at the start.
LEMMA InitGatewayInv == GatewayInit => GatewayInv
  <1> SUFFICES ASSUME GatewayInit PROVE GatewayInv
    OBVIOUS
  <1> USE GatewayAssumption
  <1>1. NoRow \in Row /\ None \in Answered
    BY DEF NoRow, Row, Outcome, Answered
  <1>2. GatewayTypeOK
    <2>1. job \in [Keys -> [status : Status, outcome : Outcome]]
      BY DEF GatewayInit, Status, Outcome
    <2>2. call \in [Calls -> CallRecord]
      BY <1>1, KeyFacts DEF GatewayInit, NewCall, CallRecord
    <2>3. stream \in [Viewers -> [at : {"idle", "view", "told", "closed"}, row : Row, told : Answered]]
      BY <1>1 DEF GatewayInit, NoStream
    <2>4. \A c \in Calls : call[c].run <= 1 + crashes
      BY DEF GatewayInit, NewCall
    <2> QED
      BY <2>1, <2>2, <2>3, <2>4 DEF GatewayInit, GatewayTypeOK
  <1>3. \A k \in Keys : job[k].status = "absent"
    BY DEF GatewayInit
  <1>4. ASSUME NEW c \in Calls PROVE CallInv(c)
    <2>1. call[c].at = "send" /\ call[c].seen = None /\ call[c].run = 1
      BY DEF GatewayInit, NewCall
    <2>2. \A n \in Run : job[<<c, n>>].status = "absent" /\ ~(n < 1)
      BY <1>3, KeyFacts DEF Run
    <2> QED
      BY <2>1, <2>2 DEF CallInv, Active, ToldOf
  <1>5. ASSUME NEW v \in Viewers PROVE StreamInv(v)
    BY DEF GatewayInit, StreamInv, NoStream, ToldOf
  <1>6. registry \in [Instances -> SUBSET {0, 1}]
    BY DEF GatewayInit
  <1> QED
    BY <1>2, <1>4, <1>5, <1>6 DEF GatewayInv

JobType == [Keys -> [status : Status, outcome : Outcome]]

\* A step of the other instance's workers.
LEMMA WorkerKeeps ==
    ASSUME GatewayInv, NEW k \in Keys, WorkerStep(k)
    PROVE  GatewayInv'
  <1>1. job \in JobType
    BY DEF GatewayInv, GatewayTypeOK, JobType
  <1>2. /\ job[k].status \in Active
        /\ \E s \in Ended \cup Active, o \in Outcome :
              job' = [job EXCEPT ![k] = [status |-> s, outcome |-> o]]
        /\ UNCHANGED <<call, stream, crashes, unsure, registry>>
    <2>1. job[k] = [status |-> job[k].status, outcome |-> job[k].outcome] /\ job[k].outcome \in Outcome
      BY <1>1 DEF JobType
    <2>2. CASE Claim(k)
      <3>1. job' = [job EXCEPT ![k] = [status |-> "running", outcome |-> job[k].outcome]]
        <4>1. [job[k] EXCEPT !.status = "running"] = [status |-> "running", outcome |-> job[k].outcome]
          BY <1>1 DEF JobType
        <4> QED
          BY <2>2, <4>1 DEF Claim
      <3> QED
        BY <2>1, <2>2, <3>1 DEF Claim, Active, cardVars
    <2>3. CASE Requeue(k)
      <3>1. job' = [job EXCEPT ![k] = [status |-> "queued", outcome |-> job[k].outcome]]
        <4>1. [job[k] EXCEPT !.status = "queued"] = [status |-> "queued", outcome |-> job[k].outcome]
          BY <1>1 DEF JobType
        <4> QED
          BY <2>3, <4>1 DEF Requeue
      <3> QED
        BY <2>1, <2>3, <3>1 DEF Requeue, Active, cardVars
    <2>4. ASSUME NEW o \in {"complete", "escalated", "denied", "no_agent_found", None}, Finish(k, o)
          PROVE  /\ job[k].status \in Active
                 /\ \E s \in Ended \cup Active, p \in Outcome :
                       job' = [job EXCEPT ![k] = [status |-> s, outcome |-> p]]
                 /\ UNCHANGED <<call, stream, crashes, unsure, registry>>
      <3>1. o \in Outcome /\ (IF o = None THEN "failed" ELSE "complete") \in Ended
        BY DEF Outcome, Ended
      <3> QED
        BY <2>4, <3>1 DEF Finish, Active, cardVars
    <2> QED
      BY <2>2, <2>3, <2>4 DEF WorkerStep
  <1>3. PICK s \in Ended \cup Active, o \in Outcome :
           job' = [job EXCEPT ![k] = [status |-> s, outcome |-> o]]
    BY <1>2
  <1>4. job' \in JobType
    BY <1>1, <1>3 DEF JobType, Status
  <1>5. \A q \in Keys : Advance(q)
    BY <1>1, <1>2, <1>3 DEF Advance, JobType
  <1>6. GatewayTypeOK'
    BY <1>2, <1>4 DEF GatewayInv, GatewayTypeOK, JobType
  <1>7. \A c \in Calls : CallInv(c)'
    BY <1>2, <1>5, CallKept, KeyFacts DEF GatewayInv
  <1>8. \A v \in Viewers : StreamInv(v)'
    BY <1>2, <1>5, StreamKept, KeyFacts DEF GatewayInv
  <1> QED
    BY <1>2, <1>6, <1>7, <1>8 DEF GatewayInv

\* A step of one call concerns that call and the job of its current run.
LEMMA OneCall ==
    ASSUME GatewayInv, NEW c \in Calls,
           job' \in JobType, \A k \in Keys : k # Key(c) => Advance(k),
           call' \in [Calls -> CallRecord], \A d \in Calls \ {c} : call'[d] = call[d],
           crashes' \in 0..MaxCrashes, crashes <= crashes', call'[c].run <= 1 + crashes',
           unsure \subseteq unsure', stream' = stream, registry' = registry,
           CallInv(c)'
    PROVE  GatewayInv'
  <1>1. call[c].run \in Run
    BY DEF GatewayInv, GatewayTypeOK, CallRecord
  <1>2. GatewayTypeOK'
    <2>1. ASSUME NEW d \in Calls PROVE call'[d].run <= 1 + crashes'
      <3>1. d # c => call'[d].run \in Nat /\ call'[d].run <= 1 + crashes
        BY KeyFacts DEF GatewayInv, GatewayTypeOK, CallRecord
      <3> QED
        BY <3>1, GatewayAssumption DEF GatewayInv, GatewayTypeOK
    <2> QED
      BY <2>1 DEF GatewayInv, GatewayTypeOK, JobType
  <1>3. ASSUME NEW d \in Calls PROVE CallInv(d)'
    <2>1. CASE d # c
      <3>1. \A n \in Run : <<d, n>> # Key(c) /\ <<d, n>> \in Keys
        BY <2>1, KeyFacts DEF Key
      <3> QED
        BY <2>1, <3>1, CallKept DEF GatewayInv
    <2> QED
      BY <2>1
  <1>4. ASSUME NEW v \in Viewers PROVE StreamInv(v)'
    <2>1. <<v, 0>> # Key(c) /\ <<v, 0>> \in Keys
      BY <1>1, KeyFacts DEF Key
    <2> QED
      BY <2>1, StreamKept DEF GatewayInv
  <1> QED
    BY <1>2, <1>3, <1>4 DEF GatewayInv

\* What is known of the call that takes a step, with the run it is in.
LEMMA CallFacts ==
    ASSUME GatewayInv, NEW c \in Calls
    PROVE  /\ GatewayTypeOK /\ CallInv(c) /\ call \in [Calls -> CallRecord] /\ job \in JobType
           /\ call[c] \in CallRecord /\ call[c].run \in Run /\ call[c].run <= 1 + crashes
           /\ crashes \in 0..MaxCrashes /\ crashes <= crashes
           /\ Key(c) = <<c, call[c].run>> /\ Key(c) \in Keys /\ job[Key(c)] \in [status : Status, outcome : Outcome]
           /\ NoRow \in Row /\ Active \cap Ended = {} /\ "absent" \notin Active \cup Ended
  <1>1. GatewayTypeOK /\ CallInv(c) /\ call \in [Calls -> CallRecord] /\ job \in JobType
    BY DEF GatewayInv, GatewayTypeOK, JobType
  <1>2. call[c] \in CallRecord /\ call[c].run \in Run
    BY <1>1 DEF CallRecord
  <1>3. Key(c) = <<c, call[c].run>> /\ Key(c) \in Keys
    BY <1>2, KeyFacts DEF Key
  <1>4. job[Key(c)] \in [status : Status, outcome : Outcome]
    BY <1>1, <1>3 DEF JobType
  <1>5. crashes \in 0..MaxCrashes /\ crashes <= crashes /\ call[c].run <= 1 + crashes
    BY GatewayAssumption DEF GatewayInv, GatewayTypeOK
  <1>6. NoRow \in Row /\ Active \cap Ended = {} /\ "absent" \notin Active \cup Ended
    BY DEF NoRow, Row, Outcome, Active, Ended
  <1> QED
    BY <1>1, <1>2, <1>3, <1>4, <1>5, <1>6


\* The message is sent, or refused.
LEMMA SendKeeps ==
    ASSUME GatewayInv, NEW c \in Calls, SendMessage(c)
    PROVE  GatewayInv'
  <1>0. CallInv(c) /\ call[c] \in CallRecord /\ call \in [Calls -> CallRecord] /\ job \in JobType
    BY CallFacts
  <1>1. PICK r \in Run : r = call[c].run
    BY CallFacts
  <1> DEFINE k == <<c, r>>
  <1>2. Key(c) = k /\ k \in Keys
    BY <1>1, KeyFacts DEF Key
  <1>3. job[k] \in [status : Status, outcome : Outcome] /\ UNCHANGED <<stream, crashes, unsure, registry>>
    BY <1>0, <1>2 DEF SendMessage, JobType, cardVars
  <1>4. CASE c \in Refused
    <2>1. call' = [call EXCEPT ![c].at = "seen", ![c].seen = "rejected"] /\ job' = job
      BY <1>4 DEF SendMessage
    <2>2. "rejected" \in Answered
      BY DEF Answered, StopStates, TerminalStates
    <2>3. /\ call' \in [Calls -> CallRecord] /\ \A d \in Calls \ {c} : call'[d] = call[d]
          /\ call'[c].at = "seen" /\ call'[c].seen = "rejected" /\ call'[c].run = r
      BY <1>0, <1>1, <2>1, <2>2 DEF CallRecord
    <2>4. CallInv(c)'
      <3>1. Key(c)' = k
        BY <2>3 DEF Key
      <3> QED
        BY <1>0, <1>1, <1>3, <1>4, <2>1, <2>3, <3>1 DEF CallInv
    <2>5. \A q \in Keys : Advance(q)
      BY <2>1 DEF Advance
    <2> QED
      BY <1>0, <1>1, <1>3, <2>1, <2>3, <2>4, <2>5, CallFacts, OneCall
  <1>5. CASE c \notin Refused
    <2>1. /\ job' = [job EXCEPT ![k] = IF @.status = "absent" THEN [status |-> "queued", outcome |-> None] ELSE @]
          /\ call' = [call EXCEPT ![c].at = "view", ![c].row = [status |-> "queued", outcome |-> None]]
      BY <1>5, <1>2 DEF SendMessage, EnqueueMessage
    <2>2. [status |-> "queued", outcome |-> None] \in Row
      BY DEF Row, Status, Active, Outcome
    <2>3. /\ call' \in [Calls -> CallRecord] /\ \A d \in Calls \ {c} : call'[d] = call[d]
          /\ call'[c].at = "view" /\ call'[c].seen = call[c].seen /\ call'[c].run = r
          /\ call'[c].row = [status |-> "queued", outcome |-> None]
      BY <1>0, <1>1, <2>1, <2>2 DEF CallRecord
    <2>4. job' \in JobType /\ job'[k].status \in Ended \cup Active
      BY <1>0, <1>2, <1>3, <2>1 DEF JobType, Status, Outcome, Active
    <2>5. (job[k].status \in Ended => job'[k] = job[k]) /\ \A q \in Keys : q # k => Advance(q)
      BY <1>0, <1>2, <2>1 DEF JobType, Advance, Ended
    <2>6. CallInv(c)'
      <3>1. Key(c)' = k
        BY <2>3 DEF Key
      <3>2. ASSUME NEW n \in Run, n < r, <<c, n>> \notin unsure'
            PROVE  job'[<<c, n>>].status \notin Active
        <4>1. <<c, n>> # k /\ <<c, n>> \in Keys /\ job[<<c, n>>].status \notin Active
          BY <1>0, <1>1, <1>3, <3>2, KeyFacts DEF CallInv
        <4> QED
          BY <4>1, <2>5 DEF Advance
      <3>3. RowOf(call[c].row, k)'
        BY <2>3, <2>4 DEF RowOf, Active, Ended
      <3>4. ToldOf(call[c].seen, k)'
        BY <1>0, <1>2, <1>5, <2>3, <2>5 DEF CallInv, ToldOf
      <3> QED
        BY <1>5, <2>3, <2>4, <3>1, <3>2, <3>3, <3>4 DEF CallInv
    <2> QED
      BY <1>0, <1>1, <1>2, <1>3, <2>3, <2>4, <2>5, <2>6, CallFacts, OneCall
  <1> QED
    BY <1>4, <1>5

\* A step of one call that leaves the jobs alone.
LEMMA QuietCall ==
    ASSUME GatewayInv, NEW c \in Calls, job' = job,
           call' \in [Calls -> CallRecord], \A d \in Calls \ {c} : call'[d] = call[d],
           crashes' \in 0..MaxCrashes, crashes <= crashes', call'[c].run <= 1 + crashes',
           unsure \subseteq unsure', stream' = stream, registry' = registry,
           CallInv(c)'
    PROVE  GatewayInv'
  <1>1. job' \in JobType
    BY CallFacts
  <1>2. \A k \in Keys : Advance(k)
    BY DEF Advance
  <1> QED
    BY <1>1, <1>2, OneCall

\* The answer is read, the task is looked at again, or the deadline passes.
LEMMA ViewKeeps ==
    ASSUME GatewayInv, NEW c \in Calls, ReceiveView(c) \/ Poll(c) \/ DeadlinePasses(c)
    PROVE  GatewayInv'
  <1>0. CallInv(c) /\ call[c] \in CallRecord /\ call \in [Calls -> CallRecord] /\ job \in JobType
    BY CallFacts
  <1>1. PICK r \in Run : r = call[c].run
    BY CallFacts
  <1> DEFINE k == <<c, r>>
  <1>2. Key(c) = k /\ k \in Keys
    BY <1>1, KeyFacts DEF Key
  <1>3. /\ job[k] \in [status : Status, outcome : Outcome] /\ job' = job
        /\ UNCHANGED <<stream, crashes, unsure, registry>>
    BY <1>0, <1>2 DEF ReceiveView, Poll, DeadlinePasses, JobType, cardVars
  <1>4. CASE ReceiveView(c)
    <2>1. PICK s \in Ended \cup Active : s = call[c].row.status /\ c \notin Refused
                 /\ job[k].status \in Ended \cup Active /\ (s \in Ended => job[k].status = s)
      BY <1>0, <1>2, <1>4 DEF ReceiveView, CallInv, RowOf
    <2>2. PICK o \in Outcome : o = job[k].outcome
      BY <1>3
    <2> DEFINE told == MapJob(s, o)
    <2>3. call' = [call EXCEPT ![c].at = "seen", ![c].seen = told, ![c].row = NoRow]
      BY <1>2, <1>4, <2>1, <2>2 DEF ReceiveView, TaskView
    <2>4. told \in Answered /\ (told \in StopStates => s \in Ended)
      BY MapFacts
    <2> HIDE DEF told
    <2>5. /\ call' \in [Calls -> CallRecord] /\ \A d \in Calls \ {c} : call'[d] = call[d]
          /\ call'[c].at = "seen" /\ call'[c].seen = told /\ call'[c].run = r
      BY <1>0, <1>1, <2>3, <2>4, CallFacts DEF CallRecord
    <2>6. Key(c)' = k
      BY <2>5 DEF Key
    <2>7. ToldOf(call[c].seen, k)'
      <3>1. told \in StopStates => job[k].status \in Ended /\ MapJob(job[k].status, job[k].outcome) = told
        BY <2>1, <2>2, <2>4 DEF told
      <3> QED
        BY <1>3, <2>5, <3>1 DEF ToldOf
    <2>8. CallInv(c)'
      BY <1>0, <1>1, <1>3, <2>1, <2>5, <2>6, <2>7 DEF CallInv
    <2> QED
      BY <1>0, <1>1, <1>3, <2>5, <2>8, CallFacts, QuietCall
  <1>5. CASE Poll(c)
    <2>1. /\ c \notin Refused /\ job[k].status \in Ended \cup Active /\ call[c].at = "seen"
          /\ call' = [call EXCEPT ![c].at = "view", ![c].row = job[k]]
      <3>1. "rejected" \in StopStates
        BY DEF StopStates, TerminalStates
      <3> QED
        BY <1>0, <1>2, <1>5, <3>1 DEF Poll, CallInv
    <2>2. job[k] \in Row
      BY <1>3 DEF Row
    <2>3. /\ call' \in [Calls -> CallRecord] /\ \A d \in Calls \ {c} : call'[d] = call[d]
          /\ call'[c].at = "view" /\ call'[c].seen = call[c].seen /\ call'[c].run = r /\ call'[c].row = job[k]
      BY <1>0, <1>1, <2>1, <2>2 DEF CallRecord
    <2>4. Key(c)' = k
      BY <2>3 DEF Key
    <2>5. RowOf(call[c].row, k)' /\ ToldOf(call[c].seen, k)'
      BY <1>0, <1>2, <1>3, <2>1, <2>3 DEF RowOf, ToldOf, CallInv
    <2>6. CallInv(c)'
      BY <1>0, <1>1, <1>3, <2>1, <2>3, <2>4, <2>5 DEF CallInv
    <2> QED
      BY <1>0, <1>1, <1>3, <2>3, <2>6, CallFacts, QuietCall
  <1>6. CASE DeadlinePasses(c)
    <2>1. call' = [call EXCEPT ![c].late = TRUE]
      BY <1>6 DEF DeadlinePasses
    <2>2. /\ call' \in [Calls -> CallRecord] /\ \A d \in Calls \ {c} : call'[d] = call[d]
          /\ call'[c].at = call[c].at /\ call'[c].seen = call[c].seen /\ call'[c].run = r
          /\ call'[c].row = call[c].row
      BY <1>0, <1>1, <2>1 DEF CallRecord
    <2>3. Key(c)' = k
      BY <2>2 DEF Key
    <2>4. CallInv(c)'
      BY <1>0, <1>1, <1>2, <1>3, <2>2, <2>3 DEF CallInv, RowOf, ToldOf
    <2> QED
      BY <1>0, <1>1, <1>3, <2>2, <2>4, CallFacts, QuietCall
  <1> QED
    BY <1>4, <1>5, <1>6

\* The client cancels at its deadline, or a message is lost.
LEMMA FailureKeeps ==
    ASSUME GatewayInv, NEW c \in Calls, TimeOut(c) \/ MessageLost(c)
    PROVE  GatewayInv'
  <1>0. CallInv(c) /\ call[c] \in CallRecord /\ call \in [Calls -> CallRecord] /\ job \in JobType
    BY CallFacts
  <1>1. PICK r \in Run : r = call[c].run
    BY CallFacts
  <1> DEFINE k == <<c, r>>
  <1>2. Key(c) = k /\ k \in Keys
    BY <1>1, KeyFacts DEF Key
  <1>3. job[k] \in [status : Status, outcome : Outcome] /\ UNCHANGED <<stream, crashes, registry>>
    BY <1>0, <1>2 DEF TimeOut, MessageLost, JobType, cardVars
  <1>4. CASE TimeOut(c)
    <2>1. /\ call[c].at = "seen" /\ call[c].seen \notin StopStates /\ c \notin Refused
          /\ job' = [job EXCEPT ![k].status = IF @ \in {"queued", "running"} THEN "cancelled" ELSE @]
          /\ call' = [call EXCEPT ![c].at = "error"] /\ unsure' = unsure
      <3>1. "rejected" \in StopStates
        BY DEF StopStates, TerminalStates
      <3> QED
        BY <1>0, <1>2, <1>4, <3>1 DEF TimeOut, CancelTask, CallInv
    <2>2. /\ job' \in JobType /\ job'[k].status \notin Active
          /\ \A q \in Keys : Advance(q)
      BY <1>0, <1>2, <1>3, <2>1 DEF JobType, Status, Active, Ended, Advance
    <2>3. /\ call' \in [Calls -> CallRecord] /\ \A d \in Calls \ {c} : call'[d] = call[d]
          /\ call'[c].at = "error" /\ call'[c].seen = call[c].seen /\ call'[c].run = r
      BY <1>0, <1>1, <2>1 DEF CallRecord
    <2>4. Key(c)' = k
      BY <2>3 DEF Key
    <2>5. ASSUME NEW n \in Run, n < r, <<c, n>> \notin unsure'
          PROVE  job'[<<c, n>>].status \notin Active
      <3>1. <<c, n>> \in Keys /\ job[<<c, n>>].status \notin Active
        BY <1>0, <1>1, <2>1, <2>5, KeyFacts DEF CallInv
      <3> QED
        BY <3>1, <2>2 DEF Advance
    <2>6. ToldOf(call[c].seen, k)'
      BY <2>1, <2>3 DEF ToldOf
    <2>7. CallInv(c)'
      BY <2>1, <2>2, <2>3, <2>4, <2>5, <2>6 DEF CallInv
    <2> QED
      BY <1>0, <1>1, <1>3, <2>1, <2>2, <2>3, <2>7, CallFacts, OneCall
  <1>5. CASE MessageLost(c)
    <2>1. /\ call' = [call EXCEPT ![c].at = "error", ![c].row = NoRow]
          /\ unsure' = unsure \cup {k} /\ job' = job
      BY <1>2, <1>5 DEF MessageLost
    <2>2. /\ call' \in [Calls -> CallRecord] /\ \A d \in Calls \ {c} : call'[d] = call[d]
          /\ call'[c].at = "error" /\ call'[c].seen = call[c].seen /\ call'[c].run = r
      BY <1>0, <1>1, <2>1, CallFacts DEF CallRecord
    <2>3. Key(c)' = k
      BY <2>2 DEF Key
    <2>4. ToldOf(call[c].seen, k) => ToldOf(call[c].seen, k)'
      BY <2>1, <2>2 DEF ToldOf
    <2>5. CallInv(c)'
      BY <1>0, <1>1, <1>2, <2>1, <2>2, <2>3, <2>4 DEF CallInv
    <2> QED
      BY <1>0, <1>1, <1>3, <2>1, <2>2, <2>5, CallFacts, QuietCall
  <1> QED
    BY <1>4, <1>5

\* The graph goes on: a confidence of 0 or 100 never runs the skill once more.
LEMMA RouteKeeps ==
    ASSUME GatewayInv, NEW c \in Calls, NEW threshold \in {65, 100}, Route(c, threshold)
    PROVE  GatewayInv'
  <1>0. CallInv(c) /\ call[c] \in CallRecord /\ call \in [Calls -> CallRecord] /\ job \in JobType
    BY CallFacts
  <1>1. PICK r \in Run : r = call[c].run
    BY CallFacts
  <1> DEFINE k == <<c, r>>
  <1>2. Key(c) = k /\ k \in Keys
    BY <1>1, KeyFacts DEF Key
  <1>3. /\ job[k] \in [status : Status, outcome : Outcome] /\ job' = job
        /\ UNCHANGED <<stream, crashes, unsure, registry>>
    BY <1>0, <1>2 DEF Route, JobType, cardVars
  <1>4. \E at \in {"complete", "escalated"} :
           /\ call' = [call EXCEPT ![c] = [@ EXCEPT !.at = at]]
           /\ at = "complete" => call[c].seen = "completed" /\ call[c].at = "seen"
    <2> DEFINE conf == IF call[c].at = "error" THEN 0 ELSE Confidence(call[c].seen)
               again == [NewCall EXCEPT !.run = call[c].run + 1, !.retries = 1]
    <2>1. /\ call' = [call EXCEPT ![c] =
                IF conf >= threshold /\ call[c].at # "error" THEN [@ EXCEPT !.at = "complete"]
                ELSE IF conf >= 60 /\ call[c].retries < 1 THEN again ELSE [@ EXCEPT !.at = "escalated"]]
          /\ call[c].at \in {"seen", "error"}
      BY DEF Route
    <2>2. CASE call[c].at = "seen" /\ call[c].seen = "completed"
      <3>1. conf >= threshold
        BY <2>2 DEF Confidence
      <3> HIDE DEF conf, again
      <3>2. call' = [call EXCEPT ![c] = [@ EXCEPT !.at = "complete"]]
        BY <2>1, <2>2, <3>1
      <3> QED
        BY <2>2, <3>2
    <2>3. CASE ~(call[c].at = "seen" /\ call[c].seen = "completed")
      <3>1. ~(conf >= threshold) /\ ~(conf >= 60)
        BY <2>1, <2>3 DEF Confidence
      <3> HIDE DEF conf, again
      <3>2. call' = [call EXCEPT ![c] = [@ EXCEPT !.at = "escalated"]]
        BY <2>1, <3>1
      <3> QED
        BY <3>2
    <2> QED
      BY <2>2, <2>3
  <1>5. PICK at \in {"complete", "escalated"} :
           /\ call' = [call EXCEPT ![c] = [@ EXCEPT !.at = at]]
           /\ at = "complete" => call[c].seen = "completed" /\ call[c].at = "seen"
    BY <1>4
  <1>6. /\ call' \in [Calls -> CallRecord] /\ \A d \in Calls \ {c} : call'[d] = call[d]
        /\ call'[c].at = at /\ call'[c].seen = call[c].seen /\ call'[c].run = r
    BY <1>0, <1>1, <1>5 DEF CallRecord
  <1>7. Key(c)' = k
    BY <1>6 DEF Key
  <1>8. k \notin unsure => job[k].status \notin Active
    <2>1. CASE call[c].at = "error"
      BY <1>0, <1>2, <2>1 DEF CallInv
    <2>2. CASE call[c].seen \in StopStates
      <3>1. c \in Refused => job[k].status = "absent"
        BY <1>0, <1>1 DEF CallInv
      <3>2. c \notin Refused => job[k].status \in Ended
        BY <1>0, <1>2, <2>2 DEF CallInv, ToldOf
      <3> QED
        BY <3>1, <3>2 DEF Active, Ended
    <2> QED
      BY <2>1, <2>2 DEF Route
  <1>9. at = "complete" => c \notin Refused /\ job[k] = [status |-> "complete", outcome |-> "complete"]
    <2>1. SUFFICES ASSUME at = "complete"
                   PROVE  c \notin Refused /\ job[k] = [status |-> "complete", outcome |-> "complete"]
      OBVIOUS
    <2>2. c \notin Refused
      BY <1>0, <1>5, <2>1 DEF CallInv
    <2>3. job[k].status \in Ended /\ MapJob(job[k].status, job[k].outcome) = "completed"
      BY <1>0, <1>2, <1>5, <2>1, <2>2 DEF CallInv, ToldOf, StopStates, TerminalStates
    <2>4. PICK s \in Ended, o \in Outcome : s = job[k].status /\ o = job[k].outcome
      BY <1>3, <2>3
    <2>5. s = "complete" /\ o = "complete"
      BY <2>3, <2>4, MapFacts
    <2> QED
      BY <1>3, <2>2, <2>4, <2>5
  <1>10. c \in Refused => at = "escalated"
    BY <1>9
  <1>11. CallInv(c)'
    <2>1. ToldOf(call[c].seen, k) => ToldOf(call[c].seen, k)'
      BY <1>3, <1>6 DEF ToldOf
    <2>2. at \notin {"send", "view", "seen", "error"}
      OBVIOUS
    <2> QED
      BY <1>0, <1>1, <1>2, <1>3, <1>6, <1>7, <1>8, <1>9, <1>10, <2>1, <2>2 DEF CallInv
  <1> QED
    BY <1>0, <1>1, <1>3, <1>6, <1>11, CallFacts, QuietCall

\* The calling process dies; the task runs again, with a new message.
LEMMA CrashKeeps ==
    ASSUME GatewayInv, NEW c \in Calls, CallerDies(c)
    PROVE  GatewayInv'
  <1>0. CallInv(c) /\ call[c] \in CallRecord /\ call \in [Calls -> CallRecord] /\ job \in JobType
    BY CallFacts
  <1>1. PICK r \in Run : r = call[c].run
    BY CallFacts
  <1>2. /\ crashes \in 0..MaxCrashes /\ crashes < MaxCrashes /\ crashes' = crashes + 1
        /\ r <= 1 + crashes /\ unsure' = unsure \cup {<<c, r>>} /\ job' = job
        /\ call' = [call EXCEPT ![c] = [NewCall EXCEPT !.run = r + 1]]
        /\ UNCHANGED <<stream, registry>>
    BY <1>1, CallFacts DEF CallerDies, cardVars, Key
  <1>3. r + 1 \in Run /\ crashes' \in 0..MaxCrashes /\ crashes <= crashes' /\ r + 1 <= 1 + crashes'
    BY <1>2, GatewayAssumption DEF Run
  <1>4. [NewCall EXCEPT !.run = r + 1] \in CallRecord
    BY <1>3, CallFacts DEF NewCall, CallRecord, Answered
  <1>5. /\ call' \in [Calls -> CallRecord] /\ \A d \in Calls \ {c} : call'[d] = call[d]
        /\ call'[c].at = "send" /\ call'[c].seen = None /\ call'[c].run = r + 1
    BY <1>0, <1>2, <1>4 DEF NewCall
  <1>6. CallInv(c)'
    <2>1. ToldOf(call[c].seen, Key(c))'
      BY <1>5, GatewayAssumption DEF ToldOf
    <2>2. ASSUME NEW n \in Run, n < r + 1, <<c, n>> \notin unsure'
          PROVE  job[<<c, n>>].status \notin Active
      <3>1. n # r
        BY <1>2, <2>2
      <3>2. n < r
        BY <2>2, <3>1, GatewayAssumption DEF Run
      <3> QED
        BY <1>0, <1>1, <1>2, <2>2, <3>2 DEF CallInv
    <2> QED
      BY <1>0, <1>2, <1>5, <2>1, <2>2 DEF CallInv
  <1> QED
    BY <1>2, <1>3, <1>5, <1>6, QuietCall

\* A step of a stream concerns that stream and its job.
LEMMA StreamKeeps ==
    ASSUME GatewayInv, NEW v \in Viewers, OpenStream(v) \/ Tell(v) \/ LookAgain(v) \/ CloseStream(v)
    PROVE  GatewayInv'
  <1> DEFINE k == <<v, 0>>
             StreamRecord == [at : {"idle", "view", "told", "closed"}, row : Row, told : Answered]
  <1>0. /\ job \in JobType /\ stream \in [Viewers -> StreamRecord] /\ StreamInv(v) /\ k \in Keys
        /\ NoRow \in Row /\ None \in Answered
    BY KeyFacts DEF GatewayInv, GatewayTypeOK, JobType, NoRow, Row, Outcome, Answered
  <1>1. stream[v] \in StreamRecord /\ job[k] \in [status : Status, outcome : Outcome]
    BY <1>0 DEF JobType
  <1>2. UNCHANGED <<call, crashes, unsure, registry>>
    BY DEF OpenStream, Tell, LookAgain, CloseStream, cardVars
  <1>3. SUFFICES /\ job' \in JobType /\ \A q \in Keys : q # k => Advance(q)
                 /\ stream' \in [Viewers -> StreamRecord] /\ \A w \in Viewers \ {v} : stream'[w] = stream[w]
                 /\ StreamInv(v)'
    <2>1. GatewayTypeOK'
      BY <1>2, <1>3 DEF GatewayInv, GatewayTypeOK, JobType
    <2>2. ASSUME NEW c \in Calls PROVE CallInv(c)'
      <3>1. \A n \in Run : <<c, n>> # k /\ <<c, n>> \in Keys
        BY KeyFacts
      <3> QED
        BY <1>2, <1>3, <3>1, CallKept DEF GatewayInv
    <2>3. ASSUME NEW w \in Viewers, w # v PROVE StreamInv(w)'
      <3>1. <<w, 0>> # k /\ <<w, 0>> \in Keys
        BY <2>3, KeyFacts
      <3> QED
        BY <1>3, <2>3, <3>1, StreamKept DEF GatewayInv
    <2> QED
      BY <1>2, <1>3, <2>1, <2>2, <2>3 DEF GatewayInv
  <1>4. CASE OpenStream(v)
    <2>1. job' = [job EXCEPT ![k] = IF @.status = "absent" THEN [status |-> "queued", outcome |-> None] ELSE @]
      BY <1>4 DEF OpenStream, EnqueueMessage
    <2>2. /\ job' \in JobType /\ job'[k] \in [status : Status, outcome : Outcome]
          /\ job'[k].status \in Ended \cup Active
      BY <1>0, <1>1, <2>1 DEF JobType, Status, Outcome, Active
    <2>3. PICK row \in [status : Status, outcome : Outcome] : row = job'[k]
      BY <2>2
    <2>4. row \in Row
      BY DEF Row
    <2>5. stream' = [stream EXCEPT ![v] = [at |-> "view", row |-> row, told |-> None]]
      BY <1>4, <2>3 DEF OpenStream
    <2>6. stream'[v] = [at |-> "view", row |-> row, told |-> None]
      BY <1>0, <2>5
    <2>7. StreamInv(v)'
      <3>1. RowOf(stream[v].row, k)'
        BY <2>2, <2>3, <2>6 DEF RowOf
      <3>2. ToldOf(stream[v].told, k)'
        BY <2>6, GatewayAssumption DEF ToldOf
      <3> QED
        BY <2>6, <3>1, <3>2 DEF StreamInv
    <2>8. \A q \in Keys : q # k => Advance(q)
      BY <1>0, <2>1 DEF Advance, JobType
    <2>9. stream' \in [Viewers -> StreamRecord] /\ \A w \in Viewers \ {v} : stream'[w] = stream[w]
      BY <1>0, <2>4, <2>5
    <2> QED
      BY <2>2, <2>7, <2>8, <2>9
  <1>5. CASE Tell(v) \/ LookAgain(v) \/ CloseStream(v)
    <2>1. job' = job
      BY <1>5 DEF Tell, LookAgain, CloseStream
    <2>2. job' \in JobType /\ \A q \in Keys : Advance(q)
      BY <1>0, <2>1 DEF Advance
    <2>3. CASE Tell(v)
      <3>1. PICK s \in Ended \cup Active : s = stream[v].row.status
                 /\ job[k].status \in Ended \cup Active /\ (s \in Ended => job[k].status = s)
        BY <1>0, <2>3 DEF Tell, StreamInv, RowOf
      <3>2. PICK o \in Outcome : o = job[k].outcome
        BY <1>1
      <3> DEFINE told == MapJob(s, o)
      <3>3. stream' = [stream EXCEPT ![v] = [at |-> "told", row |-> NoRow, told |-> told]]
        BY <2>3, <3>1, <3>2 DEF Tell, TaskView
      <3>4. told \in Answered /\ (told \in StopStates => s \in Ended)
        BY MapFacts
      <3>5. told \in StopStates => job[k].status \in Ended /\ MapJob(job[k].status, job[k].outcome) = told
        BY <3>1, <3>2, <3>4
      <3> HIDE DEF told
      <3>6. /\ stream' \in [Viewers -> StreamRecord] /\ \A w \in Viewers \ {v} : stream'[w] = stream[w]
            /\ stream'[v].at = "told" /\ stream'[v].told = told
        BY <1>0, <3>3, <3>4
      <3>7. StreamInv(v)'
        BY <2>1, <3>1, <3>5, <3>6 DEF StreamInv, ToldOf
      <3> QED
        BY <2>2, <3>6, <3>7
    <2>4. CASE LookAgain(v)
      <3>1. /\ stream' = [stream EXCEPT ![v].at = "view", ![v].row = job[k]]
            /\ job[k].status \in Ended \cup Active
        BY <1>0, <2>4 DEF LookAgain, StreamInv
      <3>2. job[k] \in Row
        BY <1>1 DEF Row
      <3>3. /\ stream' \in [Viewers -> StreamRecord] /\ \A w \in Viewers \ {v} : stream'[w] = stream[w]
            /\ stream'[v].at = "view" /\ stream'[v].told = stream[v].told /\ stream'[v].row = job[k]
        BY <1>0, <1>1, <3>1, <3>2
      <3>4. StreamInv(v)'
        BY <1>0, <2>1, <3>1, <3>3 DEF StreamInv, ToldOf, RowOf
      <3> QED
        BY <2>2, <3>3, <3>4
    <2>5. CASE CloseStream(v)
      <3>1. stream' = [stream EXCEPT ![v].at = "closed"] /\ stream[v].at = "told"
        BY <2>5 DEF CloseStream
      <3>2. /\ stream' \in [Viewers -> StreamRecord] /\ \A w \in Viewers \ {v} : stream'[w] = stream[w]
            /\ stream'[v].at = "closed" /\ stream'[v].told = stream[v].told
        BY <1>0, <1>1, <3>1
      <3>3. StreamInv(v)'
        BY <1>0, <2>1, <3>1, <3>2 DEF StreamInv, ToldOf
      <3> QED
        BY <2>2, <3>2, <3>3
    <2> QED
      BY <1>5, <2>3, <2>4, <2>5
  <1> QED
    BY <1>4, <1>5

\* A start of an instance learns the skills its peers run themselves.
LEMMA BootKeeps ==
    ASSUME GatewayInv, NEW i \in Instances, NEW answers \in SUBSET (Instances \ {i}), Boot(i, answers)
    PROVE  GatewayInv'
  <1>1. \A n \in UNION {Collect(j) : j \in answers} : n = 0
    BY DEF Collect
  <1>2. registry' \in [Instances -> SUBSET {0, 1}]
    <2>1. {n + 1 : n \in UNION {Collect(j) : j \in answers}} \subseteq {0, 1}
      BY <1>1
    <2> QED
      BY <2>1 DEF Boot, GatewayInv
  <1>3. UNCHANGED <<job, call, stream, crashes, unsure>>
    BY DEF Boot, callVars
  <1>4. \A c \in Calls : CallInv(c)'
    BY <1>3 DEF GatewayInv, CallInv, Key, RowOf, ToldOf
  <1>5. \A v \in Viewers : StreamInv(v)'
    BY <1>3 DEF GatewayInv, StreamInv, RowOf, ToldOf
  <1>6. GatewayTypeOK'
    BY <1>3 DEF GatewayInv, GatewayTypeOK
  <1> QED
    BY <1>2, <1>4, <1>5, <1>6 DEF GatewayInv

\* GatewayInv is inductive.
LEMMA NextGatewayInv == GatewayInv /\ [GatewayNext]_gatewayVars => GatewayInv'
  <1> SUFFICES ASSUME GatewayInv, [GatewayNext]_gatewayVars PROVE GatewayInv'
    OBVIOUS
  <1>1. CASE UNCHANGED gatewayVars
    <2>1. UNCHANGED <<job, call, stream, crashes, unsure, registry>>
      BY <1>1 DEF gatewayVars, callVars, cardVars
    <2>2. \A c \in Calls : CallInv(c)'
      BY <2>1 DEF GatewayInv, CallInv, Key, RowOf, ToldOf
    <2>3. \A v \in Viewers : StreamInv(v)'
      BY <2>1 DEF GatewayInv, StreamInv, RowOf, ToldOf
    <2>4. GatewayTypeOK'
      BY <2>1 DEF GatewayInv, GatewayTypeOK
    <2> QED
      BY <2>1, <2>2, <2>3, <2>4 DEF GatewayInv
  <1>2. ASSUME NEW c \in Calls, CallNext(c) PROVE GatewayInv'
    BY <1>2, SendKeeps, ViewKeeps, FailureKeeps, RouteKeeps, CrashKeeps, WorkerKeeps DEF CallNext, ClientStep
  <1>3. ASSUME NEW v \in Viewers, StreamNext(v) PROVE GatewayInv'
    BY <1>3, StreamKeeps, WorkerKeeps, KeyFacts DEF StreamNext
  <1>4. ASSUME CardNext PROVE GatewayInv'
    BY <1>4, BootKeeps DEF CardNext
  <1> QED
    BY <1>1, <1>2, <1>3, <1>4 DEF GatewayNext

\* A caller or a stream that was told that a task has stopped would be told
\* the same for ever after, although a view is put together from two reads
\* (service.py, _task_view).
THEOREM StopStatesStand == GatewaySpec => []ViewsStand
  <1>1. GatewayInv => ViewsStand
    BY DEF GatewayInv, CallInv, StreamInv, ToldOf, ViewsStand
  <1> QED
    BY InitGatewayInv, NextGatewayInv, <1>1, PTL DEF GatewaySpec

\* At most as many of the jobs of a call exist as the call has runs.
LEMMA RunsCounted ==
    ASSUME GatewayInv, NEW c \in Calls
    PROVE  Cardinality({n \in 1..call[c].run : job[<<c, n>>].status # "absent"}) <= 1 + crashes
  <1> DEFINE S == {n \in 1..call[c].run : job[<<c, n>>].status # "absent"}
  <1>1. call[c].run \in Nat /\ call[c].run <= 1 + crashes /\ crashes \in Nat /\ call[c].run >= 1
    BY KeyFacts, GatewayAssumption DEF GatewayInv, GatewayTypeOK, CallRecord, Run
  <1>2. IsFiniteSet(1..call[c].run) /\ Cardinality(1..call[c].run) = call[c].run
    <2>1. PICK r \in Nat : r = call[c].run /\ r >= 1
      BY <1>1
    <2>2. 1 \in Int /\ r \in Int /\ ~(1 > r) /\ r - 1 + 1 = r
      BY <2>1
    <2>3. IsFiniteSet(1..r) /\ Cardinality(1..r) = r
      BY <2>2, FS_Interval
    <2> QED
      BY <2>1, <2>3
  <1>3. S \subseteq 1..call[c].run
    OBVIOUS
  <1>4. Cardinality(S) <= Cardinality(1..call[c].run) /\ IsFiniteSet(S)
    BY <1>2, <1>3, FS_Subset
  <1>5. Cardinality(S) \in Nat
    BY <1>4, FS_CardinalityType
  <1> QED
    BY <1>1, <1>2, <1>4, <1>5

\* A call of another instance leaves one run of the skill there per run of the
\* task here, none that nobody waits for, and is complete here only if it is
\* complete there (client.py, execute and _cancel_quietly; a2a/agent.py, run).
THEOREM CallsAreAccounted == GatewaySpec => []CallsAccounted
  <1>1. GatewayInv => NothingAbandoned
    <2> SUFFICES ASSUME GatewayInv, NEW c \in Calls
                 PROVE  /\ call[c].at = "complete" => job[Key(c)] = [status |-> "complete", outcome |-> "complete"]
                        /\ \A n \in 1..call[c].run :
                              (call[c].at \in {"complete", "escalated"} \/ n < call[c].run) /\ <<c, n>> \notin unsure =>
                                  job[<<c, n>>].status \notin {"queued", "running"}
      BY DEF NothingAbandoned
    <2>1. PICK r \in Run : r = call[c].run
      BY CallFacts
    <2>2. CallInv(c) /\ Key(c) = <<c, r>>
      BY <2>1 DEF GatewayInv, Key
    <2>3. ASSUME NEW n \in 1..r, call[c].at \in {"complete", "escalated"} \/ n < r, <<c, n>> \notin unsure
          PROVE  job[<<c, n>>].status \notin {"queued", "running"}
      <3>1. n \in Run
        BY GatewayAssumption DEF Run
      <3>2. CASE n < r
        BY <2>1, <2>2, <2>3, <3>1, <3>2 DEF CallInv, Active
      <3>3. CASE n = r
        BY <2>1, <2>2, <2>3, <3>3 DEF CallInv, Active
      <3>4. n < r \/ n = r
        BY GatewayAssumption DEF Run
      <3> QED
        BY <3>2, <3>3, <3>4
    <2> QED
      BY <2>1, <2>2, <2>3 DEF CallInv
  <1>2. GatewayInv => CallsOnce
    BY RunsCounted DEF CallsOnce, GatewayInv
  <1>3. GatewayInv => CallsAccounted
    BY <1>1, <1>2 DEF CallsAccounted
  <1> QED
    BY InitGatewayInv, NextGatewayInv, <1>3, PTL DEF GatewaySpec
=============================================================================
