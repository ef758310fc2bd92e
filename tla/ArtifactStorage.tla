-------------------------- MODULE ArtifactStorage --------------------------
(***************************************************************************)
(* Artifact payloads outside the database: ArtifactStore.record with an    *)
(* object storage (core/artifacts), and the retention pass that purges old *)
(* versions and then removes objects without a row (core/storage).  The    *)
(* rows are in SQLite, behind its write lock; the objects are in a file    *)
(* system or a bucket, behind nothing.  Recorders and the retention pass   *)
(* are different processes.  Completion has the references between         *)
(* attempts and versions; here is what happens to the bytes.               *)
(***************************************************************************)
EXTENDS Integers, Sequences, FiniteSets

CONSTANTS Paths,          \* identity keys
          Payloads,       \* contents
          NoPayload,      \* no object under an id
          Batches,        \* artifact lists: Seq([path, payload])
          MaxVersion,     \* bound: versions per path
          MaxTroubles     \* bound: failing calls and deaths

ASSUME StorageAssumption ==
    /\ MaxVersion \in Nat /\ MaxTroubles \in Nat /\ NoPayload \notin Payloads
    /\ Batches \subseteq Seq([path : Paths, payload : Payloads]) \ {<<>>}

VARIABLES rows,           \* committed artifact_versions: [path, version, payload, old, raced]
          objects,        \* <<path, version>> -> payload
          recorder,       \* the record call that holds the write lock
          pass,           \* the retention pass
          troubles

storageVars == <<rows, objects, recorder, pass, troubles>>

Ids == Paths \X (1 .. MaxVersion)

Id(row) == <<row.path, row.version>>

NotRecording == [active |-> FALSE, todo |-> <<>>, pending |-> {}, put |-> FALSE, overlap |-> FALSE]

NoPass == [pc |-> "idle", ids |-> {}, known |-> {}]

StorageInit ==
    /\ rows = {}
    /\ objects = [i \in Ids |-> NoPayload]
    /\ recorder = NotRecording
    /\ pass = NoPass
    /\ troubles = 0

Trouble == troubles < MaxTroubles /\ troubles' = troubles + 1

-----------------------------------------------------------------------------
\* The rows its transaction sees.
Seen == rows \cup recorder.pending

LatestOf(path, seen) == {r \in seen : r.path = path /\ \A s \in seen : s.path = path => s.version <= r.version}

\* The number of versions is taken for the highest one.
BugNextVersion(path, seen) == Cardinality({r \in seen : r.path = path}) + 1

NextVersion(path, seen) ==
    IF \E r \in seen : r.path = path THEN (CHOOSE r \in LatestOf(path, seen) : TRUE).version + 1 ELSE 1

Target == <<Head(recorder.todo).path, NextVersion(Head(recorder.todo).path, Seen)>>

\* BEGIN IMMEDIATE.
BeginRecord(batch) ==
    /\ ~recorder.active
    /\ recorder' = [NotRecording EXCEPT !.active = TRUE, !.todo = batch, !.overlap = pass.pc \in {"list", "delete"}]
    /\ UNCHANGED <<rows, objects, pass, troubles>>

\* The newest version has this content: nothing to store.
SkipUnchanged ==
    /\ recorder.active /\ recorder.todo # <<>> /\ ~recorder.put
    /\ LET a == Head(recorder.todo) IN \E r \in LatestOf(a.path, Seen) : r.payload = a.payload
    /\ recorder' = [recorder EXCEPT !.todo = Tail(@)]
    /\ UNCHANGED <<rows, objects, pass, troubles>>

\* put publishes by an atomic rename over whatever has the id.
PutObject ==
    /\ recorder.active /\ recorder.todo # <<>> /\ ~recorder.put
    /\ Target \in Ids
    /\ LET a == Head(recorder.todo)
       IN /\ \A r \in LatestOf(a.path, Seen) : r.payload # a.payload
          /\ objects' = [objects EXCEPT ![Target] = a.payload]
    /\ recorder' = [recorder EXCEPT !.put = TRUE]
    /\ UNCHANGED <<rows, pass, troubles>>

InsertRow ==
    /\ recorder.active /\ recorder.put
    /\ \A r \in Seen : Id(r) # Target
    /\ LET row == [path |-> Target[1], version |-> Target[2], payload |-> Head(recorder.todo).payload,
                   old |-> FALSE, raced |-> FALSE]
       IN recorder' = [recorder EXCEPT !.todo = Tail(@), !.pending = @ \cup {row}, !.put = FALSE]
    /\ UNCHANGED <<rows, objects, pass, troubles>>

Unlock == recorder' = NotRecording

\* The INSERT raises, always for an id that has a row: the object just put is
\* deleted and the transaction rolled back; the objects of the batch's earlier
\* artifacts stay.
InsertFails ==
    /\ recorder.active /\ recorder.put
    /\ IF \E r \in Seen : Id(r) = Target THEN UNCHANGED troubles ELSE Trouble
    /\ objects' = [objects EXCEPT ![Target] = NoPayload]
    /\ Unlock
    /\ UNCHANGED <<rows, pass>>

\* put raises, or the process dies: the transaction rolls back.
RecordEnds ==
    /\ recorder.active
    /\ Trouble
    /\ Unlock
    /\ UNCHANGED <<rows, objects, pass>>

CommitRecord ==
    /\ recorder.active /\ recorder.todo = <<>>
    /\ rows' = rows \cup {[r EXCEPT !.raced = recorder.overlap] : r \in recorder.pending}
    /\ Unlock
    /\ UNCHANGED <<objects, pass, troubles>>

-----------------------------------------------------------------------------
\* A version passes its retention period.
GrowOld(row) ==
    /\ row \in rows /\ ~row.old
    /\ rows' = (rows \ {row}) \cup {[row EXCEPT !.old = TRUE]}
    /\ UNCHANGED <<objects, recorder, pass, troubles>>

Superseded == {r \in rows : r.old /\ r \notin LatestOf(r.path, rows)}

\* delete_older_than: old versions that are not the current one.
DeleteOldRows ==
    /\ pass.pc = "idle" /\ ~recorder.active /\ rows # {}
    /\ rows' = rows \ Superseded
    /\ pass' = [NoPass EXCEPT !.pc = "payloads", !.ids = {Id(r) : r \in Superseded}]
    /\ UNCHANGED <<objects, recorder, troubles>>

DeletePayload(id) ==
    /\ pass.pc = "payloads" /\ id \in pass.ids
    /\ objects' = [objects EXCEPT ![id] = NoPayload]
    /\ pass' = [pass EXCEPT !.ids = @ \ {id}]
    /\ UNCHANGED <<rows, recorder, troubles>>

\* cleanup_orphans: the known ids, read before the objects are listed.
ReadKnown ==
    /\ pass.pc = "payloads" /\ pass.ids = {}
    /\ pass' = [pass EXCEPT !.pc = "list", !.known = {Id(r) : r \in rows}]
    /\ recorder' = [recorder EXCEPT !.overlap = recorder.active]
    /\ UNCHANGED <<rows, objects, troubles>>

ListIds ==
    /\ pass.pc = "list"
    /\ pass' = [pass EXCEPT !.pc = "delete", !.ids = {i \in Ids : objects[i] # NoPayload} \ pass.known]
    /\ UNCHANGED <<rows, objects, recorder, troubles>>

DeleteOrphan(id) ==
    /\ pass.pc = "delete" /\ id \in pass.ids
    /\ objects' = [objects EXCEPT ![id] = NoPayload]
    /\ pass' = [pass EXCEPT !.ids = @ \ {id}]
    /\ UNCHANGED <<rows, recorder, troubles>>

\* The pass is over, or a deletion fails and ends it.
PassEnds ==
    /\ pass.pc # "idle"
    /\ IF pass.pc = "delete" /\ pass.ids = {} THEN UNCHANGED troubles ELSE Trouble
    /\ pass' = NoPass
    /\ UNCHANGED <<rows, objects, recorder>>

StorageStep ==
    \/ \E batch \in Batches : BeginRecord(batch)
    \/ SkipUnchanged \/ PutObject \/ InsertRow \/ InsertFails \/ RecordEnds \/ CommitRecord
    \/ \E row \in rows : GrowOld(row)
    \/ \E id \in Ids : DeletePayload(id) \/ DeleteOrphan(id)
    \/ DeleteOldRows \/ ReadKnown \/ ListIds \/ PassEnds

StorageSpec == StorageInit /\ [][StorageStep]_storageVars

\* Every version in the database can be read: its object exists and holds the
\* recorded content, however puts, inserts and commits failed before it and
\* whatever was purged, unless its transaction was open while a clean-up was
\* between its reading of the known ids and its end (store.py:130-166, 225-255):
\* that clean-up takes it for an orphan.
PayloadsStand == \A r \in rows : r.raced \/ objects[Id(r)] = r.payload
=============================================================================
