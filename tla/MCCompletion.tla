---------------------------- MODULE MCCompletion ----------------------------
(* The completion publisher, or the artifact payloads: they share no state. *)
EXTENDS Completion, ArtifactStorage, TLC

CONSTANTS j1, j2, f1, f2, c1, c2, p1, p2

Jobs2 == {j1, j2}
Files == {f1, f2}
Contents == {c1, c2}
Publishers == {p1, p2}

Art(f, c) == [file |-> f, content |-> c]
Out(a, e) == [artifacts |-> a, escalated |-> e]

\* Nothing but an escalation; two files; one name twice.
Shapes == {Out(<<>>, TRUE),
           Out(<<Art(f1, c2), Art(f2, c1)>>, FALSE),
           Out(<<Art(f1, c2), Art(f1, c1)>>, TRUE)}

\* A recorder with one file, and one with two.
MCBatches == {<<[path |-> f1, payload |-> c1]>>, <<[path |-> f2, payload |-> c1], [path |-> f1, payload |-> c2]>>}

VARIABLE area

allVars == <<vars, storageVars, area>>

MCInit == Init /\ StorageInit /\ area \in {"publication", "payloads"} /\ (area = "payloads" => output = [j \in Job |-> Out(<<>>, TRUE)])

MCNext ==
    /\ UNCHANGED area
    /\ \/ area = "publication" /\ Next /\ UNCHANGED storageVars
       \/ area = "payloads" /\ StorageStep /\ UNCHANGED vars

MCSpec == MCInit /\ [][MCNext]_allVars /\ \A p \in Publisher : WF_allVars(area = "publication" /\ Publish(p) /\ UNCHANGED <<storageVars, area>>)
=============================================================================
