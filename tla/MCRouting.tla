----------------------------- MODULE MCRouting -----------------------------
(* Instances of the routing graph for TLC. *)
EXTENDS Routing, TLC

CONSTANTS d1, d2, job, mix, write, read, drop, api, p, a1, a2

Tasks == {d1, d2, job, mix}

Sub(skills, threshold, durable) ==
    [origin |-> api, skills |-> skills, payload |-> p,
     threshold |-> threshold, durable |-> durable]

\* A held task submitted to the API and as a durable job; one that needs a
\* skill nobody offers besides; one that needs a denied skill besides.
Submissions ==
    d1 :> Sub(<<write>>, 25, FALSE) @@ d2 :> Sub(<<write, read>>, None, FALSE) @@
    job :> Sub(<<write>>, 70, TRUE) @@ mix :> Sub(<<write, drop>>, None, FALSE)

MCRules == <<[skills |-> {drop}, origins |-> {api}, action |-> "deny"],
             [skills |-> {write, drop}, origins |-> {api}, action |-> "require_review"]>>

\* a2 is registered by an earlier boot and has no implementation.
MCOffers == a1 :> {<<write, api>>, <<drop, api>>} @@ a2 :> {<<write, api>>}
=============================================================================
