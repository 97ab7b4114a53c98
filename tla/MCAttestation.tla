----------------------------- MODULE MCAttestation -----------------------------
(* Two workloads, one of them in one of two pods; two AWS instances; two    *)
(* responses of the Workload API.                                          *)
EXTENDS Attestation

CONSTANTS w1, w2, q1, q2

MCPodOf   == [p \in Pids |-> IF p = w1 THEN q1 ELSE Nowhere]
MCUid     == [p \in Pids |-> "uid:0"]
MCGid     == [p \in Pids |-> IF p = w1 THEN "gid:1" ELSE "gid:2"]
MCAccount == [q \in Pods |-> IF q = q1 THEN "sa:1" ELSE "sa:2"]
MCSpace   == [q \in Pods |-> "ns:0"]

MCValues  == {"a", "b"}

\* Every configuration of the client.
MCConfigs == [failOnError: BOOLEAN, dialable: BOOLEAN]

\* Bound: one of the workloads is attested.  Calls of Attest share nothing but the node.
MCOneWorkload == \A p, q \in Pids : att[p].pc # "no" /\ att[q].pc # "no" => p = q
================================================================================
