------------------------------ MODULE Attestation ------------------------------
(***************************************************************************)
(* What identities rest on, and how a workload receives its own: the       *)
(* attestation of nodes on AWS, that of workloads, the index from          *)
(* selectors to the workloads that have them, and the client of the        *)
(* Workload API (X509Client).  The four do not meet; each behaviour is one *)
(* of one of them.                                                         *)
(***************************************************************************)
EXTENDS X509Client

CONSTANTS
  Selectors, Sids,
  Pids, Pods, Nowhere, PodOf, Uid, Gid, Account, Space, MaxPollAttempts, MaxFaults,
  Instances, Calls, MaxSkew, SkipBlockDevice, MaxTime

ASSUME AttestationAssumption ==
  /\ Nowhere \notin Pods /\ PodOf \in [Pids -> Pods \cup {Nowhere}]
  /\ MaxPollAttempts \in Nat \ {0} /\ {MaxFaults, MaxSkew, MaxTime} \subseteq Nat
  /\ SkipBlockDevice \in BOOLEAN

VARIABLES part, sidMap, selMap, running, pods, att, faults, now, instance, rows, call, granted

indexVars    == <<sidMap, selMap>>
workloadVars == <<running, pods, att, faults>>
awsVars      == <<now, instance, rows, call, granted>>
vars == <<part, indexVars, workloadVars, awsVars, watchVars>>

Index    == INSTANCE SelectorSets
Workload == INSTANCE WorkloadAttestation
AWS      == INSTANCE AWSAttestation

\* The variables of the other parts do not matter; a client that never starts receives nothing.
NoIndex    == sidMap = 0 /\ selMap = 0
NoWorkload == running = 0 /\ pods = 0 /\ att = [p \in Pids |-> [pc |-> "no"]] /\ faults = 0
NoAWS      == now = 0 /\ instance = 0 /\ rows = 0 /\ call = 0 /\ granted = 0
NoWatch ==
  /\ config = 0 /\ agent = [up |-> FALSE, response |-> NoIdentity] /\ events = 0
  /\ wire = Closed /\ listen = "no" /\ backoff = NoBackoff
  /\ start = "waits" /\ stopped = FALSE /\ ending = FALSE
  /\ handler = "no" /\ changes = FALSE /\ learned = <<>> /\ latest = 0 /\ delivered = 0
  /\ watch = "reads"

Init ==
  \/ part = "index"    /\ Index!Init    /\ NoWorkload /\ NoAWS /\ NoWatch
  \/ part = "workload" /\ Workload!Init /\ NoIndex /\ NoAWS /\ NoWatch
  \/ part = "aws"      /\ AWS!Init      /\ NoIndex /\ NoWorkload /\ NoWatch
  \/ part = "watch"    /\ WatchInit     /\ NoIndex /\ NoWorkload /\ NoAWS

Next ==
  /\ UNCHANGED part
  /\ \/ part = "index"    /\ Index!Next    /\ UNCHANGED <<workloadVars, awsVars, watchVars>>
     \/ part = "workload" /\ Workload!Next /\ UNCHANGED <<indexVars, awsVars, watchVars>>
     \/ part = "aws"      /\ AWS!Next      /\ UNCHANGED <<indexVars, workloadVars, watchVars>>
     \/ part = "watch"    /\ WatchNext     /\ UNCHANGED <<indexVars, workloadVars, awsVars>>

\* The goroutines of Attest, of the plugins and of the client run.
Fairness ==
  /\ \A p \in Pids : WF_vars(/\ part = "workload" /\ Workload!Steps(p)
                             /\ UNCHANGED <<part, indexVars, awsVars, watchVars>>)
  /\ WatchFairness

Spec == Init /\ [][Next]_vars /\ Fairness

(***************************************************************************)
(* Properties.                                                             *)
(***************************************************************************)
\* The states of the parts have their types.
TypeOK ==
  /\ part = "workload" => Workload!TypeOK
  /\ part = "aws" => AWS!TypeOK
  /\ part = "watch" => WatchTypeOK

\* subscribers.get finds exactly the subscribers that share a selector with an entry.
GetFindsAllConcerned == part = "index" => Index!GetFindsAllConcerned

\* powerSet and the comparisons of selector sets agree with the mathematical ones.
SetAlgebra == part = "index" => Index!SetAlgebra

\* A workload gets the selectors of whole plugins, and of its own pod.
AttestedSelectors == part = "workload" => Workload!AttestedSelectors

\* Attest of a workload returns.
AttestReturns == part = "workload" => Workload!AttestReturns

\* An AWS instance identity document gets one SVID.
DocumentIsUsedOnce == part = "aws" => AWS!DocumentIsUsedOnce

\* An instance whose root device was replaced is refused.
ReplacedRootIsRefused == part = "aws" => AWS!ReplacedRootIsRefused
================================================================================
