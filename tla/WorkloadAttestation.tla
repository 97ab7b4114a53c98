-------------------------- MODULE WorkloadAttestation --------------------------
(***************************************************************************)
(* The attestation of a workload: Attest of pkg/agent/attestor/workload    *)
(* runs the plugins unix and k8s, each in a goroutine of its own, and      *)
(* collects what they send.  The k8s plugin polls the kubelet for the pod  *)
(* of the workload's container while some container is still starting.     *)
(***************************************************************************)
EXTENDS Naturals, FiniteSets

CONSTANTS
  Pids,             \* workloads
  Pods,             \* pods of the node, with one container each
  Nowhere,          \* the place of a workload that is in no pod
  PodOf,            \* [Pids -> Pods \cup {Nowhere}]: what /proc/<pid>/cgroup says
  Uid, Gid,         \* [Pids -> selectors]
  Account, Space,   \* [Pods -> selectors]: the service account and the namespace
  MaxPollAttempts,
  MaxFaults         \* bound on errors of the kubelet

VARIABLES
  running,   \* the processes that have not ended
  pods,      \* the kubelet's list: what it says of each pod's container
  att,       \* where the goroutines of each Attest are, and what has been collected
  faults

vars == <<running, pods, att, faults>>

Plugins == {"unix", "k8s"}
PluginSelectors == {f[p] : f \in {Uid, Gid}, p \in Pids} \cup {f[q] : f \in {Account, Space}, q \in Pods}

\* plugin: where each goroutine is; resp: the selectors of its plugin's response so far.
NotAsked == [pc |-> "no"]
Asked ==
  [pc |-> "collect", plugin |-> [g \in Plugins |-> "runs"], resp |-> [g \in Plugins |-> {}],
   attempt |-> 1, got |-> {}]

\* The processes, the pods and the goroutines have their types.
TypeOK ==
  /\ running \subseteq Pids
  /\ pods \in [Pods -> {"absent", "starting", "ready", "gone"}]
  /\ att \in [Pids -> {NotAsked} \cup
       [pc: {"collect", "done"}, plugin: [Plugins -> {"runs", "gids", "polls", "ok", "error", "sent"}],
        resp: [Plugins -> SUBSET PluginSelectors], attempt: 1..MaxPollAttempts,
        got: SUBSET PluginSelectors]]
  /\ faults \in 0..MaxFaults

Init ==
  /\ running = Pids
  /\ pods \in [Pods -> {"absent", "starting"}]
  /\ att = [p \in Pids |-> NotAsked]
  /\ faults = MaxFaults

At(p, g, where) == att[p].pc = "collect" /\ att[p].plugin[g] = where

\* Attest starts the goroutines.
Attest(p) ==
  /\ att[p] = NotAsked
  /\ att' = [att EXCEPT ![p] = Asked]
  /\ UNCHANGED <<running, pods, faults>>

\* A plugin goes on, with S added to its response; or it returns, with or without an error.
Goes(p, g, where, S) == att' = [att EXCEPT ![p].plugin[g] = where, ![p].resp[g] = @ \cup S]
Sends(p, g, S)       == Goes(p, g, "ok", S)
Fails(p, g)          == Goes(p, g, "error", {})

\* The unix plugin reads the effective user.  That fails if the process has ended, and may fail
\* for other reasons: the file of /proc cannot be read, or has no user.
Uids(p) ==
  /\ At(p, "unix", "runs")
  /\ \/ p \in running /\ Goes(p, "unix", "gids", {Uid[p]})
     \/ Fails(p, "unix")
  /\ UNCHANGED <<running, pods, faults>>

\* Buggy: the plugin returns the user although it could not read the group.
GidsPartly(p) ==
  /\ At(p, "unix", "gids")
  /\ \/ p \in running /\ Sends(p, "unix", {Gid[p]})
     \/ Sends(p, "unix", {})
  /\ UNCHANGED <<running, pods, faults>>

\* Then it reads the effective group.  The response of a plugin that fails here has the user.
Gids(p) ==
  /\ At(p, "unix", "gids")
  /\ \/ p \in running /\ Sends(p, "unix", {Gid[p]})
     \/ Fails(p, "unix")
  /\ UNCHANGED <<running, pods, faults>>

\* getCgroups reads where the workload is.
GetCgroups(p, where) == p \in running /\ PodOf[p] = where

\* The k8s plugin.  getCgroups fails if the process has ended, the file cannot be read or a line
\* is malformed; without a container id among the lines there are no selectors.
ReadCgroups(p) ==
  /\ At(p, "k8s", "runs")
  /\ \/ Fails(p, "k8s")
     \/ GetCgroups(p, Nowhere) /\ Sends(p, "k8s", {})
     \/ \E q \in Pods : GetCgroups(p, q) /\ Goes(p, "k8s", "polls", {})
  /\ UNCHANGED <<running, pods, faults>>

\* getPodListFromInsecureKubeletPort fails.
PollFails(p) ==
  /\ At(p, "k8s", "polls") /\ faults > 0
  /\ faults' = faults - 1
  /\ Fails(p, "k8s")
  /\ UNCHANGED <<running, pods>>

\* lookUpContainerInPod, over the pods of the list.
InPod(p)   == pods[PodOf[p]] = "ready"
MaybeInPod == {q \in Pods : pods[q] = "starting"}

\* Buggy: the attempts are not counted.
PollForever(p) ==
  /\ At(p, "k8s", "polls")
  /\ CASE InPod(p) -> Sends(p, "k8s", {Account[PodOf[p]], Space[PodOf[p]]})
       [] ~InPod(p) /\ MaybeInPod = {} ->
            Fails(p, "k8s")
       [] OTHER -> UNCHANGED att
  /\ UNCHANGED <<running, pods, faults>>

\* A poll; between two the plugin sleeps.
Poll(p) ==
  /\ At(p, "k8s", "polls")
  /\ CASE InPod(p) -> Sends(p, "k8s", {Account[PodOf[p]], Space[PodOf[p]]})
       [] ~InPod(p) /\ (MaybeInPod = {} \/ att[p].attempt >= MaxPollAttempts) ->
            Fails(p, "k8s")
       [] OTHER -> att' = [att EXCEPT ![p].attempt = @ + 1]
  /\ UNCHANGED <<running, pods, faults>>

\* Attest takes the selectors or the error of a plugin from one of the two channels, which have
\* no buffer; an error is logged, and the response that came with it is not looked at.
Collect(p, g) ==
  /\ At(p, g, "ok") \/ At(p, g, "error")
  /\ att' = [att EXCEPT ![p].plugin[g] = "sent",
                        ![p].got = @ \cup IF At(p, g, "ok") THEN att[p].resp[g] ELSE {}]
  /\ UNCHANGED <<running, pods, faults>>

\* All plugins have answered.
Return(p) ==
  /\ \A g \in Plugins : At(p, g, "sent")
  /\ att' = [att EXCEPT ![p].pc = "done"]
  /\ UNCHANGED <<running, pods, faults>>

(***************************************************************************)
(* The node: the kubelet lists a pod, its container starts and gets its    *)
(* id, and the pod is removed.                                             *)
(***************************************************************************)
PodChanges(q) ==
  /\ \/ pods[q] = "absent"   /\ pods' = [pods EXCEPT ![q] = "starting"]
     \/ pods[q] = "starting" /\ pods' = [pods EXCEPT ![q] = "ready"]
     \/ pods[q] = "ready"    /\ pods' = [pods EXCEPT ![q] = "gone"]
  /\ UNCHANGED <<running, att, faults>>

ProcessEnds(p) ==
  /\ p \in running
  /\ running' = running \ {p}
  /\ UNCHANGED <<pods, att, faults>>

Steps(p) ==
  \/ Uids(p) \/ Gids(p) \/ ReadCgroups(p) \/ Poll(p) \/ Return(p)
  \/ \E g \in Plugins : Collect(p, g)

Next ==
  \/ \E p \in Pids : Attest(p) \/ Steps(p) \/ PollFails(p) \/ ProcessEnds(p)
  \/ \E q \in Pods : PodChanges(q)

(***************************************************************************)
(* Properties.                                                             *)
(***************************************************************************)
Done(p) == att[p].pc = "done"
Of(p)   == {{}} \cup IF PodOf[p] = Nowhere THEN {} ELSE {{Account[PodOf[p]], Space[PodOf[p]]}}

\* "selectors from the failing plugin are discarded": whatever ends or restarts meanwhile, a
\* workload gets its user and group or neither, and with them the account and the namespace
\* of its own pod or neither.
AttestedSelectors ==
  \A p \in Pids : Done(p) =>
    \E U \in {{}, {Uid[p], Gid[p]}}, K \in Of(p) : att[p].got = U \cup K

\* Attest returns: every goroutine's result is collected, and the polling ends, also if a
\* container never gets ready.  A kubelet that neither answers nor refuses is left out: the
\* http.Client of New has no timeout, and Attest would wait for it forever.
AttestReturns == \A p \in Pids : att[p].pc = "collect" ~> Done(p)
================================================================================
