---------------------------- MODULE IdentityProofs ----------------------------
(***************************************************************************)
(* Proofs about what identities rest on and how workloads receive theirs:  *)
(* the attestation of nodes on AWS and of workloads, for any number of     *)
(* instances, calls, workloads and pods; and the client of the Workload    *)
(* API, for every set of responses, configuration and backoff.             *)
(***************************************************************************)
EXTENDS Attestation, Integers, TLAPS

(***************************************************************************)
(* Node attestation on AWS.                                                *)
(***************************************************************************)
\* The document of an instance has at most as many SVIDs as the instance has rows, and the
\* calls that are to store one have that of their document.
OneSVIDPerRow ==
  /\ \A i \in Instances : granted[i] <= IF i \in rows THEN 1 ELSE 0
  /\ \A c \in Calls : call[c] # AWS!Idle /\ call[c].pc = "store" => call[c].doc = call[c].of

\* No root device is newer than the clock; the one of an instance that was replaced before a
\* call stays too new, or is detached.
RootIsTooNew(c) ==
  LET d == instance[call[c].doc] IN
  /\ now > d.iface + MaxSkew
  /\ d.root = AWS!Detached \/ d.root > d.iface + MaxSkew
RootsArePast ==
  /\ \A i \in Instances : instance[i].root <= now
  /\ \A c \in Calls : call[c] # AWS!Idle /\ call[c].replaced => RootIsTooNew(c)

AWSInv ==
  part = "aws" => /\ AWS!TypeOK
                  /\ OneSVIDPerRow
                  /\ RootsArePast
                  /\ AWS!ReplacedRootIsRefused

LEMMA AWSInit == Init => AWSInv
  <1> SUFFICES ASSUME AWS!Init PROVE AWS!TypeOK /\ OneSVIDPerRow /\ RootsArePast /\ AWS!ReplacedRootIsRefused
    BY Zenon DEF Init, AWSInv
  <1> USE AttestationAssumption
  <1>1. AWS!TypeOK
    BY DEF AWS!Init, AWS!TypeOK, AWS!Idle, AWS!Described, AWS!Detached
  <1>2. OneSVIDPerRow
    BY DEF AWS!Init, OneSVIDPerRow, AWS!Idle
  <1>3. RootsArePast
    BY DEF AWS!Init, RootsArePast, AWS!Idle, AWS!Described
  <1>4. AWS!ReplacedRootIsRefused
    BY Zenon DEF AWS!Init, AWS!ReplacedRootIsRefused, AWS!Idle
  <1> QED
    BY Zenon, <1>1, <1>2, <1>3, <1>4

\* What the other conjuncts of AWSInv need of the types.
LEMMA AWSTypes ==
  ASSUME part = "aws", AWSInv
  PROVE  /\ now \in Nat
         /\ \A i \in Instances : instance[i] \in AWS!Described
         /\ \A i \in Instances : instance[i].root \in Int /\ instance[i].iface \in Int
         /\ \A c \in Calls : call[c] # AWS!Idle => call[c].of \in Instances /\ call[c].doc \in Instances
         /\ \A i \in Instances : granted[i] \in Nat
  BY AttestationAssumption DEF AWSInv, AWS!TypeOK, AWS!Described, AWS!Detached

LEMMA AWSTick ==
  ASSUME part = "aws", AWSInv, AWS!Tick, part' = part
  PROVE  AWSInv'
  <1> USE AttestationAssumption, AWSTypes
  <1>1. now' = now + 1 /\ now' \in 0..MaxTime /\ UNCHANGED <<instance, rows, call, granted>>
    BY DEF AWSInv, AWS!TypeOK, AWS!Tick
  <1>2. AWS!TypeOK'
    BY Zenon, <1>1 DEF AWSInv, AWS!TypeOK
  <1>3. OneSVIDPerRow' /\ AWS!ReplacedRootIsRefused'
    BY Zenon, <1>1 DEF AWSInv, OneSVIDPerRow, AWS!ReplacedRootIsRefused
  <1>4. RootsArePast'
    BY <1>1 DEF AWSInv, RootsArePast, RootIsTooNew
  <1> QED
    BY Zenon, <1>2, <1>3, <1>4 DEF AWSInv

\* Detaching and attaching change the root of one instance, to none or to now.
LEMMA AWSRoot ==
  ASSUME part = "aws", AWSInv, part' = part, NEW i \in Instances,
         NEW r \in {AWS!Detached, now},
         instance' = [instance EXCEPT ![i].root = r],
         UNCHANGED <<now, rows, call, granted>>
  PROVE  AWSInv'
  <1> USE AttestationAssumption, AWSTypes
  <1>1. \A j \in Instances : /\ instance'[j] \in AWS!Described
                             /\ instance'[j].iface = instance[j].iface
                             /\ instance'[j].store = instance[j].store
                             /\ instance'[j].root = IF j = i THEN r ELSE instance[j].root
    <2>1. r \in {AWS!Detached} \cup 0..MaxTime
      BY Zenon DEF AWSInv, AWS!TypeOK
    <2> QED
      BY <2>1 DEF AWSInv, AWS!TypeOK, AWS!Described
  <1>2. AWS!TypeOK'
    BY Zenon, <1>1 DEF AWSInv, AWS!TypeOK
  <1>3. OneSVIDPerRow' /\ AWS!ReplacedRootIsRefused'
    BY <1>1 DEF AWSInv, OneSVIDPerRow, AWS!ReplacedRootIsRefused
  <1>4. RootsArePast'
    <2>1. \A j \in Instances : instance'[j].root <= now
      BY <1>1 DEF AWSInv, RootsArePast, AWS!Detached
    <2>2. \A c \in Calls : call[c] # AWS!Idle /\ call[c].replaced => RootIsTooNew(c)'
      BY <1>1 DEF AWSInv, RootsArePast, RootIsTooNew, AWS!Detached
    <2> QED
      BY Zenon, <2>1, <2>2 DEF RootsArePast
  <1> QED
    BY Zenon, <1>2, <1>3, <1>4 DEF AWSInv

\* A step of a call that leaves the rows alone.
LEMMA AWSCall ==
  ASSUME part = "aws", AWSInv, part' = part, NEW c \in Calls,
         UNCHANGED <<now, instance, rows, granted>>,
         NEW r \in {AWS!Idle} \cup [pc: {"isAttested", "attest", "store"}, of: Instances,
                                    doc: Instances, before: BOOLEAN, replaced: BOOLEAN],
         call' = [call EXCEPT ![c] = r],
         r # AWS!Idle /\ r.replaced => \/ AWS!Replaced(instance[r.doc])
                                       \/ call[c] # AWS!Idle /\ call[c].doc = r.doc /\ call[c].replaced,
         r # AWS!Idle /\ r.pc = "store" =>
           /\ r.doc = r.of
           /\ SkipBlockDevice \/ instance[r.doc].store \/ ~r.replaced
  PROVE  AWSInv'
  <1> USE AttestationAssumption, AWSTypes
  <1>1. \A d \in Calls : call'[d] = IF d = c THEN r ELSE call[d]
    BY Zenon DEF AWSInv, AWS!TypeOK
  <1>2. AWS!TypeOK'
    BY Zenon DEF AWSInv, AWS!TypeOK
  <1>3. OneSVIDPerRow'
    BY Zenon, <1>1 DEF AWSInv, OneSVIDPerRow
  <1>4. AWS!ReplacedRootIsRefused'
    BY <1>1 DEF AWSInv, AWS!ReplacedRootIsRefused
  <1>5. RootsArePast'
    <2>1. \A i \in Instances : instance[i].root <= now
      BY Zenon DEF AWSInv, RootsArePast
    <2>2. ASSUME r # AWS!Idle, r.replaced
          PROVE  /\ now > instance[r.doc].iface + MaxSkew
                 /\ \/ instance[r.doc].root = AWS!Detached
                    \/ instance[r.doc].root > instance[r.doc].iface + MaxSkew
      <3>1. CASE AWS!Replaced(instance[r.doc])
        BY <2>1, <2>2, <3>1 DEF AWS!Replaced
      <3>2. CASE call[c] # AWS!Idle /\ call[c].doc = r.doc /\ call[c].replaced
        BY Zenon, <3>2 DEF AWSInv, RootsArePast, RootIsTooNew
      <3> QED
        BY Zenon, <2>2, <3>1, <3>2
    <2>3. ASSUME NEW d \in Calls, call'[d] # AWS!Idle, call'[d].replaced
          PROVE  RootIsTooNew(d)'
      <3>1. CASE d = c
        BY Zenon, <1>1, <2>2, <2>3, <3>1 DEF RootIsTooNew, AWS!Detached
      <3>2. CASE d # c
        BY Zenon, <1>1, <2>3, <3>2 DEF AWSInv, RootsArePast, RootIsTooNew, AWS!Detached
      <3> QED
        BY Zenon, <3>1, <3>2
    <2> QED
      BY Zenon, <2>1, <2>3 DEF RootsArePast, AWS!Idle
  <1> QED
    BY Zenon, <1>2, <1>3, <1>4, <1>5 DEF AWSInv

LEMMA AWSStore ==
  ASSUME part = "aws", AWSInv, part' = part, NEW c \in Calls, AWS!Store(c)
  PROVE  AWSInv'
  <1> USE AttestationAssumption, AWSTypes
  <1> DEFINE i == call[c].of
  <1>0. call[c] # AWS!Idle /\ call[c].pc = "store"
    BY DEF AWS!Store, AWS!Idle
  <1>1. i \in Instances /\ call[c].doc = i
    BY Zenon, <1>0 DEF AWSInv, OneSVIDPerRow
  <1>2. /\ rows' = rows \cup {i}
        /\ \/ granted' = granted
           \/ i \notin rows /\ granted' = [granted EXCEPT ![i] = granted[i] + 1]
        /\ call' = [call EXCEPT ![c] = AWS!Idle]
        /\ UNCHANGED <<now, instance>>
    BY Zenon, <1>1 DEF AWS!Store
  <1> HIDE DEF i
  <1>3. \A d \in Calls : call'[d] = IF d = c THEN AWS!Idle ELSE call[d]
    BY Zenon, <1>2 DEF AWSInv, AWS!TypeOK
  <1>4. AWS!TypeOK'
    <2>1. granted' \in [Instances -> Nat] /\ rows' \subseteq Instances
      BY <1>1, <1>2 DEF AWSInv, AWS!TypeOK
    <2> QED
      BY Zenon, <1>2, <2>1 DEF AWSInv, AWS!TypeOK
  <1>5. OneSVIDPerRow'
    <2>1. \A j \in Instances : granted'[j] <= IF j \in rows' THEN 1 ELSE 0
      BY <1>1, <1>2 DEF AWSInv, AWS!TypeOK, OneSVIDPerRow
    <2> QED
      BY Zenon, <1>3, <2>1 DEF AWSInv, OneSVIDPerRow
  <1>6. AWS!ReplacedRootIsRefused'
    BY <1>2, <1>3 DEF AWSInv, AWS!ReplacedRootIsRefused
  <1>7. RootsArePast'
    BY <1>2, <1>3 DEF AWSInv, RootsArePast, RootIsTooNew
  <1> QED
    BY Zenon, <1>4, <1>5, <1>6, <1>7 DEF AWSInv

LEMMA AWSNext ==
  ASSUME part = "aws", AWSInv, part' = part, AWS!Next
  PROVE  AWSInv'
  <1> USE AttestationAssumption, AWSTypes
  <1>1. CASE AWS!Tick
    BY Zenon, <1>1, AWSTick
  <1>2. ASSUME NEW i \in Instances, AWS!Detach(i) \/ AWS!Reattach(i)
        PROVE  AWSInv'
    BY Zenon, <1>2, AWSRoot DEF AWS!Detach, AWS!Reattach
  <1>3. ASSUME NEW c \in Calls, AWS!FetchAttestationData(c)
        PROVE  AWSInv'
    <2>1. PICK i \in Instances, d \in Instances :
            call' = [call EXCEPT ![c] =
                       [pc |-> "isAttested", of |-> i, doc |-> d, before |-> FALSE,
                        replaced |-> AWS!Replaced(instance[d])]]
      BY Zenon, <1>3 DEF AWS!FetchAttestationData
    <2> DEFINE r == [pc |-> "isAttested", of |-> i, doc |-> d, before |-> FALSE,
                     replaced |-> AWS!Replaced(instance[d])]
    <2>2. r \in [pc: {"isAttested", "attest", "store"}, of: Instances,
                 doc: Instances, before: BOOLEAN, replaced: BOOLEAN]
      BY DEF AWS!Replaced
    <2>3. r.pc = "isAttested" /\ r.doc = d /\ (r.replaced <=> AWS!Replaced(instance[d]))
      BY Zenon
    <2>4. UNCHANGED <<now, instance, rows, granted>>
      BY Zenon, <1>3 DEF AWS!FetchAttestationData
    <2> QED
      BY Zenon, <2>1, <2>2, <2>3, <2>4, AWSCall
  <1>4. ASSUME NEW c \in Calls, AWS!IsAttested(c)
        PROVE  AWSInv'
    <2> DEFINE b == call[c].of \in rows
               r == [call[c] EXCEPT !.pc = "attest", !.before = b]
    <2>1. call[c] # AWS!Idle /\ UNCHANGED <<now, instance, rows, granted>>
      BY <1>4 DEF AWS!IsAttested, AWS!Idle
    <2>2. call' = [call EXCEPT ![c] = r]
      BY Zenon, <1>4 DEF AWS!IsAttested, AWSInv, AWS!TypeOK
    <2>b. b \in BOOLEAN
      OBVIOUS
    <2> HIDE DEF b
    <2>3. r \in [pc: {"isAttested", "attest", "store"}, of: Instances,
                 doc: Instances, before: BOOLEAN, replaced: BOOLEAN]
      BY ZenonT(40), <2>1, <2>b DEF AWSInv, AWS!TypeOK
    <2>4. r.pc = "attest" /\ r.doc = call[c].doc /\ r.replaced = call[c].replaced
      BY <2>1 DEF AWSInv, AWS!TypeOK
    <2> QED
      BY Zenon, <2>1, <2>2, <2>3, <2>4, AWSCall
  <1>5. ASSUME NEW c \in Calls, AWS!Attest(c), AWS!Accepted(call[c], instance[call[c].doc]),
               AWS!ValidateAttestation(call[c])
        PROVE  AWSInv'
    <2> DEFINE r == [call[c] EXCEPT !.pc = "store"]
    <2>1. call[c] # AWS!Idle /\ UNCHANGED <<now, instance, rows, granted>>
      BY <1>5 DEF AWS!Attest, AWS!Idle
    <2>2. call' = [call EXCEPT ![c] = r]
      BY Zenon, <1>5 DEF AWS!Attest
    <2>3. r \in [pc: {"isAttested", "attest", "store"}, of: Instances,
                 doc: Instances, before: BOOLEAN, replaced: BOOLEAN]
      BY <2>1 DEF AWSInv, AWS!TypeOK
    <2>4. r.doc = call[c].doc /\ r.of = call[c].of /\ r.replaced = call[c].replaced
      BY <2>1 DEF AWSInv, AWS!TypeOK
    <2>6. r.doc = r.of
      BY Zenon, <1>5, <2>4 DEF AWS!ValidateAttestation
    <2>5. SkipBlockDevice \/ instance[r.doc].store \/ ~r.replaced
      <3>1. SUFFICES ASSUME AWS!AttachedTogether(instance[call[c].doc]), call[c].replaced
                     PROVE  FALSE
        BY Zenon, <1>5, <2>4 DEF AWS!Accepted
      <3>2. RootIsTooNew(c)
        BY Zenon, <2>1, <3>1 DEF AWSInv, RootsArePast
      <3> QED
        BY <2>1, <3>1, <3>2 DEF RootIsTooNew, AWS!AttachedTogether, AWS!Abs
    <2> QED
      BY Zenon, <2>1, <2>2, <2>3, <2>4, <2>5, <2>6, AWSCall
  <1>6. ASSUME NEW c \in Calls,
               \/ AWS!AttestFails(c)
               \/ AWS!Attest(c) /\ ~(/\ AWS!Accepted(call[c], instance[call[c].doc])
                                     /\ AWS!ValidateAttestation(call[c]))
        PROVE  AWSInv'
    <2>1. call' = [call EXCEPT ![c] = AWS!Idle] /\ UNCHANGED <<now, instance, rows, granted>>
      BY Zenon, <1>6 DEF AWS!Attest, AWS!AttestFails
    <2> QED
      BY Zenon, <2>1, AWSCall
  <1>7. ASSUME NEW c \in Calls, AWS!Store(c)
        PROVE  AWSInv'
    BY Zenon, <1>7, AWSStore
  <1> QED
    BY Zenon, <1>1, <1>2, <1>3, <1>4, <1>5, <1>6, <1>7 DEF AWS!Next

LEMMA AWSInvariant == Spec => []AWSInv
  <1>1. AWSInv /\ [Next]_vars => AWSInv'
    <2> SUFFICES ASSUME AWSInv, [Next]_vars, part' = "aws" PROVE AWSInv'
      BY Zenon DEF AWSInv
    <2>1. part = "aws" /\ part' = part
      BY Zenon DEF Next, vars
    <2>2. CASE AWS!Next
      BY Zenon, <2>1, <2>2, AWSNext
    <2>3. CASE UNCHANGED vars
      BY Zenon, <2>1, <2>3 DEF vars, awsVars, AWSInv, AWS!TypeOK, OneSVIDPerRow, RootsArePast,
                               RootIsTooNew, AWS!ReplacedRootIsRefused
    <2> QED
      BY Zenon, <2>1, <2>2, <2>3 DEF Next
  <1> QED
    BY <1>1, AWSInit, PTL DEF Spec

\* However many calls come with one document and pass isAttested before the first of them stores
\* its row, validateAttestation and createAttestationEntry let at most one of them return an SVID.
THEOREM DocumentsAreUsedOnce == Spec => []DocumentIsUsedOnce
  <1>1. AWSInv => DocumentIsUsedOnce
    BY DEF AWSInv, AWS!TypeOK, OneSVIDPerRow, DocumentIsUsedOnce, AWS!DocumentIsUsedOnce
  <1> QED
    BY <1>1, AWSInvariant, PTL

\* The disparity of the attach times, read once by Attest at any moment of the call, refuses an
\* instance whose root device had been replaced before the call: what is attached later is newer.
THEOREM ReplacedRootsAreRefused == Spec => []ReplacedRootIsRefused
  <1>1. AWSInv => ReplacedRootIsRefused
    BY Zenon DEF AWSInv, ReplacedRootIsRefused
  <1> QED
    BY <1>1, AWSInvariant, PTL

(***************************************************************************)
(* Attestation of workloads.                                               *)
(***************************************************************************)
AnyAttest ==
  [pc: {"collect", "done"},
   plugin: [Workload!Plugins -> {"runs", "gids", "polls", "ok", "error", "sent"}],
   resp: [Workload!Plugins -> SUBSET Workload!PluginSelectors], attempt: 1..MaxPollAttempts,
   got: SUBSET Workload!PluginSelectors]

\* What Attest may have collected of a plugin: nothing before it was heard of, and then nothing
\* or what a whole response is.
Whole(p, g)   == IF g = "unix" THEN {{}, {Uid[p], Gid[p]}} ELSE Workload!Of(p)
From(p, a, g) == IF a.plugin[g] = "sent" THEN Whole(p, g) ELSE {{}}

\* The response of a plugin that succeeds is whole; the one of the unix plugin is not while it
\* reads the group, nor if that fails.  The k8s plugin polls only for a workload in a pod.
Right(p, a) ==
  /\ \E U \in From(p, a, "unix"), K \in From(p, a, "k8s") : a.got = U \cup K
  /\ \A g \in Workload!Plugins : a.plugin[g] = "runs" => a.resp[g] = {}
  /\ \A g \in Workload!Plugins : a.plugin[g] = "gids" => a.resp[g] = {Uid[p]}
  /\ \A g \in Workload!Plugins : a.plugin[g] = "polls" => a.resp[g] = {} /\ PodOf[p] \in Pods
  /\ \A g \in Workload!Plugins : a.plugin[g] = "ok" => a.resp[g] \in Whole(p, g)
  /\ a.pc = "done" => \A g \in Workload!Plugins : a.plugin[g] = "sent"

WorkloadInv ==
  part = "workload" =>
    /\ Workload!TypeOK
    /\ \A p \in Pids : att[p] # Workload!NotAsked => Right(p, att[p])

LEMMA WorkloadInit == Init => WorkloadInv
  BY AttestationAssumption DEF Init, Workload!Init, WorkloadInv, Workload!TypeOK, Workload!NotAsked

\* A step of one Attest keeps the invariant if what it leaves is right.
LEMMA OneAttest ==
  ASSUME part = "workload", part' = part, WorkloadInv, NEW p \in Pids, NEW a \in AnyAttest,
         att' = [att EXCEPT ![p] = a], Right(p, a),
         running' = running, pods' = pods, faults' \in 0..MaxFaults
  PROVE  WorkloadInv'
  <1>1. Workload!TypeOK'
    BY Zenon DEF WorkloadInv, Workload!TypeOK, AnyAttest
  <1>2. \A q \in Pids : att'[q] = IF q = p THEN a ELSE att[q]
    BY Zenon DEF WorkloadInv, Workload!TypeOK
  <1>3. ASSUME NEW q \in Pids, att'[q] # Workload!NotAsked
        PROVE  Right(q, att[q])'
    <2>1. Right(q, att'[q])
      BY Zenon, <1>2, <1>3 DEF WorkloadInv
    <2> QED
      BY Zenon, <2>1 DEF Right, From, Whole, Workload!Of, Workload!Plugins
  <1> QED
    BY Zenon, <1>1, <1>3 DEF WorkloadInv

LEMMA Asking ==
  ASSUME part = "workload", WorkloadInv, NEW p \in Pids, NEW g \in Workload!Plugins, NEW w,
         Workload!At(p, g, w)
  PROVE  /\ att[p] \in AnyAttest /\ att[p].plugin[g] = w /\ att[p].pc = "collect"
         /\ Right(p, att[p])
         /\ faults \in 0..MaxFaults
  BY DEF WorkloadInv, Workload!TypeOK, Workload!At, Workload!NotAsked, AnyAttest

LEMMA WorkloadAttest ==
  ASSUME part = "workload", part' = part, WorkloadInv, NEW p \in Pids, Workload!Attest(p)
  PROVE  WorkloadInv'
  <1>1. Workload!Asked \in AnyAttest
    BY AttestationAssumption DEF Workload!Asked, AnyAttest
  <1>2. Right(p, Workload!Asked)
    BY DEF Workload!Asked, Right, From, Workload!Plugins
  <1> QED
    BY Zenon, <1>1, <1>2, OneAttest DEF Workload!Attest, WorkloadInv, Workload!TypeOK

\* A plugin goes on or returns: it is at v, with S added to its response.
LEMMA WorkloadGoes ==
  ASSUME part = "workload", part' = part, WorkloadInv, NEW p \in Pids, NEW g \in Workload!Plugins,
         NEW w \in {"runs", "gids", "polls"}, Workload!At(p, g, w),
         NEW v \in {"gids", "polls", "ok", "error"},
         NEW S \in SUBSET Workload!PluginSelectors, Workload!Goes(p, g, v, S),
         v = "gids" => att[p].resp[g] \cup S = {Uid[p]},
         v = "polls" => att[p].resp[g] \cup S = {} /\ PodOf[p] \in Pods,
         v = "ok" => att[p].resp[g] \cup S \in Whole(p, g),
         UNCHANGED <<running, pods>>, faults' \in 0..MaxFaults
  PROVE  WorkloadInv'
  <1> DEFINE R == att[p].resp[g] \cup S
             a == [att[p] EXCEPT !.plugin[g] = v, !.resp[g] = R]
  <1>1. att[p] \in AnyAttest /\ att[p].plugin[g] = w /\ Right(p, att[p]) /\ att[p].pc = "collect"
    BY Zenon, Asking
  <1>2. att' = [att EXCEPT ![p] = a]
    BY ZenonT(60) DEF Workload!Goes
  <1>r. R \in SUBSET Workload!PluginSelectors
    BY <1>1 DEF AnyAttest
  <1> HIDE DEF R
  <1>3. /\ a \in AnyAttest
        /\ a.plugin = [att[p].plugin EXCEPT ![g] = v]
        /\ a.resp = [att[p].resp EXCEPT ![g] = R]
        /\ a.got = att[p].got /\ a.pc = att[p].pc
    BY Zenon, <1>1, <1>r DEF AnyAttest
  <1> HIDE DEF a
  <1>4. \A h \in Workload!Plugins :
          /\ a.plugin[h] = IF h = g THEN v ELSE att[p].plugin[h]
          /\ a.resp[h] = IF h = g THEN R ELSE att[p].resp[h]
    BY <1>1, <1>3 DEF AnyAttest
  <1>5. "unix" \in Workload!Plugins /\ "k8s" \in Workload!Plugins
    BY Zenon DEF Workload!Plugins
  <1>6. \A h \in Workload!Plugins : From(p, a, h) = From(p, att[p], h)
    BY Zenon, <1>1, <1>4 DEF From
  <1>7. Right(p, a)
    <2>0. \E U \in From(p, att[p], "unix"), K \in From(p, att[p], "k8s") : att[p].got = U \cup K
      BY Zenon, <1>1 DEF Right
    <2>u. From(p, a, "unix") = From(p, att[p], "unix") /\ From(p, a, "k8s") = From(p, att[p], "k8s")
      BY Zenon, <1>5, <1>6
    <2>1. \E U \in From(p, a, "unix"), K \in From(p, a, "k8s") : a.got = U \cup K
      BY <1>3, <2>0, <2>u
    <2>2. ASSUME NEW h \in Workload!Plugins
          PROVE  /\ a.plugin[h] = "runs" => a.resp[h] = {}
                 /\ a.plugin[h] = "gids" => a.resp[h] = {Uid[p]}
                 /\ a.plugin[h] = "polls" => a.resp[h] = {} /\ PodOf[p] \in Pods
                 /\ a.plugin[h] = "ok" => a.resp[h] \in Whole(p, h)
      <3>1. CASE h = g
        <4>1. a.plugin[h] = v /\ a.resp[h] = R /\ v # "runs"
          BY Zenon, <1>4, <3>1
        <4> QED
          BY Zenon, <3>1, <4>1 DEF R
      <3>2. CASE h # g
        BY Zenon, <1>1, <1>4, <3>2 DEF Right
      <3> QED
        BY Zenon, <3>1, <3>2
    <2>3. a.pc # "done"
      BY Zenon, <1>1, <1>3
    <2> QED
      BY Zenon, <2>1, <2>2, <2>3 DEF Right
  <1> QED
    BY Zenon, <1>2, <1>3, <1>7, OneAttest

LEMMA WorkloadCollect ==
  ASSUME part = "workload", part' = part, WorkloadInv, NEW p \in Pids, NEW g \in Workload!Plugins,
         Workload!Collect(p, g)
  PROVE  WorkloadInv'
  <1> DEFINE T == IF Workload!At(p, g, "ok") THEN att[p].resp[g] ELSE {}
             a == [att[p] EXCEPT !.plugin[g] = "sent", !.got = att[p].got \cup T]
  <1>1. PICK w \in {"ok", "error"} : Workload!At(p, g, w)
    BY Zenon DEF Workload!Collect
  <1>2. /\ att[p] \in AnyAttest /\ att[p].plugin[g] = w /\ Right(p, att[p])
        /\ att[p].pc = "collect"
    BY Zenon, <1>1, Asking
  <1>3. att' = [att EXCEPT ![p] = a]
    BY Zenon DEF Workload!Collect
  <1>t. T \in Whole(p, g) /\ T \in SUBSET Workload!PluginSelectors
    <2>1. CASE Workload!At(p, g, "ok")
      <3>1. att[p].resp[g] \in SUBSET Workload!PluginSelectors
        BY Zenon, <1>2 DEF AnyAttest
      <3> QED
        BY Zenon, <1>2, <2>1, <3>1 DEF Right, Workload!At
    <2>2. CASE ~Workload!At(p, g, "ok")
      BY Zenon, <2>2 DEF Whole, Workload!Of
    <2> QED
      BY Zenon, <2>1, <2>2
  <1> HIDE DEF T
  <1>g. att[p].got \cup T \in SUBSET Workload!PluginSelectors
    BY <1>2, <1>t DEF AnyAttest
  <1>4. /\ a \in AnyAttest
        /\ a.plugin = [att[p].plugin EXCEPT ![g] = "sent"]
        /\ a.resp = att[p].resp
        /\ a.got = att[p].got \cup T
        /\ a.pc = att[p].pc
    BY Zenon, <1>2, <1>g DEF AnyAttest
  <1> HIDE DEF a
  <1>5. \A h \in Workload!Plugins : a.plugin[h] = IF h = g THEN "sent" ELSE att[p].plugin[h]
    BY Zenon, <1>2, <1>4 DEF AnyAttest
  <1>6. Workload!Plugins = {"unix", "k8s"}
    BY Zenon DEF Workload!Plugins
  <1>7. \E U \in From(p, a, "unix"), K \in From(p, a, "k8s") : a.got = U \cup K
    <2>1. From(p, att[p], g) = {{}} /\ From(p, a, g) = Whole(p, g)
      BY Zenon, <1>2, <1>5 DEF From
    <2>2. \A h \in Workload!Plugins : h # g => From(p, a, h) = From(p, att[p], h)
      BY Zenon, <1>5 DEF From
    <2>3. PICK U \in From(p, att[p], "unix"), K \in From(p, att[p], "k8s") : att[p].got = U \cup K
      BY Zenon, <1>2 DEF Right
    <2>4. CASE g = "unix"
      <3>1. a.got = T \cup K
        BY <1>4, <2>1, <2>3, <2>4
      <3> QED
        BY Zenon, <1>6, <1>t, <2>1, <2>2, <2>3, <2>4, <3>1
    <2>5. CASE g = "k8s"
      <3>1. a.got = U \cup T
        BY <1>4, <2>1, <2>3, <2>5
      <3> QED
        BY Zenon, <1>6, <1>t, <2>1, <2>2, <2>3, <2>5, <3>1
    <2> QED
      BY Zenon, <1>6, <2>4, <2>5
  <1>8. Right(p, a)
    BY Zenon, <1>2, <1>4, <1>5, <1>7 DEF Right
  <1> QED
    BY Zenon, <1>3, <1>4, <1>8, OneAttest DEF Workload!Collect, WorkloadInv, Workload!TypeOK

LEMMA WorkloadReturn ==
  ASSUME part = "workload", part' = part, WorkloadInv, NEW p \in Pids, Workload!Return(p)
  PROVE  WorkloadInv'
  <1> DEFINE a == [att[p] EXCEPT !.pc = "done"]
  <1>1. \A g \in Workload!Plugins : Workload!At(p, g, "sent")
    BY Zenon DEF Workload!Return
  <1>2. att[p] \in AnyAttest /\ Right(p, att[p])
    BY Zenon, <1>1, Asking DEF Workload!Plugins
  <1>3. att' = [att EXCEPT ![p] = a]
    BY Zenon DEF Workload!Return
  <1>4. /\ a \in AnyAttest
        /\ a.plugin = att[p].plugin /\ a.resp = att[p].resp /\ a.got = att[p].got
    BY Zenon, <1>2 DEF AnyAttest
  <1> HIDE DEF a
  <1>5. Right(p, a)
    BY Zenon, <1>1, <1>2, <1>4 DEF Right, From, Workload!At
  <1> QED
    BY Zenon, <1>3, <1>4, <1>5, OneAttest DEF Workload!Return, WorkloadInv, Workload!TypeOK

\* The unix plugin's two reads, and getCgroups.
LEMMA WorkloadPlugins ==
  ASSUME part = "workload", part' = part, WorkloadInv, NEW p \in Pids,
         Workload!Uids(p) \/ Workload!Gids(p) \/ Workload!ReadCgroups(p)
  PROVE  WorkloadInv'
  <1>1. "unix" \in Workload!Plugins /\ "k8s" \in Workload!Plugins
    BY Zenon DEF Workload!Plugins
  <1>2. /\ {} \in SUBSET Workload!PluginSelectors /\ {Uid[p]} \in SUBSET Workload!PluginSelectors
        /\ {Gid[p]} \in SUBSET Workload!PluginSelectors
    BY DEF Workload!PluginSelectors
  <1>3. UNCHANGED <<running, pods, faults>>
    BY Zenon DEF Workload!Uids, Workload!Gids, Workload!ReadCgroups
  <1>4. CASE Workload!Uids(p)
    <2>1. Workload!At(p, "unix", "runs")
      BY Zenon, <1>4 DEF Workload!Uids
    <2>2. Right(p, att[p]) /\ faults' \in 0..MaxFaults /\ att[p].plugin["unix"] = "runs"
      BY Zenon, <1>1, <1>3, <2>1, Asking
    <2>3. att[p].resp["unix"] \cup {Uid[p]} = {Uid[p]}
      BY <1>1, <2>2 DEF Right
    <2>4. Workload!Goes(p, "unix", "gids", {Uid[p]}) \/ Workload!Goes(p, "unix", "error", {})
      BY Zenon, <1>4 DEF Workload!Uids, Workload!Fails
    <2> QED
      BY <1>1, <1>2, <1>3, <2>1, <2>2, <2>3, <2>4, WorkloadGoes
  <1>5. CASE Workload!Gids(p)
    <2>1. Workload!At(p, "unix", "gids")
      BY Zenon, <1>5 DEF Workload!Gids
    <2>2. Right(p, att[p]) /\ faults' \in 0..MaxFaults /\ att[p].plugin["unix"] = "gids"
      BY Zenon, <1>1, <1>3, <2>1, Asking
    <2>3. att[p].resp["unix"] \cup {Gid[p]} \in Whole(p, "unix")
      BY <1>1, <2>2 DEF Right, Whole
    <2>4. Workload!Goes(p, "unix", "ok", {Gid[p]}) \/ Workload!Goes(p, "unix", "error", {})
      BY Zenon, <1>5 DEF Workload!Gids, Workload!Fails, Workload!Sends
    <2> QED
      BY <1>1, <1>2, <1>3, <2>1, <2>2, <2>3, <2>4, WorkloadGoes
  <1>6. CASE Workload!ReadCgroups(p)
    <2>1. Workload!At(p, "k8s", "runs")
      BY Zenon, <1>6 DEF Workload!ReadCgroups
    <2>2. Right(p, att[p]) /\ faults' \in 0..MaxFaults /\ att[p].plugin["k8s"] = "runs"
      BY Zenon, <1>1, <1>3, <2>1, Asking
    <2>3. att[p].resp["k8s"] \cup {} = {} /\ {} \in Whole(p, "k8s")
      BY <1>1, <2>2 DEF Right, Whole, Workload!Of
    <2>4. \/ Workload!Goes(p, "k8s", "error", {}) \/ Workload!Goes(p, "k8s", "ok", {})
          \/ PodOf[p] \in Pods /\ Workload!Goes(p, "k8s", "polls", {})
      BY Zenon, <1>6, AttestationAssumption
         DEF Workload!ReadCgroups, Workload!GetCgroups, Workload!Fails, Workload!Sends
    <2> QED
      BY <1>1, <1>2, <1>3, <2>1, <2>2, <2>3, <2>4, WorkloadGoes
  <1> QED
    BY Zenon, <1>4, <1>5, <1>6

LEMMA WorkloadPoll ==
  ASSUME part = "workload", part' = part, WorkloadInv, NEW p \in Pids,
         Workload!Poll(p) \/ Workload!PollFails(p)
  PROVE  WorkloadInv'
  <1>1. "k8s" \in Workload!Plugins
    BY Zenon DEF Workload!Plugins
  <1>2. Workload!At(p, "k8s", "polls")
    BY Zenon DEF Workload!Poll, Workload!PollFails
  <1>3. /\ att[p] \in AnyAttest /\ Right(p, att[p])
        /\ faults \in 0..MaxFaults /\ att[p].plugin["k8s"] = "polls"
    BY Zenon, <1>1, <1>2, Asking
  <1>4. PodOf[p] \in Pods /\ att[p].attempt \in 1..MaxPollAttempts /\ att[p].resp["k8s"] = {}
    BY Zenon, <1>1, <1>3 DEF Right, AnyAttest
  <1>5. running' = running /\ pods' = pods
    BY Zenon DEF Workload!Poll, Workload!PollFails
  <1>6. CASE Workload!Fails(p, "k8s")
    <2>1. faults' \in 0..MaxFaults
      BY <1>3, AttestationAssumption DEF Workload!Poll, Workload!PollFails
    <2>2. Workload!Goes(p, "k8s", "error", {}) /\ {} \in SUBSET Workload!PluginSelectors
      BY Zenon, <1>6 DEF Workload!Fails
    <2> QED
      BY <1>1, <1>2, <1>5, <2>1, <2>2, WorkloadGoes
  <1>7. CASE Workload!Poll(p) /\ Workload!InPod(p)
    <2> DEFINE K == {Account[PodOf[p]], Space[PodOf[p]]}
    <2>1. K \in SUBSET Workload!PluginSelectors
      BY <1>4 DEF Workload!PluginSelectors
    <2>2. K \in Whole(p, "k8s")
      BY <1>4, AttestationAssumption DEF Workload!Of, Whole
    <2>3. Workload!Goes(p, "k8s", "ok", K) /\ faults' = faults
      BY Zenon, <1>7 DEF Workload!Poll, Workload!Sends
    <2> HIDE DEF K
    <2>4. att[p].resp["k8s"] \cup K = K
      BY <1>4
    <2> QED
      BY <1>1, <1>2, <1>3, <1>5, <2>1, <2>2, <2>3, <2>4, WorkloadGoes
  <1>8. CASE /\ Workload!Poll(p) /\ ~Workload!InPod(p)
             /\ ~(Workload!MaybeInPod = {} \/ att[p].attempt >= MaxPollAttempts)
    <2> DEFINE a == [att[p] EXCEPT !.attempt = att[p].attempt + 1]
    <2>1. att' = [att EXCEPT ![p] = a] /\ UNCHANGED <<running, pods, faults>>
      BY Zenon, <1>8 DEF Workload!Poll
    <2>2. att[p].attempt + 1 \in 1..MaxPollAttempts
      BY <1>4, <1>8, AttestationAssumption
    <2>3. /\ a \in AnyAttest /\ a.plugin = att[p].plugin /\ a.resp = att[p].resp
          /\ a.got = att[p].got /\ a.pc = att[p].pc
      BY Zenon, <1>3, <2>2 DEF AnyAttest
    <2> HIDE DEF a
    <2>4. Right(p, a)
      BY Zenon, <1>3, <2>3 DEF Right, From
    <2> QED
      BY Zenon, <1>3, <2>1, <2>3, <2>4, OneAttest
  <1> QED
    BY Zenon, <1>6, <1>7, <1>8 DEF Workload!Poll, Workload!PollFails

\* A step that leaves the calls of Attest alone.
LEMMA WorkloadQuiet ==
  ASSUME part = "workload", part' = part, WorkloadInv, Workload!TypeOK', att' = att
  PROVE  WorkloadInv'
  <1>1. ASSUME NEW q \in Pids, att'[q] # Workload!NotAsked
        PROVE  Right(q, att[q])'
    <2>1. Right(q, att[q])
      BY Zenon, <1>1 DEF WorkloadInv
    <2> QED
      BY Zenon, <2>1 DEF Right, From, Whole, Workload!Of, Workload!Plugins
  <1> QED
    BY Zenon, <1>1 DEF WorkloadInv, Workload!NotAsked

\* The node around the calls of Attest: a pod changes, or a process ends.
LEMMA WorkloadNode ==
  ASSUME part = "workload", part' = part, WorkloadInv,
         \/ \E q \in Pods : Workload!PodChanges(q)
         \/ \E p \in Pids : Workload!ProcessEnds(p)
  PROVE  WorkloadInv'
  <1>1. Workload!TypeOK'
    BY Zenon DEF WorkloadInv, Workload!TypeOK, Workload!PodChanges, Workload!ProcessEnds
  <1>2. att' = att
    BY Zenon DEF Workload!PodChanges, Workload!ProcessEnds
  <1> QED
    BY Zenon, <1>1, <1>2, WorkloadQuiet

LEMMA WorkloadInvariant == Spec => []WorkloadInv
  <1>1. WorkloadInv /\ [Next]_vars => WorkloadInv'
    <2> SUFFICES ASSUME WorkloadInv, [Next]_vars, part' = "workload" PROVE WorkloadInv'
      BY Zenon DEF WorkloadInv
    <2>1. part = "workload" /\ part' = part
      BY Zenon DEF Next, vars
    <2>2. CASE Workload!Next
      <3>1. ASSUME NEW p \in Pids, Workload!Attest(p) \/ Workload!Steps(p) \/ Workload!PollFails(p)
            PROVE  WorkloadInv'
        BY <2>1, <3>1, WorkloadAttest, WorkloadPlugins, WorkloadPoll, WorkloadCollect, WorkloadReturn
           DEF Workload!Steps
      <3> QED
        BY Zenon, <2>1, <2>2, <3>1, WorkloadNode DEF Workload!Next
    <2>3. CASE UNCHANGED vars
      <3>1. att' = att /\ Workload!TypeOK'
        BY Zenon, <2>1, <2>3 DEF vars, workloadVars, WorkloadInv, Workload!TypeOK
      <3> QED
        BY Zenon, <2>1, <3>1, WorkloadQuiet
    <2> QED
      BY Zenon, <2>1, <2>2, <2>3 DEF Next
  <1> QED
    BY <1>1, WorkloadInit, PTL DEF Spec

\* Whatever order the goroutines of Attest end in, and whatever ends or fails meanwhile, also
\* between the unix plugin's two reads, a workload gets the selectors of whole plugins, and of
\* no pod but its own.
THEOREM SelectorsAreOfWholePlugins == Spec => []AttestedSelectors
  <1>1. WorkloadInv => AttestedSelectors
    <2> SUFFICES ASSUME WorkloadInv, part = "workload", NEW p \in Pids, Workload!Done(p)
                 PROVE  \E U \in {{}, {Uid[p], Gid[p]}}, K \in Workload!Of(p) : att[p].got = U \cup K
      BY Zenon DEF AttestedSelectors, Workload!AttestedSelectors
    <2>1. Right(p, att[p]) /\ att[p].pc = "done"
      BY DEF WorkloadInv, Workload!Done, Workload!NotAsked
    <2>2. /\ From(p, att[p], "unix") = {{}, {Uid[p], Gid[p]}}
          /\ From(p, att[p], "k8s") = Workload!Of(p)
      BY <2>1 DEF Right, From, Whole, Workload!Plugins
    <2> QED
      BY Zenon, <2>1, <2>2 DEF Right
  <1> QED
    BY <1>1, WorkloadInvariant, PTL

(***************************************************************************)
(* The client of the Workload API.                                         *)
(***************************************************************************)
\* Appending a response to those learned before.
LEMMA Appended ==
  ASSUME NEW s \in Seq(Values), NEW v \in Values
  PROVE  /\ Append(s, v) \in Seq(Values)
         /\ Len(Append(s, v)) = Len(s) + 1
         /\ Len(s) \in Nat
         /\ Append(s, v) # <<>>
         /\ Append(s, v)[Len(s) + 1] = v
OBVIOUS

LEMMA InitAgent == WatchInit => AgentType
BY ClientAssumption DEF WatchInit, AgentType

LEMMA InitStream == WatchInit => StreamType
<1>1. WatchInit => wire \in [open: BOOLEAN, sent: Seq(Values)]
  BY DEF WatchInit, Closed
<1>2. WatchInit => backoff \in [dial: 0..MaxBackoff, stream: 0..MaxBackoff, recv: 0..MaxBackoff]
  BY ClientAssumption DEF WatchInit, NoBackoff
<1> QED
  BY Zenon, <1>1, <1>2 DEF WatchInit, StreamType

LEMMA InitHandler == WatchInit => HandlerType
<1>1. WatchInit => learned \in Seq(Values) /\ latest \in 0..Len(learned) /\ delivered \in 0..Len(learned)
  BY DEF WatchInit
<1>2. WatchInit => changes \in BOOLEAN /\ handler \in {"no", "wait", "load", "send"}
  BY Zenon DEF WatchInit
<1> QED
  BY Zenon, <1>1, <1>2 DEF HandlerType

LEMMA InitClient == WatchInit => ClientType
BY Zenon DEF WatchInit, ClientType

LEMMA AgentStep ==
  ASSUME AgentType, [WatchNext]_watchVars
  PROVE  AgentType'
<1>1. ASSUME NEW v \in Values \cup {NoIdentity}, Publish(v) PROVE AgentType'
  BY <1>1, ClientAssumption DEF AgentType, Publish
<1>2. ASSUME GoDown PROVE AgentType'
  <2>1. agent' \in [up: BOOLEAN, response: Values \cup {NoIdentity}]
    BY Zenon, <1>2 DEF AgentType, GoDown
  <2>2. events' \in 0..MaxEvents /\ config' \in Configs
    BY <1>2, ClientAssumption DEF AgentType, GoDown
  <2> QED
    BY Zenon, <2>1, <2>2 DEF AgentType
<1>3. ASSUME ComeUp PROVE AgentType'
  BY Zenon, <1>3 DEF AgentType, ComeUp
<1>4. UNCHANGED <<config, agentVars>> => AgentType'
  BY Zenon DEF AgentType, agentVars
<1>5. (Start \/ StartReturns \/ Change \/ Load \/ Take \/ Signal \/ Fails \/ UNCHANGED watchVars)
        => UNCHANGED <<config, agentVars>>
  BY Zenon DEF Start, StartReturns, Change, Load, Take, Signal, Fails, watchVars, agentVars
<1>6. Listen => UNCHANGED <<config, agentVars>>
  BY Zenon DEF Listen, Dial, NewStream, Recv, RecvFails, Again, Stopping, NoRetry
<1> QED
  BY Zenon, <1>1, <1>2, <1>3, <1>4, <1>5, <1>6 DEF WatchNext

LEMMA ClientStep ==
  ASSUME ClientType, [WatchNext]_watchVars
  PROVE  ClientType'
<1>1. ASSUME Start PROVE ClientType'
  BY Zenon, <1>1 DEF ClientType, Start
<1>2. ASSUME StartReturns PROVE ClientType'
  BY Zenon, <1>2 DEF ClientType, StartReturns
<1>3. ASSUME Signal PROVE ClientType'
  BY Zenon, <1>3 DEF ClientType, Signal
<1>4. ASSUME Fails PROVE ClientType'
  BY Zenon, <1>4 DEF ClientType, Fails, clientVars
<1>5. UNCHANGED <<clientVars, watch>> => ClientType'
  BY Zenon DEF ClientType, clientVars
<1>6. ASSUME NEW v \in Values \cup {NoIdentity}
      PROVE  Publish(v) => UNCHANGED <<clientVars, watch>>
  BY Zenon DEF Publish
<1>7. (GoDown \/ ComeUp \/ Change \/ Load \/ Take \/ UNCHANGED watchVars)
        => UNCHANGED <<clientVars, watch>>
  BY Zenon DEF GoDown, ComeUp, Change, Load, Take, watchVars, clientVars
<1>8. Listen => UNCHANGED <<clientVars, watch>>
  BY Zenon DEF Listen, Dial, NewStream, Recv, RecvFails, Again, Stopping, NoRetry
<1> QED
  BY <1>1, <1>2, <1>3, <1>4, <1>5, <1>6, <1>7, <1>8 DEF WatchNext

\* A backoff is only doubled below the timeout.
LEMMA StreamStep ==
  ASSUME AgentType, StreamType, [WatchNext]_watchVars
  PROVE  StreamType'
<1> DEFINE B == [dial: 0..MaxBackoff, stream: 0..MaxBackoff, recv: 0..MaxBackoff]
<1> USE ClientAssumption
<1>a. wire \in [open: BOOLEAN, sent: Seq(Values)] /\ backoff \in B
  BY Zenon DEF StreamType
<1>1. ASSUME NEW v \in Values \cup {NoIdentity}, Publish(v) PROVE StreamType'
  <2>1. v # NoIdentity => Append(wire.sent, v) \in Seq(Values)
    BY Zenon, <1>a, Appended
  <2>2. wire' \in [open: BOOLEAN, sent: Seq(Values)]
    BY Zenon, <1>1, <1>a, <2>1 DEF Publish
  <2> QED
    BY Zenon, <1>1, <2>2 DEF StreamType, Publish
<1>2. Closed \in [open: BOOLEAN, sent: Seq(Values)]
  BY DEF Closed
<1>3. ASSUME GoDown PROVE StreamType'
  BY Zenon, <1>2, <1>3 DEF StreamType, GoDown
<1>4. NoBackoff \in B
  BY DEF NoBackoff
<1>5. ASSUME Start PROVE StreamType'
  BY Zenon, <1>4, <1>5 DEF StreamType, Start
<1>6. ASSUME Dial PROVE StreamType'
  <2>1. backoff' \in B
    BY <1>6, <1>a DEF Dial, MayRetry
  <2> QED
    BY Zenon, <1>6, <2>1 DEF StreamType, Dial
<1>7. ASSUME NewStream PROVE StreamType'
  <2>1. backoff' \in B
    BY SMTT(60), <1>7, <1>a DEF NewStream, MayRetry
  <2>2. agent.response \in Values \cup {NoIdentity}
    BY Zenon DEF AgentType
  <2>3. Opened \in [open: BOOLEAN, sent: Seq(Values)]
    BY <1>2, <2>2 DEF Opened
  <2>4. wire' \in [open: BOOLEAN, sent: Seq(Values)]
    BY Zenon, <1>7, <1>a, <2>3 DEF NewStream
  <2>5. listen' \in {"recv", "streamWait", "dial"}
    BY Zenon, <1>7 DEF NewStream
  <2> QED
    BY Zenon, <2>1, <2>4, <2>5 DEF StreamType
<1>8. ASSUME Recv PROVE StreamType'
  <2>0. backoff' = [backoff EXCEPT !.recv = 0]
    BY Zenon, <1>8 DEF Recv
  <2>1. backoff' \in B
    BY <1>a, <2>0
  <2>2. wire.sent \in Seq(Values) /\ wire.sent # <<>>
    BY Zenon, <1>8, <1>a DEF Recv
  <2>4. Tail(wire.sent) \in Seq(Values)
    BY <2>2
  <2>3. wire' \in [open: BOOLEAN, sent: Seq(Values)]
    BY Zenon, <1>8, <1>a, <2>4 DEF Recv
  <2> QED
    BY Zenon, <1>8, <2>1, <2>3 DEF StreamType, Recv
<1>9. ASSUME RecvFails PROVE StreamType'
  <2>1. backoff' \in B
    BY <1>9, <1>a DEF RecvFails, MayRetry
  <2> QED
    BY Zenon, <1>9, <2>1 DEF StreamType, RecvFails
<1>10. ASSUME Again PROVE StreamType'
  <2>1. backoff' \in B
    BY <1>10, <1>a DEF Again
  <2> QED
    BY Zenon, <1>10, <2>1 DEF StreamType, Again
<1>11. ASSUME Stopping PROVE StreamType'
  BY Zenon, <1>11, <1>2 DEF StreamType, Stopping
<1>12. ASSUME NoRetry PROVE StreamType'
  <2>1. backoff' \in B
    BY <1>12, <1>a DEF NoRetry
  <2> QED
    BY Zenon, <1>12, <2>1 DEF StreamType, NoRetry
<1>13. (ComeUp \/ StartReturns \/ Change \/ Load \/ Take \/ Signal \/ Fails \/ UNCHANGED watchVars)
         => UNCHANGED streamVars
  BY Zenon DEF ComeUp, StartReturns, Change, Load, Take, Signal, Fails, watchVars, streamVars
<1>14. UNCHANGED streamVars => StreamType'
  BY Zenon DEF StreamType, streamVars
<1> QED
  BY <1>1, <1>3, <1>5, <1>6, <1>7, <1>8, <1>9, <1>10, <1>11, <1>12, <1>13, <1>14
  DEF WatchNext, Listen

\* What Recv appends is a response that differs from the last one.
LEMMA RecvLearns ==
  ASSUME StreamType, HandlerType, Recv
  PROVE  \/ UNCHANGED <<learned, changes>>
         \/ \E v \in Values :
              /\ learned # <<>> => learned[Len(learned)] # v
              /\ learned' = Append(learned, v) /\ changes' = TRUE
<1>1. wire.sent \in Seq(Values) /\ wire.sent # <<>>
  BY Zenon DEF StreamType, Recv
<1>2. Head(wire.sent) \in Values
  BY <1>1
<1> QED
  BY Zenon, <1>2 DEF Recv, Update

\* The handler's variables keep their types and HandlerInv.
LEMMA HandlerStep ==
  ASSUME StreamType, HandlerType, HandlerInv, [WatchNext]_watchVars
  PROVE  HandlerType' /\ HandlerInv'
<1> DEFINE same == UNCHANGED <<handler, changes, learned, latest, delivered>>
                   /\ (start' = "no" => start = "no")
<1>1. same => HandlerType' /\ HandlerInv'
  BY DEF HandlerType, HandlerInv, NoUpdateIsLost
<1>2. ASSUME NEW v \in Values \cup {NoIdentity} PROVE Publish(v) => same
  BY Zenon DEF Publish, handlerVars, clientVars
<1>3. (GoDown \/ ComeUp \/ StartReturns \/ Signal \/ Fails \/ UNCHANGED watchVars) => same
  BY Zenon DEF GoDown, ComeUp, StartReturns, Signal, Fails, watchVars, handlerVars, clientVars
<1>4. (Dial \/ NewStream \/ RecvFails \/ Again \/ Stopping \/ NoRetry) => same
  BY Zenon DEF Dial, NewStream, RecvFails, Again, Stopping, NoRetry, handlerVars, clientVars
<1>5. ASSUME Start PROVE HandlerType' /\ HandlerInv'
  <2>1. /\ start = "no" /\ start' = "waits" /\ handler' = "wait"
        /\ UNCHANGED <<changes, learned, latest, delivered>>
    BY Zenon, <1>5 DEF Start
  <2> QED
    BY Zenon, <2>1 DEF HandlerType, HandlerInv, NoUpdateIsLost
<1>6. ASSUME Recv PROVE HandlerType' /\ HandlerInv'
  <2>1. UNCHANGED <<handler, latest, delivered, start>>
    BY Zenon, <1>6 DEF Recv, handlerVars, clientVars
  <2>2. CASE UNCHANGED <<learned, changes>>
    BY Zenon, <1>1, <2>1, <2>2
  <2>3. ASSUME NEW v \in Values, learned' = Append(learned, v), changes' = TRUE
        PROVE  HandlerType' /\ HandlerInv'
    <3>1. learned' \in Seq(Values) /\ Len(learned') = Len(learned) + 1 /\ learned' # <<>>
          /\ Len(learned) \in Nat
      BY Zenon, <2>3, Appended DEF HandlerType
    <3>2. HandlerType'
      BY <2>1, <2>3, <3>1 DEF HandlerType
    <3> QED
      BY Zenon, <2>1, <2>3, <3>1, <3>2 DEF HandlerType, HandlerInv, NoUpdateIsLost
  <2> QED
    <3>1. \/ UNCHANGED <<learned, changes>>
          \/ \E v \in Values : learned' = Append(learned, v) /\ changes' = TRUE
      BY <1>6, RecvLearns, Zenon
    <3> QED
      BY Zenon, <3>1, <2>2, <2>3
<1>7. ASSUME Change PROVE HandlerType' /\ HandlerInv'
  <2>1. handler # "no" /\ handler' = "load" /\ changes' = FALSE /\ changes
        /\ UNCHANGED <<learned, latest, delivered, start>>
    BY Zenon, <1>7 DEF Change, clientVars
  <2> QED
    BY Zenon, <2>1 DEF HandlerType, HandlerInv, NoUpdateIsLost
<1>8. ASSUME Load PROVE HandlerType' /\ HandlerInv'
  <2>1. handler = "load" /\ handler' = "send" /\ latest' = Len(learned)
        /\ UNCHANGED <<changes, learned, delivered, start>>
    BY Zenon, <1>8 DEF Load, clientVars
  <2>2. Len(learned) \in Nat /\ (learned # <<>> => Len(learned) > 0)
    BY DEF HandlerType
  <2> QED
    BY <2>1, <2>2 DEF HandlerType, HandlerInv, NoUpdateIsLost
<1>9. ASSUME Take PROVE HandlerType' /\ HandlerInv'
  <2>1. handler = "send" /\ handler' = "wait" /\ delivered' = latest
        /\ UNCHANGED <<changes, learned, latest, start>>
    BY Zenon, <1>9 DEF Take, clientVars
  <2> QED
    BY <2>1 DEF HandlerType, HandlerInv, NoUpdateIsLost
<1> QED
  BY Zenon, <1>1, <1>2, <1>3, <1>4, <1>5, <1>6, <1>7, <1>8, <1>9 DEF WatchNext, Listen

\* The inductive invariant of the client.
ClientInv == AgentType /\ StreamType /\ ClientType /\ HandlerType /\ HandlerInv

LEMMA ClientInvariant == WatchSpec => []ClientInv
<1>1. WatchInit => HandlerInv
  BY DEF WatchInit, HandlerInv, NoUpdateIsLost
<1>2. WatchInit => ClientInv
  BY Zenon, <1>1, InitAgent, InitStream, InitClient, InitHandler DEF ClientInv
<1>3. ClientInv /\ [WatchNext]_watchVars => ClientInv'
  BY Zenon, AgentStep, StreamStep, ClientStep, HandlerStep DEF ClientInv
<1> QED
  BY <1>2, <1>3, PTL DEF WatchSpec

\* The state of the client always has its type: no backoff goes beyond the timeout.
THEOREM ClientTypeCorrect == WatchSpec => []WatchTypeOK
<1>1. ClientInv => WatchTypeOK
  BY Zenon DEF ClientInv, WatchTypeOK
<1> QED
  BY <1>1, ClientInvariant, PTL

\* The signal that a response is waiting is never lost between update and handleUpdates.
THEOREM UpdatesAreSignalled == WatchSpec => []NoUpdateIsLost
<1>1. ClientInv => NoUpdateIsLost
  BY Zenon DEF ClientInv, HandlerInv
<1> QED
  BY <1>1, ClientInvariant, PTL

\* The client implements LatestUpdate (its safety part): what the handler takes differs from
\* what it took before, and what the workload gets never goes back to an older response.
THEOREM ClientImplementation == WatchSpec => NeverGoesBack
<1>1. WatchInit => Updates!Init
  BY Zenon DEF WatchInit, Updates!Init
<1>2. ClientInv /\ [WatchNext]_watchVars => [Updates!Next]_Updates!updates
  <2> SUFFICES ASSUME ClientInv, [WatchNext]_watchVars PROVE [Updates!Next]_Updates!updates
    BY Zenon
  <2> DEFINE same == UNCHANGED <<learned, delivered, watch>>
  <2>1. same => [Updates!Next]_Updates!updates
    BY Zenon DEF Updates!updates
  <2>2. ASSUME NEW v \in Values \cup {NoIdentity} PROVE Publish(v) => same
    BY Zenon DEF Publish, handlerVars
  <2>3. (GoDown \/ ComeUp \/ Start \/ StartReturns \/ Change \/ Load \/ UNCHANGED watchVars) => same
    BY Zenon DEF GoDown, ComeUp, Start, StartReturns, Change, Load, watchVars, handlerVars
  <2>4. (Dial \/ NewStream \/ RecvFails \/ Again \/ Stopping \/ NoRetry) => same
    BY Zenon DEF Dial, NewStream, RecvFails, Again, Stopping, NoRetry, handlerVars
  <2>5. ASSUME Recv PROVE [Updates!Next]_Updates!updates
    <3>1. UNCHANGED <<delivered, watch>>
      BY Zenon, <2>5 DEF Recv, handlerVars
    <3>2. \/ UNCHANGED <<learned, changes>>
          \/ \E v \in Values :
               /\ learned # <<>> => learned[Len(learned)] # v
               /\ learned' = Append(learned, v)
      BY <2>5, RecvLearns, Zenon DEF ClientInv
    <3>3. CASE UNCHANGED <<learned, changes>>
      BY Zenon, <2>1, <3>1, <3>3
    <3>4. CASE \E v \in Values :
                 /\ learned # <<>> => learned[Len(learned)] # v
                 /\ learned' = Append(learned, v)
      BY Zenon, <3>1, <3>4 DEF Updates!Next, Updates!Learn
    <3> QED
      BY Zenon, <3>2, <3>3, <3>4
  <2>6. ASSUME Take PROVE Updates!Deliver
    <3>1. /\ watch = "reads" /\ delivered' = latest /\ latest > 0
          /\ UNCHANGED <<learned, watch>>
      BY Zenon, <2>6 DEF Take, ClientInv, HandlerInv
    <3>2. latest \in delivered..Len(learned)
      BY DEF ClientInv, HandlerType, HandlerInv
    <3> QED
      BY Zenon, <3>1, <3>2 DEF Updates!Deliver
  <2>7. Signal \/ Fails => Updates!Close
    BY Zenon DEF Signal, Fails, handlerVars, Updates!Close
  <2> QED
    BY <2>1, <2>2, <2>3, <2>4, <2>5, <2>6, <2>7 DEF WatchNext, Listen, Updates!Next
<1> QED
  BY <1>1, <1>2, ClientInvariant, PTL DEF WatchSpec, NeverGoesBack, Updates!Safety
================================================================================
