----------------------------- MODULE AWSAttestation -----------------------------
(***************************************************************************)
(* Node attestation with the aws_iid plugins, and the part of the server's *)
(* FetchBaseSVID around it.  The agent's plugin reads the instance         *)
(* identity document and its signature; the server's plugin checks them,   *)
(* and what AWS says of the instance: how far apart its first network      *)
(* interface and its root device were attached.                            *)
(***************************************************************************)
EXTENDS Integers

CONSTANTS
  Instances,
  Calls,           \* FetchBaseSVID calls
  MaxSkew,         \* maxSecondsBetweenDeviceAttachments
  SkipBlockDevice, \* the plugin's configuration
  MaxTime

VARIABLES
  now,
  instance,   \* what DescribeInstances answers for each instance
  rows,       \* the attested nodes of the data store
  call,
  granted     \* history: how many SVIDs were given for the document of an instance

vars == <<now, instance, rows, call, granted>>

Detached == -1
Idle == [pc |-> "idle"]

\* index: the device index of NetworkInterfaces[0]; iface and root: when it and the root
\* device were attached; store: the root device is an instance store.
Described ==
  [index: 0..1, iface: 0..MaxTime, root: {Detached} \cup 0..MaxTime, store: BOOLEAN]

\* The instances, the rows and the calls have their types.  of: the instance whose id the CSR
\* has; doc: the one of the document; replaced (history): its root device was newer than its
\* interface by more than MaxSkew when the call was made.
TypeOK ==
  /\ now \in 0..MaxTime
  /\ instance \in [Instances -> Described]
  /\ rows \subseteq Instances
  /\ call \in [Calls -> {Idle} \cup [pc: {"isAttested", "attest", "store"}, of: Instances,
                                     doc: Instances, before: BOOLEAN, replaced: BOOLEAN]]
  /\ granted \in [Instances -> Nat]

Init ==
  /\ now = 0
  /\ instance \in [Instances -> {d \in Described : d.iface = 0 /\ d.root = 0}]
  /\ rows = {}
  /\ call = [c \in Calls |-> Idle]
  /\ granted = [i \in Instances |-> 0]

Tick ==
  /\ now < MaxTime
  /\ now' = now + 1
  /\ UNCHANGED <<instance, rows, call, granted>>

\* The root device is detached, and one is attached.
Detach(i) ==
  /\ ~instance[i].store /\ instance[i].root # Detached
  /\ instance' = [instance EXCEPT ![i].root = Detached]
  /\ UNCHANGED <<now, rows, call, granted>>
Reattach(i) ==
  /\ instance[i].root = Detached
  /\ instance' = [instance EXCEPT ![i].root = now]
  /\ UNCHANGED <<now, rows, call, granted>>

Abs(n) == IF n < 0 THEN -n ELSE n

\* The disparity of the attach times; without a root device there is no mapping for it.
AttachedTogether(d) == d.root # Detached /\ Abs(d.iface - d.root) <= MaxSkew

Replaced(d) == d.root > d.iface + MaxSkew

\* FetchBaseSVID is called with what the agent's FetchAttestationData read, a document and its
\* signature, and with a CSR: nothing before validateAttestation ties its id to the document's.
FetchAttestationData(c) ==
  /\ call[c] = Idle
  /\ \E i, d \in Instances :
       call' = [call EXCEPT ![c] = [pc |-> "isAttested", of |-> i, doc |-> d, before |-> FALSE,
                                    replaced |-> Replaced(instance[d])]]
  /\ UNCHANGED <<now, instance, rows, granted>>

\* The server's isAttested, by the id of the CSR.
IsAttested(c) ==
  /\ call[c].pc = "isAttested"
  /\ call' = [call EXCEPT ![c].pc = "attest", ![c].before = call[c].of \in rows]
  /\ UNCHANGED <<now, instance, rows, granted>>

\* The server's Attest, up to the call of AWS and after it.
Accepted(r, d) ==
  /\ ~r.before
  /\ d.index = 0
  /\ d.store \/ SkipBlockDevice \/ AttachedTogether(d)

\* validateAttestation: the id of the attestation is the one of the CSR.
ValidateAttestation(r) == r.doc = r.of

\* attest, and validateAttestation of what it returned.
Attest(c) ==
  /\ call[c].pc = "attest"
  /\ call' = [call EXCEPT ![c] = IF Accepted(call[c], instance[call[c].doc]) /\ ValidateAttestation(call[c])
                                   THEN [call[c] EXCEPT !.pc = "store"] ELSE Idle]
  /\ UNCHANGED <<now, instance, rows, granted>>

\* The document or its signature does not decode or verify, or DescribeInstances or SignCsr fails.
AttestFails(c) ==
  /\ call[c].pc = "attest"
  /\ call' = [call EXCEPT ![c] = Idle]
  /\ UNCHANGED <<now, instance, rows, granted>>

\* Buggy: the row is written whether there is one or not.
StoreAlways(c) ==
  /\ call[c].pc = "store"
  /\ rows' = rows \cup {call[c].of}
  /\ granted' = [granted EXCEPT ![call[c].doc] = @ + 1]
  /\ call' = [call EXCEPT ![c] = Idle]
  /\ UNCHANGED <<now, instance>>

\* createAttestationEntry fails if there is a row; otherwise the SVID is returned, unless
\* resolveSelectors fails.
Store(c) ==
  /\ call[c].pc = "store"
  /\ rows' = rows \cup {call[c].of}
  /\ \/ UNCHANGED granted
     \/ call[c].of \notin rows /\ granted' = [granted EXCEPT ![call[c].doc] = @ + 1]
  /\ call' = [call EXCEPT ![c] = Idle]
  /\ UNCHANGED <<now, instance>>

Next ==
  \/ Tick
  \/ \E i \in Instances : Detach(i) \/ Reattach(i)
  \/ \E c \in Calls :
       FetchAttestationData(c) \/ IsAttested(c) \/ Attest(c) \/ AttestFails(c) \/ Store(c)

(***************************************************************************)
(* Properties.                                                             *)
(***************************************************************************)
\* "the IID has been used and is no longer valid": one document gets at most one SVID, also
\* when several calls pass isAttested before the first of them stores its row, and when the ids
\* of their CSRs, by which the rows are looked up, differ.
DocumentIsUsedOnce == \A i \in Instances : granted[i] <= 1

\* A call for an instance whose root device had been replaced before the call was made is
\* not accepted, whatever is attached while it runs.
ReplacedRootIsRefused ==
  \A c \in Calls : call[c] # Idle /\ call[c].pc = "store" =>
    SkipBlockDevice \/ instance[call[c].doc].store \/ ~call[c].replaced
================================================================================
