-------------------------------- MODULE NodeAPI --------------------------------
(***************************************************************************)
(* The server's node API (pkg/server/endpoints/node/handler.go) over the   *)
(* SQL data store: agents attest with FetchBaseSVID, by join token or with *)
(* a node attestor plugin, then fetch workload SVIDs and renew their own   *)
(* with FetchSVID, while the registration API changes tokens and entries.  *)
(*                                                                         *)
(* A call is a server goroutine; each of its data store calls is a step of *)
(* its own, so that calls interleave.  Any of them may fail.               *)
(***************************************************************************)
EXTENDS DataStore

CONSTANTS
  Agents,       \* the Ids below spiffe://<trust domain>/spire/agent
  AgentOf,      \* [Tokens -> Agents]: the id attestToken derives from a token
  Resolved,     \* [Agents -> SUBSET Selectors]: what the node resolver answers
  TrustDomain,
  Calls,        \* goroutines of the server that handle calls
  MaxTime, MaxSerial, MaxFailures

ASSUME NodeAssumption ==
  /\ Agents \subseteq Ids
  /\ AgentOf \in [Tokens -> Agents]
  /\ \A t, u \in Tokens : AgentOf[t] = AgentOf[u] => t = u
  /\ Resolved \in [Agents -> SUBSET Selectors]
  /\ TrustDomain \in Domains
  /\ {MaxTime, MaxSerial, MaxFailures} \subseteq Nat

VARIABLES
  db,
  now,
  call,      \* the state of each call
  last,      \* the serial number signed last
  held,      \* serial number of the SVID each agent holds, 0 if it has none
  granted,   \* history: how often a token was answered with an SVID
  adrift,    \* history: agents whose row may have another serial number than their SVID
  failures

vars == <<db, now, call, last, held, granted, adrift, failures>>

TokenAgents  == {AgentOf[t] : t \in Tokens}
PluginAgents == Agents \ TokenAgents
Workloads    == Ids \ Agents

Idle == [pc |-> "idle"]

BaseCall == [pc: {"isAttested", "attest", "fetchToken", "expired", "deleteToken", "store",
                  "resolve", "matching", "parent", "bundle", "respond"},
             token: Tokens \cup {"plugin"}, id: Agents, awaited: BOOLEAN, before: BOOLEAN, serial: Nat,
             todo: SUBSET Selectors, combinations: SUBSET SUBSET Selectors,
             entries: SUBSET EntryIds]

StreamCall == [pc: {"recv", "stored", "matching", "parent", "csrs", "update", "bundle", "respond"},
               id: Ids, peer: Nat, csrs: SUBSET Ids, serial: Nat,
               combinations: SUBSET SUBSET Selectors, entries: SUBSET EntryIds,
               svids: SUBSET Ids, awaited: BOOLEAN, possible: SUBSET Ids]

\* The tables, the calls and the agents have their types.
TypeOK ==
  /\ db \in DB
  /\ now \in 0..MaxTime
  /\ call \in [Calls -> {Idle} \cup BaseCall \cup StreamCall]
  /\ last \in 0..MaxSerial
  /\ held \in [Agents -> 0..MaxSerial]
  /\ granted \in [Tokens -> Nat]
  /\ adrift \subseteq Agents
  /\ failures \in 0..MaxFailures

\* The CA manager has published the bundle before the endpoints are started.
Init ==
  /\ db = AppendBundle(EmptyDB, TrustDomain, Certs).db
  /\ now = 0
  /\ call = [c \in Calls |-> Idle]
  /\ last = 0
  /\ held = [i \in Agents |-> 0]
  /\ granted = [t \in Tokens |-> 0]
  /\ adrift = {}
  /\ failures = 0

At(c, pc)   == call[c].pc = pc
IsStream(c) == "peer" \in DOMAIN call[c]
Awaited(c)  == ~At(c, "idle") /\ call[c].awaited

\* An agent waits for its attestation, or for its renewal.
Attesting(i) == \E c \in Calls : Awaited(c) /\ ~IsStream(c) /\ call[c].id = i
Renewing(i)  == \E c \in Calls : Awaited(c) /\ IsStream(c) /\ call[c].id = i

Goto(c, pc) == call' = [call EXCEPT ![c].pc = pc]
End(c)      == call' = [call EXCEPT ![c] = Idle]

Tick ==
  /\ now < MaxTime
  /\ now' = now + 1
  /\ UNCHANGED <<db, call, last, held, granted, adrift, failures>>

Rest == UNCHANGED <<now, held, granted, adrift, failures>>

(***************************************************************************)
(* FetchBaseSVID.                                                          *)
(***************************************************************************)
\* An agent without an SVID asks for one, and waits for one attestation at a time: calls for
\* the same agent overlap when it has stopped and started again (AgentRestart).  Several nodes
\* may send the same join token.
FetchBaseSVID(c) ==
  /\ At(c, "idle")
  /\ \E i \in Agents, t \in Tokens \cup {"plugin"} :
       /\ t = "plugin" => i \in PluginAgents /\ held[i] = 0 /\ ~Attesting(i)
       /\ call' = [call EXCEPT ![c] =
            [pc |-> "isAttested", token |-> t, id |-> i, awaited |-> TRUE, before |-> FALSE,
             serial |-> 0, todo |-> {}, combinations |-> {}, entries |-> {}]]
  /\ UNCHANGED <<db, last>> /\ Rest

\* isAttested, then the choice between attest and attestToken.
IsAttested(c) ==
  LET before == FetchAttestedNodeEntry(db, call[c].id) # {} IN
  /\ At(c, "isAttested")
  /\ \/ /\ call[c].token = "plugin"
        /\ call' = [call EXCEPT ![c].pc = "attest", ![c].before = before]
     \/ /\ call[c].token # "plugin" /\ ~before
        /\ Goto(c, "fetchToken")
     \/ /\ call[c].token # "plugin" /\ before
        /\ End(c)
  /\ UNCHANGED <<db, last>> /\ Rest

\* The plugin refuses, or accepts the node under the id it asked for.
Attest(c) ==
  /\ At(c, "attest")
  /\ Goto(c, "store") \/ End(c)
  /\ UNCHANGED <<db, last>> /\ Rest

FetchJoinToken(c) ==
  LET t == call[c].token IN
  /\ At(c, "fetchToken")
  /\ \/ FetchToken(db, t) = {} /\ End(c)
     \/ FetchToken(db, t) # {} /\ db.token[t].expiry < now /\ Goto(c, "expired")
     \/ FetchToken(db, t) # {} /\ db.token[t].expiry >= now /\ Goto(c, "deleteToken")
  /\ UNCHANGED <<db, last>> /\ Rest

\* The error of DeleteToken is ignored, and the token then stays.  validateAttestation
\* compares the id of the CSR with the one derived from the token.
DeleteJoinToken(c) ==
  /\ call[c].pc \in {"expired", "deleteToken"}
  /\ \/ db' = DeleteToken(db, call[c].token).db /\ UNCHANGED failures
     \/ failures < MaxFailures /\ failures' = failures + 1 /\ UNCHANGED db
  /\ IF At(c, "deleteToken") /\ AgentOf[call[c].token] = call[c].id
       THEN Goto(c, "store") ELSE End(c)
  /\ UNCHANGED <<now, last, held, granted, adrift>>

\* Buggy: creating the entry of an agent that has one overwrites it.
StoreOverwriting(c) ==
  /\ At(c, "store")
  /\ last < MaxSerial /\ last' = last + 1
  /\ db' = [db EXCEPT !.node[call[c].id] = [row |-> "live", serial |-> last']]
  /\ call' = [call EXCEPT ![c].pc = "resolve", ![c].serial = last',
                          ![c].todo = Resolved[call[c].id]]
  /\ Rest

\* A serial number is stored, which the agent waits for, or no longer does.
Adrift(c) == IF call[c].awaited THEN adrift \ {call[c].id} ELSE adrift \cup {call[c].id}

\* SignCsr, then updateAttestationEntry or createAttestationEntry.
StoreAttestation(c) ==
  LET i == call[c].id
      r == IF call[c].before THEN UpdateAttestedNodeEntry(db, i, last + 1)
                             ELSE CreateAttestedNodeEntry(db, i, last + 1)
  IN
  /\ At(c, "store")
  /\ last < MaxSerial /\ last' = last + 1
  /\ db' = r.db
  /\ \/ r.err /\ End(c) /\ UNCHANGED adrift
     \/ /\ ~r.err
        /\ call' = [call EXCEPT ![c].pc = "resolve", ![c].serial = last', ![c].todo = Resolved[i]]
        /\ adrift' = Adrift(c)
  /\ UNCHANGED <<now, held, granted, failures>>

\* resolveSelectors stores one selector after the other; the first that is there
\* already ends the call.
ResolveSelector(c) ==
  /\ At(c, "resolve")
  /\ \E s \in call[c].todo :
       LET r == CreateNodeResolverMapEntry(db, call[c].id, s) IN
       /\ db' = r.db
       /\ IF r.err THEN End(c) ELSE call' = [call EXCEPT ![c].todo = @ \ {s}]
  /\ UNCHANGED last /\ Rest

Combinations(S) == (SUBSET S) \ {{}}

Resolve(c) ==
  /\ At(c, "resolve") /\ call[c].todo = {}
  /\ call' = [call EXCEPT ![c].pc = "matching",
                          ![c].combinations = Combinations(Resolved[call[c].id])]
  /\ UNCHANGED <<db, last>> /\ Rest

(***************************************************************************)
(* fetchRegistrationEntries, for both calls.                               *)
(***************************************************************************)
AsList(S) == CHOOSE q \in [1..Cardinality(S) -> S] : Elements(q) = S

\* ListMatchingEntries for each combination of the node's selectors.
FetchMatching(c) ==
  /\ At(c, "matching")
  /\ \E S \in call[c].combinations :
       LET r == ListMatchingEntries(db, AsList(S)) IN
       IF r.err THEN End(c)
                ELSE call' = [call EXCEPT ![c].combinations = @ \ {S},
                                          ![c].entries = @ \cup r.res]
  /\ UNCHANGED <<db, last>> /\ Rest

\* Buggy: a FetchBaseSVID call goes on to sign CSRs.
FetchChildrenToSign(c) ==
  /\ At(c, "matching") /\ call[c].combinations = {}
  /\ call' = [call EXCEPT ![c].pc = "csrs",
                          ![c].entries = @ \cup ListParentIDEntries(db, call[c].id)]
  /\ UNCHANGED <<db, last>> /\ Rest

\* ListParentIDEntries after the last combination.
FetchChildren(c) ==
  /\ At(c, "matching") /\ call[c].combinations = {}
  /\ call' = [call EXCEPT ![c].pc = IF IsStream(c) THEN "csrs" ELSE "bundle",
                          ![c].entries = @ \cup ListParentIDEntries(db, call[c].id)]
  /\ UNCHANGED <<db, last>> /\ Rest

GetBundle(c) ==
  /\ At(c, "bundle")
  /\ IF FetchBundle(db, TrustDomain).err THEN End(c) ELSE Goto(c, "respond")
  /\ UNCHANGED <<db, last>> /\ Rest

\* FetchBaseSVID returns its response, which may still be lost on the way.
Respond(c) ==
  LET t == call[c].token
      i == call[c].id
  IN
  /\ At(c, "respond") /\ ~IsStream(c)
  /\ granted' = IF t = "plugin" THEN granted ELSE [granted EXCEPT ![t] = @ + 1]
  /\ \/ call[c].awaited /\ held' = [held EXCEPT ![i] = call[c].serial] /\ UNCHANGED failures
     \/ call[c].awaited /\ failures < MaxFailures /\ failures' = failures + 1 /\ UNCHANGED held
     \/ ~call[c].awaited /\ UNCHANGED <<held, failures>>
  /\ End(c)
  /\ UNCHANGED <<db, now, last, adrift>>

(***************************************************************************)
(* FetchSVID: a stream, on a connection with the peer's certificate.       *)
(***************************************************************************)
\* An agent, or a workload whose SVID an agent uses to fetch on its behalf, connects.
OpenStream(c) ==
  /\ At(c, "idle")
  /\ \E i \in Ids :
       /\ i \in Agents => held[i] # 0
       /\ call' = [call EXCEPT ![c] =
            [pc |-> "recv", id |-> i, peer |-> IF i \in Agents THEN held[i] ELSE 0,
             csrs |-> {}, serial |-> 0, combinations |-> {}, entries |-> {},
             svids |-> {}, awaited |-> FALSE, possible |-> {}]]
  /\ UNCHANGED <<db, last>> /\ Rest

CloseStream(c) ==
  /\ At(c, "recv")
  /\ End(c)
  /\ UNCHANGED <<db, last>> /\ Rest

SpiffeIdsOf(E) == {db.entry[e].spiffe : e \in E}

\* Buggy: the entries of the previous request on the stream are kept.
RecvKeepingEntries(c) ==
  /\ At(c, "recv")
  /\ \E S \in SUBSET Workloads :
       call' = [call EXCEPT ![c].pc = "stored", ![c].csrs = S, ![c].svids = {},
                            ![c].possible = SpiffeIdsOf(LiveEntries(db))]
  /\ UNCHANGED <<db, now, last, held, granted, adrift, failures>>

\* A request for workload SVIDs, or the agent's only renewal, which it makes on a
\* connection with its current SVID.
Recv(c) ==
  /\ At(c, "recv")
  /\ \E S \in (SUBSET Workloads) \cup {{call[c].id}} :
       /\ ~(S \subseteq Workloads) => held[call[c].id] = call[c].peer /\ ~Renewing(call[c].id)
       /\ call' = [call EXCEPT ![c].pc = "stored", ![c].csrs = S, ![c].entries = {},
                               ![c].svids = {}, ![c].serial = 0,
                               ![c].awaited = ~(S \subseteq Workloads),
                               ![c].possible = SpiffeIdsOf(LiveEntries(db))]
  /\ UNCHANGED <<db, last>> /\ Rest

GetStoredSelectors(c) ==
  /\ At(c, "stored")
  /\ call' = [call EXCEPT ![c].pc = "matching",
                ![c].combinations = Combinations(FetchNodeResolverMapEntry(db, call[c].id))]
  /\ UNCHANGED <<db, last>> /\ Rest

\* signCSRs, a workload's CSR: buildSVID.
BuildSVID(c) ==
  /\ At(c, "csrs")
  /\ \E i \in call[c].csrs \cap Workloads :
       \/ /\ i \in SpiffeIdsOf(call[c].entries)
          /\ call' = [call EXCEPT ![c].csrs = @ \ {i}, ![c].svids = @ \cup {i}]
       \/ i \notin SpiffeIdsOf(call[c].entries) /\ End(c)
  /\ UNCHANGED <<db, last>> /\ Rest

\* signCSRs, the agent's own CSR: the serial numbers are compared, buildBaseSVID signs.
BuildBaseSVID(c) ==
  /\ At(c, "csrs") /\ call[c].csrs \cap Agents # {}
  /\ \/ /\ call[c].peer \in FetchAttestedNodeEntry(db, call[c].id)
        /\ last < MaxSerial /\ last' = last + 1
        /\ call' = [call EXCEPT ![c].pc = "update", ![c].serial = last']
     \/ /\ call[c].peer \notin FetchAttestedNodeEntry(db, call[c].id)
        /\ End(c) /\ UNCHANGED last
  /\ UNCHANGED <<db, now, held, granted, adrift, failures>>

\* Buggy: the renewed SVID's serial number is not stored.
UpdateForgotten(c) ==
  /\ At(c, "update")
  /\ call' = [call EXCEPT ![c].pc = "csrs", ![c].csrs = @ \ {call[c].id},
                          ![c].svids = @ \cup {call[c].id}]
  /\ UNCHANGED <<db, now, last, held, granted, adrift, failures>>

\* updateAttestationEntry, whose error signCSRs does not see: the agent's SVID is then
\* another than the row's.
UpdateAttestation(c) ==
  LET r == UpdateAttestedNodeEntry(db, call[c].id, call[c].serial) IN
  /\ At(c, "update")
  /\ \/ /\ db' = r.db
        /\ adrift' = IF r.err THEN adrift \cup {call[c].id} ELSE Adrift(c)
        /\ UNCHANGED failures
     \/ /\ failures < MaxFailures /\ failures' = failures + 1
        /\ adrift' = adrift \cup {call[c].id}
        /\ UNCHANGED db
  /\ call' = [call EXCEPT ![c].pc = "csrs", ![c].csrs = @ \ {call[c].id},
                          ![c].svids = @ \cup {call[c].id}]
  /\ UNCHANGED <<now, last, held, granted>>

SignCSRsDone(c) ==
  /\ At(c, "csrs") /\ call[c].csrs = {}
  /\ Goto(c, "bundle")
  /\ UNCHANGED <<db, last>> /\ Rest

\* The response is sent and the handler receives again; an agent that waits for its
\* renewal takes the SVID.
Send(c) ==
  /\ At(c, "respond") /\ IsStream(c)
  /\ held' = IF call[c].awaited THEN [held EXCEPT ![call[c].id] = call[c].serial] ELSE held
  /\ call' = [call EXCEPT ![c].pc = "recv", ![c].awaited = FALSE]
  /\ UNCHANGED <<db, now, last, granted, adrift, failures>>

(***************************************************************************)
(* Failures.                                                               *)
(***************************************************************************)
\* The agent's row already has the serial number of the SVID it waits for.
Renewed(c) == IsStream(c) /\ call[c].awaited /\ call[c].serial # 0

\* A data store or CA call of c fails, the connection breaks, or c's response is lost.
Abort(c) ==
  /\ call[c].pc \notin {"idle", "recv", "expired", "deleteToken", "update"}
  /\ failures < MaxFailures /\ failures' = failures + 1
  /\ adrift' = IF Renewed(c) THEN adrift \cup {call[c].id} ELSE adrift
  /\ End(c)
  /\ UNCHANGED <<db, now, last, held, granted>>

\* Past the bound on serial numbers, the CA refuses to sign.
CARefuses(c) ==
  /\ last = MaxSerial
  /\ At(c, "store") \/ (At(c, "csrs") /\ call[c].csrs \cap Agents # {})
  /\ End(c)
  /\ UNCHANGED <<db, last>> /\ Rest

\* An agent with the memory key manager stops.  loadSVID finds no key for the SVID on
\* disk, so that the agent attests again; the calls it waited for go on in the server.
AgentRestart(i) ==
  /\ held[i] # 0 \/ Attesting(i)
  /\ failures < MaxFailures /\ failures' = failures + 1
  /\ held' = [held EXCEPT ![i] = 0]
  /\ call' = [c \in Calls |-> IF ~At(c, "idle") /\ call[c].id = i
                                THEN [call[c] EXCEPT !.awaited = FALSE] ELSE call[c]]
  /\ UNCHANGED <<db, now, last, granted, adrift>>

(***************************************************************************)
(* The registration API, one call at a time.                               *)
(***************************************************************************)
CreateJoinToken(t) ==
  /\ \E ttl \in 1..MaxTime : db' = RegisterToken(db, t, now + ttl).db
  /\ UNCHANGED <<now, call, last, held, granted, adrift, failures>>

\* Every stream that runs now might see the new entry.
CreateEntry(e) ==
  /\ db.entry[e].row = "none"
  /\ \E i \in Workloads, p \in Ids, S \in Combinations(Selectors) :
       /\ db' = CreateRegistrationEntry(db, e, [spiffe |-> i, parent |-> p,
                                                selectors |-> AsList(S)]).db
       /\ call' = [c \in Calls |-> IF IsStream(c) /\ ~At(c, "recv")
                                     THEN [call[c] EXCEPT !.possible = @ \cup {i}] ELSE call[c]]
  /\ UNCHANGED <<now, last, held, granted, adrift, failures>>

DeleteEntry(e) ==
  /\ e \in LiveEntries(db)
  /\ db' = DeleteRegistrationEntry(db, e).db
  /\ UNCHANGED <<now, call, last, held, granted, adrift, failures>>

BaseStep(c) ==
  \/ FetchBaseSVID(c) \/ IsAttested(c) \/ Attest(c) \/ FetchJoinToken(c) \/ DeleteJoinToken(c)
  \/ StoreAttestation(c) \/ ResolveSelector(c) \/ Resolve(c) \/ Respond(c)

StreamStep(c) ==
  \/ OpenStream(c) \/ CloseStream(c) \/ Recv(c) \/ GetStoredSelectors(c)
  \/ BuildSVID(c) \/ BuildBaseSVID(c) \/ UpdateAttestation(c) \/ SignCSRsDone(c) \/ Send(c)

SharedStep(c) == FetchMatching(c) \/ FetchChildren(c) \/ GetBundle(c) \/ Abort(c) \/ CARefuses(c)

Next ==
  \/ Tick
  \/ \E c \in Calls : BaseStep(c) \/ StreamStep(c) \/ SharedStep(c)
  \/ \E i \in Agents : AgentRestart(i)
  \/ \E t \in Tokens : CreateJoinToken(t)
  \/ \E e \in EntryIds : CreateEntry(e) \/ DeleteEntry(e)

Spec == Init /\ [][Next]_vars

(***************************************************************************)
(* Properties.                                                             *)
(***************************************************************************)
\* A join token is answered with an SVID at most once (it is "single-use", README.md),
\* although calls fetch and delete it in separate steps and ignore a failed delete.
TokenIsSingleUse == \A t \in Tokens : granted[t] <= 1

\* An agent can renew: the SVID it holds is the one whose serial number its row has, however
\* its calls overlap.  The exceptions last until the next serial number it waits for is stored:
\* the update of a renewal failed unnoticed, its response was lost after the update, or a call
\* from before the agent stopped stored its serial number late.
HeldSerialIsStored ==
  \A i \in Agents : (held[i] # 0 /\ i \notin adrift /\ ~Renewing(i)) =>
                       held[i] \in FetchAttestedNodeEntry(db, i)

\* FetchSVID never signs for a workload whose entries were all deleted before the
\* request arrived.
SignsOnlyRegistered ==
  \A c \in Calls : IsStream(c) => call[c].svids \cap Workloads \subseteq call[c].possible
================================================================================
