# A TLA+ model of SPIRE

SPIRE issues short-lived X.509 identities (SVIDs) to workloads. A *server* keeps registration
entries, runs a certificate authority and attests nodes; an *agent* on every node attests to the
server, fetches SVIDs for the workloads of its node and hands them out over the Workload API; a
*client library* keeps a workload supplied with the latest of them.

This directory models the parts whose state is changed by several goroutines or processes, by
several calls, or across restarts. TLC checks them on small instances; TLAPS proves most of the
safety properties for every instance. `PROJECT.json` maps every definition to the
lines it translates, lists the hazards of the code with the properties that address them, and has
for every checked property a mutant of the code that violates it.

## The system's parts

| Part | Source | Module |
|---|---|---|
| Agent cache and subscribers | `pkg/agent/manager/cache` | `AgentCache`; the index in `SelectorSets` |
| Workload API handler | `pkg/agent/endpoints/workload` | `AgentCache` (the streams) |
| Selector sets | `pkg/common/selector` | `SelectorSets` |
| Agent manager: synchronization, rotation, clients, files | `pkg/agent/manager` | `AgentSync` |
| Agent's node attestor, key managers | `pkg/agent/attestor/node`, `pkg/agent/plugin/keymanager` | `AgentSync` |
| Workload attestor; unix and k8s plugins | `pkg/agent/attestor/workload`, `pkg/agent/plugin/workloadattestor` | `WorkloadAttestation` |
| AWS node attestation | `pkg/*/plugin/nodeattestor/aws` | `AWSAttestation` |
| CA manager; memory CA and disk UpstreamCA plugins | `pkg/server/ca`, `pkg/server/plugin/ca/memory`, `.../upstreamca/disk` | `CAManager` |
| Server's SVID rotator; TLS configuration of the endpoints | `pkg/server/svid`, `pkg/server/endpoints` | `ServerSVID` |
| SQL data store | `pkg/server/plugin/datastore/sql` | `DataStore`, `DataStoreCalls` |
| Node API | `pkg/server/endpoints/node` | `NodeAPI` |
| Registration API | `pkg/server/endpoints/registration` | `Registration` (and in `NodeAPI`) |
| Commands entry, token, bundle | `cmd/spire-server/cli` | `RegistrationCLI` |
| Agent process, server process | `pkg/agent`, `pkg/server`, `cmd/*/cli/run` | `AgentProcess`, `ServerProcess`, what they share in `DaemonProcess`, `Configuration`, `Tomb` |
| Plugin catalogs | `pkg/common/catalog`, `pkg/*/catalog` | `Catalog` |
| Profiling | `pkg/common/profiling` | `Profiler` |
| Workload API client, command api watch | `api/workload`, `cmd/spire-agent/cli/api` | `X509Client`, abstractly `LatestUpdate` |
| Command api fetch | `cmd/spire-agent/cli/api` | `FetchCLI` |

How they interact: the CA manager obtains CA certificates from the UpstreamCA, publishes them in the
data store's bundle and loads them into the CA plugin. The rotator signs the server's SVID with that
plugin, and the endpoints serve it. The node API signs for agents with the same plugin and reads and
writes the data store, which the registration API fills on behalf of the commands. The agent's
manager polls the node API and writes what it gets into the agent cache; the cache notifies the
Workload API streams, whose callers were attested by the workload attestor; the client library reads
the streams. A process starts all these goroutines, and stops them.

## The modules

A step is a critical section, a call of another component, or the code between two of them. A call
that can fail has a failing alternative. Variables that the code does not have are history and are
declared as such. Definitions that a comment calls *Buggy* are the mutants; no specification uses
them.

**`AgentCache`.** Writers call `SetEntry`, `SetBundle` and `DeleteEntry`; streams subscribe, read
and finish. A critical section of `cacheImpl.m`, `subscribers.m` or `subscriber.m` is one step;
`notifyMutex` is held over several and is a variable. `notifySubscribers` is five steps: lock,
snapshot of the entries, snapshot of the bundle, one step for each subscriber, unlock. A subscriber's
channel has capacity one and is closed and replaced when it is full, so the handler may hold the
channel it got from `Updates()` (`ref = "cur"`) or one that was replaced since (`"old"`).
Every write takes a fresh version number that stands for the SVID or bundle.

**`SelectorSets`.** The subscriber index has a list of subscriber ids for every *string* of a
combination of selectors. `String()` iterates over a Go map, so a combination may be spelled in any
order: a spelling is a sequence, chosen nondeterministically. `powerSet` is translated with its
binary counter, `remove` with its shifting of the array it iterates over.

**`AgentSync`.** The agent from its start on: `loadSVID`, `loadBundle` and `newSVID` of the attestor;
`synchronize`, which asks the server on behalf of the agent and of every cached alias, renews SVIDs
that are past half of their life, caches what it got and then makes clients for new aliases;
`rotateSVID` in a goroutine of its own; the pool of clients, in which two names share one client; the
files for SVID and bundle, which survive a crash, and the key, which survives with the key manager
`disk` only. The server is the environment: registered entries, bundle, its CA, and the serial number
it knows for the agent. Between two calls of one `synchronize` anything may happen. The pending
aliases are a set: their order in the recursion of `checkForNewCacheEntries` is left open. A call
answers or fails; one that does neither is not modelled, although `fetchUpdates` sets no deadline
(`comm.go:53`).

**`WorkloadAttestation`.** `Attest` starts a goroutine for each plugin and collects from their two
channels. The unix plugin reads the user and the group in two steps, between which the process may
end, or a read fail; the k8s plugin reads the cgroups and polls the kubelet while pods are listed,
become ready and go. A process id is that of one process, with one user and group: that ids are used
again, and that a process changes its user between the reads, is not modelled.
**`AWSAttestation`.** The calls of `FetchBaseSVID` that matter (`isAttested`, the plugin's `Attest`,
`validateAttestation`, `createAttestationEntry`) as steps of concurrent calls, while devices are
detached and attached. `isAttested` asks for the id of the CSR, which need not be that of the
document. **`Attestation`** puts these two, `SelectorSets` and `X509Client` side by side; a
behaviour is one of one of them, as they share nothing.

**`CAManager`.** Two goroutines, the rotator and the pruner, with the CA plugin's keys and the
bundle. The steps of `prepareNextCA`, `activateNextCA` and `prune` are separate, each call may fail,
and the process may stop anywhere; only the bundle survives. A unit of time is the rotation ticker's
minute. `overwritten` is a history variable: certificates that a `prune` dropped without having
read them. **`ServerSVID`** extends it with the SVID rotator, the observer stream (a sequence of the
values not yet consumed) and TLS handshakes, which read the bundle before they lock the SVID. It adds
a timing assumption: what a tick starts is over before the next tick.

**`DataStore`** gives every call of the SQL plugin as an operator from tables and arguments to
`[db, err, res]`. All models embed `gorm.Model`, hence a deleted row is `"dead"`: no query returns
it, but it still counts for the unique indexes. **`DataStoreCalls`** makes any sequence of calls of
them. gorm is external: that a `Delete` without a primary key deletes all rows is what the comment
in `DeleteToken` says of it.

**`NodeAPI`** runs `FetchBaseSVID` and `FetchSVID` calls over `DataStore`, one step for each data
store call, beside tokens and entries that come and go, agents that restart, and failures: a data
store call returns an error, a connection breaks, a response is lost. Calls of one agent overlap: an
agent that stopped no longer awaits its call, which goes on in the server. Serial numbers count the
SVIDs signed for agents. History: `granted`; `adrift`, the agents whose row was written for a call that
they do not await, or that failed, until the next number they await is stored; and the field
`possible` of a call.

**`Registration`** splits `CreateEntry` into its check (`isEntryUnique`) and its creation;
**`RegistrationCLI`** composes it with the commands, each a sequence of calls between which other
commands make theirs. A file that is no JSON is a file without entries, as `parseFile` ignores the
error of `Unmarshal` (`create.go:144`). History: `free`, and the fields `ever` and `always` of a command.

**`AgentProcess`**, **`ServerProcess`**. Who starts, kills and waits for whom: `main`, the signal
handler, the tombs (**`Tomb`**, external) of the process and of its parts, the goroutines of manager,
endpoints, CA manager and rotator, and the fields they share without a lock. **`Configuration`** is
the merge of defaults, file and flags in the order of `mergeConfig`, with its error paths; the
logger is made from one source's file and level;
**`Catalog`** starts plugins one after another and stops them; **`Profiler`** is the goroutine that
dumps profiles. **`FetchCLI`** is `api fetch -write`: three files for each SVID, written one after
another by commands that may overlap. **`Processes`** puts the agent, the server and the fetch
commands side by side.

**`X509Client`**. `Start`, `listen`, `handleUpdates` and the workload as four goroutines, with the
channel `changes` of capacity one, the back-off, `Stop`, and an agent that goes down, comes back and
changes its answer. **`LatestUpdate`** is what a client promises, in three actions: responses are
learned, delivered in order with gaps, and the last one is delivered in the end. `X509Client`
implements it under the mapping given at its `INSTANCE`.

The `MC*` modules give constants their values. `MCRegistrationCLI` also has a second part, in which
any calls of the data store are made.


## The runs

| Run | Shows | Bounds |
|---|---|---|
| `agent_cache` | `NoMissedUpdate`, `NeverReadsDrainedChannel`, `UpdatesMoveForward`, `StreamsCatchUp`, `FinishedIsReclaimed` | 2 writers, 1 stream, 1 entry, 2 selectors, 3 writes |
| `server_svid` | `SigningKeyMatches`, `SignerIsPublished`, `ServingCAFound`, `ServedChainIsRecent`, `PublishedAheadOfUse` | CA ttl 11, SVID ttl 5, grace 6, prune interval 6, time 18, 2 failures of each kind, 2 starts |
| `data_store_tokens` | `DeleteTokenKeepsOthers` is violated | 2 tokens |
| `node_api` | `TokenIsSingleUse`, `HeldSerialIsStored`, `SignsOnlyRegistered`, `TypeOK` | 2 calls, 3 agents, 1 token, 1 entry, time 2, 3 serial numbers, 2 failures |
| `registration` | `ExistingEntryIsRefused`, `CreatedInOrder`, `ShowIsExact`; of the data store `MatchingIsSuperset`, `SelectorListIsExact`, `DeletedStaysDeleted` | 3 commands, 2 entries, 2 SPIFFE IDs, 2 selectors, 1 token, lists up to 2 |
| `agent_sync` | `RotatorIsCurrent`, `SyncIsComplete`, `SyncRenews`, `EntriesArrive`, `SyncReturnsEventually` | an alias, an alias of it and that one's workload; SVID life 1, time 2, 3 serial numbers, 2 starts, 1 change of the entries |
| `agent_restart` | `KeyIsOfSVID` is violated | as above |
| `agent_sync_recovery` | `SyncRecovers` is violated | as above, 1 start, no new bundle |
| `agent_twins` | `OwnKey` is violated | two entries with one SPIFFE ID |
| `processes` | `CleanExit`, `ErrorIsReported`, `FilesMatch`, `AlwaysEnds` | 2 kinds of plugins each, 2 faults, 2 fetches, up to 2 SVIDs |
| `precedence` | `CommandLineWins` is violated | as above |
| `attestation` | `GetFindsAllConcerned`, `SetAlgebra`; `AttestedSelectors`, `AttestReturns`; `DocumentIsUsedOnce`; `NoUpdateIsLost`, `DeliversLatest`, `LatestArrives`, `StopEnds` | 3 selectors, 2 subscribers; 2 workloads, 2 pods, 3 polls, 1 fault; 2 instances, 2 calls, time 1, no skew; 2 responses, back-off up to 2, 4 changes of the agent, every configuration |

Why the bounds are enough for the cases of interest:

- `agent_cache`: two writers are what it takes for one snapshot to overtake another, and three writes
  for a channel to be replaced while full and then to be overtaken. One entry with selector `a` and
  streams with any subset of `{a, b}` cover streams that it concerns and streams that it does not.
  That there are several streams matters to the proofs only, which have any number.
- `server_svid` covers a preparation at half and an activation at five sixths of a CA's life, its
  expiry and its pruning. The SVID lives longer than the sixth that a CA has left when it is replaced,
  so that SVIDs outlive their CA. This is the shipped configuration as well (`conf/server/server.conf`
  has `default_ttl = 3600` and upstream `ttl = "1h"`): neither `shouldRotate` nor `SignCsr` looks at the
  CA's expiry. `ServedChainIsRecent` therefore does not say that a chain is valid, but how old it can
  be, for all ttls: an SVID past half of its life is served only while every rotation since has
  failed, and its CA had a sixth of its life left when it signed, less what failures cost.
- `node_api`: two calls race for one token, or a renewal races with the re-attestation of an agent
  that restarted. The third agent's node has no selectors, so that it can attest again. `MCBound`
  keeps apart behaviours of the three agents, of which only the second meets entries, since no step
  reads rows of two; it keeps time at zero before there is a token.
- `registration`: three commands are a creator, one that deletes and one that shows. `MCOneTable` lets
  the calls of the data store use one table at a time, as no call uses two but for the entries and
  their selectors; lists of two selectors include repetitions and lists that an entry exceeds.
- `agent_sync`: in a chain of two aliases one `synchronize` asks on behalf of somebody whose client an
  earlier step of it has made, and does so again.
- `processes`: the configurations include one that fails at each step of the catalog's `Run`, and
  settings with nothing, everything, a bad option, or a part of the log's options.
- `attestation`: three selectors give seven combinations with up to six spellings each; a second pod
  lets the kubelet's list have a container that is still starting while the workload's own is gone.
  One workload is attested in a behaviour (`MCOneWorkload`), since two share nothing but the node.
  With a second instance a CSR can have another id than the document. Two responses distinguish the
  latest from an earlier one; with the back-off's cap at two units the agent comes back before, at and
  after it.

Symmetry is used over interchangeable calls, commands, entries and selectors, and in no run with a
liveness property. `CHECK_DEADLOCK FALSE` is set where a behaviour ends: at a bound (writes, time,
events), or because a process has ended. `node_api` checks for deadlock.

**Type invariants.** Each component has one. `node_api` checks its own; those of `AgentCache`,
`AgentSync`, `CAManager`, `DataStoreCalls` and `X509Client` are proved, those of `ServerSVID`,
`RegistrationCLI`, `AWSAttestation` and `WorkloadAttestation` are part of the invariants that are
proved for them; the others document the types of the variables.

## Fairness

- `AgentCache`: weak fairness of every goroutine's steps, as the Go scheduler runs what can run;
  strong fairness of `notifySubscribers`, as a `sync.Mutex` in starvation mode hands itself to a
  waiter that was passed over. Nothing obliges a caller to write, to subscribe or to cancel.
- `AgentSync`: weak fairness of `synchronize`, a goroutine with a ticker. Crashes, failures, changes
  on the server and the rotation are not fair. That its calls return is an assumption on the network
  (`comm.go:53`).
- `X509Client`: weak fairness of the goroutines of the client, strong fairness of `Stopping`: a Go
  `select` chooses at random among the ready cases, so that a stop signal that is ready again and again
  is chosen in the end. The agent may stay down for ever; `LatestArrives` asks for its answer only if
  it can be reached.
- `AgentProcess`, `ServerProcess` (`Processes`): weak fairness of the goroutines' steps. Signals,
  failures and requests of users are not fair.
- `WorkloadAttestation`: weak fairness of the steps of one `Attest`; pods and processes may do
  nothing. That a poll returns is an assumption on the kubelet: the plugin's `http.Client` has no
  timeout (`k8s.go:299`).

## What the code does otherwise than it says

Five runs expect a violation; `PROJECT.json` quotes the lines.

- `data_store_tokens`: `DeleteToken` gives gorm no primary key, and so deletes all join tokens.
- `agent_restart`: `rotateSVID` stores the new SVID but not its key. After a restart with the key
  manager `disk` the agent has an SVID and the key of an earlier one.
- `agent_sync_recovery`: a `synchronize` that fails between caching an alias and making its client
  leaves an alias without a client, and every later `synchronize` fails.
- `agent_twins`: the SVIDs of an answer are keyed by SPIFFE ID. Of two entries with one SPIFFE ID both
  get the SVID for the CSR of one of them, so that the other's key is not that of its SVID
  (`sync.go:117-137`), against `workload.proto:9-11`, which promises each SVID "along with its private
  key".
- `precedence`: the agent ignores the error of `mergeConfigs`. With an option in the file that it
  cannot use, it runs without its flags, although they take precedence (`doc/spire_agent.md:8`). The
  property also fails for a flag that sets one of the log's file and level, which resets the other to
  its default, and for the server's switch `upstreamBundle`, which cannot be turned off by a flag
  (the TODO at the server's `run.go:224`).

More disagreements follow from the definitions, and have no run of their own:

- `prune` fetches the bundle, filters it and writes it back without a lock. A CA certificate that
  `storeCACert` appends in between is lost though not expired, against `ca/manager.go:195-196` ("Be
  gentle", "If expired < 24hrs ago, keep it."). This is why `SignerIsPublished` and `ServingCAFound`
  have an exception for `overwritten`.
- Deleting an entry leaves its selector rows. `ListMatchingEntries` then fails for every list these
  rows match, instead of leaving the entry out (`sql.go:971-973`).
- An agent receives entries that share one selector with its node, also when the node lacks the
  others (`node/handler.go:195`, against `doc/spire_server.md:83`).
- `entry show` with one selector shows the entries with exactly this selector, and with two none at
  all, since `ListBySelector` is exact and the two answers are then filtered by both. The comments at
  `show.go:95-96` and 175-176 want "all registration entries containing the full set of configured
  selectors", and `TestRunWithSelectors` (`show_test.go:105-125`), whose client is a mock, expects to
  see an entry. `ShowIsExact` asks for completeness only if there is another flag.
- `ListSelectorEntries` compares lengths, so that for a selector given twice it returns entries with
  this selector and another. `SelectorListIsExact` is about lists without repetitions; the one caller
  sends a single selector.
- A client with `FailOnError` redials when it cannot open the stream (`x509_client.go:22`, against
  `x509_stream.go:57-64`). A response that is replaced before it is delivered, and then comes back,
  is delivered twice in a row, although the handler is to dedupe (`x509_handler.go:10`, against 68-91).
- `Shutdown` of the server's endpoints does not wait for them, so that requests may meet plugins that
  have been stopped (`endpoints.go:68`, against 69-72 and `server.go:130-148`).
- Two concurrent `CreateEntry` calls may both find their equal entries unique and create them twice;
  `ExistingEntryIsRefused` states what remains true. `AppendBundle` after `DeleteBundle` fails on the
  unique index of the dead row.

## What else the models show

These are consequences of the code; we know of no document that they contradict.

- *Agent.* A cached entry that was deleted on the server makes the renewal of its SVID fail, and
  with it the whole `synchronize`. The same holds of an entry whose parent has no client. An alias
  that is its own parent makes the recursion endless (`AliasesAcyclic` excludes it, and longer
  cycles). After a rotation the synchronizer's client reconnects with its old SVID. `setBundle`
  stores the bundle that was current before, so that the file lags behind by one update. When the
  answer of a rotation is lost, the server refuses every later rotation of the agent.
- *Agent process.* The error of `validateConfig` is ignored. A SIGTERM before `a.Endpoints` is
  assigned leaves `Run` waiting (`agent.go:107`, 182-200). After a failed attestation plugin
  processes are left.
- *Server process.* The error of `validateConfig` is ignored. A signal before `Run` has made its tomb
  meets a nil pointer, and a tick after the catalog was stopped meets an empty list of CAs.
- *Plugins.* A stopped catalog keeps its plugins, so that a second `Run` is refused. A failed trace
  leaves its temporary file. The k8s plugin does not wait for a pod that is not listed yet when all
  others are ready.
- *Commands.* `entry create` with a file that is no JSON reports success and creates nothing. Two
  `entry delete` commands can both report success. `token generate` that fails
  to make the vanity record leaves its token. `entry create` stops at the first refusal. Overlapping
  `api fetch -write` commands, and a failed write, leave files of different fetches; files of an
  earlier fetch with more SVIDs stay. `FilesMatch` states what remains true.

## The proofs

TLAPS checks these for every value of the constants. The eight modules with proofs extend the module
they are about; the assumptions are named there and evaluated by TLC for every instance. TLC checked
the inductive invariants on the instances of the runs before they were proved. A leaf that is
first-order reasoning only names Zenon, which finds it faster than the SMT solver.

**`AgentCacheProofs`**: `TypeCorrect`, `NoUpdateIsMissed` (`NoMissedUpdate`),
`HandlerNeverReadsNil` (`NeverReadsDrainedChannel`) and the action property `UpdatesNeverGoBack`
(`UpdatesMoveForward`), from the assumptions that threads are distinct and that every entry has a
selector. `NoMissedUpdate` speaks of moments when nobody notifies, and is
not inductive. The invariant `IInv` says for *every* state why an active subscriber will be up to
date: its latest update has the current entries, or a snapshot of them is on its way
(`LatestEntries`); and a snapshot on its way is current, or another notification that will take a
later one is pending (`SnapshotEntries`); the same for the bundle. `ChannelInv` adds that active
subscribers are registered, and that a replaced channel still buffers an update while the handler
holds it. `MutexInv` makes the mutex exclusive, so that a pending notification really comes later.
The order of updates needs `OrderInv` besides: every update that was sent is behind the cache and
behind the snapshots that a notifying goroutine holds (`Passed`), so the next one sent, composed from
such a snapshot, is ahead of them all; and the update a handler received last, the one in a replaced
channel it still holds and the one in the current channel are in this order (`QueueInv`).

**`AgentSyncProofs`**: `TypeCorrect`, `RotatorStaysCurrent` (`RotatorIsCurrent`) and the action
properties `RenewalIsComplete` (`SyncRenews`) and `SearchIsComplete` (`SyncIsComplete`), from
`SyncAssumption`: ids and times are what they are called, the agent, the server and the rotator's
client have different names, and no alias is, through others, its own parent. The pool is the
difficulty of the second: two names share one client, and closing, reopening and replacing it by one
goroutine must leave what the other finds there right (`PoolOK`). For the last, the invariant
`Explores` says of a running `synchronize` that there is a set of entries, cached or still to be
looked at, with all that the agent and every alias of the set that was asked for already are listed
(of what was registered throughout); when nothing is pending, this set covers what was registered,
and `Found`, the least set that does, lies within.

**`CAManagerProofs`**, about `CAManager`: `TypeCorrect`, `SigningKeyIsCertified`
(`SigningKeyMatches`) and `SignerWasPublished` (`SignerIsPublished`), from the assumptions that
durations and bounds are natural numbers and the prune interval is not zero. `KeyInv` relates the key
variables of the CA plugin to the rotator's position; `PublishedInv` follows a certificate from its
publication through `issued`, `nextCACert` and `cert`, and says of a running prune that what it will
drop of what it read has been expired for the grace period. Nothing is assumed of the time that calls
take. About `ServerSVID`, whose steps are steps of `CAManager` (`TimedStep`) with its timing
assumption:

- `CAsArePublishedAhead` (the action property `PublishedAheadOfUse`). `RotationInv`: a tick that is
  pending or being dealt with is later than the one in which the next CA was issued.
- `ServedChainsAreRecent` (`ServedChainIsRecent`), for all ttls. `LifeInv`: until it is replaced, a CA
  has a sixth of its life left, less a tick for every failed call of the CA manager so far and for the
  tick being dealt with; with a successor this may be a tick less, and the successor is then as new as
  the failures allow. So every SVID is signed by a CA with that much left (`SignerHasLife`).
  `SoundInv` says of every SVID in use that no tick in its second half passed without a failed
  rotation; `StreamInv`, that the endpoints' stream leads from the SVID they serve to the rotator's.
- `ServingCAsAreFound` (`ServingCAFound`), likewise. `HandshakeInv`: between its two reads a
  handshake has the CA of every SVID it may come to read, including one that a CA activated in this
  very tick signs; this is where `RotationInv`'s argument is needed again.

**`RegistrationProofs`**. About `DataStoreCalls`: `TablesTypeCorrect` (`TablesOK`),
`MatchingFindsSupersets` (`MatchingIsSuperset`), `SelectorListsAreExact` (`SelectorListIsExact`) and
the action property `DeletionIsFinal` (`DeletedStaysDeleted`), from the assumptions that there is a
SPIFFE ID and that times and serial numbers are natural numbers. The two about lists need of the
tables only that an entry has finitely many selectors (`TablesInv`); the rest is counting: a list
refers to an entry as often as it is long just if all its members do. About `RegistrationCLI` with
`Registration`: `ExistingEntriesAreRefused` (`ExistingEntryIsRefused`), `EntriesAreCreatedInOrder`
(`CreatedInOrder`) and `ShownEntriesAreExact` (`ShowIsExact`), from `CLIAssumption`, which gives
files, queries and lifetimes their types. The invariant `CLIInv` has a part for each running command
that mentions its own state and the tables only (`Good`): what a `CreateEntry` call found out
(`Refused`), what a command has seen of the tables (`Watched`), how far a file has been created
(`Creating`), and which lookups are still to be made, with what those already made have left
(`Showing`). A lemma on each kind of step of *another* command shows that it keeps them; it rests on
an entry saying the same for ever once it was created (`Keeps`).

**`IdentityProofs`**. About `X509Client`: `ClientTypeCorrect`, `UpdatesAreSignalled`
(`NoUpdateIsLost`) and `ClientImplementation`: the client implements the safety part of
`LatestUpdate`. `HandlerInv` says of the handler's channel and position why a response that was not
delivered yet is signalled. That the last response is delivered in the end, the rest of
`LatestUpdate`, is checked by `attestation` (`DeliversLatest`).

About `AWSAttestation`: `DocumentsAreUsedOnce` (`DocumentIsUsedOnce`) and
`ReplacedRootsAreRefused`; about `WorkloadAttestation`: `SelectorsAreOfWholePlugins`
(`AttestedSelectors`). The first rests on the fact that an SVID was granted only with a new row, the
one of the document's own instance (`OneSVIDPerRow`), whatever `isAttested` said before; the second on
the fact that no device has been attached in the future (`RootsArePast`), so that a root that was too
new stays too new. Of a workload's goroutines the invariant `Right` says what a plugin's response has
at each point of it, also between its two reads, and that what was collected is of whole plugins.

**`NodeAPIProofs`**: `TokensAreSingleUse` (`TokenIsSingleUse`) and `OnlyRegisteredAreSigned`
(`SignsOnlyRegistered`), from the assumptions `NodeAssumption` on ids, in particular that
`attestToken` derives different ids from different tokens. A failed `DeleteToken` is ignored, hence
tokens do not guarantee the first: `TokenInv` says that the calls of a token that are past
`createAttestationEntry`, or answered, have the row of the token's agent, which is made once. For the
second, `SignInv` says of a stream with a request that the entries it has collected, and those it can
still find, are of ids that were registered at the request or later. It needs that lists have live
entries only, that an entry keeps its SPIFFE ID when deleted, and that `Recv` starts without entries.

**`HeldProofs`**: `HeldSerialsAreStored` (`HeldSerialIsStored`), from the same assumptions. The row
gets the serial number in one step, the call answers in a later one, and calls of other agents, of
the same agent and of a restarted one come between. The property says nothing of the steps between,
so it is not inductive. `HeldInv` adds, for every call in flight (`Fits`): an attestation or a
renewal that has stored its serial number finds it in the row until it answers, unless the agent is
adrift; an agent awaits one renewal at most, and holds an SVID while it does; an agent that attests
with a plugin holds none, and has one such call. `Covered` says of each agent that the row has the
serial number it holds, or that of the renewal it awaits. A join token's agent may be attested by
several calls: `TokenInv` and `HoldersGranted` show that a late one does not make the row again.
`Published` is needed because a renewal could otherwise fail at `getBundle`, after its row was
updated.

**`ProcessesProofs`**: `ExitsAreClean` (`CleanExit`), `ErrorsAreReported` (`ErrorIsReported`) and
`FilesBelongTogether` (`FilesMatch`), from `ProcessAssumption`: files and flags give each option a
value, and the bounds are natural numbers. The exit code says nothing of the parts by itself: it is
the reason of a tomb whose goroutines have all returned. So `AgentInv` and `ServerInv` say what each
goroutine of the tomb stands for. As long as `supervise` (in the server, `caWait`) has not returned,
the manager may live; once it has, the manager is dead. As long as `startEndpoints` waits (in the
server, as long as `listen` is there), the endpoints may live; once it has returned, they are dead,
and if they died of an error then so did the tomb. `run` is live until it returns, and returns nil
only with the plugins stopped; the profiler's temporary files are gone once its goroutine has
returned (`ProfInv`). `FetchInv` says of the one command that is writing which of the files under
each number are already of its response.

**Only model-checked**: out of the prover's reach are liveness (`StreamsCatchUp`,
`FinishedIsReclaimed`, `EntriesArrive`, `SyncReturnsEventually`, `DeliversLatest` beyond its safety
part, `LatestArrives`, `StopEnds`, `AlwaysEnds`, `AttestReturns`) and what recursive definitions
compute (`powerSet` and `remove` of `SelectorSets`, so `GetFindsAllConcerned` and `SetAlgebra`).
Left to TLC is the full `TypeOK` of `NodeAPI`; the proofs use and establish the part of it that they
need (`ShapeInv`).

## What is not modelled

- Cryptography, certificate parsing and validation; keys and certificates are abstract, and a
  document or token is genuine or not.
- Generated code and the code that forwards calls to plugins over gRPC, two fifths of the lines of the
  repository. It has no state of its own.
- Logging, but for what `NewLogger` makes of its options, telemetry, and the authentication of the
  Workload API's callers, which is a system call.
- `Configure` of the plugins, except that it can fail; loading the UpstreamCA's files; the memory CA's
  self-signed mode.
- The join token plugins of agent and server, which nothing calls: the node API and the attestor
  treat join tokens themselves. `Catalog.Reload`, which nothing calls.
- The data store's `FetchStaleNodeEntries`, the order of returned lists, and reconnecting.
- In `AgentSync`: failures of writes at the start, and of the server's `updateAttestationEntry`
  (which is in `NodeAPI`).
