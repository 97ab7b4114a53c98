------------------------------- MODULE AgentSync -------------------------------
(***************************************************************************)
(* The agent between the server and its cache: node attestation at start   *)
(* (pkg/agent/attestor/node), the key managers, the manager's synchronizer *)
(* and rotator (pkg/agent/manager), its pool of clients, and what it keeps *)
(* on disk, with crashes and restarts of the agent.                        *)
(*                                                                         *)
(* The server is the environment, reduced to what its answers depend on:   *)
(* the registered entries, the published bundle, the CA its own SVID comes *)
(* from and the serial number it has for the agent.  NodeAPI and CAManager *)
(* model the server itself.                                                *)
(*                                                                         *)
(* Every remote call is one step.  Between two calls of one synchronize    *)
(* anything may happen: registrations change, the rotator runs, time       *)
(* passes, connections break, the agent crashes.                           *)
(***************************************************************************)
EXTENDS Integers, FiniteSets

CONSTANTS
  Entries,       \* registration entries
  Base,          \* the agent's own SPIFFE ID, m.spiffeID
  ServerID,      \* m.serverSPIFFEID, the pool's second name for the first client
  Ids,           \* the other SPIFFE IDs
  IdOf,          \* [Entries -> Ids]
  ParentOf,      \* [Entries -> Ids \cup {Base, ServerID}]
  Resolved,      \* entries the server finds by the selectors of the agent's node
  Aliases,       \* entries isAgentAlias is true of
  Registered0,   \* sets of entries that may be registered at first
  Life,          \* lifetime of an SVID
  MaxTime, MaxSerial, MaxBundle, MaxBoots, MaxEvents

Rotator == "_rotator_"

Callers  == {Base, ServerID} \cup Ids
PoolKeys == Callers \cup {Rotator}

\* The entries the server lists for the SVID that the client named x presents:
\* fetchRegistrationEntries of NodeAPI.
Visible(x) ==
  LET caller == IF x = ServerID THEN Base ELSE x IN
  {e \in Entries : ParentOf[e] = caller} \cup (IF caller = Base THEN Resolved ELSE {})

\* Aliases form no cycle: a measure decreases from each alias to the aliases it lists.
\* Without it checkForNewCacheEntries, which keeps no record of where it has been, does
\* not return.
AliasesAcyclic ==
  \E rank \in [Aliases -> 0..Cardinality(Aliases)] :
     \A a \in Aliases : \A b \in Visible(IdOf[a]) \cap Aliases : rank[b] < rank[a]

ASSUME SyncAssumption ==
  /\ Base # ServerID /\ Rotator \notin {Base, ServerID}
  /\ {Base, ServerID, Rotator} \cap Ids = {}
  /\ IdOf \in [Entries -> Ids]
  /\ ParentOf \in [Entries -> Ids \cup {Base, ServerID}]
  /\ Resolved \subseteq Entries /\ Aliases \subseteq Entries
  /\ \A e \in Entries : ParentOf[e] = ServerID => e \in Aliases
  /\ AliasesAcyclic
  /\ Registered0 \subseteq SUBSET Entries
  /\ Life \in Nat \ {0}
  /\ {MaxTime, MaxSerial, MaxBundle, MaxBoots, MaxEvents} \subseteq Nat

VARIABLES
  now,
  server,   \* [registered, bundle, signer, serial]
  disk,     \* [svid, key, bundle]: agent_svid.der, the key manager's key, bundle.der
  proc,     \* the phase of the agent's process
  base,     \* m.svid with its key
  bundle,   \* m.cache.Bundle()
  cache,    \* m.cache
  pool,     \* m.syncClients
  sync,     \* the state of synchronize
  lost,     \* history: the server signed an SVID that the agent no longer has
  boots,    \* how often the agent may still be started
  events    \* how many faults and changes of the server may still happen

vars == <<now, server, disk, proc, base, bundle, cache, pool, sync, lost, boots, events>>

\* A serial number also stands for the private key the SVID was made for.
SVIDs  == [serial: 0..MaxSerial, born: 0..MaxTime]
NoSVID == [serial |-> 0, born |-> 0]

\* A cached entry: the birth of its SVID, and whether that SVID is for the entry's own key.
Cached    == [born: 0..MaxTime, own: BOOLEAN]
NotCached == [born |-> -1, own |-> FALSE]

\* A client: is conn set, is its transport up, the SVID it presents, does it hold the key of
\* that SVID, the bundle it trusts.  The pool's ServerID is Shared while it holds the client
\* that Base holds.
Clients  == [open: BOOLEAN, up: BOOLEAN, svid: SVIDs, keyed: BOOLEAN, roots: 0..MaxBundle]
NoClient == [open |-> FALSE]
Shared   == [open |-> TRUE]

\* A synchronize: where it is, under which name, the entries it still has to look at, those
\* it made a CSR for, the aliases to synchronize; and, as history, when it began and the
\* entries that were registered ever since.
SyncIdle == [pc |-> "idle", id |-> Base, todo |-> {}, reqs |-> {}, aliases |-> {},
             began |-> 0, stable |-> {}]
SyncBegins == [SyncIdle EXCEPT !.pc = "list", !.began = now, !.stable = server.registered]

\* The state of the agent and of the server has its type.
TypeOK ==
  /\ now \in 0..MaxTime
  /\ server \in [registered: SUBSET Entries, bundle: 0..MaxBundle, signer: 0..MaxBundle,
                 serial: 0..MaxSerial]
  /\ disk \in [svid: SVIDs, key: 0..MaxSerial + 1, bundle: -1..MaxBundle]
  /\ proc \in {"down", "attest", "start", "running"}
  /\ base \in [svid: SVIDs, key: 0..MaxSerial + 1]
  /\ bundle \in 0..MaxBundle
  /\ cache \in [Entries -> Cached \cup {NotCached}]
  /\ pool \in [PoolKeys -> Clients \cup {NoClient, Shared}]
  /\ sync \in [pc: {"idle", "list", "check", "process"}, id: Callers,
               todo: SUBSET Entries, reqs: SUBSET Entries, aliases: SUBSET Aliases,
               began: 0..MaxTime, stable: SUBSET Entries]
  /\ lost \in BOOLEAN
  /\ boots \in 0..MaxBoots
  /\ events \in 0..MaxEvents

IsCached(e)   == cache[e] # NotCached
Aged(born)    == 2 * (born + Life - now) < Life      \* less than half of its life is left
Expired(born) == now > born + Life

Init ==
  /\ now = 0
  /\ \E R \in Registered0 :
       server = [registered |-> R, bundle |-> 0, signer |-> 0, serial |-> 0]
  /\ disk = [svid |-> NoSVID, key |-> 0, bundle |-> -1]
  /\ proc = "down"
  /\ base = [svid |-> NoSVID, key |-> 0]
  /\ bundle = 0
  /\ cache = [e \in Entries |-> NotCached]
  /\ pool = [k \in PoolKeys |-> NoClient]
  /\ sync = SyncIdle
  /\ lost = FALSE
  /\ boots = MaxBoots
  /\ events = MaxEvents

(***************************************************************************)
(* The server and the network.                                             *)
(***************************************************************************)
Agent == <<disk, proc, base, bundle, cache, pool, sync, boots>>

Tick ==
  /\ now < MaxTime
  /\ now' = now + 1
  /\ UNCHANGED <<server, lost, events>> /\ UNCHANGED Agent

Event == events > 0 /\ events' = events - 1

Register(e) ==
  /\ e \notin server.registered
  /\ server' = [server EXCEPT !.registered = @ \cup {e}]
  /\ UNCHANGED <<now, lost, events>> /\ UNCHANGED Agent

Delete(e) ==
  /\ e \in server.registered /\ Event
  /\ server' = [server EXCEPT !.registered = @ \ {e}]
  /\ sync' = [sync EXCEPT !.stable = @ \ {e}]
  /\ UNCHANGED <<now, lost, disk, proc, base, bundle, cache, pool, boots>>

\* The server publishes the next CA certificate, and later presents an SVID of that CA:
\* PublishedAheadOfUse of ServerSVID.
Publish ==
  /\ server.bundle < MaxBundle /\ Event
  /\ server' = [server EXCEPT !.bundle = @ + 1]
  /\ UNCHANGED <<now, lost>> /\ UNCHANGED Agent

Activate ==
  /\ server.signer < server.bundle
  /\ server' = [server EXCEPT !.signer = @ + 1]
  /\ UNCHANGED <<now, lost, events>> /\ UNCHANGED Agent

\* Every connection of the agent breaks.
Disconnect ==
  /\ \E k \in PoolKeys : pool[k] \in Clients /\ pool[k].up
  /\ Event
  /\ pool' = [k \in PoolKeys |-> IF pool[k] \in Clients THEN [pool[k] EXCEPT !.up = FALSE]
                                                        ELSE pool[k]]
  /\ UNCHANGED <<now, server, boots, disk, proc, base, bundle, cache, sync, lost>>

(***************************************************************************)
(* The pool of clients (comm.go).                                          *)
(***************************************************************************)
\* newClient: gRPC dials in the background, so that a client starts without a transport and
\* keeps the roots of this moment for all its handshakes.
NewClient(svid, keyed, roots) ==
  [open |-> TRUE, up |-> FALSE, svid |-> svid, keyed |-> keyed, roots |-> roots]

Holder(p, x) == IF p[x] = Shared THEN Base ELSE x

\* ensureSyncClient: a closed client is replaced, under this one name, by a client with the
\* SVID the closed one had.
EnsureSyncClient(x) ==
  LET c == pool[Holder(pool, x)] IN
  IF c.open THEN pool
  ELSE [pool EXCEPT ![ServerID] = IF x = Base /\ @ = Shared THEN c ELSE @,
                    ![x] = NewClient(c.svid, c.keyed, bundle)]

\* ensureRotationClient: a closed client is replaced by one with the manager's SVID.
EnsureRotationClient ==
  IF pool[Rotator].open THEN pool
  ELSE [pool EXCEPT ![Rotator] = NewClient(base.svid, base.key = base.svid.serial, bundle)]

\* A handshake needs an unexpired SVID, its key, and roots that verify the server.
Reaches(c) ==
  c.up \/ (c.keyed /\ ~Expired(c.svid.born) /\ server.signer <= c.roots)

\* The pool after a call through x, and after FetchSVID gave no stream: client.close.
Used(p, x)   == [p EXCEPT ![Holder(p, x)].up = TRUE]
Closed(p, x) == [p EXCEPT ![Holder(p, x)].up = FALSE, ![Holder(p, x)].open = FALSE]

(***************************************************************************)
(* Attestation (node.go), and what starts and ends the agent's process.    *)
(***************************************************************************)
\* manager.New and the first lines of Start, for an SVID, its key and a bundle: the bundle and
\* the SVID are stored, both clients are made, and the first synchronize begins.
StartManager(svid, key, b) ==
  LET client == NewClient(svid, key = svid.serial, b) IN
  /\ proc' = "start"
  /\ base' = [svid |-> svid, key |-> key]
  /\ bundle' = b
  /\ pool' = [k \in PoolKeys |-> CASE k \in {Base, Rotator} -> client
                                   [] k = ServerID -> Shared
                                   [] OTHER -> NoClient]
  /\ disk' = [svid |-> svid, key |-> key, bundle |-> b]
  /\ sync' = SyncBegins
  /\ lost' = (svid.serial # server'.serial)
  /\ UNCHANGED <<now, cache>>

\* Buggy: a missing file is not told from a stored bundle.
LoadBundleUnchecked == disk.bundle

\* The bundle to start with: the stored one, or the one of the configuration.
LoadBundle == IF disk.bundle = -1 THEN 0 ELSE disk.bundle

\* Attest up to the call of the server.  loadSVID takes the stored SVID and key if there are
\* both; otherwise GenerateKeyPair replaces the key of the key manager.
Boot ==
  /\ proc = "down" /\ boots > 0
  /\ boots' = boots - 1 /\ UNCHANGED events
  /\ UNCHANGED server
  /\ IF disk.key # 0 /\ disk.svid # NoSVID
       THEN StartManager(disk.svid, disk.key, LoadBundle)
       ELSE /\ proc' = "attest"
            /\ disk' = [disk EXCEPT !.key = server.serial + 1]
            /\ bundle' = LoadBundle
            /\ UNCHANGED <<now, base, cache, pool, sync, lost>>

\* What FetchPrivateKey of the key manager plugins finds when the process starts anew.
DiskKey   == disk.key
MemoryKey == 0

\* The process ends; only the disk keeps anything.
Exit ==
  /\ proc' = "down"
  /\ base' = [svid |-> NoSVID, key |-> 0]
  /\ bundle' = 0
  /\ cache' = [e \in Entries |-> NotCached]
  /\ pool' = [k \in PoolKeys |-> NoClient]
  /\ sync' = SyncIdle
  /\ \E key \in {DiskKey, MemoryKey} : disk' = [disk EXCEPT !.key = key]
  /\ UNCHANGED <<now, server, boots, lost>>

\* newSVID: the server signs for the new key, and its answer brings the bundle.
Attest ==
  /\ proc = "attest" /\ server.signer <= bundle /\ server.serial < MaxSerial
  /\ server' = [server EXCEPT !.serial = @ + 1]
  /\ StartManager([serial |-> server'.serial, born |-> now], disk.key, server.bundle)
  /\ UNCHANGED <<boots, events>>

\* newSVID fails: the stored bundle does not verify the server, the server refuses a node that
\* attested before, or the call is lost.  Run returns the error.
AttestFails ==
  /\ proc = "attest"
  /\ \/ (server.signer > bundle \/ server.serial > 0) /\ UNCHANGED events
     \/ Event
  /\ Exit

\* The process is killed, or shuts down: both leave the same behind.
Crash ==
  /\ proc # "down" /\ boots > 0
  /\ Exit /\ UNCHANGED events

(***************************************************************************)
(* synchronize (sync.go).  reqs are the entries a CSR was made for; they   *)
(* are sent grouped by ParentId.                                           *)
(***************************************************************************)
\* The tick of the synchronizer.
SyncTick ==
  /\ proc = "running" /\ sync.pc = "idle"
  /\ sync' = SyncBegins
  /\ UNCHANGED <<now, lost, server, boots, disk, proc, base, bundle, cache, pool, events>>

\* The disk, and the remaining events, after d was written, or the write failed.
Written(d) == {<<d, events>>} \cup {w \in {<<disk, events - 1>>} : events > 0}

\* What fetchUpdates does with a complete answer that came through x: setBundle stores the
\* bundle in use, then replaces it.  The write may fail.
Received(x) ==
  /\ pool' = Used(EnsureSyncClient(x), x)
  /\ bundle' = server.bundle
  /\ \E w \in IF server.bundle = bundle THEN {<<disk, events>>}
                                        ELSE Written([disk EXCEPT !.bundle = bundle]) :
       disk' = w[1] /\ events' = w[2]

HasClient(x) == pool[Holder(pool, x)] # NoClient

\* A call under the name x reaches the server, unless the network fails.
CanCall(x) ==
  /\ HasClient(x)
  /\ LET p == EnsureSyncClient(x) IN Reaches(p[Holder(p, x)])

Listed(x) == Visible(x) \cap server.registered

\* Buggy: SVIDs are renewed only once they are expired.
ExpiredEntriesLate == {e \in Entries : IsCached(e) /\ Expired(cache[e].born)}

\* checkExpiredCacheEntries: the cached entries to renew.
ExpiredEntries == {e \in Entries : IsCached(e) /\ Aged(cache[e].born)}

\* synchronize up to checkExpiredCacheEntries.
List ==
  /\ sync.pc = "list" /\ CanCall(sync.id)
  /\ Received(sync.id)
  /\ sync' = [sync EXCEPT !.pc = "check", !.todo = Listed(sync.id),
                          !.reqs = ExpiredEntries]
  /\ UNCHANGED <<now, server, lost, boots, proc, base, cache>>

\* Buggy: an alias that is cached is taken for done.
CachedAliasesSkipped == {}

CachedAliases == {e \in sync.todo : IsCached(e) /\ e \in Aliases}

\* Buggy: an alias that was looked at is looked at again.
CheckAliasAgain ==
  /\ sync.pc = "check"
  /\ \E a \in CachedAliases :
       /\ CanCall(IdOf[a])
       /\ Received(IdOf[a])
       /\ sync' = [sync EXCEPT !.todo = @ \cup Listed(IdOf[a])]
  /\ UNCHANGED <<now, server, lost, boots, proc, base, cache>>

\* checkForNewCacheEntries: what is not cached is requested, and each cached alias is asked
\* for the entries it stands for, with a call of its own.
CheckAlias ==
  /\ sync.pc = "check"
  /\ \E a \in CachedAliases :
       /\ CanCall(IdOf[a])
       /\ Received(IdOf[a])
       /\ sync' = [sync EXCEPT !.todo = (@ \ {a}) \cup Listed(IdOf[a])]
  /\ UNCHANGED <<now, server, lost, boots, proc, base, cache>>

CheckNew ==
  /\ sync.pc = "check" /\ CachedAliases = {}
  /\ sync' = [sync EXCEPT !.pc = "process", !.todo = {},
                          !.reqs = @ \cup {e \in sync.todo : ~IsCached(e)}]
  /\ UNCHANGED <<now, server, boots, disk, proc, base, bundle, cache, pool, lost, events>>

RequestsFor(x) == {e \in sync.reqs : ParentOf[e] = x}

\* signCSRs of the server: one CSR without an entry fails the call.
Entitled(x) == {IdOf[e] : e \in RequestsFor(x)} \subseteq {IdOf[e] : e \in Listed(x)}

\* The entry as updateEntriesSVIDs caches it, when the CSRs of the entries in signed were
\* signed last.
UpdatedEntry(e, signed) == [born |-> now, own |-> e \in signed]

\* processEntryRequests for one parent.  The answer has one SVID per SPIFFE ID: of the CSRs
\* for one id, the one signed last.  updateEntriesSVIDs gives it to every entry with the id.
Process ==
  /\ sync.pc = "process"
  /\ \E x \in {ParentOf[e] : e \in sync.reqs} :
       /\ CanCall(x) /\ Entitled(x)
       /\ Received(x)
       /\ \E signed \in SUBSET RequestsFor(x) :
            /\ {IdOf[e] : e \in signed} = {IdOf[e] : e \in RequestsFor(x)}
            /\ \A d, e \in signed : IdOf[d] = IdOf[e] => d = e
            /\ cache' = [e \in Entries |->
                           IF e \in RequestsFor(x) THEN UpdatedEntry(e, signed) ELSE cache[e]]
       /\ sync' = [sync EXCEPT !.reqs = @ \ RequestsFor(x),
                               !.aliases = @ \cup (RequestsFor(x) \cap Aliases)]
  /\ UNCHANGED <<now, server, lost, boots, proc, base>>

\* For each alias that got an SVID: a new client, which replaces and closes the one of that
\* name, and a synchronize of its own.
SyncAlias ==
  /\ sync.pc = "process" /\ sync.reqs = {}
  /\ \E a \in sync.aliases :
       /\ pool' = [pool EXCEPT ![IdOf[a]] =
            NewClient([serial |-> 0, born |-> cache[a].born], cache[a].own, bundle)]
       /\ sync' = [sync EXCEPT !.pc = "list", !.id = IdOf[a], !.aliases = @ \ {a}]
  /\ UNCHANGED <<now, server, boots, disk, proc, base, bundle, cache, lost, events>>

\* synchronize returns nil.  The first time, the manager starts its goroutines.
SyncDone ==
  /\ sync.pc = "process" /\ sync.reqs = {} /\ sync.aliases = {}
  /\ sync' = SyncIdle
  /\ proc' = "running"
  /\ UNCHANGED <<now, lost, server, boots, disk, base, bundle, cache, pool, events>>

\* The names the next call of synchronize can go to.
Targets ==
  CASE sync.pc = "list"    -> {sync.id}
    [] sync.pc = "check"   -> {IdOf[a] : a \in CachedAliases}
    [] sync.pc = "process" -> {ParentOf[e] : e \in sync.reqs}
    [] OTHER -> {}

\* Buggy: an error ends the synchronizer's loop.
SyncReturnsForGood(p) ==
  \/ proc = "start" /\ Exit
  \/ /\ proc = "running"
     /\ sync' = [SyncIdle EXCEPT !.pc = "ended"] /\ pool' = p
     /\ UNCHANGED <<now, server, boots, disk, proc, base, bundle, cache, lost>>

\* synchronize returns an error: the synchronizer waits for its next tick; Start returns the
\* error, and the agent's process ends.
SyncReturns(p) ==
  \/ proc = "start" /\ Exit
  \/ /\ proc = "running"
     /\ sync' = SyncIdle /\ pool' = p
     /\ UNCHANGED <<now, server, boots, disk, proc, base, bundle, cache, lost>>

\* The pool and the remaining events after a call under the name x failed: there was no
\* client, no handshake, no stream, no answer, or no entry for a CSR.
Failed(x) ==
  LET p == EnsureSyncClient(x) IN
  CASE ~HasClient(x) -> {<<pool, events>>}
    [] HasClient(x) /\ ~CanCall(x) -> {<<Closed(p, x), events>>}
    [] OTHER -> {f \in {Used(p, x), Closed(p, x)} \X {events - 1} : events > 0}
                \cup {f \in {<<Used(p, x), events>>} : sync.pc = "process" /\ ~Entitled(x)}

\* A failed call ends synchronize.
SyncFails ==
  \E x \in Targets : \E f \in Failed(x) :
    /\ SyncReturns(f[1])
    /\ events' = f[2]

(***************************************************************************)
(* rotateSVID.                                                             *)
(***************************************************************************)
RotationClient == EnsureRotationClient[Rotator]

\* The server signs the CSR of an agent whose serial number it knows.
CanRotate ==
  /\ proc = "running" /\ Aged(base.svid.born)
  /\ Reaches(RotationClient) /\ RotationClient.svid.serial = server.serial
  /\ server.serial < MaxSerial

\* Buggy: the client of the old SVID stays open.
RotateKeepsClient ==
  /\ CanRotate
  /\ server' = [server EXCEPT !.serial = @ + 1]
  /\ base' = [svid |-> [serial |-> server'.serial, born |-> now], key |-> server'.serial]
  /\ pool' = Used(EnsureRotationClient, Rotator)
  /\ \E w \in Written([disk EXCEPT !.svid = base'.svid]) : disk' = w[1] /\ events' = w[2]
  /\ UNCHANGED <<now, boots, proc, bundle, cache, sync, lost>>

\* The new SVID and key replace the old ones, the client of the old SVID is closed, and the
\* SVID is stored; the key is not.  The write may fail.
Rotate ==
  /\ CanRotate
  /\ server' = [server EXCEPT !.serial = @ + 1]
  /\ base' = [svid |-> [serial |-> server'.serial, born |-> now], key |-> server'.serial]
  /\ pool' = Closed(EnsureRotationClient, Rotator)
  /\ \E w \in Written([disk EXCEPT !.svid = base'.svid]) : disk' = w[1] /\ events' = w[2]
  /\ UNCHANGED <<now, boots, proc, bundle, cache, sync, lost>>

\* The server's answer is lost.
RotateLost ==
  /\ CanRotate
  /\ Event
  /\ server' = [server EXCEPT !.serial = @ + 1]
  /\ pool' = Used(EnsureRotationClient, Rotator)
  /\ lost' = TRUE
  /\ UNCHANGED <<now, boots, disk, proc, base, bundle, cache, sync>>

\* No stream, or a refusal.
RotateFails ==
  /\ proc = "running" /\ Aged(base.svid.born)
  /\ \/ /\ ~Reaches(RotationClient)
        /\ pool' = Closed(EnsureRotationClient, Rotator) /\ UNCHANGED events
     \/ /\ Reaches(RotationClient) /\ RotationClient.svid.serial # server.serial
        /\ pool' = Used(EnsureRotationClient, Rotator) /\ UNCHANGED events
     \/ /\ Event
        /\ pool' = Closed(EnsureRotationClient, Rotator)
  /\ UNCHANGED <<now, server, boots, disk, proc, base, bundle, cache, sync, lost>>

Synchronize ==
  SyncTick \/ List \/ CheckAlias \/ CheckNew \/ Process \/ SyncAlias \/ SyncDone \/ SyncFails

Environment ==
  \/ Tick \/ Publish \/ Activate \/ Disconnect
  \/ \E e \in Entries : Register(e) \/ Delete(e)

Next ==
  \/ Environment
  \/ Boot \/ Attest \/ AttestFails \/ Crash
  \/ Synchronize
  \/ Rotate \/ RotateLost \/ RotateFails

Spec == Init /\ [][Next]_vars

\* The synchronizer's goroutine runs, and its ticker keeps ticking.  fetchUpdates has no
\* deadline: that each call is answered or fails is a promise of the server and the network.
LiveSpec == Spec /\ WF_vars(Synchronize)

(***************************************************************************)
(* Properties.                                                             *)
(***************************************************************************)
\* entryRequests: each request is "processed using the SVID and PrivateKey created for it".  An
\* SVID in the cache is for the private key cached beside it.  (Of two entries with one SPIFFE
\* ID and one parent, updateEntriesSVIDs cannot tell whose CSR the SVID it got was made for.)
OwnKey == \A e \in Entries : IsCached(e) => cache[e].own

\* The rotator never calls with an SVID that a rotation replaced: its client, when open, has
\* the manager's SVID, and the server knows that SVID's serial number unless an answer of the
\* server or a write of the SVID was lost.
RotatorIsCurrent ==
  proc = "running" =>
    /\ pool[Rotator].open => pool[Rotator].svid = base.svid
    /\ base.svid.serial # server.serial => lost

\* The key manager "disk": "If the agent is restarted, the key will be loaded from disk."  The
\* key an agent starts or goes on with is the key of its SVID.
KeyIsOfSVID == proc \in {"start", "running"} => base.key = base.svid.serial

\* V has all of R that is listed for the agent itself, or for an alias in V.
Covers(V, R) ==
  /\ Visible(Base) \cap R \subseteq V
  /\ \A a \in V \cap Aliases : Visible(IdOf[a]) \cap R \subseteq V

\* The entries among R that the agent can find: the least set that covers R.
Found(R) == {e \in R : \A V \in SUBSET R : Covers(V, R) => e \in V}

\* When synchronize succeeds, every entry that was registered all the while, for the agent or
\* for one of its aliases, is in the cache.
SyncIsComplete ==
  [][SyncDone => \A e \in Found(sync.stable) : IsCached(e)]_vars

\* When synchronize succeeds, no SVID in the cache, whatever parent it was requested for, was
\* past half of its life when synchronize began.
SyncRenews ==
  [][SyncDone => \A e \in Entries :
       IsCached(e) => 2 * (cache[e].born + Life - sync.began) >= Life]_vars

\* The server knows all that is cached, and every client can connect again.
Connectable ==
  /\ proc = "running"
  /\ \A e \in Entries : IsCached(e) => e \in server.registered
  /\ \A x \in Callers :
       LET c == pool[Holder(pool, x)] IN
       c = NoClient \/ c.up \/ (c.keyed /\ ~Expired(c.svid.born) /\ server.signer <= bundle)

\* synchronizer: "Just log the error to keep waiting for next sinchronization...".  Every entry
\* the agent can find is cached some time, if the agent can connect.
SyncRecovers ==
  \A e \in Entries :
    []<>(IsCached(e) \/ ~Connectable \/ e \notin Found(server.registered))

\* Each cached alias has the client that processEntryRequests makes after caching it.
AliasesHaveClients == \A a \in Aliases : IsCached(a) => pool[IdOf[a]] # NoClient

\* Every entry the agent can find is cached some time, if the agent can connect and no alias
\* is without a client.
EntriesArrive ==
  \A e \in Entries :
    []<>(IsCached(e) \/ ~(Connectable /\ AliasesHaveClients) \/ e \notin Found(server.registered))

\* synchronize returns, also with aliases of aliases to look through and to synchronize, and
\* while entries are registered and deleted, connections break and SVIDs expire; unless the
\* aliases list each other (AliasesAcyclic), or the server does not answer.
SyncReturnsEventually == []<>(sync.pc = "idle")
====
