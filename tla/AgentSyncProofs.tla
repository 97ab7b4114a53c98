---------------------------- MODULE AgentSyncProofs ----------------------------
(***************************************************************************)
(* The proofs about AgentSync: the rotator calls with the current SVID,    *)
(* and a synchronize that succeeds has fetched and renewed all that it had *)
(* to.                                                                     *)
(***************************************************************************)
EXTENDS AgentSync, TLAPS

(***************************************************************************)
(* The pool of clients.                                                    *)
(***************************************************************************)
\* Only the name of the server is Shared, and then the agent's name holds a client.
PoolOK(p) ==
  /\ p \in [PoolKeys -> Clients \cup {NoClient, Shared}]
  /\ \A k \in PoolKeys : p[k] = Shared => k = ServerID
  /\ p[ServerID] = Shared => p[Base] \in Clients

\* The names are keys of the pool; the rotator's name is none of the callers'.
LEMMA Names ==
  /\ Base \in Callers /\ ServerID \in Callers
  /\ Callers \subseteq PoolKeys /\ Rotator \in PoolKeys /\ Rotator \notin Callers
  /\ Base # Rotator /\ ServerID # Rotator /\ Base # ServerID
  /\ \A a \in Aliases : IdOf[a] \in Callers /\ IdOf[a] # Base /\ IdOf[a] # ServerID
  BY Zenon, SyncAssumption DEF Callers, PoolKeys

\* A client is neither of the two marks.
LEMMA Marks == \A c \in Clients : c # NoClient /\ c # Shared
<1> SUFFICES ASSUME NEW c \in Clients PROVE c # NoClient /\ c # Shared
  BY Zenon
<1>1. DOMAIN c = {"open", "up", "svid", "keyed", "roots"}
  BY Zenon DEF Clients
<1>2. DOMAIN NoClient = {"open"} /\ DOMAIN Shared = {"open"}
  BY Zenon DEF NoClient, Shared
<1> QED
  BY <1>1, <1>2

\* What newClient makes is an open client.
LEMMA NewClientIsClient ==
  ASSUME NEW svid \in SVIDs, NEW keyed \in BOOLEAN, NEW roots \in 0..MaxBundle
  PROVE  /\ NewClient(svid, keyed, roots) \in Clients
         /\ NewClient(svid, keyed, roots).open
         /\ NewClient(svid, keyed, roots).svid = svid
  BY Zenon DEF NewClient, Clients

\* Setting the marks of a client leaves a client with the same SVID.
LEMMA MarkedClient ==
  ASSUME NEW c \in Clients, NEW o \in BOOLEAN, NEW u \in BOOLEAN
  PROVE  /\ [c EXCEPT !.up = u] \in Clients
         /\ [[c EXCEPT !.up = u] EXCEPT !.open = o] \in Clients
         /\ [c EXCEPT !.up = u].svid = c.svid /\ [c EXCEPT !.up = u].open = c.open
         /\ [[c EXCEPT !.up = u] EXCEPT !.open = o].open = o
  BY ZenonT(60) DEF Clients

\* The name that holds the client for x.
LEMMA HolderKey ==
  ASSUME NEW p, PoolOK(p), NEW x \in PoolKeys
  PROVE  /\ Holder(p, x) \in PoolKeys /\ p[Holder(p, x)] # Shared
         /\ Holder(p, x) = Rotator <=> x = Rotator
  BY Zenon, Names, Marks DEF Holder, PoolOK

\* Replacing the client of a name that holds one.
LEMMA Replaced ==
  ASSUME NEW p, PoolOK(p), NEW k \in PoolKeys, p[k] # Shared, NEW c \in Clients
  PROVE  PoolOK([p EXCEPT ![k] = c])
<1> DEFINE q == [p EXCEPT ![k] = c]
<1>1. q \in [PoolKeys -> Clients \cup {NoClient, Shared}]
  BY Zenon DEF PoolOK
<1>2. \A j \in PoolKeys : q[j] = IF j = k THEN c ELSE p[j]
  BY Zenon DEF PoolOK
<1>3. c # Shared
  BY Zenon, Marks
<1> HIDE DEF q
<1>4. PoolOK(q)
  BY Zenon, <1>1, <1>2, <1>3, Names DEF PoolOK
<1> QED
  BY Zenon, <1>4 DEF q

\* A call through a client that x has leaves its SVID; client.close leaves a closed client;
\* and neither touches the client of another holder.
LEMMA UsedOrClosed ==
  ASSUME NEW p, PoolOK(p), NEW x \in PoolKeys, p[Holder(p, x)] \in Clients
  PROVE  /\ PoolOK(Used(p, x)) /\ PoolOK(Closed(p, x))
         /\ \A k \in PoolKeys \ {Holder(p, x)} : Used(p, x)[k] = p[k] /\ Closed(p, x)[k] = p[k]
         /\ Used(p, x)[Holder(p, x)] \in Clients /\ Closed(p, x)[Holder(p, x)] \in Clients
         /\ Used(p, x)[Holder(p, x)].svid = p[Holder(p, x)].svid
         /\ ~Closed(p, x)[Holder(p, x)].open
<1> DEFINE h == Holder(p, x)
           c == p[h]
           u == [c EXCEPT !.up = TRUE]
           d == [[c EXCEPT !.up = FALSE] EXCEPT !.open = FALSE]
<1>1. h \in PoolKeys /\ c \in Clients /\ c # Shared
  BY Zenon, HolderKey
<1>2. u \in Clients /\ d \in Clients /\ u.svid = c.svid /\ ~d.open
  BY Zenon, <1>1, MarkedClient
<1>3. Used(p, x) = [p EXCEPT ![h] = u]
  BY Zenon DEF Used
<1>4. Closed(p, x) = [p EXCEPT ![h] = d]
  BY Zenon, <1>1 DEF Closed, PoolOK
<1> HIDE DEF h, c, u, d
<1>5. PoolOK([p EXCEPT ![h] = u]) /\ PoolOK([p EXCEPT ![h] = d])
  BY Zenon, <1>1, <1>2, Replaced DEF c
<1>6. /\ [p EXCEPT ![h] = u][h] = u /\ [p EXCEPT ![h] = d][h] = d
      /\ \A k \in PoolKeys \ {h} : [p EXCEPT ![h] = u][k] = p[k] /\ [p EXCEPT ![h] = d][k] = p[k]
  BY Zenon, <1>1 DEF PoolOK
<1> QED
  BY Zenon, <1>2, <1>3, <1>4, <1>5, <1>6 DEF h, c

\* ensureSyncClient gives x a client, and does not touch the rotator's.
LEMMA Ensured ==
  ASSUME PoolOK(pool), NEW x \in Callers, HasClient(x), bundle \in 0..MaxBundle
  PROVE  /\ PoolOK(EnsureSyncClient(x))
         /\ EnsureSyncClient(x)[Holder(EnsureSyncClient(x), x)] \in Clients
         /\ EnsureSyncClient(x)[Rotator] = pool[Rotator]
<1> DEFINE c == pool[Holder(pool, x)]
           n == NewClient(c.svid, c.keyed, bundle)
           s == IF x = Base /\ pool[ServerID] = Shared THEN c ELSE pool[ServerID]
           p == [pool EXCEPT ![ServerID] = s]
           q == [p EXCEPT ![x] = n]
<1>1. x \in PoolKeys /\ x # Rotator /\ c \in Clients
  BY Zenon, Names, HolderKey DEF HasClient, PoolOK
<1>2. n \in Clients /\ c # Shared /\ n # Shared
  <2>1. c.svid \in SVIDs /\ c.keyed \in BOOLEAN
    BY Zenon, <1>1 DEF Clients
  <2> QED
    BY Zenon, <1>1, <2>1, NewClientIsClient, Marks
<1>3. CASE c.open
  BY Zenon, <1>1, <1>3, HolderKey DEF EnsureSyncClient
<1>4. CASE ~c.open
  <2>1. EnsureSyncClient(x) = q
    BY Zenon, <1>4 DEF EnsureSyncClient
  <2> HIDE DEF c, n
  <2>2. /\ p \in [PoolKeys -> Clients \cup {NoClient, Shared}]
        /\ \A k \in PoolKeys : p[k] = IF k = ServerID THEN s ELSE pool[k]
    BY Zenon, <1>1, Names DEF PoolOK
  <2>3. x # ServerID => p[x] = pool[x] /\ pool[x] # Shared
    BY Zenon, <1>1, <2>2 DEF PoolOK
  <2>4. s = Shared => pool[ServerID] = Shared /\ x # Base
    BY Zenon, <1>2
  <2> HIDE DEF p
  <2>5. /\ q \in [PoolKeys -> Clients \cup {NoClient, Shared}]
        /\ \A k \in PoolKeys : q[k] = IF k = x THEN n ELSE p[k]
    BY Zenon, <1>1, <1>2, <2>2
  <2> HIDE DEF q
  <2>6. PoolOK(q)
    <3>1. \A k \in PoolKeys : q[k] = Shared => k = ServerID
      BY Zenon, <1>2, <2>2, <2>5 DEF PoolOK
    <3>2. q[ServerID] = Shared => q[Base] \in Clients
      BY Zenon, <1>2, <2>2, <2>4, <2>5, Names DEF PoolOK
    <3> QED
      BY Zenon, <2>5, <3>1, <3>2 DEF PoolOK
  <2>7. Holder(q, x) = x
    BY Zenon, <1>1, <1>2, <2>5 DEF Holder
  <2> QED
    BY Zenon, <1>1, <1>2, <2>1, <2>2, <2>5, <2>6, <2>7, Names
<1> QED
  BY Zenon, <1>3, <1>4

\* ensureRotationClient changes no other client, and gives the rotator an open one: the one it
\* had, or one with the manager's SVID.
LEMMA RotationEnsured ==
  ASSUME PoolOK(pool), pool[Rotator] \in Clients, base.svid \in SVIDs, bundle \in 0..MaxBundle
  PROVE  /\ PoolOK(EnsureRotationClient)
         /\ Holder(EnsureRotationClient, Rotator) = Rotator
         /\ RotationClient \in Clients /\ RotationClient.open
         /\ pool[Rotator].open => RotationClient = pool[Rotator]
         /\ ~pool[Rotator].open => RotationClient.svid = base.svid
<1> DEFINE n == NewClient(base.svid, base.key = base.svid.serial, bundle)
<1>1. n \in Clients /\ n.open /\ n.svid = base.svid
  BY ZenonT(60), NewClientIsClient
<1> HIDE DEF n
<1>2. Rotator \in PoolKeys /\ pool[Rotator] # Shared
  BY Zenon, Names, Marks
<1>3. PoolOK([pool EXCEPT ![Rotator] = n]) /\ [pool EXCEPT ![Rotator] = n][Rotator] = n
  BY Zenon, <1>1, <1>2, Replaced DEF PoolOK
<1>4. EnsureRotationClient = IF pool[Rotator].open THEN pool ELSE [pool EXCEPT ![Rotator] = n]
  BY Zenon DEF EnsureRotationClient, n
<1>5. PoolOK(EnsureRotationClient)
  BY Zenon, <1>3, <1>4
<1> QED
  BY Zenon, <1>1, <1>2, <1>3, <1>4, <1>5, HolderKey DEF RotationClient

(***************************************************************************)
(* The invariants.                                                         *)
(***************************************************************************)
\* The pool and the phases of the process and of synchronize go together.
Phases ==
  /\ PoolOK(pool)
  /\ proc \in {"start", "running"} => pool[Rotator] \in Clients
  /\ sync.pc # "idle" => proc \in {"start", "running"}
  /\ \A a \in sync.aliases : IsCached(a)

\* RotatorIsCurrent, from the start of the manager on.
Current ==
  proc \in {"start", "running"} =>
    /\ pool[Rotator].open => pool[Rotator].svid = base.svid
    /\ base.svid.serial # server.serial => lost

\* Once checkExpiredCacheEntries ran, each cached entry is requested, or was not past half of its
\* life when synchronize began.
Renews ==
  /\ sync.pc # "idle" => sync.began <= now
  /\ sync.pc \in {"check", "process"} =>
       \A e \in Entries : IsCached(e) =>
         e \in sync.reqs \/ 2 * (cache[e].born + Life - sync.began) >= Life

\* The aliases whose entries synchronize has yet to ask for.
Pending ==
  sync.todo \cup sync.reqs \cup sync.aliases
    \cup {a \in Aliases : sync.pc = "list" /\ IdOf[a] = sync.id}

\* Of the entries that were registered all the while, V has those listed for the agent, and
\* those of every alias in V that is not pending; what is in V is cached or still to be looked at.
Explored(V) ==
  /\ V \subseteq Entries
  /\ (sync.pc = "list" /\ sync.id = Base) \/ Visible(Base) \cap sync.stable \subseteq V
  /\ \A a \in (V \cap Aliases) \ Pending : Visible(IdOf[a]) \cap sync.stable \subseteq V
  /\ \A e \in V : IsCached(e) \/ e \in sync.todo \/ e \in sync.reqs

Explores ==
  sync.pc # "idle" =>
    /\ sync.stable \subseteq server.registered
    /\ sync.pc # "check" => sync.todo = {}
    /\ sync.pc = "list" => sync.reqs = {}
    /\ \E V \in SUBSET Entries : Explored(V)

(***************************************************************************)
(* Types and phases.                                                       *)
(***************************************************************************)
Servers == [registered: SUBSET Entries, bundle: 0..MaxBundle, signer: 0..MaxBundle,
            serial: 0..MaxSerial]
Disks   == [svid: SVIDs, key: 0..MaxSerial + 1, bundle: -1..MaxBundle]
Syncs   == [pc: {"idle", "list", "check", "process"}, id: Callers,
            todo: SUBSET Entries, reqs: SUBSET Entries, aliases: SUBSET Aliases,
            began: 0..MaxTime, stable: SUBSET Entries]

LEMMA Bounds ==
  /\ Life \in Nat \ {0}
  /\ MaxTime \in Nat /\ MaxSerial \in Nat /\ MaxBundle \in Nat
  /\ MaxBoots \in Nat /\ MaxEvents \in Nat
  BY Zenon, SyncAssumption

LEMMA Idle ==
  /\ SyncIdle \in Syncs /\ SyncIdle.pc = "idle" /\ SyncIdle.id = Base
  /\ SyncIdle.todo = {} /\ SyncIdle.reqs = {} /\ SyncIdle.aliases = {}
  BY Names, Bounds DEF SyncIdle, Syncs

LEMMA Begins ==
  ASSUME TypeOK
  PROVE  /\ SyncBegins \in Syncs /\ SyncBegins.pc = "list" /\ SyncBegins.id = Base
         /\ SyncBegins.todo = {} /\ SyncBegins.reqs = {} /\ SyncBegins.aliases = {}
         /\ SyncBegins.began = now /\ SyncBegins.stable = server.registered
<1>1. now \in 0..MaxTime /\ server.registered \in SUBSET Entries
  BY Zenon DEF TypeOK
<1> QED
  BY Zenon, <1>1, Idle DEF SyncBegins, Syncs

\* The process ends: everything but the disk is as at first.
LEMMA ExitKeeps ==
  ASSUME TypeOK, Exit, events' \in 0..MaxEvents
  PROVE  TypeOK' /\ Phases'
<1>1. disk' \in Disks
  <2> PICK key \in {DiskKey, MemoryKey} : disk' = [disk EXCEPT !.key = key]
    BY Zenon DEF Exit
  <2>1. key \in 0..MaxSerial + 1 /\ disk \in Disks
    BY Bounds DEF DiskKey, MemoryKey, TypeOK, Disks
  <2> QED
    BY Zenon, <2>1 DEF Disks
<1>2. base' \in [svid: SVIDs, key: 0..MaxSerial + 1] /\ bundle' \in 0..MaxBundle
  BY Bounds DEF Exit, NoSVID, SVIDs
<1>3. cache' \in [Entries -> Cached \cup {NotCached}]
  BY Zenon DEF Exit
<1>4. PoolOK(pool')
  <2>1. NoClient # Shared
    BY Zenon DEF NoClient, Shared
  <2> QED
    BY Zenon, <2>1, Names DEF Exit, PoolOK
<1>5. sync' \in Syncs /\ sync'.pc = "idle" /\ sync'.aliases = {}
  BY Zenon, Idle DEF Exit
<1>6. proc' = "down" /\ UNCHANGED <<now, server, boots, lost>>
  BY Zenon DEF Exit
<1> QED
  BY Zenon, <1>1, <1>2, <1>3, <1>4, <1>5, <1>6 DEF TypeOK, Phases, PoolOK, Disks, Syncs

\* The manager starts, with what it is given.
LEMMA StartKeeps ==
  ASSUME TypeOK, NEW svid \in SVIDs, NEW key \in 0..MaxSerial + 1, NEW b \in 0..MaxBundle,
         StartManager(svid, key, b), server' \in Servers,
         boots' \in 0..MaxBoots, events' \in 0..MaxEvents
  PROVE  TypeOK' /\ Phases' /\ Current'
<1> DEFINE client == NewClient(svid, key = svid.serial, b)
<1>1. client \in Clients /\ client.svid = svid
  BY Zenon, NewClientIsClient
<1>2. pool' = [k \in PoolKeys |-> CASE k \in {Base, Rotator} -> client
                                    [] k = ServerID -> Shared
                                    [] OTHER -> NoClient]
  BY Zenon DEF StartManager
<1> HIDE DEF client
<1>3. /\ \A k \in PoolKeys : pool'[k] = IF k \in {Base, Rotator} THEN client
                                        ELSE IF k = ServerID THEN Shared ELSE NoClient
      /\ pool' \in [PoolKeys -> Clients \cup {NoClient, Shared}]
  BY Zenon, <1>1, <1>2, Names
<1>4. PoolOK(pool') /\ pool'[Rotator] = client
  <2>1. NoClient # Shared /\ client # Shared
    BY Zenon, <1>1, Marks DEF NoClient, Shared
  <2> QED
    BY Zenon, <1>1, <1>3, <2>1, Names DEF PoolOK
<1>5. /\ disk' \in Disks /\ base' \in [svid: SVIDs, key: 0..MaxSerial + 1]
      /\ base'.svid = svid /\ bundle' \in 0..MaxBundle
  BY Bounds DEF StartManager, Disks
<1>6. sync' \in Syncs /\ sync'.aliases = {}
  BY Zenon, Begins DEF StartManager
<1>7. proc' = "start" /\ UNCHANGED <<now, cache>> /\ lost' = (svid.serial # server'.serial)
  BY Zenon DEF StartManager
<1>8. TypeOK'
  BY Zenon, <1>4, <1>5, <1>6, <1>7 DEF TypeOK, PoolOK, Disks, Syncs, Servers
<1> QED
  BY Zenon, <1>1, <1>4, <1>5, <1>6, <1>7, <1>8 DEF Phases, Current

\* An answer through x: the rotator's client is not touched.
LEMMA ReceivedKeeps ==
  ASSUME TypeOK, Phases, NEW x \in Callers, HasClient(x), Received(x)
  PROVE  /\ PoolOK(pool') /\ pool'[Rotator] = pool[Rotator]
         /\ bundle' \in 0..MaxBundle /\ disk' \in Disks /\ events' \in 0..MaxEvents
<1> DEFINE p == EnsureSyncClient(x)
<1>1. PoolOK(p) /\ p[Holder(p, x)] \in Clients /\ p[Rotator] = pool[Rotator]
  BY Zenon, Ensured DEF Phases, TypeOK
<1>2. pool' = Used(p, x)
  BY Zenon DEF Received
<1> HIDE DEF p
<1>3. x \in PoolKeys /\ Rotator \in PoolKeys /\ x # Rotator /\ Holder(p, x) # Rotator
  BY Zenon, <1>1, Names, HolderKey
<1>4. PoolOK(pool') /\ pool'[Rotator] = pool[Rotator]
  BY <1>1, <1>2, <1>3, UsedOrClosed
<1>5. bundle' \in 0..MaxBundle /\ bundle' = server.bundle
  BY Zenon DEF Received, TypeOK
<1>6. disk' \in Disks /\ events' \in 0..MaxEvents
  <2> PICK w \in IF server.bundle = bundle THEN {<<disk, events>>}
                                           ELSE Written([disk EXCEPT !.bundle = bundle]) :
        disk' = w[1] /\ events' = w[2]
    BY Zenon DEF Received
  <2>1. \/ w = <<disk, events>> \/ w = <<[disk EXCEPT !.bundle = bundle], events>>
        \/ w = <<disk, events - 1>> /\ events > 0
    BY Zenon DEF Written
  <2>2. disk \in Disks /\ events \in 0..MaxEvents /\ bundle \in 0..MaxBundle
    BY Zenon DEF TypeOK, Disks
  <2>3. [disk EXCEPT !.bundle = bundle] \in Disks
    BY <2>2 DEF Disks
  <2> QED
    BY <2>1, <2>2, <2>3, Bounds
<1> QED
  BY Zenon, <1>4, <1>5, <1>6

\* A call through x that failed: the rotator's client is not touched.
LEMMA FailedKeeps ==
  ASSUME TypeOK, Phases, NEW x \in Callers, NEW f \in Failed(x)
  PROVE  PoolOK(f[1]) /\ f[1][Rotator] = pool[Rotator] /\ f[2] \in 0..MaxEvents
<1> DEFINE p == EnsureSyncClient(x)
<1>1. events \in 0..MaxEvents /\ (events > 0 => events - 1 \in 0..MaxEvents)
  BY Bounds DEF TypeOK
<1>2. CASE ~HasClient(x)
  BY <1>1, <1>2 DEF Failed, Phases
<1>3. CASE HasClient(x)
  <2>1. PoolOK(p) /\ p[Holder(p, x)] \in Clients /\ p[Rotator] = pool[Rotator]
    BY Zenon, <1>3, Ensured DEF Phases, TypeOK
  <2>2. /\ f[1] = Used(p, x) \/ f[1] = Closed(p, x)
        /\ f[2] = events \/ (f[2] = events - 1 /\ events > 0)
    BY <1>3 DEF Failed
  <2> HIDE DEF p
  <2>3. x \in PoolKeys /\ Rotator \in PoolKeys /\ x # Rotator /\ Holder(p, x) # Rotator
    BY Zenon, <2>1, Names, HolderKey
  <2> QED
    BY <1>1, <2>1, <2>2, <2>3, UsedOrClosed
<1> QED
  BY Zenon, <1>2, <1>3

\* Every name that synchronize calls under is one the pool has a place for.
LEMMA TargetsAreCallers ==
  ASSUME TypeOK
  PROVE  Targets \subseteq Callers /\ (Targets # {} => sync.pc # "idle")
<1>1. \A e \in Entries : ParentOf[e] \in Callers /\ IdOf[e] \in Callers
  BY Zenon, SyncAssumption DEF Callers
<1>2. sync.id \in Callers /\ sync.reqs \subseteq Entries /\ sync.todo \subseteq Entries
  BY Zenon DEF TypeOK
<1> QED
  BY Zenon, <1>1, <1>2 DEF Targets, CachedAliases

\* What synchronize changes, if it goes on, leaves the rotator's client.
LEMMA SyncStepKeeps ==
  ASSUME TypeOK, Phases, PoolOK(pool'), pool'[Rotator] = pool[Rotator],
         bundle' \in 0..MaxBundle, disk' \in Disks, events' \in 0..MaxEvents,
         cache' \in [Entries -> Cached \cup {NotCached}], sync' \in Syncs,
         \A a \in sync'.aliases : cache'[a] # NotCached,
         proc \in {"start", "running"}, proc' \in {"start", "running"},
         UNCHANGED <<now, server, lost, boots, base>>
  PROVE  TypeOK' /\ Phases'
  BY Zenon DEF TypeOK, Phases, PoolOK, IsCached, Disks, Syncs

\* The types and the phases are invariant.
LEMMA ShapeStep ==
  ASSUME TypeOK, Phases, [Next]_vars
  PROVE  TypeOK' /\ Phases'
<1> USE DEF Agent, Event
<1>1. CASE Tick
  BY <1>1, Bounds DEF Tick, TypeOK, Phases, PoolOK, IsCached
<1>2. CASE \E e \in Entries : Register(e)
  BY <1>2 DEF Register, TypeOK, Phases, PoolOK, IsCached
<1>3. CASE \E e \in Entries : Delete(e)
  <2> PICK e \in Entries : Delete(e)
    BY Zenon, <1>3
  <2>1. server' \in Servers /\ events' \in 0..MaxEvents
    BY Bounds DEF Delete, TypeOK, Servers
  <2>2. sync' \in Syncs /\ sync'.pc = sync.pc /\ sync'.aliases = sync.aliases
    BY Zenon DEF Delete, TypeOK, Syncs
  <2>3. UNCHANGED <<now, lost, disk, proc, base, bundle, cache, pool, boots>>
    BY Zenon DEF Delete
  <2> QED
    BY Zenon, <2>1, <2>2, <2>3 DEF TypeOK, Phases, PoolOK, IsCached, Servers, Syncs
<1>4. CASE Publish \/ Activate
  <2>1. server' \in Servers /\ events' \in 0..MaxEvents
    BY <1>4, Bounds DEF Publish, Activate, TypeOK, Servers
  <2>2. UNCHANGED <<now, lost, disk, proc, base, bundle, cache, pool, sync, boots>>
    BY Zenon, <1>4 DEF Publish, Activate
  <2> QED
    BY Zenon, <2>1, <2>2 DEF TypeOK, Phases, PoolOK, IsCached, Servers
<1>5. CASE Disconnect
  <2>1. \A k \in PoolKeys : pool[k] \in Clients => [pool[k] EXCEPT !.up = FALSE] \in Clients
    BY Zenon, MarkedClient
  <2>2. /\ \A k \in PoolKeys : pool'[k] = IF pool[k] \in Clients
                                         THEN [pool[k] EXCEPT !.up = FALSE] ELSE pool[k]
        /\ pool' \in [PoolKeys -> Clients \cup {NoClient, Shared}]
    BY Zenon, <1>5, <2>1 DEF Disconnect, TypeOK
  <2>3. PoolOK(pool') /\ (pool[Rotator] \in Clients => pool'[Rotator] \in Clients)
    BY <2>1, <2>2, Marks, Names DEF PoolOK, Phases
  <2>4. UNCHANGED <<now, server, boots, disk, proc, base, bundle, cache, sync, lost>>
        /\ events' \in 0..MaxEvents
    BY <1>5, Bounds DEF Disconnect, TypeOK
  <2> QED
    BY Zenon, <2>3, <2>4 DEF TypeOK, Phases, PoolOK, IsCached
<1>6. CASE Boot
  <2>1. /\ server' \in Servers /\ boots' \in 0..MaxBoots /\ events' \in 0..MaxEvents
        /\ LoadBundle \in 0..MaxBundle
    BY <1>6, Bounds DEF Boot, TypeOK, Servers, LoadBundle
  <2>2. CASE disk.key # 0 /\ disk.svid # NoSVID
    <3>1. disk.svid \in SVIDs /\ disk.key \in 0..MaxSerial + 1
      BY Zenon DEF TypeOK
    <3>2. StartManager(disk.svid, disk.key, LoadBundle)
      BY Zenon, <1>6, <2>2 DEF Boot
    <3> QED
      BY Zenon, <2>1, <3>1, <3>2, StartKeeps
  <2>3. CASE ~(disk.key # 0 /\ disk.svid # NoSVID)
    <3>1. /\ proc' = "attest" /\ disk' = [disk EXCEPT !.key = server.serial + 1]
          /\ bundle' = LoadBundle
          /\ UNCHANGED <<now, base, cache, pool, sync, lost>> /\ proc = "down"
      BY Zenon, <1>6, <2>3 DEF Boot
    <3>2. disk' \in Disks
      BY <3>1, Bounds DEF TypeOK, Disks
    <3> QED
      BY Zenon, <2>1, <3>1, <3>2 DEF TypeOK, Phases, PoolOK, IsCached, Disks, Servers
  <2> QED
    BY Zenon, <2>2, <2>3
<1>7. CASE Attest
  <2>1. /\ server' \in Servers /\ boots' \in 0..MaxBoots /\ events' \in 0..MaxEvents
        /\ [serial |-> server'.serial, born |-> now] \in SVIDs
        /\ disk.key \in 0..MaxSerial + 1 /\ server.bundle \in 0..MaxBundle
    BY <1>7, Bounds DEF Attest, TypeOK, Servers, SVIDs
  <2> QED
    BY Zenon, <1>7, <2>1, StartKeeps DEF Attest
<1>8. CASE AttestFails \/ Crash
  <2>1. Exit /\ events' \in 0..MaxEvents
    BY <1>8, Bounds DEF AttestFails, Crash, TypeOK
  <2> QED
    BY Zenon, <2>1, ExitKeeps
<1>9. CASE SyncTick
  <2>1. sync' \in Syncs /\ sync'.aliases = {} /\ proc' = "running"
    BY Zenon, <1>9, Begins DEF SyncTick
  <2> QED
    BY Zenon, <1>9, <2>1 DEF SyncTick, TypeOK, Phases, PoolOK, Syncs
<1>10. CASE List
  <2>1. sync.id \in Callers /\ sync.aliases \in SUBSET Aliases /\ HasClient(sync.id)
    BY <1>10 DEF List, CanCall, TypeOK
  <2>2. Listed(sync.id) \in SUBSET Entries /\ ExpiredEntries \in SUBSET Entries
    BY Zenon DEF Listed, ExpiredEntries, TypeOK
  <2>3. sync' \in Syncs /\ sync'.aliases = sync.aliases
    BY Zenon, <1>10, <2>2 DEF List, TypeOK, Syncs
  <2>4. /\ Received(sync.id) /\ sync.pc # "idle"
        /\ UNCHANGED <<now, server, lost, boots, proc, base, cache>>
    BY Zenon, <1>10 DEF List
  <2> QED
    BY Zenon, <2>1, <2>3, <2>4, ReceivedKeeps, SyncStepKeeps DEF Phases, IsCached, TypeOK
<1>11. CASE CheckAlias
  <2> PICK a \in CachedAliases :
        /\ CanCall(IdOf[a]) /\ Received(IdOf[a])
        /\ sync' = [sync EXCEPT !.todo = (@ \ {a}) \cup Listed(IdOf[a])]
    BY SMTT(60), <1>11 DEF CheckAlias
  <2>1. IdOf[a] \in Callers /\ HasClient(IdOf[a])
    BY Zenon, Names DEF CachedAliases, CanCall
  <2>2. Listed(IdOf[a]) \in SUBSET Entries
    BY Zenon DEF Listed, TypeOK
  <2>3. sync' \in Syncs /\ sync'.aliases = sync.aliases
    BY Zenon, <2>2 DEF TypeOK, Syncs
  <2>4. sync.pc # "idle" /\ UNCHANGED <<now, server, lost, boots, proc, base, cache>>
    BY Zenon, <1>11 DEF CheckAlias
  <2> QED
    BY Zenon, <2>1, <2>3, <2>4, ReceivedKeeps, SyncStepKeeps DEF Phases, IsCached, TypeOK
<1>12. CASE CheckNew
  <2>1. {e \in sync.todo : ~IsCached(e)} \in SUBSET Entries
    BY Zenon DEF TypeOK
  <2>2. sync' \in Syncs /\ sync'.aliases = sync.aliases /\ sync.pc # "idle"
    BY Zenon, <1>12, <2>1 DEF CheckNew, TypeOK, Syncs
  <2> QED
    BY Zenon, <1>12, <2>2, SyncStepKeeps DEF CheckNew, Phases, IsCached, TypeOK, Disks
<1>13. CASE Process
  <2> PICK x \in {ParentOf[e] : e \in sync.reqs} :
        /\ CanCall(x) /\ Received(x)
        /\ \E signed \in SUBSET RequestsFor(x) :
             cache' = [e \in Entries |->
                         IF e \in RequestsFor(x) THEN UpdatedEntry(e, signed) ELSE cache[e]]
        /\ sync' = [sync EXCEPT !.reqs = @ \ RequestsFor(x),
                                !.aliases = @ \cup (RequestsFor(x) \cap Aliases)]
    BY Zenon, <1>13 DEF Process
  <2>1. x \in Callers /\ HasClient(x)
    BY SyncAssumption DEF Callers, TypeOK, CanCall
  <2>2. RequestsFor(x) \in SUBSET Entries
    BY Zenon DEF RequestsFor, TypeOK
  <2>3. sync' \in Syncs /\ sync'.aliases = sync.aliases \cup (RequestsFor(x) \cap Aliases)
    BY Zenon, <2>2 DEF TypeOK, Syncs
  <2>4. PICK signed \in SUBSET RequestsFor(x) :
          cache' = [e \in Entries |->
                      IF e \in RequestsFor(x) THEN UpdatedEntry(e, signed) ELSE cache[e]]
    BY Zenon
  <2>5. \A e \in Entries : UpdatedEntry(e, signed) \in Cached /\ UpdatedEntry(e, signed) # NotCached
    BY Bounds DEF UpdatedEntry, Cached, NotCached, TypeOK
  <2>6. /\ cache' \in [Entries -> Cached \cup {NotCached}]
        /\ \A a \in sync'.aliases : cache'[a] # NotCached
    BY <2>2, <2>3, <2>4, <2>5, SyncAssumption DEF TypeOK, Phases, IsCached
  <2>7. sync.pc # "idle" /\ UNCHANGED <<now, server, lost, boots, proc, base>>
    BY Zenon, <1>13 DEF Process
  <2> QED
    BY Zenon, <2>1, <2>3, <2>6, <2>7, ReceivedKeeps, SyncStepKeeps DEF Phases
<1>14. CASE SyncAlias
  <2> PICK a \in sync.aliases :
        /\ pool' = [pool EXCEPT ![IdOf[a]] =
             NewClient([serial |-> 0, born |-> cache[a].born], cache[a].own, bundle)]
        /\ sync' = [sync EXCEPT !.pc = "list", !.id = IdOf[a], !.aliases = @ \ {a}]
    BY Zenon, <1>14 DEF SyncAlias
  <2> DEFINE c == NewClient([serial |-> 0, born |-> cache[a].born], cache[a].own, bundle)
  <2>1. a \in Aliases /\ a \in Entries /\ cache[a] \in Cached
    BY Zenon, SyncAssumption DEF TypeOK, Phases, IsCached
  <2>2. c \in Clients
    <3>1. /\ [serial |-> 0, born |-> cache[a].born] \in SVIDs
          /\ cache[a].own \in BOOLEAN /\ bundle \in 0..MaxBundle
      BY <2>1, Bounds DEF Cached, SVIDs, TypeOK
    <3> QED
      BY Zenon, <3>1, NewClientIsClient
  <2> HIDE DEF c
  <2>3. IdOf[a] \in Callers /\ IdOf[a] \in PoolKeys /\ IdOf[a] # Rotator /\ pool[IdOf[a]] # Shared
    BY Zenon, <2>1, Names DEF Phases, PoolOK
  <2>4. PoolOK(pool') /\ pool'[Rotator] = pool[Rotator]
    BY <2>2, <2>3, Replaced, Names DEF Phases, PoolOK, c
  <2>5. sync' \in Syncs /\ sync'.aliases = sync.aliases \ {a}
    BY Zenon, <2>3 DEF TypeOK, Syncs
  <2>6. /\ sync.pc # "idle"
        /\ UNCHANGED <<now, server, boots, disk, proc, base, bundle, cache, lost, events>>
    BY Zenon, <1>14 DEF SyncAlias
  <2>7. proc \in {"start", "running"} /\ \A e \in sync'.aliases : cache'[e] # NotCached
    BY Zenon, <2>5, <2>6 DEF Phases, IsCached
  <2>8. /\ bundle' \in 0..MaxBundle /\ disk' \in Disks /\ events' \in 0..MaxEvents
        /\ cache' \in [Entries -> Cached \cup {NotCached}]
    BY Zenon, <2>6 DEF TypeOK, Disks
  <2> QED
    BY Zenon, <2>4, <2>5, <2>6, <2>7, <2>8, SyncStepKeeps
<1>15. CASE SyncDone
  <2>1. sync' \in Syncs /\ sync'.aliases = {}
    BY Zenon, <1>15, Idle DEF SyncDone
  <2> QED
    BY Zenon, <1>15, <2>1, SyncStepKeeps DEF SyncDone, Phases, TypeOK, Disks
<1>16. CASE SyncFails
  <2> PICK x \in Targets : \E f \in Failed(x) : SyncReturns(f[1]) /\ events' = f[2]
    BY Zenon, <1>16 DEF SyncFails
  <2> PICK f \in Failed(x) : SyncReturns(f[1]) /\ events' = f[2]
    BY Zenon
  <2>1. /\ PoolOK(f[1]) /\ f[1][Rotator] = pool[Rotator] /\ events' \in 0..MaxEvents
    BY Zenon, TargetsAreCallers, FailedKeeps
  <2>2. CASE Exit
    BY Zenon, <2>1, <2>2, ExitKeeps
  <2>3. CASE /\ proc = "running" /\ sync' = SyncIdle /\ pool' = f[1]
             /\ UNCHANGED <<now, server, boots, disk, proc, base, bundle, cache, lost>>
    BY Zenon, <2>1, <2>3, Idle, SyncStepKeeps DEF TypeOK, Disks
  <2> QED
    BY Zenon, <2>2, <2>3 DEF SyncReturns
<1>17. CASE Rotate \/ RotateLost \/ RotateFails
  <2>1. /\ PoolOK(EnsureRotationClient) /\ Holder(EnsureRotationClient, Rotator) = Rotator
        /\ EnsureRotationClient[Rotator] \in Clients
        /\ proc \in {"start", "running"}
    BY <1>17, RotationEnsured DEF Rotate, RotateLost, RotateFails, CanRotate, Phases, TypeOK,
                                  RotationClient
  <2>2. PoolOK(pool') /\ pool'[Rotator] \in Clients
    <3>1. \/ pool' = Used(EnsureRotationClient, Rotator)
          \/ pool' = Closed(EnsureRotationClient, Rotator)
      BY Zenon, <1>17 DEF Rotate, RotateLost, RotateFails
    <3> QED
      BY <2>1, <3>1, Names, UsedOrClosed
  <2>3. UNCHANGED <<now, boots, proc, bundle, cache, sync>>
    BY Zenon, <1>17 DEF Rotate, RotateLost, RotateFails
  <2>4. server' \in Servers /\ lost' \in BOOLEAN
    <3>1. server' = server \/ (server.serial < MaxSerial /\ server' = [server EXCEPT !.serial = @ + 1])
      BY Zenon, <1>17 DEF Rotate, RotateLost, RotateFails, CanRotate
    <3>2. server' \in Servers
      BY <3>1, Bounds DEF TypeOK, Servers
    <3>3. lost' = lost \/ lost' = TRUE
      BY Zenon, <1>17 DEF Rotate, RotateLost, RotateFails
    <3> QED
      BY Zenon, <3>2, <3>3 DEF TypeOK
  <2>5. base' \in [svid: SVIDs, key: 0..MaxSerial + 1] /\ disk' \in Disks /\ events' \in 0..MaxEvents
    <3>1. CASE Rotate
      <4>1. /\ base' = [svid |-> [serial |-> server'.serial, born |-> now], key |-> server'.serial]
            /\ server'.serial \in 0..MaxSerial /\ now \in 0..MaxTime
        BY Zenon, <2>4, <3>1 DEF Rotate, Servers, TypeOK
      <4>2. base' \in [svid: SVIDs, key: 0..MaxSerial + 1] /\ base'.svid \in SVIDs
        BY <4>1, Bounds DEF SVIDs
      <4>3. disk \in Disks /\ [disk EXCEPT !.svid = base'.svid] \in Disks
        BY <4>2 DEF Disks, TypeOK
      <4>4. PICK w \in Written([disk EXCEPT !.svid = base'.svid]) : disk' = w[1] /\ events' = w[2]
        BY Zenon, <3>1 DEF Rotate
      <4>5. \/ w = <<[disk EXCEPT !.svid = base'.svid], events>>
            \/ w = <<disk, events - 1>> /\ events > 0
        BY Zenon DEF Written
      <4> QED
        BY <4>2, <4>3, <4>4, <4>5, Bounds DEF TypeOK
    <3>2. CASE RotateLost \/ RotateFails
      BY <3>2, Bounds DEF RotateLost, RotateFails, TypeOK, Disks
    <3> QED
      BY Zenon, <1>17, <3>1, <3>2
  <2> QED
    BY <2>2, <2>3, <2>4, <2>5 DEF TypeOK, Phases, PoolOK, IsCached, Servers, Disks
<1>18. CASE UNCHANGED vars
  BY Zenon, <1>18 DEF vars, TypeOK, Phases, PoolOK, IsCached
<1> QED
  BY Zenon, <1>1, <1>2, <1>3, <1>4, <1>5, <1>6, <1>7, <1>8, <1>9, <1>10, <1>11, <1>12, <1>13, <1>14,
     <1>15, <1>16, <1>17, <1>18 DEF Next, Environment, Synchronize

(***************************************************************************)
(* What the steps do to the state of synchronize.                          *)
(***************************************************************************)
LEMMA SyncFrame ==
  ASSUME TypeOK, [Next]_vars
  PROVE  \/ /\ UNCHANGED <<sync, cache>> /\ now' \in {now, now + 1}
            /\ server.registered \subseteq server'.registered
         \/ sync' = SyncIdle
         \/ sync' = SyncBegins /\ now' = now /\ server'.registered = server.registered
         \/ \E e \in Entries : Delete(e)
         \/ List \/ CheckAlias \/ CheckNew \/ Process \/ SyncAlias
<1> USE DEF Agent
<1>1. CASE Tick \/ (\E e \in Entries : Register(e)) \/ Publish \/ Activate \/ Disconnect
  BY <1>1 DEF Tick, Register, Publish, Activate, Disconnect, TypeOK
<1>2. CASE Boot \/ Attest
  BY <1>2 DEF Boot, Attest, StartManager, TypeOK
<1>3. CASE AttestFails \/ Crash \/ SyncDone \/ SyncFails
  BY Zenon, <1>3 DEF AttestFails, Crash, SyncDone, SyncFails, SyncReturns, Exit
<1>4. CASE SyncTick
  BY Zenon, <1>4 DEF SyncTick
<1>5. CASE Rotate \/ RotateLost \/ RotateFails
  BY <1>5 DEF Rotate, RotateLost, RotateFails, TypeOK
<1>6. CASE UNCHANGED vars
  BY Zenon, <1>6 DEF vars
<1> QED
  BY Zenon, <1>1, <1>2, <1>3, <1>4, <1>5, <1>6 DEF Next, Environment, Synchronize

(***************************************************************************)
(* The rotator's client is current.                                        *)
(***************************************************************************)
LEMMA CurrentStep ==
  ASSUME TypeOK, Phases, Current, [Next]_vars
  PROVE  Current'
<1> USE DEF Agent, Event
<1>0. TypeOK' /\ Phases'
  BY Zenon, ShapeStep
<1>1. CASE Tick \/ (\E e \in Entries : Register(e) \/ Delete(e)) \/ Publish \/ Activate
  <2>1. server'.serial = server.serial /\ UNCHANGED <<proc, pool, base, lost>>
    BY <1>1 DEF Tick, Register, Delete, Publish, Activate, TypeOK
  <2> QED
    BY Zenon, <2>1 DEF Current
<1>2. CASE Disconnect
  <2>1. pool[Rotator] \in Clients => /\ pool'[Rotator] = [pool[Rotator] EXCEPT !.up = FALSE]
                                     /\ pool'[Rotator].svid = pool[Rotator].svid
                                     /\ pool'[Rotator].open = pool[Rotator].open
    BY Zenon, <1>2, Names, MarkedClient DEF Disconnect
  <2> QED
    BY Zenon, <1>2, <2>1 DEF Current, Phases, Disconnect
<1>3. CASE Boot
  <2>1. CASE disk.key # 0 /\ disk.svid # NoSVID
    <3>1. /\ disk.svid \in SVIDs /\ disk.key \in 0..MaxSerial + 1 /\ LoadBundle \in 0..MaxBundle
          /\ server' \in Servers /\ boots' \in 0..MaxBoots /\ events' \in 0..MaxEvents
      BY <1>0, <1>3, Bounds DEF TypeOK, LoadBundle, Servers
    <3> QED
      BY Zenon, <1>3, <2>1, <3>1, StartKeeps DEF Boot
  <2>2. CASE ~(disk.key # 0 /\ disk.svid # NoSVID)
    BY Zenon, <1>3, <2>2 DEF Boot, Current
  <2> QED
    BY Zenon, <2>1, <2>2
<1>4. CASE Attest
  <2>1. /\ server' \in Servers /\ boots' \in 0..MaxBoots /\ events' \in 0..MaxEvents
        /\ [serial |-> server'.serial, born |-> now] \in SVIDs
        /\ disk.key \in 0..MaxSerial + 1 /\ server.bundle \in 0..MaxBundle
    BY Zenon, <1>0 DEF TypeOK, Servers, SVIDs
  <2> QED
    BY Zenon, <1>4, <2>1, StartKeeps DEF Attest
<1>5. CASE AttestFails \/ Crash
  BY Zenon, <1>5 DEF AttestFails, Crash, Exit, Current
<1>6. CASE List \/ CheckAlias \/ Process
  <2>1. PICK x \in Callers : HasClient(x) /\ Received(x)
    <3>1. sync.id \in Callers /\ \A e \in sync.reqs : ParentOf[e] \in Callers
      BY Zenon, SyncAssumption DEF TypeOK, Callers
    <3>2. \A a \in CachedAliases : IdOf[a] \in Callers
      BY Zenon, Names DEF CachedAliases
    <3>3. CASE List
      BY <3>1, <3>3, Zenon DEF List, CanCall
    <3>4. CASE CheckAlias
      BY <3>2, <3>4, Zenon DEF CheckAlias, CanCall
    <3>5. CASE Process
      <4>1. PICK x \in {ParentOf[e] : e \in sync.reqs} : CanCall(x) /\ Received(x)
        BY <3>5, Zenon DEF Process
      <4> QED
        BY Zenon, <3>1, <4>1 DEF CanCall
    <3> QED
      BY Zenon, <1>6, <3>3, <3>4, <3>5
  <2>2. pool'[Rotator] = pool[Rotator]
    BY Zenon, <2>1, ReceivedKeeps
  <2> QED
    BY Zenon, <1>6, <2>2 DEF List, CheckAlias, Process, Current
<1>7. CASE SyncAlias
  <2>1. pool'[Rotator] = pool[Rotator]
    BY <1>7, Names DEF SyncAlias, TypeOK
  <2> QED
    BY Zenon, <1>7, <2>1 DEF SyncAlias, Current
<1>8. CASE SyncTick \/ CheckNew \/ SyncDone
  BY Zenon, <1>8 DEF SyncTick, CheckNew, SyncDone, Current, Phases
<1>9. CASE SyncFails
  <2> PICK x \in Targets : \E f \in Failed(x) : SyncReturns(f[1]) /\ events' = f[2]
    BY Zenon, <1>9 DEF SyncFails
  <2> PICK f \in Failed(x) : SyncReturns(f[1]) /\ events' = f[2]
    BY Zenon
  <2>1. f[1][Rotator] = pool[Rotator]
    BY Zenon, TargetsAreCallers, FailedKeeps
  <2> QED
    BY <2>1 DEF SyncReturns, Exit, Current
<1>10. CASE Rotate \/ RotateLost \/ RotateFails
  <2> DEFINE p == EnsureRotationClient
  <2>1. /\ PoolOK(p) /\ Holder(p, Rotator) = Rotator /\ p[Rotator] \in Clients
        /\ p[Rotator].svid = base.svid
        /\ proc \in {"start", "running"} /\ proc' = proc
        /\ base.svid.serial # server.serial => lost
    BY Zenon, <1>10, RotationEnsured DEF Rotate, RotateLost, RotateFails, CanRotate, Phases, TypeOK,
                                         RotationClient, Current
  <2>2. /\ Used(p, Rotator)[Rotator].svid = base.svid
        /\ ~Closed(p, Rotator)[Rotator].open
    BY <2>1, Names, UsedOrClosed
  <2>3. CASE Rotate
    <3>1. base'.svid.serial = server'.serial /\ pool' = Closed(p, Rotator)
      BY Zenon, <2>3 DEF Rotate
    <3> QED
      BY Zenon, <2>2, <3>1 DEF Current
  <2>4. CASE RotateLost
    BY Zenon, <2>2, <2>4 DEF RotateLost, Current
  <2>5. CASE RotateFails
    <3>1. /\ pool' = Used(p, Rotator) \/ pool' = Closed(p, Rotator)
          /\ UNCHANGED <<server, base, lost>>
      BY Zenon, <2>5 DEF RotateFails
    <3> QED
      BY Zenon, <2>1, <2>2, <3>1 DEF Current
  <2> QED
    BY Zenon, <1>10, <2>3, <2>4, <2>5
<1>11. CASE UNCHANGED vars
  BY Zenon, <1>11 DEF vars, Current
<1> QED
  BY Zenon, <1>1, <1>2, <1>3, <1>4, <1>5, <1>6, <1>7, <1>8, <1>9, <1>10, <1>11
     DEF Next, Environment, Synchronize

(***************************************************************************)
(* What synchronize renews.                                                *)
(***************************************************************************)
LEMMA RenewsStep ==
  ASSUME TypeOK, Renews, [Next]_vars
  PROVE  Renews'
<1>0. /\ now \in Nat /\ Life \in Nat /\ sync.began \in Nat
      /\ \A e \in Entries : IsCached(e) => cache[e].born \in Nat
  BY Bounds DEF TypeOK, IsCached, Cached
<1>1. CASE UNCHANGED <<sync, cache>> /\ now' \in {now, now + 1}
  BY <1>0, <1>1 DEF Renews, IsCached
<1>2. CASE sync' = SyncIdle
  BY Zenon, <1>2, Idle DEF Renews
<1>3. CASE sync' = SyncBegins /\ now' = now
  BY <1>0, <1>3, Begins DEF Renews
<1>4. CASE \E e \in Entries : Delete(e)
  <2>1. /\ sync'.pc = sync.pc /\ sync'.began = sync.began /\ sync'.reqs = sync.reqs
        /\ UNCHANGED <<cache, now>>
    BY <1>4 DEF Delete, TypeOK
  <2> QED
    BY Zenon, <2>1 DEF Renews, IsCached
<1>5. CASE List
  <2>1. /\ sync'.pc = "check" /\ sync'.began = sync.began /\ sync'.reqs = ExpiredEntries
        /\ UNCHANGED <<cache, now>> /\ sync.began <= now
    BY Zenon, <1>5 DEF List, TypeOK, Renews
  <2> QED
    BY <1>0, <2>1 DEF Renews, IsCached, ExpiredEntries, Aged
<1>6. CASE CheckAlias
  <2>1. /\ sync'.pc = sync.pc /\ sync'.began = sync.began /\ sync'.reqs = sync.reqs
        /\ UNCHANGED <<cache, now>>
    BY <1>6 DEF CheckAlias, TypeOK
  <2> QED
    BY Zenon, <2>1 DEF Renews, IsCached
<1>7. CASE CheckNew
  <2>1. /\ sync'.pc = "process" /\ sync'.began = sync.began /\ sync.reqs \subseteq sync'.reqs
        /\ UNCHANGED <<cache, now>> /\ sync.pc = "check"
    BY Zenon, <1>7 DEF CheckNew, TypeOK
  <2> QED
    BY Zenon, <2>1 DEF Renews, IsCached
<1>8. CASE Process
  <2> PICK x \in {ParentOf[e] : e \in sync.reqs} :
        /\ \E signed \in SUBSET RequestsFor(x) :
             cache' = [e \in Entries |->
                         IF e \in RequestsFor(x) THEN UpdatedEntry(e, signed) ELSE cache[e]]
        /\ sync' = [sync EXCEPT !.reqs = @ \ RequestsFor(x),
                                !.aliases = @ \cup (RequestsFor(x) \cap Aliases)]
    BY <1>8, Zenon DEF Process
  <2> PICK signed \in SUBSET RequestsFor(x) :
        cache' = [e \in Entries |->
                    IF e \in RequestsFor(x) THEN UpdatedEntry(e, signed) ELSE cache[e]]
    BY Zenon
  <2>1. /\ sync'.pc = sync.pc /\ sync'.began = sync.began
        /\ sync'.reqs = sync.reqs \ RequestsFor(x)
    BY Zenon DEF TypeOK
  <2>2. now' = now /\ sync.pc = "process"
    BY <1>8, Zenon DEF Process
  <2>3. \A e \in Entries : IF e \in RequestsFor(x) THEN cache'[e].born = now
                                                  ELSE cache'[e] = cache[e]
    BY Zenon DEF UpdatedEntry
  <2> QED
    BY <1>0, <2>1, <2>2, <2>3 DEF Renews, IsCached
<1>9. CASE SyncAlias
  <2>1. sync'.pc = "list" /\ sync'.began = sync.began /\ now' = now /\ sync.pc # "idle"
    BY <1>9 DEF SyncAlias, TypeOK
  <2> QED
    BY Zenon, <2>1 DEF Renews
<1> QED
  BY Zenon, <1>1, <1>2, <1>3, <1>4, <1>5, <1>6, <1>7, <1>8, <1>9, SyncFrame

(***************************************************************************)
(* What synchronize explores.                                              *)
(***************************************************************************)
LEMMA ExploresStep ==
  ASSUME TypeOK, Phases, Explores, [Next]_vars
  PROVE  Explores'
<1>1. CASE /\ UNCHANGED <<sync, cache>>
           /\ server.registered \subseteq server'.registered
  BY Zenon, <1>1 DEF Explores, Explored, Pending, IsCached
<1>2. CASE sync' = SyncIdle
  BY Zenon, <1>2, Idle DEF Explores
<1>3. CASE sync' = SyncBegins /\ server'.registered = server.registered
  <2>1. (Explored({}))'
    BY Zenon, <1>3, Begins DEF Explored
  <2> QED
    BY Zenon, <1>3, <2>1, Begins DEF Explores
<1>4. ASSUME NEW e \in Entries, Delete(e)
      PROVE  Explores'
  <2>1. /\ sync'.pc = sync.pc /\ sync'.id = sync.id /\ sync'.todo = sync.todo
        /\ sync'.reqs = sync.reqs /\ sync'.aliases = sync.aliases
        /\ sync'.stable = sync.stable \ {e} /\ cache' = cache
        /\ server'.registered = server.registered \ {e}
    BY Zenon, <1>4 DEF Delete, TypeOK
  <2>2. Pending' = Pending
    BY Zenon, <2>1 DEF Pending
  <2>3. ASSUME NEW V \in SUBSET Entries, Explored(V)
        PROVE  Explored(V)'
    BY Zenon, <2>1, <2>2, <2>3 DEF Explored, IsCached
  <2> QED
    BY Zenon, <2>1, <2>3 DEF Explores
<1>5. CASE List
  <2>1. /\ sync.pc = "list" /\ sync'.pc = "check" /\ sync'.todo = Listed(sync.id)
        /\ sync'.reqs = ExpiredEntries /\ sync'.aliases = sync.aliases
        /\ sync'.stable = sync.stable /\ cache' = cache /\ server' = server
        /\ sync'.id = sync.id
    BY Zenon, <1>5 DEF List, TypeOK
  <2>2. /\ sync.stable \subseteq server.registered /\ sync.todo = {} /\ sync.reqs = {}
        /\ sync.stable \subseteq Entries
    BY Zenon, <2>1 DEF Explores, TypeOK
  <2>3. PICK V \in SUBSET Entries : Explored(V)
    BY Zenon, <2>1 DEF Explores
  <2> DEFINE W == V \cup (Visible(sync.id) \cap sync.stable)
  <2>4. Visible(sync.id) \cap sync.stable \subseteq sync'.todo
    BY Zenon, <2>1, <2>2 DEF Listed
  <2>5. Visible(Base) \cap sync.stable \subseteq W
    BY Zenon, <2>3 DEF Explored
  <2>6. \A a \in (W \cap Aliases) \ Pending' : Visible(IdOf[a]) \cap sync.stable \subseteq W
    <3> SUFFICES ASSUME NEW a \in (W \cap Aliases) \ Pending'
                 PROVE  Visible(IdOf[a]) \cap sync.stable \subseteq W
      BY Zenon
    <3>1. a \notin sync'.todo /\ a \notin sync'.reqs /\ a \notin sync'.aliases
      BY Zenon DEF Pending
    <3>2. a \in V \cap Aliases
      BY Zenon, <2>4, <3>1
    <3>3. CASE IdOf[a] = sync.id
      BY Zenon, <3>3
    <3>4. CASE IdOf[a] # sync.id
      BY Zenon, <2>1, <2>2, <2>3, <3>1, <3>2, <3>4 DEF Pending, Explored
    <3> QED
      BY Zenon, <3>3, <3>4
  <2>7. \A e \in W : cache'[e] # NotCached \/ e \in sync'.todo \/ e \in sync'.reqs
    BY Zenon, <2>1, <2>2, <2>3, <2>4 DEF Explored, IsCached
  <2>8. (Explored(W))'
    BY Zenon, <2>1, <2>2, <2>5, <2>6, <2>7 DEF Explored, IsCached
  <2>9. W \in SUBSET Entries
    BY Zenon, <2>2
  <2> QED
    BY Zenon, <2>1, <2>2, <2>8, <2>9 DEF Explores
<1>6. CASE CheckAlias
  <2> PICK b \in CachedAliases :
        sync' = [sync EXCEPT !.todo = (@ \ {b}) \cup Listed(IdOf[b])]
    BY <1>6, Zenon DEF CheckAlias
  <2>1. /\ sync.pc = "check" /\ sync'.pc = "check" /\ sync'.id = sync.id
        /\ sync'.todo = (sync.todo \ {b}) \cup Listed(IdOf[b])
        /\ sync'.reqs = sync.reqs /\ sync'.aliases = sync.aliases
        /\ sync'.stable = sync.stable /\ cache' = cache /\ server' = server
    BY Zenon, <1>6 DEF CheckAlias, TypeOK
  <2>2. /\ sync.stable \subseteq server.registered /\ sync.stable \subseteq Entries
        /\ IsCached(b)
    BY Zenon, <2>1 DEF Explores, TypeOK, CachedAliases
  <2>3. PICK V \in SUBSET Entries : Explored(V)
    BY Zenon, <2>1 DEF Explores
  <2> DEFINE W == V \cup (Visible(IdOf[b]) \cap sync.stable)
  <2>4. Visible(IdOf[b]) \cap sync.stable \subseteq sync'.todo
    BY Zenon, <2>1, <2>2 DEF Listed
  <2>5. Visible(Base) \cap sync.stable \subseteq W
    BY Zenon, <2>1, <2>3 DEF Explored
  <2>6. \A a \in (W \cap Aliases) \ Pending' : Visible(IdOf[a]) \cap sync.stable \subseteq W
    <3> SUFFICES ASSUME NEW a \in (W \cap Aliases) \ Pending'
                 PROVE  Visible(IdOf[a]) \cap sync.stable \subseteq W
      BY Zenon
    <3>1. a \notin sync'.todo /\ a \notin sync'.reqs /\ a \notin sync'.aliases
      BY Zenon DEF Pending
    <3>2. a \in V \cap Aliases
      BY Zenon, <2>4, <3>1
    <3>3. CASE a = b
      BY Zenon, <3>3
    <3>4. CASE a # b
      BY Zenon, <2>1, <2>3, <3>1, <3>2, <3>4 DEF Pending, Explored
    <3> QED
      BY Zenon, <3>3, <3>4
  <2>7. \A e \in W : cache'[e] # NotCached \/ e \in sync'.todo \/ e \in sync'.reqs
    BY Zenon, <2>1, <2>2, <2>3, <2>4 DEF Explored, IsCached
  <2>8. (Explored(W))'
    BY Zenon, <2>1, <2>2, <2>5, <2>6, <2>7 DEF Explored, IsCached
  <2>9. W \in SUBSET Entries
    BY Zenon, <2>2
  <2> QED
    BY Zenon, <2>1, <2>2, <2>8, <2>9 DEF Explores
<1>7. CASE CheckNew
  <2>1. /\ sync.pc = "check" /\ sync'.pc = "process" /\ sync'.todo = {}
        /\ sync'.reqs = sync.reqs \cup {e \in sync.todo : ~IsCached(e)}
        /\ sync'.aliases = sync.aliases /\ sync'.stable = sync.stable
        /\ cache' = cache /\ server' = server /\ CachedAliases = {}
    BY Zenon, <1>7 DEF CheckNew, TypeOK
  <2>2. ASSUME NEW V \in SUBSET Entries, Explored(V)
        PROVE  Explored(V)'
    <3>1. \A e \in V : cache'[e] # NotCached \/ e \in sync'.reqs
      BY Zenon, <2>1, <2>2 DEF Explored, IsCached
    <3>2. \A a \in (V \cap Aliases) \ Pending' : a \notin Pending
      BY Zenon, <2>1 DEF Pending, CachedAliases
    <3> QED
      BY Zenon, <2>1, <2>2, <3>1, <3>2 DEF Explored, IsCached
  <2> QED
    BY Zenon, <2>1, <2>2 DEF Explores
<1>8. CASE Process
  <2> PICK x \in {ParentOf[e] : e \in sync.reqs} :
        /\ \E signed \in SUBSET RequestsFor(x) :
             cache' = [e \in Entries |->
                         IF e \in RequestsFor(x) THEN UpdatedEntry(e, signed) ELSE cache[e]]
        /\ sync' = [sync EXCEPT !.reqs = @ \ RequestsFor(x),
                                !.aliases = @ \cup (RequestsFor(x) \cap Aliases)]
    BY <1>8, Zenon DEF Process
  <2>1. /\ sync.pc = "process" /\ sync'.pc = "process" /\ sync'.todo = sync.todo
        /\ sync'.reqs = sync.reqs \ RequestsFor(x)
        /\ sync'.aliases = sync.aliases \cup (RequestsFor(x) \cap Aliases)
        /\ sync'.stable = sync.stable /\ server' = server
    BY Zenon, <1>8 DEF Process, TypeOK
  <2>2. \A e \in Entries : /\ IsCached(e) => cache'[e] # NotCached
                           /\ e \in RequestsFor(x) => cache'[e] # NotCached
    <3> PICK signed \in SUBSET RequestsFor(x) :
          cache' = [e \in Entries |->
                      IF e \in RequestsFor(x) THEN UpdatedEntry(e, signed) ELSE cache[e]]
      BY Zenon
    <3>1. \A e \in Entries : UpdatedEntry(e, signed) # NotCached
      BY DEF UpdatedEntry, NotCached, TypeOK
    <3> QED
      BY Zenon, <3>1 DEF IsCached
  <2>3. ASSUME NEW V \in SUBSET Entries, Explored(V)
        PROVE  Explored(V)'
    <3>1. \A e \in V : cache'[e] # NotCached \/ e \in sync'.todo \/ e \in sync'.reqs
      BY Zenon, <2>1, <2>2, <2>3 DEF Explored, IsCached
    <3>2. \A a \in (V \cap Aliases) \ Pending' : a \notin Pending
      BY Zenon, <2>1 DEF Pending
    <3> QED
      BY Zenon, <2>1, <2>3, <3>1, <3>2 DEF Explored, IsCached
  <2> QED
    BY Zenon, <2>1, <2>3 DEF Explores
<1>9. CASE SyncAlias
  <2> PICK b \in sync.aliases :
        sync' = [sync EXCEPT !.pc = "list", !.id = IdOf[b], !.aliases = @ \ {b}]
    BY <1>9, Zenon DEF SyncAlias
  <2>1. /\ sync.pc = "process" /\ sync'.pc = "list" /\ sync'.todo = sync.todo
        /\ sync'.reqs = sync.reqs /\ sync.reqs = {} /\ sync'.id = IdOf[b]
        /\ sync'.aliases = sync.aliases \ {b}
        /\ sync'.stable = sync.stable /\ server' = server /\ cache' = cache
    BY Zenon, <1>9 DEF SyncAlias, TypeOK
  <2>2. ASSUME NEW V \in SUBSET Entries, Explored(V)
        PROVE  Explored(V)'
    <3>1. \A a \in (V \cap Aliases) \ Pending' : a \notin Pending
      BY Zenon, <2>1 DEF Pending
    <3> QED
      BY Zenon, <2>1, <2>2, <3>1 DEF Explored, IsCached
  <2> QED
    BY Zenon, <2>1, <2>2 DEF Explores
<1> QED
  BY Zenon, <1>1, <1>2, <1>3, <1>4, <1>5, <1>6, <1>7, <1>8, <1>9, SyncFrame

(***************************************************************************)
(* The theorems.                                                           *)
(***************************************************************************)
IInv == TypeOK /\ Phases /\ Current /\ Renews /\ Explores

LEMMA InitIInv == Init => IInv
<1> SUFFICES ASSUME Init PROVE IInv
  BY Zenon
<1>1. sync \in Syncs /\ sync.pc = "idle" /\ sync.aliases = {} /\ proc = "down"
  BY Zenon, Idle DEF Init
<1>2. PoolOK(pool)
  <2>1. NoClient # Shared
    BY Zenon DEF NoClient, Shared
  <2> QED
    BY Zenon, <2>1, Names DEF Init, PoolOK
<1>3. server \in Servers
  BY Bounds, SyncAssumption DEF Init, Servers
<1>4. /\ disk \in Disks /\ base \in [svid: SVIDs, key: 0..MaxSerial + 1]
      /\ now \in 0..MaxTime /\ bundle \in 0..MaxBundle
      /\ boots \in 0..MaxBoots /\ events \in 0..MaxEvents
  <2>1. NoSVID \in SVIDs
    BY Bounds DEF NoSVID, SVIDs
  <2> QED
    BY <2>1, Bounds DEF Init, Disks
<1>5. cache \in [Entries -> Cached \cup {NotCached}] /\ \A e \in Entries : ~IsCached(e)
  BY Zenon DEF Init, IsCached
<1>6. TypeOK
  <2>1. lost \in BOOLEAN
    BY Zenon DEF Init
  <2> QED
    BY Zenon, <1>1, <1>2, <1>3, <1>4, <1>5, <2>1 DEF TypeOK, PoolOK, Servers, Disks, Syncs
<1>7. Phases /\ Current /\ Renews /\ Explores
  BY Zenon, <1>1, <1>2, <1>5 DEF Phases, Current, Renews, Explores
<1> QED
  BY Zenon, <1>6, <1>7 DEF IInv

\* The invariant that all of the results below rest on: no step of synchronize, of a client, of
\* a rotation, of a crash or a restart breaks it.
THEOREM Invariance == Spec => []IInv
<1>1. IInv /\ [Next]_vars => IInv'
  BY Zenon, ShapeStep, CurrentStep, RenewsStep, ExploresStep DEF IInv
<1> QED
  BY <1>1, InitIInv, PTL DEF Spec

\* The state of the agent and of the server always has its type.
THEOREM TypeCorrect == Spec => []TypeOK
<1>1. IInv => TypeOK
  BY Zenon DEF IInv
<1> QED
  BY <1>1, Invariance, PTL

\* The rotator calls only with the manager's SVID, which is the one the server knows unless an
\* answer or a write was lost (rotateSVID, ensureRotationClient).
THEOREM RotatorStaysCurrent == Spec => []RotatorIsCurrent
<1>1. IInv => RotatorIsCurrent
  BY Zenon DEF IInv, Current, RotatorIsCurrent
<1> QED
  BY <1>1, Invariance, PTL

\* A synchronize that succeeds leaves no SVID that was past half of its life when it began
\* (checkExpiredCacheEntries).
THEOREM RenewalIsComplete == Spec => SyncRenews
<1> DEFINE A == SyncDone => \A e \in Entries :
                  IsCached(e) => 2 * (cache[e].born + Life - sync.began) >= Life
<1>1. IInv /\ [Next]_vars => [A]_vars
  BY Zenon DEF IInv, Renews, SyncDone
<1>2. Spec => [][A]_vars
  BY <1>1, Invariance, PTL DEF Spec
<1> QED
  BY Zenon, <1>2 DEF SyncRenews

\* A synchronize that succeeds has cached every entry that was registered all the while and that
\* the agent can find, through whatever chain of aliases (checkForNewCacheEntries,
\* processEntryRequests).
THEOREM SearchIsComplete == Spec => SyncIsComplete
<1> DEFINE A == SyncDone => \A e \in Found(sync.stable) : IsCached(e)
<1>1. IInv /\ SyncDone => A
  <2> SUFFICES ASSUME IInv, SyncDone, NEW e \in Found(sync.stable)
               PROVE  IsCached(e)
    BY Zenon
  <2>1. sync.pc = "process" /\ sync.reqs = {} /\ sync.aliases = {} /\ sync.todo = {}
    BY Zenon DEF IInv, Explores, SyncDone
  <2>2. PICK V \in SUBSET Entries : Explored(V)
    BY Zenon, <2>1 DEF IInv, Explores
  <2>3. Pending = {}
    BY Zenon, <2>1 DEF Pending
  <2>4. Covers(V \cap sync.stable, sync.stable)
    BY Zenon, <2>1, <2>2, <2>3 DEF Covers, Explored
  <2>5. e \in V
    BY Zenon, <2>4 DEF Found
  <2> QED
    BY Zenon, <2>1, <2>2, <2>5 DEF Explored
<1>2. IInv /\ [Next]_vars => [A]_vars
  BY Zenon, <1>1
<1>3. Spec => [][A]_vars
  BY <1>2, Invariance, PTL DEF Spec
<1> QED
  BY Zenon, <1>3 DEF SyncIsComplete

================================================================================
