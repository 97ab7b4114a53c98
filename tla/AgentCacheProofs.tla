---------------------------- MODULE AgentCacheProofs ----------------------------
(***************************************************************************)
(* The inductive invariants of AgentCache and their proofs, for every set  *)
(* of writers, streams, entries and selectors and every bound on the       *)
(* writes: nobody misses an update, and updates arrive in order.           *)
(***************************************************************************)
EXTENDS AgentCache, TLAPS

\* Exactly the goroutine inside notifySubscribers' critical section holds the mutex.
MutexInv == \A t \in Threads : pc[t] \in LockedPCs <=> notifyMutex = t

\* An active subscriber is registered, and a channel that was replaced under the
\* handler still buffers its update and has a fuller successor.
ChannelInv ==
  \A s \in Streams :
    /\ active[s] => s \in registered
    /\ pc[s] # "panic"
    /\ ref[s] # "none" => pc[s] = "select"
    /\ ref[s] = "old" => chan[s] # <<>> /\ old[s] # <<>>

\* Some goroutine is going to take a snapshot of the entries and send it to s.
PendingEntries(s) ==
  \/ \E w \in Writers : pc[w] = "get" /\ target[w] \cap sel[s] # {}
  \/ \E t \in Threads : pc[t] \in {"lock", "entries"} /\ s \in subs[t]

\* Some goroutine is going to take a snapshot of the bundle and send it to s.
PendingBundle(s) ==
  \/ \E w \in Writers : pc[w] = "getall"
  \/ \E t \in Threads : pc[t] \in {"lock", "entries", "bundle"} /\ s \in subs[t]

\* The entries that the cache holds for s.
View(s) == SubscriberEntries(sel[s], cache)

\* A snapshot of the entries on its way to s is current, or a later one is pending.
SnapshotEntries(s) ==
  \A t \in Threads : pc[t] \in {"bundle", "send"} /\ s \in subs[t] =>
    SubscriberEntries(sel[s], snapE[t]) = View(s) \/ PendingEntries(s)

\* The same for a snapshot of the bundle.
SnapshotBundle(s) ==
  \A t \in Threads : pc[t] = "send" /\ s \in subs[t] =>
    snapB[t] = bundle \/ PendingBundle(s)

\* The entries in the newest update of s are current, or a snapshot of them is on
\* its way or pending.
LatestEntries(s) ==
  \/ Latest(s).ents = View(s)
  \/ PendingEntries(s)
  \/ \E t \in Threads : pc[t] \in {"bundle", "send"} /\ s \in subs[t]

\* The same for the bundle in the newest update.
LatestBundle(s) ==
  \/ Latest(s).bundle = bundle
  \/ PendingBundle(s)
  \/ \E t \in Threads : pc[t] = "send" /\ s \in subs[t]

\* The newest update of an active subscriber is current, or a newer one is coming.
FreshInv ==
  \A s \in Streams : active[s] =>
    SnapshotEntries(s) /\ SnapshotBundle(s) /\ LatestEntries(s) /\ LatestBundle(s)

\* The inductive invariant.
IInv == TypeOK /\ MutexInv /\ ChannelInv /\ FreshInv

-----------------------------------------------------------------------------
(* Helpers. *)

\* subscriberEntries selects versions from versions.
LEMMA SubscriberEntriesType ==
  ASSUME NEW sels, NEW c \in [Entries -> Versions]
  PROVE  SubscriberEntries(sels, c) \in [Entries -> Versions]
BY MaxWritesAssumption DEF SubscriberEntries, Versions

\* The empty update is an update.
LEMMA NoUpdateType == NoUpdate \in Update /\ NoEntries \in [Entries -> Versions]
BY MaxWritesAssumption DEF NoUpdate, NoEntries, Update, Versions

\* notifySubscribers composes updates.
LEMMA ComposeType ==
  ASSUME TypeOK, NEW t \in Threads, NEW s \in Streams
  PROVE  Compose(t, s) \in Update
<1>1. snapE[t] \in [Entries -> Versions] /\ snapB[t] \in Versions
  BY Zenon DEF TypeOK
<1>2. SubscriberEntries(sel[s], snapE[t]) \in [Entries -> Versions]
  BY Zenon, <1>1, SubscriberEntriesType
<1>3. QED
  BY Zenon, <1>1, <1>2 DEF Compose, Update

\* A channel buffers nothing or one update, which a receive takes.
LEMMA BufferType ==
  /\ <<>> \in Buffer
  /\ \A u \in Update : <<u>> \in Buffer /\ <<u>> # <<>> /\ Head(<<u>>) = u /\ <<u>>[1] = u
  /\ \A b \in Buffer : b # <<>> => b[1] \in Update /\ Head(b) = b[1]
<1>1. \A u \in Update : <<u>> # <<>> /\ Head(<<u>>) = u /\ <<u>>[1] = u
  OBVIOUS
<1>2. QED
  BY Zenon, <1>1 DEF Buffer

-----------------------------------------------------------------------------
(* Type correctness. *)

\* The initial state is well typed.
LEMMA TypeInit == Init => TypeOK
<1> SUFFICES ASSUME Init PROVE TypeOK
  BY Zenon
<1>1. 0 \in Versions /\ 1 \in Versions
  BY MaxWritesAssumption DEF Versions
<1>2. pc \in [Threads -> WriterPCs \cup NotifyPCs \cup StreamPCs]
  BY Zenon DEF Init, WriterPCs, NotifyPCs, StreamPCs
<1>3. /\ \A w \in Writers : pc[w] \in WriterPCs \cup NotifyPCs
      /\ \A s \in Streams : pc[s] \in StreamPCs \cup NotifyPCs
  BY Zenon, DistinctThreads DEF Init, Threads, WriterPCs, NotifyPCs, StreamPCs
<1>4. QED
  BY Zenon, <1>1, <1>2, <1>3, NoUpdateType, BufferType DEF Init, TypeOK

\* Every step keeps the types.
LEMMA TypeStep == TypeOK /\ [Next]_vars => TypeOK'
<1> SUFFICES ASSUME TypeOK, [Next]_vars PROVE TypeOK'
  BY Zenon
<1> USE DistinctThreads DEF TypeOK, Threads, WriterPCs, NotifyPCs, StreamPCs,
        dataVars, subVars, chanVars, notifyVars, Goto
<1>1. ASSUME NEW w \in Writers, NEW e \in Entries, SetEntry(w, e) PROVE TypeOK'
  <2>1. clock + 1 \in Versions
    BY <1>1, MaxWritesAssumption DEF SetEntry, Versions
  <2>2. EntrySel[e] \in SUBSET Selectors
    BY Zenon, EntrySelAssumption
  <2>3. QED
    BY Zenon, <1>1, <2>1, <2>2 DEF SetEntry
<1>2. ASSUME NEW w \in Writers, NEW e \in Entries, DeleteEntry(w, e) PROVE TypeOK'
  BY <1>2, MaxWritesAssumption DEF DeleteEntry, CallNotify, SubscribersGet, Versions
<1>3. ASSUME NEW w \in Writers, SetBundle(w) PROVE TypeOK'
  BY <1>3, MaxWritesAssumption DEF SetBundle, Versions
<1>4. ASSUME NEW w \in Writers, SetEntryGet(w) PROVE TypeOK'
  BY Zenon, <1>4 DEF SetEntryGet, CallNotify, SubscribersGet
<1>5. ASSUME NEW w \in Writers, SetBundleGetAll(w) PROVE TypeOK'
  BY Zenon, <1>5 DEF SetBundleGetAll, CallNotify
<1>6. ASSUME NEW t \in Threads, NotifyLock(t) PROVE TypeOK'
  BY Zenon, <1>6 DEF NotifyLock
<1>7. ASSUME NEW t \in Threads, NotifyEntries(t) PROVE TypeOK'
  BY Zenon, <1>7 DEF NotifyEntries
<1>8. ASSUME NEW t \in Threads, NotifyBundle(t) PROVE TypeOK'
  BY Zenon, <1>8 DEF NotifyBundle
<1>9. ASSUME NEW t \in Threads, NEW s \in Streams, NotifySub(t, s) PROVE TypeOK'
  <2>1. Compose(t, s) \in Update
    BY Zenon, ComposeType
  <2>2. CASE active[s]
    <3>1. <<Compose(t, s)>> \in Buffer
      BY Zenon, <2>1, BufferType
    <3>0. Send(s, Compose(t, s))
      BY Zenon, <1>9, <2>2 DEF NotifySub
    <3>2a. chan' \in [Streams -> Buffer]
      BY Zenon, <3>0, <3>1 DEF Send
    <3>2b. old' \in [Streams -> Buffer]
      <4>1. chan[s] \in Buffer /\ old \in [Streams -> Buffer]
        BY Zenon
      <4>2. old' = [old EXCEPT ![s] = chan[s]] \/ old' = old
        BY Zenon, <3>0 DEF Send
      <4>3. QED
        BY ZenonT(60), <4>1, <4>2
    <3>3. ref' \in [Streams -> {"none", "cur", "old"}]
      BY SMTT(60), <1>9, <2>2 DEF NotifySub, Send
    <3>4. QED
      BY Zenon, <1>9, <2>2, <3>2a, <3>2b, <3>3 DEF NotifySub, Send
  <2>3. CASE ~active[s]
    BY Zenon, <1>9, <2>3 DEF NotifySub
  <2>4. QED
    BY Zenon, <2>2, <2>3
<1>10. ASSUME NEW t \in Threads, NotifyUnlock(t) PROVE TypeOK'
  BY <1>10, NoUpdateType, MaxWritesAssumption DEF NotifyUnlock, Return, Versions
<1>11. ASSUME NEW s \in Streams, Reject(s) PROVE TypeOK'
  BY Zenon, <1>11 DEF Reject
<1>12. ASSUME NEW s \in Streams, Subscribe(s) PROVE TypeOK'
  BY <1>12 DEF Subscribe
<1>13. ASSUME NEW s \in Streams, Updates(s) PROVE TypeOK'
  BY Zenon, <1>13 DEF Updates
<1>14. ASSUME NEW s \in Streams, ReceiveCurrent(s) PROVE TypeOK'
  BY <1>14, BufferType DEF ReceiveCurrent
<1>15. ASSUME NEW s \in Streams, ReceiveOld(s) PROVE TypeOK'
  <2>1. old[s] # <<>> => Head(old[s]) \in Update
    BY BufferType
  <2>2. got' \in [Streams -> Update]
    <3>1. \/ old[s] # <<>> /\ got' = [got EXCEPT ![s] = Head(old[s])]
          \/ got' = got
      BY Zenon, <1>15 DEF ReceiveOld
    <3>2. CASE got' = got
      BY Zenon, <3>2
    <3>3. CASE old[s] # <<>> /\ got' = [got EXCEPT ![s] = Head(old[s])]
      BY Zenon, <2>1, <3>3
    <3>4. QED
      BY Zenon, <3>1, <3>2, <3>3
  <2>3. old' \in [Streams -> Buffer]
    <3>1. old' = [old EXCEPT ![s] = <<>>] \/ old' = old
      BY Zenon, <1>15 DEF ReceiveOld
    <3>2. QED
      BY SMTT(60), <3>1, BufferType
  <2>4. QED
    BY ZenonT(40), <1>15, <2>2, <2>3 DEF ReceiveOld
<1>16. ASSUME NEW s \in Streams, Respond(s) PROVE TypeOK'
  BY ZenonT(40), <1>16 DEF Respond
<1>17. ASSUME NEW s \in Streams, ContextDone(s) PROVE TypeOK'
  BY Zenon, <1>17, BufferType DEF ContextDone
<1>18. ASSUME NEW s \in Streams, Finish(s) PROVE TypeOK'
  BY Zenon, <1>18, NoUpdateType, BufferType DEF Finish
<1>19. CASE UNCHANGED vars
  BY Zenon, <1>19 DEF vars
<1>20. QED
  BY Zenon, <1>1, <1>2, <1>3, <1>4, <1>5, <1>6, <1>7, <1>8, <1>9, <1>10, <1>11, <1>12,
     <1>13, <1>14, <1>15, <1>16, <1>17, <1>18, <1>19
  DEF Next, WriterStep, NotifyStep, StreamStep

\* AgentCache keeps the types of all its state, whatever its constants are.
THEOREM TypeCorrect == Spec => []TypeOK
BY TypeInit, TypeStep, PTL DEF Spec

-----------------------------------------------------------------------------
(* notifyMutex is held by exactly one goroutine in the critical section. *)

\* notifyMutex excludes: every step keeps MutexInv.
LEMMA MutexStep == TypeOK /\ MutexInv /\ [Next]_vars => MutexInv'
<1> SUFFICES ASSUME TypeOK, MutexInv, [Next]_vars PROVE MutexInv'
  BY Zenon
<1> USE DistinctThreads DEF MutexInv, LockedPCs, Threads, Goto, dataVars, subVars,
        chanVars, notifyVars
<1>0. pc \in [Threads -> WriterPCs \cup NotifyPCs \cup StreamPCs]
  BY Zenon DEF TypeOK
<1>1. ASSUME NEW w \in Writers, WriterStep(w) PROVE MutexInv'
  BY Zenon, <1>0, <1>1 DEF WriterStep, SetEntry, DeleteEntry, SetBundle, SetEntryGet,
                           SetBundleGetAll, CallNotify
<1>2. ASSUME NEW t \in Threads, NotifyStep(t) PROVE MutexInv'
  <2>1. CASE NotifyLock(t)
    BY Zenon, <1>0, <2>1 DEF NotifyLock
  <2>2. CASE NotifyEntries(t)
    BY Zenon, <1>0, <2>2 DEF NotifyEntries
  <2>3. CASE NotifyBundle(t)
    BY Zenon, <1>0, <2>3 DEF NotifyBundle
  <2>4. CASE \E s \in Streams : NotifySub(t, s)
    BY Zenon, <1>0, <2>4 DEF NotifySub
  <2>5. CASE NotifyUnlock(t)
    BY Zenon, <1>0, <2>5 DEF NotifyUnlock, Return
  <2>6. QED
    BY Zenon, <1>2, <2>1, <2>2, <2>3, <2>4, <2>5 DEF NotifyStep
<1>3. ASSUME NEW s \in Streams, StreamStep(s) PROVE MutexInv'
  BY Zenon, <1>0, <1>3 DEF StreamStep, Reject, Subscribe, Updates, ReceiveCurrent,
                           ReceiveOld, Respond, ContextDone, Finish
<1>4. CASE UNCHANGED vars
  BY Zenon, <1>4 DEF vars
<1>5. QED
  BY Zenon, <1>1, <1>2, <1>3, <1>4 DEF Next

-----------------------------------------------------------------------------
(* Channels: the handler never waits on a closed and drained one. *)

\* Every step keeps ChannelInv.
LEMMA ChannelStep == TypeOK /\ ChannelInv /\ [Next]_vars => ChannelInv'
<1> SUFFICES ASSUME TypeOK, ChannelInv, [Next]_vars PROVE ChannelInv'
  BY Zenon
<1> USE DistinctThreads DEF ChannelInv, Threads, Goto, dataVars, subVars,
        chanVars, notifyVars
<1>0. /\ pc \in [Threads -> WriterPCs \cup NotifyPCs \cup StreamPCs]
      /\ active \in [Streams -> BOOLEAN]
      /\ ref \in [Streams -> {"none", "cur", "old"}]
      /\ chan \in [Streams -> Buffer]
      /\ old \in [Streams -> Buffer]
  BY Zenon DEF TypeOK
<1>1. ASSUME NEW w \in Writers, WriterStep(w) PROVE ChannelInv'
  BY <1>0, <1>1 DEF WriterStep, SetEntry, DeleteEntry, SetBundle, SetEntryGet,
                    SetBundleGetAll, CallNotify
<1>2. ASSUME NEW t \in Threads, NotifyStep(t) PROVE ChannelInv'
  <2>1. CASE NotifyLock(t) \/ NotifyEntries(t) \/ NotifyBundle(t) \/ NotifyUnlock(t)
    BY <1>0, <2>1 DEF NotifyLock, NotifyEntries, NotifyBundle, NotifyUnlock, Return
  <2>2. ASSUME NEW s \in Streams, NotifySub(t, s) PROVE ChannelInv'
    <3>1. CASE active[s]
      <4>1. <<Compose(t, s)>> # <<>>
        BY Zenon
      <4>2. pc' = pc /\ active' = active /\ registered' = registered
        BY Zenon, <2>2, <3>1 DEF NotifySub
      <4>3. Send(s, Compose(t, s))
        BY Zenon, <2>2, <3>1 DEF NotifySub
      <4>4. ASSUME NEW x \in Streams
            PROVE  /\ ref'[x] # "none" => pc[x] = "select"
                   /\ ref'[x] = "old" => chan'[x] # <<>> /\ old'[x] # <<>>
        BY <4>3, <4>1, <4>4, <1>0 DEF Send
      <4>5. QED
        BY Zenon, <4>2, <4>4
    <3>2. CASE ~active[s]
      BY Zenon, <2>2, <3>2, <1>0 DEF NotifySub
    <3>3. QED
      BY Zenon, <3>1, <3>2
  <2>3. QED
    BY Zenon, <1>2, <2>1, <2>2 DEF NotifyStep
<1>3. ASSUME NEW s \in Streams, StreamStep(s) PROVE ChannelInv'
  BY SMTT(30), <1>0, <1>3 DEF StreamStep, Reject, Subscribe, Updates, ReceiveCurrent,
                              ReceiveOld, Respond, ContextDone, Finish
<1>4. CASE UNCHANGED vars
  BY Zenon, <1>4 DEF vars
<1>5. QED
  BY Zenon, <1>1, <1>2, <1>3, <1>4 DEF Next

\* A write leaves a notification pending for those it concerns.
LEMMA FreshWriter ==
  ASSUME IInv, NEW w \in Writers, WriterStep(w) PROVE FreshInv'
<1> SUFFICES ASSUME NEW s \in Streams, active'[s]
             PROVE  (SnapshotEntries(s) /\ SnapshotBundle(s)
                       /\ LatestEntries(s) /\ LatestBundle(s))'
  BY Zenon DEF FreshInv
<1> Writers \subseteq Threads /\ Streams \subseteq Threads
  BY Zenon DEF Threads
<1> USE DEF Goto, dataVars, subVars, chanVars, notifyVars
<1>0. /\ pc \in [Threads -> WriterPCs \cup NotifyPCs \cup StreamPCs]
      /\ subs \in [Threads -> SUBSET Streams]
      /\ target \in [Writers -> SUBSET Selectors]
      /\ cache \in [Entries -> Versions]
  BY Zenon DEF IInv, TypeOK
<1>1. /\ active[s] /\ s \in registered /\ UNCHANGED <<active, registered, sel, chan, got, snapE, snapB>>
      /\ SnapshotEntries(s) /\ SnapshotBundle(s) /\ LatestEntries(s) /\ LatestBundle(s)
  BY Zenon DEF IInv, FreshInv, ChannelInv, WriterStep, SetEntry, DeleteEntry, SetBundle, SetEntryGet,
               SetBundleGetAll, CallNotify
<1>2. Latest(s)' = Latest(s)
  BY Zenon, <1>1 DEF Latest
<1>3. ASSUME NEW e \in Entries, SetEntry(w, e)
      PROVE  (SnapshotEntries(s) /\ SnapshotBundle(s) /\ LatestEntries(s) /\ LatestBundle(s))'
  <2>1. PendingBundle(s) => PendingBundle(s)'
    BY Zenon, <1>0, <1>1, <1>3 DEF PendingBundle, SetEntry
  <2>2. PendingEntries(s) => PendingEntries(s)'
    BY Zenon, <1>0, <1>1, <1>3 DEF PendingEntries, SetEntry
  <2>3. CASE EntrySel[e] \cap sel[s] = {}
    <3>1. View(s)' = View(s)
      <4>1. SubscriberEntries(sel[s], [cache EXCEPT ![e] = clock + 1])
              = SubscriberEntries(sel[s], cache)
        <5>1. EntrySel[e] # {} /\ ~(EntrySel[e] \subseteq sel[s])
          BY Zenon, <2>3, EntrySelAssumption
        <5>2. QED
          BY Zenon, <1>0, <5>1 DEF SubscriberEntries
      <4>2. cache' = [cache EXCEPT ![e] = clock + 1] /\ sel' = sel
        BY Zenon, <1>1, <1>3 DEF SetEntry
      <4>3. QED
        BY Zenon, <4>1, <4>2 DEF View, SubscriberEntries
    <3>2. QED
      BY Zenon, <1>0, <1>1, <1>2, <1>3, <2>1, <2>2, <3>1
      DEF SetEntry, SnapshotEntries, SnapshotBundle, LatestEntries, LatestBundle
  <2>4. CASE EntrySel[e] \cap sel[s] # {}
    <3>1. PendingEntries(s)'
      BY Zenon, <1>0, <1>1, <1>3, <2>4 DEF PendingEntries, SetEntry
    <3>2. QED
      BY Zenon, <1>0, <1>1, <1>2, <1>3, <2>1, <3>1
      DEF SetEntry, SnapshotEntries, SnapshotBundle, LatestEntries, LatestBundle
  <2>5. QED
    BY Zenon, <2>3, <2>4
<1>4. ASSUME NEW e \in Entries, DeleteEntry(w, e)
      PROVE  (SnapshotEntries(s) /\ SnapshotBundle(s) /\ LatestEntries(s) /\ LatestBundle(s))'
  <2>0. SubscribersGet(EntrySel[e]) \in SUBSET Streams
    BY Zenon DEF SubscribersGet, IInv, TypeOK
  <2>1. PendingBundle(s) => PendingBundle(s)'
    BY Zenon, <1>0, <1>1, <1>4 DEF PendingBundle, DeleteEntry, CallNotify
  <2>2. PendingEntries(s) => PendingEntries(s)'
    BY Zenon, <1>0, <1>1, <1>4 DEF PendingEntries, DeleteEntry, CallNotify
  <2>3. CASE EntrySel[e] \cap sel[s] = {}
    <3>1. View(s)' = View(s)
      <4>1. SubscriberEntries(sel[s], [cache EXCEPT ![e] = 0])
              = SubscriberEntries(sel[s], cache)
        <5>1. EntrySel[e] # {} /\ ~(EntrySel[e] \subseteq sel[s])
          BY Zenon, <2>3, EntrySelAssumption
        <5>2. QED
          BY Zenon, <1>0, <5>1 DEF SubscriberEntries
      <4>2. cache' = [cache EXCEPT ![e] = 0] /\ sel' = sel
        BY Zenon, <1>1, <1>4 DEF DeleteEntry
      <4>3. QED
        BY Zenon, <4>1, <4>2 DEF View, SubscriberEntries
    <3>2. QED
      BY Zenon, <1>0, <1>1, <1>2, <1>4, <2>0, <2>1, <2>2, <3>1
      DEF DeleteEntry, CallNotify, SnapshotEntries, SnapshotBundle, LatestEntries, LatestBundle
  <2>4. CASE EntrySel[e] \cap sel[s] # {}
    <3>1. s \in SubscribersGet(EntrySel[e])
      BY Zenon, <1>1, <2>4 DEF SubscribersGet
    <3>2. PendingEntries(s)'
      BY Zenon, <1>0, <1>1, <1>4, <3>1 DEF PendingEntries, DeleteEntry, CallNotify
    <3>3. QED
      BY Zenon, <1>0, <1>1, <1>2, <1>4, <2>0, <2>1, <3>2
      DEF DeleteEntry, CallNotify, SnapshotEntries, SnapshotBundle, LatestEntries, LatestBundle
  <2>5. QED
    BY Zenon, <2>3, <2>4
<1>5. CASE SetBundle(w)
  <2>1. PendingBundle(s)'
    BY Zenon, <1>0, <1>5 DEF PendingBundle, SetBundle
  <2>2. PendingEntries(s) => PendingEntries(s)'
    BY Zenon, <1>0, <1>1, <1>5 DEF PendingEntries, SetBundle
  <2>3. View(s)' = View(s)
    BY Zenon, <1>1, <1>5 DEF View, SetBundle
  <2>4. QED
    BY Zenon, <1>0, <1>1, <1>2, <1>5, <2>1, <2>2, <2>3
    DEF SetBundle, SnapshotEntries, SnapshotBundle, LatestEntries, LatestBundle
<1>6. CASE SetEntryGet(w)
  <2>1. PendingEntries(s) => PendingEntries(s)'
    <3>1. CASE target[w] \cap sel[s] # {}
      <4>1. s \in SubscribersGet(target[w])
        BY Zenon, <1>1, <3>1 DEF SubscribersGet
      <4>2. QED
        BY Zenon, <1>0, <1>1, <1>6, <4>1 DEF PendingEntries, SetEntryGet, CallNotify
    <3>2. CASE target[w] \cap sel[s] = {}
      BY <1>0, <1>1, <1>6, <3>2 DEF PendingEntries, SetEntryGet, CallNotify
    <3>3. QED
      BY Zenon, <3>1, <3>2
  <2>2. PendingBundle(s) => PendingBundle(s)'
    BY Zenon, <1>0, <1>1, <1>6 DEF PendingBundle, SetEntryGet, CallNotify
  <2>3. View(s)' = View(s)
    BY Zenon, <1>1, <1>6 DEF View, SetEntryGet
  <2>4. QED
    BY Zenon, <1>0, <1>1, <1>2, <1>6, <2>1, <2>2, <2>3
    DEF SetEntryGet, CallNotify, SnapshotEntries, SnapshotBundle, LatestEntries, LatestBundle
<1>7. CASE SetBundleGetAll(w)
  <2>1. PendingEntries(s) => PendingEntries(s)'
    BY Zenon, <1>0, <1>1, <1>7 DEF PendingEntries, SetBundleGetAll, CallNotify
  <2>2. PendingBundle(s)'
    BY Zenon, <1>0, <1>1, <1>7 DEF PendingBundle, SetBundleGetAll, CallNotify
  <2>3. View(s)' = View(s)
    BY Zenon, <1>1, <1>7 DEF View, SetBundleGetAll
  <2>4. QED
    BY Zenon, <1>0, <1>1, <1>2, <1>7, <2>1, <2>2, <2>3
    DEF SetBundleGetAll, CallNotify, SnapshotEntries, SnapshotBundle, LatestEntries, LatestBundle
<1>8. QED
  BY Zenon, <1>3, <1>4, <1>5, <1>6, <1>7 DEF WriterStep

\* A step of notifySubscribers sends what was pending.
LEMMA FreshNotify ==
  ASSUME IInv, NEW t \in Threads, NotifyStep(t) PROVE FreshInv'
<1> SUFFICES ASSUME NEW s \in Streams, active'[s]
             PROVE  (SnapshotEntries(s) /\ SnapshotBundle(s)
                       /\ LatestEntries(s) /\ LatestBundle(s))'
  BY Zenon DEF FreshInv
<1> Writers \subseteq Threads /\ Streams \subseteq Threads
  BY Zenon DEF Threads
<1> USE DEF Goto, dataVars, subVars, chanVars, notifyVars
<1>0. /\ pc \in [Threads -> WriterPCs \cup NotifyPCs \cup StreamPCs]
      /\ subs \in [Threads -> SUBSET Streams]
      /\ snapE \in [Threads -> [Entries -> Versions]]
      /\ snapB \in [Threads -> Versions]
      /\ chan \in [Streams -> Buffer]
  BY Zenon DEF IInv, TypeOK
<1>1. /\ active[s] /\ UNCHANGED <<cache, bundle, active, sel, target, got>>
      /\ SnapshotEntries(s) /\ SnapshotBundle(s) /\ LatestEntries(s) /\ LatestBundle(s)
  BY Zenon DEF IInv, FreshInv, NotifyStep, NotifyLock, NotifyEntries, NotifyBundle,
               NotifySub, NotifyUnlock, Send
<1>2. View(s)' = View(s)
  BY Zenon, <1>1 DEF View
<1>3. \A u \in Threads : pc[t] \in LockedPCs /\ pc[u] \in LockedPCs => u = t
  BY Zenon DEF IInv, MutexInv
<1>4. CASE NotifyLock(t)
  <2>1. PendingEntries(s) => PendingEntries(s)'
    BY Zenon, <1>0, <1>1, <1>4 DEF PendingEntries, NotifyLock
  <2>2. PendingBundle(s) => PendingBundle(s)'
    BY Zenon, <1>0, <1>1, <1>4 DEF PendingBundle, NotifyLock
  <2>3. Latest(s)' = Latest(s)
    BY Zenon, <1>4 DEF Latest, NotifyLock
  <2>4. QED
    BY Zenon, <1>0, <1>1, <1>2, <1>4, <2>1, <2>2, <2>3
    DEF NotifyLock, SnapshotEntries, SnapshotBundle, LatestEntries, LatestBundle
<1>5. CASE NotifyEntries(t)
  <2>1. PendingBundle(s) => PendingBundle(s)'
    BY Zenon, <1>0, <1>1, <1>5 DEF PendingBundle, NotifyEntries
  <2>2. Latest(s)' = Latest(s)
    BY Zenon, <1>5 DEF Latest, NotifyEntries
  <2>3. PendingEntries(s) =>
          \/ PendingEntries(s)'
          \/ \E u \in Threads : pc'[u] \in {"bundle", "send"} /\ s \in subs'[u]
    BY Zenon, <1>0, <1>1, <1>5 DEF PendingEntries, NotifyEntries
  <2>4. SnapshotEntries(s)'
    <3>1. \A u \in Threads : pc'[u] \in {"bundle", "send"} => u = t
      BY Zenon, <1>0, <1>3, <1>5 DEF NotifyEntries, LockedPCs
    <3>2. snapE'[t] = cache
      BY Zenon, <1>0, <1>5 DEF NotifyEntries
    <3>3. QED
      BY Zenon, <3>1, <3>2, <1>1 DEF SnapshotEntries, View
  <2>5. LatestEntries(s)'
    BY Zenon, <1>0, <1>1, <1>2, <1>5, <2>2, <2>3 DEF NotifyEntries, LatestEntries
  <2>6. SnapshotBundle(s)' /\ LatestBundle(s)'
    BY Zenon, <1>0, <1>1, <1>5, <2>1, <2>2 DEF NotifyEntries, SnapshotBundle, LatestBundle
  <2>7. QED
    BY Zenon, <2>4, <2>5, <2>6
<1>6. CASE NotifyBundle(t)
  <2>1. PendingEntries(s) => PendingEntries(s)'
    BY Zenon, <1>0, <1>1, <1>6 DEF PendingEntries, NotifyBundle
  <2>2. Latest(s)' = Latest(s)
    BY Zenon, <1>6 DEF Latest, NotifyBundle
  <2>3. PendingBundle(s) =>
          \/ PendingBundle(s)'
          \/ \E u \in Threads : pc'[u] = "send" /\ s \in subs'[u]
    BY Zenon, <1>0, <1>1, <1>6 DEF PendingBundle, NotifyBundle
  <2>4. SnapshotBundle(s)'
    <3>1. \A u \in Threads : pc'[u] = "send" => u = t
      BY Zenon, <1>0, <1>3, <1>6 DEF NotifyBundle, LockedPCs
    <3>2. snapB'[t] = bundle
      BY Zenon, <1>0, <1>6 DEF NotifyBundle
    <3>3. QED
      BY Zenon, <3>1, <3>2, <1>1 DEF SnapshotBundle
  <2>5. LatestBundle(s)'
    BY Zenon, <1>0, <1>1, <1>6, <2>2, <2>3 DEF NotifyBundle, LatestBundle
  <2>6. SnapshotEntries(s)' /\ LatestEntries(s)'
    BY Zenon, <1>0, <1>1, <1>2, <1>6, <2>1, <2>2 DEF NotifyBundle, SnapshotEntries, LatestEntries
  <2>7. QED
    BY Zenon, <2>4, <2>5, <2>6
<1>7. ASSUME NEW x \in Streams, NotifySub(t, x)
      PROVE  (SnapshotEntries(s) /\ SnapshotBundle(s) /\ LatestEntries(s) /\ LatestBundle(s))'
  <2>1. PendingEntries(s) => PendingEntries(s)'
    BY Zenon, <1>0, <1>1, <1>7 DEF PendingEntries, NotifySub
  <2>2. PendingBundle(s) => PendingBundle(s)'
    BY Zenon, <1>0, <1>1, <1>7 DEF PendingBundle, NotifySub
  <2>3. SnapshotEntries(s)' /\ SnapshotBundle(s)'
    BY Zenon, <1>0, <1>1, <1>2, <1>7, <2>1, <2>2 DEF NotifySub, SnapshotEntries, SnapshotBundle
  <2>4. CASE x = s
    <3>1. chan'[s] = <<Compose(t, s)>>
      BY Zenon, <1>0, <1>1, <1>7, <2>4 DEF NotifySub, Send
    <3>2. Latest(s)' = Compose(t, s)
      BY <3>1 DEF Latest
    <3>3. /\ Latest(s)'.ents = SubscriberEntries(sel[s], snapE[t])
          /\ Latest(s)'.bundle = snapB[t]
      BY <3>2 DEF Compose
    <3>4. /\ SubscriberEntries(sel[s], snapE[t]) = View(s) \/ PendingEntries(s)
          /\ snapB[t] = bundle \/ PendingBundle(s)
      BY Zenon, <1>1, <1>7, <2>4 DEF SnapshotEntries, SnapshotBundle, NotifySub
    <3>5. QED
      BY Zenon, <1>1, <1>2, <2>1, <2>2, <2>3, <3>3, <3>4 DEF LatestEntries, LatestBundle
  <2>5. CASE x # s
    <3>1. chan'[s] = chan[s]
      BY Zenon, <1>0, <1>7, <2>5 DEF NotifySub, Send
    <3>2. Latest(s)' = Latest(s)
      BY Zenon, <1>1, <3>1 DEF Latest
    <3>3. QED
      BY Zenon, <1>0, <1>1, <1>2, <1>7, <2>1, <2>2, <2>3, <2>5, <3>2
      DEF NotifySub, LatestEntries, LatestBundle
  <2>6. QED
    BY Zenon, <2>4, <2>5
<1>8. CASE NotifyUnlock(t)
  <2>1. PendingEntries(s) => PendingEntries(s)'
    BY Zenon, <1>0, <1>1, <1>8 DEF PendingEntries, NotifyUnlock
  <2>2. PendingBundle(s) => PendingBundle(s)'
    BY Zenon, <1>0, <1>1, <1>8 DEF PendingBundle, NotifyUnlock
  <2>3. Latest(s)' = Latest(s)
    BY Zenon, <1>8 DEF Latest, NotifyUnlock
  <2>4. QED
    BY Zenon, <1>0, <1>1, <1>2, <1>8, <2>1, <2>2, <2>3
    DEF NotifyUnlock, Return, SnapshotEntries, SnapshotBundle, LatestEntries, LatestBundle
<1>9. QED
  BY Zenon, <1>4, <1>5, <1>6, <1>7, <1>8 DEF NotifyStep

\* A handler's step keeps its newest update.
LEMMA FreshStream ==
  ASSUME IInv, NEW x \in Streams, StreamStep(x) PROVE FreshInv'
<1> SUFFICES ASSUME NEW s \in Streams, active'[s]
             PROVE  (SnapshotEntries(s) /\ SnapshotBundle(s)
                       /\ LatestEntries(s) /\ LatestBundle(s))'
  BY Zenon DEF FreshInv
<1> Writers \subseteq Threads /\ Streams \subseteq Threads
  BY Zenon DEF Threads
<1> USE DEF Goto, dataVars, subVars, chanVars, notifyVars
<1>0. /\ pc \in [Threads -> WriterPCs \cup NotifyPCs \cup StreamPCs]
      /\ subs \in [Threads -> SUBSET Streams]
      /\ active \in [Streams -> BOOLEAN]
      /\ chan \in [Streams -> Buffer]
      /\ got \in [Streams -> Update]
      /\ sel \in [Streams -> SUBSET Selectors]
  BY Zenon DEF IInv, TypeOK
<1>1. CASE Subscribe(x) /\ x = s
  <2>1. PendingEntries(s)' /\ PendingBundle(s)'
    BY Zenon, <1>0, <1>1 DEF Subscribe, PendingEntries, PendingBundle
  <2>2. QED
    BY Zenon, <2>1 DEF SnapshotEntries, SnapshotBundle, LatestEntries, LatestBundle
<1>2. CASE ~(Subscribe(x) /\ x = s)
  <2>1. active[s] /\ sel'[s] = sel[s] /\ UNCHANGED <<cache, bundle, target, snapE, snapB>>
    BY Zenon, <1>0, <1>2 DEF StreamStep, Reject, Subscribe, Updates, ReceiveCurrent,
                             ReceiveOld, Respond, ContextDone, Finish
  <2>2. View(s)' = View(s)
    BY Zenon, <2>1 DEF View
  <2>3. Latest(s)' = Latest(s)
    <3>1. CASE ReceiveCurrent(x) /\ x = s
      BY Zenon, <1>0, <3>1, BufferType DEF ReceiveCurrent, Latest
    <3>2. CASE ReceiveOld(x) /\ x = s
      <4>1. chan[s] # <<>> /\ chan' = chan
        BY Zenon, <3>2 DEF ReceiveOld, IInv, ChannelInv
      <4>2. QED
        BY Zenon, <4>1 DEF Latest
    <3>3. CASE ~(ReceiveCurrent(x) /\ x = s) /\ ~(ReceiveOld(x) /\ x = s)
      <4>1. chan'[s] = chan[s] /\ got'[s] = got[s]
        BY ZenonT(60), <1>0, <1>2, <3>3 DEF StreamStep, Reject, Subscribe, Updates, ReceiveCurrent,
                                            ReceiveOld, Respond, ContextDone, Finish
      <4>2. QED
        BY Zenon, <4>1 DEF Latest
    <3>4. QED
      BY Zenon, <3>1, <3>2, <3>3
  <2>4. \A u \in Threads :
          /\ pc[u] \in NotifyPCs \cup {"get", "getall"} =>
               pc'[u] = pc[u] /\ subs'[u] = subs[u]
          /\ pc'[u] \in LockedPCs => pc[u] = pc'[u]
    BY ZenonT(60), <1>0 DEF StreamStep, Reject, Subscribe, Updates, ReceiveCurrent,
                            ReceiveOld, Respond, ContextDone, Finish, NotifyPCs, LockedPCs
  <2>5. PendingEntries(s) => PendingEntries(s)'
    BY Zenon, <2>1, <2>4 DEF PendingEntries, NotifyPCs
  <2>6. PendingBundle(s) => PendingBundle(s)'
    BY Zenon, <2>1, <2>4 DEF PendingBundle, NotifyPCs
  <2>7. SnapshotEntries(s) /\ SnapshotBundle(s) /\ LatestEntries(s) /\ LatestBundle(s)
    BY Zenon, <2>1 DEF IInv, FreshInv
  <2>8. SnapshotEntries(s)' /\ SnapshotBundle(s)'
    BY Zenon, <2>1, <2>2, <2>4, <2>5, <2>6, <2>7
    DEF SnapshotEntries, SnapshotBundle, NotifyPCs, LockedPCs
  <2>9. LatestEntries(s)' /\ LatestBundle(s)'
    BY Zenon, <2>1, <2>2, <2>3, <2>4, <2>5, <2>6, <2>7 DEF LatestEntries, LatestBundle, NotifyPCs
  <2>10. QED
    BY Zenon, <2>8, <2>9
<1>3. QED
  BY Zenon, <1>1, <1>2

-----------------------------------------------------------------------------
LEMMA InvInit == Init => IInv
<1> SUFFICES ASSUME Init PROVE IInv
  BY Zenon
<1>1. TypeOK
  BY Zenon, TypeInit
<1>2. MutexInv
  BY Zenon, DistinctThreads DEF Init, MutexInv, LockedPCs
<1>3. ChannelInv /\ FreshInv
  BY Zenon, DistinctThreads DEF Init, ChannelInv, FreshInv, Threads
<1>4. QED
  BY Zenon, <1>1, <1>2, <1>3 DEF IInv

\* ... and every step keeps it.
LEMMA InvStep == IInv /\ [Next]_vars => IInv'
<1> SUFFICES ASSUME IInv, [Next]_vars PROVE IInv'
  BY Zenon
<1>1. TypeOK' /\ MutexInv' /\ ChannelInv'
  BY Zenon, TypeStep, MutexStep, ChannelStep DEF IInv
<1>2. FreshInv'
  <2>1. CASE UNCHANGED vars
    <3>1. \A s \in Streams : /\ active'[s] = active[s] /\ View(s)' = View(s) /\ Latest(s)' = Latest(s)
                             /\ PendingEntries(s)' = PendingEntries(s)
                             /\ PendingBundle(s)' = PendingBundle(s)
      BY Zenon, <2>1 DEF vars, dataVars, subVars, chanVars, notifyVars, View, Latest, PendingEntries,
                         PendingBundle
    <3>2. \A s \in Streams : /\ SnapshotEntries(s) => SnapshotEntries(s)'
                             /\ LatestEntries(s) => LatestEntries(s)'
      BY Zenon, <2>1, <3>1 DEF vars, subVars, notifyVars, SnapshotEntries, LatestEntries
    <3>3. \A s \in Streams : /\ SnapshotBundle(s) => SnapshotBundle(s)'
                             /\ LatestBundle(s) => LatestBundle(s)'
      BY Zenon, <2>1, <3>1 DEF vars, dataVars, subVars, notifyVars, SnapshotBundle, LatestBundle
    <3> QED
      BY Zenon, <3>1, <3>2, <3>3 DEF IInv, FreshInv
  <2>2. QED
    BY Zenon, <2>1, FreshWriter, FreshNotify, FreshStream DEF Next
<1>3. QED
  BY Zenon, <1>1, <1>2 DEF IInv

\* With no notification on its way, the newest update is current.
LEMMA InvImpliesFresh == IInv => NoMissedUpdate
<1> SUFFICES ASSUME IInv, \A t \in Threads : ~Notifying(t),
                    NEW s \in Streams, active[s]
             PROVE  Latest(s) = Current(s)
  BY Zenon DEF NoMissedUpdate
<1>1. Latest(s).ents = View(s) /\ Latest(s).bundle = bundle
  BY Zenon DEF IInv, FreshInv, LatestEntries, LatestBundle, PendingEntries, PendingBundle,
               Notifying, NotifyPCs, Threads
<1>2. Latest(s) \in Update
  BY Zenon, BufferType DEF IInv, TypeOK, Latest
<1>3. QED
  BY Zenon, <1>1, <1>2 DEF Current, View, Update

\* No subscriber is left behind: whenever no cache operation is under way, the
\* newest update of every active subscriber is the current cache content.
THEOREM NoUpdateIsMissed == Spec => []NoMissedUpdate
BY InvInit, InvStep, InvImpliesFresh, PTL DEF Spec

\* A replaced channel still buffers the update its handler reads.
LEMMA InvImpliesNoPanic == IInv => NeverReadsDrainedChannel
BY Zenon DEF IInv, ChannelInv, NeverReadsDrainedChannel

\* The handler of a stream never receives the nil of a closed, drained channel.
THEOREM HandlerNeverReadsNil == Spec => []NeverReadsDrainedChannel
BY InvInit, InvStep, InvImpliesNoPanic, PTL DEF Spec

-----------------------------------------------------------------------------
(* The order of updates. *)

\* g has no older version of an entry that both have.
Older(f, g) == \A e \in Entries : f[e] # 0 /\ g[e] # 0 => f[e] <= g[e]

\* v is nowhere older than u.
Behind(u, v) == Older(u.ents, v.ents) /\ u.bundle <= v.bundle

\* What a goroutine has a snapshot of was in the cache before.
SnapInv ==
  /\ bundle <= clock /\ \A e \in Entries : cache[e] <= clock
  /\ \A t \in Threads : pc[t] \in {"bundle", "send"} =>
       Older(snapE[t], cache) /\ \A e \in Entries : snapE[t][e] <= clock
  /\ \A t \in Threads : pc[t] = "send" => snapB[t] <= bundle

\* An update that was sent is behind the cache and behind the snapshots on their way.
Passed(u) ==
  /\ Older(u.ents, cache) /\ \A e \in Entries : u.ents[e] <= clock
  /\ u.bundle <= bundle
  /\ \A t \in Threads : pc[t] \in {"bundle", "send"} => Older(u.ents, snapE[t])
  /\ \A t \in Threads : pc[t] = "send" => u.bundle <= snapB[t]

\* The updates that can have been sent by now.
Sent == {u \in Update : Passed(u)}

\* What is received or buffered was sent.
PassedInv ==
  \A s \in Streams :
    /\ got[s] \in Sent
    /\ chan[s] # <<>> => chan[s][1] \in Sent
    /\ ref[s] = "old" => old[s][1] \in Sent

\* What a handler has received, the channel it holds and the current channel are in order.
QueueInv ==
  \A s \in Streams :
    /\ chan[s] # <<>> => Behind(got[s], chan[s][1])
    /\ ref[s] = "old" => Behind(got[s], old[s][1]) /\ Behind(old[s][1], chan[s][1])

\* The invariant of the order; it holds together with IInv.
OrderInv == SnapInv /\ PassedInv /\ QueueInv

\* Versions are compared as numbers.
LEMMA VersionsAreNumbers == Versions \subseteq Nat
BY MaxWritesAssumption DEF Versions

\* So are the versions in an update.
LEMMA UpdateNumbers ==
  \A u \in Update : u.ents \in [Entries -> Nat] /\ u.bundle \in Nat
<1> SUFFICES ASSUME NEW u \in Update PROVE u.ents \in [Entries -> Nat] /\ u.bundle \in Nat
  BY Zenon
<1>1. u.ents \in [Entries -> Versions] /\ u.bundle \in Versions
  BY Zenon DEF Update
<1> QED
  BY Zenon, <1>1, VersionsAreNumbers

\* The order holds initially.
LEMMA OrderInit == Init => OrderInv
<1> SUFFICES ASSUME Init PROVE OrderInv
  BY Zenon
<1>1. \A t \in Threads : pc[t] \notin {"bundle", "send"}
  BY Zenon DEF Init
<1>2. SnapInv
  BY <1>1 DEF Init, SnapInv, NoEntries
<1>3. NoUpdate \in Sent
  BY <1>1, NoUpdateType DEF Init, Sent, Passed, Older, NoUpdate, NoEntries
<1> QED
  BY Zenon, <1>2, <1>3 DEF Init, OrderInv, PassedInv, QueueInv

\* A step that changes neither the cache nor a snapshot.
LEMMA SnapFrame ==
  ASSUME UNCHANGED <<cache, bundle, clock, snapE, snapB>>,
         \A t \in Threads : /\ pc'[t] \in {"bundle", "send"} => pc[t] \in {"bundle", "send"}
                            /\ pc'[t] = "send" => pc[t] = "send"
  PROVE  /\ SnapInv => SnapInv'
         /\ \A u : Passed(u) => Passed(u)'
BY Zenon DEF SnapInv, Passed, Older

\* A step keeps the snapshots behind the cache, and what was sent behind both.
LEMMA SnapStep ==
  ASSUME TypeOK, SnapInv, [Next]_vars
  PROVE  SnapInv' /\ \A u \in Update : Passed(u) => Passed(u)'
<1> USE DEF Goto, dataVars, subVars, chanVars, notifyVars
<1>0. /\ pc \in [Threads -> WriterPCs \cup NotifyPCs \cup StreamPCs]
      /\ cache \in [Entries -> Nat] /\ bundle \in Nat /\ clock \in Nat
      /\ snapE \in [Threads -> [Entries -> Nat]] /\ snapB \in [Threads -> Nat]
      /\ \A u \in Update : u.ents \in [Entries -> Nat] /\ u.bundle \in Nat
  <2>1. [Entries -> Versions] \subseteq [Entries -> Nat]
    BY Zenon, VersionsAreNumbers
  <2>2. snapE \in [Threads -> [Entries -> Nat]]
    BY Zenon, <2>1 DEF TypeOK
  <2>3. /\ cache \in [Entries -> Nat] /\ bundle \in Nat /\ clock \in Nat
        /\ snapB \in [Threads -> Nat]
    BY Zenon, VersionsAreNumbers DEF TypeOK
  <2> QED
    BY Zenon, <2>2, <2>3, UpdateNumbers DEF TypeOK
<1>1. ASSUME NEW w \in Writers, WriterStep(w)
      PROVE  SnapInv' /\ \A u \in Update : Passed(u) => Passed(u)'
  <2>0. w \in Threads
    BY Zenon DEF Threads
  <2>1. ASSUME NEW e \in Entries, SetEntry(w, e)
        PROVE  SnapInv' /\ \A u \in Update : Passed(u) => Passed(u)'
    <3>1. /\ cache' = [cache EXCEPT ![e] = clock + 1] /\ clock' = clock + 1
          /\ UNCHANGED <<bundle, snapE, snapB>>
          /\ \A t \in Threads : pc'[t] \in {"bundle", "send"} => pc'[t] = pc[t]
      BY Zenon, <1>0, <2>0, <2>1 DEF SetEntry
    <3>2. SnapInv'
      BY <1>0, <3>1 DEF SnapInv, Older
    <3>3. ASSUME NEW u \in Update, Passed(u) PROVE Passed(u)'
      BY <1>0, <3>1, <3>3 DEF Passed, Older
    <3> QED
      BY Zenon, <3>2, <3>3
  <2>2. ASSUME NEW e \in Entries, DeleteEntry(w, e)
        PROVE  SnapInv' /\ \A u \in Update : Passed(u) => Passed(u)'
    <3>1. /\ cache' = [cache EXCEPT ![e] = 0]
          /\ UNCHANGED <<clock, bundle, snapE, snapB>>
          /\ \A t \in Threads : pc'[t] \in {"bundle", "send"} => pc'[t] = pc[t]
      BY Zenon, <1>0, <2>0, <2>2 DEF DeleteEntry, CallNotify
    <3>2. SnapInv'
      BY <1>0, <3>1 DEF SnapInv, Older
    <3>3. ASSUME NEW u \in Update, Passed(u) PROVE Passed(u)'
      BY Zenon, <1>0, <3>1, <3>3 DEF Passed, Older
    <3> QED
      BY Zenon, <3>2, <3>3
  <2>3. CASE SetBundle(w)
    <3>1. /\ bundle' = clock + 1 /\ clock' = clock + 1
          /\ UNCHANGED <<cache, snapE, snapB>>
          /\ \A t \in Threads : pc'[t] \in {"bundle", "send"} => pc'[t] = pc[t]
      BY Zenon, <1>0, <2>0, <2>3 DEF SetBundle
    <3>2. SnapInv'
      BY <1>0, <3>1 DEF SnapInv, Older
    <3>3. ASSUME NEW u \in Update, Passed(u) PROVE Passed(u)'
      BY <1>0, <3>1, <3>3 DEF Passed, Older, SnapInv
    <3> QED
      BY Zenon, <3>2, <3>3
  <2>4. CASE SetEntryGet(w) \/ SetBundleGetAll(w)
    BY Zenon, <1>0, <2>0, <2>4, SnapFrame DEF SetEntryGet, SetBundleGetAll, CallNotify
  <2> QED
    BY Zenon, <1>1, <2>1, <2>2, <2>3, <2>4 DEF WriterStep
<1>2. ASSUME NEW t \in Threads, NotifyStep(t)
      PROVE  SnapInv' /\ \A u \in Update : Passed(u) => Passed(u)'
  <2>1. CASE NotifyLock(t) \/ \E s \in Streams : NotifySub(t, s)
    BY Zenon, <1>0, <2>1, SnapFrame DEF NotifyLock, NotifySub
  <2>2. CASE NotifyEntries(t)
    <3>1. /\ UNCHANGED <<cache, bundle, clock, snapB>>
          /\ \A x \in Threads : pc'[x] = "send" => pc[x] = "send"
          /\ \A x \in Threads : pc'[x] \in {"bundle", "send"} =>
               \/ snapE'[x] = cache
               \/ pc[x] \in {"bundle", "send"} /\ snapE'[x] = snapE[x]
      BY Zenon, <1>0, <2>2 DEF NotifyEntries
    <3>2. Older(cache, cache)
      BY <1>0 DEF Older
    <3>3. SnapInv'
      BY Zenon, <3>1, <3>2 DEF SnapInv, Older
    <3>4. ASSUME NEW u \in Update, Passed(u) PROVE Passed(u)'
      BY Zenon, <3>1, <3>4 DEF Passed, Older
    <3> QED
      BY Zenon, <3>3, <3>4
  <2>3. CASE NotifyBundle(t)
    <3>1. /\ UNCHANGED <<cache, bundle, clock, snapE>>
          /\ \A x \in Threads : pc'[x] \in {"bundle", "send"} => pc[x] \in {"bundle", "send"}
          /\ \A x \in Threads : pc'[x] = "send" =>
               \/ snapB'[x] = bundle
               \/ pc[x] = "send" /\ snapB'[x] = snapB[x]
      BY Zenon, <1>0, <2>3 DEF NotifyBundle
    <3>2. bundle <= bundle
      BY <1>0
    <3>3. SnapInv'
      BY Zenon, <3>1, <3>2 DEF SnapInv, Older
    <3>4. ASSUME NEW u \in Update, Passed(u) PROVE Passed(u)'
      BY Zenon, <3>1, <3>4 DEF Passed, Older
    <3> QED
      BY Zenon, <3>3, <3>4
  <2>4. CASE NotifyUnlock(t)
    <3>1. /\ UNCHANGED <<cache, bundle, clock>>
          /\ \A x \in Threads : pc'[x] \in {"bundle", "send"} =>
               pc'[x] = pc[x] /\ snapE'[x] = snapE[x] /\ snapB'[x] = snapB[x]
      BY Zenon, <1>0, <2>4 DEF NotifyUnlock, Return
    <3>2. SnapInv'
      BY Zenon, <3>1 DEF SnapInv, Older
    <3>3. ASSUME NEW u \in Update, Passed(u) PROVE Passed(u)'
      BY Zenon, <3>1, <3>3 DEF Passed, Older
    <3> QED
      BY Zenon, <3>2, <3>3
  <2> QED
    BY Zenon, <1>2, <2>1, <2>2, <2>3, <2>4 DEF NotifyStep
<1>3. ASSUME NEW s \in Streams, StreamStep(s)
      PROVE  SnapInv' /\ \A u \in Update : Passed(u) => Passed(u)'
  <2>0. s \in Threads
    BY Zenon DEF Threads
  <2>1. /\ UNCHANGED <<cache, bundle, clock, snapE, snapB>>
        /\ \E l \in {"done", "lock", "select", "respond", "panic", "finish", "loop"} : Goto(s, l)
    BY Zenon, <1>3 DEF StreamStep, Reject, Subscribe, Updates, ReceiveCurrent, ReceiveOld,
                       Respond, ContextDone, Finish
  <2> QED
    BY Zenon, <1>0, <2>0, <2>1, SnapFrame
<1>4. CASE UNCHANGED vars
  BY Zenon, <1>4, SnapFrame DEF vars
<1> QED
  BY Zenon, <1>1, <1>2, <1>3, <1>4 DEF Next

\* The update that NotifySub sends is ahead of all that were sent.
LEMMA NewUpdate ==
  ASSUME TypeOK, MutexInv, SnapInv, NEW t \in Threads, NEW s \in Streams, pc[t] = "send"
  PROVE  /\ Passed(Compose(t, s))
         /\ \A u : Passed(u) => Behind(u, Compose(t, s))
<1>1. \A x \in Threads : pc[x] \in {"bundle", "send"} => x = t
  BY Zenon DEF MutexInv, LockedPCs
<1>2. /\ snapE[t] \in [Entries -> Nat] /\ snapB[t] \in Nat
      /\ cache \in [Entries -> Nat] /\ clock \in Nat
  BY Zenon, VersionsAreNumbers DEF TypeOK
<1>3. /\ Compose(t, s).bundle = snapB[t]
      /\ \A e \in Entries : Compose(t, s).ents[e] \in {0, snapE[t][e]}
  BY Zenon DEF Compose, SubscriberEntries
<1>4. Passed(Compose(t, s))
  BY <1>1, <1>2, <1>3 DEF Passed, SnapInv, Older
<1>5. ASSUME NEW u, Passed(u) PROVE Behind(u, Compose(t, s))
  BY Zenon, <1>3, <1>5 DEF Passed, Behind, Older
<1> QED
  BY Zenon, <1>4, <1>5

\* The empty update is behind everything.
LEMMA PassedNoUpdate ==
  ASSUME TypeOK PROVE Passed(NoUpdate)
<1>1. bundle \in Nat /\ clock \in Nat /\ snapB \in [Threads -> Nat]
  BY Zenon, VersionsAreNumbers DEF TypeOK
<1> QED
  BY <1>1 DEF Passed, Older, NoUpdate, NoEntries

\* The handler of s lets go of the channel it holds, and has received what it buffered,
\* or nothing, or is gone.
Takes(s) ==
  /\ \A x \in Streams \ {s} : /\ got'[x] = got[x] /\ chan'[x] = chan[x]
                              /\ ref'[x] = ref[x] /\ old'[x] = old[x]
  /\ ref'[s] # "old"
  /\ \/ got'[s] = got[s] /\ chan'[s] = chan[s]
     \/ got'[s] = chan[s][1] /\ chan[s] # <<>> /\ chan'[s] = <<>>
     \/ got'[s] = NoUpdate /\ chan'[s] = <<>> /\ ~active'[s]
     \/ got'[s] = old[s][1] /\ chan'[s] = chan[s] /\ ref[s] = "old"

\* Only a notification that sends and a handler change the channels.
LEMMA ChannelChange ==
  ASSUME IInv, [Next]_vars
  PROVE  \/ UNCHANGED chanVars
         \/ \E t \in Threads, s \in Streams : NotifySub(t, s) /\ active[s]
         \/ \E s \in Streams : Takes(s)
<1> USE DEF dataVars, subVars, chanVars, notifyVars
<1>1. ASSUME NEW s \in Streams,
             Updates(s) \/ ReceiveCurrent(s) \/ ReceiveOld(s) \/ ContextDone(s) \/ Finish(s)
      PROVE  Takes(s)
  <2>1. /\ got \in [Streams -> Update] /\ chan \in [Streams -> Buffer]
        /\ old \in [Streams -> Buffer] /\ ref \in [Streams -> {"none", "cur", "old"}]
        /\ active \in [Streams -> BOOLEAN]
    BY Zenon DEF IInv, TypeOK
  <2>2. /\ ref[s] = "old" => old[s] # <<>>
        /\ pc[s] = "finish" => ref[s] = "none"
        /\ old[s] # <<>> => Head(old[s]) = old[s][1]
        /\ chan[s] # <<>> => Head(chan[s]) = chan[s][1]
    BY Zenon, <2>1, BufferType DEF IInv, ChannelInv
  <2> QED
    BY Zenon, <1>1, <2>1, <2>2
       DEF Takes, Updates, ReceiveCurrent, ReceiveOld, ContextDone, Finish
<1>2. ASSUME NEW w \in Writers, WriterStep(w) PROVE UNCHANGED chanVars
  BY Zenon, <1>2 DEF WriterStep, SetEntry, DeleteEntry, SetBundle, SetEntryGet, SetBundleGetAll
<1>3. ASSUME NEW t \in Threads, NotifyStep(t)
      PROVE  \/ UNCHANGED chanVars
             \/ \E s \in Streams : NotifySub(t, s) /\ active[s]
  BY Zenon, <1>3 DEF NotifyStep, NotifyLock, NotifyEntries, NotifyBundle, NotifySub, NotifyUnlock
<1>4. ASSUME NEW s \in Streams, Reject(s) \/ Subscribe(s) \/ Respond(s)
      PROVE  UNCHANGED chanVars
  BY Zenon, <1>4 DEF Reject, Subscribe, Respond
<1> QED
  BY Zenon, <1>1, <1>2, <1>3, <1>4 DEF Next, StreamStep, vars

\* Every step keeps the order.
LEMMA OrderStep == IInv /\ OrderInv /\ [Next]_vars => OrderInv'
<1> SUFFICES ASSUME IInv, OrderInv, [Next]_vars PROVE OrderInv'
  BY Zenon
<1> USE DEF dataVars, subVars, chanVars, notifyVars
<1>1. /\ TypeOK /\ TypeOK' /\ MutexInv /\ ChannelInv
      /\ SnapInv /\ PassedInv /\ QueueInv
  BY Zenon, TypeStep DEF IInv, OrderInv
<1>2. SnapInv' /\ Sent \subseteq Sent'
  BY Zenon, <1>1, SnapStep DEF Sent
<1>3. /\ got \in [Streams -> Update] /\ chan \in [Streams -> Buffer]
      /\ old \in [Streams -> Buffer] /\ ref \in [Streams -> {"none", "cur", "old"}]
  BY Zenon, <1>1 DEF TypeOK
<1>4. ASSUME NEW s \in Streams
      PROVE  /\ got[s] \in Sent
             /\ chan[s] # <<>> => chan[s][1] \in Sent /\ Head(chan[s]) = chan[s][1]
             /\ ref[s] = "old" => old[s] # <<>> /\ chan[s] # <<>> /\ old[s][1] \in Sent
             /\ old[s] # <<>> => Head(old[s]) = old[s][1]
  BY Zenon, <1>1, <1>3, BufferType DEF PassedInv, ChannelInv
<1>5. CASE UNCHANGED chanVars
  <2>1. PassedInv'
    BY Zenon, <1>2, <1>4, <1>5 DEF PassedInv
  <2>2. QueueInv'
    BY Zenon, <1>1, <1>5 DEF QueueInv, Behind, Older
  <2> QED
    BY Zenon, <1>2, <2>1, <2>2 DEF OrderInv
<1>6. ASSUME NEW t \in Threads, NEW s \in Streams, NotifySub(t, s), active[s]
      PROVE  OrderInv'
  <2> DEFINE u == Compose(t, s)
  <2>1. pc[t] = "send" /\ Send(s, u)
    BY Zenon, <1>6 DEF NotifySub
  <2>2. u \in Sent /\ \A v \in Sent : Behind(v, u)
    BY Zenon, <1>1, <2>1, NewUpdate, ComposeType DEF Sent
  <2>4. Behind(got[s], u) /\ (chan[s] # <<>> => Behind(chan[s][1], u))
        /\ (ref[s] = "old" => Behind(old[s][1], u))
    BY Zenon, <1>1, <2>2 DEF PassedInv
  <2>5. <<u>> # <<>> /\ <<u>>[1] = u
    BY Zenon
  <2> HIDE DEF u
  <2>6. /\ got' = got /\ chan'[s] = <<u>>
        /\ \A x \in Streams \ {s} : chan'[x] = chan[x] /\ ref'[x] = ref[x] /\ old'[x] = old[x]
        /\ \/ chan[s] # <<>> /\ old'[s] = chan[s]
           \/ ref'[s] = ref[s] /\ old'[s] = old[s]
    BY Zenon, <1>3, <2>1 DEF Send
  <2>7. PassedInv'
    <3> SUFFICES ASSUME NEW x \in Streams
                 PROVE  /\ got'[x] \in Sent'
                        /\ chan'[x] # <<>> => chan'[x][1] \in Sent'
                        /\ ref'[x] = "old" => old'[x][1] \in Sent'
      BY Zenon DEF PassedInv
    <3>1. CASE x = s
      BY Zenon, <1>2, <1>4, <2>2, <2>5, <2>6, <3>1
    <3>2. CASE x # s
      BY Zenon, <1>2, <1>4, <2>6, <3>2
    <3> QED
      BY Zenon, <3>1, <3>2
  <2>8. QueueInv'
    <3> SUFFICES ASSUME NEW x \in Streams
                 PROVE  /\ chan'[x] # <<>> => Behind(got'[x], chan'[x][1])
                        /\ ref'[x] = "old" => /\ Behind(got'[x], old'[x][1])
                                              /\ Behind(old'[x][1], chan'[x][1])
      BY Zenon DEF QueueInv, Behind, Older
    <3>1. CASE x = s
      BY Zenon, <1>1, <2>4, <2>5, <2>6, <3>1 DEF QueueInv
    <3>2. CASE x # s
      BY Zenon, <1>1, <2>6, <3>2 DEF QueueInv
    <3> QED
      BY Zenon, <3>1, <3>2
  <2> QED
    BY Zenon, <1>2, <2>7, <2>8 DEF OrderInv
<1>7. ASSUME NEW s \in Streams, Takes(s) PROVE OrderInv'
  <2>2. NoUpdate \in Sent
    BY Zenon, <1>1, PassedNoUpdate, NoUpdateType DEF Sent
  <2>3. PassedInv'
    <3> SUFFICES ASSUME NEW x \in Streams
                 PROVE  /\ got'[x] \in Sent'
                        /\ chan'[x] # <<>> => chan'[x][1] \in Sent'
                        /\ ref'[x] = "old" => old'[x][1] \in Sent'
      BY Zenon DEF PassedInv
    <3>1. CASE x = s
      BY Zenon, <1>2, <1>4, <1>7, <2>2, <3>1 DEF Takes
    <3>2. CASE x # s
      BY Zenon, <1>2, <1>4, <1>7, <3>2 DEF Takes
    <3> QED
      BY Zenon, <3>1, <3>2
  <2>4. QueueInv'
    <3> SUFFICES ASSUME NEW x \in Streams
                 PROVE  /\ chan'[x] # <<>> => Behind(got'[x], chan'[x][1])
                        /\ ref'[x] = "old" => /\ Behind(got'[x], old'[x][1])
                                              /\ Behind(old'[x][1], chan'[x][1])
      BY Zenon DEF QueueInv, Behind, Older
    <3>1. CASE x = s
      BY Zenon, <1>1, <1>7, <3>1 DEF QueueInv, Takes
    <3>2. CASE x # s
      BY Zenon, <1>1, <1>7, <3>2 DEF QueueInv, Takes
    <3> QED
      BY Zenon, <3>1, <3>2
  <2> QED
    BY Zenon, <1>2, <2>3, <2>4 DEF OrderInv
<1> QED
  BY Zenon, <1>5, <1>6, <1>7, ChannelChange

\* What the handler of an active stream receives is not behind what it received before.
LEMMA Received ==
  ASSUME IInv, OrderInv, [Next]_vars, NEW s \in Streams, active'[s]
  PROVE  Behind(got[s], got'[s])
<1>1. Behind(got[s], got[s])
  <2>1. got[s].ents \in [Entries -> Nat] /\ got[s].bundle \in Nat
    BY Zenon, UpdateNumbers DEF IInv, TypeOK
  <2> QED
    BY <2>1 DEF Behind, Older
<1>2. ASSUME NEW x \in Streams, Takes(x) PROVE Behind(got[s], got'[s])
  BY Zenon, <1>1, <1>2 DEF Takes, OrderInv, QueueInv
<1>3. ASSUME NEW t \in Threads, NEW x \in Streams, NotifySub(t, x) PROVE got' = got
  BY Zenon, <1>3 DEF NotifySub, Send, chanVars
<1> QED
  BY Zenon, <1>1, <1>2, <1>3, ChannelChange DEF chanVars

\* No stream is sent an older SVID or bundle after a newer one, however many writers,
\* subscribers and replaced channels there are: the snapshots are taken and sent under one
\* mutex, and a handler that holds a replaced channel reads it before its successor.
THEOREM UpdatesNeverGoBack == Spec => UpdatesMoveForward
<1>1. Init => IInv /\ OrderInv
  BY Zenon, InvInit, OrderInit
<1>2. IInv /\ OrderInv /\ [Next]_vars => (IInv /\ OrderInv)'
  BY Zenon, InvStep, OrderStep
<1>3. IInv /\ OrderInv /\ [Next]_vars =>
        [\A s \in Streams : active'[s] =>
           /\ got[s].bundle <= got'[s].bundle
           /\ \A e \in Entries :
                (got[s].ents[e] # 0 /\ got'[s].ents[e] # 0) =>
                   got[s].ents[e] <= got'[s].ents[e]]_vars
  BY Zenon, Received DEF Behind, Older
<1> QED
  BY <1>1, <1>2, <1>3, PTL DEF Spec, UpdatesMoveForward
================================================================================
