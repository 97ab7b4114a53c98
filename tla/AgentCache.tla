------------------------------ MODULE AgentCache ------------------------------
(***************************************************************************)
(* The agent's in-memory SVID cache, its subscribers, and the Workload API *)
(* handler that reads a subscription (pkg/agent/manager/cache and          *)
(* pkg/agent/endpoints/workload).                                          *)
(*                                                                         *)
(* Writers are goroutines that change the cache (the manager's             *)
(* synchronizer); Streams are Workload API handler goroutines, each of     *)
(* which subscribes, reads updates, and finishes its subscription.  A      *)
(* critical section of cacheImpl.m, subscribers.m or subscriber.m is one   *)
(* step; notifyMutex is held over several steps and is a variable.         *)
(*                                                                         *)
(* Every write takes a fresh version from clock, so a version stands for   *)
(* one SVID or one bundle; version 0 in the cache means "no such entry".   *)
(***************************************************************************)
EXTENDS Naturals, Sequences, FiniteSets

CONSTANTS
  Writers,    \* goroutines that call SetEntry, SetBundle and DeleteEntry
  Streams,    \* Workload API calls, one subscriber each
  Entries,    \* registration entry ids
  Selectors,  \* selectors
  EntrySel,   \* the selectors of each registration entry
  NoThread,   \* notifyMutex is free
  MaxWrites   \* bound on the number of cache writes

Threads == Writers \cup Streams

ASSUME DistinctThreads ==
  /\ Writers \cap Streams = {}
  /\ NoThread \notin Threads

\* The datastore refuses an entry without selectors (sql.go, validateRegistrationEntry).
ASSUME EntrySelAssumption ==
  EntrySel \in [Entries -> (SUBSET Selectors) \ {{}}]

ASSUME MaxWritesAssumption == MaxWrites \in Nat

VARIABLES
  cache,       \* cacheImpl.cache: entry id -> version, 0 when absent
  bundle,      \* cacheImpl.bundle: version
  clock,       \* the last version handed out
  registered,  \* subscribers.sidMap (and the ids listed in selMap)
  sel,         \* subscriber.sel
  active,      \* subscriber.active; the channel is closed by Finish when it falls
  chan,        \* subscriber.c: the buffer (capacity 1) of the current channel
  ref,         \* which channel the handler holds: "none", "cur" or "old"
  old,         \* the buffer of the replaced, closed channel the handler holds
  got,         \* the last update the handler received
  notifyMutex, \* cacheImpl.notifyMutex: its holder or NoThread
  pc,          \* where each goroutine is
  target,      \* SetEntry: the selectors of the entry just stored
  subs,        \* notifySubscribers: the subscribers still to be notified
  snapE,       \* notifySubscribers: the local "entries"
  snapB        \* notifySubscribers: the local "bundle"

dataVars   == <<cache, bundle, clock>>
subVars    == <<registered, sel, active>>
chanVars   == <<chan, ref, old, got>>
notifyVars == <<notifyMutex, subs, snapE, snapB>>
vars == <<dataVars, subVars, chanVars, notifyVars, pc, target>>

Versions == 0 .. MaxWrites + 1

\* A *WorkloadUpdate: the subscriber's entries (0 where it gets none) and the bundle.
Update == [ents : [Entries -> Versions], bundle : Versions]

\* What a channel of capacity 1 can hold.
Buffer == {<<>>} \cup {<<u>> : u \in Update}

NoEntries == [e \in Entries |-> 0]
NoUpdate  == [ents |-> NoEntries, bundle |-> 0]

WriterPCs == {"idle", "get", "getall"}
NotifyPCs == {"lock", "entries", "bundle", "send"}
StreamPCs == {"start", "loop", "select", "respond", "finish", "done", "panic"}

\* The sections of notifySubscribers that run under notifyMutex.
LockedPCs == {"entries", "bundle", "send"}

Goto(t, label) == pc' = [pc EXCEPT ![t] = label]

\* Where a goroutine continues when notifySubscribers returns to it.
Return(t) == IF t \in Writers THEN "idle" ELSE "loop"

Init ==
  /\ cache = NoEntries
  /\ bundle = 1
  /\ clock = 1
  /\ registered = {}
  /\ sel = [s \in Streams |-> {}]
  /\ active = [s \in Streams |-> FALSE]
  /\ chan = [s \in Streams |-> <<>>]
  /\ ref = [s \in Streams |-> "none"]
  /\ old = [s \in Streams |-> <<>>]
  /\ got = [s \in Streams |-> NoUpdate]
  /\ notifyMutex = NoThread
  /\ pc = [t \in Threads |-> IF t \in Writers THEN "idle" ELSE "start"]
  /\ target = [w \in Writers |-> {}]
  /\ subs = [t \in Threads |-> {}]
  /\ snapE = [t \in Threads |-> NoEntries]
  /\ snapB = [t \in Threads |-> 0]

-----------------------------------------------------------------------------
(* Selection of entries and subscribers.  Here and below, a definition that    *)
(* stands uncommented before the one it is named after is a variant of it with *)
(* a plausible bug; no specification uses it.                                  *)

\* subscriberEntries: the entries all of whose selectors the subscriber has.
SubscriberEntries(sels, entries) ==
  [e \in Entries |-> IF EntrySel[e] \subseteq sels THEN entries[e] ELSE 0]

SubscribersGetExact(sels) == {s \in registered : sel[s] = sels}

\* subscribers.get: an id is listed under every non-empty combination of its
\* selectors and looked up under every non-empty combination of the entry's, so
\* a subscriber is found exactly when the two sets meet (the one-element
\* combinations have one spelling; larger ones have several, see SelectorSets).
SubscribersGet(sels) == {s \in registered : sel[s] \cap sels # {}}

-----------------------------------------------------------------------------
(* Writers. *)

\* SetEntry, up to the release of cacheImpl.m.
SetEntry(w, e) ==
  /\ pc[w] = "idle"
  /\ clock <= MaxWrites
  /\ clock' = clock + 1
  /\ cache' = [cache EXCEPT ![e] = clock + 1]
  /\ target' = [target EXCEPT ![w] = EntrySel[e]]
  /\ Goto(w, "get")
  /\ UNCHANGED <<bundle, subVars, chanVars, notifyVars>>

\* notifySubscribers(subs) returns at once when subs is nil.
CallNotify(w, ss) ==
  /\ subs' = [subs EXCEPT ![w] = ss]
  /\ Goto(w, IF ss = {} THEN "idle" ELSE "lock")

\* SetEntry: subs := c.subscribers.get(...), then the call of notifySubscribers.
SetEntryGet(w) ==
  /\ pc[w] = "get"
  /\ CallNotify(w, SubscribersGet(target[w]))
  /\ target' = [target EXCEPT ![w] = {}]
  /\ UNCHANGED <<dataVars, subVars, chanVars, notifyMutex, snapE, snapB>>

\* SetBundle, up to the release of cacheImpl.m.
SetBundle(w) ==
  /\ pc[w] = "idle"
  /\ clock <= MaxWrites
  /\ clock' = clock + 1
  /\ bundle' = clock + 1
  /\ Goto(w, "getall")
  /\ UNCHANGED <<cache, target, subVars, chanVars, notifyVars>>

\* SetBundle: subs := c.subscribers.getAll(), then the call of notifySubscribers.
SetBundleGetAll(w) ==
  /\ pc[w] = "getall"
  /\ CallNotify(w, registered)
  /\ UNCHANGED <<dataVars, target, subVars, chanVars, notifyMutex, snapE, snapB>>

\* DeleteEntry of a cached entry: the subscribers are looked up and the entry is
\* removed in one critical section of cacheImpl.m.
DeleteEntry(w, e) ==
  /\ pc[w] = "idle"
  /\ cache[e] # 0
  /\ cache' = [cache EXCEPT ![e] = 0]
  /\ CallNotify(w, SubscribersGet(EntrySel[e]))
  /\ UNCHANGED <<bundle, clock, target, subVars, chanVars, notifyMutex, snapE, snapB>>

-----------------------------------------------------------------------------
(* notifySubscribers, run by a writer or by a subscribing stream. *)

NotifyNoLock(t) ==
  /\ pc[t] = "lock"
  /\ notifyMutex' = t
  /\ Goto(t, "entries")
  /\ UNCHANGED <<dataVars, target, subVars, chanVars, subs, snapE, snapB>>

\* c.notifyMutex.Lock()
NotifyLock(t) ==
  /\ pc[t] = "lock"
  /\ notifyMutex = NoThread
  /\ notifyMutex' = t
  /\ Goto(t, "entries")
  /\ UNCHANGED <<dataVars, target, subVars, chanVars, subs, snapE, snapB>>

\* entries := c.Entries()
NotifyEntries(t) ==
  /\ pc[t] = "entries"
  /\ snapE' = [snapE EXCEPT ![t] = cache]
  /\ Goto(t, "bundle")
  /\ UNCHANGED <<dataVars, target, subVars, chanVars, notifyMutex, subs, snapB>>

\* bundle := c.Bundle(), a second critical section of cacheImpl.m.
NotifyBundle(t) ==
  /\ pc[t] = "bundle"
  /\ snapB' = [snapB EXCEPT ![t] = bundle]
  /\ Goto(t, "send")
  /\ UNCHANGED <<dataVars, target, subVars, chanVars, notifyMutex, subs, snapE>>

\* The update composed for subscriber s from the snapshots of goroutine t.
Compose(t, s) ==
  [ents |-> SubscriberEntries(sel[s], snapE[t]), bundle |-> snapB[t]]

SendIfEmpty(s, u) ==
  /\ chan' = IF chan[s] = <<>> THEN [chan EXCEPT ![s] = <<u>>] ELSE chan
  /\ UNCHANGED <<ref, old, got>>

SendAlwaysReplaces(s, u) ==
  /\ chan' = [chan EXCEPT ![s] = <<u>>]
  /\ \/ /\ ref[s] = "cur"
        /\ ref' = [ref EXCEPT ![s] = "old"]
        /\ old' = [old EXCEPT ![s] = chan[s]]
     \/ /\ ref[s] # "cur"
        /\ UNCHANGED <<ref, old>>
  /\ UNCHANGED got

\* Put an update on the subscriber's channel.  An unread channel is closed and
\* replaced; a handler that holds it keeps the old one, with what it buffers.
Send(s, u) ==
  /\ chan' = [chan EXCEPT ![s] = <<u>>]
  /\ \/ /\ chan[s] # <<>>
        /\ ref[s] = "cur"
        /\ ref' = [ref EXCEPT ![s] = "old"]
        /\ old' = [old EXCEPT ![s] = chan[s]]
     \/ /\ chan[s] = <<>> \/ ref[s] # "cur"
        /\ UNCHANGED <<ref, old>>
  /\ UNCHANGED got


NotifySubKeepsFinished(t, s) ==
  /\ pc[t] = "send"
  /\ s \in subs[t]
  /\ subs' = [subs EXCEPT ![t] = @ \ {s}]
  /\ IF active[s] THEN Send(s, Compose(t, s)) ELSE UNCHANGED chanVars
  /\ UNCHANGED <<dataVars, target, pc, subVars, notifyMutex, snapE, snapB>>

\* One turn of the loop over subs (map order, hence any s), under subscriber.m:
\* a finished subscriber is removed, an active one is sent the update.
NotifySub(t, s) ==
  /\ pc[t] = "send"
  /\ s \in subs[t]
  /\ subs' = [subs EXCEPT ![t] = @ \ {s}]
  /\ \/ /\ active[s]
        /\ Send(s, Compose(t, s))
        /\ UNCHANGED registered
     \/ /\ ~active[s]
        /\ registered' = registered \ {s}
        /\ UNCHANGED chanVars
  /\ UNCHANGED <<dataVars, target, pc, sel, active, notifyMutex, snapE, snapB>>

\* The loop is over: the deferred notifyMutex.Unlock(), and return.
NotifyUnlock(t) ==
  /\ pc[t] = "send"
  /\ subs[t] = {}
  /\ notifyMutex' = NoThread
  /\ snapE' = [snapE EXCEPT ![t] = NoEntries]
  /\ snapB' = [snapB EXCEPT ![t] = 0]
  /\ Goto(t, Return(t))
  /\ UNCHANGED <<dataVars, target, subVars, chanVars, subs>>

-----------------------------------------------------------------------------
(* Streams: Handler.FetchX509SVID. *)

\* The security header is missing or the caller's PID is unknown: the call fails
\* before anything is subscribed.
Reject(s) ==
  /\ pc[s] = "start"
  /\ Goto(s, "done")
  /\ UNCHANGED <<dataVars, target, subVars, chanVars, notifyVars>>

\* Attest, NewSubscriber and subscribers.add.  A failing attestor plugin loses
\* its selectors, so any set may come out.  Cache.Subscribe then notifies the
\* new subscriber alone.
Subscribe(s) ==
  /\ pc[s] = "start"
  /\ \E sels \in SUBSET Selectors : sel' = [sel EXCEPT ![s] = sels]
  /\ active' = [active EXCEPT ![s] = TRUE]
  /\ registered' = registered \cup {s}
  /\ subs' = [subs EXCEPT ![s] = {s}]
  /\ Goto(s, "lock")
  /\ UNCHANGED <<dataVars, target, chanVars, notifyMutex, snapE, snapB>>

\* subscriber.Updates(), evaluated at the head of every select.
Updates(s) ==
  /\ pc[s] = "loop"
  /\ ref' = [ref EXCEPT ![s] = "cur"]
  /\ Goto(s, "select")
  /\ UNCHANGED <<dataVars, target, subVars, chan, old, got, notifyVars>>

\* The select receives from the current channel ...
ReceiveCurrent(s) ==
  /\ pc[s] = "select"
  /\ ref[s] = "cur"
  /\ chan[s] # <<>>
  /\ got' = [got EXCEPT ![s] = Head(chan[s])]
  /\ chan' = [chan EXCEPT ![s] = <<>>]
  /\ ref' = [ref EXCEPT ![s] = "none"]
  /\ Goto(s, "respond")
  /\ UNCHANGED <<dataVars, target, subVars, old, notifyVars>>

\* ... or from the channel that was replaced after Updates() returned it, which
\* is closed: once drained it yields nil, and sendResponse dereferences it.
ReceiveOld(s) ==
  /\ pc[s] = "select"
  /\ ref[s] = "old"
  /\ \/ /\ old[s] # <<>>
        /\ got' = [got EXCEPT ![s] = Head(old[s])]
        /\ old' = [old EXCEPT ![s] = <<>>]
        /\ Goto(s, "respond")
     \/ /\ old[s] = <<>>
        /\ Goto(s, "panic")
        /\ UNCHANGED <<got, old>>
  /\ ref' = [ref EXCEPT ![s] = "none"]
  /\ UNCHANGED <<dataVars, target, subVars, chan, notifyVars>>

\* sendResponse: an update without entries ends the call with PermissionDenied;
\* otherwise the response is sent, which may fail.
Respond(s) ==
  /\ pc[s] = "respond"
  /\ \/ Goto(s, "finish")
     \/ /\ got[s].ents # NoEntries
        /\ Goto(s, "loop")
  /\ UNCHANGED <<dataVars, target, subVars, chanVars, notifyVars>>

\* <-stream.Context().Done()
ContextDone(s) ==
  /\ pc[s] = "select"
  /\ ref' = [ref EXCEPT ![s] = "none"]
  /\ old' = [old EXCEPT ![s] = <<>>]
  /\ Goto(s, "finish")
  /\ UNCHANGED <<dataVars, target, subVars, chan, got, notifyVars>>

\* The deferred subscriber.Finish(); the handler returns and nobody can reach the
\* closed channel or the last update any more.
Finish(s) ==
  /\ pc[s] = "finish"
  /\ active' = [active EXCEPT ![s] = FALSE]
  /\ chan' = [chan EXCEPT ![s] = <<>>]
  /\ got' = [got EXCEPT ![s] = NoUpdate]
  /\ Goto(s, "done")
  /\ UNCHANGED <<dataVars, target, registered, sel, ref, old, notifyVars>>

-----------------------------------------------------------------------------
WriterStep(w) ==
  \/ \E e \in Entries : SetEntry(w, e) \/ DeleteEntry(w, e)
  \/ SetBundle(w)
  \/ SetEntryGet(w)
  \/ SetBundleGetAll(w)

NotifyStep(t) ==
  \/ NotifyLock(t)
  \/ NotifyEntries(t)
  \/ NotifyBundle(t)
  \/ \E s \in Streams : NotifySub(t, s)
  \/ NotifyUnlock(t)

StreamStep(s) ==
  \/ Reject(s)
  \/ Subscribe(s)
  \/ Updates(s)
  \/ ReceiveCurrent(s)
  \/ ReceiveOld(s)
  \/ Respond(s)
  \/ ContextDone(s)
  \/ Finish(s)

Next ==
  \/ \E w \in Writers : WriterStep(w)
  \/ \E t \in Threads : NotifyStep(t)
  \/ \E s \in Streams : StreamStep(s)

Spec == Init /\ [][Next]_vars

\* A goroutine that can run runs: the Go scheduler is fair, and sync.Mutex hands
\* notifyMutex to a waiter that was passed over (starvation mode), hence SF.
\* Nothing obliges a caller to write, to subscribe or to cancel.
Fairness ==
  /\ \A w \in Writers : WF_vars(SetEntryGet(w) \/ SetBundleGetAll(w))
  /\ \A t \in Threads : SF_vars(NotifyStep(t))
  /\ \A s \in Streams :
       WF_vars(Updates(s) \/ ReceiveCurrent(s) \/ ReceiveOld(s)
                 \/ Respond(s) \/ Finish(s))

FairSpec == Spec /\ Fairness

-----------------------------------------------------------------------------
(* Properties. *)

TypeOK ==
  /\ cache \in [Entries -> Versions]
  /\ bundle \in Versions
  /\ clock \in Versions
  /\ registered \in SUBSET Streams
  /\ sel \in [Streams -> SUBSET Selectors]
  /\ active \in [Streams -> BOOLEAN]
  /\ chan \in [Streams -> Buffer]
  /\ ref \in [Streams -> {"none", "cur", "old"}]
  /\ old \in [Streams -> Buffer]
  /\ got \in [Streams -> Update]
  /\ notifyMutex \in Threads \cup {NoThread}
  /\ pc \in [Threads -> WriterPCs \cup NotifyPCs \cup StreamPCs]
  /\ \A w \in Writers : pc[w] \in WriterPCs \cup NotifyPCs
  /\ \A s \in Streams : pc[s] \in StreamPCs \cup NotifyPCs
  /\ target \in [Writers -> SUBSET Selectors]
  /\ subs \in [Threads -> SUBSET Streams]
  /\ snapE \in [Threads -> [Entries -> Versions]]
  /\ snapB \in [Threads -> Versions]

\* What subscriber s would be sent if it were notified now.
Current(s) == [ents |-> SubscriberEntries(sel[s], cache), bundle |-> bundle]

\* The newest update of s: the unread one in its channel, else the one it read last.
Latest(s) == IF chan[s] # <<>> THEN chan[s][1] ELSE got[s]

\* t has changed the cache or subscribed and has not finished notifying.
Notifying(t) == pc[t] \in NotifyPCs \cup {"get", "getall"}

\* Once no SetEntry, SetBundle, DeleteEntry or Subscribe is under way, the newest
\* update on the channel of every active subscriber is what the cache holds now:
\* no interleaving of writers, new subscriptions, slow readers and replaced
\* channels leaves a workload with an outdated SVID or bundle (cache.go,
\* notifySubscribers).
NoMissedUpdate ==
  (\A t \in Threads : ~Notifying(t)) =>
    \A s \in Streams : active[s] => Latest(s) = Current(s)

\* The handler never reads a nil update from a channel that was closed behind its
\* back (subscriber.go, the WARNING on Updates; sendResponse would panic).
NeverReadsDrainedChannel == \A s \in Streams : pc[s] # "panic"

\* A stream never receives an older bundle, or an older SVID of an entry it still
\* gets, after a newer one: notifyMutex keeps snapshots and sends in one order.
UpdatesMoveForward ==
  [][\A s \in Streams : active'[s] =>
       /\ got[s].bundle <= got'[s].bundle
       /\ \A e \in Entries :
            (got[s].ents[e] # 0 /\ got'[s].ents[e] # 0) =>
               got[s].ents[e] <= got'[s].ents[e]]_vars

\* Every open stream keeps catching up: again and again (and for good once the
\* writes stop) the update it received last is what the cache holds for it
\* (SetEntry, SetBundle, DeleteEntry through to FetchX509SVID).
StreamsCatchUp ==
  \A s \in Streams : []<>(active[s] => got[s] = Current(s))

\* A SetBundle reclaims every subscriber that had finished when it looked the
\* subscribers up (notifySubscribers, "remove it"): finished streams do not pile up.
FinishedIsReclaimed ==
  \A w \in Writers : \A s \in Streams :
    (pc[w] = "getall" /\ pc[s] = "done") ~> s \notin registered
=============================================================================
