----------------------------- MODULE DataStoreCalls -----------------------------
(***************************************************************************)
(* Any sequence of calls of the data store's interface, with any argument. *)
(* The plugin runs one call at a time: most hold ds.mutex, and the others  *)
(* do their writing in one transaction or statement.                       *)
(***************************************************************************)
EXTENDS DataStore

CONSTANTS
  Expiries,   \* expiry times of tokens, 0 (rejected) among them
  Serials,    \* serial numbers of agent certificates
  MaxList     \* bound on the length of a selector list

ASSUME CallsAssumption == Expiries \subseteq Nat /\ Serials \subseteq Nat

VARIABLE db

Lists == UNION {[1..n -> Selectors] : n \in 0..MaxList}

TablesOK == db \in DB

StoreInit == db = EmptyDB

Call(result) == db' = result.db

CallRegisterToken == \E t \in Tokens, x \in Expiries : Call(RegisterToken(db, t, x))
CallDeleteToken(t) == Call(DeleteToken(db, t))
CallPruneTokens == \E x \in Expiries : Call(PruneTokens(db, x))

CallCreateNode == \E i \in Ids, n \in Serials : Call(CreateAttestedNodeEntry(db, i, n))
CallUpdateNode == \E i \in Ids, n \in Serials : Call(UpdateAttestedNodeEntry(db, i, n))
CallDeleteNode == \E i \in Ids : Call(DeleteAttestedNodeEntry(db, i))

CallCreateResolver == \E i \in Ids, s \in Selectors : Call(CreateNodeResolverMapEntry(db, i, s))
CallDeleteResolver ==
  \E i \in Ids, S \in {{s} : s \in Selectors} \cup {Selectors} :
    Call(DeleteNodeResolverMapEntry(db, i, S))

Arguments == [spiffe: Ids, parent: Ids, selectors: Lists]

CallCreateEntry ==
  \E e \in EntryIds, r \in Arguments :
    /\ db.entry[e].row = "none"
    /\ Call(CreateRegistrationEntry(db, e, r))
CallUpdateEntry ==
  \E e \in EntryIds, r \in Arguments : Call(UpdateRegistrationEntry(db, e, r))
CallDeleteEntry == \E e \in EntryIds : Call(DeleteRegistrationEntry(db, e))

CallCreateBundle == \E d \in Domains, C \in SUBSET Certs : Call(CreateBundle(db, d, C))
CallUpdateBundle == \E d \in Domains, C \in SUBSET Certs : Call(UpdateBundle(db, d, C))
CallAppendBundle == \E d \in Domains, C \in SUBSET Certs : Call(AppendBundle(db, d, C))
CallDeleteBundle == \E d \in Domains : Call(DeleteBundle(db, d))

TokenCall == CallRegisterToken \/ (\E t \in Tokens : CallDeleteToken(t)) \/ CallPruneTokens
NodeCall == CallCreateNode \/ CallUpdateNode \/ CallDeleteNode
ResolverCall == CallCreateResolver \/ CallDeleteResolver
EntryCall == CallCreateEntry \/ CallUpdateEntry \/ CallDeleteEntry
BundleCall == CallCreateBundle \/ CallUpdateBundle \/ CallAppendBundle \/ CallDeleteBundle

StoreNext == TokenCall \/ NodeCall \/ ResolverCall \/ EntryCall \/ BundleCall

StoreSpec == StoreInit /\ [][StoreNext]_db

\* The join tokens alone.
TokenSpec == StoreInit /\ [][TokenCall]_db

(***************************************************************************)
(* Properties.                                                             *)
(***************************************************************************)
\* Whatever entries were created, updated and deleted before, a call of
\* ListMatchingEntries that succeeds returns the live entries that have all the
\* requested selectors (and maybe more): the reference counting of
\* listMatchingEntries computes a superset test, also for lists with repetitions.
MatchingIsSuperset ==
  \A q \in Lists \ {<<>>} :
    LET result == ListMatchingEntries(db, q)
    IN ~result.err =>
         result.res = {e \in LiveEntries(db) : Elements(q) \subseteq SelectorsOf(db, e)}

\* A call of ListSelectorEntries that succeeds on a list without repetitions returns
\* the live entries with exactly these selectors, though it compares only lengths.
SelectorListIsExact ==
  \A q \in Lists \ {<<>>} :
    LET result == ListSelectorEntries(db, q)
    IN (~result.err /\ Cardinality(Elements(q)) = Len(q)) =>
         result.res = {e \in LiveEntries(db) : Elements(q) = SelectorsOf(db, e)}

\* A token, agent or node selector that was deleted never comes back: the deleted row
\* still occupies its unique index, so creating it again is refused.
DeletedStaysDeleted ==
  [][/\ \A t \in Tokens : db.token[t].row = "dead" => db'.token[t].row = "dead"
     /\ \A i \in Ids : db.node[i].row = "dead" => db'.node[i].row = "dead"
     /\ \A p \in Ids \X Selectors : db.resolver[p] = "dead" => db'.resolver[p] = "dead"]_db

\* Deleting one token leaves every other token in place ("Protect the data").
DeleteTokenKeepsOthers ==
  [][\A t \in Tokens : CallDeleteToken(t) =>
       \A u \in Tokens \ {t} : FetchToken(db', u) = FetchToken(db, u)]_db
================================================================================
