--------------------------- MODULE RegistrationProofs ---------------------------
(***************************************************************************)
(* The theorems about the registration API and its commands, for any       *)
(* number of commands at a time, files of any length and any tables; and   *)
(* those about the data store under any calls.                             *)
(***************************************************************************)
EXTENDS RegistrationCLI, TLAPS

(***************************************************************************)
(* The tables.                                                             *)
(***************************************************************************)
TokenRows    == [Tokens -> [row: Row, expiry: Nat]]
NodeRows     == [Ids -> [row: Row, serial: Nat]]
ResolverRows == [Ids \X Selectors -> Row]
EntryRows    == [EntryIds -> [row: Row, spiffe: Ids, parent: Ids]]
SelectorRows == SUBSET (EntryIds \X Selectors)
BundleRows   == [Domains -> [row: Row, certs: SUBSET Certs]]

LEMMA Tables ==
  ASSUME NEW d \in DB
  PROVE  /\ d.token \in TokenRows /\ d.node \in NodeRows /\ d.resolver \in ResolverRows
         /\ d.entry \in EntryRows /\ d.selector \in SelectorRows /\ d.bundle \in BundleRows
  BY Zenon DEF DB, TokenRows, NodeRows, ResolverRows, EntryRows, SelectorRows, BundleRows

LEMMA EmptyTables == EmptyDB \in DB
  BY Zenon, DataStoreAssumption DEF EmptyDB, DB, Row

\* From the tables d to the tables n, no deleted token, agent or node selector comes back.
StaysDeleted(d, n) ==
  /\ \A t \in Tokens : d.token[t].row = "dead" => n.token[t].row = "dead"
  /\ \A i \in Ids : d.node[i].row = "dead" => n.node[i].row = "dead"
  /\ \A p \in Ids \X Selectors : d.resolver[p] = "dead" => n.resolver[p] = "dead"

SameEntries(d, n) == n.entry = d.entry /\ n.selector = d.selector

\* A call that fails changes nothing.
LEMMA Unchanged ==
  ASSUME NEW d \in DB
  PROVE  Fail(d).db = d /\ StaysDeleted(d, d) /\ SameEntries(d, d)
  BY Zenon DEF Fail, StaysDeleted, SameEntries

LEMMA TokenCalls ==
  ASSUME NEW d \in DB, NEW n,
         \/ \E t \in Tokens, x \in Nat : n = RegisterToken(d, t, x).db
         \/ \E t \in Tokens : n = DeleteToken(d, t).db
         \/ \E x \in Nat : n = PruneTokens(d, x).db
  PROVE  n \in DB /\ StaysDeleted(d, n) /\ SameEntries(d, n)
<1>0. d.token \in TokenRows
  BY Zenon, Tables
<1>1. CASE n = d
  BY Zenon, <1>1, Unchanged
<1>2. ASSUME NEW T \in TokenRows, n = [d EXCEPT !.token = T],
             \A u \in Tokens : d.token[u].row = "dead" => T[u].row = "dead"
      PROVE  n \in DB /\ StaysDeleted(d, n) /\ SameEntries(d, n)
  <2>1. n.token = T /\ n.node = d.node /\ n.resolver = d.resolver /\ n.entry = d.entry /\ n.selector = d.selector
    BY Zenon, <1>2 DEF DB
  <2>2. n \in DB
    BY <1>2, Zenon DEF DB, TokenRows
  <2> QED
    BY Zenon, <1>2, <2>1, <2>2 DEF StaysDeleted, SameEntries
<1>3. ASSUME NEW t \in Tokens, NEW x \in Nat, n = RegisterToken(d, t, x).db
      PROVE  n \in DB /\ StaysDeleted(d, n) /\ SameEntries(d, n)
  <2> DEFINE T == [d.token EXCEPT ![t] = [row |-> "live", expiry |-> x]]
  <2>1. T \in TokenRows
    BY Zenon, <1>0 DEF TokenRows, Row
  <2>2. CASE d.token[t].row # "none" \/ x = 0
    BY Zenon, <1>1, <1>3, <2>2 DEF RegisterToken, Fail
  <2>3. CASE ~(d.token[t].row # "none" \/ x = 0)
    <3>1. n = [d EXCEPT !.token = T]
      BY Zenon, <1>3, <2>3 DEF RegisterToken, Return
    <3>2. \A u \in Tokens : d.token[u].row = "dead" => T[u].row = "dead"
      BY Zenon, <1>0, <2>3 DEF TokenRows
    <3> QED
      BY <1>2, <2>1, <3>1, <3>2, Zenon
  <2> QED
    BY Zenon, <2>2, <2>3
<1>4. ASSUME NEW t \in Tokens, n = DeleteToken(d, t).db
      PROVE  n \in DB /\ StaysDeleted(d, n) /\ SameEntries(d, n)
  <2> DEFINE T == [u \in Tokens |-> IF d.token[u].row = "live" THEN [d.token[u] EXCEPT !.row = "dead"]
                                                              ELSE d.token[u]]
  <2>1. T \in TokenRows /\ \A u \in Tokens : d.token[u].row = "dead" => T[u].row = "dead"
    BY Zenon, <1>0 DEF TokenRows, Row
  <2>2. n = [d EXCEPT !.token = T]
    BY Zenon, <1>4 DEF DeleteToken, Return
  <2> QED
    BY <1>2, <2>1, <2>2, Zenon
<1>5. ASSUME NEW x \in Nat, n = PruneTokens(d, x).db
      PROVE  n \in DB /\ StaysDeleted(d, n) /\ SameEntries(d, n)
  <2> DEFINE T == [u \in Tokens |-> IF d.token[u].row = "live" /\ d.token[u].expiry <= x
                                     THEN [d.token[u] EXCEPT !.row = "dead"] ELSE d.token[u]]
  <2>1. T \in TokenRows /\ \A u \in Tokens : d.token[u].row = "dead" => T[u].row = "dead"
    BY Zenon, <1>0 DEF TokenRows, Row
  <2>2. n = [d EXCEPT !.token = T]
    BY Zenon, <1>5 DEF PruneTokens, Return
  <2> HIDE DEF T
  <2> QED
    BY Zenon, <1>2, <2>1, <2>2
<1> QED
  BY Zenon, <1>3, <1>4, <1>5

LEMMA NodeCalls ==
  ASSUME NEW d \in DB, NEW i \in Ids, NEW serial \in Nat,
         NEW n \in {CreateAttestedNodeEntry(d, i, serial).db,
                    UpdateAttestedNodeEntry(d, i, serial).db, DeleteAttestedNodeEntry(d, i).db}
  PROVE  n \in DB /\ StaysDeleted(d, n) /\ SameEntries(d, n)
<1>0. d.node \in NodeRows
  BY Zenon, Tables
<1>1. CASE n = d
  BY Zenon, <1>1, Unchanged
<1>2. ASSUME NEW N \in NodeRows, n = [d EXCEPT !.node = N],
             \A j \in Ids : d.node[j].row = "dead" => N[j].row = "dead"
      PROVE  n \in DB /\ StaysDeleted(d, n) /\ SameEntries(d, n)
  <2>1. n.node = N /\ n.token = d.token /\ n.resolver = d.resolver /\ n.entry = d.entry /\ n.selector = d.selector
    BY Zenon, <1>2 DEF DB
  <2>2. n \in DB
    BY <1>2, Zenon DEF DB, NodeRows
  <2> QED
    BY Zenon, <1>2, <2>1, <2>2 DEF StaysDeleted, SameEntries
<1>3. CASE n = CreateAttestedNodeEntry(d, i, serial).db /\ d.node[i].row = "none"
  <2> DEFINE N == [d.node EXCEPT ![i] = [row |-> "live", serial |-> serial]]
  <2>1. N \in NodeRows /\ \A j \in Ids : d.node[j].row = "dead" => N[j].row = "dead"
    BY Zenon, <1>0, <1>3 DEF NodeRows, Row
  <2>2. n = [d EXCEPT !.node = N]
    BY Zenon, <1>3 DEF CreateAttestedNodeEntry, Return
  <2> QED
    BY <1>2, <2>1, <2>2, Zenon
<1>4. CASE n = UpdateAttestedNodeEntry(d, i, serial).db /\ d.node[i].row = "live"
  <2> DEFINE N == [d.node EXCEPT ![i] = [d.node[i] EXCEPT !.serial = serial]]
  <2>1. N \in NodeRows /\ \A j \in Ids : d.node[j].row = "dead" => N[j].row = "dead"
    BY Zenon, <1>0, <1>4 DEF NodeRows, Row
  <2>2. n = [d EXCEPT !.node = N]
    BY Zenon, <1>4 DEF UpdateAttestedNodeEntry, Return
  <2> QED
    BY <1>2, <2>1, <2>2, Zenon
<1>5. CASE n = DeleteAttestedNodeEntry(d, i).db /\ d.node[i].row = "live"
  <2> DEFINE N == [d.node EXCEPT ![i] = [d.node[i] EXCEPT !.row = "dead"]]
  <2>1. N \in NodeRows /\ \A j \in Ids : d.node[j].row = "dead" => N[j].row = "dead"
    BY Zenon, <1>0 DEF NodeRows, Row
  <2>2. n = [d EXCEPT !.node = N]
    BY Zenon, <1>5 DEF DeleteAttestedNodeEntry, Return
  <2> QED
    BY <1>2, <2>1, <2>2, Zenon
<1> QED
  BY Zenon, <1>1, <1>3, <1>4, <1>5 DEF CreateAttestedNodeEntry, UpdateAttestedNodeEntry,
                                       DeleteAttestedNodeEntry, Fail

LEMMA ResolverCalls ==
  ASSUME NEW d \in DB, NEW i \in Ids, NEW n,
         \/ \E s \in Selectors : n = CreateNodeResolverMapEntry(d, i, s).db
         \/ \E S : n = DeleteNodeResolverMapEntry(d, i, S).db
  PROVE  n \in DB /\ StaysDeleted(d, n) /\ SameEntries(d, n)
<1>0. d.resolver \in ResolverRows
  BY Zenon, Tables
<1>1. CASE n = d
  BY Zenon, <1>1, Unchanged
<1>2. ASSUME NEW R \in ResolverRows, n = [d EXCEPT !.resolver = R],
             \A p \in Ids \X Selectors : d.resolver[p] = "dead" => R[p] = "dead"
      PROVE  n \in DB /\ StaysDeleted(d, n) /\ SameEntries(d, n)
  <2>1. n.resolver = R /\ n.token = d.token /\ n.node = d.node /\ n.entry = d.entry /\ n.selector = d.selector
    BY Zenon, <1>2 DEF DB
  <2>2. n \in DB
    BY <1>2, Zenon DEF DB, ResolverRows
  <2> QED
    BY Zenon, <1>2, <2>1, <2>2 DEF StaysDeleted, SameEntries
<1>3. ASSUME NEW s \in Selectors, n = CreateNodeResolverMapEntry(d, i, s).db,
             d.resolver[<<i, s>>] = "none"
      PROVE  n \in DB /\ StaysDeleted(d, n) /\ SameEntries(d, n)
  <2> DEFINE R == [d.resolver EXCEPT ![<<i, s>>] = "live"]
  <2>1. R \in ResolverRows /\ \A p \in Ids \X Selectors : d.resolver[p] = "dead" => R[p] = "dead"
    BY Zenon, <1>0, <1>3 DEF ResolverRows, Row
  <2>2. n = [d EXCEPT !.resolver = R]
    BY Zenon, <1>3 DEF CreateNodeResolverMapEntry, Return
  <2> QED
    BY <1>2, <2>1, <2>2, Zenon
<1>4. ASSUME NEW S, n = DeleteNodeResolverMapEntry(d, i, S).db
      PROVE  n \in DB /\ StaysDeleted(d, n) /\ SameEntries(d, n)
  <2> DEFINE R == [p \in Ids \X Selectors |->
                     IF p[1] = i /\ p[2] \in S /\ d.resolver[p] = "live" THEN "dead"
                                                                         ELSE d.resolver[p]]
  <2>1. R \in ResolverRows /\ \A p \in Ids \X Selectors : d.resolver[p] = "dead" => R[p] = "dead"
    BY Zenon, <1>0 DEF ResolverRows, Row
  <2>2. n = [d EXCEPT !.resolver = R]
    BY Zenon, <1>4 DEF DeleteNodeResolverMapEntry, Return
  <2> QED
    BY <1>2, <2>1, <2>2, Zenon
<1> QED
  BY <1>1, <1>3, <1>4, Zenon DEF CreateNodeResolverMapEntry, Fail

LEMMA BundleCalls ==
  ASSUME NEW d \in DB, NEW k \in Domains, NEW C \in SUBSET Certs,
         NEW n \in {CreateBundle(d, k, C).db, UpdateBundle(d, k, C).db, AppendBundle(d, k, C).db,
                    DeleteBundle(d, k).db}
  PROVE  n \in DB /\ StaysDeleted(d, n) /\ SameEntries(d, n)
<1>0. d.bundle \in BundleRows
  BY Zenon, Tables
<1>1. CASE n = d
  BY Zenon, <1>1, Unchanged
<1>2. ASSUME NEW r \in [row: Row, certs: SUBSET Certs], n = [d EXCEPT !.bundle[k] = r]
      PROVE  n \in DB /\ StaysDeleted(d, n) /\ SameEntries(d, n)
  <2>1. [d.bundle EXCEPT ![k] = r] \in BundleRows
    BY Zenon, <1>0 DEF BundleRows
  <2>2. /\ n.token = d.token /\ n.node = d.node /\ n.resolver = d.resolver
        /\ n.entry = d.entry /\ n.selector = d.selector
    BY Zenon, <1>2 DEF DB
  <2>3. n \in DB
    BY <1>2, <2>1, Zenon DEF DB, BundleRows
  <2> QED
    BY Zenon, <2>2, <2>3 DEF StaysDeleted, SameEntries
<1>3. \/ n = d
      \/ n = [d EXCEPT !.bundle[k] = [row |-> "live", certs |-> C]]
      \/ n = [d EXCEPT !.bundle[k] = [d.bundle[k] EXCEPT !.certs = C]]
      \/ n = [d EXCEPT !.bundle[k] = [d.bundle[k] EXCEPT !.certs = d.bundle[k].certs \cup C]]
      \/ n = [d EXCEPT !.bundle[k] = [row |-> "dead", certs |-> {}]]
  BY Zenon DEF CreateBundle, UpdateBundle, AppendBundle, DeleteBundle, Return, Fail
<1>4. /\ [row |-> "live", certs |-> C] \in [row: Row, certs: SUBSET Certs]
      /\ [d.bundle[k] EXCEPT !.certs = C] \in [row: Row, certs: SUBSET Certs]
      /\ [d.bundle[k] EXCEPT !.certs = d.bundle[k].certs \cup C] \in [row: Row, certs: SUBSET Certs]
      /\ [row |-> "dead", certs |-> {}] \in [row: Row, certs: SUBSET Certs]
  BY Zenon, <1>0 DEF BundleRows, Row
<1> QED
  BY Zenon, <1>1, <1>2, <1>3, <1>4

(***************************************************************************)
(* The entries and their selectors.                                        *)
(***************************************************************************)
\* Storing an entry changes only its row and its selectors.
LEMMA StoredEntry ==
  ASSUME NEW d \in DB, NEW e \in EntryIds, NEW r \in Requests, NEW n, n = StoreEntry(d, e, r)
  PROVE  /\ n \in DB /\ SelectorsOf(n, e) = Elements(r.selectors)
         /\ n.token = d.token /\ n.node = d.node /\ n.resolver = d.resolver
         /\ n.entry[e].row = "live" /\ n.entry[e].spiffe = r.spiffe /\ n.entry[e].parent = r.parent
         /\ \A f \in EntryIds \ {e} : n.entry[f] = d.entry[f] /\ SelectorsOf(n, f) = SelectorsOf(d, f)
<1> DEFINE E == [d.entry EXCEPT ![e] = [row |-> "live", spiffe |-> r.spiffe, parent |-> r.parent]]
           S == SetSelectors(d.selector, e, Elements(r.selectors))
<1>1. /\ d.entry \in EntryRows /\ d.selector \in SelectorRows
      /\ r.spiffe \in Ids /\ r.parent \in Ids /\ r.selectors \in Seq(Selectors)
  BY Zenon, Tables DEF Requests
<1>2. Elements(r.selectors) \subseteq Selectors
  BY <1>1 DEF Elements
<1>3. /\ E \in EntryRows
      /\ E[e].row = "live" /\ E[e].spiffe = r.spiffe /\ E[e].parent = r.parent
      /\ \A f \in EntryIds \ {e} : E[f] = d.entry[f]
  BY Zenon, <1>1 DEF EntryRows, Row
<1>4. S \in SelectorRows
  BY Zenon, <1>1, <1>2 DEF SetSelectors, SelectorRows
<1>5. n = [d EXCEPT !.entry = E, !.selector = S]
  BY Zenon DEF StoreEntry
<1>8. \A f \in EntryIds, s \in Selectors :
        <<f, s>> \in S <=> IF f = e THEN s \in Elements(r.selectors) ELSE <<f, s>> \in d.selector
  BY Zenon, <1>1 DEF SetSelectors, SelectorRows
<1> HIDE DEF E, S
<1>6. /\ n.token = d.token /\ n.node = d.node /\ n.resolver = d.resolver
      /\ n.entry = E /\ n.selector = S
  BY Zenon, <1>5 DEF DB
<1>7. n \in DB
  BY <1>3, <1>4, <1>5, ZenonT(60) DEF DB, EntryRows, SelectorRows
<1>9. SelectorsOf(n, e) = Elements(r.selectors)
  BY Zenon, <1>2, <1>6, <1>8 DEF SelectorsOf
<1>10. \A f \in EntryIds \ {e} : SelectorsOf(n, f) = SelectorsOf(d, f)
  BY Zenon, <1>6, <1>8 DEF SelectorsOf
<1> QED
  BY Zenon, <1>3, <1>6, <1>7, <1>9, <1>10

\* Deleting an entry leaves what the tables say of it and of all others.
LEMMA DeletedEntry ==
  ASSUME NEW d \in DB, NEW e \in EntryIds, NEW n, n = DeleteRegistrationEntry(d, e).db
  PROVE  /\ n \in DB
         /\ n.token = d.token /\ n.node = d.node /\ n.resolver = d.resolver
         /\ n.selector = d.selector
         /\ \A f \in EntryIds : /\ n.entry[f].spiffe = d.entry[f].spiffe
                                /\ n.entry[f].parent = d.entry[f].parent
                                /\ n.entry[f].row = d.entry[f].row \/ n.entry[f].row = "dead"
                                /\ f # e => n.entry[f].row = d.entry[f].row
         /\ d.entry[e].row = "none" => n.entry[e].row = "none"
<1>1. d.entry \in EntryRows
  BY Zenon, Tables
<1>2. CASE e \notin LiveEntries(d)
  BY Zenon, <1>2 DEF DeleteRegistrationEntry, Fail
<1>3. CASE e \in LiveEntries(d)
  <2> DEFINE E == [d.entry EXCEPT ![e] = [d.entry[e] EXCEPT !.row = "dead"]]
  <2>1. n = [d EXCEPT !.entry = E]
    BY Zenon, <1>3 DEF DeleteRegistrationEntry, Return
  <2>2. /\ E \in EntryRows /\ d.entry[e].row = "live"
        /\ \A f \in EntryIds : /\ E[f].spiffe = d.entry[f].spiffe
                               /\ E[f].parent = d.entry[f].parent
                               /\ E[f].row = IF f = e THEN "dead" ELSE d.entry[f].row
    BY Zenon, <1>1, <1>3 DEF EntryRows, Row, LiveEntries
  <2> HIDE DEF E
  <2>3. /\ n.token = d.token /\ n.node = d.node /\ n.resolver = d.resolver
        /\ n.selector = d.selector /\ n.entry = E
    BY Zenon, <2>1 DEF DB
  <2>4. n \in DB
    BY <2>1, <2>2, Zenon DEF DB, EntryRows
  <2> QED
    BY Zenon, <2>2, <2>3, <2>4
<1> QED
  BY Zenon, <1>2, <1>3

(***************************************************************************)
(* The calls of CreateEntry and the commands that make them.  What the     *)
(* invariant says of a command m with its call k, over the tables d.       *)
(***************************************************************************)
CallStates ==
  {Idle} \cup [pc: {"check", "create", "done"}, request: Requests, free: BOOLEAN, ok: BOOLEAN]

\* The calls that entry show makes.
Steps == [by: {"entry", "all", "parent", "spiffe", "selector"},
          key: {{}} \cup Ids \cup EntryIds \cup Selectors \cup {BadFlag}]

Commands ==
  [name: {"create", "generate", "show", "delete", "bundle"}, code: {"runs", "ok", "failed"},
   file: Seq(Requests), sent: Nat, query: Queries \cup {NoQuery},
   left: Seq(Steps),
   shown: SUBSET EntryIds, target: EntryIds \cup {None}, token: Tokens \cup {None},
   always: SUBSET EntryIds, ever: SUBSET EntryIds]

\* The entries that were ever created.
Existing(d) == {e \in EntryIds : d.entry[e].row # "none"}

\* An entry that was missing when the call looked was missing at some moment.
Refused(d, k) ==
  /\ k.pc = "check" => k.free \/ ~Free(d, k.request)
  /\ k.pc = "create" => k.free
  /\ k.pc # "done" => ~k.ok

\* The history of a command is what there has been.
Watched(d, m) ==
  /\ m.always \subseteq m.ever /\ m.ever \subseteq Existing(d)
  /\ m.code = "runs" => m.always \subseteq LiveEntries(d) /\ LiveEntries(d) \subseteq m.ever

\* What entry create and token generate have sent was created, and the call is for the next.
Creating(d, m, k) ==
  /\ m.sent <= Len(m.file)
  /\ \A i \in 1..m.sent : \E e \in m.ever : Equals(d, e, m.file[i])
  /\ IF m.name \in {"create", "generate"}
       THEN m.target = None /\ (m.code = "ok" => m.sent = Len(m.file))
       ELSE m.file = <<>>
  /\ k # Idle => /\ m.code = "runs" /\ m.sent < Len(m.file)
                 /\ k.request = m.file[m.sent + 1]
                 /\ k.pc = "done" /\ k.ok => \E e \in m.ever : Equals(d, e, k.request)

MatchesOf(d, q) ==
  IF q.entry # None THEN {q.entry}
  ELSE {e \in EntryIds : /\ Elements(q.selectors) \subseteq SelectorsOf(d, e)
                         /\ q.spiffe # None => q.spiffe = d.entry[e].spiffe
                         /\ q.parent # None => q.parent = d.entry[e].parent}

\* All entries that match and were there all the time are among the found ones from the first
\* call on, unless that call is by a selector.
Collecting(d, m) ==
  /\ m.query.entry = None /\ m.query # NoQuery
  /\ m.shown \subseteq m.ever
  /\ (m.query.parent # None \/ m.query.spiffe # None) =>
       MatchesOf(d, m.query) \cap m.always \subseteq m.shown

Shown(d, m) ==
  /\ m.shown \subseteq MatchesOf(d, m.query) \cap m.ever
  /\ (m.query.selectors = <<>> \/ m.query.parent # None \/ m.query.spiffe # None) =>
       MatchesOf(d, m.query) \cap m.always \subseteq m.shown

Showing(d, m) ==
  IF m.name = "show"
    THEN /\ m.target = None
         /\ m.code = "runs" => (m.left = Lookups(m.query) /\ m.shown = {}) \/ Collecting(d, m)
         /\ m.code = "ok" => Shown(d, m)
    ELSE m.left = <<>>

Good(d, m, k) ==
  /\ k # Idle => Refused(d, k)
  /\ m = NoCommand => k = Idle
  /\ m # NoCommand => Watched(d, m) /\ Creating(d, m, k) /\ Showing(d, m)

\* The invariant of the commands.
CLIInv ==
  /\ db \in DB
  /\ call \in [Calls -> CallStates]
  /\ cmd \in [Calls -> {NoCommand} \cup Commands]
  /\ \A c \in Calls : Good(db, cmd[c], call[c])

(***************************************************************************)
(* What the calls of others leave of a command.                            *)
(***************************************************************************)
\* An entry, once created, says the same for ever.
Keeps(d, n) ==
  \A e \in Existing(d) : /\ e \in Existing(n)
                         /\ n.entry[e].spiffe = d.entry[e].spiffe
                         /\ n.entry[e].parent = d.entry[e].parent
                         /\ SelectorsOf(n, e) = SelectorsOf(d, e)

\* m1 is m after it has seen the tables n.
SeenAs(m, m1, n) ==
  /\ m1.name = m.name /\ m1.code = m.code /\ m1.file = m.file /\ m1.sent = m.sent
  /\ m1.query = m.query /\ m1.left = m.left /\ m1.shown = m.shown /\ m1.target = m.target
  /\ IF m.code = "runs"
       THEN m1.always = m.always \cap LiveEntries(n) /\ m1.ever = m.ever \cup LiveEntries(n)
       ELSE m1.always = m.always /\ m1.ever = m.ever

LEMMA KeptEntries ==
  ASSUME NEW d, NEW n, Keeps(d, n), NEW e \in Existing(d)
  PROVE  /\ e \in EntryIds /\ e \in Existing(n)
         /\ \A r : Equals(n, e, r) <=> Equals(d, e, r)
         /\ \A q : e \in MatchesOf(n, q) <=> e \in MatchesOf(d, q)
<1>1. e \in EntryIds /\ e \in Existing(n)
  BY Zenon DEF Keeps, Existing
<1>2. \A r : Equals(n, e, r) <=> Equals(d, e, r)
  BY Zenon DEF Keeps, Equals
<1>3. \A q : e \in MatchesOf(n, q) <=> e \in MatchesOf(d, q)
  BY Zenon, <1>1 DEF Keeps, MatchesOf
<1> QED
  BY Zenon, <1>1, <1>2, <1>3

LEMMA SeenIsGood ==
  ASSUME NEW d, NEW n, Keeps(d, n), NEW m, NEW m1, SeenAs(m, m1, n), NEW k, NEW k1,
         k1 = Idle <=> k = Idle,
         k # Idle => k1.pc = k.pc /\ k1.request = k.request /\ k1.ok = k.ok,
         Watched(d, m), Creating(d, m, k), Showing(d, m)
  PROVE  Watched(n, m1) /\ Creating(n, m1, k1) /\ Showing(n, m1)
<1>1. /\ LiveEntries(n) \subseteq Existing(n) /\ Existing(d) \subseteq Existing(n)
      /\ m.always \subseteq m.ever /\ m.ever \subseteq Existing(d)
      /\ m.ever \subseteq m1.ever /\ m1.always \subseteq m.always
  BY Zenon DEF Watched, Keeps, SeenAs, LiveEntries, Existing
<1>2. Watched(n, m1)
  BY Zenon, <1>1 DEF Watched, SeenAs
<1>3. Creating(n, m1, k1)
  <2>1. \A r : (\E e \in m.ever : Equals(d, e, r)) => \E e \in m1.ever : Equals(n, e, r)
    BY Zenon, <1>1, KeptEntries
  <2> QED
    BY Zenon, <2>1 DEF Creating, SeenAs
<1>4. \A q, S : MatchesOf(d, q) \cap m.always \subseteq S => MatchesOf(n, q) \cap m1.always \subseteq S
  BY Zenon, <1>1, KeptEntries
<1>5. \A q : m.shown \subseteq MatchesOf(d, q) \cap m.ever => m.shown \subseteq MatchesOf(n, q) \cap m1.ever
  BY Zenon, <1>1, KeptEntries
<1>6. Showing(n, m1)
  <2> SUFFICES ASSUME m.name = "show"
               PROVE  /\ m.target = None
                      /\ m.code = "runs" => (m.left = Lookups(m.query) /\ m.shown = {}) \/ Collecting(n, m1)
                      /\ m.code = "ok" => Shown(n, m1)
    BY Zenon DEF Showing, SeenAs
  <2>1. Collecting(d, m) => Collecting(n, m1)
    BY Zenon, <1>1, <1>4 DEF Collecting, SeenAs
  <2>2. Shown(d, m) => Shown(n, m1)
    BY Zenon, <1>4, <1>5 DEF Shown, SeenAs
  <2> QED
    BY Zenon, <2>1, <2>2 DEF Showing
<1> QED
  BY Zenon, <1>2, <1>3, <1>6

\* Creating an entry with an unused id, or failing to.
LEMMA CreatedEntry ==
  ASSUME NEW d \in DB, NEW e \in EntryIds, NEW r \in Requests, d.entry[e].row = "none",
         NEW n, n = CreateRegistrationEntry(d, e, r).db
  PROVE  /\ n \in DB /\ Keeps(d, n) /\ LiveEntries(d) \subseteq LiveEntries(n)
         /\ ~CreateRegistrationEntry(d, e, r).err => e \in LiveEntries(n) /\ Equals(n, e, r)
<1>1. CASE ~Valid(r)
  BY Zenon, <1>1 DEF CreateRegistrationEntry, Fail, Keeps
<1>2. CASE Valid(r)
  <2>1. n = StoreEntry(d, e, r)
    BY Zenon, <1>2 DEF CreateRegistrationEntry, Return
  <2>2. /\ n \in DB /\ SelectorsOf(n, e) = Elements(r.selectors)
        /\ n.entry[e].row = "live" /\ n.entry[e].spiffe = r.spiffe /\ n.entry[e].parent = r.parent
        /\ \A f \in EntryIds \ {e} : n.entry[f] = d.entry[f] /\ SelectorsOf(n, f) = SelectorsOf(d, f)
    BY <2>1, StoredEntry
  <2>3. Existing(d) \subseteq EntryIds \ {e} /\ LiveEntries(d) \subseteq EntryIds \ {e}
    BY Zenon DEF Existing, LiveEntries
  <2>4. Keeps(d, n) /\ LiveEntries(d) \subseteq LiveEntries(n)
    BY Zenon, <2>2, <2>3 DEF Keeps, Existing, LiveEntries
  <2>5. e \in LiveEntries(n) /\ Equals(n, e, r)
    BY Zenon, <2>2 DEF LiveEntries, Equals
  <2> QED
    BY Zenon, <2>2, <2>4, <2>5
<1> QED
  BY Zenon, <1>1, <1>2

\* Deleting an entry keeps what it says.
LEMMA MarkedEntry ==
  ASSUME NEW d \in DB, NEW e \in EntryIds, NEW n, n = DeleteRegistrationEntry(d, e).db
  PROVE  n \in DB /\ Keeps(d, n)
<1>1. /\ n \in DB /\ n.selector = d.selector
      /\ \A f \in EntryIds : /\ n.entry[f].spiffe = d.entry[f].spiffe
                             /\ n.entry[f].parent = d.entry[f].parent
                             /\ n.entry[f].row = d.entry[f].row \/ n.entry[f].row = "dead"
  BY DeletedEntry
<1>2. \A f \in EntryIds : SelectorsOf(n, f) = SelectorsOf(d, f)
  BY Zenon, <1>1 DEF SelectorsOf
<1> QED
  BY Zenon, <1>1, <1>2 DEF Keeps, Existing

LEMMA SameTables ==
  ASSUME NEW d, NEW n, SameEntries(d, n)
  PROVE  Keeps(d, n) /\ LiveEntries(n) = LiveEntries(d) /\ Existing(n) = Existing(d)
  BY Zenon DEF SameEntries, Keeps, LiveEntries, Existing, SelectorsOf

\* Equality of entries is what isEntryUnique looks for.
LEMMA UniqueIsFree ==
  ASSUME NEW d, NEW r
  PROVE  Unique(d, r) <=> Free(d, r)
  BY Zenon DEF Unique, Free, ListSpiffeEntries, Equals

\* An entry that is not free stays so while no entry is deleted.
LEMMA RefusedStays ==
  ASSUME NEW d, NEW n, Keeps(d, n), LiveEntries(d) \subseteq LiveEntries(n), NEW k, Refused(d, k)
  PROVE  Refused(n, k)
<1>1. LiveEntries(d) \subseteq Existing(d)
  BY Zenon DEF LiveEntries, Existing
<1>2. ~Free(d, k.request) => ~Free(n, k.request)
  BY Zenon, <1>1 DEF Free, Keeps
<1> QED
  BY Zenon, <1>2 DEF Refused

(***************************************************************************)
(* entry show.                                                             *)
(***************************************************************************)
LEMMA LookupsOf ==
  ASSUME NEW q \in Queries \cup {NoQuery}
  PROVE  /\ Lookups(q) \in Seq(Steps)
         /\ q.entry # None => Lookups(q) = <<[by |-> "entry", key |-> q.entry]>>
         /\ q = NoQuery => Lookups(q) \in {<<>>, <<[by |-> "all", key |-> {}]>>}
         /\ q.entry = None /\ q # NoQuery /\ q.parent # None =>
              Head(Lookups(q)) = [by |-> "parent", key |-> q.parent]
         /\ q.entry = None /\ q # NoQuery /\ q.parent = None /\ q.spiffe # None =>
              Head(Lookups(q)) = [by |-> "spiffe", key |-> q.spiffe]
         /\ q.entry = None /\ q # NoQuery /\ q.parent = None /\ q.spiffe = None => q.selectors # <<>>
<1>1. /\ q.entry \in EntryIds \cup {None} /\ q.parent \in Ids \cup {None}
      /\ q.spiffe \in Ids \cup {None} /\ q.selectors \in Seq(Selectors \cup {BadFlag})
  <2>1. CASE q = NoQuery
    BY <2>1 DEF NoQuery
  <2>2. CASE q \in Queries
    BY Zenon, <2>2, CLIAssumption
  <2> QED
    BY Zenon, <2>1, <2>2
<1>s. \A x \in Steps : <<x>> \in Seq(Steps) /\ <<x>> # <<>> /\ Head(<<x>>) = x
  OBVIOUS
<1>k. /\ \A x \in Ids : [by |-> "parent", key |-> x] \in Steps /\ [by |-> "spiffe", key |-> x] \in Steps
      /\ \A x \in Selectors \cup {BadFlag} : [by |-> "selector", key |-> x] \in Steps
      /\ \A x \in EntryIds : [by |-> "entry", key |-> x] \in Steps
      /\ [by |-> "all", key |-> {}] \in Steps
  <2>1. \A x \in Ids : [by |-> "parent", key |-> x] \in Steps /\ [by |-> "spiffe", key |-> x] \in Steps
    BY Zenon DEF Steps
  <2>2. \A x \in Selectors \cup {BadFlag} : [by |-> "selector", key |-> x] \in Steps
    BY Zenon DEF Steps
  <2>3. \A x \in EntryIds : [by |-> "entry", key |-> x] \in Steps
    BY Zenon DEF Steps
  <2>4. [by |-> "all", key |-> {}] \in Steps
    BY Zenon DEF Steps
  <2> QED
    BY Zenon, <2>1, <2>2, <2>3, <2>4
<1>e. <<>> \in Seq(Steps)
  OBVIOUS
<1> DEFINE P == By("parent", q.parent)
           I == By("spiffe", q.spiffe)
           L == [i \in DOMAIN q.selectors |-> [by |-> "selector", key |-> q.selectors[i]]]
<1>2. /\ P \in Seq(Steps) /\ I \in Seq(Steps)
      /\ q.parent # None => P # <<>> /\ Head(P) = [by |-> "parent", key |-> q.parent]
      /\ q.parent = None => P = <<>>
      /\ q.spiffe # None => I # <<>> /\ Head(I) = [by |-> "spiffe", key |-> q.spiffe]
  BY <1>1, <1>s, <1>k, <1>e, Zenon DEF By
<1>3. L \in Seq(Steps)
  <2>1. \A i \in DOMAIN q.selectors : L[i] \in Steps
    BY <1>1, <1>k
  <2>2. DOMAIN q.selectors = 1..Len(q.selectors) /\ Len(q.selectors) \in Nat
    BY <1>1
  <2>3. L \in [1..Len(q.selectors) -> Steps]
    BY <2>1, <2>2, Zenon
  <2> QED
    BY <2>2, <2>3
<1>4. /\ q.entry # None => Lookups(q) = By("entry", q.entry)
      /\ q = NoQuery => Lookups(q) = By("all", {})
      /\ q.entry = None /\ q # NoQuery => Lookups(q) = P \o I \o L
  BY DEF Lookups, NoQuery
<1> HIDE DEF P, I, L
<1>5. /\ P \o I \o L \in Seq(Steps)
      /\ P # <<>> => Head(P \o I \o L) = Head(P)
      /\ P = <<>> /\ I # <<>> => Head(P \o I \o L) = Head(I)
  BY <1>2, <1>3
<1>6. /\ By("entry", q.entry) \in Seq(Steps) /\ By("all", {}) \in Seq(Steps)
      /\ q.entry # None => By("entry", q.entry) = <<[by |-> "entry", key |-> q.entry]>>
      /\ By("all", {}) \in {<<>>, <<[by |-> "all", key |-> {}]>>}
  BY <1>1, <1>s, <1>k, <1>e, Zenon DEF By
<1>7. q.entry = None /\ q.parent = None /\ q.spiffe = None /\ q.selectors = <<>> => q = NoQuery
  BY Zenon, CLIAssumption DEF NoQuery
<1> QED
  BY <1>2, <1>4, <1>5, <1>6, <1>7, Zenon

\* Whatever a call returns is there at that moment; the first call returns all that matches.
LEMMA AnswersAreLive ==
  /\ \A l : ~Answer(l).err => Answer(l).res \subseteq LiveEntries(db)
  /\ \A key : Answer([by |-> "entry", key |-> key]).res \subseteq {key}
  /\ \A key : ~Answer([by |-> "entry", key |-> key]).err => Answer([by |-> "entry", key |-> key]).res = {key}
  /\ \A key : Answer([by |-> "all", key |-> key]).res = LiveEntries(db)
  /\ \A key : Answer([by |-> "parent", key |-> key]).res = {e \in LiveEntries(db) : db.entry[e].parent = key}
  /\ \A key : Answer([by |-> "spiffe", key |-> key]).res = {e \in LiveEntries(db) : db.entry[e].spiffe = key}
<1>1. \A l : ~Answer(l).err => Answer(l).res \subseteq LiveEntries(db)
  <2> SUFFICES ASSUME NEW l, ~Answer(l).err PROVE Answer(l).res \subseteq LiveEntries(db)
    BY Zenon
  <2>1. CASE l.by \in {"entry", "all", "parent", "spiffe"}
    BY Zenon, <2>1 DEF Answer, FetchRegistrationEntry, FetchRegistrationEntries, ListParentIDEntries,
                       ListSpiffeEntries
  <2>2. CASE l.by \notin {"entry", "all", "parent", "spiffe"}
    <3> DEFINE r == ListSelectorEntries(db, <<l.key>>)
    <3>1. ~r.err /\ Answer(l).res = r.res
      BY Zenon, <2>2 DEF Answer
    <3>2. <<l.key>> # <<>>
      BY Zenon
    <3>3. r = [Matching(db, <<l.key>>) EXCEPT !.res =
                 {e \in @ : Cardinality(SelectorsOf(db, e)) = Len(<<l.key>>)}]
      BY Zenon, <3>2 DEF ListSelectorEntries
    <3>4. r.err = Matching(db, <<l.key>>).err /\ r.res \subseteq Matching(db, <<l.key>>).res
      BY <3>3, Zenon DEF Matching, Return, Fail
    <3>5. ~Matching(db, <<l.key>>).err => Matching(db, <<l.key>>).res \subseteq LiveEntries(db)
      BY Zenon DEF Matching, Return, Fail
    <3> QED
      BY Zenon, <3>1, <3>4, <3>5
  <2> QED
    BY Zenon, <2>1, <2>2
<1>2. /\ \A key : Answer([by |-> "entry", key |-> key]).res \subseteq {key}
      /\ \A key : ~Answer([by |-> "entry", key |-> key]).err => Answer([by |-> "entry", key |-> key]).res = {key}
  BY ZenonT(60) DEF Answer, FetchRegistrationEntry
<1>3. \A key : Answer([by |-> "all", key |-> key]).res = LiveEntries(db)
  BY Zenon DEF Answer, FetchRegistrationEntries
<1>4. \A key : Answer([by |-> "parent", key |-> key]).res = {e \in LiveEntries(db) : db.entry[e].parent = key}
  BY Zenon DEF Answer, ListParentIDEntries
<1>5. \A key : Answer([by |-> "spiffe", key |-> key]).res = {e \in LiveEntries(db) : db.entry[e].spiffe = key}
  BY Zenon DEF Answer, ListSpiffeEntries
<1> QED
  BY Zenon, <1>1, <1>2, <1>3, <1>4, <1>5

(***************************************************************************)
(* The steps that leave the tables as they are.                            *)
(***************************************************************************)
LEMMA CommandsAreNotNone == NoCommand \notin Commands /\ NoCommand.code = "none"
  BY Zenon DEF NoCommand, Commands

\* A step that changes one command and its call, and no tables.
LEMMA OneCommand ==
  ASSUME CLIInv, NEW c \in Calls, NEW m \in Commands, NEW k \in CallStates,
         db' = db, cmd' = [cmd EXCEPT ![c] = m], call' = [call EXCEPT ![c] = k],
         k # Idle => Refused(db, k), Watched(db, m), Creating(db, m, k), Showing(db, m)
  PROVE  CLIInv'
<1>1. /\ db' \in DB /\ call' \in [Calls -> CallStates]
      /\ cmd' \in [Calls -> {NoCommand} \cup Commands]
  BY Zenon DEF CLIInv
<1>2. cmd'[c] = m /\ call'[c] = k /\ \A x \in Calls \ {c} : cmd'[x] = cmd[x] /\ call'[x] = call[x]
  BY Zenon DEF CLIInv
<1>3. Good(db, m, k)
  BY Zenon, CommandsAreNotNone DEF Good
<1>4. \A x \in Calls : Good(db, cmd[x], call[x])
  BY Zenon DEF CLIInv
<1>5. \A x \in Calls : Good(db', cmd'[x], call'[x])
  BY Zenon, <1>2, <1>3, <1>4
<1> QED
  BY Zenon, <1>1, <1>5 DEF CLIInv

LEMMA Typed ==
  ASSUME CLIInv, NEW c \in Calls
  PROVE  /\ db \in DB /\ call[c] \in CallStates /\ cmd[c] \in {NoCommand} \cup Commands
         /\ Good(db, cmd[c], call[c])
         /\ Running(c) => cmd[c] \in Commands
         /\ call = [call EXCEPT ![c] = call[c]] /\ cmd = [cmd EXCEPT ![c] = cmd[c]]
  BY Zenon, CommandsAreNotNone DEF CLIInv, Running

\* A command that starts has seen nothing but the tables as they are.
LEMMA Starting ==
  ASSUME CLIInv, NEW c \in Calls, NEW m \in Commands, Start(c, m),
         m.always = LiveEntries(db), m.ever = LiveEntries(db), m.sent = 0,
         m.name \in {"create", "generate"} => m.target = None /\ (m.code = "ok" => m.file = <<>>),
         m.name \notin {"create", "generate"} => m.file = <<>>,
         m.name = "show" => /\ m.code = "runs" /\ m.target = None
                            /\ m.left = Lookups(m.query) /\ m.shown = {},
         m.name # "show" => m.left = <<>>
  PROVE  CLIInv'
<1>1. call[c] = Idle /\ call' = [call EXCEPT ![c] = Idle] /\ db' = db /\ cmd' = [cmd EXCEPT ![c] = m]
  BY Zenon, Typed DEF Start, Good
<1>2. Watched(db, m)
  BY Zenon DEF Watched, LiveEntries, Existing
<1>3. Creating(db, m, Idle)
  <2>1. m.file \in Seq(Requests)
    BY Zenon DEF Commands
  <2> QED
    BY <2>1 DEF Creating
<1>4. Showing(db, m)
  BY Zenon DEF Showing
<1>5. Idle \in CallStates
  BY Zenon DEF CallStates
<1> QED
  BY <1>1, <1>2, <1>3, <1>4, <1>5, OneCommand, Zenon

LEMMA NewCommands ==
  /\ \A name \in {"create", "generate", "show", "delete", "bundle"} : Command(name) \in Commands
  /\ \A name : /\ Command(name).name = name /\ Command(name).code = "runs"
               /\ Command(name).always = LiveEntries(db) /\ Command(name).ever = LiveEntries(db)
               /\ Command(name).sent = 0 /\ Command(name).file = <<>> /\ Command(name).left = <<>>
               /\ Command(name).shown = {} /\ Command(name).target = None
<1>1. <<>> \in Seq(Requests) /\ <<>> \in Seq(Steps) /\ LiveEntries(db) \in SUBSET EntryIds /\ 0 \in Nat
  BY DEF LiveEntries
<1>2. ASSUME NEW name \in {"create", "generate", "show", "delete", "bundle"}
      PROVE  Command(name) \in Commands
  BY Zenon, <1>1 DEF Command, Commands
<1> QED
  BY Zenon, <1>2 DEF Command

LEMMA StartSteps ==
  ASSUME CLIInv, NEW c \in Calls,
         \/ \E f \in Files : RunCreate(c, f)
         \/ \E q \in Queries : RunShow(c, q)
         \/ \E e \in EntryIds : RunDelete(c, e)
         \/ \E d \in Domains : RunShowBundle(c, d)
  PROVE  CLIInv'
<1>1. ASSUME NEW f \in Files, RunCreate(c, f) PROVE CLIInv'
  <2> DEFINE m0 == Command("create")
             parsed == IF ParseFile(f) = <<>> THEN "ok" ELSE "runs"
             m  == [m0 EXCEPT !.file = ParseFile(f), !.code = parsed]
             n  == [m0 EXCEPT !.code = "failed"]
  <2>1. m0 \in Commands /\ m0.name = "create" /\ m0.code = "runs" /\ m0.always = LiveEntries(db)
        /\ m0.ever = LiveEntries(db) /\ m0.sent = 0 /\ m0.left = <<>> /\ m0.target = None
    BY Zenon, NewCommands
  <2>2. ParseFile(f) \in Seq(Requests)
    <3>1. <<>> \in Seq(Requests) /\ (f # Malformed => f \in Seq(Requests))
      BY CLIAssumption
    <3> QED
      BY Zenon, <3>1 DEF ParseFile
  <2>3. Start(c, m) \/ Start(c, n)
    BY Zenon, <1>1 DEF RunCreate
  <2>4. parsed \in {"ok", "runs"} /\ (parsed = "ok" => ParseFile(f) = <<>>)
    OBVIOUS
  <2> HIDE DEF m0, parsed
  <2>5. CASE Start(c, m)
    <3>1. m \in Commands /\ m.name = "create" /\ m.code = parsed /\ m.always = LiveEntries(db)
          /\ m.ever = LiveEntries(db) /\ m.sent = 0 /\ m.left = <<>> /\ m.target = None
          /\ m.file = ParseFile(f)
      BY Zenon, <2>1, <2>2, <2>4 DEF Commands
    <3> HIDE DEF m
    <3> QED
      BY Zenon, <2>4, <2>5, <3>1, Starting
  <2>6. CASE Start(c, n)
    <3>1. n \in Commands /\ n.name = "create" /\ n.code = "failed" /\ n.always = LiveEntries(db)
          /\ n.ever = LiveEntries(db) /\ n.sent = 0 /\ n.left = <<>> /\ n.target = None
      BY Zenon, <2>1 DEF Commands
    <3> HIDE DEF n
    <3> QED
      BY Zenon, <2>6, <3>1, Starting
  <2> QED
    BY Zenon, <2>3, <2>5, <2>6
<1>2. ASSUME NEW q \in Queries, RunShow(c, q) PROVE CLIInv'
  <2> DEFINE m0 == Command("show")
             m  == [m0 EXCEPT !.query = q, !.left = Lookups(q)]
  <2>1. m0 \in Commands /\ m0.name = "show" /\ m0.code = "runs" /\ m0.always = LiveEntries(db)
        /\ m0.ever = LiveEntries(db) /\ m0.sent = 0 /\ m0.file = <<>> /\ m0.target = None
        /\ m0.shown = {}
    BY Zenon, NewCommands
  <2>2. Lookups(q) \in Seq(Steps) /\ Start(c, m)
    BY <1>2, LookupsOf, Zenon DEF RunShow
  <2> HIDE DEF m0
  <2>3. m \in Commands /\ m.name = "show" /\ m.code = "runs" /\ m.always = LiveEntries(db)
        /\ m.ever = LiveEntries(db) /\ m.sent = 0 /\ m.file = <<>> /\ m.target = None
        /\ m.shown = {} /\ m.query = q /\ m.left = Lookups(q)
    BY <2>1, <2>2, Zenon DEF Commands
  <2> HIDE DEF m
  <2> QED
    BY Zenon, <2>2, <2>3, Starting
<1>3. ASSUME NEW e \in EntryIds, RunDelete(c, e) PROVE CLIInv'
  <2> DEFINE m0 == Command("delete")
             m  == [m0 EXCEPT !.target = e]
             m1 == [m0 EXCEPT !.target = e, !.code = "failed"]
  <2>1. m0 \in Commands /\ m0.name = "delete" /\ m0.always = LiveEntries(db)
        /\ m0.ever = LiveEntries(db) /\ m0.sent = 0 /\ m0.file = <<>> /\ m0.left = <<>>
    BY Zenon, NewCommands
  <2>2. Start(c, m) \/ Start(c, m1)
    BY <1>3, Zenon DEF RunDelete
  <2> HIDE DEF m0
  <2>3. m \in Commands /\ m.name = "delete" /\ m.always = LiveEntries(db)
        /\ m.ever = LiveEntries(db) /\ m.sent = 0 /\ m.file = <<>> /\ m.left = <<>>
    BY Zenon, <2>1 DEF Commands
  <2>4. m1 \in Commands /\ m1.name = "delete" /\ m1.always = LiveEntries(db)
        /\ m1.ever = LiveEntries(db) /\ m1.sent = 0 /\ m1.file = <<>> /\ m1.left = <<>>
    BY <2>1, Zenon DEF Commands
  <2> HIDE DEF m, m1
  <2> QED
    BY Zenon, <2>2, <2>3, <2>4, Starting
<1>4. ASSUME NEW d \in Domains, RunShowBundle(c, d) PROVE CLIInv'
  <2> DEFINE m0 == Command("bundle")
             m  == [m0 EXCEPT !.code = IF FetchBundle(db, d).err THEN "failed" ELSE "ok"]
  <2>1. m0 \in Commands /\ m0.name = "bundle" /\ m0.always = LiveEntries(db)
        /\ m0.ever = LiveEntries(db) /\ m0.sent = 0 /\ m0.file = <<>> /\ m0.left = <<>>
    BY Zenon, NewCommands
  <2>2. Start(c, m)
    BY Zenon, <1>4 DEF RunShowBundle
  <2> HIDE DEF m0
  <2>3. m \in Commands /\ m.name = "bundle" /\ m.always = LiveEntries(db)
        /\ m.ever = LiveEntries(db) /\ m.sent = 0 /\ m.file = <<>> /\ m.left = <<>>
    BY <2>1 DEF Commands
  <2> HIDE DEF m
  <2> QED
    BY Zenon, <2>2, <2>3, Starting
<1> QED
  BY Zenon, <1>1, <1>2, <1>3, <1>4

\* The next entry is sent.
LEMMA SendStep ==
  ASSUME CLIInv, NEW c \in Calls, Send(c)
  PROVE  CLIInv'
<1> DEFINE m == cmd[c]
           r == m.file[m.sent + 1]
           k == [pc |-> IF r.spiffe \in ValidIds THEN "check" ELSE "done",
                 request |-> r, free |-> Free(db, r), ok |-> FALSE]
<1>1. /\ m \in Commands /\ m.code = "runs" /\ call[c] = Idle
      /\ Watched(db, m) /\ Creating(db, m, Idle) /\ Showing(db, m)
  BY Zenon, Typed, CommandsAreNotNone DEF Send, CreateEntry, Running, Good
<1>2. m.file \in Seq(Requests) /\ m.sent \in Nat /\ m.sent < Len(m.file)
  BY Zenon, <1>1 DEF Commands, Send
<1>3. r \in Requests
  BY <1>2
<1>4. db' = db /\ cmd' = [cmd EXCEPT ![c] = m] /\ call' = [call EXCEPT ![c] = k]
  BY Zenon, Typed DEF Send, CreateEntry
<1> HIDE DEF r
<1>5. k \in CallStates /\ k # Idle
  <2>1. Free(db, r) \in BOOLEAN
    BY Zenon DEF Free
  <2> QED
    BY Zenon, <1>3, <2>1 DEF CallStates, Idle
<1>6. Refused(db, k)
  BY Zenon DEF Refused
<1>7. Creating(db, m, k)
  BY Zenon, <1>1, <1>2 DEF Creating, r
<1> HIDE DEF k, m
<1> QED
  BY <1>1, <1>4, <1>5, <1>6, <1>7, OneCommand, Zenon

\* The call of a command goes on, before the entry is stored.
LEMMA ServeSteps ==
  ASSUME CLIInv, NEW c \in Calls, CheckUnique(c) \/ StoreFails(c), UNCHANGED cmd
  PROVE  CLIInv'
<1> DEFINE k == call[c]
<1>1. k \in CallStates /\ Good(db, cmd[c], k) /\ k.pc \in {"check", "create"}
  BY Zenon, Typed DEF CheckUnique, StoreFails
<1>2. /\ k # Idle /\ k.request \in Requests /\ k.free \in BOOLEAN /\ k.ok \in BOOLEAN
      /\ k \in [pc: {"check", "create", "done"}, request: Requests, free: BOOLEAN, ok: BOOLEAN]
  BY <1>1 DEF CallStates, Idle
<1>3. /\ cmd[c] \in Commands /\ Watched(db, cmd[c]) /\ Creating(db, cmd[c], k) /\ Showing(db, cmd[c])
      /\ Refused(db, k)
  BY Zenon, <1>1, <1>2, Typed DEF Good
<1>4. PICK pc \in {"create", "done"} : /\ call' = [call EXCEPT ![c].pc = pc]
                                       /\ pc = "create" => k.pc = "check" /\ Unique(db, k.request)
  BY Zenon DEF CheckUnique, StoreFails
<1> DEFINE n == [k EXCEPT !.pc = pc]
<1>5. db' = db /\ cmd' = [cmd EXCEPT ![c] = cmd[c]] /\ call' = [call EXCEPT ![c] = n]
  BY Zenon, <1>4, Typed DEF CheckUnique, StoreFails
<1>6. /\ n \in CallStates /\ n # Idle /\ n.pc = pc /\ n.request = k.request /\ n.free = k.free /\ n.ok = k.ok
  BY Zenon, <1>2 DEF CallStates, Idle
<1> HIDE DEF n, k
<1>7. Refused(db, n)
  BY Zenon, <1>3, <1>4, <1>6, UniqueIsFree DEF Refused
<1>8. Creating(db, cmd[c], n)
  BY Zenon, <1>1, <1>2, <1>3, <1>6 DEF Creating, Refused
<1> QED
  BY <1>3, <1>5, <1>6, <1>7, <1>8, OneCommand, Zenon

\* The answer of a call ends it.
LEMMA CreatedStep ==
  ASSUME CLIInv, NEW c \in Calls, Created(c)
  PROVE  CLIInv'
<1> DEFINE m == cmd[c]
           k == call[c]
<1>1. /\ m \in Commands /\ m.code = "runs" /\ k # Idle /\ k.pc = "done"
      /\ Watched(db, m) /\ Creating(db, m, k) /\ Showing(db, m)
      /\ call' = [call EXCEPT ![c] = Idle] /\ db' = db
  BY Zenon, Typed, CommandsAreNotNone DEF Created, Running, Good
<1>2. /\ m.file \in Seq(Requests) /\ m.sent \in Nat /\ m.sent < Len(m.file)
      /\ m.name \in {"create", "generate"} /\ m.left = <<>> /\ m.target = None
  <2>1. m.file \in Seq(Requests) /\ m.sent \in Nat
    BY Zenon, <1>1 DEF Commands
  <2>2. m.sent < Len(m.file) /\ (m.name \notin {"create", "generate"} => m.file = <<>>)
        /\ (m.name \in {"create", "generate"} => m.target = None)
    BY Zenon, <1>1 DEF Creating
  <2>3. m.name # "show" => m.left = <<>>
    BY Zenon, <1>1 DEF Showing
  <2>4. m.file # <<>>
    BY <2>1, <2>2
  <2> QED
    BY Zenon, <2>1, <2>2, <2>3, <2>4
<1>3. Idle \in CallStates
  BY Zenon DEF CallStates
<1>4. CASE ~k.ok
  <2> DEFINE n == [m EXCEPT !.code = "failed"]
  <2>1. cmd' = [cmd EXCEPT ![c] = n]
    BY Zenon, <1>4 DEF Created, Ends
  <2>2. /\ n \in Commands /\ n.name = m.name /\ n.code = "failed" /\ n.file = m.file /\ n.sent = m.sent
        /\ n.left = m.left /\ n.target = m.target /\ n.always = m.always /\ n.ever = m.ever
    BY <1>1, Zenon DEF Commands
  <2> HIDE DEF n, m, k
  <2>3. Watched(db, n)
    BY Zenon, <1>1, <2>2 DEF Watched
  <2>4. Creating(db, n, Idle)
    BY Zenon, <1>1, <2>2 DEF Creating
  <2>5. Showing(db, n)
    BY Zenon, <1>2, <2>2 DEF Showing
  <2> QED
    BY <1>1, <1>3, <2>1, <2>2, <2>3, <2>4, <2>5, OneCommand, Zenon
<1>5. CASE k.ok
  <2> DEFINE last == IF m.sent + 1 = Len(m.file) THEN "ok" ELSE "runs"
             n == [m EXCEPT !.sent = m.sent + 1, !.code = last]
  <2>1. cmd' = [cmd EXCEPT ![c] = n]
    BY <1>5, Zenon DEF Created
  <2>2. last \in {"ok", "runs"} /\ m.sent + 1 \in Nat /\ m.sent + 1 <= Len(m.file)
        /\ (last = "ok" => m.sent + 1 = Len(m.file))
    BY <1>2
  <2> HIDE DEF last
  <2>3. /\ n \in Commands /\ n.name = m.name /\ n.code = last /\ n.file = m.file /\ n.sent = m.sent + 1
        /\ n.left = m.left /\ n.target = m.target /\ n.always = m.always /\ n.ever = m.ever
    BY <1>1, <2>2, Zenon DEF Commands
  <2> HIDE DEF n, m, k
  <2>4. Watched(db, n)
    BY Zenon, <1>1, <2>3 DEF Watched
  <2>5. \A i \in 1..(m.sent + 1) : \E e \in m.ever : Equals(db, e, m.file[i])
    <3>1. \A i \in 1..(m.sent + 1) : i \in 1..m.sent \/ i = m.sent + 1
      BY <1>2
    <3>2. \A i \in 1..m.sent : \E e \in m.ever : Equals(db, e, m.file[i])
      BY Zenon, <1>1 DEF Creating
    <3>3. \E e \in m.ever : Equals(db, e, m.file[m.sent + 1])
      BY Zenon, <1>1, <1>5 DEF Creating
    <3> QED
      BY Zenon, <3>1, <3>2, <3>3
  <2>6. Creating(db, n, Idle)
    BY Zenon, <1>2, <2>2, <2>3, <2>5 DEF Creating
  <2>7. Showing(db, n)
    BY Zenon, <1>2, <2>3 DEF Showing
  <2> QED
    BY <1>1, <1>3, <2>1, <2>3, <2>4, <2>6, <2>7, OneCommand, Zenon
<1> QED
  BY Zenon, <1>4, <1>5

\* After the first call of entry show, what is found contains all that match and were always there.
LEMMA FoundSoFar ==
  ASSUME NEW m \in Commands, Watched(db, m), Showing(db, m), m.name = "show", m.code = "runs",
         NEW l, l = Head(m.left), ~Answer(l).err, NEW found, found = m.shown \cup Answer(l).res
  PROVE  /\ found \subseteq m.ever
         /\ m.query.entry # None => Len(m.left) = 1 /\ found = {m.query.entry}
         /\ m.query = NoQuery /\ m.left # <<>> => Len(m.left) = 1 /\ found = LiveEntries(db)
         /\ m.query.entry = None /\ m.query # NoQuery
              /\ (m.query.parent # None \/ m.query.spiffe # None) =>
            MatchesOf(db, m.query) \cap m.always \subseteq found
<1> DEFINE q == m.query
<1>1. /\ m.always \subseteq LiveEntries(db) /\ LiveEntries(db) \subseteq m.ever
      /\ Answer(l).res \subseteq LiveEntries(db)
  BY Zenon, AnswersAreLive DEF Watched
<1>2. q \in Queries \cup {NoQuery}
  BY Zenon DEF Commands
<1>3. CASE Collecting(db, m)
  <2>1. found \subseteq m.ever /\ q.entry = None /\ q # NoQuery
    BY Zenon, <1>1, <1>3 DEF Collecting
  <2>2. (q.parent # None \/ q.spiffe # None) => MatchesOf(db, q) \cap m.always \subseteq found
    BY Zenon, <1>3 DEF Collecting
  <2> QED
    BY Zenon, <2>1, <2>2
<1>4. CASE m.left = Lookups(q) /\ m.shown = {}
  <2>1. found = Answer(l).res /\ found \subseteq m.ever
    BY Zenon, <1>1, <1>4
  <2>2. ASSUME q.entry # None PROVE Len(m.left) = 1 /\ found = {q.entry}
    <3>1. m.left = <<[by |-> "entry", key |-> q.entry]>>
      BY Zenon, <1>2, <1>4, <2>2, LookupsOf
    <3>2. l = [by |-> "entry", key |-> q.entry] /\ Len(m.left) = 1
      BY <3>1
    <3> QED
      BY Zenon, <2>1, <3>2, AnswersAreLive
  <2>3. ASSUME q = NoQuery, m.left # <<>> PROVE Len(m.left) = 1 /\ found = LiveEntries(db)
    <3>1. m.left = <<[by |-> "all", key |-> {}]>>
      BY Zenon, <1>2, <1>4, <2>3, LookupsOf
    <3>2. l = [by |-> "all", key |-> {}] /\ Len(m.left) = 1
      BY <3>1
    <3> QED
      BY <2>1, <3>2, AnswersAreLive
  <2>4. ASSUME q.entry = None, q # NoQuery, q.parent # None
        PROVE  MatchesOf(db, q) \cap m.always \subseteq found
    <3>1. l = [by |-> "parent", key |-> q.parent]
      BY Zenon, <1>2, <1>4, <2>4, LookupsOf
    <3>2. found = {e \in LiveEntries(db) : db.entry[e].parent = q.parent}
      BY <2>1, <3>1, AnswersAreLive
    <3> QED
      BY Zenon, <1>1, <2>4, <3>2 DEF MatchesOf
  <2>5. ASSUME q.entry = None, q # NoQuery, q.parent = None, q.spiffe # None
        PROVE  MatchesOf(db, q) \cap m.always \subseteq found
    <3>1. l = [by |-> "spiffe", key |-> q.spiffe]
      BY Zenon, <1>2, <1>4, <2>5, LookupsOf
    <3>2. found = {e \in LiveEntries(db) : db.entry[e].spiffe = q.spiffe}
      BY <2>1, <3>1, AnswersAreLive
    <3> QED
      BY Zenon, <1>1, <2>5, <3>2 DEF MatchesOf
  <2> QED
    BY Zenon, <2>1, <2>2, <2>3, <2>4, <2>5
<1> QED
  BY Zenon, <1>3, <1>4 DEF Showing

\* filterEntries keeps the entries that match all flags.
LEMMA FilterIsExact ==
  ASSUME NEW q \in Queries \cup {NoQuery}, q.entry = None, NEW found \in SUBSET EntryIds
  PROVE  Filtered(found, q) = found \cap MatchesOf(db, q)
<1>1. \A e : HasSelectors(e, q.selectors) <=> Elements(q.selectors) \subseteq SelectorsOf(db, e)
  BY Zenon DEF HasSelectors, Elements
<1> QED
  BY Zenon, <1>1 DEF Filtered, MatchesOf

LEMMA LookupStep ==
  ASSUME CLIInv, NEW c \in Calls, Lookup(c)
  PROVE  CLIInv'
<1> DEFINE m == cmd[c]
           q == m.query
           l == Head(m.left)
           found == m.shown \cup Answer(l).res
           last  == Len(m.left) = 1
           whole == q = NoQuery \/ q.entry # None
           shown == IF last /\ ~whole THEN Filtered(found, q) ELSE found
           code  == IF last THEN "ok" ELSE "runs"
<1>1. /\ m \in Commands /\ m.code = "runs" /\ m.left # <<>> /\ Good(db, m, call[c])
      /\ Watched(db, m) /\ Creating(db, m, call[c]) /\ Showing(db, m)
  BY Zenon, Typed, CommandsAreNotNone DEF Lookup, Running, Good
<1>2. /\ m.file \in Seq(Requests) /\ m.sent \in Nat /\ m.left \in Seq(Steps)
      /\ m.shown \in SUBSET EntryIds /\ q \in Queries \cup {NoQuery} /\ m.ever \in SUBSET EntryIds
  BY Zenon, <1>1 DEF Commands
<1>3. m.name = "show" /\ m.file = <<>> /\ m.target = None
  BY Zenon, <1>1 DEF Showing, Creating
<1>4. call[c] = Idle
  BY <1>1, <1>2, <1>3 DEF Creating
<1>5. db' = db /\ call' = [call EXCEPT ![c] = Idle]
  BY Zenon, <1>4, Typed DEF Lookup
<1>6. Idle \in CallStates
  BY Zenon DEF CallStates
<1>7. CASE Answer(l).err
  <2> DEFINE n == [m EXCEPT !.code = "failed"]
  <2>1. cmd' = [cmd EXCEPT ![c] = n]
    BY Zenon, <1>7 DEF Lookup, Ends
  <2>2. /\ n \in Commands /\ n.name = m.name /\ n.code = "failed" /\ n.file = m.file /\ n.sent = m.sent
        /\ n.target = m.target /\ n.always = m.always /\ n.ever = m.ever
    BY <1>1, Zenon DEF Commands
  <2> HIDE DEF n, m
  <2>3. Watched(db, n) /\ Showing(db, n)
    BY Zenon, <1>1, <1>3, <2>2 DEF Watched, Showing
  <2>4. Creating(db, n, Idle)
    BY Zenon, <1>1, <1>3, <2>2 DEF Creating
  <2> QED
    BY <1>5, <1>6, <2>1, <2>2, <2>3, <2>4, OneCommand, Zenon
<1>8. CASE ~Answer(l).err
  <2> DEFINE n == [m EXCEPT !.left = Tail(m.left), !.code = code, !.shown = shown]
  <2>1. cmd' = [cmd EXCEPT ![c] = n]
    BY <1>8, Zenon DEF Lookup
  <2>2. /\ found \subseteq m.ever
        /\ q.entry # None => last /\ found = {q.entry}
        /\ q = NoQuery => last /\ found = LiveEntries(db)
        /\ ~whole /\ (q.parent # None \/ q.spiffe # None) =>
             MatchesOf(db, q) \cap m.always \subseteq found
    <3>1. l = Head(m.left) /\ found = m.shown \cup Answer(l).res
      BY Zenon
    <3> HIDE DEF m, l, found
    <3> QED
      BY <1>1, <1>3, <1>8, <3>1, FoundSoFar
  <2>3. found \in SUBSET EntryIds
    BY Zenon, <1>2, <2>2
  <2>4. shown = IF last /\ ~whole THEN found \cap MatchesOf(db, q) ELSE found
    BY <1>2, <2>3, FilterIsExact, Zenon
  <2>5. Tail(m.left) \in Seq(Steps) /\ code \in {"ok", "runs"} /\ shown \in SUBSET EntryIds
        /\ (code = "ok" <=> last) /\ (code = "runs" <=> ~last)
    <3>1. code \in {"ok", "runs"} /\ (code = "ok" <=> last) /\ (code = "runs" <=> ~last)
      BY Zenon
    <3> HIDE DEF shown, code, last, found, m
    <3>2. Tail(m.left) \in Seq(Steps)
      BY <1>1, <1>2
    <3>3. shown \in SUBSET EntryIds
      BY Zenon, <2>3, <2>4
    <3> QED
      BY Zenon, <3>1, <3>2, <3>3
  <2> HIDE DEF shown, code, last, found
  <2>6. /\ n \in Commands /\ n.name = m.name /\ n.code = code /\ n.file = m.file /\ n.sent = m.sent
        /\ n.target = m.target /\ n.always = m.always /\ n.ever = m.ever /\ n.query = q
        /\ n.shown = shown
    BY <1>1, <2>5, ZenonT(60) DEF Commands
  <2> HIDE DEF n
  <2>7. Watched(db, n)
    BY Zenon, <1>1, <2>6 DEF Watched
  <2>8. Creating(db, n, Idle)
    BY Zenon, <1>1, <1>3, <2>6 DEF Creating
  <2>9. ~last => Collecting(db, n)
    BY Zenon, <2>2, <2>4, <2>6 DEF Collecting
  <2>10. ASSUME last PROVE Shown(db, n)
    <3>1. CASE q.entry # None
      BY Zenon, <2>2, <2>4, <2>6, <3>1 DEF Shown, MatchesOf
    <3>2. CASE q = NoQuery
      <4>1. q.entry = None /\ q.spiffe = None /\ q.parent = None /\ Elements(q.selectors) = {}
        BY <3>2 DEF NoQuery, Elements
      <4>2. MatchesOf(db, q) = EntryIds
        BY Zenon, <4>1 DEF MatchesOf
      <4>3. m.always \subseteq LiveEntries(db)
        BY Zenon, <1>1 DEF Watched
      <4> QED
        BY Zenon, <2>2, <2>3, <2>4, <2>6, <3>2, <4>2, <4>3 DEF Shown
    <3>3. CASE ~whole
      <4>1. q.selectors = <<>> => q.parent # None \/ q.spiffe # None
        BY Zenon, <1>2, <3>3, LookupsOf
      <4>2. shown = found \cap MatchesOf(db, q)
        BY Zenon, <2>4, <2>10, <3>3
      <4> QED
        BY Zenon, <2>2, <2>6, <3>3, <4>1, <4>2 DEF Shown
    <3> QED
      BY Zenon, <3>1, <3>2, <3>3
  <2>11. Showing(db, n)
    BY Zenon, <1>3, <2>5, <2>6, <2>9, <2>10 DEF Showing
  <2> QED
    BY <1>5, <1>6, <2>1, <2>6, <2>7, <2>8, <2>11, OneCommand, Zenon
<1> QED
  BY Zenon, <1>7, <1>8


(***************************************************************************)
(* The steps that change the tables.                                       *)
(***************************************************************************)
\* A step that changes the tables, as the other commands see it.
LEMMA TablesChange ==
  ASSUME CLIInv, NEW c \in Calls, db' \in DB, Keeps(db, db'),
         call' \in [Calls -> CallStates], cmd' \in [Calls -> {NoCommand} \cup Commands],
         \A x \in Calls \ {c} :
           /\ cmd[x] = NoCommand => cmd'[x] = NoCommand
           /\ cmd[x] # NoCommand => cmd'[x] # NoCommand /\ SeenAs(cmd[x], cmd'[x], db')
           /\ call'[x] = Idle <=> call[x] = Idle
           /\ call[x] # Idle => /\ call'[x].pc = call[x].pc /\ call'[x].request = call[x].request
                                /\ call'[x].ok = call[x].ok
           /\ call'[x] # Idle => Refused(db', call'[x]),
         Good(db', cmd'[c], call'[c])
  PROVE  CLIInv'
<1>1. ASSUME NEW x \in Calls \ {c} PROVE Good(db', cmd'[x], call'[x])
  <2>1. Good(db, cmd[x], call[x])
    BY Zenon DEF CLIInv
  <2>2. cmd[x] # NoCommand => /\ Watched(db', cmd'[x]) /\ Creating(db', cmd'[x], call'[x])
                              /\ Showing(db', cmd'[x])
    <3> SUFFICES ASSUME cmd[x] # NoCommand
                 PROVE  /\ Watched(db', cmd'[x]) /\ Creating(db', cmd'[x], call'[x])
                        /\ Showing(db', cmd'[x])
      BY Zenon
    <3>1. Watched(db, cmd[x]) /\ Creating(db, cmd[x], call[x]) /\ Showing(db, cmd[x])
      BY Zenon, <2>1 DEF Good
    <3>2. SeenAs(cmd[x], cmd'[x], db')
      BY Zenon
    <3>3. /\ call'[x] = Idle <=> call[x] = Idle
          /\ call[x] # Idle => /\ call'[x].pc = call[x].pc /\ call'[x].request = call[x].request
                               /\ call'[x].ok = call[x].ok
      BY Zenon
    <3> QED
      BY Zenon, <3>1, <3>2, <3>3, SeenIsGood
  <2> QED
    BY Zenon, <2>1, <2>2 DEF Good
<1>2. \A x \in Calls : Good(db', cmd'[x], call'[x])
  BY Zenon, <1>1
<1> QED
  BY Zenon, <1>2 DEF CLIInv

LEMMA SeenCommands ==
  ASSUME NEW f \in [Calls -> {NoCommand} \cup Commands], NEW d
  PROVE  /\ Seen(f, d) \in [Calls -> {NoCommand} \cup Commands]
         /\ \A x \in Calls :
              /\ f[x] = NoCommand => Seen(f, d)[x] = NoCommand
              /\ f[x] # NoCommand => Seen(f, d)[x] # NoCommand /\ SeenAs(f[x], Seen(f, d)[x], d)
              /\ f[x].code # "runs" => Seen(f, d)[x] = f[x]
<1> SUFFICES ASSUME NEW x \in Calls
             PROVE  /\ Seen(f, d)[x] \in {NoCommand} \cup Commands
                    /\ f[x] = NoCommand => Seen(f, d)[x] = NoCommand
                    /\ f[x] # NoCommand => Seen(f, d)[x] # NoCommand /\ SeenAs(f[x], Seen(f, d)[x], d)
                    /\ f[x].code # "runs" => Seen(f, d)[x] = f[x]
  BY Zenon DEF Seen
<1> DEFINE m == f[x]
           n == [m EXCEPT !.always = m.always \cap LiveEntries(d), !.ever = m.ever \cup LiveEntries(d)]
<1>1. Seen(f, d)[x] = IF m.code = "runs" THEN n ELSE m
  BY Zenon DEF Seen
<1>2. CASE m.code # "runs"
  BY Zenon, <1>1, <1>2 DEF SeenAs
<1>3. CASE m.code = "runs"
  <2>1. m \in Commands /\ m # NoCommand
    BY Zenon, <1>3, CommandsAreNotNone
  <2>2. m.always \cap LiveEntries(d) \in SUBSET EntryIds /\ m.ever \cup LiveEntries(d) \in SUBSET EntryIds
    BY Zenon, <2>1 DEF Commands, LiveEntries
  <2>3. n \in Commands
    BY <2>1, <2>2, Zenon DEF Commands
  <2>4. SeenAs(m, n, d)
    BY Zenon, <1>3, <2>1 DEF Commands, SeenAs
  <2>5. Seen(f, d)[x] = n /\ n # NoCommand
    BY Zenon, <1>1, <1>3, <2>3, CommandsAreNotNone
  <2> HIDE DEF n
  <2> QED
    BY Zenon, <1>3, <2>1, <2>3, <2>4, <2>5
<1> QED
  BY Zenon, <1>2, <1>3

LEMMA StoreStep ==
  ASSUME CLIInv, NEW c \in Calls, StoreNewEntry(c), cmd' = Seen(cmd, db')
  PROVE  CLIInv'
<1> DEFINE k == call[c]
           r == k.request
<1>1. /\ k \in CallStates /\ Good(db, cmd[c], k) /\ k.pc = "create" /\ db \in DB
      /\ call \in [Calls -> CallStates] /\ cmd \in [Calls -> {NoCommand} \cup Commands]
  BY Zenon, Typed DEF StoreNewEntry, CLIInv
<1>2. /\ k # Idle /\ r \in Requests
      /\ k \in [pc: {"check", "create", "done"}, request: Requests, free: BOOLEAN, ok: BOOLEAN]
  BY <1>1 DEF CallStates, Idle
<1>3. /\ cmd[c] \in Commands /\ Watched(db, cmd[c]) /\ Creating(db, cmd[c], k) /\ Showing(db, cmd[c])
      /\ cmd[c] # NoCommand
  BY Zenon, <1>1, <1>2, Typed DEF Good
<1>4. PICK e \in EntryIds : /\ db.entry[e].row = "none"
                            /\ db' = CreateRegistrationEntry(db, e, r).db
                            /\ call' = [call EXCEPT ![c].pc = "done",
                                          ![c].ok = ~CreateRegistrationEntry(db, e, r).err]
  BY Zenon DEF StoreNewEntry
<1> DEFINE ok == ~CreateRegistrationEntry(db, e, r).err
           n == [k EXCEPT !.pc = "done", !.ok = ok]
<1>5. /\ db' \in DB /\ Keeps(db, db') /\ LiveEntries(db) \subseteq LiveEntries(db')
      /\ ok => e \in LiveEntries(db') /\ Equals(db', e, r)
  BY <1>1, <1>2, <1>4, CreatedEntry
<1>6. ok \in BOOLEAN
  BY Zenon DEF CreateRegistrationEntry, Return, Fail
<1>7. call' = [call EXCEPT ![c] = n]
  BY <1>4, Zenon
<1> HIDE DEF ok
<1>8. n \in CallStates /\ n # Idle /\ n.pc = "done" /\ n.request = r /\ n.ok = ok
  BY <1>2, <1>6, Zenon DEF CallStates, Idle
<1> HIDE DEF n
<1>9. call' \in [Calls -> CallStates] /\ call'[c] = n /\ \A x \in Calls \ {c} : call'[x] = call[x]
  BY Zenon, <1>1, <1>7, <1>8
<1>10. /\ cmd' \in [Calls -> {NoCommand} \cup Commands]
       /\ \A x \in Calls : /\ cmd[x] = NoCommand => cmd'[x] = NoCommand
                           /\ cmd[x] # NoCommand => cmd'[x] # NoCommand /\ SeenAs(cmd[x], cmd'[x], db')
  BY <1>1, SeenCommands
<1>11. \A x \in Calls \ {c} : call'[x] # Idle => Refused(db', call'[x])
  <2>1. \A x \in Calls : call[x] # Idle => Refused(db, call[x])
    BY Zenon DEF CLIInv, Good
  <2> QED
    BY <1>5, <1>9, <2>1, RefusedStays
<1>12. Good(db', cmd'[c], n)
  <2>1. SeenAs(cmd[c], cmd'[c], db') /\ cmd'[c] # NoCommand
    BY Zenon, <1>3, <1>10
  <2> HIDE DEF k
  <2>2. Watched(db', cmd'[c]) /\ Creating(db', cmd'[c], k) /\ Showing(db', cmd'[c])
    BY <1>3, <1>5, <2>1, SeenIsGood
  <2>3. ok => \E f \in cmd'[c].ever : Equals(db', f, r)
    BY Zenon, <1>2, <1>3, <1>5, <2>1 DEF SeenAs, Creating
  <2>4. Creating(db', cmd'[c], n)
    BY Zenon, <1>2, <1>8, <2>2, <2>3 DEF Creating, k
  <2>5. Refused(db', n)
    BY Zenon, <1>8 DEF Refused
  <2> QED
    BY <1>8, <2>1, <2>2, <2>4, <2>5 DEF Good
<1> HIDE DEF k
<1> QED
  BY Zenon, <1>5, <1>9, <1>10, <1>11, <1>12, TablesChange

LEMMA DeleteStep ==
  ASSUME CLIInv, NEW c \in Calls, MarkDeleted(c)
  PROVE  CLIInv'
<1> DEFINE m == cmd[c]
           f == Ends(c, TRUE)
           n == [m EXCEPT !.code = "ok"]
<1>1. /\ m \in Commands /\ m # NoCommand /\ m.target # None /\ db \in DB
      /\ Watched(db, m) /\ Creating(db, m, call[c]) /\ Showing(db, m)
      /\ call \in [Calls -> CallStates] /\ cmd \in [Calls -> {NoCommand} \cup Commands]
  BY Zenon, Typed, CommandsAreNotNone DEF MarkDeleted, Running, Good, CLIInv
<1>2. m.target \in EntryIds /\ m.sent \in Nat /\ m.name \in {"delete", "bundle"} /\ m.file = <<>> /\ m.left = <<>>
  <2>1. /\ m.target \in EntryIds /\ m.sent \in Nat
        /\ m.name \in {"create", "generate", "show", "delete", "bundle"}
    BY Zenon, <1>1 DEF Commands
  <2>2. m.name \notin {"create", "generate"} /\ m.file = <<>>
    BY Zenon, <1>1 DEF Creating
  <2>3. m.name # "show" /\ m.left = <<>>
    BY Zenon, <1>1 DEF Showing
  <2> QED
    BY Zenon, <2>1, <2>2, <2>3
<1>3. call[c] = Idle
  BY <1>1, <1>2 DEF Creating
<1>4. db' \in DB /\ Keeps(db, db')
  BY Zenon, <1>1, <1>2, MarkedEntry DEF MarkDeleted, DeleteEntry
<1>5. /\ n \in Commands /\ n.name = m.name /\ n.code = "ok" /\ n.file = m.file /\ n.sent = m.sent
      /\ n.left = m.left /\ n.target = m.target /\ n.always = m.always /\ n.ever = m.ever
  BY <1>1, Zenon DEF Commands
<1>6. f = [cmd EXCEPT ![c] = n] /\ cmd' = Seen(f, db')
  BY Zenon DEF MarkDeleted, Ends
<1> HIDE DEF n, f
<1>7. f \in [Calls -> {NoCommand} \cup Commands] /\ f[c] = n /\ \A x \in Calls \ {c} : f[x] = cmd[x]
  BY Zenon, <1>1, <1>5, <1>6
<1>8. /\ cmd' \in [Calls -> {NoCommand} \cup Commands] /\ cmd'[c] = n
      /\ \A x \in Calls \ {c} :
           /\ cmd[x] = NoCommand => cmd'[x] = NoCommand
           /\ cmd[x] # NoCommand => cmd'[x] # NoCommand /\ SeenAs(cmd[x], cmd'[x], db')
  <2>1. /\ cmd' \in [Calls -> {NoCommand} \cup Commands]
        /\ \A x \in Calls :
             /\ f[x] = NoCommand => cmd'[x] = NoCommand
             /\ f[x] # NoCommand => cmd'[x] # NoCommand /\ SeenAs(f[x], cmd'[x], db')
             /\ f[x].code # "runs" => cmd'[x] = f[x]
    <3>1. /\ Seen(f, db') \in [Calls -> {NoCommand} \cup Commands]
          /\ \A x \in Calls :
               /\ f[x] = NoCommand => Seen(f, db')[x] = NoCommand
               /\ f[x] # NoCommand => /\ Seen(f, db')[x] # NoCommand
                                      /\ SeenAs(f[x], Seen(f, db')[x], db')
               /\ f[x].code # "runs" => Seen(f, db')[x] = f[x]
      BY <1>7, SeenCommands
    <3> QED
      BY Zenon, <1>6, <3>1
  <2>2. f[c].code # "runs"
    BY Zenon, <1>5, <1>7
  <2> QED
    BY <1>7, <2>1, <2>2, Zenon
<1>9. ASSUME NEW x \in Calls
      PROVE  /\ call'[x] \in CallStates
             /\ call'[x] = Idle <=> call[x] = Idle
             /\ call[x] # Idle => /\ call'[x].pc = call[x].pc /\ call'[x].request = call[x].request
                                  /\ call'[x].ok = call[x].ok
             /\ call'[x] # Idle => Refused(db', call'[x])
  <2> DEFINE k == call[x]
             free == k.free \/ Free(db', k.request)
             k1 == [k EXCEPT !.free = free]
  <2>1. call'[x] = IF k = Idle THEN Idle ELSE k1
    BY Zenon DEF MarkDeleted, DeleteEntry
  <2>2. CASE k = Idle
    BY Zenon, <2>1, <2>2 DEF CallStates
  <2>3. CASE k # Idle
    <3>1. /\ k \in [pc: {"check", "create", "done"}, request: Requests, free: BOOLEAN, ok: BOOLEAN]
          /\ Refused(db, k)
      BY Zenon, <1>1, <2>3 DEF CallStates, CLIInv, Good
    <3>2. free \in BOOLEAN
      BY Zenon
    <3>3. (k.free => free) /\ (free \/ ~Free(db', k.request))
      BY Zenon
    <3> HIDE DEF free
    <3>4. /\ k1 \in CallStates /\ k1 # Idle /\ k1.pc = k.pc /\ k1.request = k.request /\ k1.ok = k.ok
          /\ k1.free = free
      BY Zenon, <3>1, <3>2 DEF CallStates, Idle
    <3> HIDE DEF k, k1
    <3>5. Refused(db', k1)
      BY Zenon, <3>1, <3>3, <3>4 DEF Refused
    <3>6. call'[x] = k1
      BY Zenon, <2>1, <2>3
    <3> QED
      BY <2>3, <3>4, <3>5, <3>6 DEF k
  <2> QED
    BY Zenon, <2>2, <2>3
<1>10. call' \in [Calls -> CallStates]
  BY Zenon, <1>9 DEF MarkDeleted, DeleteEntry
<1>11. Good(db', n, call'[c])
  <2>1. call'[c] = Idle
    BY Zenon, <1>3, <1>9
  <2>2. Watched(db', n)
    BY Zenon, <1>1, <1>4, <1>5 DEF Watched, Keeps
  <2>3. Creating(db', n, Idle)
    <3>1. m.sent <= Len(<<>>)
      BY Zenon, <1>1, <1>2 DEF Creating
    <3>2. 1..n.sent = {}
      BY <1>2, <1>5, <3>1
    <3> QED
      BY Zenon, <1>2, <1>5, <3>1, <3>2 DEF Creating
  <2>4. Showing(db', n)
    BY Zenon, <1>2, <1>5 DEF Showing
  <2>5. n # NoCommand
    BY Zenon, <1>5, CommandsAreNotNone
  <2> QED
    BY Zenon, <2>1, <2>2, <2>3, <2>4, <2>5 DEF Good
<1> QED
  BY <1>4, <1>8, <1>9, <1>10, <1>11, TablesChange, ZenonT(60)

\* RegisterToken does not touch the entries.
LEMMA GenerateStep ==
  ASSUME CLIInv, NEW c \in Calls, NEW t \in Tokens, NEW ttl \in Ttls, RunGenerate(c, t, ttl)
  PROVE  CLIInv'
<1> DEFINE result == CreateJoinToken(t, ttl)
           m0 == Command("generate")
<1>1. /\ db \in DB /\ call \in [Calls -> CallStates] /\ cmd \in [Calls -> {NoCommand} \cup Commands]
      /\ cmd[c] = NoCommand /\ call' = call /\ db' = result.db /\ call[c] = Idle
  BY Zenon, Typed DEF RunGenerate, CLIInv, Good
<1>2. db' \in DB /\ SameEntries(db, db')
  <2>1. ttl \in Nat
    BY Zenon, CLIAssumption
  <2>2. db' = db \/ db' = RegisterToken(db, t, ttl).db
    BY Zenon, <1>1 DEF CreateJoinToken, Fail
  <2> QED
    BY Zenon, <1>1, <2>1, <2>2, TokenCalls, Unchanged
<1>3. Keeps(db, db') /\ LiveEntries(db') = LiveEntries(db) /\ Existing(db') = Existing(db)
  BY Zenon, <1>2, SameTables
<1>4. PICK code \in {"runs", "ok", "failed"}, token \in Tokens \cup {None}, file \in Seq(Requests) :
        /\ cmd' = [cmd EXCEPT ![c] = [m0 EXCEPT !.code = code, !.token = token, !.file = file]]
        /\ code = "ok" => file = <<>>
  <2>1. PICK i \in Ids \cup {None} :
             cmd' = [cmd EXCEPT ![c] =
               [m0 EXCEPT
                  !.code  = IF result.err THEN "failed" ELSE IF i = None THEN "ok" ELSE "runs",
                  !.token = IF result.err THEN None ELSE t,
                  !.file  = IF result.err \/ i = None THEN <<>>
                            ELSE <<[spiffe |-> i, parent |-> AgentId[t],
                                    selectors |-> <<AgentSelector[t]>>]>>]]
    BY Zenon DEF RunGenerate
  <2> DEFINE r == [spiffe |-> i, parent |-> AgentId[t], selectors |-> <<AgentSelector[t]>>]
             code == IF result.err THEN "failed" ELSE IF i = None THEN "ok" ELSE "runs"
             token == IF result.err THEN None ELSE t
             file == IF result.err \/ i = None THEN <<>> ELSE <<r>>
  <2>2. i # None => r \in Requests
    <3>1. AgentId[t] \in Ids /\ <<AgentSelector[t]>> \in Seq(Selectors)
      BY CLIAssumption
    <3> QED
      BY Zenon, <2>1, <3>1 DEF Requests
  <2>3. code \in {"runs", "ok", "failed"} /\ token \in Tokens \cup {None} /\ (code = "ok" => file = <<>>)
    BY Zenon
  <2> HIDE DEF r
  <2>4. file \in Seq(Requests)
    BY <2>2
  <2>5. cmd' = [cmd EXCEPT ![c] = [m0 EXCEPT !.code = code, !.token = token, !.file = file]]
    BY Zenon, <2>1 DEF r
  <2> HIDE DEF code, token, file, m0
  <2> QED
    BY <2>3, <2>4, <2>5, Zenon
<1> DEFINE n == [m0 EXCEPT !.code = code, !.token = token, !.file = file]
<1>5. m0 \in Commands /\ m0.name = "generate" /\ m0.always = LiveEntries(db) /\ m0.left = <<>>
      /\ m0.ever = LiveEntries(db) /\ m0.sent = 0 /\ m0.target = None
  BY Zenon, NewCommands
<1> HIDE DEF m0
<1>6. n \in Commands /\ n.name = "generate" /\ n.always = LiveEntries(db) /\ n.left = <<>>
      /\ n.ever = LiveEntries(db) /\ n.sent = 0 /\ n.target = None /\ n.code = code /\ n.file = file
  BY <1>5, ZenonT(60) DEF Commands
<1> HIDE DEF n
<1>7. Good(db', n, Idle)
  <2>1. Watched(db', n)
    BY Zenon, <1>3, <1>6 DEF Watched, LiveEntries, Existing
  <2>2. Creating(db', n, Idle)
    BY <1>4, <1>6 DEF Creating
  <2>3. Showing(db', n)
    BY Zenon, <1>6 DEF Showing
  <2> QED
    BY <1>6, <2>1, <2>2, <2>3, CommandsAreNotNone DEF Good
<1>8. /\ cmd' \in [Calls -> {NoCommand} \cup Commands] /\ cmd'[c] = n
      /\ \A x \in Calls \ {c} : cmd'[x] = cmd[x]
  BY <1>1, <1>4, <1>6 DEF n
<1>9. \A x \in Calls \ {c} : cmd[x] # NoCommand => SeenAs(cmd[x], cmd'[x], db')
  <2>1. \A x \in Calls : cmd[x] # NoCommand => Watched(db, cmd[x])
    BY Zenon DEF CLIInv, Good
  <2> QED
    BY Zenon, <1>3, <1>8, <2>1 DEF SeenAs, Watched
<1>10. \A x \in Calls : call'[x] # Idle => Refused(db', call'[x])
  <2>1. \A x \in Calls : call[x] # Idle => Refused(db, call[x])
    BY Zenon DEF CLIInv, Good
  <2> QED
    BY <1>1, <1>3, <2>1, RefusedStays
<1> QED
  BY <1>1, <1>2, <1>3, <1>7, <1>8, <1>9, <1>10, TablesChange

(***************************************************************************)
(* The theorems.                                                           *)
(***************************************************************************)
LEMMA CLIInit == Init => CLIInv
<1> SUFFICES ASSUME Init PROVE CLIInv
  BY Zenon
<1> DEFINE B == [d \in Domains |-> AppendBundle(EmptyDB, d, Certs).db.bundle[d]]
<1>1. EmptyDB \in DB
  BY Zenon, EmptyTables
<1>2. B \in BundleRows
  <2> SUFFICES ASSUME NEW d \in Domains
               PROVE  AppendBundle(EmptyDB, d, Certs).db.bundle[d] \in [row: Row, certs: SUBSET Certs]
    BY Zenon DEF BundleRows
  <2>1. AppendBundle(EmptyDB, d, Certs).db \in DB
    BY Zenon, <1>1, BundleCalls
  <2>2. AppendBundle(EmptyDB, d, Certs).db.bundle \in BundleRows
    BY Zenon, <2>1, Tables
  <2> QED
    BY Zenon, <2>2 DEF BundleRows
<1>3. db = [EmptyDB EXCEPT !.bundle = B]
  BY Zenon DEF Init
<1> HIDE DEF B
<1>4. db \in DB
  BY <1>1, <1>2, <1>3, Zenon DEF DB, BundleRows
<1>5. /\ call \in [Calls -> CallStates] /\ cmd \in [Calls -> {NoCommand} \cup Commands]
      /\ \A c \in Calls : Good(db, cmd[c], call[c])
  BY Zenon DEF Init, CallStates, Good
<1> QED
  BY Zenon, <1>4, <1>5 DEF CLIInv

LEMMA CLIStep == CLIInv /\ [Next]_vars => CLIInv'
<1> SUFFICES ASSUME CLIInv, [Next]_vars PROVE CLIInv'
  BY Zenon
<1>1. CASE UNCHANGED vars
  BY Zenon, <1>1 DEF vars, CLIInv
<1>2. CASE Next
  <2>1. PICK c \in Calls :
          \/ \E f \in Files : RunCreate(c, f)
          \/ \E t \in Tokens, ttl \in Ttls : RunGenerate(c, t, ttl)
          \/ \E q \in Queries : RunShow(c, q)
          \/ \E e \in EntryIds : RunDelete(c, e)
          \/ \E d \in Domains : RunShowBundle(c, d)
          \/ Send(c) \/ Serve(c) \/ Created(c) \/ Lookup(c) \/ MarkDeleted(c)
    BY Zenon, <1>2 DEF Next
  <2>2. CASE \/ \E f \in Files : RunCreate(c, f)
             \/ \E q \in Queries : RunShow(c, q)
             \/ \E e \in EntryIds : RunDelete(c, e)
             \/ \E d \in Domains : RunShowBundle(c, d)
    BY <2>2, StartSteps, Zenon
  <2>3. CASE \E t \in Tokens, ttl \in Ttls : RunGenerate(c, t, ttl)
    BY <2>3, GenerateStep, Zenon
  <2>4. CASE Send(c)
    BY <2>4, SendStep, Zenon
  <2>5. CASE Serve(c)
    BY Zenon, <2>5, ServeSteps, StoreStep DEF Serve
  <2>6. CASE Created(c)
    BY <2>6, CreatedStep, Zenon
  <2>7. CASE Lookup(c)
    BY <2>7, LookupStep, Zenon
  <2>8. CASE MarkDeleted(c)
    BY <2>8, DeleteStep, Zenon
  <2> QED
    BY <2>1, <2>2, <2>3, <2>4, <2>5, <2>6, <2>7, <2>8, Zenon
<1> QED
  BY Zenon, <1>1, <1>2

\* The inductive invariant of the commands and their calls.
THEOREM CLIInvariance == Spec => []CLIInv
  BY CLIInit, CLIStep, PTL DEF Spec

\* CreateEntry, which looks for an equal entry in one data store call and creates the entry in
\* another, never creates one that existed all the time since it was called.
THEOREM ExistingEntriesAreRefused == Spec => []ExistingEntryIsRefused
<1>1. CLIInv => ExistingEntryIsRefused
  <2> SUFFICES ASSUME CLIInv, NEW c \in Calls, call[c].pc = "create" PROVE call[c].free
    BY Zenon DEF ExistingEntryIsRefused
  <2>1. call[c] # Idle
    BY DEF Idle
  <2> QED
    BY Zenon, <2>1 DEF CLIInv, Good, Refused
<1> QED
  BY <1>1, CLIInvariance, PTL

\* However many entries entry create has parsed, and whatever other commands do meanwhile: what
\* was sent with success was there, in the order of the file, and code 0 means that all that was
\* parsed was (of a malformed data file, nothing).
THEOREM EntriesAreCreatedInOrder == Spec => []CreatedInOrder
<1>1. CLIInv => CreatedInOrder
  <2> SUFFICES ASSUME CLIInv, NEW c \in Calls, cmd[c].name \in {"create", "generate"}
               PROVE  /\ \A i \in 1..cmd[c].sent : \E e \in cmd[c].ever : IsEntry(e, cmd[c].file[i])
                      /\ cmd[c].code = "ok" => cmd[c].sent = Len(cmd[c].file)
    BY Zenon DEF CreatedInOrder
  <2>1. cmd[c] # NoCommand
    BY DEF NoCommand
  <2>2. Creating(db, cmd[c], call[c])
    BY Zenon, <2>1 DEF CLIInv, Good
  <2>3. \A e, r : IsEntry(e, r) <=> Equals(db, e, r)
    BY Zenon DEF IsEntry, Equals
  <2> QED
    BY Zenon, <2>2, <2>3 DEF Creating
<1> QED
  BY <1>1, CLIInvariance, PTL

\* entry show never shows an entry that does not match or was never there, and misses none that
\* matches and was there all the time, unless it was asked by selectors alone.
THEOREM ShownEntriesAreExact == Spec => []ShowIsExact
<1>1. CLIInv => ShowIsExact
  <2> SUFFICES ASSUME CLIInv, NEW c \in Calls, cmd[c].name = "show", cmd[c].code = "ok"
               PROVE  LET q == cmd[c].query
                      IN /\ cmd[c].shown \subseteq Matches(q) \cap cmd[c].ever
                         /\ (q.selectors = <<>> \/ q.parent # None \/ q.spiffe # None) =>
                              Matches(q) \cap cmd[c].always \subseteq cmd[c].shown
    BY Zenon DEF ShowIsExact
  <2>1. cmd[c] # NoCommand
    BY DEF NoCommand
  <2>2. Shown(db, cmd[c])
    BY <2>1 DEF CLIInv, Good, Showing
  <2>3. \A q : Matches(q) = MatchesOf(db, q)
    BY Zenon DEF Matches, MatchesOf
  <2> QED
    BY Zenon, <2>2, <2>3 DEF Shown
<1> QED
  BY <1>1, CLIInvariance, PTL

(***************************************************************************)
(* Any calls of the data store, in any order. Counting rows takes the      *)
(* theorems on finite sets.                                                *)
(***************************************************************************)
INSTANCE FiniteSetTheorems

\* Counting the positions of a list that have a property finds that all have it.
LEMMA Counting ==
  ASSUME NEW q \in Seq(Selectors), NEW P \in SUBSET (DOMAIN q)
  PROVE  Cardinality(P) = Len(q) <=> P = DOMAIN q
<1>1. DOMAIN q = 1..Len(q) /\ Len(q) \in Nat
  OBVIOUS
<1>2. IsFiniteSet(DOMAIN q) /\ Cardinality(DOMAIN q) = Len(q)
  <2> DEFINE n == Len(q)
  <2>1. 1 \in Int /\ n \in Int
    BY <1>1
  <2> HIDE DEF n
  <2>2. IsFiniteSet(1..n) /\ Cardinality(1..n) = IF 1 > n THEN 0 ELSE n - 1 + 1
    BY <2>1, FS_Interval, Zenon
  <2>3. n \in Nat => (IF 1 > n THEN 0 ELSE n - 1 + 1) = n
    OBVIOUS
  <2> QED
    BY Zenon, <1>1, <2>2, <2>3 DEF n
<1> QED
  BY Zenon, <1>2, FS_Subset

\* listMatchingEntries counts for each entry how many of the selectors refer to it: the entries
\* it is left with have all of them.
LEMMA CountedEntries ==
  ASSUME NEW d, NEW q \in Seq(Selectors)
  PROVE  EntryIDs(d, q) = {e \in EntryIds : Elements(q) \subseteq SelectorsOf(d, e)}
<1>1. ASSUME NEW e \in EntryIds
      PROVE  Cardinality({i \in DOMAIN q : <<e, q[i]>> \in d.selector}) = Len(q)
               <=> Elements(q) \subseteq SelectorsOf(d, e)
  <2> DEFINE P == {i \in DOMAIN q : <<e, q[i]>> \in d.selector}
  <2>1. P = DOMAIN q <=> \A i \in DOMAIN q : <<e, q[i]>> \in d.selector
    BY Zenon
  <2>2. \A i \in DOMAIN q : q[i] \in Selectors
    OBVIOUS
  <2>3. Elements(q) \subseteq SelectorsOf(d, e) <=> \A i \in DOMAIN q : <<e, q[i]>> \in d.selector
    BY Zenon, <2>2 DEF Elements, SelectorsOf
  <2> QED
    BY Zenon, <2>1, <2>3, Counting
<1> QED
  BY Zenon, <1>1 DEF EntryIDs

LEMMA ElementsAreFinite ==
  ASSUME NEW q \in Seq(Selectors)
  PROVE  IsFiniteSet(Elements(q))
<1>1. IsFiniteSet(DOMAIN q)
  <2>1. DOMAIN q = 1..Len(q) /\ Len(q) \in Nat
    OBVIOUS
  <2> QED
    BY <2>1, FS_Interval
<1>2. q \in Surjection(DOMAIN q, Elements(q))
  BY DEF Surjection, Elements
<1> QED
  BY Zenon, <1>1, <1>2, FS_Surjection

\* Counting selectors, as ListSelectorEntries does, means something only for finite sets.
TablesInv == db \in DB /\ \A e \in EntryIds : IsFiniteSet(SelectorsOf(db, e))

LEMMA ListsAreSequences == Lists \subseteq Seq(Selectors)
  BY DEF Lists

LEMMA TablesInit == StoreInit => TablesInv
<1> SUFFICES ASSUME StoreInit PROVE TablesInv
  BY Zenon
<1>1. db \in DB
  BY Zenon, EmptyTables DEF StoreInit
<1>2. \A e \in EntryIds : SelectorsOf(db, e) = {}
  BY Zenon DEF StoreInit, EmptyDB, SelectorsOf
<1> QED
  BY Zenon, <1>1, <1>2, FS_EmptySet DEF TablesInv

LEMMA TablesStep ==
  ASSUME TablesInv, [StoreNext]_db
  PROVE  TablesInv' /\ StaysDeleted(db, db')
<1>0. db \in DB
  BY Zenon DEF TablesInv
<1>1. ASSUME db' \in DB, StaysDeleted(db, db'), SameEntries(db, db')
      PROVE  TablesInv' /\ StaysDeleted(db, db')
  BY Zenon, <1>1 DEF TablesInv, SameEntries, SelectorsOf
<1>2. CASE db' = db
  BY Zenon, <1>0, <1>1, <1>2, Unchanged
<1>3. CASE TokenCall
  <2>1. \/ \E t \in Tokens, x \in Nat : db' = RegisterToken(db, t, x).db
        \/ \E t \in Tokens : db' = DeleteToken(db, t).db
        \/ \E x \in Nat : db' = PruneTokens(db, x).db
    BY Zenon, <1>3, CallsAssumption
       DEF TokenCall, CallRegisterToken, CallDeleteToken, CallPruneTokens, Call
  <2> QED
    BY Zenon, <1>0, <1>1, <2>1, TokenCalls
<1>4. CASE NodeCall
  <2>1. PICK i \in Ids, n \in Nat :
          db' \in {CreateAttestedNodeEntry(db, i, n).db, UpdateAttestedNodeEntry(db, i, n).db,
                   DeleteAttestedNodeEntry(db, i).db}
    <3>1. 0 \in Nat
      BY Zenon
    <3> QED
      BY Zenon, <1>4, <3>1, CallsAssumption
         DEF NodeCall, CallCreateNode, CallUpdateNode, CallDeleteNode, Call
  <2> QED
    BY Zenon, <1>0, <1>1, <2>1, NodeCalls
<1>5. CASE ResolverCall
  <2>1. PICK i \in Ids : \/ \E s \in Selectors : db' = CreateNodeResolverMapEntry(db, i, s).db
                         \/ \E S : db' = DeleteNodeResolverMapEntry(db, i, S).db
    BY Zenon, <1>5 DEF ResolverCall, CallCreateResolver, CallDeleteResolver, Call
  <2> QED
    BY Zenon, <1>0, <1>1, <2>1, ResolverCalls
<1>6. CASE BundleCall
  BY <1>0, <1>1, <1>6, BundleCalls DEF BundleCall, CallCreateBundle, CallUpdateBundle,
                                       CallAppendBundle, CallDeleteBundle, Call
<1>7. CASE CallCreateEntry \/ CallUpdateEntry
  <2>1. PICK e \in EntryIds, r \in Arguments :
          db' \in {CreateRegistrationEntry(db, e, r).db, UpdateRegistrationEntry(db, e, r).db}
    BY Zenon, <1>7 DEF CallCreateEntry, CallUpdateEntry, Call
  <2>2. db' = db \/ db' = StoreEntry(db, e, r)
    BY Zenon, <2>1 DEF CreateRegistrationEntry, UpdateRegistrationEntry, Return, Fail
  <2>3. r \in Requests /\ r.selectors \in Seq(Selectors)
    BY Zenon, ListsAreSequences DEF Arguments, Requests
  <2>4. CASE db' = StoreEntry(db, e, r)
    <3>1. /\ db' \in DB /\ SelectorsOf(db', e) = Elements(r.selectors)
          /\ db'.token = db.token /\ db'.node = db.node /\ db'.resolver = db.resolver
          /\ \A f \in EntryIds \ {e} : SelectorsOf(db', f) = SelectorsOf(db, f)
      BY <1>0, <2>3, <2>4, StoredEntry
    <3>2. IsFiniteSet(Elements(r.selectors))
      BY Zenon, <2>3, ElementsAreFinite
    <3>3. \A f \in EntryIds : IsFiniteSet(SelectorsOf(db', f))
      BY Zenon, <3>1, <3>2 DEF TablesInv
    <3> QED
      BY Zenon, <3>1, <3>3 DEF TablesInv, StaysDeleted
  <2> QED
    BY Zenon, <1>2, <2>2, <2>4
<1>8. CASE CallDeleteEntry
  <2>1. PICK e \in EntryIds : db' = DeleteRegistrationEntry(db, e).db
    BY Zenon, <1>8 DEF CallDeleteEntry, Call
  <2>2. /\ db' \in DB /\ db'.token = db.token /\ db'.node = db.node /\ db'.resolver = db.resolver
        /\ db'.selector = db.selector
    BY <1>0, <2>1, DeletedEntry
  <2> QED
    BY Zenon, <1>0, <2>2 DEF TablesInv, StaysDeleted, SelectorsOf
<1> QED
  BY Zenon, <1>2, <1>3, <1>4, <1>5, <1>6, <1>7, <1>8 DEF StoreNext, EntryCall

\* Every call of the data store leaves well-formed tables, in which an entry has finitely many
\* selectors.
THEOREM TablesInvariance == StoreSpec => []TablesInv
<1>1. TablesInv /\ [StoreNext]_db => TablesInv'
  BY Zenon, TablesStep
<1> QED
  BY <1>1, TablesInit, PTL DEF StoreSpec

\* The tables always have their type.
THEOREM TablesTypeCorrect == StoreSpec => []TablesOK
<1>1. TablesInv => TablesOK
  BY Zenon DEF TablesInv, TablesOK
<1> QED
  BY <1>1, TablesInvariance, PTL

\* However many selectors a list has, and however often it repeats one, listMatchingEntries finds
\* the live entries that have them all.
THEOREM MatchingFindsSupersets == StoreSpec => []MatchingIsSuperset
<1>1. TablesInv => MatchingIsSuperset
  <2> SUFFICES ASSUME NEW q \in Lists \ {<<>>}, ~ListMatchingEntries(db, q).err
               PROVE  ListMatchingEntries(db, q).res =
                        {e \in LiveEntries(db) : Elements(q) \subseteq SelectorsOf(db, e)}
    BY Zenon DEF MatchingIsSuperset
  <2>1. EntryIDs(db, q) \subseteq LiveEntries(db) /\ ListMatchingEntries(db, q).res = EntryIDs(db, q)
    BY Zenon DEF ListMatchingEntries, Matching, Return, Fail
  <2>2. EntryIDs(db, q) = {e \in EntryIds : Elements(q) \subseteq SelectorsOf(db, e)}
    BY Zenon, CountedEntries, ListsAreSequences
  <2> QED
    BY Zenon, <2>1, <2>2 DEF LiveEntries
<1> QED
  BY <1>1, TablesInvariance, PTL

\* listSelectorEntries, which compares only how many selectors an entry has, finds the live entries
\* with exactly the selectors of a list without repetitions.
THEOREM SelectorListsAreExact == StoreSpec => []SelectorListIsExact
<1>1. TablesInv => SelectorListIsExact
  <2> SUFFICES ASSUME TablesInv,
                      NEW q \in Lists \ {<<>>}, ~ListSelectorEntries(db, q).err,
                      Cardinality(Elements(q)) = Len(q)
               PROVE  ListSelectorEntries(db, q).res =
                        {e \in LiveEntries(db) : Elements(q) = SelectorsOf(db, e)}
    BY Zenon DEF SelectorListIsExact
  <2>1. /\ EntryIDs(db, q) \subseteq LiveEntries(db)
        /\ ListSelectorEntries(db, q).res =
             {e \in EntryIDs(db, q) : Cardinality(SelectorsOf(db, e)) = Len(q)}
    BY Zenon DEF ListSelectorEntries, Matching, Return, Fail
  <2>2. EntryIDs(db, q) = {e \in EntryIds : Elements(q) \subseteq SelectorsOf(db, e)}
    BY Zenon, CountedEntries, ListsAreSequences
  <2>3. \A e \in EntryIDs(db, q) :
          Cardinality(SelectorsOf(db, e)) = Len(q) <=> Elements(q) = SelectorsOf(db, e)
    <3> SUFFICES ASSUME NEW e \in EntryIDs(db, q)
                 PROVE  Cardinality(SelectorsOf(db, e)) = Len(q) <=> Elements(q) = SelectorsOf(db, e)
      BY Zenon
    <3>1. IsFiniteSet(SelectorsOf(db, e)) /\ Elements(q) \in SUBSET SelectorsOf(db, e)
      BY Zenon, <2>2 DEF TablesInv
    <3> QED
      BY Zenon, <3>1, FS_Subset
  <2> QED
    BY Zenon, <2>1, <2>2, <2>3 DEF LiveEntries
<1> QED
  BY <1>1, TablesInvariance, PTL

\* No call brings back a token, an agent or a node selector that was deleted.
THEOREM DeletionIsFinal == StoreSpec => DeletedStaysDeleted
<1>1. TablesInv /\ [StoreNext]_db => [StaysDeleted(db, db')]_db
  BY Zenon, TablesStep
<1>2. StoreSpec => [][StaysDeleted(db, db')]_db
  BY <1>1, TablesInvariance, PTL DEF StoreSpec
<1> QED
  BY Zenon, <1>2 DEF DeletedStaysDeleted, StaysDeleted

================================================================================
